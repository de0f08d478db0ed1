\* One sensor that degrades, emergencies, a clock that may go back, and a Nav2
\* that drives forward or falls silent.
CONSTANTS
  Decel = 1
  Jerk = 1
  Capacity = 4
  MaxLinear = 2
  Freshness = 0
  Speeds = {2}
  Sensors = {lidar}
  SensorTimeout = 0
  RecoveryTimeout = 0
  RampTime = 1
  LocTimeout = 1
  AutoRecover = TRUE
  OdomAges <- NoOdom
  ZoneReports = {"Clear", "Emergency"}
  StatusReports = {"DEGRADED"}
  SummaryReports = {}
  ClockMayGoBack = TRUE
  QueueDepth = 1
SPECIFICATION FairSpec
INVARIANTS SettledStopHasFault
PROPERTIES CommandsObeyTick FaultBringsToRest NavLossBringsToRest
