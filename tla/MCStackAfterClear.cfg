\* An emergency, cleared while the bridge still holds the ramp of its stop.
CONSTANTS
  Decel = 1
  Jerk = 1
  Capacity = 4
  MaxLinear = 2
  Freshness = 0
  Speeds = {0, 2}
  Sensors = {lidar}
  SensorTimeout = 0
  RecoveryTimeout = 0
  RampTime = 1
  LocTimeout = 1
  AutoRecover = TRUE
  OdomAges <- NoOdom
  ZoneReports = {"Clear", "Emergency"}
  StatusReports = {}
  SummaryReports = {}
  ClockMayGoBack = FALSE
  QueueDepth = 1
SPECIFICATION Spec
PROPERTIES SafeStopOnlySlows
