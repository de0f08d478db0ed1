\* The shipped shape of the parameters: a dynamic buffer that reaches past the
\* range below which returns are ignored.
CONSTANTS
  MaxSpeed = 2
  Decel = 1
  Latency = 1
  Buffer = 10
  Dynamic = TRUE
  MinBuffer = 8
  Factor = 1
  Overhang = 1
  IgnoreRange = 2
  StartGrace = 2
  Jerk = 1
  Capacity = 4
  MaxLinear = 2
  Freshness = 1
  Speeds = {0}
  Sensors = {lidar}
  SensorTimeout = 0
  RecoveryTimeout = 0
  RampTime = 2
  LocTimeout = 1
  AutoRecover = TRUE
  Accel = 1
  ScanEvery = 2
  Asks = {FALSE, TRUE}
  AllowProtective = FALSE
  Gaps = {18}
SPECIFICATION FairSpec
INVARIANTS TypeOK NoContact
PROPERTIES BlindStaysSlow OdomLossHalts RoomGetsGoing
