\* Two sensors, odometry that may be silent or stamped ahead of the clock.
CONSTANTS
  Sensors = {lidar, gps}
  SensorTimeout = 0
  RecoveryTimeout = 0
  RampTime = 1
  LocTimeout = 1
  AutoRecover = TRUE
  OdomAges <- SkewedOdom
  ZoneReports = {"Clear", "Protective", "Emergency"}
  StatusReports = {"HEALTHY", "DEGRADED", "FAULT"}
  SummaryReports = {"HEALTHY", "DEGRADED", "FAULT"}
  ClockMayGoBack = TRUE
SPECIFICATION Spec
SYMMETRY SensorSymmetry
INVARIANTS TypeOK LatchedIffStopped StopNeedsFault DegradedIsSlow DegradedCanRecover
PROPERTIES StopAnnounced OnlyClearResumes
