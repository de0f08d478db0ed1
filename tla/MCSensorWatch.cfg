\* One sensor with two messages to a publish period, heard over a lossy topic.
CONSTANTS
  lidar = lidar
  Order <- OneSensor
  Period <- EveryUnit
  PublishPeriod = 2
  Grace = 2
  HealthyPercent = 80
  DegradedPercent = 50
  SensorTimeout = 1
  RecoveryTimeout = 0
  RampTime = 1
  LocTimeout = 1
  AutoRecover = TRUE
  OdomAges <- NoOdom
  ZoneReports = {"Clear"}
  HealthDepth = 2
SPECIFICATION FairSpec
INVARIANTS TypeOK NoFalseAlarm PunctualNeverStops
PROPERTIES SilentSensorStops
