\* The limits of the drive bridge, in units of 5 mm/s and 50 ms; a buffer short
\* enough to overflow; the envelope's latency of 40 ms is less than one sample
\* and rounds down to none; its buffer is 1 m; a validator that admits the bridge's
\* deceleration; the caps of validate in these units.
CONSTANTS
  Decel = 10
  Jerk = 1
  Capacity = 48
  MaxSpeed = 480
  TopSpeed = 480
  MaxAccel = 10
  ComfortDecel = 10
  MaxJerk = 1
  Latency = 0
  Buffer = 4000
  HalfWord = 8
  NotFinite = NotFinite
  NoNumber = NoNumber
  MaxTasksCap = 100
  MinControlPeriod = 2
  SpeedCap = 20000
  AccelCap = 500
  LatencyCap = 20
  BufferCap = 400000
SPECIFICATION Spec
INVARIANTS StopValidates FitsWhenLargeEnough LoopIsProfile NoShorterThanStandard
CHECK_DEADLOCK FALSE
