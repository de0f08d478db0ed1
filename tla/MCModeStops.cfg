\* One supervisor, one thread that may only request SafeStop.
CONSTANTS
  sup = sup
  other = other
  Threads = {sup, other}
  Supervisors = {sup}
  Targets <- StopTargets
  Codes = {c1}
  NoCode = NoCode
SPECIFICATION FairSpec
INVARIANTS TypeOK StopHolds
PROPERTIES LockFree
