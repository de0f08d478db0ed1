\* One supervisor, one thread that may request any mode.
CONSTANTS
  sup = sup
  other = other
  Threads = {sup, other}
  Supervisors = {sup}
  Targets <- AllTargets
  Codes = {c1}
  NoCode = NoCode
SPECIFICATION Spec
INVARIANTS StopHolds
