\* One thread makes every call.
CONSTANTS
  sup = sup
  other = other
  Threads = {sup}
  Supervisors = {sup}
  Targets <- SoloTargets
  Codes = {c1}
  NoCode = NoCode
SPECIFICATION FairSpec
INVARIANTS MonitorSeesMode
PROPERTIES ImplementsProtocol
