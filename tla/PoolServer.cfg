CONSTANTS
  MAX_SERVICES = 2
  Clients = {c1, c2, c3}
  Nobody = Nobody
SPECIFICATION Spec
CHECK_DEADLOCK FALSE
INVARIANTS
  BusyFlagIsRight
PROPERTIES
  EveryClientEnds
