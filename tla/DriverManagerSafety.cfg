CONSTANTS
  MAX_DRIVERS = 2
  Pids = {p1, p2, p3}
  TaskTimes = {1}
  TicksPerSecond = 2
  MaxSends = 2
  SyscallsMayFail = TRUE
SPECIFICATION Spec
SYMMETRY PidSymmetry
INVARIANTS
  TypeOK
  ExclusiveSlots
  NoDriverOutlivesManager
  NoPhantomTask
