CONSTANTS
  MAX_DRIVERS = 1
  Pids = {p1}
  TaskTimes = {1}
  TicksPerSecond = 2
  MaxSends = 1
  SyscallsMayFail = FALSE
SPECIFICATION Spec
INVARIANTS
  ActiveSlotHasDriver
