CONSTANTS
  MAX_DRIVERS = 1
  Pids = {p1}
  TaskTimes = {1, 2}
  TicksPerSecond = 2
  MaxSends = 3
  SyscallsMayFail = FALSE
SPECIFICATION FairSpec
PROPERTIES
  NeverFreedEarly
  BusyEnds
  NotifiedGetsBusy
  ExitCompletes
