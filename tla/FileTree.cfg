CONSTANTS
  Names = {1, 2}
  Stems <- SmallStems
  MaxPath = 7
  MaxLinks = 2
  NoPath = NoPath
  Faults = {"rename", "mkdir", "opendir", "open", "read", "write", "unlink", "rmdir"}
  MaxFaults = 1
  MaxOpen = 3
  InitDepth = 2
  LinkTo = {1}
SPECIFICATION TreeSpec
CHECK_DEADLOCK FALSE
INVARIANTS
  TreeTypeOK
  NothingLost
  CopyIsFaithful
  DeleteStaysBelow
PROPERTIES
  OperationsEnd
