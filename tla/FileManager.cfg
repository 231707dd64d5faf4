CONSTANTS
  Names = {1, 2}
  Stems <- SmallStems
  MaxPath = 6
  MaxOpen = 3
  MaxLinks = 1
  NoPath = NoPath
  Faults = {}
  MaxFaults = 0
  InitDepth = 1
  LinkTo = {}
  First = {2}
  Denied <- Locked
  Rows = {6, 9}
  Start0 <- SmallTree
  Stray = {3, 7}
  MaxDialogs = 1
SPECIFICATION FMSpec
CHECK_DEADLOCK FALSE
INVARIANTS
  CursorInListing
  TerminalRestored
  ResizeIsNoticed
PROPERTIES
  ArrowShowsCursor
