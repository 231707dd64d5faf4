CONSTANTS
  Clients = {c1, c2}
  Others = {o1}
  ClientAddr = ClientAddr
  ServerAddr = ServerAddr
  InitCapacity = 1
  MaxQueue = 2
  MaxSent = 3
SYMMETRY ClientSymmetry
SPECIFICATION Spec
CHECK_DEADLOCK FALSE
INVARIANT TableIsConsistent
PROPERTY RepliesInOrder
