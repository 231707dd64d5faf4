CONSTANTS
  Users = {u1, u2}
  SERVER_MESSAGES = 2
  CLIENT_MESSAGES = 1
  MAX_HISTORY = 3
  MAX_DISPLAY_LINES = 2
  Entries <- Lines
  NoEntry = NoEntry
  MaxTexts = 2
  LongTexts = {2}
  Quitters = {u1}
  ServerMayStop = TRUE
SPECIFICATION Spec
CHECK_DEADLOCK FALSE
INVARIANTS
  TypeOK
  OrderedDelivery
  DisplayIsRecent
  LeftIsForgotten
PROPERTIES
  RingImplementsLog
