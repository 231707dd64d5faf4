CONSTANTS
  Users = {u1}
  SERVER_MESSAGES = 1
  CLIENT_MESSAGES = 2
  MAX_HISTORY = 4
  MAX_DISPLAY_LINES = 4
  Entries <- Lines
  NoEntry = NoEntry
  MaxTexts = 0
  LongTexts = {}
  Quitters = {u1}
  ServerMayStop = FALSE
SPECIFICATION FairSpec
CHECK_DEADLOCK FALSE
PROPERTIES
  QuitExits
