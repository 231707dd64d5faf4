CONSTANTS
  Users = {u1, u2}
  SERVER_MESSAGES = 1
  CLIENT_MESSAGES = 1
  MAX_HISTORY = 8
  MAX_DISPLAY_LINES = 4
  Entries <- Lines
  NoEntry = NoEntry
  MaxTexts = 2
  LongTexts = {}
  Quitters = {}
  ServerMayStop = FALSE
SPECIFICATION FairSpec
CHECK_DEADLOCK FALSE
PROPERTIES
  TextsAreDelivered
