CONSTANTS
  Users = {u1}
  MAX_MESSAGES_TOTAL = 2
  MAX_CLIENTS = 2
  MAX_DISPLAY_LINES = 4
  MaxTexts = 2
  ThreadsMayFail = FALSE
SPECIFICATION Spec
CHECK_DEADLOCK FALSE
INVARIANTS
  MessagesFit
