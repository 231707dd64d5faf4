CONSTANTS
  Users = {u1, u2}
  MAX_MESSAGES_TOTAL = 5
  MAX_CLIENTS = 2
  MAX_DISPLAY_LINES = 2
  MaxTexts = 2
  ThreadsMayFail = TRUE
SPECIFICATION FairSpec
CHECK_DEADLOCK FALSE
INVARIANTS
  TypeOK
  NoSleepOnUnread
  DisplayIsRecent
  RosterFollowsMessages
PROPERTIES
  QuitExits
  TextsAreDelivered
