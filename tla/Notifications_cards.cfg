CONSTANTS
  b1 = b1
  b2 = b2
  u1 = u1
  Notices = {b1, b2, u1}
  Usage = {u1}
  None = None
  KeyOf <- SameKeys
  Together = {{b1, u1}, {b1, b2}}
  PlacesAsked = {1, 2}
  MaxTroubles = 1
SPECIFICATION NotificationFairSpec
INVARIANTS OneCardMoves NothingLeavesUnseen
PROPERTY EveryNotificationLeaves
CHECK_DEADLOCK FALSE
