CONSTANTS
  b1 = b1
  b2 = b2
  u1 = u1
  Notices = {b1, b2, u1}
  Usage = {u1}
  None = None
  KeyOf <- OwnKeys
  Together = {{b1, b2, u1}}
  PlacesAsked = {2}
  MaxTroubles = 0
SPECIFICATION NotificationFairSpec
PROPERTY DismissalGoesOn
CHECK_DEADLOCK FALSE
