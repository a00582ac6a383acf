--------------------------- MODULE MCNotifications ---------------------------
(* Small instances of Notifications: two notifications of a business, one of  *)
(* usage; what passes has two of the three at a time.                          *)
EXTENDS Notifications, TLC

CONSTANTS b1, b2, u1

\* Two that tell of the same.
SameKeys == (b1 :> "b") @@ (b2 :> "b") @@ (u1 :> "u")

OwnKeys == (b1 :> "b") @@ (b2 :> "c") @@ (u1 :> "u")

=============================================================================
