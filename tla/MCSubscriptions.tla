--------------------------- MODULE MCSubscriptions ---------------------------
(* Small instances of QuotaAlerts and SubscriptionSwitch, what the program    *)
(* does with the subscriptions it has read, one or the other from the start:  *)
(* one window and two evaluations that meet at it; two callers, a chain of    *)
(* three and one of two subscriptions.                                        *)
EXTENDS QuotaAlerts, SubscriptionSwitch, TLC

CONSTANTS g1, g2, g3

Set(c, s, r) == [chain |-> c, enabled |-> TRUE, strict |-> s, restore |-> r]

\* The settings that users choose from.
MCSettings == {Set(<<g1, g2, g3>>, TRUE, FALSE), Set(<<g2, g1>>, FALSE, TRUE), Set(<<g1, g2, g3>>, FALSE, FALSE)}

\* Only the first subscription has not run out.
MCQuotas == {(g1 :> "good") @@ (g2 :> "triggered") @@ (g3 :> "triggered")}

VARIABLE part

mcvars == <<vars, switchVars, part>>

\* The rule that stands still while the alerts move; the alerts have one initial state.
SomeSwitch == SwitchInit /\ chosen = Set(<<g1, g2, g3>>, FALSE, FALSE)

MCInit ==
  \/ part = "alerts" /\ Init /\ SomeSwitch
  \/ part = "switch" /\ Init /\ SwitchInit

MCNext ==
  \/ part = "alerts" /\ Next /\ UNCHANGED <<switchVars, part>>
  \/ part = "switch" /\ SwitchNext /\ UNCHANGED <<vars, part>>

MCSpec == MCInit /\ [][MCNext]_mcvars

\* Only what moves is fair.
MCFairSpec ==
  /\ MCSpec
  /\ \/ part = "alerts" /\ Fairness
     \/ part = "switch" /\ SwitchFairness

=============================================================================
