---------------------------- MODULE MCAccountWork ----------------------------
(* Small instances of AccountWork: two lives of runtimes, and the            *)
(* kinds of work that compete for the account.                               *)
EXTENDS AccountWork, TLC

CONSTANTS i1

\* History comes after the fresh usage of its instance, and a peer competes with both.
SplitDuties == [i \in Instances |-> IF i = i1 THEN {"fresh", "history"} ELSE {"subs"}]

=============================================================================
