------------------------------ MODULE MCRequests ------------------------------
(* Small instances of SiteRequests and AccountSession, what a request to a     *)
(* site waits for and what it is sent with, one or the other from the start:   *)
(* an ordinary request, an urgent one and pages of usage that share a smaller  *)
(* budget; two requests of an account.                                         *)
EXTENDS SiteRequests, AccountSession

VARIABLE part

mcvars == <<vars, sessionVars, part>>

\* The session that stands still while the budget is used.
SomeSession == SessionInit /\ ~twoFactor

MCInit ==
  /\ Init
  /\ \/ part = "budget" /\ SomeSession
     \/ part = "session" /\ SessionInit

MCNext ==
  \/ part = "budget" /\ Next /\ UNCHANGED <<sessionVars, part>>
  \/ part = "session" /\ SessionNext /\ UNCHANGED <<vars, part>>

MCSpec == MCInit /\ [][MCNext]_mcvars

\* Only what moves is fair.
MCFairSpec ==
  /\ MCSpec
  /\ \/ part = "budget" /\ Fairness
     \/ part = "session" /\ SessionFairness

=============================================================================
