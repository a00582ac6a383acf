------------------------------ MODULE LiveRead ------------------------------
(***************************************************************************)
(* What the live resource cache promises its callers, whatever it caches   *)
(* and whomever it makes wait: an answered read shows the upstream no      *)
(* older than the last acknowledged mutation that preceded the read's      *)
(* call, and never shows a revision the upstream has not had.  This is the *)
(* abstract specification that ResourceCoordinator implements.             *)
(***************************************************************************)
EXTENDS Naturals

CONSTANTS Resources,  \* what can be read
          Requests,   \* concurrent readers
          None        \* an absent value, or an error answer

VARIABLES upstream,  \* revision of the upstream's state
          acked,     \* acked[k]: revision of the last acknowledged mutation of k
          call       \* call[r]: the read r is making

lvars == <<upstream, acked, call>>

Idle == [phase |-> "idle", resource |-> None, floor |-> 0, value |-> None]

Init ==
  /\ upstream = 0
  /\ acked = [k \in Resources |-> 0]
  /\ call = [r \in Requests |-> Idle]

\* A mutation takes effect upstream.
Commit ==
  /\ upstream' = upstream + 1
  /\ UNCHANGED <<acked, call>>

\* Mutations of some resources, effective upstream, are acknowledged.
Acknowledge ==
  /\ acked' \in [Resources -> Nat]
  /\ \A k \in Resources : acked[k] <= acked'[k] /\ acked'[k] <= upstream
  /\ UNCHANGED <<upstream, call>>

Call(r, k) ==
  /\ call[r].phase = "idle"
  /\ call' = [call EXCEPT ![r] = [phase |-> "pending", resource |-> k,
                                  floor |-> acked[k], value |-> None]]
  /\ UNCHANGED <<upstream, acked>>

\* One revision (or an error) answers a set of readers at once.
Acceptable(r, v) == v = None \/ (v \in Nat /\ call[r].floor <= v /\ v <= upstream)

Answered(r, v) == [phase |-> "answered", resource |-> call[r].resource,
                   floor |-> call[r].floor, value |-> v]

Answer(S, v) ==
  /\ \A r \in S : call[r].phase = "pending" /\ Acceptable(r, v)
  /\ call' = [r \in Requests |-> IF r \in S THEN Answered(r, v) ELSE call[r]]
  /\ UNCHANGED <<upstream, acked>>

\* The reader takes its answer, or its future is dropped before it has one.
Leave(r) ==
  /\ call[r].phase # "idle"
  /\ call' = [call EXCEPT ![r] = Idle]
  /\ UNCHANGED <<upstream, acked>>

Next ==
  \/ Commit
  \/ Acknowledge
  \/ \E r \in Requests : Leave(r)
  \/ \E r \in Requests, k \in Resources : Call(r, k)
  \/ \E S \in SUBSET Requests : \E v \in 0..upstream \cup {None} : Answer(S, v)

Spec == Init /\ [][Next]_lvars

=============================================================================
