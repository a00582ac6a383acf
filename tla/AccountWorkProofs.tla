-------------------------- MODULE AccountWorkProofs --------------------------
(***************************************************************************)
(* Proofs about AccountWork, for any instances, kinds and duties, with or  *)
(* without stalls.                                                         *)
(*                                                                         *)
(* That one worker holds the lease and that no due work is forgotten does  *)
(* not depend on the queue of demands, that is on who is first in line nor *)
(* on what a grant acquires: the first invariant takes any queue, over any *)
(* kinds, and only keeps the shape of the rest.  The second part proves    *)
(* what the queue holds, and with it the type of the whole state and that  *)
(* a grant acquires nothing but due work.                                  *)
(***************************************************************************)
EXTENDS AccountWork, FiniteSetTheorems, WellFoundedInduction, TLAPS

\* The functions and records of the state, over some set of kinds.
Shaped(B) ==
  /\ {"fresh", "subs", "history"} \subseteq B
  /\ worker \in [Instances -> [phase : WorkerPhase, acquired : SUBSET B, requeue : SUBSET B]]
  /\ pending \in [Instances -> [queued : SUBSET B, active : SUBSET B, settled : BOOLEAN]]
  /\ owed \in [Instances -> SUBSET Kinds]

Shape == \E B : Shaped(B)

\* A worker whose lease has not expired holds it.
LeaseHeld == \A i \in Instances : i \notin lapsed /\ Working(i) => lease = i

\* What the worker will still attempt.
ToDo(w, p) ==
  CASE w.phase = "asking" -> p.active
    [] w.phase = "fresh" -> {"fresh"} \cup (w.acquired \cap {"subs"})
    [] w.phase = "subs" -> {"subs"}
    [] w.phase \in {"checking", "reading"} -> {"history"}
    [] OTHER -> {}

\* What is owed is queued or active, and what of it is active is still to do, queued
\* again or about to be.
Kept(w, p, o) ==
  /\ o \subseteq p.queued \cup p.active
  /\ o \cap p.active \subseteq p.queued \cup w.requeue \cup ToDo(w, p)
  /\ w.phase = "idle" => p.active = {} /\ w.requeue = {}
  /\ w.phase = "fresh" => "fresh" \in w.acquired
  /\ w.phase = "subs" => "subs" \in w.acquired

WorkKept == \A i \in Instances : Kept(worker[i], pending[i], owed[i])

IndInv == Shape /\ LeaseHeld /\ WorkKept

-----------------------------------------------------------------------------
(* What a step does to the worker, the pending work and what is owed.       *)

Others(i) == \A j \in Instances \ {i} : worker'[j] = worker[j]

LEMMA MoveEffect ==
  ASSUME NEW B, Shaped(B), NEW i \in Instances, NEW p \in WorkerPhase, Move(i, p)
  PROVE  /\ worker' \in [Instances -> [phase : WorkerPhase, acquired : SUBSET B, requeue : SUBSET B]]
         /\ Others(i)
         /\ worker'[i].phase = p
         /\ worker'[i].acquired = worker[i].acquired
         /\ worker'[i].requeue = worker[i].requeue
  BY DEF Shaped, Move, Others

LEMMA RequeueEffect ==
  ASSUME NEW B, Shaped(B), NEW i \in Instances, NEW p \in WorkerPhase, NEW k \in B,
         MoveAndRequeue(i, p, k)
  PROVE  /\ worker' \in [Instances -> [phase : WorkerPhase, acquired : SUBSET B, requeue : SUBSET B]]
         /\ Others(i)
         /\ worker'[i].phase = p
         /\ worker'[i].acquired = worker[i].acquired
         /\ worker'[i].requeue = worker[i].requeue \cup {k}
  BY DEF Shaped, MoveAndRequeue, Others

LEMMA GiveUpEffect ==
  ASSUME NEW B, Shaped(B), NEW i \in Instances,
         worker' = [worker EXCEPT ![i].phase = "done", ![i].requeue = pending[i].active]
  PROVE  /\ worker' \in [Instances -> [phase : WorkerPhase, acquired : SUBSET B, requeue : SUBSET B]]
         /\ Others(i)
         /\ worker'[i].phase = "done"
         /\ worker'[i].acquired = worker[i].acquired
         /\ worker'[i].requeue = pending[i].active
<1> DEFINE old == worker[i]  active == pending[i].active
           new == [[old EXCEPT !.phase = "done"] EXCEPT !.requeue = active]
<1>1. active \in SUBSET B /\ old \in [phase : WorkerPhase, acquired : SUBSET B, requeue : SUBSET B]
  BY DEF Shaped
<1>2. worker' = [worker EXCEPT ![i] = new]
  OBVIOUS
<1> HIDE DEF old, active
<1>3. new \in [phase : WorkerPhase, acquired : SUBSET B, requeue : SUBSET B]
      /\ new.phase = "done" /\ new.acquired = old.acquired /\ new.requeue = active
  BY <1>1 DEF WorkerPhase
<1> HIDE DEF new
<1>4. worker \in [Instances -> [phase : WorkerPhase, acquired : SUBSET B, requeue : SUBSET B]]
  BY DEF Shaped
<1>5. worker' \in [Instances -> [phase : WorkerPhase, acquired : SUBSET B, requeue : SUBSET B]]
      /\ Others(i) /\ worker'[i] = new
  BY <1>2, <1>3, <1>4, ZenonT(40) DEF Others
<1> QED
  BY <1>3, <1>5 DEF old, active

LEMMA SpawnEffect ==
  ASSUME NEW B, Shaped(B), NEW i \in Instances,
         pending' = [pending EXCEPT ![i].queued = {}, ![i].active = pending[i].queued]
  PROVE  /\ pending' \in [Instances -> [queued : SUBSET B, active : SUBSET B, settled : BOOLEAN]]
         /\ \A j \in Instances \ {i} : pending'[j] = pending[j]
         /\ pending'[i].queued = {}
         /\ pending'[i].active = pending[i].queued
<1> DEFINE old == pending[i]  queued == pending[i].queued
           new == [[old EXCEPT !.queued = {}] EXCEPT !.active = queued]
<1>1. queued \in SUBSET B /\ old \in [queued : SUBSET B, active : SUBSET B, settled : BOOLEAN]
  BY DEF Shaped
<1>2. pending' = [pending EXCEPT ![i] = new]
  OBVIOUS
<1> HIDE DEF old, queued
<1>3. new \in [queued : SUBSET B, active : SUBSET B, settled : BOOLEAN]
      /\ new.queued = {} /\ new.active = queued
  BY <1>1
<1> HIDE DEF new
<1> QED
  BY <1>2, <1>3 DEF Shaped, old, queued

LEMMA CollectEffect ==
  ASSUME NEW B, Shaped(B), NEW i \in Instances, Collect(i)
  PROVE  /\ \A j \in Instances \ {i} : pending'[j] = pending[j]
         /\ pending'[i].queued = pending[i].queued \cup worker[i].requeue
         /\ pending'[i].active = {}
  BY DEF Shaped, Collect

LEMMA PhaseTypes ==
  ASSUME NEW acquired
  PROVE  /\ FirstPhase(acquired) \in {"fresh", "subs", "checking", "releasing"}
         /\ PhaseAfterFresh(acquired) \in {"subs", "checking", "releasing"}
         /\ PhaseAfterSubs(acquired) \in {"checking", "releasing"}
  BY DEF FirstPhase, PhaseAfterFresh, PhaseAfterSubs

\* Whatever happens, the state keeps its shape.
LEMMA ShapeStep ==
  ASSUME Shape, [Next]_vars
  PROVE  Shape'
<1>1. PICK B : Shaped(B)
  BY DEF Shape
<1> SUFFICES \E C : Shaped(C)'
  BY DEF Shape
<1>2. CASE UNCHANGED <<worker, pending, owed>>
  BY <1>1, <1>2 DEF Shaped
<1>3. ASSUME NEW i \in Instances, StartUp(i) \/ DemandsExpire(i) \/ InstanceRemoved(i) \/ Heartbeat(i)
      PROVE  UNCHANGED <<worker, pending, owed>>
  BY <1>3 DEF StartUp, DemandsExpire, InstanceRemoved, Heartbeat
<1>4. ASSUME NEW i \in Instances, NEW k \in Duties[i], Due(i, k)
      PROVE  Shaped(B)'
  <2>1. k \in Kinds /\ k \in B
    BY <1>1, DutiesType, KindsType DEF Shaped
  <2> QED
    BY <1>1, <1>4, <2>1 DEF Shaped, Due, database
<1>5. ASSUME NEW i \in Instances, SpawnWorker(i)
      PROVE  Shaped(B)'
  <2>1. Move(i, "asking") /\ owed' = owed
    BY <1>5 DEF SpawnWorker, Move
  <2>2. pending' \in [Instances -> [queued : SUBSET B, active : SUBSET B, settled : BOOLEAN]]
    BY <1>1, <1>5, SpawnEffect DEF SpawnWorker
  <2> QED
    BY <1>1, <2>1, <2>2, MoveEffect DEF Shaped, WorkerPhase
<1>6. ASSUME NEW i \in Instances, AskFails(i)
      PROVE  Shaped(B)'
  BY <1>1, <1>6, GiveUpEffect DEF Shaped, AskFails
<1>7. ASSUME NEW i \in Instances, NEW q, Waits(i, q)
      PROVE  Shaped(B)'
  BY <1>1, <1>7, GiveUpEffect DEF Shaped, Waits
<1>8. ASSUME NEW i \in Instances, NEW q, Grant(i, q)
      PROVE  Shaped(B \cup Demanded(q, i))'
  <2> DEFINE D == Demanded(q, i)
  <2>1. FirstPhase(D) \in WorkerPhase /\ Postponed(D) \subseteq D
    BY PhaseTypes DEF WorkerPhase, Postponed
  <2>2. worker' = [worker EXCEPT ![i] = [phase |-> FirstPhase(D), acquired |-> D,
                     requeue |-> (pending[i].active \ D) \cup Postponed(D)]]
    BY <1>8 DEF Grant, Begins
  <2>3. UNCHANGED <<pending, owed>>
    BY <1>8 DEF Grant
  <2> HIDE DEF D
  <2>4. Shaped(B \cup D)'
    BY <1>1, <2>1, <2>2, <2>3 DEF Shaped
  <2> QED
    BY <2>4 DEF D
<1>9. ASSUME NEW i \in Instances, Ask(i)
      PROVE  \E C : Shaped(C)'
  BY <1>7, <1>8, <1>9 DEF Ask
<1>10. ASSUME NEW i \in Instances, NEW p \in WorkerPhase, Move(i, p), NEW K,
              pending' = pending, owed' = owed \/ owed' = [owed EXCEPT ![i] = @ \ K]
       PROVE  Shaped(B)'
  BY <1>1, <1>10, MoveEffect, ZenonT(40) DEF Shaped
<1>11. ASSUME NEW i \in Instances, NEW p \in WorkerPhase, NEW k \in {"fresh", "history"},
              MoveAndRequeue(i, p, k), pending' = pending, owed' = owed
       PROVE  Shaped(B)'
  BY <1>1, <1>11, RequeueEffect DEF Shaped
<1>12. ASSUME NEW i \in Instances,
              \/ FreshSettles(i) \/ SubsEnd(i) \/ ReadWindow(i) \/ WindowRead(i)
              \/ HistoryEnds(i) \/ ReleaseLease(i) \/ ReleaseFails(i)
       PROVE  Shaped(B)'
  <2>1. \E p \in WorkerPhase : Move(i, p)
    BY <1>12, PhaseTypes DEF FreshSettles, SubsEnd, ReadWindow, WindowRead, HistoryEnds,
       ReleaseLease, ReleaseFails, WorkerPhase
  <2>2. pending' = pending
    BY <1>12 DEF FreshSettles, SubsEnd, ReadWindow, WindowRead, HistoryEnds,
       ReleaseLease, ReleaseFails, OnlyWorker
  <2>3. owed' = owed \/ \E k : owed' = [owed EXCEPT ![i] = @ \ {k}]
    BY <1>12 DEF FreshSettles, SubsEnd, ReadWindow, WindowRead, HistoryEnds,
       ReleaseLease, ReleaseFails, Attempted
  <2> QED
    BY <1>10, <2>1, <2>2, <2>3
<1>13. ASSUME NEW i \in Instances, FreshIsBusy(i) \/ Yield(i) \/ QuantumEnds(i)
       PROVE  Shaped(B)'
  <2>1. \E p \in WorkerPhase, k \in {"fresh", "history"} : MoveAndRequeue(i, p, k)
    BY <1>13, PhaseTypes DEF FreshIsBusy, Yield, QuantumEnds, WorkerPhase
  <2>2. pending' = pending /\ owed' = owed
    BY <1>13 DEF FreshIsBusy, Yield, QuantumEnds, OnlyWorker
  <2> QED
    BY <1>11, <2>1, <2>2
<1>14. ASSUME NEW i \in Instances, Collect(i)
       PROVE  Shaped(B)'
  BY <1>1, <1>14, ZenonT(40) DEF Shaped, Collect, IdleWorker, WorkerPhase, database
<1>15. ASSUME NEW i \in Instances, Crash(i)
       PROVE  Shaped(B)'
  BY <1>1, <1>15 DEF Shaped, Crash, IdleWorker, NoWork, WorkerPhase
<1>16. CASE Age \/ LeaseExpires \/ UNCHANGED vars
  BY <1>2, <1>16 DEF Age, LeaseExpires, vars
<1> QED
  BY <1>2, <1>3, <1>4, <1>5, <1>6, <1>9, <1>12, <1>13, <1>14, <1>15, <1>16
     DEF Next, WorkerStep, WorkerFailure

-----------------------------------------------------------------------------
(* The lease *)

\* A step that takes the instance from work to work, or ends its work, and leaves
\* the lease to the others.
LEMMA LeaseKept ==
  ASSUME LeaseHeld, NEW i \in Instances, Others(i), lapsed' = lapsed,
         Working(i)' => Working(i), lease' = lease
  PROVE  LeaseHeld'
  BY DEF LeaseHeld, Working, Others

\* Only a free lease is granted, and only its holder, or whoever sees its holder
\* lapse, removes it.
LEMMA LeaseStep ==
  ASSUME Shape, LeaseHeld, [Next]_vars
  PROVE  LeaseHeld'
<1>1. PICK B : Shaped(B)
  BY DEF Shape
<1>2. CASE UNCHANGED <<lease, lapsed, worker>>
  BY <1>2 DEF LeaseHeld, Working
<1>3. ASSUME NEW i \in Instances, SpawnWorker(i)
      PROVE  LeaseHeld'
  <2>1. Others(i) /\ ~Working(i)' /\ lapsed' = lapsed /\ lease' = lease
    BY <1>1, <1>3, MoveEffect DEF SpawnWorker, Move, Working, WorkerPhase, database
  <2> QED
    BY <2>1, LeaseKept
<1>4. ASSUME NEW i \in Instances, AskFails(i)
      PROVE  LeaseHeld'
  <2>1. Others(i) /\ ~Working(i)' /\ lapsed' = lapsed /\ lease' = lease
    BY <1>1, <1>4, GiveUpEffect DEF AskFails, Working, database
  <2> QED
    BY <2>1, LeaseKept
<1>5. ASSUME NEW i \in Instances, NEW q, Waits(i, q)
      PROVE  LeaseHeld'
  <2>1. Others(i) /\ ~Working(i)' /\ lapsed' = lapsed /\ lease' = lease
    BY <1>1, <1>5, GiveUpEffect DEF Waits, Working
  <2> QED
    BY <2>1, LeaseKept
<1>6. ASSUME NEW i \in Instances, NEW q, Grant(i, q), lease = None
      PROVE  LeaseHeld'
  <2>1. Others(i)
    BY <1>1, <1>6 DEF Grant, Begins, Others, Shaped
  <2>2. \A j \in Instances \ {i} : ~(j \notin lapsed /\ Working(j))
    BY <1>6, NoneIsNobody DEF LeaseHeld
  <2>3. lease' = i /\ lapsed' = lapsed \ {i}
    BY <1>6 DEF Grant
  <2> QED
    BY <2>1, <2>2, <2>3 DEF LeaseHeld, Working, Others
<1>7. ASSUME NEW i \in Instances, Ask(i)
      PROVE  LeaseHeld'
  BY <1>5, <1>6, <1>7 DEF Ask
<1>8. ASSUME NEW i \in Instances,
             \/ FreshSettles(i) \/ SubsEnd(i) \/ ReadWindow(i) \/ WindowRead(i)
             \/ HistoryEnds(i) \/ ReleaseFails(i)
      PROVE  LeaseHeld'
  <2>1. \E p \in WorkerPhase : Move(i, p)
    BY <1>8, PhaseTypes DEF FreshSettles, SubsEnd, ReadWindow, WindowRead, HistoryEnds,
       ReleaseFails, WorkerPhase
  <2>2. Working(i) /\ lapsed' = lapsed /\ lease' = lease
    BY <1>8 DEF FreshSettles, SubsEnd, ReadWindow, WindowRead, HistoryEnds, ReleaseFails,
       OnlyWorker, database, Working
  <2> QED
    BY <1>1, <2>1, <2>2, MoveEffect, LeaseKept
<1>9. ASSUME NEW i \in Instances, FreshIsBusy(i) \/ Yield(i) \/ QuantumEnds(i)
      PROVE  LeaseHeld'
  <2>1. \E p \in WorkerPhase, k \in B : MoveAndRequeue(i, p, k)
    BY <1>1, <1>9, PhaseTypes DEF FreshIsBusy, Yield, QuantumEnds, WorkerPhase, Shaped
  <2>2. Working(i) /\ lapsed' = lapsed /\ lease' = lease
    BY <1>9 DEF FreshIsBusy, Yield, QuantumEnds, OnlyWorker, database, Working
  <2> QED
    BY <1>1, <2>1, <2>2, RequeueEffect, LeaseKept
<1>10. ASSUME NEW i \in Instances, ReleaseLease(i)
       PROVE  LeaseHeld'
  <2>1. Others(i) /\ ~Working(i)'
    BY <1>1, <1>10, MoveEffect DEF ReleaseLease, Working, WorkerPhase
  <2>2. lapsed' = lapsed /\ (lease' = lease \/ lease = i)
    BY <1>10 DEF ReleaseLease, Released, Holds
  <2> QED
    BY <2>1, <2>2 DEF LeaseHeld, Working, Others
<1>11. ASSUME NEW i \in Instances, Collect(i) \/ Crash(i)
       PROVE  LeaseHeld'
  <2>1. Others(i) /\ ~Working(i)'
    BY <1>1, <1>11 DEF Collect, Crash, IdleWorker, Working, Others, Shaped
  <2>2. lease' = lease /\ (lapsed' = lapsed \/ lapsed' = lapsed \ {i})
    BY <1>11 DEF Collect, Crash, database
  <2> QED
    BY <2>1, <2>2 DEF LeaseHeld, Working, Others
<1>12. ASSUME LeaseExpires
       PROVE  LeaseHeld'
  BY <1>12 DEF LeaseExpires, LeaseHeld, Working, Holds
<1>13. ASSUME NEW i \in Instances, InstanceRemoved(i)
       PROVE  LeaseHeld'
  BY <1>13 DEF InstanceRemoved, LeaseHeld, Working, Holds
<1>14. ASSUME NEW i \in Instances,
              \/ StartUp(i) \/ DemandsExpire(i) \/ Heartbeat(i) \/ \E k \in Duties[i] : Due(i, k)
       PROVE  UNCHANGED <<lease, lapsed, worker>>
  BY <1>14 DEF StartUp, DemandsExpire, Heartbeat, Due, database
<1>15. CASE Age \/ UNCHANGED vars
  BY <1>2, <1>15 DEF Age, vars
<1> QED
  BY <1>2, <1>3, <1>4, <1>7, <1>8, <1>9, <1>10, <1>11, <1>12, <1>13, <1>14, <1>15
     DEF Next, WorkerStep, WorkerFailure

-----------------------------------------------------------------------------
(* The work *)

OtherWork(i) ==
  \A j \in Instances \ {i} : pending'[j] = pending[j] /\ owed'[j] = owed[j]

LEMMA OneKept ==
  ASSUME WorkKept, NEW i \in Instances, Others(i), OtherWork(i),
         Kept(worker'[i], pending'[i], owed'[i])
  PROVE  WorkKept'
  BY DEF WorkKept, Others, OtherWork

\* The worker attempts k and moves on, with no debt but what is to do next.
LEMMA AttemptKept ==
  ASSUME NEW B, Shaped(B), WorkKept, NEW i \in Instances, NEW p \in WorkerPhase \ {"idle"}, NEW k,
         Move(i, p), Attempted(i, k), pending' = pending,
         ToDo(worker[i], pending[i]) \subseteq {k} \cup ToDo(worker'[i], pending[i]),
         p = "fresh" => "fresh" \in worker[i].acquired,
         p = "subs" => "subs" \in worker[i].acquired
  PROVE  WorkKept'
<1>1. Others(i) /\ worker'[i].phase = p /\ worker'[i].acquired = worker[i].acquired
      /\ worker'[i].requeue = worker[i].requeue
  BY MoveEffect
<1>2. OtherWork(i) /\ owed'[i] = owed[i] \ {k} /\ pending'[i] = pending[i]
  BY DEF Attempted, OtherWork, Shaped
<1>3. Kept(worker[i], pending[i], owed[i])
  BY DEF WorkKept
<1>4. Kept(worker'[i], pending'[i], owed'[i])
  BY <1>1, <1>2, <1>3 DEF Kept
<1> QED
  BY <1>1, <1>2, <1>4, OneKept

\* The worker moves on with no attempt.
LEMMA MoveKept ==
  ASSUME NEW B, Shaped(B), WorkKept, NEW i \in Instances, NEW p \in {"checking", "reading", "done"},
         Move(i, p), UNCHANGED <<pending, owed>>,
         ToDo(worker[i], pending[i]) \subseteq ToDo(worker'[i], pending[i])
  PROVE  WorkKept'
<1>1. Others(i) /\ worker'[i].phase = p /\ worker'[i].requeue = worker[i].requeue
  BY MoveEffect DEF WorkerPhase
<1>2. Kept(worker[i], pending[i], owed[i])
  BY DEF WorkKept
<1>3. Kept(worker'[i], pending'[i], owed'[i])
  BY <1>1, <1>2 DEF Kept
<1> QED
  BY <1>1, <1>3, OneKept DEF OtherWork

\* The worker leaves k for another time and moves on.
LEMMA RequeueKept ==
  ASSUME NEW B, Shaped(B), WorkKept, NEW i \in Instances, NEW p \in WorkerPhase \ {"idle"}, NEW k \in B,
         MoveAndRequeue(i, p, k), UNCHANGED <<pending, owed>>,
         ToDo(worker[i], pending[i]) \subseteq {k} \cup ToDo(worker'[i], pending[i]),
         p = "fresh" => "fresh" \in worker[i].acquired,
         p = "subs" => "subs" \in worker[i].acquired
  PROVE  WorkKept'
<1>1. Others(i) /\ worker'[i].phase = p /\ worker'[i].acquired = worker[i].acquired
      /\ worker'[i].requeue = worker[i].requeue \cup {k}
  BY RequeueEffect
<1>2. Kept(worker[i], pending[i], owed[i])
  BY DEF WorkKept
<1>3. Kept(worker'[i], pending'[i], owed'[i])
  BY <1>1, <1>2 DEF Kept
<1> QED
  BY <1>1, <1>3, OneKept DEF OtherWork

\* A worker that gives up leaves all of it for another time.
LEMMA GiveUpKept ==
  ASSUME NEW B, Shaped(B), WorkKept, NEW i \in Instances, UNCHANGED <<pending, owed>>,
         worker' = [worker EXCEPT ![i].phase = "done", ![i].requeue = pending[i].active]
  PROVE  WorkKept'
<1>1. Others(i) /\ worker'[i].phase = "done" /\ worker'[i].requeue = pending[i].active
  BY GiveUpEffect
<1>2. Kept(worker[i], pending[i], owed[i])
  BY DEF WorkKept
<1>3. Kept(worker'[i], pending'[i], owed'[i])
  BY <1>1, <1>2 DEF Kept
<1> QED
  BY <1>1, <1>3, OneKept DEF OtherWork

\* What the grant does not bring is queued again, and so is history unless it is alone.
LEMMA GrantKept ==
  ASSUME NEW B, Shaped(B), WorkKept, NEW i \in Instances, NEW q, Grant(i, q)
  PROVE  WorkKept'
<1> DEFINE D == Demanded(q, i)
<1>1. Others(i) /\ worker'[i] = [phase |-> FirstPhase(D), acquired |-> D,
                     requeue |-> (pending[i].active \ D) \cup Postponed(D)]
  BY DEF Grant, Begins, Others, Shaped
<1>2. pending' = pending /\ owed' = owed
  BY DEF Grant
<1>3. Kept(worker[i], pending[i], owed[i])
  BY DEF WorkKept
<1>4. owed[i] \subseteq {"fresh", "subs", "history"}
  BY KindsType DEF Shaped
<1> HIDE DEF D
<1>5. \A k \in owed[i] \cap pending[i].active :
        k \in D => k \in Postponed(D) \cup ToDo(worker'[i], pending[i])
  <2> SUFFICES ASSUME NEW k \in owed[i] \cap pending[i].active, k \in D
               PROVE  k \in Postponed(D) \cup ToDo(worker'[i], pending[i])
    OBVIOUS
  <2>1. CASE k = "fresh"
    BY <1>1, <2>1 DEF ToDo, FirstPhase
  <2>2. CASE k = "subs"
    BY <1>1, <2>2 DEF ToDo, FirstPhase, PhaseAfterFresh
  <2>3. CASE k = "history" /\ D # {"history"}
    BY <2>3 DEF Postponed
  <2>4. CASE k = "history" /\ D = {"history"}
    BY <1>1, <2>4 DEF ToDo, FirstPhase, PhaseAfterFresh, PhaseAfterSubs
  <2> QED
    BY <1>4, <2>1, <2>2, <2>3, <2>4
<1>6. FirstPhase(D) # "idle"
      /\ (FirstPhase(D) = "fresh" => "fresh" \in D) /\ (FirstPhase(D) = "subs" => "subs" \in D)
  BY DEF FirstPhase, PhaseAfterFresh, PhaseAfterSubs
<1>7. Kept(worker'[i], pending'[i], owed'[i])
  BY <1>1, <1>2, <1>3, <1>5, <1>6 DEF Kept
<1> QED
  BY <1>1, <1>2, <1>7, OneKept DEF OtherWork

\* No step forgets due work.
LEMMA WorkStep ==
  ASSUME Shape, WorkKept, [Next]_vars
  PROVE  WorkKept'
<1>1. PICK B : Shaped(B)
  BY DEF Shape
<1>2. CASE UNCHANGED <<pending, owed, worker>>
  BY <1>2 DEF WorkKept
<1>3. ASSUME NEW i \in Instances, NEW k \in Duties[i], Due(i, k)
      PROVE  WorkKept'
  <2>1. /\ pending'[i].queued = pending[i].queued \cup {k}
        /\ pending'[i].active = pending[i].active
        /\ owed'[i] = owed[i] \cup {k}
        /\ OtherWork(i) /\ worker' = worker
    BY <1>1, <1>3 DEF Due, Shaped, OtherWork
  <2>2. Kept(worker[i], pending[i], owed[i])
    BY DEF WorkKept
  <2>3. Kept(worker'[i], pending'[i], owed'[i])
    BY <2>1, <2>2 DEF Kept, ToDo
  <2> QED
    BY <2>1, <2>3, OneKept DEF Others
<1>4. ASSUME NEW i \in Instances, SpawnWorker(i)
      PROVE  WorkKept'
  <2>1. pending'[i].queued = {} /\ pending'[i].active = pending[i].queued
        /\ OtherWork(i) /\ owed'[i] = owed[i]
    BY <1>1, <1>4, SpawnEffect DEF SpawnWorker, OtherWork
  <2>2. Move(i, "asking") /\ worker[i].phase = "idle"
    BY <1>4 DEF SpawnWorker, Move
  <2>3. Others(i) /\ worker'[i].phase = "asking"
    BY <1>1, <2>2, MoveEffect DEF WorkerPhase
  <2>4. Kept(worker[i], pending[i], owed[i])
    BY DEF WorkKept
  <2>5. Kept(worker'[i], pending'[i], owed'[i])
    BY <2>1, <2>2, <2>3, <2>4 DEF Kept, ToDo
  <2> QED
    BY <2>1, <2>3, <2>5, OneKept
<1>5. ASSUME NEW i \in Instances, AskFails(i) \/ \E q : Waits(i, q)
      PROVE  WorkKept'
  BY <1>1, <1>5, GiveUpKept DEF AskFails, Waits
<1>6. ASSUME NEW i \in Instances, Ask(i)
      PROVE  WorkKept'
  BY <1>1, <1>5, <1>6, GrantKept DEF Ask
<1>7. ASSUME NEW i \in Instances, FreshSettles(i)
      PROVE  WorkKept'
  <2> DEFINE p == PhaseAfterFresh(worker[i].acquired)
  <2>1. Move(i, p) /\ Attempted(i, "fresh") /\ pending' = pending /\ worker[i].phase = "fresh"
    BY <1>7 DEF FreshSettles, OnlyWorker
  <2>2. p \in WorkerPhase \ {"idle", "fresh"}
        /\ (p = "subs" => "subs" \in worker[i].acquired)
        /\ ("subs" \in worker[i].acquired => p = "subs")
    BY PhaseTypes DEF PhaseAfterFresh, PhaseAfterSubs, WorkerPhase
  <2>3. worker'[i].phase = p
    BY <1>1, <2>1, <2>2, MoveEffect
  <2>4. ToDo(worker[i], pending[i]) \subseteq {"fresh"} \cup ToDo(worker'[i], pending[i])
    BY <2>1, <2>2, <2>3 DEF ToDo
  <2> QED
    BY <1>1, <2>1, <2>2, <2>4, AttemptKept
<1>8. ASSUME NEW i \in Instances, FreshIsBusy(i)
      PROVE  WorkKept'
  <2> DEFINE p == PhaseAfterFresh(worker[i].acquired)
  <2>1. MoveAndRequeue(i, p, "fresh") /\ UNCHANGED <<pending, owed>> /\ worker[i].phase = "fresh"
    BY <1>8 DEF FreshIsBusy, OnlyWorker
  <2>2. p \in WorkerPhase \ {"idle", "fresh"}
        /\ (p = "subs" => "subs" \in worker[i].acquired)
        /\ ("subs" \in worker[i].acquired => p = "subs")
    BY PhaseTypes DEF PhaseAfterFresh, PhaseAfterSubs, WorkerPhase
  <2>3. "fresh" \in B
    BY <1>1 DEF Shaped
  <2>4. worker'[i].phase = p
    BY <1>1, <2>1, <2>2, <2>3, RequeueEffect
  <2>5. ToDo(worker[i], pending[i]) \subseteq {"fresh"} \cup ToDo(worker'[i], pending[i])
    BY <2>1, <2>2, <2>4 DEF ToDo
  <2> QED
    BY <1>1, <2>1, <2>2, <2>3, <2>5, RequeueKept
<1>9. ASSUME NEW i \in Instances, SubsEnd(i)
      PROVE  WorkKept'
  <2> DEFINE p == PhaseAfterSubs(worker[i].acquired)
  <2>1. Move(i, p) /\ Attempted(i, "subs") /\ pending' = pending /\ worker[i].phase = "subs"
    BY <1>9 DEF SubsEnd, OnlyWorker
  <2>2. p \in {"checking", "releasing"} /\ p \in WorkerPhase
    BY PhaseTypes DEF WorkerPhase
  <2>3. ToDo(worker[i], pending[i]) \subseteq {"subs"} \cup ToDo(worker'[i], pending[i])
    BY <2>1 DEF ToDo
  <2> QED
    BY <1>1, <2>1, <2>2, <2>3, AttemptKept
<1>10. ASSUME NEW i \in Instances, ReadWindow(i) \/ WindowRead(i) \/ ReleaseLease(i) \/ ReleaseFails(i)
       PROVE  WorkKept'
  <2>1. PICK p \in {"checking", "reading", "done"} :
          /\ Move(i, p)
          /\ \/ worker[i].phase = "releasing"
             \/ worker[i].phase \in {"checking", "reading"} /\ p \in {"checking", "reading"}
    BY <1>10 DEF ReadWindow, WindowRead, ReleaseLease, ReleaseFails
  <2>2. UNCHANGED <<pending, owed>>
    BY <1>10 DEF ReadWindow, WindowRead, ReleaseLease, ReleaseFails, OnlyWorker
  <2>3. worker'[i].phase = p
    BY <1>1, <2>1, MoveEffect DEF WorkerPhase
  <2>4. ToDo(worker[i], pending[i]) \subseteq ToDo(worker'[i], pending[i])
    BY <2>1, <2>3 DEF ToDo
  <2> QED
    BY <1>1, <2>1, <2>2, <2>4, MoveKept
<1>11. ASSUME NEW i \in Instances, Yield(i) \/ QuantumEnds(i)
       PROVE  WorkKept'
  <2>1. /\ MoveAndRequeue(i, "releasing", "history") /\ UNCHANGED <<pending, owed>>
        /\ worker[i].phase = "checking"
    BY <1>11 DEF Yield, QuantumEnds, OnlyWorker
  <2>2. "history" \in B /\ "releasing" \in WorkerPhase
    BY <1>1 DEF Shaped, WorkerPhase
  <2>3. ToDo(worker[i], pending[i]) \subseteq {"history"} \cup ToDo(worker'[i], pending[i])
    BY <2>1 DEF ToDo
  <2> QED
    BY <1>1, <2>1, <2>2, <2>3, RequeueKept
<1>12. ASSUME NEW i \in Instances, HistoryEnds(i)
       PROVE  WorkKept'
  <2>1. /\ Move(i, "releasing") /\ Attempted(i, "history") /\ pending' = pending
        /\ worker[i].phase \in {"checking", "reading"}
    BY <1>12 DEF HistoryEnds, OnlyWorker
  <2>2. "releasing" \in WorkerPhase
    BY DEF WorkerPhase
  <2>3. ToDo(worker[i], pending[i]) \subseteq {"history"} \cup ToDo(worker'[i], pending[i])
    BY <2>1 DEF ToDo
  <2> QED
    BY <1>1, <2>1, <2>2, <2>3, AttemptKept
<1>13. ASSUME NEW i \in Instances, Collect(i)
       PROVE  WorkKept'
  <2>1. worker[i].phase = "done" /\ Kept(worker[i], pending[i], owed[i])
    BY <1>13 DEF Collect, WorkKept
  <2>2. Others(i) /\ worker'[i] = IdleWorker /\ owed'[i] = owed[i]
    BY <1>1, <1>13 DEF Collect, Others, Shaped
  <2>3. /\ pending'[i].queued = pending[i].queued \cup worker[i].requeue
        /\ pending'[i].active = {} /\ OtherWork(i)
    BY <1>1, <1>13, CollectEffect DEF Collect, OtherWork
  <2>4. Kept(worker'[i], pending'[i], owed'[i])
    BY <2>1, <2>2, <2>3 DEF Kept, ToDo, IdleWorker
  <2> QED
    BY <2>2, <2>3, <2>4, OneKept
<1>14. ASSUME NEW i \in Instances, Crash(i)
       PROVE  WorkKept'
  <2>1. /\ Others(i) /\ OtherWork(i)
        /\ worker'[i] = IdleWorker /\ pending'[i] = NoWork /\ owed'[i] = {}
    BY <1>1, <1>14 DEF Crash, Others, OtherWork, Shaped
  <2>2. Kept(worker'[i], pending'[i], owed'[i])
    BY <2>1 DEF Kept, IdleWorker, NoWork
  <2> QED
    BY <2>1, <2>2, OneKept
<1>15. ASSUME NEW i \in Instances,
              StartUp(i) \/ DemandsExpire(i) \/ InstanceRemoved(i) \/ Heartbeat(i)
       PROVE  WorkKept'
  BY <1>2, <1>15 DEF StartUp, DemandsExpire, InstanceRemoved, Heartbeat
<1>16. CASE Age \/ LeaseExpires \/ UNCHANGED vars
  BY <1>2, <1>16 DEF Age, LeaseExpires, vars
<1>17. ASSUME NEW i \in Instances, WorkerStep(i) \/ WorkerFailure(i)
       PROVE  WorkKept'
  BY <1>5, <1>6, <1>7, <1>8, <1>9, <1>10, <1>11, <1>12, <1>13, <1>17 DEF WorkerStep, WorkerFailure
<1> QED
  BY <1>3, <1>4, <1>14, <1>15, <1>16, <1>17 DEF Next

-----------------------------------------------------------------------------
(* The theorems *)

\* The invariant of the workers holds in every behaviour, whatever the instances, the
\* kinds of work, the stalls and the crashes.
THEOREM WorkInvariance == Spec => []IndInv
<1>1. Init => IndInv
  <2> SUFFICES ASSUME Init PROVE IndInv
    OBVIOUS
  <2>1. Shaped({"fresh", "subs", "history"})
    BY DEF Init, Shaped, IdleWorker, NoWork, WorkerPhase
  <2>2. LeaseHeld
    BY DEF Init, LeaseHeld, Working, IdleWorker
  <2>3. WorkKept
    BY DEF Init, WorkKept, Kept, IdleWorker, NoWork
  <2> QED
    BY <2>1, <2>2, <2>3 DEF IndInv, Shape
<1>2. IndInv /\ [Next]_vars => IndInv'
  BY ShapeStep, LeaseStep, WorkStep DEF IndInv
<1> QED
  BY <1>1, <1>2, PTL DEF Spec

\* Of the workers whose lease has not expired under them, at most one works
\* (enqueue_due_work_and_try_acquire_account_lease, release and cleanup_expired).
THEOREM OneWorkerPerAccount == Spec => []OneWorker
<1>1. IndInv => OneWorker
  BY DEF IndInv, LeaseHeld, OneWorker
<1> QED
  BY <1>1, WorkInvariance, PTL

\* Due work that nobody has attempted is queued or with a worker
\* (spawn_ready_account_workers, run_acquired_account_work, handle_account_worker_result).
THEOREM NoWorkIsForgotten == Spec => []NoWorkIsLost
<1>1. IndInv => NoWorkIsLost
  BY DEF IndInv, WorkKept, Kept, NoWorkIsLost
<1> QED
  BY <1>1, WorkInvariance, PTL

-----------------------------------------------------------------------------
(* What a grant acquires *)

\* What an instance demands is work that it has: queued while it has no worker, active
\* while the worker asks, nothing once the lease was granted, and queued again when the
\* worker that waited or gave up is collected.  The demands of the dead are nobody's work.
DemandedIsDue(w, p, demanded) ==
  CASE w.phase = "idle" -> demanded \subseteq p.queued
    [] w.phase = "asking" -> demanded \subseteq p.active
    [] w.phase = "done" -> demanded \subseteq p.queued \cup w.requeue
    [] OTHER -> demanded = {}

\* Only a live instance has a worker, what it acquired is active, and history runs alone.
Fits(life, w, p, demanded) ==
  /\ w.phase # "idle" => life = "running"
  /\ life # "dead" => DemandedIsDue(w, p, demanded)
  /\ w.phase \in {"fresh", "subs", "checking", "reading", "releasing"} => w.acquired \subseteq p.active
  /\ w.phase \in {"checking", "reading"} => "history" \in w.acquired
  /\ p.queued \cup p.active \cup w.acquired \cup w.requeue \subseteq Kinds

DemandsFit == \A i \in Instances : Fits(state[i], worker[i], pending[i], Demanded(queue, i))

QueueTyped == queue \in Seq(Demand) /\ aged \in 0..Len(queue)

\* The life of the instances, their registrations and the lease.
LivesTyped ==
  /\ state \in [Instances -> {"unborn", "running", "dead"}]
  /\ registered \subseteq Instances
  /\ lease \in Optional(Instances)
  /\ lapsed \subseteq Instances

-----------------------------------------------------------------------------
(* The demands that are left when an instance leaves the queue *)

\* Induction over the natural numbers, for a set of them: a number that is missing would
\* leave a least one.
LEMMA SetInduction ==
  ASSUME NEW S, 0 \in S, \A n \in Nat : n \in S => n + 1 \in S
  PROVE  Nat \subseteq S
<1> DEFINE missing == Nat \ S
<1>1. OpToRel(<, Nat) = {ss \in Nat \X Nat : ss[1] < ss[2]}
  BY DEF OpToRel
<1>2. SUFFICES ASSUME missing # {} PROVE FALSE
  OBVIOUS
<1>3. \E n \in missing : \A m \in missing : ~(<<m, n>> \in OpToRel(<, Nat))
  BY <1>2, WFMin, NatLessThanWellFounded
<1>4. PICK n \in missing : \A m \in missing : ~(m < n)
  BY <1>1, <1>3
<1>5. n # 0 /\ n - 1 \in Nat /\ n - 1 \notin missing
  BY <1>4
<1> QED
  BY <1>5

LEMMA OthersFinite ==
  ASSUME NEW q, NEW n \in Nat, NEW i
  PROVE  IsFiniteSet(OfOthers(q, n, i)) /\ Cardinality(OfOthers(q, n, i)) \in Nat
<1>1. IsFiniteSet(1..n)
  BY FS_Interval
<1> QED
  BY <1>1, FS_Subset, FS_CardinalityType DEF OfOthers

\* One more demand is one more of the others', or none.
LEMMA OneMore ==
  ASSUME NEW q, NEW n \in Nat, NEW i
  PROVE  /\ q[n + 1].owner # i =>
              /\ OfOthers(q, n + 1, i) = OfOthers(q, n, i) \cup {n + 1}
              /\ Cardinality(OfOthers(q, n + 1, i)) = Cardinality(OfOthers(q, n, i)) + 1
         /\ q[n + 1].owner = i => OfOthers(q, n + 1, i) = OfOthers(q, n, i)
<1>1. 1..(n + 1) = (1..n) \cup {n + 1} /\ n + 1 \notin 1..n
  OBVIOUS
<1>2. n + 1 \notin OfOthers(q, n, i)
  BY <1>1 DEF OfOthers
<1>3. q[n + 1].owner # i => OfOthers(q, n + 1, i) = OfOthers(q, n, i) \cup {n + 1}
  BY <1>1 DEF OfOthers
<1>4. q[n + 1].owner = i => OfOthers(q, n + 1, i) = OfOthers(q, n, i)
  BY <1>1 DEF OfOthers
<1> QED
  BY <1>2, <1>3, <1>4, OthersFinite, FS_AddElement

\* Every place of what is left is taken by a demand of the others.
LEMMA EveryPlaceIsTaken ==
  ASSUME NEW q, NEW i, NEW n \in Nat
  PROVE  \A p \in 1..Cardinality(OfOthers(q, n, i)) :
           \E m \in OfOthers(q, n, i) : Cardinality(OfOthers(q, m, i)) = p
<1> DEFINE Taken(l) == \A p \in 1..Cardinality(OfOthers(q, l, i)) :
                         \E m \in OfOthers(q, l, i) : Cardinality(OfOthers(q, m, i)) = p
           S == {l \in Nat : Taken(l)}
<1>1. 0 \in S
  <2>1. OfOthers(q, 0, i) = {}
    BY DEF OfOthers
  <2>2. Cardinality(OfOthers(q, 0, i)) = 0
    BY <2>1, FS_EmptySet
  <2> QED
    BY <2>2
<1>2. ASSUME NEW l \in Nat, l \in S
      PROVE  l + 1 \in S
  <2>1. CASE q[l + 1].owner = i
    BY <1>2, <2>1, OneMore
  <2>2. CASE q[l + 1].owner # i
    <3>1. /\ OfOthers(q, l + 1, i) = OfOthers(q, l, i) \cup {l + 1}
          /\ Cardinality(OfOthers(q, l + 1, i)) = Cardinality(OfOthers(q, l, i)) + 1
          /\ Cardinality(OfOthers(q, l, i)) \in Nat
      BY <2>2, OneMore, OthersFinite
    <3>2. ASSUME NEW p \in 1..Cardinality(OfOthers(q, l + 1, i))
          PROVE  \E m \in OfOthers(q, l + 1, i) : Cardinality(OfOthers(q, m, i)) = p
      <4>1. CASE p \in 1..Cardinality(OfOthers(q, l, i))
        BY <1>2, <3>1, <4>1
      <4>2. CASE p = Cardinality(OfOthers(q, l + 1, i))
        BY <3>1, <4>2
      <4> QED
        BY <3>1, <4>1, <4>2
    <3> QED
      BY <3>2
  <2> QED
    BY <2>1, <2>2
<1>3. Nat \subseteq S
  <2> HIDE DEF S
  <2> QED
    BY <1>1, <1>2, SetInduction
<1> QED
  BY <1>3

\* What is left is made of the others' demands, as many as there were.
LEMMA WithoutFacts ==
  ASSUME NEW q \in Seq(Demand), NEW i
  PROVE  /\ Without(q, i) \in Seq(Demand)
         /\ Len(Without(q, i)) = Cardinality(OfOthers(q, Len(q), i))
         /\ \A p \in DOMAIN Without(q, i) :
              \E m \in DOMAIN q : q[m].owner # i /\ Without(q, i)[p] = q[m]
<1> DEFINE others == OfOthers(q, Len(q), i)
           card == Cardinality(others)
           At(p) == CHOOSE m \in others : Cardinality(OfOthers(q, m, i)) = p
           left == [p \in 1..card |-> q[At(p)]]
<1>1. Len(q) \in Nat /\ card \in Nat
  BY OthersFinite
<1>2. \A p \in 1..card : At(p) \in others
  BY <1>1, EveryPlaceIsTaken
<1>3. \A m \in others : m \in DOMAIN q /\ q[m].owner # i
  BY DEF OfOthers
<1>4. Without(q, i) = left
  BY DEF Without
<1>5. \A m \in DOMAIN q : q[m] \in Demand
  OBVIOUS
<1> HIDE DEF others, card, At
<1>6. \A p \in 1..card : left[p] \in Demand
  BY <1>2, <1>3, <1>5
<1>7. left \in Seq(Demand) /\ Len(left) = card /\ DOMAIN left = 1..card
  BY <1>1, <1>6
<1>8. \A p \in 1..card : left[p] = q[At(p)]
  OBVIOUS
<1> HIDE DEF left
<1>9. \A p \in DOMAIN left : \E m \in DOMAIN q : q[m].owner # i /\ left[p] = q[m]
  BY <1>2, <1>3, <1>7, <1>8
<1> QED
  BY <1>4, <1>7, <1>9 DEF card, others

\* The aged demands that are left are the first of what is left.
LEMMA AgedLeft ==
  ASSUME NEW q, NEW i, NEW l \in Nat, NEW n \in 0..l
  PROVE  AgedWithout(q, n, i) \in 0..Cardinality(OfOthers(q, l, i))
<1>1. OfOthers(q, n, i) \subseteq OfOthers(q, l, i)
  BY DEF OfOthers
<1>2. n \in Nat /\ IsFiniteSet(OfOthers(q, l, i)) /\ Cardinality(OfOthers(q, l, i)) \in Nat
  BY OthersFinite
<1>3. Cardinality(OfOthers(q, n, i)) \in Nat
  BY <1>2, OthersFinite
<1>4. Cardinality(OfOthers(q, n, i)) <= Cardinality(OfOthers(q, l, i))
  BY <1>1, <1>2, FS_Subset
<1> QED
  BY <1>2, <1>3, <1>4 DEF AgedWithout

\* An instance that leaves demands nothing, and the others what they did or, for all that
\* matters, less.
LEMMA DemandedWithout ==
  ASSUME NEW q \in Seq(Demand), NEW i
  PROVE  /\ Demanded(Without(q, i), i) = {}
         /\ \A j : Demanded(Without(q, i), j) \subseteq Demanded(q, j)
<1> DEFINE left == Without(q, i)
<1>1. \A p \in DOMAIN left : \E m \in DOMAIN q : q[m].owner # i /\ left[p] = q[m]
  BY WithoutFacts
<1> HIDE DEF left
<1>2. \A p \in DOMAIN left : left[p].owner # i
  BY <1>1
<1>3. Demanded(left, i) = {}
  BY <1>2 DEF Demanded
<1>4. ASSUME NEW j, NEW k \in Demanded(left, j)
      PROVE  k \in Demanded(q, j)
  <2>1. PICK p \in DOMAIN left : left[p].owner = j /\ k \in left[p].kinds
    BY <1>4 DEF Demanded
  <2>2. PICK m \in DOMAIN q : left[p] = q[m]
    BY <1>1, <2>1
  <2> QED
    BY <2>1, <2>2 DEF Demanded
<1> QED
  BY <1>3, <1>4 DEF left

\* What enters the queue is the instance's, and of what it asked for.
LEMMA EnqueuedFacts ==
  ASSUME QueueTyped, NEW i \in Instances, NEW kinds \in SUBSET Kinds
  PROVE  /\ Enqueued(i, kinds) \in Seq(Demand)
         /\ Len(Enqueued(i, kinds)) >= Len(queue)
         /\ Demanded(Enqueued(i, kinds), i) \subseteq Demanded(queue, i) \cup kinds
         /\ \A j \in Instances \ {i} : Demanded(Enqueued(i, kinds), j) = Demanded(queue, j)
<1> DEFINE new == kinds \ Demanded(queue, i)
           d == [owner |-> i, kinds |-> new]
           q == Append(queue, d)
<1>1. queue \in Seq(Demand) /\ Len(queue) \in Nat
  BY DEF QueueTyped
<1>2. CASE new = {}
  BY <1>1, <1>2 DEF Enqueued
<1>3. CASE new # {}
  <2>1. Enqueued(i, kinds) = q
    BY <1>3 DEF Enqueued
  <2>2. d \in Demand /\ d.owner = i /\ d.kinds = new
    BY DEF Demand
  <2> HIDE DEF new, d
  <2>3. q \in Seq(Demand) /\ Len(q) = Len(queue) + 1 /\ DOMAIN queue = 1..Len(queue)
    BY <1>1, <2>2
  <2>4. DOMAIN q = 1..(Len(queue) + 1)
    BY <2>3
  <2>5. (\A n \in 1..Len(queue) : q[n] = queue[n]) /\ q[Len(queue) + 1] = d
    BY <1>1
  <2> HIDE DEF q
  <2>6. ASSUME NEW j \in Instances
        PROVE  Demanded(q, j) = IF j = i THEN Demanded(queue, j) \cup new ELSE Demanded(queue, j)
    <3>1. Demanded(queue, j) \subseteq Demanded(q, j)
      <4> SUFFICES ASSUME NEW k \in Demanded(queue, j) PROVE k \in Demanded(q, j)
        OBVIOUS
      <4>1. PICK n \in DOMAIN queue : queue[n].owner = j /\ k \in queue[n].kinds
        BY DEF Demanded
      <4>2. n \in DOMAIN q /\ q[n] = queue[n]
        BY <1>1, <2>3, <2>4, <2>5
      <4> QED
        BY <4>1, <4>2 DEF Demanded
    <3>2. j = i => new \subseteq Demanded(q, j)
      <4>1. Len(queue) + 1 \in DOMAIN q
        BY <1>1, <2>4
      <4> QED
        BY <2>2, <2>5, <4>1 DEF Demanded
    <3>3. ASSUME NEW k \in Demanded(q, j), k \notin Demanded(queue, j)
          PROVE  j = i /\ k \in new
      <4>1. PICK n \in DOMAIN q : q[n].owner = j /\ k \in q[n].kinds
        BY <3>3 DEF Demanded
      <4>2. n \notin 1..Len(queue)
        BY <2>3, <2>5, <3>3, <4>1 DEF Demanded
      <4>3. n = Len(queue) + 1
        BY <1>1, <2>4, <4>2
      <4> QED
        BY <2>2, <2>5, <4>1, <4>3
    <3> QED
      BY <3>1, <3>2, <3>3
  <2> QED
    BY <1>1, <2>1, <2>3, <2>6 DEF new
<1> QED
  BY <1>2, <1>3

-----------------------------------------------------------------------------
(* No step acquires, or asks for, work that is not due *)

\* An instance leaves the queue: it demands nothing more, and nobody demands more than
\* before.
LEMMA LeaveEffect ==
  ASSUME QueueTyped, NEW i, Leave(i)
  PROVE  QueueTyped' /\ \A j : Demanded(queue', j) \subseteq Demanded(queue, j)
<1>1. queue \in Seq(Demand) /\ Len(queue) \in Nat /\ aged \in 0..Len(queue)
  BY DEF QueueTyped
<1>2. queue' = Without(queue, i) /\ aged' = AgedWithout(queue, aged, i)
  BY DEF Leave
<1>3. queue' \in Seq(Demand) /\ Len(queue') = Cardinality(OfOthers(queue, Len(queue), i))
  BY <1>1, <1>2, WithoutFacts
<1>4. aged' \in 0..Cardinality(OfOthers(queue, Len(queue), i))
  BY <1>1, <1>2, AgedLeft
<1>5. \A j : Demanded(queue', j) \subseteq Demanded(queue, j)
  BY <1>1, <1>2, DemandedWithout
<1> QED
  BY <1>3, <1>4, <1>5 DEF QueueTyped

\* What an instance does to its worker and its work concerns nobody else.
LEMMA OneFits ==
  ASSUME DemandsFit, NEW i \in Instances, Others(i),
         \A j \in Instances \ {i} : pending'[j] = pending[j] /\ state'[j] = state[j],
         \A j \in Instances \ {i} : Demanded(queue', j) \subseteq Demanded(queue, j),
         Fits(state'[i], worker'[i], pending'[i], Demanded(queue', i))
  PROVE  DemandsFit'
<1>1. ASSUME NEW j \in Instances
      PROVE  Fits(state'[j], worker'[j], pending'[j], Demanded(queue', j))
  <2>1. CASE j = i
    BY <2>1
  <2>2. CASE j # i
    <3>1. Fits(state[j], worker[j], pending[j], Demanded(queue, j))
      BY DEF DemandsFit
    <3>2. /\ state'[j] = state[j] /\ worker'[j] = worker[j] /\ pending'[j] = pending[j]
          /\ Demanded(queue', j) \subseteq Demanded(queue, j)
      BY <2>2 DEF Others
    <3> QED
      BY <3>1, <3>2 DEF Fits, DemandedIsDue
  <2> QED
    BY <2>1, <2>2
<1> QED
  BY <1>1 DEF DemandsFit

\* Nobody's worker nor work changes, and nobody demands more.
LEMMA AllFit ==
  ASSUME DemandsFit, UNCHANGED <<worker, pending>>,
         \A j \in Instances : state'[j] = state[j] \/ (state[j] = "unborn" /\ state'[j] = "running"),
         \A j \in Instances : Demanded(queue', j) \subseteq Demanded(queue, j)
  PROVE  DemandsFit'
<1>1. ASSUME NEW j \in Instances
      PROVE  Fits(state'[j], worker'[j], pending'[j], Demanded(queue', j))
  <2>1. Fits(state[j], worker[j], pending[j], Demanded(queue, j))
    BY DEF DemandsFit
  <2>2. state'[j] # "dead" => state[j] # "dead"
    OBVIOUS
  <2>3. state[j] = "running" => state'[j] = "running"
    OBVIOUS
  <2> QED
    BY <2>1, <2>2, <2>3 DEF Fits, DemandedIsDue
<1> QED
  BY <1>1 DEF DemandsFit

\* A worker under its lease moves on, with or without something to queue again.
LEMMA WorkFits ==
  ASSUME NEW B, Shaped(B), DemandsFit, NEW i \in Instances, Working(i),
         NEW p \in {"subs", "checking", "reading", "releasing", "done"}, NEW K \in SUBSET Kinds,
         Others(i), worker'[i].phase = p, worker'[i].acquired = worker[i].acquired,
         worker'[i].requeue = worker[i].requeue \cup K,
         p \in {"checking", "reading"} => "history" \in worker[i].acquired,
         UNCHANGED <<state, queue, pending>>
  PROVE  DemandsFit'
<1>1. Fits(state[i], worker[i], pending[i], Demanded(queue, i))
  BY DEF DemandsFit
<1>2. state[i] = "running" /\ Demanded(queue, i) = {} /\ worker[i].acquired \subseteq pending[i].active
  BY <1>1 DEF Fits, DemandedIsDue, Working
<1>3. pending[i].queued \cup pending[i].active \cup worker'[i].acquired \cup worker'[i].requeue \subseteq Kinds
  BY <1>1 DEF Fits
<1>4. Fits(state[i], worker'[i], pending[i], Demanded(queue, i))
  BY <1>2, <1>3 DEF Fits, DemandedIsDue
<1> QED
  BY <1>4, OneFits

\* The worker gives up, and leaves what it was to do for another time.
LEMMA GiveUpFits ==
  ASSUME NEW B, Shaped(B), DemandsFit, NEW i \in Instances, worker[i].phase = "asking",
         worker' = [worker EXCEPT ![i].phase = "done", ![i].requeue = pending[i].active],
         UNCHANGED <<state, pending>>,
         Demanded(queue', i) \subseteq Demanded(queue, i) \cup pending[i].active,
         \A j \in Instances \ {i} : Demanded(queue', j) \subseteq Demanded(queue, j)
  PROVE  DemandsFit'
<1>1. Others(i) /\ worker'[i].phase = "done" /\ worker'[i].acquired = worker[i].acquired
      /\ worker'[i].requeue = pending[i].active
  BY GiveUpEffect
<1>2. Fits(state[i], worker[i], pending[i], Demanded(queue, i))
  BY DEF DemandsFit
<1>3. Fits(state[i], worker'[i], pending[i], Demanded(queue', i))
  <2>1. state[i] = "running" /\ Demanded(queue', i) \subseteq pending[i].active
    BY <1>2 DEF Fits, DemandedIsDue
  <2>2. pending[i].queued \cup pending[i].active \cup worker'[i].acquired \cup worker'[i].requeue \subseteq Kinds
    BY <1>1, <1>2 DEF Fits
  <2> QED
    BY <1>1, <2>1, <2>2 DEF Fits, DemandedIsDue
<1> QED
  BY <1>1, <1>3, OneFits

\* The lease brings what the queue held for its instance, which the worker has as active.
LEMMA GrantFits ==
  ASSUME NEW B, Shaped(B), DemandsFit, NEW i \in Instances, worker[i].phase = "asking",
         NEW q \in Seq(Demand), Grant(i, q),
         Demanded(q, i) \subseteq Demanded(queue, i) \cup pending[i].active,
         \A j \in Instances \ {i} : Demanded(q, j) = Demanded(queue, j)
  PROVE  DemandsFit'
<1> DEFINE D == Demanded(q, i)
<1>1. Others(i) /\ worker'[i] = [phase |-> FirstPhase(D), acquired |-> D,
                     requeue |-> (pending[i].active \ D) \cup Postponed(D)]
  BY DEF Grant, Begins, Others, Shaped
<1>2. queue' = Without(q, i) /\ UNCHANGED <<state, pending>>
  BY DEF Grant
<1>3. Demanded(queue', i) = {} /\ \A j : Demanded(queue', j) \subseteq Demanded(q, j)
  BY <1>2, DemandedWithout
<1>4. Fits(state[i], worker[i], pending[i], Demanded(queue, i))
  BY DEF DemandsFit
<1>5. state[i] = "running" /\ D \subseteq pending[i].active
  BY <1>4 DEF Fits, DemandedIsDue
<1> HIDE DEF D
<1>6. /\ FirstPhase(D) \in {"fresh", "subs", "checking", "releasing"}
      /\ FirstPhase(D) = "checking" => "history" \in D
      /\ Postponed(D) \subseteq D
  BY DEF FirstPhase, PhaseAfterFresh, PhaseAfterSubs, Postponed
<1>7. pending[i].queued \cup pending[i].active \cup worker'[i].acquired \cup worker'[i].requeue \subseteq Kinds
  BY <1>1, <1>4, <1>5, <1>6 DEF Fits
<1>8. Fits(state[i], worker'[i], pending[i], Demanded(queue', i))
  BY <1>1, <1>3, <1>5, <1>6, <1>7 DEF Fits, DemandedIsDue
<1>9. \A j \in Instances \ {i} : Demanded(queue', j) \subseteq Demanded(queue, j)
  BY <1>3
<1> QED
  BY <1>1, <1>2, <1>8, <1>9, OneFits

LEMMA FitStep ==
  ASSUME Shape, WorkKept, LivesTyped, QueueTyped, DemandsFit, [Next]_vars
  PROVE  DemandsFit'
<1>1. PICK B : Shaped(B)
  BY DEF Shape
<1>2. ASSUME NEW i \in Instances
      PROVE  /\ Fits(state[i], worker[i], pending[i], Demanded(queue, i))
             /\ Kept(worker[i], pending[i], owed[i])
  BY DEF DemandsFit, WorkKept
<1>3. ASSUME NEW i \in Instances, StartUp(i) \/ DemandsExpire(i) \/ InstanceRemoved(i) \/ Heartbeat(i)
      PROVE  DemandsFit'
  <2>1. UNCHANGED <<worker, pending>>
    BY <1>3 DEF StartUp, DemandsExpire, InstanceRemoved, Heartbeat
  <2>2. \A j \in Instances : state'[j] = state[j] \/ (state[j] = "unborn" /\ state'[j] = "running")
    <3>1. CASE StartUp(i)
      BY <3>1 DEF StartUp
    <3>2. CASE state' = state
      BY <3>2
    <3> QED
      BY <1>3, <3>1, <3>2 DEF DemandsExpire, InstanceRemoved, Heartbeat
  <2>3. \A j \in Instances : Demanded(queue', j) \subseteq Demanded(queue, j)
    <3>1. CASE Leave(i)
      BY <3>1, LeaveEffect
    <3>2. CASE queue' = queue
      BY <3>2
    <3> QED
      BY <1>3, <3>1, <3>2 DEF StartUp, DemandsExpire, InstanceRemoved, Heartbeat
  <2> QED
    BY <2>1, <2>2, <2>3, AllFit
<1>4. ASSUME NEW i \in Instances, NEW k \in Duties[i], Due(i, k)
      PROVE  DemandsFit'
  <2>1. k \in Kinds
    BY DutiesType
  <2>2. /\ pending'[i].queued = pending[i].queued \cup {k}
        /\ pending'[i].active = pending[i].active
        /\ \A j \in Instances \ {i} : pending'[j] = pending[j]
        /\ UNCHANGED <<state, worker, queue>>
    BY <1>1, <1>4 DEF Due, Shaped, database
  <2>3. Fits(state'[i], worker'[i], pending'[i], Demanded(queue', i))
    BY <1>2, <2>1, <2>2 DEF Fits, DemandedIsDue
  <2> QED
    BY <2>2, <2>3, OneFits DEF Others
<1>5. ASSUME NEW i \in Instances, SpawnWorker(i)
      PROVE  DemandsFit'
  <2>1. /\ pending'[i].queued = {} /\ pending'[i].active = pending[i].queued
        /\ \A j \in Instances \ {i} : pending'[j] = pending[j]
        /\ UNCHANGED <<state, queue>> /\ state[i] = "running" /\ worker[i].phase = "idle"
    BY <1>1, <1>5, SpawnEffect DEF SpawnWorker, database
  <2>2. Move(i, "asking")
    BY <1>5 DEF SpawnWorker, Move
  <2>3. Others(i) /\ worker'[i].phase = "asking" /\ worker'[i].acquired = worker[i].acquired
        /\ worker'[i].requeue = worker[i].requeue
    BY <1>1, <2>2, MoveEffect DEF WorkerPhase
  <2>4. Fits(state'[i], worker'[i], pending'[i], Demanded(queue', i))
    BY <1>2, <2>1, <2>3 DEF Fits, DemandedIsDue
  <2> QED
    BY <2>1, <2>3, <2>4, OneFits
<1>6. ASSUME NEW i \in Instances, AskFails(i)
      PROVE  DemandsFit'
  BY <1>1, <1>6, GiveUpFits DEF AskFails, database
<1>7. ASSUME NEW i \in Instances, Ask(i)
      PROVE  DemandsFit'
  <2> DEFINE q == Enqueued(i, pending[i].active)
  <2>1. pending[i].active \in SUBSET Kinds
    BY <1>2 DEF Fits
  <2>2. /\ q \in Seq(Demand)
        /\ Demanded(q, i) \subseteq Demanded(queue, i) \cup pending[i].active
        /\ \A j \in Instances \ {i} : Demanded(q, j) = Demanded(queue, j)
    BY <2>1, EnqueuedFacts
  <2>3. worker[i].phase = "asking" /\ (Grant(i, q) \/ Waits(i, q))
    BY <1>7 DEF Ask
  <2> HIDE DEF q
  <2>4. CASE Grant(i, q)
    BY <1>1, <2>2, <2>3, <2>4, GrantFits
  <2>5. CASE Waits(i, q)
    BY <1>1, <2>2, <2>3, <2>5, GiveUpFits DEF Waits
  <2> QED
    BY <2>3, <2>4, <2>5
<1>8. ASSUME NEW i \in Instances,
             \/ FreshSettles(i) \/ SubsEnd(i) \/ ReadWindow(i) \/ WindowRead(i)
             \/ HistoryEnds(i) \/ ReleaseLease(i) \/ ReleaseFails(i)
      PROVE  DemandsFit'
  <2>1. PICK p \in {"subs", "checking", "reading", "releasing", "done"} :
          Move(i, p) /\ (p \in {"checking", "reading"} =>
                           \/ worker[i].phase \in {"checking", "reading"}
                           \/ "history" \in worker[i].acquired)
    BY <1>8, PhaseTypes DEF FreshSettles, SubsEnd, ReadWindow, WindowRead, HistoryEnds,
       ReleaseLease, ReleaseFails, PhaseAfterFresh, PhaseAfterSubs
  <2>2. Working(i) /\ UNCHANGED <<state, queue, pending>>
    BY <1>8 DEF FreshSettles, SubsEnd, ReadWindow, WindowRead, HistoryEnds,
       ReleaseLease, ReleaseFails, OnlyWorker, database, Working
  <2>3. p \in {"checking", "reading"} => "history" \in worker[i].acquired
    BY <1>2, <2>1 DEF Fits
  <2>4. Others(i) /\ worker'[i].phase = p /\ worker'[i].acquired = worker[i].acquired
        /\ worker'[i].requeue = worker[i].requeue
    BY <1>1, <2>1, MoveEffect DEF WorkerPhase
  <2>5. {} \in SUBSET Kinds /\ worker'[i].requeue = worker[i].requeue \cup {}
    BY <2>4
  <2> QED
    BY <1>1, <2>2, <2>3, <2>4, <2>5, WorkFits
<1>9. ASSUME NEW i \in Instances, FreshIsBusy(i) \/ Yield(i) \/ QuantumEnds(i)
      PROVE  DemandsFit'
  <2>1. PICK p \in {"subs", "checking", "releasing"}, k \in {"fresh", "history"} :
          /\ MoveAndRequeue(i, p, k) /\ k \in worker[i].acquired
          /\ p = "checking" => "history" \in worker[i].acquired
    <3>1. CASE FreshIsBusy(i)
      BY <1>2, <3>1, PhaseTypes DEF FreshIsBusy, Kept, PhaseAfterFresh, PhaseAfterSubs
    <3>2. CASE Yield(i) \/ QuantumEnds(i)
      BY <1>2, <3>2 DEF Yield, QuantumEnds, Fits
    <3> QED
      BY <1>9, <3>1, <3>2
  <2>2. Working(i) /\ UNCHANGED <<state, queue, pending>>
    BY <1>9 DEF FreshIsBusy, Yield, QuantumEnds, OnlyWorker, database, Working
  <2>3. k \in B /\ p \in WorkerPhase /\ {k} \in SUBSET Kinds
    BY <1>1, <1>2, <2>1 DEF Shaped, WorkerPhase, Fits
  <2>4. Others(i) /\ worker'[i].phase = p /\ worker'[i].acquired = worker[i].acquired
        /\ worker'[i].requeue = worker[i].requeue \cup {k}
    BY <1>1, <2>1, <2>3, RequeueEffect
  <2> QED
    BY <1>1, <2>1, <2>2, <2>3, <2>4, WorkFits
<1>10. ASSUME NEW i \in Instances, Collect(i)
       PROVE  DemandsFit'
  <2>1. worker[i].phase = "done" /\ UNCHANGED <<state, queue>>
    BY <1>10 DEF Collect, database
  <2>2. Others(i) /\ worker'[i] = IdleWorker
    BY <1>1, <1>10 DEF Collect, Others, Shaped
  <2>3. /\ \A j \in Instances \ {i} : pending'[j] = pending[j]
        /\ pending'[i].queued = pending[i].queued \cup worker[i].requeue
        /\ pending'[i].active = {}
    BY <1>1, <1>10, CollectEffect
  <2>4. Fits(state'[i], worker'[i], pending'[i], Demanded(queue', i))
    BY <1>2, <2>1, <2>2, <2>3 DEF Fits, DemandedIsDue, IdleWorker
  <2> QED
    BY <2>1, <2>2, <2>3, <2>4, OneFits
<1>11. ASSUME NEW i \in Instances, Crash(i)
       PROVE  DemandsFit'
  <2>1. /\ Others(i) /\ queue' = queue
        /\ \A j \in Instances \ {i} : pending'[j] = pending[j] /\ state'[j] = state[j]
        /\ worker'[i] = IdleWorker /\ pending'[i] = NoWork /\ state'[i] = "dead"
    BY <1>1, <1>11 DEF Crash, Others, Shaped, LivesTyped, database
  <2>2. Fits(state'[i], worker'[i], pending'[i], Demanded(queue', i))
    BY <2>1 DEF Fits, IdleWorker, NoWork
  <2> QED
    BY <2>1, <2>2, OneFits
<1>12. CASE Age \/ LeaseExpires \/ UNCHANGED vars
  BY <1>12, AllFit DEF Age, LeaseExpires, vars
<1> QED
  BY <1>3, <1>4, <1>5, <1>6, <1>7, <1>8, <1>9, <1>10, <1>11, <1>12 DEF Next, WorkerStep, WorkerFailure

\* The queue stays one of demands, and those that have aged are in it.
LEMMA QueueStep ==
  ASSUME QueueTyped, DemandsFit, [Next]_vars
  PROVE  QueueTyped'
<1>1. queue \in Seq(Demand) /\ Len(queue) \in Nat /\ aged \in 0..Len(queue)
  BY DEF QueueTyped
<1>2. CASE UNCHANGED <<queue, aged>>
  BY <1>2 DEF QueueTyped
<1>3. ASSUME NEW i \in Instances, Leave(i)
      PROVE  QueueTyped'
  BY <1>3, LeaveEffect
<1>4. ASSUME NEW i \in Instances, Ask(i)
      PROVE  QueueTyped'
  <2> DEFINE q == Enqueued(i, pending[i].active)
  <2>1. pending[i].active \in SUBSET Kinds
    BY DEF DemandsFit, Fits
  <2>2. q \in Seq(Demand) /\ Len(q) \in Nat /\ Len(q) >= Len(queue)
    BY <2>1, EnqueuedFacts
  <2>3. Grant(i, q) \/ Waits(i, q)
    BY <1>4 DEF Ask
  <2> HIDE DEF q
  <2>4. aged \in 0..Len(q)
    BY <1>1, <2>2
  <2>5. CASE Grant(i, q)
    <3>1. queue' = Without(q, i) /\ aged' = AgedWithout(q, aged, i)
      BY <2>5 DEF Grant
    <3>2. queue' \in Seq(Demand) /\ Len(queue') = Cardinality(OfOthers(q, Len(q), i))
      BY <2>2, <3>1, WithoutFacts
    <3>3. aged' \in 0..Cardinality(OfOthers(q, Len(q), i))
      BY <2>2, <2>4, <3>1, AgedLeft
    <3> QED
      BY <3>2, <3>3 DEF QueueTyped
  <2>6. CASE Waits(i, q)
    BY <2>2, <2>4, <2>6 DEF Waits, QueueTyped
  <2> QED
    BY <2>3, <2>5, <2>6
<1>5. CASE Age
  BY <1>1, <1>5 DEF Age, QueueTyped
<1>6. ASSUME NEW i \in Instances, DemandsExpire(i) \/ InstanceRemoved(i)
      PROVE  QueueTyped'
  BY <1>3, <1>6 DEF DemandsExpire, InstanceRemoved
<1>7. ASSUME NEW i \in Instances,
             \/ StartUp(i) \/ SpawnWorker(i) \/ Crash(i) \/ Heartbeat(i)
             \/ \E k \in Duties[i] : Due(i, k)
      PROVE  UNCHANGED <<queue, aged>>
  BY <1>7 DEF StartUp, SpawnWorker, Crash, Heartbeat, Due, database
<1>8. ASSUME NEW i \in Instances,
             \/ FreshSettles(i) \/ SubsEnd(i) \/ ReadWindow(i) \/ WindowRead(i) \/ Yield(i)
             \/ ReleaseLease(i) \/ Collect(i) \/ WorkerFailure(i)
      PROVE  UNCHANGED <<queue, aged>>
  BY <1>8 DEF FreshSettles, SubsEnd, ReadWindow, WindowRead, Yield, ReleaseLease, Collect,
     WorkerFailure, AskFails, FreshIsBusy, QuantumEnds, HistoryEnds, ReleaseFails, OnlyWorker, database
<1>9. CASE LeaseExpires \/ UNCHANGED vars
  BY <1>2, <1>9 DEF LeaseExpires, vars
<1> QED
  BY <1>2, <1>4, <1>5, <1>6, <1>7, <1>8, <1>9 DEF Next, WorkerStep

LEMMA LivesStep ==
  ASSUME LivesTyped, [Next]_vars
  PROVE  LivesTyped'
<1> USE DEF LivesTyped
<1>1. ASSUME NEW i \in Instances, NEW q, Grant(i, q) \/ Waits(i, q)
      PROVE  LivesTyped'
  BY <1>1 DEF Grant, Waits, Optional
<1>2. ASSUME NEW i \in Instances, Ask(i)
      PROVE  LivesTyped'
  BY <1>1, <1>2 DEF Ask
<1>3. ASSUME NEW i \in Instances,
             StartUp(i) \/ Crash(i) \/ Heartbeat(i) \/ InstanceRemoved(i) \/ DemandsExpire(i)
      PROVE  LivesTyped'
  BY <1>3 DEF StartUp, Crash, Heartbeat, InstanceRemoved, DemandsExpire, database, Optional
<1>4. ASSUME NEW i \in Instances, ReleaseLease(i)
      PROVE  LivesTyped'
  BY <1>4 DEF ReleaseLease, Released, Optional
<1>5. ASSUME NEW i \in Instances,
             \/ FreshSettles(i) \/ SubsEnd(i) \/ ReadWindow(i) \/ WindowRead(i) \/ Yield(i)
             \/ Collect(i) \/ WorkerFailure(i) \/ SpawnWorker(i) \/ \E k \in Duties[i] : Due(i, k)
      PROVE  UNCHANGED <<state, registered, lease, lapsed>>
  BY <1>5 DEF FreshSettles, SubsEnd, ReadWindow, WindowRead, Yield, Collect, SpawnWorker, Due,
     WorkerFailure, AskFails, FreshIsBusy, QuantumEnds, HistoryEnds, ReleaseFails, OnlyWorker, database
<1>6. CASE LeaseExpires
  BY <1>6 DEF LeaseExpires, Optional
<1>7. CASE Age \/ UNCHANGED vars
  BY <1>7 DEF Age, vars
<1> QED
  BY <1>2, <1>3, <1>4, <1>5, <1>6, <1>7 DEF Next, WorkerStep

-----------------------------------------------------------------------------
(* The theorems on the queue *)

DemandInv == IndInv /\ LivesTyped /\ QueueTyped /\ DemandsFit

\* The invariant of the demands holds in every behaviour.
THEOREM DemandInvariance == Spec => []DemandInv
<1>1. Init => DemandInv
  <2> SUFFICES ASSUME Init PROVE DemandInv
    OBVIOUS
  <2>1. IndInv
    <3>1. Shaped({"fresh", "subs", "history"})
      BY DEF Init, Shaped, IdleWorker, NoWork, WorkerPhase
    <3>2. LeaseHeld /\ WorkKept
      BY DEF Init, LeaseHeld, Working, WorkKept, Kept, IdleWorker, NoWork
    <3> QED
      BY <3>1, <3>2 DEF IndInv, Shape
  <2>2. LivesTyped /\ QueueTyped
    BY DEF Init, LivesTyped, QueueTyped, Optional
  <2>3. \A i \in Instances : Demanded(queue, i) = {}
    BY DEF Init, Demanded
  <2>4. DemandsFit
    BY <2>3 DEF Init, DemandsFit, Fits, DemandedIsDue, IdleWorker, NoWork
  <2> QED
    BY <2>1, <2>2, <2>4 DEF DemandInv
<1>2. DemandInv /\ [Next]_vars => DemandInv'
  BY ShapeStep, LeaseStep, WorkStep, LivesStep, QueueStep, FitStep DEF DemandInv, IndInv
<1> QED
  BY <1>1, <1>2, PTL DEF Spec

\* The state keeps its type: the queue of the database holds demands, its aged ones are the
\* first of it, and no worker has a kind of work that there is not.
THEOREM WorkTypeCorrect == Spec => []TypeOK
<1>1. DemandInv => TypeOK
  <2> SUFFICES ASSUME DemandInv PROVE TypeOK
    OBVIOUS
  <2>1. PICK B : Shaped(B)
    BY DEF DemandInv, IndInv, Shape
  <2>2. \A i \in Instances :
          pending[i].queued \cup pending[i].active \cup worker[i].acquired \cup worker[i].requeue \subseteq Kinds
    BY DEF DemandInv, DemandsFit, Fits
  <2>3. pending \in [Instances -> [queued : SUBSET Kinds, active : SUBSET Kinds, settled : BOOLEAN]]
    BY <2>1, <2>2 DEF Shaped
  <2>4. worker \in [Instances -> Worker]
    BY <2>1, <2>2 DEF Shaped, Worker
  <2>5. owed \in [Instances -> SUBSET Kinds]
    BY <2>1 DEF Shaped
  <2> QED
    BY <2>3, <2>4, <2>5 DEF DemandInv, LivesTyped, QueueTyped, TypeOK
<1> QED
  BY <1>1, DemandInvariance, PTL

\* A lease brings only work that is due: what an earlier attempt left in the database is
\* either due again or was removed with it (enqueue_due_work_and_try_acquire_account_lease).
THEOREM GrantsAreDue == Spec => []OnlyDueWork
<1>1. DemandInv => OnlyDueWork
  BY DEF DemandInv, DemandsFit, Fits, OnlyDueWork, Working
<1> QED
  BY <1>1, DemandInvariance, PTL

=============================================================================
