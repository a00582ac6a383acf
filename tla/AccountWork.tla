----------------------------- MODULE AccountWork -----------------------------
(***************************************************************************)
(* The background work of one account, shared by the runtimes of the       *)
(* machine (src-tauri/src/application/scheduler_service.rs,                *)
(* runtime_coordination_service.rs and infrastructure/                     *)
(* runtime_coordination.rs).                                               *)
(*                                                                         *)
(* Each runtime has a scheduler that collects due work and gives it to one *)
(* worker per account; the worker asks the shared coordination database    *)
(* for the account's lease.  Every operation of the database is one        *)
(* BEGIN IMMEDIATE transaction, hence one action.  An instance is one life *)
(* of a runtime: it registers, works, and dies or stops; nothing it kept   *)
(* in memory survives it, what it wrote to the database does.              *)
(*                                                                         *)
(* Time is abstracted to its effects: a deadline passes, a demand ages, a  *)
(* lease, a demand or a registration expires.  A reader of the database    *)
(* ignores what has expired, so that expiring is removing.  The order of   *)
(* demands is that of their transactions.  A panic ends the process (release *)
(* profile), hence is a crash; a scheduler that is told to stop collects no *)
(* more work, hence behaves as one that nothing becomes due for.           *)
(***************************************************************************)
EXTENDS Naturals, Sequences, FiniteSets

CONSTANTS Instances,
          Kinds,     \* among "fresh", "subs" and "history"
          Duties,    \* bound: the kinds that become due at an instance
          MayStall,  \* the instances that may miss their renewals and heartbeats
          None

ASSUME KindsType == Kinds \subseteq {"fresh", "subs", "history"} /\ Kinds # {}
ASSUME DutiesType == Duties \in [Instances -> SUBSET Kinds]
ASSUME NoneIsNobody == None \notin Instances
ASSUME MayStallType == MayStall \subseteq Instances

VARIABLES
  state,       \* the life of an instance
  registered,  \* database: runtime_instances
  queue, aged, \* database: the demands in order, the first "aged" of which are aged
  lease,       \* database: the account's lease
  pending,     \* scheduler: PendingAccountWork
  worker,      \* scheduler: the worker of the account and its lease guard
  lapsed,      \* history: instances whose lease expired under their worker
  owed         \* history: due work that nobody has attempted yet

vars == <<state, registered, queue, aged, lease, pending, worker, lapsed, owed>>

database == <<registered, queue, aged, lease>>

Priority == [fresh |-> 300, subs |-> 200, history |-> 100]

Optional(S) == S \cup {None}

\* One transaction's demands of one instance share an arrival time.
Demand == [owner : Instances, kinds : SUBSET Kinds]

WorkerPhase == {"idle", "asking", "fresh", "subs", "checking", "reading", "releasing", "done"}

Worker == [phase : WorkerPhase, acquired : SUBSET Kinds, requeue : SUBSET Kinds]

TypeOK ==
  /\ state \in [Instances -> {"unborn", "running", "dead"}]
  /\ registered \subseteq Instances
  /\ queue \in Seq(Demand) /\ aged \in 0..Len(queue)
  /\ lease \in Optional(Instances)
  /\ pending \in [Instances -> [queued : SUBSET Kinds, active : SUBSET Kinds, settled : BOOLEAN]]
  /\ worker \in [Instances -> Worker]
  /\ lapsed \in SUBSET Instances
  /\ owed \in [Instances -> SUBSET Kinds]

IdleWorker == [phase |-> "idle", acquired |-> {}, requeue |-> {}]

NoWork == [queued |-> {}, active |-> {}, settled |-> FALSE]

Init ==
  /\ state = [i \in Instances |-> "unborn"]
  /\ registered = {}
  /\ queue = <<>> /\ aged = 0
  /\ lease = None
  /\ pending = [i \in Instances |-> NoWork]
  /\ worker = [i \in Instances |-> IdleWorker]
  /\ lapsed = {}
  /\ owed = [i \in Instances |-> {}]

Alive(i) == state[i] = "running"

\* A worker that was granted the lease and has not given it back.
Working(i) == worker[i].phase \in {"fresh", "subs", "checking", "reading", "releasing"}

-----------------------------------------------------------------------------
(* The demands of the account                                               *)

Demanded(q, i) == UNION {q[n].kinds : n \in {m \in DOMAIN q : q[m].owner = i}}

\* A kind that the instance demands already keeps its place in the queue.
Enqueued(i, kinds) ==
  LET new == kinds \ Demanded(queue, i)
  IN IF new = {} THEN queue ELSE Append(queue, [owner |-> i, kinds |-> new])

\* The owner of the first demand of the highest priority.
MostUrgent(q) ==
  LET top == CHOOSE k \in Kinds :
               /\ \E n \in DOMAIN q : k \in q[n].kinds
               /\ \A n \in DOMAIN q : \A l \in q[n].kinds : Priority[l] <= Priority[k]
      first == CHOOSE n \in DOMAIN q :
               top \in q[n].kinds /\ \A m \in DOMAIN q : top \in q[m].kinds => n <= m
  IN q[first].owner

\* Mutant: nothing ages.
FirstByPriority(q, a) == MostUrgent(q)

\* The aged demands come first, in order; then the highest priority, in order.
FirstInLine(q, a) == IF a > 0 THEN q[1].owner ELSE MostUrgent(q)

\* Where the first n demands are not the instance's.
OfOthers(q, n, i) == {m \in 1..n : q[m].owner # i}

\* The demands of the others, in order: each follows those of them that precede it.
Without(q, i) ==
  LET others == OfOthers(q, Len(q), i)
  IN [p \in 1..Cardinality(others) |->
        q[CHOOSE m \in others : Cardinality(OfOthers(q, m, i)) = p]]

AgedWithout(q, n, i) == Cardinality(OfOthers(q, n, i))

Leave(i) ==
  /\ queue' = Without(queue, i)
  /\ aged' = AgedWithout(queue, aged, i)

Age ==
  /\ aged < Len(queue)
  /\ aged' = aged + 1
  /\ UNCHANGED <<state, registered, queue, lease, pending, worker, lapsed, owed>>

-----------------------------------------------------------------------------
(* The scheduler of an instance                                             *)

\* The coordination database is opened and the instance registered in it.
StartUp(i) ==
  /\ state[i] = "unborn"
  /\ state' = [state EXCEPT ![i] = "running"]
  /\ registered' = registered \cup {i}
  /\ UNCHANGED <<queue, aged, lease, pending, worker, lapsed, owed>>

\* A deadline passes and the work is queued.  History waits for the first fresh run.
Due(i, k) ==
  /\ state[i] = "running"
  /\ k = "history" => pending[i].settled
  /\ pending' = [pending EXCEPT ![i].queued = @ \cup {k}]
  /\ owed' = [owed EXCEPT ![i] = @ \cup {k}]
  /\ UNCHANGED <<state, database, worker, lapsed>>

\* All queued work goes to a worker of its own, one at a time.
SpawnWorker(i) ==
  /\ state[i] = "running"
  /\ worker[i].phase = "idle" /\ pending[i].queued # {}
  /\ pending' = [pending EXCEPT ![i].queued = {}, ![i].active = pending[i].queued]
  /\ worker' = [worker EXCEPT ![i].phase = "asking"]
  /\ UNCHANGED <<state, database, lapsed, owed>>

\* The identity of the account cannot be read, or the database is busy.
AskFails(i) ==
  /\ worker[i].phase = "asking"
  /\ worker' = [worker EXCEPT ![i].phase = "done", ![i].requeue = pending[i].active]
  /\ UNCHANGED <<state, database, pending, lapsed, owed>>

\* Where a worker begins with the work it acquired: history only runs alone.
PhaseAfterSubs(acquired) == IF acquired = {"history"} THEN "checking" ELSE "releasing"

PhaseAfterFresh(acquired) == IF "subs" \in acquired THEN "subs" ELSE PhaseAfterSubs(acquired)

FirstPhase(acquired) == IF "fresh" \in acquired THEN "fresh" ELSE PhaseAfterFresh(acquired)

Postponed(acquired) == IF acquired = {"history"} THEN {} ELSE acquired \cap {"history"}

Waits(i, q) ==
  /\ queue' = q
  /\ worker' = [worker EXCEPT ![i].phase = "done", ![i].requeue = pending[i].active]
  /\ UNCHANGED <<state, registered, aged, lease, pending, lapsed, owed>>

Begins(i, demands) ==
  worker' = [worker EXCEPT ![i] =
    [phase |-> FirstPhase(demands), acquired |-> demands,
     requeue |-> (pending[i].active \ demands) \cup Postponed(demands)]]

\* Mutant: the demands stay in the queue.
GrantOnly(i, q) ==
  /\ queue' = q
  /\ lease' = i
  /\ Begins(i, Demanded(q, i))
  /\ lapsed' = lapsed \ {i}
  /\ UNCHANGED <<state, registered, aged, pending, owed>>

\* The lease consumes every demand of its instance.
Grant(i, q) ==
  /\ queue' = Without(q, i)
  /\ aged' = AgedWithout(q, aged, i)
  /\ lease' = i
  /\ Begins(i, Demanded(q, i))
  /\ lapsed' = lapsed \ {i}
  /\ UNCHANGED <<state, registered, pending, owed>>

\* Mutant: a lease granted although it is held.
AskForHeldLease(i) ==
  /\ worker[i].phase = "asking" /\ i \in registered
  /\ LET q == Enqueued(i, pending[i].active)
     IN IF FirstInLine(q, aged) = i THEN Grant(i, q) ELSE Waits(i, q)

\* enqueue_due_work_and_try_acquire_account_lease: all of it in one transaction.
Ask(i) ==
  /\ worker[i].phase = "asking" /\ i \in registered
  /\ LET q == Enqueued(i, pending[i].active)
     IN IF lease = None /\ FirstInLine(q, aged) = i THEN Grant(i, q) ELSE Waits(i, q)

-----------------------------------------------------------------------------
(* The worker under its lease                                               *)

Attempted(i, k) == owed' = [owed EXCEPT ![i] = @ \ {k}]

Move(i, phase) == worker' = [worker EXCEPT ![i].phase = phase]

MoveAndRequeue(i, phase, k) ==
  worker' = [worker EXCEPT ![i].phase = phase, ![i].requeue = @ \cup {k}]

OnlyWorker == UNCHANGED <<state, database, pending, lapsed>>

\* The fresh usage is synchronised, well or badly, and history may begin ...
FreshSettles(i) ==
  /\ worker[i].phase = "fresh"
  /\ Move(i, PhaseAfterFresh(worker[i].acquired))
  /\ Attempted(i, "fresh")
  /\ OnlyWorker

\* ... or somebody else holds the account's usage gate.
FreshIsBusy(i) ==
  /\ worker[i].phase = "fresh"
  /\ MoveAndRequeue(i, PhaseAfterFresh(worker[i].acquired), "fresh")
  /\ UNCHANGED owed /\ OnlyWorker

SubsEnd(i) ==
  /\ worker[i].phase = "subs"
  /\ Move(i, PhaseAfterSubs(worker[i].acquired))
  /\ Attempted(i, "subs")
  /\ OnlyWorker

\* The token in the guard is that of the lease: an instance has one worker for the
\* account, so that its lease in the database is the one its worker was granted.
Holds(i) == lease = i

\* A peer demands something more urgent, or something that has aged.  Only history
\* asks, and it runs alone: the priority of the lease is its own.
PeerWaits(i) ==
  \E n \in DOMAIN queue :
    /\ queue[n].owner # i
    /\ n <= aged \/ \E k \in queue[n].kinds : Priority[k] > Priority["history"]

ShouldYield(i) == ~Holds(i) \/ PeerWaits(i)

\* History reads one window after the other, as long as nobody waits ...
ReadWindow(i) ==
  /\ worker[i].phase = "checking" /\ ~ShouldYield(i)
  /\ Move(i, "reading")
  /\ UNCHANGED owed /\ OnlyWorker

WindowRead(i) ==
  /\ worker[i].phase = "reading"
  /\ Move(i, "checking")
  /\ UNCHANGED owed /\ OnlyWorker

\* ... yields if somebody does ...
Yield(i) ==
  /\ worker[i].phase = "checking" /\ ShouldYield(i)
  /\ MoveAndRequeue(i, "releasing", "history")
  /\ UNCHANGED owed /\ OnlyWorker

\* ... or when its quantum is over, or the usage gate is busy ...
QuantumEnds(i) ==
  /\ worker[i].phase = "checking"
  /\ MoveAndRequeue(i, "releasing", "history")
  /\ UNCHANGED owed /\ OnlyWorker

\* ... and ends with its last window, or with an error that keeps the checkpoint.
HistoryEnds(i) ==
  /\ worker[i].phase \in {"checking", "reading"}
  /\ Move(i, "releasing")
  /\ Attempted(i, "history")
  /\ OnlyWorker

\* Only the holder removes the lease.
Released(i) == lease' = IF Holds(i) THEN None ELSE lease

ReleaseLease(i) ==
  /\ worker[i].phase = "releasing"
  /\ Released(i)
  /\ Move(i, "done")
  /\ UNCHANGED <<state, registered, queue, aged, pending, lapsed, owed>>

\* A release that fails is not repeated: the lease is left to expire.
ReleaseFails(i) ==
  /\ worker[i].phase = "releasing"
  /\ Move(i, "done")
  /\ UNCHANGED <<state, database, pending, lapsed, owed>>

\* Mutant: what the worker did not do is not queued again.
CollectCarelessly(i) ==
  /\ worker[i].phase = "done"
  /\ pending' = [pending EXCEPT ![i].active = {}]
  /\ worker' = [worker EXCEPT ![i] = IdleWorker]
  /\ UNCHANGED <<state, database, lapsed, owed>>

\* The scheduler collects its worker, and queues again what it did not do.
Collect(i) ==
  /\ worker[i].phase = "done"
  /\ pending' = [pending EXCEPT
       ![i].queued = @ \cup worker[i].requeue, ![i].active = {},
       ![i].settled = @ \/ ("fresh" \in worker[i].acquired /\ "fresh" \notin worker[i].requeue)]
  /\ worker' = [worker EXCEPT ![i] = IdleWorker]
  /\ UNCHANGED <<state, database, lapsed, owed>>

-----------------------------------------------------------------------------
(* Crashes and deadlines                                                    *)

\* What was in memory is gone.
Crash(i) ==
  /\ Alive(i)
  /\ state' = [state EXCEPT ![i] = "dead"]
  /\ pending' = [pending EXCEPT ![i] = NoWork]
  /\ worker' = [worker EXCEPT ![i] = IdleWorker]
  /\ owed' = [owed EXCEPT ![i] = {}]
  /\ lapsed' = lapsed \ {i}
  /\ UNCHANGED database

\* Nobody renews the lease: its holder is dead, has let go of it, or is stalled.
Unrenewed == ~\E i \in Instances : Alive(i) /\ Working(i) /\ Holds(i)

LeaseExpires ==
  /\ lease # None /\ (Unrenewed \/ lease \in MayStall)
  /\ lease' = None
  /\ lapsed' = lapsed \cup {i \in Instances : Working(i) /\ Holds(i)}
  /\ UNCHANGED <<state, registered, queue, aged, pending, worker, owed>>

\* A demand is refreshed each time its instance asks, and expires without.
DemandsExpire(i) ==
  /\ Demanded(queue, i) # {} /\ (~Alive(i) \/ pending[i].queued \cup pending[i].active = {} \/ i \in MayStall)
  /\ Leave(i)
  /\ UNCHANGED <<state, registered, lease, pending, worker, lapsed, owed>>

\* An instance without heartbeats is removed by another, and all it wrote with it.
InstanceRemoved(i) ==
  /\ i \in registered /\ (state[i] = "dead" \/ i \in MayStall)
  /\ \E j \in Instances \ {i} : Alive(j)
  /\ registered' = registered \ {i}
  /\ Leave(i)
  /\ lease' = IF lease = i THEN None ELSE lease
  /\ lapsed' = lapsed \cup {j \in {i} : Working(j) /\ Holds(j)}
  /\ UNCHANGED <<state, pending, worker, owed>>

\* The heartbeat of a live instance registers it again.
Heartbeat(i) ==
  /\ Alive(i) /\ i \notin registered
  /\ registered' = registered \cup {i}
  /\ UNCHANGED <<state, queue, aged, lease, pending, worker, lapsed, owed>>

-----------------------------------------------------------------------------

WorkerStep(i) ==
  \/ Ask(i) \/ FreshSettles(i) \/ SubsEnd(i) \/ ReadWindow(i) \/ WindowRead(i) \/ Yield(i)
  \/ ReleaseLease(i) \/ Collect(i)

WorkerFailure(i) ==
  \/ AskFails(i) \/ FreshIsBusy(i) \/ QuantumEnds(i) \/ HistoryEnds(i) \/ ReleaseFails(i)

Next ==
  \/ \E i \in Instances :
       \/ StartUp(i) \/ SpawnWorker(i) \/ WorkerStep(i) \/ WorkerFailure(i)
       \/ Crash(i) \/ DemandsExpire(i) \/ InstanceRemoved(i) \/ Heartbeat(i)
       \/ \E k \in Duties[i] : Due(i, k)
  \/ Age \/ LeaseExpires

Spec == Init /\ [][Next]_vars

\* The loop polls, HTTP bounds every request, the database is not busy for ever, and
\* time passes.
Fairness ==
  /\ \A i \in Instances :
       WF_vars(SpawnWorker(i)) /\ WF_vars(WorkerStep(i)) /\ SF_vars(Ask(i)) /\ WF_vars(Heartbeat(i))
       /\ WF_vars(~Alive(i) /\ DemandsExpire(i))
  /\ WF_vars(Age) /\ WF_vars(LeaseExpires)

FairSpec == Spec /\ Fairness

-----------------------------------------------------------------------------
(* Properties                                                               *)

\* Of the workers whose lease has not expired under them, at most one works: no other
\* step takes the lease away from a worker, and none grants it twice.
OneWorker ==
  \A i, j \in Instances \ lapsed : Working(i) /\ Working(j) => i = j

\* What a worker does has been due and is not done yet: no demand that an earlier
\* attempt left in the database is granted again.
OnlyDueWork == \A i \in Instances : Working(i) => worker[i].acquired \subseteq pending[i].active

\* Due work is queued, being done or about to be queued again, until somebody has
\* attempted it: no failure, yield or lost lease forgets it.
NoWorkIsLost ==
  \A i \in Instances : Alive(i) => owed[i] \subseteq pending[i].queued \cup pending[i].active

\* Whatever the priorities and the work of its peers, a demand is granted or, if its
\* instance has died, expires.
EveryDemandIsServed ==
  \A i \in Instances : Demanded(queue, i) # {} ~> Demanded(queue, i) = {}

=============================================================================
