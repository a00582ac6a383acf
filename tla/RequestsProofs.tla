---------------------------- MODULE RequestsProofs ----------------------------
(***************************************************************************)
(* Proofs about SiteRequests and AccountSession, what a request waits for  *)
(* and what it is sent with, for any requests, limits and bounds.          *)
(*                                                                         *)
(* First part, the budget of a site.  The proof does not look at the       *)
(* queue: whoever is first in line, a permit is only given within the      *)
(* budget, and a request is only sent under its permit.                    *)
(*                                                                         *)
(* Second part, the recovery of a session: what a request did before it is *)
(* sent again, and why the holder of the gate may have a session issued.   *)
(* Sessions are numbered as the site issues them, so a session that the    *)
(* site does not accept is never accepted again: an answer that denied one *)
(* stays true however late it is used.                                     *)
(***************************************************************************)
EXTENDS SiteRequests, AccountSession, FiniteSetTheorems, TLAPS

-----------------------------------------------------------------------------
(* The budget of a site                                                      *)

LEMMA FewerElements ==
  ASSUME NEW S, NEW T, IsFiniteSet(T), S \subseteq T, NEW n \in Nat, Cardinality(T) <= n
  PROVE  Cardinality(S) <= n
<1>1. IsFiniteSet(S) /\ Cardinality(S) <= Cardinality(T)
  BY FS_Subset
<1>2. Cardinality(S) \in Nat /\ Cardinality(T) \in Nat
  BY <1>1, FS_CardinalityType
<1> QED
  BY <1>1, <1>2

LEMMA OneMoreElement ==
  ASSUME NEW S, IsFiniteSet(S), NEW x, NEW n \in Nat, Cardinality(S) < n
  PROVE  Cardinality(S \cup {x}) <= n
<1>1. Cardinality(S) \in Nat
  BY FS_CardinalityType
<1>2. Cardinality(S \cup {x}) = IF x \in S THEN Cardinality(S) ELSE Cardinality(S) + 1
  BY FS_AddElement
<1> QED
  BY <1>1, <1>2

-----------------------------------------------------------------------------

Permitted == \A r \in Requests : Sending(r) => r \in permits

WithinLimits ==
  /\ permits \subseteq Requests
  /\ Cardinality(permits) <= MaxInFlight
  /\ Cardinality(permits \cap UsagePages) <= MaxUsage

\* Nobody waits for the transactions on other threads: their call is over.
Abandoned == \A r \in Requests : thread[r] # {} => call[r] = "over"

IndInv ==
  /\ call \in [Requests -> Phase] /\ thread \in [Requests -> SUBSET Transaction]
  /\ Permitted /\ Abandoned /\ WithinLimits

LEMMA LimitsAreNumbers == MaxInFlight \in Nat /\ MaxUsage \in Nat
  BY LimitsType

LEMMA PermitsShrink ==
  ASSUME WithinLimits, permits' \subseteq permits
  PROVE  WithinLimits'
<1>1. IsFiniteSet(permits) /\ IsFiniteSet(permits \cap UsagePages)
  BY FiniteRequests, FS_Subset DEF WithinLimits
<1>2. Cardinality(permits') <= MaxInFlight
  BY <1>1, FewerElements, LimitsAreNumbers DEF WithinLimits
<1>3. permits' \cap UsagePages \subseteq permits \cap UsagePages
  OBVIOUS
<1>4. Cardinality(permits' \cap UsagePages) <= MaxUsage
  BY <1>1, <1>3, FewerElements, LimitsAreNumbers DEF WithinLimits
<1> QED
  BY <1>2, <1>4 DEF WithinLimits

\* A permit is only given within both limits.
LEMMA AcquireKeepsLimits ==
  ASSUME WithinLimits, NEW r \in Requests, Acquires(r)
  PROVE  WithinLimits' /\ permits' = permits \cup {r}
<1>1. IsFiniteSet(permits) /\ IsFiniteSet(permits \cap UsagePages)
  BY FiniteRequests, FS_Subset DEF WithinLimits
<1>2. permits' = permits \cup {r}
  BY DEF Acquires
<1>3. Cardinality(permits') <= MaxInFlight
  BY <1>1, <1>2, OneMoreElement, LimitsAreNumbers DEF Acquires, WithinBudget
<1>4. CASE r \in UsagePages
  <2>1. permits' \cap UsagePages = (permits \cap UsagePages) \cup {r}
    BY <1>2, <1>4
  <2>2. Cardinality(permits' \cap UsagePages) <= MaxUsage
    BY <1>1, <1>4, <2>1, OneMoreElement, LimitsAreNumbers DEF Acquires, WithinBudget
  <2> QED
    BY <1>2, <1>3, <2>2 DEF WithinLimits
<1>5. CASE r \notin UsagePages
  <2>1. permits' \cap UsagePages = permits \cap UsagePages
    BY <1>2, <1>5
  <2> QED
    BY <1>2, <1>3, <2>1 DEF WithinLimits
<1> QED
  BY <1>2, <1>4, <1>5

-----------------------------------------------------------------------------
(* Each action preserves the invariant.                                     *)

\* A step of a call that keeps the permits and does not begin to send.
LEMMA CallMoves ==
  ASSUME IndInv, NEW r \in Requests, NEW p \in Phase \ {"sending"}, Goes(r, p),
         permits' = permits, lapsed' = lapsed \/ lapsed' = lapsed \ {r},
         \/ thread' = thread /\ (thread[r] = {} \/ p = "over")
         \/ p = "over" /\ \E left \in SUBSET Transaction : thread' = [thread EXCEPT ![r] = left]
  PROVE  IndInv'
<1>1. call' \in [Requests -> Phase] /\ thread' \in [Requests -> SUBSET Transaction]
  BY DEF IndInv, Goes
<1>2. Permitted' /\ WithinLimits'
  BY DEF IndInv, Permitted, Sending, WithinLimits, Goes
<1>3. Abandoned'
  BY DEF IndInv, Abandoned, Goes
<1> QED
  BY <1>1, <1>2, <1>3 DEF IndInv

\* A permit is taken from a request that is not being sent.
LEMMA PermitGoes ==
  ASSUME IndInv, NEW r \in Requests, permits' = permits \ {r},
         \A q \in Requests : Sending(q)' => Sending(q) /\ q # r
  PROVE  Permitted' /\ WithinLimits'
  BY PermitsShrink DEF IndInv, Permitted

LEMMA StepKeepsBudget ==
  ASSUME IndInv, [Next]_vars
  PROVE  IndInv'
<1>1. ASSUME NEW r \in Requests, Call(r) \/ Enqueue(r) \/ TimeOut(r) \/ Respond(r)
      PROVE  IndInv'
  <2>1. \E p \in Phase \ {"sending"} : Goes(r, p)
    BY <1>1 DEF Call, Enqueue, TimeOut, Respond, Phase
  <2>2. /\ permits' = permits /\ (lapsed' = lapsed \/ lapsed' = lapsed \ {r})
        /\ thread' = thread /\ thread[r] = {}
    BY <1>1 DEF Call, Enqueue, TimeOut, Respond, EnqueueDemand, database, IndInv, Abandoned
  <2> QED
    BY <2>1, <2>2, CallMoves
<1>2. ASSUME NEW r \in Requests,
             DatabaseFails(r) \/ Cancel(r) \/ CancelFails(r) \/ ReleaseFails(r) \/ Drop(r)
      PROVE  IndInv'
  <2>1. "over" \in Phase \ {"sending"} /\ Goes(r, "over")
    BY <1>2 DEF DatabaseFails, Cancel, CancelFails, ReleaseFails, Drop, Phase
  <2>2. permits' = permits /\ lapsed' = lapsed
    BY <1>2 DEF DatabaseFails, Cancel, CancelFails, ReleaseFails, Drop, CancelsDemand, database
  <2>3. Drop(r) => \E left \in SUBSET Transaction : thread' = [thread EXCEPT ![r] = left]
    <3>1. Drop(r) => Leftovers(call[r]) \subseteq SUBSET Transaction
      BY DEF Drop, Leftovers, Transaction, IndInv, Phase
    <3> QED
      BY <3>1 DEF Drop
  <2>4. DatabaseFails(r) => \E left \in SUBSET Transaction : thread' = [thread EXCEPT ![r] = left]
    BY DEF DatabaseFails, IndInv, Transaction
  <2>5. Cancel(r) \/ CancelFails(r) \/ ReleaseFails(r) => thread' = thread
    BY DEF Cancel, CancelFails, ReleaseFails
  <2> QED
    BY <1>2, <2>1, <2>2, <2>3, <2>4, <2>5, CallMoves
<1>3. ASSUME NEW r \in Requests, Poll(r)
      PROVE  IndInv'
  <2>1. WithinLimits' /\ permits' = permits \cup {r}
    BY <1>3, AcquireKeepsLimits DEF IndInv, Poll
  <2>2. Goes(r, "sending") /\ lapsed' = lapsed /\ thread' = thread /\ call[r] = "polling"
    BY <1>3 DEF Poll
  <2>3. Permitted' /\ Abandoned'
    BY <2>1, <2>2 DEF IndInv, Permitted, Abandoned, Sending, Goes
  <2> QED
    BY <2>1, <2>2, <2>3 DEF IndInv, Goes, Phase
<1>4. ASSUME NEW r \in Requests, Release(r)
      PROVE  IndInv'
  <2>1. permits' = permits \ {r} /\ Goes(r, "over") /\ lapsed' = lapsed /\ thread' = thread
    BY <1>4 DEF Release, ReleasesPermit
  <2>2. \A q \in Requests : Sending(q)' => Sending(q) /\ q # r
    BY <2>1 DEF IndInv, Goes, Sending
  <2>3. Permitted' /\ WithinLimits'
    BY <2>1, <2>2, PermitGoes
  <2>4. Abandoned'
    BY <2>1 DEF IndInv, Abandoned, Goes
  <2> QED
    BY <2>1, <2>3, <2>4 DEF IndInv, Goes, Phase
<1>5. ASSUME NEW r \in Requests, PermitExpires(r)
      PROVE  IndInv'
  <2>1. permits' = permits \ {r} /\ call' = call /\ thread' = thread
    BY <1>5 DEF PermitExpires
  <2>2. \A q \in Requests : Sending(q)' => Sending(q) /\ q # r
    BY <1>5 DEF PermitExpires, Sending
  <2> QED
    BY <2>1, <2>2, PermitGoes DEF IndInv, Abandoned
<1>6. ASSUME NEW r \in Requests, NEW t \in Transaction, ThreadEnds(r, t)
      PROVE  IndInv'
  <2>1. /\ thread' = [thread EXCEPT ![r] = @ \ {t}] /\ call[r] = "over"
        /\ call' = call /\ lapsed' = lapsed
    BY <1>6 DEF ThreadEnds, IndInv, Abandoned
  <2>2. thread' \in [Requests -> SUBSET Transaction] /\ Abandoned'
    BY <2>1 DEF IndInv, Abandoned
  <2>3. CASE permits' = permits
    BY <2>1, <2>2, <2>3 DEF IndInv, Permitted, Sending, WithinLimits
  <2>4. CASE Acquires(r)
    <3>1. WithinLimits' /\ permits' = permits \cup {r}
      BY <2>4, AcquireKeepsLimits DEF IndInv
    <3> QED
      BY <2>1, <2>2, <3>1 DEF IndInv, Permitted, Sending
  <2>5. CASE ReleasesPermit(r)
    <3>1. \A q \in Requests : Sending(q)' => Sending(q) /\ q # r
      BY <2>1 DEF Sending
    <3>2. Permitted' /\ WithinLimits'
      BY <2>5, <3>1, PermitGoes DEF ReleasesPermit
    <3> QED
      BY <2>1, <2>2, <3>2 DEF IndInv
  <2> QED
    BY <1>6, <2>3, <2>4, <2>5 DEF ThreadEnds, EnqueueDemand, CancelsDemand, database
<1>7. CASE \/ Age \/ SpacingPasses \/ UNCHANGED vars
           \/ \E r \in Requests : DemandExpires(r)
  <2>1. UNCHANGED <<call, thread, permits, lapsed>>
    BY <1>7 DEF Age, SpacingPasses, DemandExpires, vars
  <2> QED
    BY <2>1 DEF IndInv, Permitted, Abandoned, Sending, WithinLimits
<1> QED
  BY <1>1, <1>2, <1>3, <1>4, <1>5, <1>6, <1>7 DEF Next

-----------------------------------------------------------------------------
(* The theorems *)

\* In every behaviour a request is only sent under its permit, unless it has expired,
\* and the permits are within the limits.
THEOREM PermitInvariance == Spec => []IndInv
<1>1. Init => IndInv
  <2> SUFFICES ASSUME Init PROVE IndInv
    OBVIOUS
  <2>1. Cardinality({}) = 0
    BY FS_EmptySet
  <2>2. WithinLimits
    <3>1. permits = {} /\ permits \cap UsagePages = {}
      BY DEF Init
    <3> QED
      BY <2>1, <3>1, LimitsType DEF WithinLimits
  <2> QED
    BY <2>2 DEF Init, IndInv, Phase, Permitted, Abandoned, Sending
<1>2. IndInv /\ [Next]_vars => IndInv'
  BY StepKeepsBudget
<1> QED
  BY <1>1, <1>2, PTL DEF Spec

\* The requests that are sent under a live permit stay within the limits of their site
\* (try_acquire_site_request_permit), for any number of requests and any limits.
THEOREM TheBudgetIsKept == Spec => []BudgetKept
<1>1. IndInv => BudgetKept
  <2> SUFFICES ASSUME IndInv PROVE BudgetKept
    OBVIOUS
  <2>1. IsFiniteSet(permits) /\ IsFiniteSet(permits \cap UsagePages)
    BY FiniteRequests, FS_Subset DEF IndInv, WithinLimits
  <2>2. /\ {r \in Requests : Sending(r)} \subseteq permits
        /\ {r \in UsagePages : Sending(r)} \subseteq permits \cap UsagePages
    BY RequestsType DEF IndInv, Permitted
  <2>3. Cardinality({r \in Requests : Sending(r)}) <= MaxInFlight
    BY <2>1, <2>2, FewerElements, LimitsAreNumbers DEF IndInv, WithinLimits
  <2>4. Cardinality({r \in UsagePages : Sending(r)}) <= MaxUsage
    BY <2>1, <2>2, FewerElements, LimitsAreNumbers DEF IndInv, WithinLimits
  <2> QED
    BY <2>3, <2>4 DEF BudgetKept
<1> QED
  BY <1>1, PermitInvariance, PTL

-----------------------------------------------------------------------------
(* The recovery of a session: its inductive invariant                        *)

\* A task that has done what its request asks is in that call, with an answer that does
\* not speak of the session.
TaskDid(t) ==
  /\ t.effects <= 1
  /\ t.effects # 0 => t.phase \in Calls /\ t.answer \in {"ok", "failed"}

\* What the holder of the gate knows of the saved session, while nobody else saves one.
HolderKnows(t, saved, accepted) ==
  /\ t.phase = "profile" => saved \in {0, t.session}
  /\ t.phase = "profile" /\ t.answer = "denied" => t.session \notin accepted
  /\ t.phase \in Recovering \ {"profile"} => saved \notin accepted

OneHolder(tasks) ==
  \A r, q \in Callers :
    tasks[r].phase \in Recovering /\ tasks[q].phase \in Recovering => r = q

SessionInv ==
  /\ SessionTypeOK
  /\ \A r \in Callers : TaskDid(task[r])
  /\ OneHolder(task)
  /\ ~meanwhile => \A r \in Callers : HolderKnows(task[r], stored, access)

Tasks(n) == [phase : Phases, session : 0..n, answer : Answers, effects : Nat]

\* What SessionInv says of the tasks.
TasksHold(tasks, saved, accepted, others, n) ==
  /\ tasks \in [Callers -> Tasks(n)]
  /\ \A r \in Callers : TaskDid(tasks[r])
  /\ OneHolder(tasks)
  /\ ~others => \A r \in Callers : HolderKnows(tasks[r], saved, accepted)

LEMMA SessionInvInParts ==
  SessionInv <=> SessionTypeOK /\ TasksHold(task, stored, access, meanwhile, issued)
BY DEF SessionInv, SessionTypeOK, TasksHold, Tasks

LEMMA SessionInitOK == SessionInit => SessionInv
<1> SUFFICES ASSUME SessionInit PROVE SessionInv
  OBVIOUS
<1>1. IdleTask \in Tasks(1) /\ IdleTask.phase \notin Recovering /\ IdleTask.effects = 0
  BY DEF IdleTask, Tasks, Phases, Calls, Recovering, Answers
<1>2. task \in [Callers -> Tasks(1)] /\ \A r \in Callers : task[r] = IdleTask
  BY <1>1 DEF SessionInit
<1>3. SessionTypeOK
  <2>1. task \in [Callers -> Tasks(issued)] /\ issued = 1
    BY <1>2 DEF SessionInit
  <2>2. 0 \in 0..MaxExpiries /\ 0 \in 0..MaxLogins /\ 0 \in 0..MaxMishaps
    BY SessionBounds
  <2>3. stored \in 0..1 /\ login \in 0..1 /\ {1} \subseteq 1..1 /\ 1 \in Nat
    BY DEF SessionInit
  <2>5. credential \in BOOLEAN /\ twoFactor \in BOOLEAN /\ meanwhile \in BOOLEAN
    BY DEF SessionInit
  <2>4. /\ expiries \in 0..MaxExpiries /\ logins \in 0..MaxLogins /\ mishaps \in 0..MaxMishaps
        /\ access = {1} /\ refresh = {1}
    BY <2>2 DEF SessionInit
  <2> QED
    BY <2>1, <2>3, <2>4, <2>5 DEF SessionTypeOK, Tasks
<1>4. TasksHold(task, stored, access, meanwhile, issued)
  BY <1>1, <1>2 DEF SessionInit, TasksHold, TaskDid, OneHolder, HolderKnows, Recovering
<1> QED
  BY <1>3, <1>4, SessionInvInParts

-----------------------------------------------------------------------------
(* One task moves                                                            *)

\* The session of a task stays one that was issued when more are.
LEMMA TasksGrow ==
  ASSUME NEW m \in Nat, NEW n \in Nat, m <= n
  PROVE  Tasks(m) \subseteq Tasks(n)
BY DEF Tasks

\* A task that moves keeps the invariant if it enters the gate only when it is free, and
\* if what the others know is still true.
LEMMA OneMoves ==
  ASSUME SessionInv, NEW r \in Callers, NEW n \in Nat, issued <= n, NEW t \in Tasks(n), TaskDid(t),
         t.phase \in Recovering => task[r].phase \in Recovering \/ GateFree,
         NEW saved, NEW accepted, NEW others \in BOOLEAN,
         ~others => HolderKnows(t, saved, accepted),
         ~others => \A q \in Callers \ {r} : HolderKnows(task[q], saved, accepted)
  PROVE  TasksHold([task EXCEPT ![r] = t], saved, accepted, others, n)
<1> DEFINE tasks == [task EXCEPT ![r] = t]
<1>1. issued \in Nat /\ TasksHold(task, stored, access, meanwhile, issued)
  BY SessionInvInParts DEF SessionTypeOK
<1>2. task \in [Callers -> Tasks(n)]
  BY <1>1, TasksGrow DEF TasksHold
<1>3. tasks[r] = t /\ \A q \in Callers \ {r} : tasks[q] = task[q]
  BY <1>2
<1>4. tasks \in [Callers -> Tasks(n)]
  BY <1>2
<1>5. \A q \in Callers : TaskDid(tasks[q])
  BY <1>1, <1>3 DEF TasksHold
<1>6. OneHolder(tasks)
  BY <1>1, <1>3 DEF TasksHold, OneHolder, GateFree
<1> QED
  BY <1>3, <1>4, <1>5, <1>6 DEF TasksHold

\* Nothing that is known concerns a task that does not hold the gate, and the holder is alone.
LEMMA OthersDoNotHold ==
  ASSUME SessionInv, NEW r \in Callers, task[r].phase \in Recovering \/ GateFree
  PROVE  \A q \in Callers \ {r} : \A saved, accepted : HolderKnows(task[q], saved, accepted)
BY DEF SessionInv, OneHolder, GateFree, HolderKnows, Recovering

\* A task that moves without knowing anything, while the site and the database stand still.
LEMMA OneMovesQuietly ==
  ASSUME SessionInv, NEW r \in Callers, NEW t \in Tasks(issued),
         task' = [task EXCEPT ![r] = t], TaskDid(t),
         t.phase \in Recovering => task[r].phase \in Recovering \/ GateFree,
         ~meanwhile => HolderKnows(t, stored, access),
         UNCHANGED <<stored, credential, site, login, meanwhile>>,
         expiries' \in 0..MaxExpiries, logins' \in 0..MaxLogins, mishaps' \in 0..MaxMishaps
  PROVE  SessionInv'
<1>1. SessionTypeOK /\ issued \in Nat /\ issued <= issued /\ meanwhile \in BOOLEAN
  BY DEF SessionInv, SessionTypeOK
<1>2. ~meanwhile => \A q \in Callers \ {r} : HolderKnows(task[q], stored, access)
  BY DEF SessionInv
<1>3. TasksHold([task EXCEPT ![r] = t], stored, access, meanwhile, issued)
  BY <1>1, <1>2, OneMoves
<1>4. SessionTypeOK'
  BY <1>1, <1>3 DEF SessionTypeOK, TasksHold, Tasks, site
<1> QED
  BY <1>3, <1>4 DEF SessionInv, TasksHold, site

-----------------------------------------------------------------------------
(* The steps                                                                 *)

\* The tasks that the code gives the next phase are tasks, and no call of theirs is answered.
LEMMA NextPhaseIsTask ==
  ASSUME NEW phase \in Phases, NEW session \in 0..issued
  PROVE  LET u == [phase |-> phase, session |-> session, answer |-> "none", effects |-> 0]
         IN  u \in Tasks(issued) /\ TaskDid(u)
BY DEF Tasks, TaskDid, Answers

LEMMA Idle ==
  ASSUME issued \in Nat
  PROVE  IdleTask \in Tasks(issued) /\ TaskDid(IdleTask) /\ IdleTask.phase \notin Recovering
BY DEF IdleTask, Tasks, TaskDid, Phases, Calls, Recovering, Answers

\* A task ends, or goes to a phase in which it knows what is true.
LEMMA MovesOrEnds ==
  ASSUME SessionInv, NEW r \in Callers, NEW phase \in Phases, NEW session \in 0..issued,
         \/ Ends(r)
         \/ Moves(r, phase, session) /\ task[r].effects = 0,
         phase \in Recovering => task[r].phase \in Recovering \/ GateFree,
         ~meanwhile => /\ phase = "profile" => stored \in {0, session}
                       /\ phase \in Recovering \ {"profile"} => stored \notin access,
         UNCHANGED <<stored, credential, site, login, counters, meanwhile>>
  PROVE  SessionInv'
<1>1. /\ issued \in Nat /\ task[r] \in Tasks(issued)
      /\ expiries' \in 0..MaxExpiries /\ logins' \in 0..MaxLogins /\ mishaps' \in 0..MaxMishaps
  BY DEF SessionInv, SessionTypeOK, Tasks, counters
<1>2. CASE Ends(r)
  <2>1. HolderKnows(IdleTask, stored, access)
    BY DEF HolderKnows, IdleTask, Recovering
  <2> QED
    BY <1>1, <1>2, <2>1, Idle, OneMovesQuietly DEF Ends, counters
<1>3. CASE Moves(r, phase, session) /\ task[r].effects = 0
  <2> DEFINE t == [phase |-> phase, session |-> session, answer |-> "none", effects |-> 0]
  <2>1. t.phase = phase /\ t.session = session /\ t.answer = "none"
    OBVIOUS
  <2>2. task' = [task EXCEPT ![r] = t]
    BY <1>3 DEF Moves
  <2>4. t \in Tasks(issued) /\ TaskDid(t)
    BY NextPhaseIsTask
  <2> HIDE DEF t
  <2>3. ~meanwhile => HolderKnows(t, stored, access)
    BY <2>1 DEF HolderKnows
  <2> QED
    BY <1>1, <2>1, <2>2, <2>3, <2>4, OneMovesQuietly DEF counters
<1> QED
  BY <1>2, <1>3

\* A call is answered, or fails, and the site has issued nothing.
LEMMA QuietReply ==
  ASSUME SessionInv, NEW r \in Callers, UnderWay(r), NEW answer \in Answers,
         Replies(r, answer, task[r].session, task[r].effects)
           \/ (Replies(r, answer, task[r].session, Effects(r)) /\ answer \in {"ok", "failed"}),
         answer = "denied" => ~Accepts(r),
         UNCHANGED <<stored, credential, site, login, meanwhile>>,
         expiries' \in 0..MaxExpiries, logins' \in 0..MaxLogins, mishaps' \in 0..MaxMishaps
  PROVE  SessionInv'
<1>1. PICK e \in Nat : /\ Replies(r, answer, task[r].session, e)
                       /\ e <= 1 /\ (e # 0 => task[r].phase \in Calls /\ answer \in {"ok", "failed"})
  <2>1. task[r].effects = 0
    BY DEF SessionInv, SessionTypeOK, TaskDid, UnderWay
  <2> QED
    BY <2>1 DEF Effects
<1> DEFINE t == [phase |-> task[r].phase, session |-> task[r].session, answer |-> answer, effects |-> e]
<1>2. t \in Tasks(issued) /\ TaskDid(t)
  BY <1>1 DEF SessionInv, SessionTypeOK, Tasks, TaskDid
<1>3. task' = [task EXCEPT ![r] = t]
  BY <1>1 DEF Replies
<1>4. ~meanwhile => HolderKnows(t, stored, access)
  BY DEF SessionInv, HolderKnows, Accepts
<1>5. t.phase = task[r].phase
  OBVIOUS
<1> HIDE DEF t
<1> QED
  BY <1>2, <1>3, <1>4, <1>5, OneMovesQuietly

\* The site issues a session for a recovery, whether its answer arrives or not.
LEMMA IssuingReply ==
  ASSUME SessionInv, NEW r \in Callers, UnderWay(r), task[r].phase \in Issuing, Effect(r),
         NEW answer \in {"ok", "failed"}, NEW session \in {task[r].session, issued'},
         Replies(r, answer, session, Effects(r)),
         UNCHANGED <<stored, credential, login, meanwhile>>,
         expiries' \in 0..MaxExpiries, logins' \in 0..MaxLogins, mishaps' \in 0..MaxMishaps
  PROVE  SessionInv'
<1> DEFINE t == [phase |-> task[r].phase, session |-> session, answer |-> answer,
                 effects |-> task[r].effects]
<1>1. /\ SessionTypeOK /\ task[r] \in Tasks(issued) /\ issued \in Nat /\ meanwhile \in BOOLEAN
      /\ TaskDid(task[r]) /\ stored \in 0..issued
  BY DEF SessionInv, SessionTypeOK, Tasks
<1>2. /\ issued' = issued + 1 /\ access' = access \cup {issued'} /\ twoFactor' = twoFactor
      /\ refresh' = (refresh \ {task[r].session}) \cup {issued'}
  BY DEF Effect, Issues
<1>3. task[r].phase \in Recovering /\ task[r].phase \notin Calls /\ task[r].phase # "profile"
  BY DEF Issuing, Recovering, Calls
<1>4. t \in Tasks(issued') /\ issued' \in Nat /\ issued <= issued'
  BY <1>1, <1>2 DEF Tasks, Answers
<1>5. task[r].effects = 0
  BY <1>1, <1>3 DEF TaskDid
<1>6. TaskDid(t) /\ t.phase = task[r].phase
  BY <1>5 DEF TaskDid
<1>7. task' = [task EXCEPT ![r] = t]
  BY <1>1, <1>3, <1>5 DEF Replies, Effects, Tasks
<1> HIDE DEF t
<1>8. ~meanwhile => HolderKnows(t, stored, access')
  <2>1. ~meanwhile => stored \notin access
    BY <1>3 DEF SessionInv, HolderKnows
  <2> QED
    BY <1>1, <1>2, <1>3, <1>6, <2>1 DEF HolderKnows
<1>9. \A q \in Callers \ {r} : HolderKnows(task[q], stored, access')
  BY <1>3, OthersDoNotHold
<1>10. TasksHold(task', stored, access', meanwhile, issued')
  BY <1>1, <1>3, <1>4, <1>6, <1>7, <1>8, <1>9, OneMoves
<1>11. /\ access \subseteq 1..issued' /\ refresh \subseteq 1..issued' /\ issued' \in 1..issued'
       /\ stored \in 0..issued' /\ login \in 0..issued'
  BY <1>1, <1>2 DEF SessionTypeOK
<1>12. SessionTypeOK'
  BY <1>1, <1>2, <1>4, <1>10, <1>11 DEF SessionTypeOK, TasksHold, Tasks
<1> QED
  BY <1>10, <1>12 DEF SessionInv, TasksHold

LEMMA AnswerStep ==
  ASSUME SessionInv, NEW r \in Callers, Answer(r)
  PROVE  SessionInv'
<1>1. /\ UNCHANGED <<stored, credential, login, meanwhile>> /\ UnderWay(r)
      /\ expiries' \in 0..MaxExpiries /\ logins' \in 0..MaxLogins /\ mishaps' \in 0..MaxMishaps
  BY DEF Answer, SessionInv, SessionTypeOK, counters
<1>2. CASE ~Accepts(r)
  BY <1>1, <1>2, QuietReply DEF Answer, Answers
<1>3. CASE Accepts(r) /\ task[r].phase \in Issuing
  BY <1>1, <1>3, IssuingReply DEF Answer
<1>4. CASE Accepts(r) /\ task[r].phase \notin Issuing
  <2>1. UNCHANGED site /\ Replies(r, "ok", task[r].session, Effects(r))
    BY <1>4 DEF Answer, Effect
  <2> QED
    BY <1>1, <2>1, QuietReply DEF Answers
<1> QED
  BY <1>2, <1>3, <1>4

LEMMA AnswerLostStep ==
  ASSUME SessionInv, NEW r \in Callers, AnswerLost(r)
  PROVE  SessionInv'
<1>1. /\ UNCHANGED <<stored, credential, login, meanwhile>> /\ UnderWay(r)
      /\ expiries' \in 0..MaxExpiries /\ logins' \in 0..MaxLogins /\ mishaps' \in 0..MaxMishaps
  BY SessionBounds DEF AnswerLost, SessionInv, SessionTypeOK
<1>2. CASE UNCHANGED site /\ Replies(r, "failed", task[r].session, task[r].effects)
  BY <1>1, <1>2, QuietReply DEF Answers
<1>3. CASE Effect(r) /\ Replies(r, "failed", task[r].session, Effects(r)) /\ task[r].phase \in Issuing
  BY <1>1, <1>3, IssuingReply
<1>4. CASE Effect(r) /\ Replies(r, "failed", task[r].session, Effects(r)) /\ task[r].phase \notin Issuing
  <2>1. UNCHANGED site
    BY <1>4 DEF Effect
  <2> QED
    BY <1>1, <1>4, <2>1, QuietReply DEF Answers
<1> QED
  BY <1>2, <1>3, <1>4 DEF AnswerLost

\* A session is saved by a task that leaves the gate, or past the gate.
LEMMA SavingStep ==
  ASSUME SessionInv, NEW r \in Callers, NEW t \in Tasks(issued), TaskDid(t),
         t.phase \notin Recovering, task' = [task EXCEPT ![r] = t],
         stored' = task[r].session, credential' \in BOOLEAN, UNCHANGED <<site, login, counters>>,
         \/ task[r].phase \in Recovering /\ meanwhile' = meanwhile
         \/ meanwhile' = TRUE
  PROVE  SessionInv'
<1>1. SessionTypeOK /\ issued \in Nat /\ issued <= issued /\ meanwhile' \in BOOLEAN
  <2>1. SessionTypeOK /\ issued \in Nat /\ issued <= issued
    BY DEF SessionInv, SessionTypeOK
  <2>2. meanwhile \in BOOLEAN
    BY DEF SessionInv, SessionTypeOK
  <2> QED
    BY <2>1, <2>2
<1>6. stored' \in 0..issued
  BY DEF SessionInv, SessionTypeOK
<1>2. HolderKnows(t, stored', access)
  BY DEF HolderKnows, Recovering
<1>3. ~meanwhile' => \A q \in Callers \ {r} : HolderKnows(task[q], stored', access)
  BY OthersDoNotHold
<1>4. TasksHold(task', stored', access, meanwhile', issued)
  BY <1>1, <1>2, <1>3, OneMoves
<1>5. SessionTypeOK'
  BY <1>1, <1>4, <1>6 DEF SessionTypeOK, TasksHold, Tasks, site, counters
<1> QED
  BY <1>4, <1>5 DEF SessionInv, TasksHold, site

\* What is moved while nobody holds anything that counts: no task is in a call.
LEMMA OutOfCall ==
  ASSUME SessionInv, NEW r \in Callers
  PROVE  /\ task[r] \in Tasks(issued) /\ issued \in Nat
         /\ task[r].phase \notin Calls => task[r].effects = 0
         /\ task[r].answer \notin {"ok", "failed"} => task[r].effects = 0
         /\ stored \in 0..issued /\ 0 \notin access
BY DEF SessionInv, SessionTypeOK, Tasks, TaskDid

LEMMA BeginStep ==
  ASSUME SessionInv, NEW r \in Callers, Begin(r)
  PROVE  SessionInv'
<1>1. task[r].effects = 0 /\ stored \in 0..issued
  BY OutOfCall DEF Begin, Calls
<1>2. \E phase \in {"queued", "request"} : Moves(r, phase, stored)
  BY DEF Begin
<1>3. \A phase \in {"queued", "request"} : phase \in Phases /\ phase \notin Recovering /\ phase # "profile"
  BY DEF Phases, Calls, Recovering
<1> QED
  BY <1>1, <1>2, <1>3, MovesOrEnds DEF Begin

LEMMA EndingStep ==
  ASSUME SessionInv, NEW r \in Callers, Ends(r),
         UNCHANGED <<stored, credential, site, login, counters, meanwhile>>
  PROVE  SessionInv'
<1>1. "idle" \in Phases /\ "idle" \notin Recovering /\ 0 \in 0..issued
  BY OutOfCall DEF Phases, Recovering
<1> QED
  BY <1>1, MovesOrEnds DEF Recovering

LEMMA SavingOutside ==
  ASSUME SessionInv, NEW r \in Callers, Ends(r), SavesOutside(task[r].session),
         UNCHANGED <<credential, site, login, counters>>
  PROVE  SessionInv'
<1>1. issued \in Nat /\ credential \in BOOLEAN
  BY DEF SessionInv, SessionTypeOK
<1> QED
  BY <1>1, Idle, SavingStep DEF Ends, SavesOutside

LEMMA RequestAnsweredStep ==
  ASSUME SessionInv, NEW r \in Callers, RequestAnswered(r)
  PROVE  SessionInv'
<1>1. CASE task[r].answer = "ok"
  BY <1>1, SavingOutside DEF RequestAnswered
<1>2. CASE task[r].answer # "ok" /\ Ends(r)
  BY <1>2, EndingStep DEF RequestAnswered
<1>3. CASE task[r].answer = "denied" /\ Moves(r, "queued", 0)
  <2>1. task[r].effects = 0 /\ 0 \in 0..issued /\ "queued" \in Phases /\ "queued" \notin Recovering
    BY <1>3, OutOfCall DEF Phases, Recovering, Calls
  <2> QED
    BY <1>3, <2>1, MovesOrEnds DEF RequestAnswered
<1> QED
  BY <1>1, <1>2, <1>3 DEF RequestAnswered, RecoverableAnswers, RecoversOn

LEMMA AgainAnsweredStep ==
  ASSUME SessionInv, NEW r \in Callers, AgainAnswered(r)
  PROVE  SessionInv'
<1>1. CASE task[r].answer = "ok"
  BY <1>1, SavingOutside DEF AgainAnswered
<1>2. CASE task[r].answer # "ok"
  BY <1>2, EndingStep DEF AgainAnswered
<1> QED
  BY <1>1, <1>2

-----------------------------------------------------------------------------
(* The recovery                                                              *)

LEMMA EnterGateStep ==
  ASSUME SessionInv, NEW r \in Callers, EnterGate(r)
  PROVE  SessionInv'
<1>1. /\ GateFree /\ task[r].effects = 0 /\ SessionTypeOK /\ issued \in Nat /\ issued <= issued
      /\ stored \in 0..issued /\ 0 \notin access /\ 0 \in 0..issued
  BY OutOfCall DEF EnterGate, MayEnter, Calls, SessionInv
<1>2. PICK t \in Tasks(issued) : /\ TaskDid(t) /\ task' = [task EXCEPT ![r] = t]
                                 /\ HolderKnows(t, stored, access)
  <2>1. CASE stored # 0
    <3> DEFINE t == [phase |-> "profile", session |-> stored, answer |-> "none", effects |-> 0]
    <3>1. t \in Tasks(issued) /\ TaskDid(t) /\ HolderKnows(t, stored, access)
      BY <1>1 DEF Tasks, TaskDid, HolderKnows, Phases, Recovering, Answers
    <3>2. task' = [task EXCEPT ![r] = t]
      BY <1>1, <2>1 DEF EnterGate, Moves
    <3> HIDE DEF t
    <3> QED
      BY <3>1, <3>2
  <2>2. CASE stored = 0 /\ credential
    <3> DEFINE t == [phase |-> "login", session |-> 0, answer |-> "none", effects |-> 0]
    <3>1. t \in Tasks(issued) /\ TaskDid(t) /\ HolderKnows(t, stored, access)
      BY <1>1, <2>2 DEF Tasks, TaskDid, HolderKnows, Phases, Recovering, Answers
    <3>2. task' = [task EXCEPT ![r] = t]
      BY <1>1, <2>2 DEF EnterGate, LogsIn, LogsInOrEnds, Moves
    <3> HIDE DEF t
    <3> QED
      BY <3>1, <3>2
  <2>3. CASE stored = 0 /\ ~credential
    <3>1. task' = [task EXCEPT ![r] = IdleTask]
      BY <2>3 DEF EnterGate, LogsIn, LogsInOrEnds, Ends
    <3>2. HolderKnows(IdleTask, stored, access)
      BY DEF HolderKnows, IdleTask, Recovering
    <3> QED
      BY <1>1, <3>1, <3>2, Idle
  <2> QED
    BY <2>1, <2>2, <2>3
<1>3. \A q \in Callers \ {r} : HolderKnows(task[q], stored, access)
  BY <1>1, OthersDoNotHold
<1>4. TasksHold(task', stored, access, FALSE, issued)
  BY <1>1, <1>2, <1>3, OneMoves
<1>5. UNCHANGED <<stored, credential, site, login, counters>> /\ meanwhile' = FALSE
  BY DEF EnterGate
<1>6. SessionTypeOK'
  BY <1>1, <1>4, <1>5 DEF SessionTypeOK, TasksHold, Tasks, site, counters
<1> QED
  BY <1>4, <1>5, <1>6 DEF SessionInv, TasksHold, site

\* What is not accepted was denied, or has never been issued: the holder logs in, or ends.
LEMMA LogsInStep ==
  ASSUME SessionInv, NEW r \in Callers, LogsIn(r), task[r].phase \in Recovering \ {"profile"},
         UNCHANGED <<stored, credential, site, login, counters, meanwhile>>
  PROVE  SessionInv'
<1>1. /\ task[r].effects = 0 /\ 0 \in 0..issued /\ "login" \in Phases
      /\ Ends(r) \/ Moves(r, "login", 0)
  BY OutOfCall DEF LogsIn, LogsInOrEnds, Phases, Recovering, Calls
<1>2. ~meanwhile => stored \notin access
  BY DEF SessionInv, HolderKnows
<1> QED
  BY <1>1, <1>2, MovesOrEnds

LEMMA RecoveredStep ==
  ASSUME SessionInv, NEW r \in Callers, task[r].phase \in Recovering, Recovered(r),
         credential' \in BOOLEAN, UNCHANGED <<site, login, counters, meanwhile>>
  PROVE  SessionInv'
<1> DEFINE t == [phase |-> "again", session |-> task[r].session, answer |-> "none", effects |-> 0]
<1>1. task[r].effects = 0 /\ task[r].session \in 0..issued
  BY OutOfCall DEF Recovering, Calls, Tasks
<1>2. task' = [task EXCEPT ![r] = t] /\ stored' = task[r].session
  BY <1>1 DEF Recovered, Moves, SessionInv, SessionTypeOK
<1>3. t \in Tasks(issued) /\ TaskDid(t) /\ t.phase \notin Recovering
  BY <1>1 DEF Tasks, TaskDid, Phases, Calls, Recovering, Answers
<1> HIDE DEF t
<1> QED
  BY <1>2, <1>3, SavingStep

LEMMA ProfileAnsweredStep ==
  ASSUME SessionInv, NEW r \in Callers, ProfileAnswered(r)
  PROVE  SessionInv'
<1>1. /\ task[r].phase = "profile" /\ task[r].phase \in Recovering /\ credential \in BOOLEAN
      /\ UNCHANGED <<credential, site, login, counters, meanwhile>>
  BY DEF ProfileAnswered, Answered, Recovering, SessionInv, SessionTypeOK
<1>2. CASE Recovered(r)
  BY <1>1, <1>2, RecoveredStep
<1>3. CASE task[r].answer = "denied" /\ Moves(r, "refresh", task[r].session) /\ UNCHANGED stored
  <2>1. task[r].effects = 0 /\ task[r].session \in 0..issued /\ "refresh" \in Phases
    BY <1>3, OutOfCall DEF Tasks, Phases, Recovering
  <2>2. ~meanwhile => stored \notin access
    BY <1>1, <1>3, OutOfCall DEF SessionInv, HolderKnows
  <2> QED
    BY <1>1, <1>3, <2>1, <2>2, MovesOrEnds
<1> QED
  BY <1>2, <1>3 DEF ProfileAnswered, Answered

LEMMA RefreshAnsweredStep ==
  ASSUME SessionInv, NEW r \in Callers, RefreshAnswered(r)
  PROVE  SessionInv'
<1>1. task[r].phase = "refresh" /\ task[r].phase \in Recovering \ {"profile"}
      /\ UNCHANGED <<stored, credential, site, login, counters, meanwhile>>
  BY DEF RefreshAnswered, Answered, Recovering
<1>2. CASE LogsIn(r)
  BY <1>1, <1>2, LogsInStep
<1>3. CASE Moves(r, "check", task[r].session)
  <2>1. task[r].effects = 0 /\ task[r].session \in 0..issued /\ "check" \in Phases
    BY <1>1, OutOfCall DEF Tasks, Phases, Recovering, Calls
  <2>2. ~meanwhile => stored \notin access
    BY <1>1 DEF SessionInv, HolderKnows
  <2> QED
    BY <1>1, <1>3, <2>1, <2>2, MovesOrEnds
<1> QED
  BY <1>2, <1>3 DEF RefreshAnswered

LEMMA CheckAnsweredStep ==
  ASSUME SessionInv, NEW r \in Callers, CheckAnswered(r)
  PROVE  SessionInv'
<1>1. task[r].phase \in Recovering \ {"profile"} /\ UNCHANGED <<credential, site, login, counters, meanwhile>>
  BY DEF CheckAnswered, Answered, Recovering
<1>2. CASE Recovered(r)
  <2>1. credential \in BOOLEAN
    BY DEF SessionInv, SessionTypeOK
  <2> QED
    BY <1>1, <1>2, <2>1, RecoveredStep
<1>3. CASE LogsIn(r) /\ UNCHANGED stored
  BY <1>1, <1>3, LogsInStep
<1> QED
  BY <1>2, <1>3 DEF CheckAnswered

LEMMA LoginAnsweredStep ==
  ASSUME SessionInv, NEW r \in Callers, LoginAnswered(r)
  PROVE  SessionInv'
<1>1. task[r].phase \in Recovering /\ UNCHANGED <<site, login, counters, meanwhile>>
  BY DEF LoginAnswered, LogsInAgain, Answered, Recovering
<1>2. CASE credential' = TRUE /\ Recovered(r)
  BY <1>1, <1>2, RecoveredStep
<1>3. CASE Ends(r) /\ UNCHANGED <<stored, credential>>
  BY <1>1, <1>3, EndingStep
<1> QED
  BY <1>2, <1>3 DEF LoginAnswered, LogsInAgain

-----------------------------------------------------------------------------
(* The user and the process                                                  *)

\* The tasks stand still, and what the holder of the gate knows stays true.
LEMMA NobodyMoves ==
  ASSUME SessionInv, SessionTypeOK', task' = task,
         \/ meanwhile' = TRUE
         \/ meanwhile' = meanwhile /\ stored' \in {0, stored} /\ access' \in {access, {}}
         \/ meanwhile' = meanwhile /\ stored' = stored /\ access' = access \cup {issued + 1}
  PROVE  SessionInv'
<1>1. \A r \in Callers : TaskDid(task'[r])
  BY DEF SessionInv
<1>2. OneHolder(task')
  BY DEF SessionInv
<1>3. ASSUME ~meanwhile', NEW r \in Callers PROVE HolderKnows(task'[r], stored', access')
  <2>1. /\ HolderKnows(task[r], stored, access) \/ meanwhile
        /\ task[r].session \in 0..issued /\ stored \in 0..issued /\ issued \in Nat /\ 0 \notin access
    BY OutOfCall DEF SessionInv, Tasks
  <2>2. CASE meanwhile' = meanwhile /\ stored' \in {0, stored} /\ access' \in {access, {}}
    BY <1>3, <2>1, <2>2 DEF HolderKnows
  <2>3. CASE meanwhile' = meanwhile /\ stored' = stored /\ access' = access \cup {issued + 1}
    BY <1>3, <2>1, <2>3 DEF HolderKnows
  <2> QED
    BY <1>3, <2>2, <2>3
<1> QED
  BY <1>1, <1>2, <1>3 DEF SessionInv

LEMMA SiteAndUserStep ==
  ASSUME SessionInv, Expire \/ LogIn \/ SaveLogin \/ ClearRuntimeData
  PROVE  SessionInv'
<1>1. /\ SessionTypeOK /\ issued \in Nat /\ stored \in 0..issued /\ login \in 0..issued
      /\ access \subseteq 1..issued /\ refresh \subseteq 1..issued /\ task \in [Callers -> Tasks(issued)]
      /\ expiries \in 0..MaxExpiries /\ logins \in 0..MaxLogins /\ mishaps \in 0..MaxMishaps
  BY DEF SessionInv, SessionTypeOK, Tasks
<1>2. credential \in BOOLEAN /\ twoFactor \in BOOLEAN /\ meanwhile \in BOOLEAN
  BY DEF SessionInv, SessionTypeOK
<1>3. CASE Expire
  <2>1. SessionTypeOK'
    <3>1. /\ UNCHANGED <<stored, credential, issued, twoFactor, task, login, logins, mishaps, meanwhile>>
          /\ access' \subseteq 1..issued /\ refresh' \subseteq 1..issued /\ expiries' \in 0..MaxExpiries
      BY <1>1, <1>3, SessionBounds DEF Expire
    <3> QED
      BY <1>1, <1>2, <3>1 DEF SessionTypeOK, Tasks
  <2> QED
    BY <1>3, <2>1, NobodyMoves DEF Expire
<1>4. CASE LogIn
  <2>1. /\ issued' = issued + 1 /\ access' = access \cup {issued'} /\ twoFactor' = twoFactor
        /\ refresh' = refresh \cup {issued'} /\ login' = issued' /\ logins' = logins + 1
        /\ logins < MaxLogins /\ UNCHANGED <<stored, task, expiries, mishaps, meanwhile>>
    BY <1>4 DEF LogIn, Issues
  <2>2. credential' \in BOOLEAN
    BY <1>2, <1>4 DEF LogIn
  <2>3. /\ issued' \in Nat /\ logins' \in 0..MaxLogins /\ login' \in 0..issued' /\ stored \in 0..issued'
        /\ access' \subseteq 1..issued' /\ refresh' \subseteq 1..issued'
    BY <1>1, <2>1, SessionBounds
  <2>4. task \in [Callers -> Tasks(issued')]
    <3>1. Tasks(issued) \subseteq Tasks(issued')
      BY <1>1, <2>1, <2>3, TasksGrow
    <3> QED
      BY <1>1, <3>1
  <2>5. SessionTypeOK'
    BY <1>1, <1>2, <2>1, <2>2, <2>3, <2>4 DEF SessionTypeOK, Tasks
  <2> QED
    BY <2>1, <2>5, NobodyMoves
<1>5. CASE SaveLogin
  <2>1. /\ stored' = login /\ meanwhile' = TRUE /\ login' = 0 /\ UNCHANGED <<site, task, counters>>
    BY <1>5 DEF SaveLogin, SavesOutside
  <2>2. credential' \in BOOLEAN
    BY <1>2, <1>5 DEF SaveLogin
  <2>3. stored' \in 0..issued /\ login' \in 0..issued
    BY <1>1, <2>1
  <2>4. SessionTypeOK'
    BY <1>1, <1>2, <2>1, <2>2, <2>3 DEF SessionTypeOK, Tasks, site, counters
  <2> QED
    BY <2>1, <2>4, NobodyMoves
<1>6. CASE ClearRuntimeData
  <2>1. /\ stored' = 0 /\ credential' = FALSE /\ mishaps' = mishaps + 1 /\ mishaps < MaxMishaps
        /\ UNCHANGED <<site, task, login, expiries, logins, meanwhile>>
    BY <1>6 DEF ClearRuntimeData
  <2>2. stored' \in 0..issued /\ mishaps' \in 0..MaxMishaps
    BY <1>1, <2>1, SessionBounds
  <2>3. SessionTypeOK'
    BY <1>1, <1>2, <2>1, <2>2 DEF SessionTypeOK, Tasks, site
  <2> QED
    BY <2>1, <2>3, NobodyMoves DEF site
<1> QED
  BY <1>3, <1>4, <1>5, <1>6

LEMMA CrashStep ==
  ASSUME SessionInv, Crash
  PROVE  SessionInv'
<1>1. /\ SessionTypeOK /\ issued \in Nat /\ mishaps \in 0..MaxMishaps
      /\ task' = [r \in Callers |-> IdleTask] /\ login' = 0 /\ mishaps' = mishaps + 1
      /\ mishaps < MaxMishaps /\ UNCHANGED <<stored, credential, site, expiries, logins, meanwhile>>
  BY DEF SessionInv, SessionTypeOK, Crash
<1>2. /\ task' \in [Callers -> Tasks(issued)] /\ login' \in 0..issued /\ mishaps' \in 0..MaxMishaps
      /\ \A r \in Callers : task'[r] = IdleTask
  BY <1>1, Idle, SessionBounds
<1>3. SessionTypeOK'
  BY <1>1, <1>2 DEF SessionTypeOK, Tasks, site
<1>4. \A r \in Callers : /\ TaskDid(task'[r]) /\ task'[r].phase \notin Recovering
                         /\ HolderKnows(task'[r], stored', access')
  BY <1>1, <1>2, Idle DEF HolderKnows, Recovering
<1> QED
  BY <1>3, <1>4 DEF SessionInv, OneHolder

-----------------------------------------------------------------------------
(* The theorems                                                              *)

LEMMA SessionNextOK == SessionInv /\ [SessionNext]_sessionVars => SessionInv'
<1> SUFFICES ASSUME SessionInv, [SessionNext]_sessionVars PROVE SessionInv'
  OBVIOUS
<1>1. ASSUME NEW r \in Callers, Step(r) PROVE SessionInv'
  <2>1. CASE RecoveryFails(r)
    BY <2>1, EndingStep DEF RecoveryFails
  <2> QED
    BY <1>1, <2>1, BeginStep, AnswerStep, RequestAnsweredStep, AgainAnsweredStep, ProfileAnsweredStep,
       RefreshAnsweredStep, CheckAnsweredStep, LoginAnsweredStep DEF Step
<1>2. CASE UNCHANGED sessionVars
  BY <1>2 DEF sessionVars, site, counters, SessionInv, SessionTypeOK
<1> QED
  BY <1>1, <1>2, EnterGateStep, AnswerLostStep, SiteAndUserStep, CrashStep DEF SessionNext

\* The invariant holds: types, who holds the gate, and what the holder knows of the session
\* that is saved (acquire_auth_recovery_account_gate and the recovery under it).
THEOREM SessionInvariance == SessionSpec => []SessionInv
<1>1. SessionInit => SessionInv
  BY SessionInitOK
<1> QED
  BY <1>1, SessionNextOK, PTL DEF SessionSpec

\* A request that is sent once more after a recovery has had no effect before
\* (the error path of account_upstream_request).
THEOREM TakesEffectOnce == SessionSpec => []EffectOnce
<1>1. SessionInv => EffectOnce
  BY DEF SessionInv, TaskDid, EffectOnce
<1> QED
  BY <1>1, SessionInvariance, PTL

\* No session is issued for a recovery while the saved one works, unless it was saved past
\* the gate: a task that has been denied finds what another recovery saved.
THEOREM RecoveriesFindWhatIsSaved == SessionSpec => RecoveriesAreNeeded
<1>1. ASSUME SessionInv, NEW r \in Callers, Recovers(r) PROVE stored \notin access \/ meanwhile
  BY <1>1 DEF SessionInv, HolderKnows, Recovers, Issuing, Recovering
<1>2. SessionInv => [\A r \in Callers : Recovers(r) => stored \notin access \/ meanwhile]_sessionVars
  BY <1>1
<1> QED
  BY <1>2, SessionInvariance, PTL DEF RecoveriesAreNeeded

=============================================================================
