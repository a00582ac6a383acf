----------------------------- MODULE SiteFailover -----------------------------
(* The requests of the account data to one site that has several addresses     *)
(* (site_failover_service.rs), in any number of runtimes, and the state of the *)
(* addresses they share in the coordination database                           *)
(* (infrastructure/runtime_coordination.rs).                                   *)
(*                                                                             *)
(* A request goes to the active address. When that fails, it evaluates the     *)
(* others under a lease: a read is sent to each, a write only after a harmless *)
(* probe of the address, and never again after a failure that may have hidden  *)
(* its success. Address 1 is the primary, the others follow in the order of    *)
(* the settings. Times count in steps of a clock; cooldowns are compared with  *)
(* it, while the time to live of the lease is an event of its own, which comes *)
(* only to a lease that nobody renews.                                         *)
EXTENDS Integers, Sequences, FiniteSets

CONSTANTS
  LastAddress,   \* the addresses are 1..LastAddress
  Reads, Writes, \* the requests
  Origins,       \* the addresses a write may come from (two-factor log-in), 0 if none
  Retries,       \* retry_count_per_address
  Cooldowns,     \* how long a failure cools an address: the setting, or Retry-After
  MayStall,      \* a lease may expire under a request that renews it
  MaxTime, MaxFailures, \* bounds: the clock, and what goes wrong at the addresses
  None

Addresses == 1..LastAddress
Primary == 1
Requests == Reads \cup Writes

ASSUME AddressesType == LastAddress \in Nat \ {0}
ASSUME RequestsType == Reads \cap Writes = {}
ASSUME OriginsType == Origins \subseteq 0..LastAddress
ASSUME BoundsType ==
  /\ Retries \in Nat /\ MaxTime \in Nat /\ MaxFailures \in Nat
  /\ Cooldowns \subseteq Nat /\ MayStall \in BOOLEAN

VARIABLES
  origin,              \* the address each write came from
  active, evaluation,  \* database: active_address_key and evaluation_revision
  address,             \* database: the cooldown of each address
  lease,               \* database: the lease, by its token
  transition,          \* database: the last row of the transitions
  request,             \* each request, with the snapshot it works from
  recordings,          \* failures that threads of dropped workers still record
  releases,            \* tokens that tasks of dropped requests still release
  now, failures,       \* the clock and what has gone wrong so far
  effects,             \* how often a write has taken effect at the site
  overtaken            \* addresses that changed since the request asked them

database == <<active, evaluation, address, lease, transition>>
ghosts == <<effects, overtaken>>
vars == <<origin, database, request, recordings, releases, now, failures, ghosts>>

-----------------------------------------------------------------------------
(* States                                                                    *)

AddressState == [until : Nat, revision : Nat, probe : BOOLEAN]
Snapshots == [active : Addresses, evaluation : Nat, address : [Addresses -> AddressState]]
Token == [holder : Requests, number : Nat]

Evaluating ==
  {"loading", "recovering", "serial", "asking", "racing", "choosing", "testing", "probing",
   "probeRacing", "sending", "reloading", "refreshing", "committing", "concluding"}
RequestPhase == {"idle", "deciding", "direct", "leasing", "waiting", "over"} \cup Evaluating

Results == {"ok", "late", "busy", "unsafe", "terminal", "exhausted", "dropped"}

ASSUME NoneIsNoResult == None \notin Results
ASSUME NoneIsNoTransition == None \notin [from : Addresses, to : Addresses]

InitialAddress == [until |-> 0, revision |-> 0, probe |-> TRUE]
Snapshot == [active |-> active, evaluation |-> evaluation, address |-> address]
NoWinner == [address |-> 0, revision |-> 0]

IdleRequest ==
  [phase |-> "idle", goal |-> "elect", number |-> 0,
   snap |-> None,        \* snapshot, evaluated_snapshot
   latest |-> None,      \* latest_snapshot
   asked |-> <<>>,       \* the attempts under way: revision observed, retries left
   todo |-> <<>>,        \* the candidates to try one after the other
   excluded |-> {},      \* already_failed, excluded
   probed |-> {},        \* all_cooling_probe_attempted
   winner |-> NoWinner, result |-> None]

Init ==
  /\ origin \in [Writes -> Origins]
  /\ active = Primary /\ evaluation = 0
  /\ address = [a \in Addresses |-> InitialAddress]
  /\ lease = None /\ transition = None
  /\ request = [r \in Requests |-> IdleRequest]
  /\ recordings = {} /\ releases = {}
  /\ now = 0 /\ failures = 0
  /\ effects = [r \in Requests |-> 0]
  /\ overtaken = [r \in Requests |-> {}]

Cooling(snap, a) == snap.address[a].until > now
AllCooling(snap) == \A a \in Addresses : Cooling(snap, a)

Asked(r) == DOMAIN request[r].asked
MyToken(r) == [holder |-> r, number |-> request[r].number]
MyLease(r) ==
  /\ lease # None /\ lease.token = MyToken(r)
  /\ lease.evaluation = evaluation

-----------------------------------------------------------------------------
(* How a request moves                                                       *)

\* Of the addresses in "changed" and those noted before, the request that still
\* waits for their answers, or commits one, has been overtaken.
Concern(q) == DOMAIN q.asked \cup {q.winner.address}

Noted(changed) ==
  [r \in Requests |-> (overtaken[r] \cup changed) \cap Concern(request'[r])]

Becomes(r, q) ==
  /\ request' = [request EXCEPT ![r] = q]
  /\ overtaken' = Noted({})

Goes(r, phase) == Becomes(r, [request[r] EXCEPT !.phase = phase])

Over(result) == [IdleRequest EXCEPT !.phase = "over", !.result = result]
Ends(r, result) == Becomes(r, Over(result))

Restarted(q) ==
  [IdleRequest EXCEPT !.phase = "deciding", !.number = q.number, !.excluded = q.excluded]

\* The evaluation is to be completed without a winner, and the request to end so.
Concluding(q, result) ==
  [q EXCEPT !.phase = "concluding", !.result = result, !.asked = <<>>, !.todo = <<>>,
            !.snap = None, !.latest = None, !.winner = NoWinner]

\* Attempts at the addresses "targets", each with the revision of the snapshot.
RetriesForAll(r) == Retries

RetriesFor(r) == IF r \in Reads THEN Retries ELSE 0

Attempts(snap, targets, retries) ==
  [a \in targets |-> [revision |-> snap.address[a].revision, left |-> retries]]

Asks(r, q, phase, snap, targets, retries) ==
  Becomes(r, [q EXCEPT !.phase = phase, !.asked = Attempts(snap, targets, retries)])

-----------------------------------------------------------------------------
(* A request reads the shared state and decides                              *)

Begin(r) ==
  /\ request[r].phase = "idle"
  /\ Goes(r, "deciding")
  /\ UNCHANGED <<database, recordings, releases, now, failures, effects>>

Deciding(r) == [request[r] EXCEPT !.snap = Snapshot]

\* The request goes for the lease, and asks the serial candidates once it has it.
Leases(r, q, goal, serial) ==
  Becomes(r, [q EXCEPT !.phase = "leasing", !.goal = goal, !.todo = serial, !.asked = <<>>])

RecoveryDue ==
  active # Primary /\ ~Cooling(Snapshot, Primary) /\ address[Primary].probe

AsksActive(r) ==
  Asks(r, Deciding(r), "direct", Snapshot, {active}, RetriesFor(r))

InOrder == [i \in Addresses |-> i]

DecideRead(r) ==
  LET excluded == request[r].excluded
      direct == ~RecoveryDue /\ ~address[active].probe /\ ~Cooling(Snapshot, active)
                  /\ active \notin excluded
      serial == IF address[active].probe /\ ~Cooling(Snapshot, active)
                  THEN <<active>> ELSE <<>>
  IN \/ AllCooling(Snapshot) /\ Leases(r, Deciding(r), "cooling", InOrder)
     \/ /\ ~AllCooling(Snapshot) /\ RecoveryDue /\ Primary \notin excluded
        /\ Leases(r, Deciding(r), "recover", <<>>)
     \/ ~AllCooling(Snapshot) /\ direct /\ AsksActive(r)
     \/ /\ ~AllCooling(Snapshot) /\ ~direct /\ (RecoveryDue => Primary \in excluded)
        /\ Leases(r, Deciding(r), "elect", serial)

DecideWrite(r) ==
  LET direct == /\ request[r].excluded = {} /\ origin[r] = 0
                /\ ~Cooling(Snapshot, active) /\ ~address[active].probe
  IN \/ direct /\ AsksActive(r)
     \/ ~direct /\ Leases(r, Deciding(r), "elect", <<>>)

Decide(r) ==
  /\ request[r].phase = "deciding"
  /\ (r \in Reads /\ DecideRead(r)) \/ (r \in Writes /\ DecideWrite(r))
  /\ UNCHANGED <<database, recordings, releases, now, failures, effects>>

-----------------------------------------------------------------------------
(* The lease                                                                 *)

TakeLease(r) ==
  LET q == [request[r] EXCEPT !.number = @ + 1]
  IN /\ request[r].phase = "leasing" /\ lease = None
     /\ lease' = [token |-> [holder |-> r, number |-> q.number], evaluation |-> evaluation]
     /\ \/ r \in Writes /\ Becomes(r, [q EXCEPT !.phase = "loading"])
        \/ r \in Reads /\ q.goal = "recover" /\ Asks(r, q, "recovering", q.snap, {Primary}, 0)
        \/ /\ r \in Reads /\ q.goal # "recover"
           /\ Becomes(r, [q EXCEPT !.phase = "serial"])
     /\ UNCHANGED <<active, evaluation, address, transition, recordings, releases, now,
                    failures, effects>>

WaitForLease(r) ==
  /\ request[r].phase = "leasing" /\ lease # None
  /\ Goes(r, "waiting") \/ Ends(r, "busy")
  /\ UNCHANGED <<database, recordings, releases, now, failures, effects>>

LookAgainForNews(r) ==
  /\ request[r].phase = "waiting" /\ evaluation # request[r].snap.evaluation
  /\ Becomes(r, Restarted(request[r]))
  /\ UNCHANGED <<database, recordings, releases, now, failures, effects>>

\* Once somebody has completed an evaluation, the request starts anew.
LookAgain(r) ==
  /\ request[r].phase = "waiting"
  /\ IF evaluation # request[r].snap.evaluation
       THEN Becomes(r, Restarted(request[r]))
       ELSE Goes(r, "leasing")
  /\ UNCHANGED <<database, recordings, releases, now, failures, effects>>

Renewed(r) == request[r].phase \in Evaluating

LeaseExpires ==
  /\ lease # None
  /\ MayStall \/ ~(Renewed(lease.token.holder) /\ lease.token = MyToken(lease.token.holder))
  /\ lease' = None
  /\ UNCHANGED <<active, evaluation, address, transition, request, recordings, releases,
                 now, failures, effects, overtaken>>

-----------------------------------------------------------------------------
(* The evaluation of a read                                                  *)

AskNext(r) ==
  LET q == request[r]
      a == Head(q.todo)
      next == [q EXCEPT !.todo = Tail(@)]
      skip == a \in q.excluded \/ (q.goal = "elect" /\ Cooling(q.snap, a))
  IN /\ q.phase = "serial" /\ q.todo # <<>>
     /\ \/ skip /\ Becomes(r, next)
        \/ ~skip /\ Asks(r, next, "asking", q.snap, {a}, RetriesFor(r))
     /\ UNCHANGED <<database, recordings, releases, now, failures, effects>>

Candidates(q) == {a \in Addresses \ q.excluded : ~Cooling(q.snap, a)}

RaceReads(r) ==
  LET q == request[r]
  IN /\ q.phase = "serial" /\ q.todo = <<>>
     /\ \/ /\ q.goal = "cooling" \/ Candidates(q) = {}
           /\ Becomes(r, Concluding(q, "exhausted"))
        \/ /\ q.goal = "elect" /\ Candidates(q) # {}
           /\ Asks(r, [q EXCEPT !.snap = None], "racing", q.snap, Candidates(q), RetriesFor(r))
     /\ UNCHANGED <<database, recordings, releases, now, failures, effects>>

\* Every worker of a race has failed.
RaceIsLost(r) ==
  /\ request[r].phase \in {"racing", "probeRacing"} /\ Asked(r) = {}
  /\ Becomes(r, Concluding(request[r], "exhausted"))
  /\ UNCHANGED <<database, recordings, releases, now, failures, effects>>

Reload(r) ==
  /\ request[r].phase = "reloading"
  /\ Becomes(r, [request[r] EXCEPT !.snap = Snapshot,
                                   !.phase = IF r \in Reads THEN "serial" ELSE "choosing"])
  /\ UNCHANGED <<database, recordings, releases, now, failures, effects>>

-----------------------------------------------------------------------------
(* The evaluation of a write                                                 *)

Sends(r, q, a) == Asks(r, [q EXCEPT !.todo = <<>>, !.latest = None], "sending",
                       q.snap, {a}, RetriesFor(r))

Load(r) ==
  LET q == Deciding(r)
      target == IF origin[r] # 0 THEN origin[r] ELSE active
      direct == q.excluded = {} /\ ~AllCooling(q.snap) /\ ~Cooling(q.snap, target)
  IN /\ request[r].phase = "loading"
     /\ \/ direct /\ Sends(r, q, target)
        \/ ~direct /\ Becomes(r, [q EXCEPT !.phase = "choosing"])
     /\ UNCHANGED <<database, recordings, releases, now, failures, effects>>

\* ordered_write_probe_indices: the preferred address, then the others in order.
ProbeOrder(r) ==
  IF origin[r] = 0 THEN InOrder
  ELSE <<origin[r]>> \o SelectSeq(InOrder, LAMBDA a : a # origin[r])

\* The probes are sent one after the other if all addresses cool, in a race if not.
ChooseProbes(r) ==
  LET q == request[r]
      open == Addresses \ (q.excluded \cup q.probed)
      all == AllCooling(q.snap)
  IN /\ q.phase = "choosing"
     /\ \/ /\ IF all THEN open = {} ELSE Candidates(q) = {}
           /\ Becomes(r, Concluding(q, "exhausted"))
        \/ /\ all /\ open # {}
           /\ Becomes(r, [q EXCEPT !.phase = "testing", !.latest = q.snap,
                                   !.todo = SelectSeq(ProbeOrder(r), LAMBDA a : a \in open)])
        \/ /\ ~all /\ Candidates(q) # {}
           /\ Asks(r, q, "probeRacing", q.snap, Candidates(q), Retries)
     /\ UNCHANGED <<database, recordings, releases, now, failures, effects>>

TestNext(r) ==
  LET q == request[r]
  IN /\ q.phase = "testing"
     /\ \/ /\ q.todo # <<>>
           /\ Asks(r, [q EXCEPT !.todo = Tail(@), !.probed = @ \cup {Head(q.todo)}],
                   "probing", q.latest, {Head(q.todo)}, Retries)
        \/ /\ q.todo = <<>>
           /\ Becomes(r, Concluding(q, "exhausted"))
     /\ UNCHANGED <<database, recordings, releases, now, failures, effects>>

Refresh(r) ==
  /\ request[r].phase = "refreshing"
  /\ Becomes(r, [request[r] EXCEPT !.phase = "testing", !.latest = Snapshot])
  /\ UNCHANGED <<database, recordings, releases, now, failures, effects>>

-----------------------------------------------------------------------------
(* What an address answers (attempt_address)                                 *)

Larger(m, n) == IF m < n THEN n ELSE m

\* A failure counts only if nothing has changed the address since it was asked.
Cooled(a, revision, cooldown) ==
  IF address[a].revision # revision THEN address
  ELSE [address EXCEPT ![a] = [until |-> Larger(@.until, now + cooldown),
                               revision |-> @.revision + 1, probe |-> TRUE]]

Records(a, revision) ==
  /\ failures < MaxFailures /\ failures' = failures + 1
  /\ \E cooldown \in Cooldowns : address' = Cooled(a, revision, cooldown)

Changed(a) == IF address'[a] # address[a] THEN {a} ELSE {}

BecomesAsRecorded(r, q, a) ==
  /\ request' = [request EXCEPT ![r] = q]
  /\ overtaken' = Noted(Changed(a))

SendsWrite(r) == r \in Writes /\ request[r].phase \in {"direct", "sending"}

\* The answer may hide that the site did what the write asked for.
MayTakeEffect(r) ==
  \/ UNCHANGED effects
  \/ SendsWrite(r) /\ effects' = [effects EXCEPT ![r] = @ + 1]

Without(q, a) == [q EXCEPT !.asked = [b \in DOMAIN @ \ {a} |-> @[b]]]

Won(q, a) ==
  [q EXCEPT !.phase = "committing", !.asked = <<>>, !.snap = None, !.latest = None, !.todo = <<>>,
            !.winner = [address |-> a, revision |-> q.asked[a].revision]]

\* Workers that are dropped while they record a failure leave the recording behind.
LeavesRecordings(r, others) ==
  \E left \in SUBSET others :
    recordings' = recordings \cup
      {[address |-> b, revision |-> request[r].asked[b].revision] : b \in left}

Answers(r, a) ==
  LET q == request[r]
  IN /\ a \in Asked(r)
     /\ \/ q.phase = "direct" /\ Ends(r, "ok")
        \/ q.phase \in {"recovering", "asking", "racing", "sending"} /\ Becomes(r, Won(q, a))
        \/ q.phase \in {"probing", "probeRacing"} /\ Sends(r, q, a)
     /\ IF SendsWrite(r) THEN effects' = [effects EXCEPT ![r] = @ + 1] ELSE UNCHANGED effects
     /\ LeavesRecordings(r, Asked(r) \ {a})
     /\ UNCHANGED <<database, releases, now, failures>>

\* An attempt that may be repeated at the same address.
Retry(r, a) ==
  /\ a \in Asked(r) /\ request[r].asked[a].left > 0
  /\ Becomes(r, [request[r] EXCEPT !.asked[a].left = @ - 1])
  /\ MayTakeEffect(r)
  /\ UNCHANGED <<database, recordings, releases, now, failures>>

\* The address answers with an error that another address would answer as well.
Refuses(r, a) ==
  LET q == request[r]
  IN /\ a \in Asked(r) /\ q.phase # "recovering"
     /\ \/ q.phase = "direct" /\ Ends(r, "terminal")
        \/ q.phase \in {"asking", "sending"} /\ Becomes(r, Concluding(q, "terminal"))
        \/ q.phase \in {"racing", "probeRacing"} /\ Becomes(r, Without(q, a))
        \/ q.phase = "probing" /\ Becomes(r, [Without(q, a) EXCEPT !.phase = "testing"])
     /\ MayTakeEffect(r)
     /\ UNCHANGED <<database, recordings, releases, now, failures>>

AfterFailureOfAnyKind(r, a, limited) ==
  LET q == [Without(request[r], a) EXCEPT !.excluded = @ \cup {a}]
  IN CASE q.phase = "direct" -> [q EXCEPT !.phase = "leasing", !.goal = "elect", !.todo = <<>>]
       [] q.phase \in {"asking", "sending"} -> [q EXCEPT !.phase = "reloading", !.snap = None]
       [] q.phase = "recovering" -> Concluding(q, None)
       [] q.phase = "probing" ->
            [Without(request[r], a) EXCEPT !.phase = "refreshing", !.latest = None]
       [] OTHER -> Without(request[r], a)

\* The address cannot be reached, is overloaded or, "limited", answers 429. The probe
\* that may restore the primary takes every error for such a failure.
AfterFailure(r, a, limited) ==
  LET q == [Without(request[r], a) EXCEPT !.excluded = @ \cup {a}]
  IN CASE q.phase = "direct" /\ (r \in Reads \/ limited) ->
            [q EXCEPT !.phase = "leasing", !.goal = "elect", !.todo = <<>>]
       [] q.phase = "direct" /\ ~(r \in Reads \/ limited) -> Over("unsafe")
       [] q.phase = "sending" /\ ~limited -> Concluding(q, "unsafe")
       [] q.phase = "asking" \/ (q.phase = "sending" /\ limited) ->
            [q EXCEPT !.phase = "reloading", !.snap = None]
       [] q.phase = "recovering" -> Concluding(q, None)
       [] q.phase = "probing" ->
            [Without(request[r], a) EXCEPT !.phase = "refreshing", !.latest = None]
       [] OTHER -> Without(request[r], a)

Fails(r, a, limited) ==
  /\ a \in Asked(r) /\ (request[r].asked[a].left = 0 \/ limited)
  /\ Records(a, request[r].asked[a].revision)
  /\ BecomesAsRecorded(r, AfterFailure(r, a, limited), a)
  /\ IF limited THEN UNCHANGED effects ELSE MayTakeEffect(r)
  /\ UNCHANGED <<active, evaluation, lease, transition, recordings, releases, now>>

LateRecording(recording) ==
  /\ recording \in recordings
  /\ recordings' = recordings \ {recording}
  /\ Records(recording.address, recording.revision)
  /\ UNCHANGED request /\ overtaken' = Noted(Changed(recording.address))
  /\ UNCHANGED <<active, evaluation, lease, transition, releases, now, effects>>

-----------------------------------------------------------------------------
(* The end of an evaluation (complete_site_failover_evaluation)              *)

ElectedAnyway(w) == TRUE

Elected(w) == address[w.address].revision = w.revision

ElectLogging(a) ==
  /\ address' = [address EXCEPT ![a] = [until |-> 0, revision |-> @.revision + 1,
                                       probe |-> FALSE]]
  /\ active' = a
  /\ transition' = [from |-> active, to |-> a]

Elect(a) ==
  /\ address' = [address EXCEPT ![a] = [until |-> 0, revision |-> @.revision + 1,
                                       probe |-> FALSE]]
  /\ active' = a
  /\ transition' = IF a # active THEN [from |-> active, to |-> a] ELSE transition

Completes == evaluation' = evaluation + 1 /\ lease' = None

\* The success counts if the winner is now in use, elected by this request or not.
InUse(a) == active' = a /\ ~address'[a].probe /\ address'[a].until <= now

AfterCommitUnchecked(q, inUse) ==
  IF q.goal = "recover" THEN Restarted(q) ELSE Over("ok")

AfterCommit(q, inUse) ==
  IF ~inUse THEN Over("late")
  ELSE IF q.goal = "recover" THEN Restarted(q) ELSE Over("ok")

Commit(r) ==
  LET q == request[r]
      w == q.winner
  IN /\ q.phase = "committing"
     /\ \/ MyLease(r) /\ Completes /\ Elected(w) /\ Elect(w.address)
        \/ /\ MyLease(r) /\ Completes /\ ~Elected(w)
           /\ UNCHANGED <<active, address, transition>>
        \/ ~MyLease(r) /\ UNCHANGED database
     /\ request' = [request EXCEPT ![r] = AfterCommit(q, MyLease(r) /\ InUse(w.address))]
     /\ overtaken' = Noted(Changed(w.address))
     /\ UNCHANGED <<recordings, releases, now, failures, effects>>

Conclude(r) ==
  LET q == request[r]
  IN /\ q.phase = "concluding"
     /\ IF MyLease(r) THEN Completes ELSE UNCHANGED <<evaluation, lease>>
     /\ Becomes(r, IF q.result = None THEN Restarted(q) ELSE Over(q.result))
     /\ UNCHANGED <<active, address, transition, recordings, releases, now, failures, effects>>

-----------------------------------------------------------------------------
(* What else happens                                                         *)

\* The caller drops the request, the database fails it, or its process dies: only in
\* the last case does nobody release its lease.
Drop(r) ==
  /\ request[r].phase \notin {"idle", "over"}
  /\ Ends(r, "dropped")
  /\ LeavesRecordings(r, Asked(r))
  /\ MayTakeEffect(r)
  /\ \/ UNCHANGED releases
     \/ request[r].phase \in Evaluating /\ releases' = releases \cup {MyToken(r)}
  /\ UNCHANGED <<database, now, failures>>

\* Dropped while another thread takes the lease, which nobody will renew or release.
DropTaking(r) ==
  /\ request[r].phase = "leasing" /\ lease = None
  /\ lease' = [token |-> [holder |-> r, number |-> request[r].number + 1],
               evaluation |-> evaluation]
  /\ Ends(r, "dropped")
  /\ UNCHANGED <<active, evaluation, address, transition, recordings, releases, now,
                 failures, effects>>

\* release_site_failover_lease, spawned by the end of the heartbeat.
Release(token) ==
  /\ token \in releases
  /\ releases' = releases \ {token}
  /\ lease' = IF lease # None /\ lease.token = token THEN None ELSE lease
  /\ UNCHANGED <<active, evaluation, address, transition, request, recordings, now,
                 failures, effects, overtaken>>

\* The user clears the cooldown of an address.
ClearCooldown(a) ==
  /\ failures < MaxFailures /\ failures' = failures + 1
  /\ address' = [address EXCEPT ![a] = [until |-> 0, revision |-> @.revision + 1,
                                       probe |-> TRUE]]
  /\ UNCHANGED request /\ overtaken' = Noted({a})
  /\ UNCHANGED <<active, evaluation, lease, transition, recordings, releases, now, effects>>

Tick ==
  /\ now < MaxTime /\ now' = now + 1
  /\ UNCHANGED <<database, request, recordings, releases, failures, effects, overtaken>>

-----------------------------------------------------------------------------

Step(r) ==
  \/ Decide(r) \/ TakeLease(r) \/ WaitForLease(r) \/ LookAgain(r)
  \/ AskNext(r) \/ RaceReads(r) \/ RaceIsLost(r) \/ Reload(r)
  \/ Load(r) \/ ChooseProbes(r) \/ TestNext(r) \/ Refresh(r)
  \/ Commit(r) \/ Conclude(r)

Outcome(r, a) ==
  Answers(r, a) \/ Retry(r, a) \/ Refuses(r, a) \/ \E limited \in BOOLEAN : Fails(r, a, limited)

Next ==
  /\ UNCHANGED origin
  /\ \/ \E r \in Requests :
          \/ Begin(r) \/ Step(r) \/ Drop(r) \/ DropTaking(r)
          \/ \E a \in Addresses : Outcome(r, a)
     \/ \E recording \in recordings : LateRecording(recording)
     \/ \E token \in releases : Release(token)
     \/ \E a \in Addresses : ClearCooldown(a)
     \/ LeaseExpires \/ Tick

Spec == Init /\ [][Next]_vars

\* Tasks run, requests to an address end within their time limits, and a lease that
\* nobody renews expires.
Fairness ==
  /\ \A r \in Requests :
       /\ WF_vars(UNCHANGED origin /\ Step(r))
       /\ \A a \in Addresses : WF_vars(UNCHANGED origin /\ Outcome(r, a))
  /\ WF_vars(UNCHANGED origin /\ LeaseExpires)

FairSpec == Spec /\ Fairness

-----------------------------------------------------------------------------
(* Properties                                                                *)

TypeOK ==
  /\ origin \in [Writes -> 0..LastAddress]
  /\ active \in Addresses /\ evaluation \in Nat
  /\ address \in [Addresses -> AddressState]
  /\ lease = None \/ lease \in [token : Token, evaluation : Nat]
  /\ \A r \in Requests :
       /\ request[r].phase \in RequestPhase
       /\ request[r].result \in Results \cup {None}
       /\ Asked(r) \subseteq Addresses
       /\ \A a \in Asked(r) : request[r].asked[a].left \in 0..Retries
       /\ request[r].excluded \subseteq Addresses
  /\ releases \subseteq Token
  /\ now \in 0..MaxTime /\ failures \in 0..MaxFailures
  /\ effects \in [Requests -> Nat]

\* Nothing completes an evaluation beside the one that holds the lease.
LeaseSeesPresent == lease # None => lease.evaluation = evaluation

\* A write takes effect at most once, however many addresses it is sent to.
WritesAreNotReplayed == \A r \in Writes : effects[r] <= 1

\* A write that ends because no address is left, or because the lease is not to be had,
\* has had no effect: its caller may repeat it.
RejectedWritesHadNoEffect ==
  \A r \in Writes : request[r].result \in {"exhausted", "busy"} => effects[r] = 0

\* A failure or a success counts only at an address that nothing has changed since the
\* request asked it: old failures do not cool an address that has been elected since, and
\* old successes do not hide a failure that has been recorded since.
LateOutcomesAreRejected ==
  [][\A a \in Addresses : \A r \in Requests :
       (\/ request[r].phase = "committing" /\ request[r].winner.address = a
          /\ request'[r].phase # "committing" /\ ~address'[a].probe
        \/ a \in Asked(r) /\ a \notin DOMAIN request'[r].asked /\ address'[a].probe)
       /\ address'[a] # address[a]
       => a \notin overtaken[r]]_vars

\* A success that ends an evaluation came from the address that requests now go to, and
\* nothing that is known speaks against that address.
ElectedIsInUse ==
  [][\A r \in Requests :
       request[r].phase = "committing" /\ (request'[r].phase = "deciding" \/ request'[r].result = "ok")
       => InUse(request[r].winner.address)]_vars

\* The last transition of the log ends at the active address.
TransitionsTellActive ==
  IF transition = None THEN active = Primary
  ELSE transition.to = active /\ transition.from # active

\* Every request ends, whoever else holds the lease, drops out or crashes.
EveryRequestEnds ==
  \A r \in Requests : request[r].phase = "deciding" ~> request[r].phase = "over"

=============================================================================
