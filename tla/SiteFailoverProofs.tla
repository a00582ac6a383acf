-------------------------- MODULE SiteFailoverProofs --------------------------
(* For any addresses, requests, cooldowns and retries.                         *)
(*                                                                             *)
(* First part, writes: a write is unsafe from the moment an address may have   *)
(* done what it asks for, and from then on it only ends: it is in its commit   *)
(* or its conclusion, and nothing leads back from there.                       *)
(*                                                                             *)
(* Second part, addresses: the revision of an address grows with every change  *)
(* of what is known about it, so a request that comes with the revision it has *)
(* seen is accepted only if nothing has changed since.                         *)
EXTENDS SiteFailover, TLAPS

-----------------------------------------------------------------------------
(* The inductive invariant                                                   *)

\* A request is a record of these fields, whatever they hold.
Fields == {"phase", "goal", "number", "snap", "latest", "asked", "todo", "excluded",
           "probed", "winner", "result"}

Shape(q) == DOMAIN q = Fields

Ending == {"committing", "concluding", "over"}

WriteSafe(q, count) ==
  /\ count \in {0, 1}
  /\ q.goal = "elect" /\ q.phase # "recovering"
  /\ q.phase \notin Ending => count = 0
  /\ q.phase \notin {"concluding", "over"} => q.result = None
  /\ q.phase = "concluding" => q.result # None
  /\ q.result \in {"exhausted", "busy"} => count = 0
  /\ q.phase \in {"direct", "sending"} => \A a \in DOMAIN q.asked : q.asked[a].left = 0

WriteInv ==
  /\ request = [r \in Requests |-> request[r]]
  /\ effects = [r \in Requests |-> effects[r]]
  /\ \A r \in Requests : Shape(request[r])
  /\ \A w \in Writes : WriteSafe(request[w], effects[w])

-----------------------------------------------------------------------------
(* One request moves                                                         *)

LEMMA IdleShape == Shape(IdleRequest) /\ WriteSafe(IdleRequest, 0)
BY NoneIsNoResult DEF Shape, Fields, IdleRequest, WriteSafe, Ending, Results

LEMMA OneMoves ==
  ASSUME WriteInv, NEW r \in Requests, NEW q, NEW count,
         request' = [request EXCEPT ![r] = q],
         effects' = [effects EXCEPT ![r] = count],
         Shape(q), r \in Writes => WriteSafe(q, count)
  PROVE  WriteInv'
BY DEF WriteInv, Requests

LEMMA OneMovesQuietly ==
  ASSUME WriteInv, NEW r \in Requests, NEW q,
         request' = [request EXCEPT ![r] = q], effects' = effects,
         Shape(q), r \in Writes => WriteSafe(q, effects[r])
  PROVE  WriteInv'
<1>1. effects' = [effects EXCEPT ![r] = effects[r]]
  BY DEF WriteInv
<1> QED
  BY <1>1, OneMoves

LEMMA NobodyMoves ==
  ASSUME WriteInv, request' = request, effects' = effects
  PROVE  WriteInv'
BY DEF WriteInv

LEMMA Overs ==
  ASSUME NEW result, NEW count \in {0, 1}, result \in Results,
         result \in {"exhausted", "busy"} => count = 0
  PROVE  Shape(Over(result)) /\ WriteSafe(Over(result), count)
BY NoneIsNoResult DEF Over, Shape, Fields, IdleRequest, WriteSafe, Ending, Results

LEMMA Restarts ==
  ASSUME NEW q
  PROVE  Shape(Restarted(q)) /\ WriteSafe(Restarted(q), 0)
BY NoneIsNoResult DEF Restarted, Shape, Fields, IdleRequest, WriteSafe, Ending, Results

LEMMA Concludes ==
  ASSUME NEW q, Shape(q), NEW result, NEW count \in {0, 1}, q.goal = "elect",
         result \in Results, result \in {"exhausted", "busy"} => count = 0
  PROVE  WriteSafe(Concluding(q, result), count)
BY NoneIsNoResult DEF Concluding, Shape, Fields, WriteSafe, Ending, Results

LEMMA ConcludesShape ==
  ASSUME NEW q, Shape(q), NEW result
  PROVE  Shape(Concluding(q, result))
BY DEF Concluding, Shape, Fields

-----------------------------------------------------------------------------
(* The steps of a request                                                    *)

\* A step to another phase of the same request.
LEMMA Moves ==
  ASSUME WriteInv, NEW r \in Requests, NEW p, Becomes(r, p), UNCHANGED effects,
         Shape(p), p.phase \notin Ending \cup {"recovering", "direct", "sending"},
         p.goal = request[r].goal, p.result = request[r].result,
         request[r].phase \notin Ending
  PROVE  WriteInv'
<1>1. request' = [request EXCEPT ![r] = p] /\ effects' = effects
  BY DEF Becomes
<1>2. r \in Writes => WriteSafe(p, effects[r])
  BY DEF WriteInv, WriteSafe, Ending
<1> QED
  BY <1>1, <1>2, OneMovesQuietly

\* An end that changes nothing at the site.
LEMMA EndsQuietly ==
  ASSUME WriteInv, NEW r \in Requests, NEW result, Ends(r, result), UNCHANGED effects,
         result \in Results,
         r \in Writes /\ result \in {"exhausted", "busy"} => effects[r] = 0
  PROVE  WriteInv'
<1>1. request' = [request EXCEPT ![r] = Over(result)] /\ effects' = effects
  BY DEF Ends, Becomes
<1>2. Shape(Over(result))
  BY Overs
<1>3. r \in Writes => WriteSafe(Over(result), effects[r])
  BY Overs DEF WriteInv, WriteSafe
<1> QED
  BY <1>1, <1>2, <1>3, OneMovesQuietly

LEMMA ConcludesQuietly ==
  ASSUME WriteInv, NEW r \in Requests, NEW q, Shape(q), NEW result,
         Becomes(r, Concluding(q, result)), UNCHANGED effects, result \in Results,
         r \in Writes => q.goal = "elect",
         r \in Writes /\ result \in {"exhausted", "busy"} => effects[r] = 0
  PROVE  WriteInv'
<1>1. request' = [request EXCEPT ![r] = Concluding(q, result)] /\ effects' = effects
  BY DEF Becomes
<1>2. Shape(Concluding(q, result))
  BY ConcludesShape
<1>3. ASSUME r \in Writes PROVE WriteSafe(Concluding(q, result), effects[r])
  <2>1. effects[r] \in {0, 1}
    BY <1>3 DEF WriteInv, WriteSafe
  <2> QED
    BY <1>3, <2>1, Concludes
<1> QED
  BY <1>1, <1>2, <1>3, OneMovesQuietly

\* What is known of a write that has not been answered.
LEMMA Unanswered ==
  ASSUME WriteInv, NEW r \in Writes, request[r].phase \notin Ending
  PROVE  /\ effects[r] = 0 /\ request[r].goal = "elect" /\ request[r].result = None
         /\ request[r].phase # "recovering"
BY DEF WriteInv, WriteSafe, Ending

LEMMA BeginStep ==
  ASSUME WriteInv, NEW r \in Requests, Begin(r)
  PROVE  WriteInv'
<1> DEFINE q == [request[r] EXCEPT !.phase = "deciding"]
<1>1. Shape(request[r]) /\ request[r].phase = "idle"
  BY DEF WriteInv, Begin
<1>2. Shape(q) /\ (r \in Writes => WriteSafe(q, effects[r]))
  BY <1>1 DEF WriteInv, Shape, Fields, WriteSafe, Ending
<1>3. request' = [request EXCEPT ![r] = q] /\ effects' = effects
  BY DEF Begin, Goes, Becomes
<1> QED
  BY <1>2, <1>3, OneMovesQuietly

\* A new attempt of a write has no retries.
LEMMA AsksSafely ==
  ASSUME WriteInv, NEW r \in Requests, NEW q, NEW phase, NEW snap, NEW targets, NEW retries,
         Asks(r, q, phase, snap, targets, retries), UNCHANGED effects, Shape(q),
         r \in Writes => /\ effects[r] = 0 /\ q.goal = "elect" /\ q.result = None
                         /\ phase \notin Ending \cup {"recovering"}
                         /\ phase \in {"direct", "sending"} => retries = 0
  PROVE  WriteInv'
<1> DEFINE p == [q EXCEPT !.phase = phase, !.asked = Attempts(snap, targets, retries)]
<1>1. Shape(p)
  BY DEF Shape, Fields
<1>2. /\ p.phase = phase /\ p.goal = q.goal /\ p.result = q.result
      /\ p.asked = Attempts(snap, targets, retries)
  BY DEF Shape, Fields
<1>4. request' = [request EXCEPT ![r] = p] /\ effects' = effects
  BY DEF Asks, Becomes
<1>5. \A a \in DOMAIN p.asked : p.asked[a].left = retries
  BY <1>2 DEF Attempts
<1> HIDE DEF p
<1>3. ASSUME r \in Writes PROVE WriteSafe(p, effects[r])
  <2>1. /\ effects[r] = 0 /\ p.goal = "elect" /\ p.result = None
        /\ p.phase \notin Ending \cup {"recovering"}
        /\ p.phase \in {"direct", "sending"} => retries = 0
    BY <1>2, <1>3
  <2>2. None \notin {"exhausted", "busy"}
    BY NoneIsNoResult DEF Results
  <2>3. p.phase \in {"direct", "sending"} => \A a \in DOMAIN p.asked : p.asked[a].left = 0
    BY <1>5, <2>1
  <2> QED
    BY <2>1, <2>2, <2>3 DEF WriteSafe, Ending
<1> QED
  BY <1>1, <1>3, <1>4, OneMovesQuietly

LEMMA LeasesSafely ==
  ASSUME WriteInv, NEW r \in Requests, NEW q, NEW goal, NEW serial,
         Leases(r, q, goal, serial), UNCHANGED effects, Shape(q),
         r \in Writes => effects[r] = 0 /\ goal = "elect" /\ q.result = None
  PROVE  WriteInv'
<1> DEFINE p == [q EXCEPT !.phase = "leasing", !.goal = goal, !.todo = serial, !.asked = <<>>]
<1>1. Shape(p) /\ p.phase = "leasing" /\ p.goal = goal /\ p.result = q.result
  BY DEF Shape, Fields
<1>2. r \in Writes => WriteSafe(p, effects[r])
  BY <1>1, NoneIsNoResult DEF WriteSafe, Ending, Results
<1>3. request' = [request EXCEPT ![r] = p] /\ effects' = effects
  BY DEF Leases, Becomes
<1> QED
  BY <1>1, <1>2, <1>3, OneMovesQuietly

LEMMA DecideStep ==
  ASSUME WriteInv, NEW r \in Requests, Decide(r)
  PROVE  WriteInv'
<1> DEFINE q == Deciding(r)
<1>1. Shape(request[r]) /\ request[r].phase = "deciding" /\ UNCHANGED effects
  BY DEF WriteInv, Decide
<1>2. Shape(q) /\ q.goal = request[r].goal /\ q.result = request[r].result
  BY <1>1 DEF Deciding, Shape, Fields
<1>3. r \in Writes => effects[r] = 0 /\ q.goal = "elect" /\ q.result = None
  BY <1>1, <1>2 DEF WriteInv, WriteSafe, Ending
<1>4. AsksActive(r) => WriteInv'
  <2> SUFFICES ASSUME AsksActive(r) PROVE WriteInv'
    OBVIOUS
  <2>1. Asks(r, q, "direct", Snapshot, {active}, RetriesFor(r))
    BY DEF AsksActive
  <2>2. r \in Writes => RetriesFor(r) = 0
    BY RequestsType DEF RetriesFor
  <2> QED
    BY <1>1, <1>2, <1>3, <2>1, <2>2, AsksSafely DEF Ending
<1>5. ASSUME NEW goal, NEW serial, Leases(r, q, goal, serial), r \in Writes => goal = "elect"
      PROVE  WriteInv'
  BY <1>1, <1>2, <1>3, <1>5, LeasesSafely
<1>6. CASE r \in Reads /\ DecideRead(r)
  <2>1. r \notin Writes
    BY <1>6, RequestsType
  <2> QED
    BY <1>4, <1>5, <1>6, <2>1 DEF DecideRead
<1>7. CASE r \in Writes /\ DecideWrite(r)
  BY <1>4, <1>5, <1>7 DEF DecideWrite
<1> QED
  BY <1>6, <1>7 DEF Decide

LEMMA TakeLeaseStep ==
  ASSUME WriteInv, NEW r \in Requests, TakeLease(r)
  PROVE  WriteInv'
<1> DEFINE q == [request[r] EXCEPT !.number = @ + 1]
<1>1. Shape(request[r]) /\ request[r].phase = "leasing" /\ UNCHANGED effects
  BY DEF WriteInv, TakeLease
<1>2. Shape(q) /\ q.goal = request[r].goal /\ q.result = request[r].result
  BY <1>1 DEF Shape, Fields
<1>3. CASE r \in Writes /\ Becomes(r, [q EXCEPT !.phase = "loading"])
  BY <1>1, <1>2, <1>3, Moves DEF Shape, Fields, Ending
<1>4. CASE r \in Reads /\ Asks(r, q, "recovering", q.snap, {Primary}, 0)
  BY <1>1, <1>2, <1>4, RequestsType, AsksSafely
<1>5. CASE Becomes(r, [q EXCEPT !.phase = "serial"])
  BY <1>1, <1>2, <1>5, Moves DEF Shape, Fields, Ending
<1> QED
  BY <1>3, <1>4, <1>5 DEF TakeLease

LEMMA WaitForLeaseStep ==
  ASSUME WriteInv, NEW r \in Requests, WaitForLease(r)
  PROVE  WriteInv'
<1>1. Shape(request[r]) /\ request[r].phase = "leasing" /\ UNCHANGED effects
  BY DEF WriteInv, WaitForLease
<1>2. CASE Goes(r, "waiting")
  BY <1>1, <1>2, Moves DEF Goes, Shape, Fields, Ending
<1>3. CASE Ends(r, "busy")
  BY <1>1, <1>3, Unanswered, EndsQuietly DEF Ending, Results
<1> QED
  BY <1>2, <1>3 DEF WaitForLease

LEMMA LookAgainStep ==
  ASSUME WriteInv, NEW r \in Requests, LookAgain(r)
  PROVE  WriteInv'
<1>1. Shape(request[r]) /\ request[r].phase = "waiting" /\ UNCHANGED effects
  BY DEF WriteInv, LookAgain
<1>2. CASE Becomes(r, Restarted(request[r]))
  BY <1>1, <1>2, Unanswered, Restarts, OneMovesQuietly DEF Becomes, Ending
<1>3. CASE Goes(r, "leasing")
  BY <1>1, <1>3, Moves DEF Goes, Shape, Fields, Ending
<1> QED
  BY <1>2, <1>3 DEF LookAgain

LEMMA AskNextStep ==
  ASSUME WriteInv, NEW r \in Requests, AskNext(r)
  PROVE  WriteInv'
<1> DEFINE next == [request[r] EXCEPT !.todo = Tail(@)]
<1>1. Shape(request[r]) /\ request[r].phase = "serial" /\ UNCHANGED effects
  BY DEF WriteInv, AskNext
<1>2. /\ Shape(next) /\ next.goal = request[r].goal /\ next.result = request[r].result
      /\ next.phase = "serial"
  BY <1>1 DEF Shape, Fields
<1>3. CASE Becomes(r, next)
  BY <1>1, <1>2, <1>3, Moves DEF Ending
<1>4. CASE Asks(r, next, "asking", request[r].snap, {Head(request[r].todo)}, RetriesFor(r))
  BY <1>1, <1>2, <1>4, Unanswered, AsksSafely DEF Ending
<1> QED
  BY <1>3, <1>4 DEF AskNext

LEMMA RaceReadsStep ==
  ASSUME WriteInv, NEW r \in Requests, RaceReads(r)
  PROVE  WriteInv'
<1> DEFINE q == request[r]
           p == [q EXCEPT !.snap = None]
<1>1. Shape(q) /\ q.phase = "serial" /\ UNCHANGED effects
  BY DEF WriteInv, RaceReads
<1>2. Shape(p) /\ p.goal = q.goal /\ p.result = q.result
  BY <1>1 DEF Shape, Fields
<1>3. CASE Becomes(r, Concluding(q, "exhausted"))
  BY <1>1, <1>3, Unanswered, ConcludesQuietly DEF Ending, Results
<1>4. CASE Asks(r, p, "racing", q.snap, Candidates(q), RetriesFor(r))
  BY <1>1, <1>2, <1>4, Unanswered, AsksSafely DEF Ending
<1> QED
  BY <1>3, <1>4 DEF RaceReads

LEMMA RaceIsLostStep ==
  ASSUME WriteInv, NEW r \in Requests, RaceIsLost(r)
  PROVE  WriteInv'
<1>1. Shape(request[r]) /\ request[r].phase \notin Ending /\ UNCHANGED effects
  BY DEF WriteInv, RaceIsLost, Ending
<1>2. Becomes(r, Concluding(request[r], "exhausted"))
  BY DEF RaceIsLost
<1> QED
  BY <1>1, <1>2, Unanswered, ConcludesQuietly DEF Results

LEMMA ReloadStep ==
  ASSUME WriteInv, NEW r \in Requests, Reload(r)
  PROVE  WriteInv'
<1> DEFINE p == [request[r] EXCEPT !.snap = Snapshot,
                                   !.phase = IF r \in Reads THEN "serial" ELSE "choosing"]
<1>1. Shape(request[r]) /\ request[r].phase = "reloading" /\ UNCHANGED effects
  BY DEF WriteInv, Reload
<1>2. /\ Shape(p) /\ p.goal = request[r].goal /\ p.result = request[r].result
      /\ p.phase \in {"serial", "choosing"}
  BY <1>1 DEF Shape, Fields
<1> QED
  BY <1>1, <1>2, Moves DEF Reload, Ending

LEMMA SendsSafely ==
  ASSUME WriteInv, NEW r \in Requests, NEW q, NEW a, Sends(r, q, a), UNCHANGED effects, Shape(q),
         r \in Writes => effects[r] = 0 /\ q.goal = "elect" /\ q.result = None
  PROVE  WriteInv'
<1> DEFINE p == [q EXCEPT !.todo = <<>>, !.latest = None]
<1>1. Shape(p) /\ p.goal = q.goal /\ p.result = q.result
  BY DEF Shape, Fields
<1>2. r \in Writes => RetriesFor(r) = 0
  BY RequestsType DEF RetriesFor
<1>3. Asks(r, p, "sending", q.snap, {a}, RetriesFor(r))
  BY DEF Sends
<1> QED
  BY <1>1, <1>2, <1>3, AsksSafely DEF Ending

LEMMA LoadStep ==
  ASSUME WriteInv, NEW r \in Requests, Load(r)
  PROVE  WriteInv'
<1> DEFINE q == Deciding(r)
<1>1. Shape(request[r]) /\ request[r].phase = "loading" /\ UNCHANGED effects
  BY DEF WriteInv, Load
<1>2. Shape(q) /\ q.goal = request[r].goal /\ q.result = request[r].result
  BY <1>1 DEF Deciding, Shape, Fields
<1>3. CASE \E a : Sends(r, q, a)
  BY <1>1, <1>2, <1>3, Unanswered, SendsSafely DEF Ending
<1>4. CASE Becomes(r, [q EXCEPT !.phase = "choosing"])
  BY <1>1, <1>2, <1>4, Moves DEF Shape, Fields, Ending
<1> QED
  BY <1>3, <1>4 DEF Load

LEMMA ChooseProbesStep ==
  ASSUME WriteInv, NEW r \in Requests, ChooseProbes(r)
  PROVE  WriteInv'
<1> DEFINE q == request[r]
           open == Addresses \ (q.excluded \cup q.probed)
           p == [q EXCEPT !.phase = "testing", !.latest = q.snap,
                          !.todo = SelectSeq(ProbeOrder(r), LAMBDA a : a \in open)]
<1>1. Shape(q) /\ q.phase = "choosing" /\ UNCHANGED effects
  BY DEF WriteInv, ChooseProbes
<1>2. Shape(p) /\ p.goal = q.goal /\ p.result = q.result /\ p.phase = "testing"
  BY <1>1 DEF Shape, Fields
<1>3. CASE Becomes(r, Concluding(q, "exhausted"))
  BY <1>1, <1>3, Unanswered, ConcludesQuietly DEF Ending, Results
<1>4. CASE Becomes(r, p)
  <2> HIDE DEF p
  <2> QED
    BY <1>1, <1>2, <1>4, Moves DEF Ending
<1>5. CASE Asks(r, q, "probeRacing", q.snap, Candidates(q), Retries)
  BY <1>1, <1>5, Unanswered, AsksSafely DEF Ending
<1> QED
  BY <1>3, <1>4, <1>5 DEF ChooseProbes

LEMMA TestNextStep ==
  ASSUME WriteInv, NEW r \in Requests, TestNext(r)
  PROVE  WriteInv'
<1> DEFINE q == request[r]
           p == [q EXCEPT !.todo = Tail(@), !.probed = @ \cup {Head(q.todo)}]
<1>1. Shape(q) /\ q.phase = "testing" /\ UNCHANGED effects
  BY DEF WriteInv, TestNext
<1>2. Shape(p) /\ p.goal = q.goal /\ p.result = q.result
  BY <1>1 DEF Shape, Fields
<1>3. CASE Asks(r, p, "probing", q.latest, {Head(q.todo)}, Retries)
  BY <1>1, <1>2, <1>3, Unanswered, AsksSafely DEF Ending
<1>4. CASE Becomes(r, Concluding(q, "exhausted"))
  BY <1>1, <1>4, Unanswered, ConcludesQuietly DEF Ending, Results
<1> QED
  BY <1>3, <1>4 DEF TestNext

LEMMA RefreshStep ==
  ASSUME WriteInv, NEW r \in Requests, Refresh(r)
  PROVE  WriteInv'
<1> DEFINE p == [request[r] EXCEPT !.phase = "testing", !.latest = Snapshot]
<1>1. Shape(request[r]) /\ request[r].phase = "refreshing" /\ UNCHANGED effects
  BY DEF WriteInv, Refresh
<1>2. /\ Shape(p) /\ p.goal = request[r].goal /\ p.result = request[r].result
      /\ p.phase = "testing"
  BY <1>1 DEF Shape, Fields
<1> QED
  BY <1>1, <1>2, Moves DEF Refresh, Ending

LEMMA CommitStep ==
  ASSUME WriteInv, NEW r \in Requests, Commit(r)
  PROVE  WriteInv'
<1> DEFINE q == request[r]
           p == AfterCommit(q, MyLease(r) /\ InUse(q.winner.address))
<1>1. /\ Shape(q) /\ q.phase = "committing" /\ UNCHANGED effects
      /\ request' = [request EXCEPT ![r] = p]
  BY DEF WriteInv, Commit
<1>2. r \in Writes => effects[r] \in {0, 1} /\ q.goal = "elect"
  BY DEF WriteInv, WriteSafe
<1>3. p \in {Over("late"), Over("ok")} \/ (p = Restarted(q) /\ q.goal = "recover")
  BY DEF AfterCommit
<1>4. Shape(p)
  BY <1>3, Overs, Restarts DEF Results
<1>5. r \in Writes => WriteSafe(p, effects[r])
  BY <1>2, <1>3, Overs DEF Results
<1> QED
  BY <1>1, <1>4, <1>5, OneMovesQuietly

LEMMA ConcludeStep ==
  ASSUME WriteInv, NEW r \in Requests, Conclude(r)
  PROVE  WriteInv'
<1> DEFINE q == request[r]
<1>1. /\ q.phase = "concluding" /\ UNCHANGED effects
      /\ Becomes(r, IF q.result = None THEN Restarted(q) ELSE Over(q.result))
  BY DEF Conclude
<1>2. ASSUME q.result = None PROVE WriteInv'
  <2>1. r \notin Writes
    BY <1>1, <1>2 DEF WriteInv, WriteSafe
  <2>2. Shape(Restarted(q)) /\ request' = [request EXCEPT ![r] = Restarted(q)]
    BY <1>1, <1>2, Restarts DEF Becomes
  <2> QED
    BY <1>1, <2>1, <2>2, OneMovesQuietly
<1>3. ASSUME q.result # None PROVE WriteInv'
  <2>1. Shape(Over(q.result)) /\ request' = [request EXCEPT ![r] = Over(q.result)]
    BY <1>1, <1>3 DEF Becomes, Over, IdleRequest, Shape, Fields
  <2>2. r \in Writes => WriteSafe(Over(q.result), effects[r])
    BY <1>1, <1>3 DEF WriteInv, WriteSafe, Over, IdleRequest, Ending
  <2> QED
    BY <1>1, <2>1, <2>2, OneMovesQuietly
<1> QED
  BY <1>2, <1>3

-----------------------------------------------------------------------------
(* The answers of the addresses                                              *)

\* An answer after which the write may or may not have taken effect, for the first time.
LEMMA MayHappenOnce ==
  ASSUME WriteInv, NEW r \in Requests, NEW p, request' = [request EXCEPT ![r] = p],
         MayTakeEffect(r), request[r].phase \notin Ending, Shape(p),
         r \in Writes => WriteSafe(p, 0),
         SendsWrite(r) => WriteSafe(p, 1)
  PROVE  WriteInv'
<1>1. CASE UNCHANGED effects
  BY <1>1, Unanswered, OneMovesQuietly
<1>2. CASE SendsWrite(r) /\ effects' = [effects EXCEPT ![r] = @ + 1]
  <2>1. effects[r] = 0
    BY <1>2, Unanswered DEF SendsWrite
  <2>2. effects' = [effects EXCEPT ![r] = 1]
    BY <1>2, <2>1 DEF WriteInv
  <2> QED
    BY <1>2, <2>2, OneMoves
<1> QED
  BY <1>1, <1>2 DEF MayTakeEffect

LEMMA WonSafely ==
  ASSUME NEW q, Shape(q), NEW a, q.phase \notin Ending, WriteSafe(q, 0)
  PROVE  WriteSafe(Won(q, a), 0) /\ WriteSafe(Won(q, a), 1)
<1> DEFINE p == Won(q, a)
<1>1. p.phase = "committing" /\ p.goal = q.goal /\ p.result = q.result
  BY DEF Won, Shape, Fields
<1> HIDE DEF p
<1>2. q.goal = "elect" /\ q.result = None
  BY DEF WriteSafe, Ending
<1>3. None \notin {"exhausted", "busy"}
  BY NoneIsNoResult DEF Results
<1>4. WriteSafe(p, 0) /\ WriteSafe(p, 1)
  BY <1>1, <1>2, <1>3 DEF WriteSafe, Ending
<1> QED
  BY <1>4 DEF p

LEMMA WonShape ==
  ASSUME NEW q, Shape(q), NEW a
  PROVE  Shape(Won(q, a))
BY DEF Won, Shape, Fields

LEMMA AnswersStep ==
  ASSUME WriteInv, NEW r \in Requests, NEW a, Answers(r, a)
  PROVE  WriteInv'
<1> DEFINE q == request[r]
<1>1. Shape(q)
  BY DEF WriteInv
<1>2. MayTakeEffect(r)
  BY DEF Answers, MayTakeEffect
<1>3. CASE q.phase = "direct" /\ Ends(r, "ok")
  <2>1. request' = [request EXCEPT ![r] = Over("ok")]
    BY <1>3 DEF Ends, Becomes
  <2>2. Shape(Over("ok")) /\ WriteSafe(Over("ok"), 0) /\ WriteSafe(Over("ok"), 1)
    BY Overs DEF Results
  <2> QED
    BY <1>2, <1>3, <2>1, <2>2, MayHappenOnce DEF Ending
<1>4. CASE q.phase \in {"recovering", "asking", "racing", "sending"} /\ Becomes(r, Won(q, a))
  <2>1. request' = [request EXCEPT ![r] = Won(q, a)]
    BY <1>4 DEF Becomes
  <2>2. Shape(Won(q, a)) /\ q.phase \notin Ending
    BY <1>1, <1>4, WonShape DEF Ending
  <2>3. r \in Writes => WriteSafe(q, 0)
    BY <2>2, Unanswered DEF WriteInv
  <2>4. r \in Writes => WriteSafe(Won(q, a), 0) /\ WriteSafe(Won(q, a), 1)
    BY <1>1, <2>2, <2>3, WonSafely
  <2> QED
    BY <1>2, <2>1, <2>2, <2>4, MayHappenOnce DEF SendsWrite
<1>5. CASE q.phase \in {"probing", "probeRacing"} /\ Sends(r, q, a)
  <2>1. UNCHANGED effects /\ q.phase \notin Ending
    BY <1>5 DEF Answers, SendsWrite, Ending
  <2> QED
    BY <1>1, <1>5, <2>1, Unanswered, SendsSafely
<1> QED
  BY <1>3, <1>4, <1>5 DEF Answers

\* The attempts of a write have no retries.
LEMMA RetryStep ==
  ASSUME WriteInv, NEW r \in Requests, NEW a, Retry(r, a)
  PROVE  WriteInv'
<1> DEFINE q == request[r]
           p == [q EXCEPT !.asked[a].left = @ - 1]
<1>1. Shape(q) /\ a \in DOMAIN q.asked /\ q.asked[a].left > 0
  BY DEF WriteInv, Retry, Asked
<1>2. Shape(p) /\ p.phase = q.phase /\ p.goal = q.goal /\ p.result = q.result
  BY <1>1 DEF Shape, Fields
<1>3. request' = [request EXCEPT ![r] = p]
  BY DEF Retry, Becomes
<1>4. ~SendsWrite(r)
  BY <1>1 DEF SendsWrite, WriteInv, WriteSafe
<1>5. UNCHANGED effects
  BY <1>4 DEF Retry, MayTakeEffect
<1>6. r \in Writes => q.phase \notin {"direct", "sending"}
  BY <1>4 DEF SendsWrite
<1> HIDE DEF p
<1>7. r \in Writes => WriteSafe(p, effects[r])
  BY <1>2, <1>6 DEF WriteInv, WriteSafe, Ending
<1> QED
  BY <1>2, <1>3, <1>5, <1>7, OneMovesQuietly

LEMMA WithoutFacts ==
  ASSUME NEW q, Shape(q), NEW a
  PROVE  /\ Shape(Without(q, a))
         /\ Without(q, a).phase = q.phase /\ Without(q, a).goal = q.goal
         /\ Without(q, a).result = q.result
BY DEF Without, Shape, Fields

\* Another phase after an answer that may have had an effect: only an end is safe then.
LEMMA PassesOn ==
  ASSUME WriteInv, NEW r \in Requests, NEW p, request' = [request EXCEPT ![r] = p],
         MayTakeEffect(r), ~SendsWrite(r), request[r].phase \notin Ending, Shape(p),
         p.goal = request[r].goal, p.result = request[r].result,
         p.phase \notin Ending \cup {"recovering", "direct", "sending"}
  PROVE  WriteInv'
<1>1. r \in Writes => WriteSafe(p, 0)
  <2>1. None \notin {"exhausted", "busy"}
    BY NoneIsNoResult DEF Results
  <2> QED
    BY <2>1, Unanswered DEF WriteSafe, Ending
<1> QED
  BY <1>1, MayHappenOnce

LEMMA ConcludesInDoubt ==
  ASSUME WriteInv, NEW r \in Requests, NEW q, Shape(q), NEW result,
         request' = [request EXCEPT ![r] = Concluding(q, result)], MayTakeEffect(r),
         result \in Results \ {"exhausted", "busy"}, request[r].phase \notin Ending,
         q.goal = request[r].goal
  PROVE  WriteInv'
<1>1. r \in Writes => WriteSafe(Concluding(q, result), 0) /\ WriteSafe(Concluding(q, result), 1)
  BY Unanswered, Concludes
<1>2. Shape(Concluding(q, result))
  BY ConcludesShape
<1> QED
  BY <1>1, <1>2, MayHappenOnce DEF SendsWrite

LEMMA EndsInDoubt ==
  ASSUME WriteInv, NEW r \in Requests, NEW result,
         request' = [request EXCEPT ![r] = Over(result)], MayTakeEffect(r),
         result \in Results \ {"exhausted", "busy"}, request[r].phase \notin Ending
  PROVE  WriteInv'
<1>1. Shape(Over(result)) /\ WriteSafe(Over(result), 0) /\ WriteSafe(Over(result), 1)
  BY Overs
<1> QED
  BY <1>1, MayHappenOnce DEF SendsWrite

LEMMA RefusesStep ==
  ASSUME WriteInv, NEW r \in Requests, NEW a, Refuses(r, a)
  PROVE  WriteInv'
<1> DEFINE q == request[r]
           p == Without(q, a)
           t == [p EXCEPT !.phase = "testing"]
<1>1. Shape(q) /\ MayTakeEffect(r)
  BY DEF WriteInv, Refuses
<1>2. Shape(p) /\ p.phase = q.phase /\ p.goal = q.goal /\ p.result = q.result
  BY <1>1, WithoutFacts
<1>3. CASE q.phase = "direct" /\ Ends(r, "terminal")
  BY <1>1, <1>3, EndsInDoubt DEF Ends, Becomes, Ending, Results
<1>4. CASE q.phase \in {"asking", "sending"} /\ Becomes(r, Concluding(q, "terminal"))
  BY <1>1, <1>4, ConcludesInDoubt DEF Becomes, Ending, Results
<1>5. CASE q.phase \in {"racing", "probeRacing"} /\ Becomes(r, p)
  <2> HIDE DEF p
  <2> QED
    BY <1>1, <1>2, <1>5, PassesOn DEF Becomes, Ending, SendsWrite
<1>6. CASE q.phase = "probing" /\ Becomes(r, t)
  <2>1. Shape(t) /\ t.phase = "testing" /\ t.goal = q.goal /\ t.result = q.result
    BY <1>2 DEF Shape, Fields
  <2> HIDE DEF t
  <2> QED
    BY <1>1, <1>6, <2>1, PassesOn DEF Becomes, Ending, SendsWrite
<1> QED
  BY <1>3, <1>4, <1>5, <1>6 DEF Refuses

\* A write answered with 429 has had no effect and goes on to another address; after
\* any other failure it only ends.
LEMMA FailsStep ==
  ASSUME WriteInv, NEW r \in Requests, NEW a, NEW limited \in BOOLEAN, Fails(r, a, limited)
  PROVE  WriteInv'
<1> DEFINE before == request[r]
           rest == Without(before, a)
           q == [rest EXCEPT !.excluded = @ \cup {a}]
           p == AfterFailure(r, a, limited)
<1>1. /\ Shape(before) /\ request' = [request EXCEPT ![r] = p]
      /\ MayTakeEffect(r) /\ (limited => UNCHANGED effects)
  BY DEF WriteInv, Fails, BecomesAsRecorded, MayTakeEffect
<1>2. /\ Shape(rest) /\ rest.phase = before.phase /\ rest.goal = before.goal
      /\ rest.result = before.result
  BY <1>1, WithoutFacts
<1>3. /\ Shape(q) /\ q.phase = before.phase /\ q.goal = before.goal
      /\ q.result = before.result
  BY <1>2 DEF Shape, Fields
<1>4. CASE before.phase = "direct" /\ (r \in Reads \/ limited)
  <2> DEFINE l == [q EXCEPT !.phase = "leasing", !.goal = "elect", !.todo = <<>>]
  <2>1. p = l
    BY <1>3, <1>4 DEF AfterFailure
  <2>2. Shape(l) /\ l.phase = "leasing" /\ l.goal = "elect" /\ l.result = before.result
    BY <1>3 DEF Shape, Fields
  <2>3. UNCHANGED effects \/ r \notin Writes
    BY <1>1, <1>4, RequestsType
  <2>4. UNCHANGED effects
    BY <1>1, <2>3 DEF MayTakeEffect, SendsWrite
  <2> HIDE DEF l
  <2>5. r \in Writes => WriteSafe(l, effects[r])
    <3>1. None \notin {"exhausted", "busy"}
      BY NoneIsNoResult DEF Results
    <3> QED
      BY <1>4, <2>2, <3>1, Unanswered DEF WriteSafe, Ending
  <2> QED
    BY <1>1, <2>1, <2>2, <2>4, <2>5, OneMovesQuietly
<1>5. CASE before.phase = "direct" /\ ~(r \in Reads \/ limited)
  <2>1. p = Over("unsafe")
    BY <1>3, <1>5 DEF AfterFailure
  <2> QED
    BY <1>1, <1>5, <2>1, EndsInDoubt DEF Ending, Results
<1>6. CASE before.phase = "sending" /\ ~limited
  <2>1. p = Concluding(q, "unsafe")
    BY <1>3, <1>6 DEF AfterFailure
  <2>2. before.phase \notin Ending /\ "unsafe" \in Results \ {"exhausted", "busy"}
    BY <1>6 DEF Ending, Results
  <2> HIDE DEF q
  <2> QED
    BY <1>1, <1>3, <2>1, <2>2, ConcludesInDoubt
<1>7. CASE before.phase = "asking" \/ (before.phase = "sending" /\ limited)
  <2> DEFINE l == [q EXCEPT !.phase = "reloading", !.snap = None]
  <2>1. p = l
    BY <1>3, <1>7 DEF AfterFailure
  <2>2. Shape(l) /\ l.phase = "reloading" /\ l.goal = before.goal /\ l.result = before.result
    BY <1>3 DEF Shape, Fields
  <2>3. UNCHANGED effects
    BY <1>1, <1>7 DEF MayTakeEffect, SendsWrite
  <2> HIDE DEF l
  <2>5. r \in Writes => WriteSafe(l, effects[r])
    <3>1. None \notin {"exhausted", "busy"}
      BY NoneIsNoResult DEF Results
    <3> QED
      BY <1>7, <2>2, <3>1, Unanswered DEF WriteSafe, Ending
  <2> QED
    BY <1>1, <2>1, <2>2, <2>3, <2>5, OneMovesQuietly
<1>8. CASE before.phase = "recovering"
  <2>1. p = Concluding(q, None)
    BY <1>3, <1>8 DEF AfterFailure
  <2>2. r \notin Writes /\ UNCHANGED effects
    BY <1>1, <1>8 DEF MayTakeEffect, SendsWrite, WriteInv, WriteSafe
  <2> QED
    BY <1>1, <1>3, <2>1, <2>2, ConcludesShape, OneMovesQuietly
<1>9. CASE before.phase = "probing"
  <2> DEFINE l == [rest EXCEPT !.phase = "refreshing", !.latest = None]
  <2>1. p = l
    BY <1>3, <1>9 DEF AfterFailure
  <2>2. Shape(l) /\ l.phase = "refreshing" /\ l.goal = before.goal /\ l.result = before.result
    BY <1>2 DEF Shape, Fields
  <2> HIDE DEF l
  <2> QED
    BY <1>1, <1>9, <2>1, <2>2, PassesOn DEF Ending, SendsWrite
<1>10. CASE before.phase \notin {"direct", "sending", "asking", "recovering", "probing"}
  <2>1. p = rest
    BY <1>3, <1>10 DEF AfterFailure
  <2>2. ~SendsWrite(r)
    BY <1>10 DEF SendsWrite
  <2>3. UNCHANGED effects
    BY <1>1, <2>2 DEF MayTakeEffect
  <2> HIDE DEF rest
  <2>4. r \in Writes => WriteSafe(rest, effects[r])
    BY <1>2, <1>10 DEF WriteInv, WriteSafe, Ending
  <2> QED
    BY <1>1, <1>2, <2>1, <2>3, <2>4, OneMovesQuietly
<1> QED
  BY <1>4, <1>5, <1>6, <1>7, <1>8, <1>9, <1>10

LEMMA DropStep ==
  ASSUME WriteInv, NEW r \in Requests, Drop(r)
  PROVE  WriteInv'
<1>1. MayTakeEffect(r) /\ request' = [request EXCEPT ![r] = Over("dropped")]
  BY DEF Drop, Ends, Becomes
<1>2. Shape(Over("dropped")) /\ WriteSafe(Over("dropped"), 0) /\ WriteSafe(Over("dropped"), 1)
  BY Overs DEF Results
<1>3. CASE request[r].phase \notin Ending
  BY <1>1, <1>2, <1>3, MayHappenOnce
<1>4. CASE request[r].phase \in Ending
  <2>1. UNCHANGED effects
    BY <1>1, <1>4 DEF MayTakeEffect, SendsWrite, Ending
  <2>2. r \in Writes => effects[r] \in {0, 1}
    BY DEF WriteInv, WriteSafe
  <2> QED
    BY <1>1, <1>2, <2>1, <2>2, OneMovesQuietly
<1> QED
  BY <1>3, <1>4

LEMMA DropTakingStep ==
  ASSUME WriteInv, NEW r \in Requests, DropTaking(r)
  PROVE  WriteInv'
BY EndsQuietly DEF DropTaking, Results

-----------------------------------------------------------------------------
(* The theorems                                                              *)

\* The invariant holds in every reachable state.
THEOREM WriteInvariance == Spec => []WriteInv
<1>1. Init => WriteInv
  BY IdleShape DEF Init, WriteInv, Requests
<1>2. ASSUME WriteInv, [Next]_vars PROVE WriteInv'
  <2> USE <1>2
  <2>1. ASSUME NEW r \in Requests, Step(r) PROVE WriteInv'
    BY <2>1, DecideStep, TakeLeaseStep, WaitForLeaseStep, LookAgainStep, AskNextStep,
       RaceReadsStep, RaceIsLostStep, ReloadStep, LoadStep, ChooseProbesStep, TestNextStep,
       RefreshStep, CommitStep, ConcludeStep DEF Step
  <2>2. ASSUME NEW r \in Requests, NEW a \in Addresses, Outcome(r, a) PROVE WriteInv'
    BY <2>2, AnswersStep, RetryStep, RefusesStep, FailsStep DEF Outcome
  <2>3. ASSUME NEW r \in Requests, Begin(r) \/ Drop(r) \/ DropTaking(r) PROVE WriteInv'
    BY <2>3, BeginStep, DropStep, DropTakingStep
  <2>4. ASSUME NEW recording \in recordings, LateRecording(recording) PROVE WriteInv'
    BY <2>4, NobodyMoves DEF LateRecording
  <2>5. ASSUME NEW token \in releases, Release(token) PROVE WriteInv'
    BY <2>5, NobodyMoves DEF Release
  <2>6. ASSUME NEW a \in Addresses, ClearCooldown(a) PROVE WriteInv'
    BY <2>6, NobodyMoves DEF ClearCooldown
  <2>7. CASE LeaseExpires \/ Tick \/ UNCHANGED vars
    BY <2>7, NobodyMoves DEF LeaseExpires, Tick, vars, ghosts
  <2> QED
    BY <2>1, <2>2, <2>3, <2>4, <2>5, <2>6, <2>7 DEF Next
<1> QED
  BY <1>1, <1>2, PTL DEF Spec

\* A write takes effect at the site at most once, at whatever addresses it is tried and
\* however it ends (request_non_idempotent_operation).
THEOREM NoReplay == Spec => []WritesAreNotReplayed
<1>1. WriteInv => WritesAreNotReplayed
  BY DEF WriteInv, WriteSafe, WritesAreNotReplayed
<1> QED
  BY <1>1, WriteInvariance, PTL

\* A write that ends because no address is left to try, or because the lease is not to be
\* had, has had no effect: its caller may repeat it.
THEOREM RejectedMayBeRepeated == Spec => []RejectedWritesHadNoEffect
<1>1. WriteInv => RejectedWritesHadNoEffect
  BY DEF WriteInv, WriteSafe, RejectedWritesHadNoEffect
<1> QED
  BY <1>1, WriteInvariance, PTL

\* Whoever holds the lease evaluates the state as of the last evaluation: no other is
\* completed beside it (try_acquire and complete_site_failover_evaluation).
THEOREM EvaluationsAreFenced == Spec => []LeaseSeesPresent
<1>1. Init => LeaseSeesPresent
  BY DEF Init, LeaseSeesPresent
<1>2. ASSUME LeaseSeesPresent, [Next]_vars PROVE LeaseSeesPresent'
  <2> USE <1>2 DEF LeaseSeesPresent
  <2>1. ASSUME NEW r \in Requests, TakeLease(r) \/ DropTaking(r) PROVE LeaseSeesPresent'
    BY <2>1 DEF TakeLease, DropTaking
  <2>2. ASSUME NEW r \in Requests, Commit(r) \/ Conclude(r) PROVE LeaseSeesPresent'
    BY <2>2 DEF Commit, Conclude, Completes, database
  <2>3. ASSUME NEW r \in Requests,
               \/ Begin(r) \/ Decide(r) \/ WaitForLease(r) \/ LookAgain(r) \/ AskNext(r)
               \/ RaceReads(r) \/ RaceIsLost(r) \/ Reload(r) \/ Load(r) \/ ChooseProbes(r)
               \/ TestNext(r) \/ Refresh(r) \/ Drop(r)
        PROVE  LeaseSeesPresent'
    BY <2>3 DEF Begin, Decide, WaitForLease, LookAgain, AskNext, RaceReads, RaceIsLost,
       Reload, Load, ChooseProbes, TestNext, Refresh, Drop, database
  <2>4. ASSUME NEW r \in Requests, NEW a \in Addresses, Outcome(r, a) PROVE LeaseSeesPresent'
    BY <2>4 DEF Outcome, Answers, Retry, Refuses, Fails, database
  <2>5. ASSUME NEW recording \in recordings, LateRecording(recording) PROVE LeaseSeesPresent'
    BY <2>5 DEF LateRecording
  <2>6. ASSUME NEW token \in releases, Release(token) PROVE LeaseSeesPresent'
    BY <2>6 DEF Release
  <2>7. ASSUME NEW a \in Addresses, ClearCooldown(a) PROVE LeaseSeesPresent'
    BY <2>7 DEF ClearCooldown
  <2>8. CASE LeaseExpires \/ Tick \/ UNCHANGED vars
    BY <2>8 DEF LeaseExpires, Tick, vars, database
  <2> QED
    BY <2>1, <2>2, <2>3, <2>4, <2>5, <2>6, <2>7, <2>8 DEF Next, Step
<1> QED
  BY <1>1, <1>2, PTL DEF Spec

-----------------------------------------------------------------------------
(* What a request knows of the addresses                                     *)

Asking == {"direct", "recovering", "asking", "racing", "probing", "probeRacing", "sending"}

\* Phases in which at most one address is asked.
OneByOne == {"direct", "asking", "probing", "sending"}

\* Phases in which a request will use its snapshot, or its latest one.
UsesSnap ==
  {"direct", "leasing", "waiting", "serial", "choosing", "testing", "refreshing",
   "probing", "probeRacing"}
UsesLatest == {"testing", "probing"}

\* A revision of an address as somebody observed it, before what is in "seen" changed.
Observed(a, revision, seen, base) ==
  /\ revision \in Nat /\ revision <= base[a].revision
  /\ a \in seen => revision < base[a].revision

NotAhead(snap, base) ==
  \A a \in Addresses : snap.address[a].revision \in Nat /\ snap.address[a].revision <= base[a].revision

\* "seen" are the addresses that changed since the request asked them.
Sound(q, seen, base) ==
  /\ Shape(q)
  /\ q.phase \notin {"concluding", "over"} => q.result = None
  /\ q.phase \notin Asking => DOMAIN q.asked = {}
  /\ q.phase # "committing" => q.winner = NoWinner
  /\ q.phase = "committing" =>
       q.winner.address \in Addresses /\ Observed(q.winner.address, q.winner.revision, seen, base)
  /\ \A a \in DOMAIN q.asked :
       /\ DOMAIN q.asked[a] = {"revision", "left"}
       /\ a \in Addresses => Observed(a, q.asked[a].revision, seen, base)
  /\ q.phase \in UsesSnap => NotAhead(q.snap, base)
  /\ q.phase \in UsesLatest =>
       /\ NotAhead(q.latest, base)
       /\ \A a \in Addresses : q.snap.address[a].revision <= q.latest.address[a].revision
  /\ q.phase \in {"probing", "probeRacing"} =>
       \A a \in Addresses \cap DOMAIN q.asked : q.snap.address[a].revision <= q.asked[a].revision
  /\ q.phase \in OneByOne => \A a, b \in DOMAIN q.asked : a = b
  /\ seen \subseteq Concern(q)

\* What all requests know, with the log of the transitions.
FailoverInv ==
  /\ active \in Addresses /\ TransitionsTellActive
  /\ address \in [Addresses -> AddressState] /\ now \in Nat
  /\ request = [r \in Requests |-> request[r]] /\ overtaken = [r \in Requests |-> overtaken[r]]
  /\ \A r \in Requests : Sound(request[r], overtaken[r], address)

\* Addresses only come to later revisions, those in "changed" for sure.
Later(base, next, changed) ==
  \A a \in Addresses : /\ base[a].revision \in Nat /\ next[a].revision \in Nat
                       /\ base[a].revision <= next[a].revision
                       /\ a \in changed => base[a].revision < next[a].revision

LEMMA StaysSound ==
  ASSUME NEW q, NEW seen, NEW base, NEW next, NEW changed,
         Sound(q, seen \cap Concern(q), base), Later(base, next, changed)
  PROVE  Sound(q, (seen \cup changed) \cap Concern(q), next)
<1>1. ASSUME NEW a \in Addresses, a \in Concern(q), NEW revision,
             Observed(a, revision, seen \cap Concern(q), base)
      PROVE  Observed(a, revision, (seen \cup changed) \cap Concern(q), next)
  BY <1>1 DEF Observed, Later
<1>2. ASSUME NEW snap, NotAhead(snap, base) PROVE NotAhead(snap, next)
  BY <1>2 DEF NotAhead, Later
<1>3. ASSUME NEW a \in DOMAIN q.asked PROVE a \in Concern(q)
  BY DEF Concern
<1>4. q.winner.address \in Concern(q)
  BY DEF Concern
<1>5. (seen \cup changed) \cap Concern(q) \subseteq Concern(q)
  OBVIOUS
<1> QED
  BY <1>1, <1>2, <1>3, <1>4, <1>5 DEF Sound

\* A request that waits for no answer and commits none.
LEMMA CalmIsSound ==
  ASSUME NEW p, NEW seen, NEW base, Shape(p), p.phase \notin Asking \cup {"committing"},
         DOMAIN p.asked = {}, p.winner = NoWinner,
         p.phase \notin {"concluding", "over"} => p.result = None,
         p.phase \in UsesSnap => NotAhead(p.snap, base),
         p.phase = "testing" =>
           /\ NotAhead(p.latest, base)
           /\ \A a \in Addresses : p.snap.address[a].revision <= p.latest.address[a].revision
  PROVE  Sound(p, seen \cap Concern(p), base)
BY DEF Sound, Asking, OneByOne, UsesLatest

\* A request that begins to wait for answers of the addresses "targets".
LEMMA AskingIsSound ==
  ASSUME NEW q, NEW phase \in Asking, NEW snap, NEW targets, NEW retries, NEW seen, NEW base,
         Shape(q), q.result = None, q.winner = NoWinner, NotAhead(snap, base),
         \A a \in seen \cap targets \cap Addresses : snap.address[a].revision < base[a].revision,
         phase \in UsesSnap => NotAhead(q.snap, base),
         phase = "probing" =>
           /\ NotAhead(q.latest, base)
           /\ \A a \in Addresses : q.snap.address[a].revision <= q.latest.address[a].revision,
         phase \in {"probing", "probeRacing"} =>
           \A a \in Addresses : q.snap.address[a].revision <= snap.address[a].revision,
         phase \in OneByOne => \A a, b \in targets : a = b
  PROVE  LET p == [q EXCEPT !.phase = phase, !.asked = Attempts(snap, targets, retries)]
         IN  Sound(p, seen \cap Concern(p), base)
<1> DEFINE p == [q EXCEPT !.phase = phase, !.asked = Attempts(snap, targets, retries)]
           asked == Attempts(snap, targets, retries)
<1>1. /\ Shape(p) /\ p.phase = phase /\ p.asked = asked /\ p.winner = NoWinner /\ p.result = None
      /\ p.snap = q.snap /\ p.latest = q.latest
  BY DEF Shape, Fields
<1>2. /\ DOMAIN asked = targets
      /\ \A a \in targets : /\ DOMAIN asked[a] = {"revision", "left"}
                            /\ asked[a].revision = snap.address[a].revision
  BY DEF Attempts
<1> HIDE DEF p, asked
<1>3. \A a \in DOMAIN p.asked :
        /\ DOMAIN p.asked[a] = {"revision", "left"}
        /\ a \in Addresses => Observed(a, p.asked[a].revision, seen \cap Concern(p), base)
  BY <1>1, <1>2 DEF Observed, NotAhead
<1>4. p.phase \in {"probing", "probeRacing"} =>
        \A a \in Addresses \cap DOMAIN p.asked : p.snap.address[a].revision <= p.asked[a].revision
  BY <1>1, <1>2
<1>5. p.phase \notin {"committing", "concluding", "over", "testing"}
  BY <1>1 DEF Asking
<1>6. p.phase \in OneByOne => \A a, b \in DOMAIN p.asked : a = b
  BY <1>1, <1>2
<1> QED
  BY <1>1, <1>3, <1>4, <1>5, <1>6 DEF Sound, UsesLatest, p

-----------------------------------------------------------------------------
(* One request moves, and an address may change                              *)

LEMMA OneGoes ==
  ASSUME FailoverInv, NEW r \in Requests, NEW p, NEW changed,
         request' = [request EXCEPT ![r] = p], overtaken' = Noted(changed),
         Sound(p, overtaken[r] \cap Concern(p), address),
         Later(address, address', changed), address' \in [Addresses -> AddressState],
         now' = now, active' \in Addresses, TransitionsTellActive'
  PROVE  FailoverInv'
<1>1. request' = [s \in Requests |-> request'[s]] /\ overtaken' = [s \in Requests |-> overtaken'[s]]
  BY DEF FailoverInv, Noted
<1>2. /\ request'[r] = p
      /\ \A s \in Requests : overtaken'[s] = (overtaken[s] \cup changed) \cap Concern(request'[s])
      /\ \A s \in Requests \ {r} : request'[s] = request[s]
  BY DEF FailoverInv, Noted
<1>3. ASSUME NEW s \in Requests PROVE Sound(request'[s], overtaken'[s], address')
  <2>1. Sound(request'[s], overtaken[s] \cap Concern(request'[s]), address)
    <3>1. CASE s = r
      BY <1>2, <3>1
    <3>2. CASE s # r
      <4>1. Sound(request[s], overtaken[s], address) /\ overtaken[s] \subseteq Concern(request[s])
        BY DEF FailoverInv, Sound
      <4>2. overtaken[s] \cap Concern(request[s]) = overtaken[s]
        BY <4>1
      <4> QED
        BY <1>2, <3>2, <4>1, <4>2
    <3> QED
      BY <3>1, <3>2
  <2> QED
    BY <1>2, <2>1, StaysSound
<1>4. now' \in Nat
  BY DEF FailoverInv
<1> QED
  BY <1>1, <1>3, <1>4 DEF FailoverInv

LEMMA NothingChanges ==
  ASSUME FailoverInv
  PROVE  Later(address, address, {})
BY DEF FailoverInv, Later, AddressState

LEMMA OneGoesQuietly ==
  ASSUME FailoverInv, NEW r \in Requests, NEW p, Becomes(r, p),
         Sound(p, overtaken[r] \cap Concern(p), address),
         UNCHANGED <<active, address, transition, now>>
  PROVE  FailoverInv'
<1>1. active' \in Addresses /\ address' \in [Addresses -> AddressState]
  BY DEF FailoverInv
<1>2. TransitionsTellActive'
  BY DEF FailoverInv, TransitionsTellActive
<1> QED
  BY <1>1, <1>2, NothingChanges, OneGoes DEF Becomes

\* An address changes, or the clock goes on, and no request moves.
LEMMA NobodyGoes ==
  ASSUME FailoverInv, NEW changed, request' = request,
         overtaken' = Noted(changed) \/ (overtaken' = overtaken /\ changed = {}),
         Later(address, address', changed), address' \in [Addresses -> AddressState],
         now' \in Nat, active' = active, transition' = transition
  PROVE  FailoverInv'
<1>1. \A s \in Requests : /\ Sound(request[s], overtaken[s], address)
                          /\ overtaken[s] \cap Concern(request[s]) = overtaken[s]
  BY DEF FailoverInv, Sound
<1>2. \A s \in Requests : overtaken'[s] = (overtaken[s] \cup changed) \cap Concern(request'[s])
  BY <1>1 DEF Noted
<1>3. overtaken' = [s \in Requests |-> overtaken'[s]]
  BY DEF FailoverInv, Noted
<1>4. ASSUME NEW s \in Requests PROVE Sound(request'[s], overtaken'[s], address')
  <2>1. Sound(request'[s], overtaken[s] \cap Concern(request'[s]), address)
    BY <1>1
  <2> QED
    BY <1>2, <2>1, StaysSound
<1>5. active' \in Addresses /\ TransitionsTellActive'
  BY DEF FailoverInv, TransitionsTellActive
<1> QED
  BY <1>3, <1>4, <1>5 DEF FailoverInv

\* A request goes on, or ends, without waiting for an answer.
LEMMA CalmStep ==
  ASSUME FailoverInv, NEW r \in Requests, NEW p, Becomes(r, p),
         UNCHANGED <<active, address, transition, now>>,
         Shape(p), p.phase \notin Asking \cup {"committing"}, DOMAIN p.asked = {}, p.winner = NoWinner,
         p.phase \notin {"concluding", "over"} => p.result = None,
         p.phase \in UsesSnap => NotAhead(p.snap, address),
         p.phase = "testing" =>
           /\ NotAhead(p.latest, address)
           /\ \A a \in Addresses : p.snap.address[a].revision <= p.latest.address[a].revision
  PROVE  FailoverInv'
<1>1. Sound(p, overtaken[r] \cap Concern(p), address)
  BY CalmIsSound
<1> QED
  BY <1>1, OneGoesQuietly

LEMMA OverIsCalm ==
  ASSUME NEW result
  PROVE  LET p == Over(result)
         IN  /\ Shape(p) /\ p.phase = "over" /\ DOMAIN p.asked = {} /\ p.winner = NoWinner
BY DEF Over, IdleRequest, Shape, Fields

LEMMA RestartedIsCalm ==
  ASSUME NEW q
  PROVE  LET p == Restarted(q)
         IN  /\ Shape(p) /\ p.phase = "deciding" /\ DOMAIN p.asked = {} /\ p.winner = NoWinner
             /\ p.result = None
BY DEF Restarted, IdleRequest, Shape, Fields

LEMMA ConcludingIsCalm ==
  ASSUME NEW q, Shape(q), NEW result
  PROVE  LET p == Concluding(q, result)
         IN  /\ Shape(p) /\ p.phase = "concluding" /\ DOMAIN p.asked = {} /\ p.winner = NoWinner
             /\ p.result = result
BY DEF Concluding, Shape, Fields

LEMMA OverStep ==
  ASSUME FailoverInv, NEW r \in Requests, NEW result, Becomes(r, Over(result)),
         UNCHANGED <<active, address, transition, now>>
  PROVE  FailoverInv'
BY OverIsCalm, CalmStep DEF Asking, UsesSnap

LEMMA RestartedStep ==
  ASSUME FailoverInv, NEW r \in Requests, NEW q, Becomes(r, Restarted(q)),
         UNCHANGED <<active, address, transition, now>>
  PROVE  FailoverInv'
BY RestartedIsCalm, CalmStep DEF Asking, UsesSnap

LEMMA ConcludingStep ==
  ASSUME FailoverInv, NEW r \in Requests, NEW q, Shape(q), NEW result,
         Becomes(r, Concluding(q, result)), UNCHANGED <<active, address, transition, now>>
  PROVE  FailoverInv'
BY ConcludingIsCalm, CalmStep DEF Asking, UsesSnap

\* What the snapshot says that is taken now.
LEMMA SnapshotNow ==
  ASSUME FailoverInv
  PROVE  /\ NotAhead(Snapshot, address) /\ Snapshot.address = address
         /\ \A snap : NotAhead(snap, address) =>
              \A a \in Addresses : snap.address[a].revision <= Snapshot.address[a].revision
BY DEF FailoverInv, NotAhead, Snapshot, AddressState

\* A request that is calm has not been overtaken at any address.
LEMMA CalmIsUpToDate ==
  ASSUME FailoverInv, NEW r \in Requests, request[r].phase \notin Asking \cup {"committing"}
  PROVE  /\ Shape(request[r]) /\ DOMAIN request[r].asked = {} /\ request[r].winner = NoWinner
         /\ \A a \in Addresses : a \notin overtaken[r]
         /\ request[r].phase \notin {"concluding", "over"} => request[r].result = None
         /\ request[r].phase \in UsesSnap => NotAhead(request[r].snap, address)
         /\ request[r].phase = "testing" =>
              /\ NotAhead(request[r].latest, address)
              /\ \A a \in Addresses : request[r].snap.address[a].revision
                                        <= request[r].latest.address[a].revision
<1>1. Sound(request[r], overtaken[r], address)
  BY DEF FailoverInv
<1>2. DOMAIN request[r].asked = {} /\ request[r].winner = NoWinner /\ overtaken[r] \subseteq Concern(request[r])
  BY <1>1 DEF Sound
<1>3. NoWinner.address = 0 /\ 0 \notin Addresses
  BY DEF NoWinner, Addresses
<1>4. \A a \in Addresses : a \notin overtaken[r]
  BY <1>2, <1>3 DEF Concern
<1> QED
  BY <1>1, <1>4 DEF Sound, UsesLatest

\* A calm request asks addresses, with the revisions of a snapshot.
LEMMA AskStep ==
  ASSUME FailoverInv, NEW r \in Requests, request[r].phase \notin Asking \cup {"committing"},
         NEW q, NEW phase \in Asking, NEW snap, NEW targets, NEW retries,
         Asks(r, q, phase, snap, targets, retries), UNCHANGED <<active, address, transition, now>>,
         Shape(q), q.result = None, q.winner = NoWinner, NotAhead(snap, address),
         phase \in UsesSnap => NotAhead(q.snap, address),
         phase = "probing" =>
           /\ NotAhead(q.latest, address)
           /\ \A a \in Addresses : q.snap.address[a].revision <= q.latest.address[a].revision,
         phase \in {"probing", "probeRacing"} =>
           \A a \in Addresses : q.snap.address[a].revision <= snap.address[a].revision,
         phase \in OneByOne => \A a, b \in targets : a = b
  PROVE  FailoverInv'
<1> DEFINE p == [q EXCEPT !.phase = phase, !.asked = Attempts(snap, targets, retries)]
<1>1. \A a \in overtaken[r] \cap targets \cap Addresses : snap.address[a].revision < address[a].revision
  BY CalmIsUpToDate
<1>2. Sound(p, overtaken[r] \cap Concern(p), address)
  BY <1>1, AskingIsSound
<1>3. Becomes(r, p)
  BY DEF Asks
<1> HIDE DEF p
<1> QED
  BY <1>2, <1>3, OneGoesQuietly

-----------------------------------------------------------------------------
(* What every step of a request keeps                                        *)

LEMMA BeginKeeps ==
  ASSUME FailoverInv, NEW r \in Requests, Begin(r)
  PROVE  FailoverInv'
<1> DEFINE p == [request[r] EXCEPT !.phase = "deciding"]
<1>1. /\ Shape(request[r]) /\ request[r].phase = "idle" /\ DOMAIN request[r].asked = {}
      /\ request[r].winner = NoWinner /\ request[r].result = None
  BY CalmIsUpToDate DEF Begin, Asking
<1>2. /\ Shape(p) /\ p.phase = "deciding" /\ DOMAIN p.asked = {} /\ p.winner = NoWinner
      /\ p.result = None
  BY <1>1 DEF Shape, Fields
<1>3. Becomes(r, p) /\ UNCHANGED <<active, address, transition, now>>
  BY DEF Begin, Goes, database
<1> HIDE DEF p
<1> QED
  BY <1>2, <1>3, CalmStep DEF Asking, UsesSnap

LEMMA LeasesKeeps ==
  ASSUME FailoverInv, NEW r \in Requests, NEW q, NEW goal, NEW serial, Leases(r, q, goal, serial),
         Shape(q), q.winner = NoWinner, q.result = None, NotAhead(q.snap, address),
         UNCHANGED <<active, address, transition, now>>
  PROVE  FailoverInv'
<1> DEFINE p == [q EXCEPT !.phase = "leasing", !.goal = goal, !.todo = serial, !.asked = <<>>]
<1>1. /\ Shape(p) /\ p.phase = "leasing" /\ DOMAIN p.asked = {} /\ p.winner = NoWinner
      /\ p.result = None /\ p.snap = q.snap
  BY DEF Shape, Fields
<1>2. Becomes(r, p)
  BY DEF Leases
<1> HIDE DEF p
<1> QED
  BY <1>1, <1>2, CalmStep DEF Asking

LEMMA DecideKeeps ==
  ASSUME FailoverInv, NEW r \in Requests, Decide(r)
  PROVE  FailoverInv'
<1> DEFINE q == Deciding(r)
<1>1. /\ request[r].phase = "deciding" /\ UNCHANGED <<active, address, transition, now>>
      /\ Shape(request[r]) /\ request[r].winner = NoWinner /\ request[r].result = None
  BY CalmIsUpToDate DEF Decide, database, Asking
<1>2. Shape(q) /\ q.winner = NoWinner /\ q.result = None /\ q.snap = Snapshot
  BY <1>1 DEF Deciding, Shape, Fields
<1>3. NotAhead(Snapshot, address)
  BY SnapshotNow
<1> HIDE DEF q
<1>4. ASSUME NEW goal, NEW serial, Leases(r, q, goal, serial) PROVE FailoverInv'
  BY <1>1, <1>2, <1>3, <1>4, LeasesKeeps
<1>5. ASSUME AsksActive(r) PROVE FailoverInv'
  <2>1. Asks(r, q, "direct", Snapshot, {active}, RetriesFor(r))
    BY <1>5 DEF AsksActive, q
  <2> QED
    BY <1>1, <1>2, <1>3, <2>1, AskStep DEF Asking
<1> QED
  BY <1>4, <1>5 DEF Decide, DecideRead, DecideWrite, q

LEMMA TakeLeaseKeeps ==
  ASSUME FailoverInv, NEW r \in Requests, TakeLease(r)
  PROVE  FailoverInv'
<1> DEFINE q == [request[r] EXCEPT !.number = @ + 1]
<1>1. /\ request[r].phase = "leasing" /\ UNCHANGED <<active, address, transition, now>>
      /\ Shape(request[r]) /\ request[r].winner = NoWinner /\ request[r].result = None
      /\ NotAhead(request[r].snap, address) /\ DOMAIN request[r].asked = {}
  BY CalmIsUpToDate DEF TakeLease, Asking, UsesSnap
<1>2. /\ Shape(q) /\ q.winner = NoWinner /\ q.result = None /\ q.snap = request[r].snap
      /\ q.asked = request[r].asked
  BY <1>1 DEF Shape, Fields
<1>3. ASSUME NEW phase \in {"loading", "serial"}, Becomes(r, [q EXCEPT !.phase = phase])
      PROVE  FailoverInv'
  <2> DEFINE p == [q EXCEPT !.phase = phase]
  <2>1. /\ Shape(p) /\ p.phase = phase /\ p.winner = NoWinner /\ p.result = None
        /\ p.snap = request[r].snap /\ DOMAIN p.asked = {}
    BY <1>1, <1>2 DEF Shape, Fields
  <2> HIDE DEF p
  <2>2. Becomes(r, p)
    BY <1>3 DEF p
  <2> QED
    BY <1>1, <2>1, <2>2, CalmStep DEF Asking
<1>4. ASSUME Asks(r, q, "recovering", q.snap, {Primary}, 0) PROVE FailoverInv'
  <2> HIDE DEF q
  <2> QED
    BY <1>1, <1>2, <1>4, AskStep DEF Asking, UsesSnap
<1> QED
  BY <1>3, <1>4 DEF TakeLease

LEMMA GoesKeeps ==
  ASSUME FailoverInv, NEW r \in Requests, NEW phase \in {"leasing", "waiting"}, Goes(r, phase),
         request[r].phase \in {"leasing", "waiting"}, UNCHANGED <<active, address, transition, now>>
  PROVE  FailoverInv'
<1> DEFINE p == [request[r] EXCEPT !.phase = phase]
<1>1. /\ Shape(request[r]) /\ request[r].winner = NoWinner /\ request[r].result = None
      /\ NotAhead(request[r].snap, address) /\ DOMAIN request[r].asked = {}
  BY CalmIsUpToDate DEF Asking, UsesSnap
<1>2. /\ Shape(p) /\ p.phase = phase /\ p.winner = NoWinner /\ p.result = None
      /\ p.snap = request[r].snap /\ DOMAIN p.asked = {}
  BY <1>1 DEF Shape, Fields
<1>3. Becomes(r, p)
  BY DEF Goes
<1> HIDE DEF p
<1> QED
  BY <1>1, <1>2, <1>3, CalmStep DEF Asking

LEMMA WaitForLeaseKeeps ==
  ASSUME FailoverInv, NEW r \in Requests, WaitForLease(r)
  PROVE  FailoverInv'
BY GoesKeeps, OverStep DEF WaitForLease, Ends, database

LEMMA LookAgainKeeps ==
  ASSUME FailoverInv, NEW r \in Requests, LookAgain(r)
  PROVE  FailoverInv'
BY GoesKeeps, RestartedStep DEF LookAgain, database

LEMMA AskNextKeeps ==
  ASSUME FailoverInv, NEW r \in Requests, AskNext(r)
  PROVE  FailoverInv'
<1> DEFINE q == request[r]
           next == [q EXCEPT !.todo = Tail(@)]
<1>1. /\ q.phase = "serial" /\ UNCHANGED <<active, address, transition, now>>
      /\ Shape(q) /\ q.winner = NoWinner /\ q.result = None
      /\ NotAhead(q.snap, address) /\ DOMAIN q.asked = {}
  BY CalmIsUpToDate DEF AskNext, Asking, UsesSnap, database
<1>2. /\ Shape(next) /\ next.phase = "serial" /\ next.winner = NoWinner /\ next.result = None
      /\ next.snap = q.snap /\ DOMAIN next.asked = {}
  BY <1>1 DEF Shape, Fields
<1>3. \/ Becomes(r, next)
      \/ Asks(r, next, "asking", q.snap, {Head(q.todo)}, RetriesFor(r))
  BY DEF AskNext
<1> HIDE DEF next
<1>4. CASE Becomes(r, next)
  BY <1>1, <1>2, <1>4, CalmStep DEF Asking
<1>5. CASE Asks(r, next, "asking", q.snap, {Head(q.todo)}, RetriesFor(r))
  BY <1>1, <1>2, <1>5, AskStep DEF Asking, UsesSnap
<1> QED
  BY <1>3, <1>4, <1>5

LEMMA RaceReadsKeeps ==
  ASSUME FailoverInv, NEW r \in Requests, RaceReads(r)
  PROVE  FailoverInv'
<1> DEFINE q == request[r]
           p == [q EXCEPT !.snap = None]
<1>1. /\ q.phase = "serial" /\ UNCHANGED <<active, address, transition, now>>
      /\ Shape(q) /\ q.winner = NoWinner /\ q.result = None /\ NotAhead(q.snap, address)
  BY CalmIsUpToDate DEF RaceReads, Asking, UsesSnap, database
<1>2. Shape(p) /\ p.winner = NoWinner /\ p.result = None
  BY <1>1 DEF Shape, Fields
<1>3. \/ Becomes(r, Concluding(q, "exhausted"))
      \/ Asks(r, p, "racing", q.snap, Candidates(q), RetriesFor(r))
  BY DEF RaceReads
<1> HIDE DEF p
<1>4. CASE Becomes(r, Concluding(q, "exhausted"))
  BY <1>1, <1>4, ConcludingStep
<1>5. CASE Asks(r, p, "racing", q.snap, Candidates(q), RetriesFor(r))
  BY <1>1, <1>2, <1>5, AskStep DEF Asking, UsesSnap, OneByOne
<1> QED
  BY <1>3, <1>4, <1>5

LEMMA RaceIsLostKeeps ==
  ASSUME FailoverInv, NEW r \in Requests, RaceIsLost(r)
  PROVE  FailoverInv'
<1>1. Shape(request[r])
  BY DEF FailoverInv, Sound
<1> QED
  BY <1>1, ConcludingStep DEF RaceIsLost, database

LEMMA ReloadKeeps ==
  ASSUME FailoverInv, NEW r \in Requests, Reload(r)
  PROVE  FailoverInv'
<1> DEFINE p == [request[r] EXCEPT !.snap = Snapshot,
                                   !.phase = IF r \in Reads THEN "serial" ELSE "choosing"]
<1>1. /\ request[r].phase = "reloading" /\ UNCHANGED <<active, address, transition, now>>
      /\ Shape(request[r]) /\ request[r].winner = NoWinner /\ request[r].result = None
      /\ DOMAIN request[r].asked = {}
  BY CalmIsUpToDate DEF Reload, Asking, database
<1>2. /\ Shape(p) /\ p.phase \in {"serial", "choosing"} /\ p.winner = NoWinner /\ p.result = None
      /\ p.snap = Snapshot /\ DOMAIN p.asked = {}
  BY <1>1 DEF Shape, Fields
<1>3. Becomes(r, p)
  BY DEF Reload
<1> HIDE DEF p
<1> QED
  BY <1>1, <1>2, <1>3, SnapshotNow, CalmStep DEF Asking

LEMMA LoadKeeps ==
  ASSUME FailoverInv, NEW r \in Requests, Load(r)
  PROVE  FailoverInv'
<1> DEFINE q == Deciding(r)
           p == [q EXCEPT !.phase = "choosing"]
           s == [q EXCEPT !.todo = <<>>, !.latest = None]
           target == IF origin[r] # 0 THEN origin[r] ELSE active
<1>1. /\ request[r].phase = "loading" /\ UNCHANGED <<active, address, transition, now>>
      /\ Shape(request[r]) /\ request[r].winner = NoWinner /\ request[r].result = None
      /\ DOMAIN request[r].asked = {}
  BY CalmIsUpToDate DEF Load, Asking, database
<1>2. /\ Shape(q) /\ q.winner = NoWinner /\ q.result = None /\ q.snap = Snapshot
      /\ DOMAIN q.asked = {}
  BY <1>1 DEF Deciding, Shape, Fields
<1>3. /\ Shape(p) /\ p.winner = NoWinner /\ p.result = None /\ p.snap = Snapshot
      /\ DOMAIN p.asked = {} /\ p.phase = "choosing"
  BY <1>2 DEF Shape, Fields
<1>4. Shape(s) /\ s.winner = NoWinner /\ s.result = None
  BY <1>2 DEF Shape, Fields
<1>5. \/ Asks(r, s, "sending", q.snap, {target}, RetriesFor(r))
      \/ Becomes(r, p)
  BY DEF Load, Sends
<1> HIDE DEF p, q, s
<1>6. CASE Asks(r, s, "sending", q.snap, {target}, RetriesFor(r))
  BY <1>1, <1>2, <1>4, <1>6, SnapshotNow, AskStep DEF Asking, UsesSnap
<1>7. CASE Becomes(r, p)
  BY <1>1, <1>3, <1>7, SnapshotNow, CalmStep DEF Asking
<1> QED
  BY <1>5, <1>6, <1>7

LEMMA ChooseProbesKeeps ==
  ASSUME FailoverInv, NEW r \in Requests, ChooseProbes(r)
  PROVE  FailoverInv'
<1> DEFINE q == request[r]
           open == Addresses \ (q.excluded \cup q.probed)
           p == [q EXCEPT !.phase = "testing", !.latest = q.snap,
                          !.todo = SelectSeq(ProbeOrder(r), LAMBDA a : a \in open)]
<1>1. /\ q.phase = "choosing" /\ UNCHANGED <<active, address, transition, now>>
      /\ Shape(q) /\ q.winner = NoWinner /\ q.result = None
      /\ NotAhead(q.snap, address) /\ DOMAIN q.asked = {}
  BY CalmIsUpToDate DEF ChooseProbes, Asking, UsesSnap, database
<1>2. /\ Shape(p) /\ p.phase = "testing" /\ p.winner = NoWinner /\ p.result = None
      /\ p.snap = q.snap /\ p.latest = q.snap /\ DOMAIN p.asked = {}
  BY <1>1 DEF Shape, Fields
<1>3. \/ Becomes(r, Concluding(q, "exhausted"))
      \/ Becomes(r, p)
      \/ Asks(r, q, "probeRacing", q.snap, Candidates(q), Retries)
  BY DEF ChooseProbes
<1>4. \A a \in Addresses : q.snap.address[a].revision <= q.snap.address[a].revision
  BY <1>1 DEF NotAhead
<1> HIDE DEF p
<1>5. CASE Becomes(r, Concluding(q, "exhausted"))
  BY <1>1, <1>5, ConcludingStep
<1>6. CASE Becomes(r, p)
  BY <1>1, <1>2, <1>4, <1>6, CalmStep DEF Asking
<1>7. CASE Asks(r, q, "probeRacing", q.snap, Candidates(q), Retries)
  BY <1>1, <1>4, <1>7, AskStep DEF Asking, OneByOne
<1> QED
  BY <1>3, <1>5, <1>6, <1>7

LEMMA TestNextKeeps ==
  ASSUME FailoverInv, NEW r \in Requests, TestNext(r)
  PROVE  FailoverInv'
<1> DEFINE q == request[r]
           p == [q EXCEPT !.todo = Tail(@), !.probed = @ \cup {Head(q.todo)}]
<1>1. /\ q.phase = "testing" /\ UNCHANGED <<active, address, transition, now>>
      /\ Shape(q) /\ q.winner = NoWinner /\ q.result = None
      /\ NotAhead(q.snap, address) /\ NotAhead(q.latest, address)
      /\ \A a \in Addresses : q.snap.address[a].revision <= q.latest.address[a].revision
  BY CalmIsUpToDate DEF TestNext, Asking, UsesSnap, database
<1>2. /\ Shape(p) /\ p.winner = NoWinner /\ p.result = None
      /\ p.snap = q.snap /\ p.latest = q.latest
  BY <1>1 DEF Shape, Fields
<1>3. \/ Becomes(r, Concluding(q, "exhausted"))
      \/ Asks(r, p, "probing", q.latest, {Head(q.todo)}, Retries)
  BY DEF TestNext
<1> HIDE DEF p
<1>4. CASE Becomes(r, Concluding(q, "exhausted"))
  BY <1>1, <1>4, ConcludingStep
<1>5. CASE Asks(r, p, "probing", q.latest, {Head(q.todo)}, Retries)
  BY <1>1, <1>2, <1>5, AskStep DEF Asking
<1> QED
  BY <1>3, <1>4, <1>5

LEMMA RefreshKeeps ==
  ASSUME FailoverInv, NEW r \in Requests, Refresh(r)
  PROVE  FailoverInv'
<1> DEFINE p == [request[r] EXCEPT !.phase = "testing", !.latest = Snapshot]
<1>1. /\ request[r].phase = "refreshing" /\ UNCHANGED <<active, address, transition, now>>
      /\ Shape(request[r]) /\ request[r].winner = NoWinner /\ request[r].result = None
      /\ NotAhead(request[r].snap, address) /\ DOMAIN request[r].asked = {}
  BY CalmIsUpToDate DEF Refresh, Asking, UsesSnap, database
<1>2. /\ Shape(p) /\ p.phase = "testing" /\ p.winner = NoWinner /\ p.result = None
      /\ p.snap = request[r].snap /\ p.latest = Snapshot /\ DOMAIN p.asked = {}
  BY <1>1 DEF Shape, Fields
<1>3. Becomes(r, p)
  BY DEF Refresh
<1> HIDE DEF p
<1> QED
  BY <1>1, <1>2, <1>3, SnapshotNow, CalmStep DEF Asking

\* A winner that is elected becomes the active address, and the log tells so if it was not.
LEMMA CommitKeeps ==
  ASSUME FailoverInv, NEW r \in Requests, Commit(r)
  PROVE  FailoverInv'
<1> DEFINE q == request[r]
           a == q.winner.address
           p == AfterCommit(q, MyLease(r) /\ InUse(a))
           changed == Changed(a)
<1>1. /\ q.phase = "committing" /\ a \in Addresses /\ now' = now
      /\ request' = [request EXCEPT ![r] = p] /\ overtaken' = Noted(changed)
  BY DEF Commit, FailoverInv, Sound
<1>2. p \in {Over("late"), Over("ok")} \/ p = Restarted(q)
  BY DEF AfterCommit
<1> HIDE DEF p
<1>3. Sound(p, overtaken[r] \cap Concern(p), address)
  BY <1>2, OverIsCalm, RestartedIsCalm, CalmIsSound DEF Asking, UsesSnap
<1>4. CASE UNCHANGED <<active, address, transition>>
  <2>1. changed = {}
    BY <1>4 DEF Changed
  <2>2. Later(address, address', changed) /\ address' \in [Addresses -> AddressState]
    BY <1>4, <2>1, NothingChanges DEF FailoverInv
  <2>3. active' \in Addresses /\ TransitionsTellActive'
    BY <1>4 DEF FailoverInv, TransitionsTellActive
  <2> QED
    BY <1>1, <1>3, <2>2, <2>3, OneGoes
<1>5. CASE Elect(a)
  <2> DEFINE elected == [until |-> 0, revision |-> address[a].revision + 1, probe |-> FALSE]
  <2>1. /\ address' = [address EXCEPT ![a] = elected] /\ active' = a
        /\ transition' = IF a # active THEN [from |-> active, to |-> a] ELSE transition
    BY <1>5 DEF Elect
  <2>2. address \in [Addresses -> AddressState] /\ active \in Addresses /\ TransitionsTellActive
    BY DEF FailoverInv
  <2>3. elected \in AddressState /\ elected.revision = address[a].revision + 1
        /\ address[a].revision \in Nat
    BY <1>1, <2>2 DEF AddressState
  <2> HIDE DEF elected
  <2>4. address' \in [Addresses -> AddressState] /\ Later(address, address', changed)
    BY <1>1, <2>1, <2>2, <2>3 DEF Later, Changed, AddressState
  <2>5. TransitionsTellActive'
    <3>1. CASE a # active
      <4>1. transition' \in [from : Addresses, to : Addresses] /\ transition'.to = a /\ transition'.from = active
        BY <1>1, <2>1, <2>2, <3>1
      <4> QED
        BY <2>1, <3>1, <4>1, NoneIsNoTransition DEF TransitionsTellActive
    <3>2. CASE a = active
      BY <2>1, <2>2, <3>2 DEF TransitionsTellActive
    <3> QED
      BY <3>1, <3>2
  <2> QED
    BY <1>1, <1>3, <2>1, <2>4, <2>5, OneGoes
<1> QED
  BY <1>4, <1>5 DEF Commit, database

LEMMA ConcludeKeeps ==
  ASSUME FailoverInv, NEW r \in Requests, Conclude(r)
  PROVE  FailoverInv'
<1>1. UNCHANGED <<active, address, transition, now>>
  BY DEF Conclude
<1> QED
  BY <1>1, OverStep, RestartedStep DEF Conclude

-----------------------------------------------------------------------------
(* What every answer keeps                                                   *)

\* A request that still waits, for some of the answers.
LEMMA FewerIsSound ==
  ASSUME NEW q, NEW seen, NEW base, Sound(q, seen, base), NEW p, Shape(p),
         p.phase = q.phase, p.result = q.result, p.winner = q.winner,
         p.snap = q.snap, p.latest = q.latest, DOMAIN p.asked \subseteq DOMAIN q.asked,
         \A a \in DOMAIN p.asked : /\ DOMAIN p.asked[a] = {"revision", "left"}
                                   /\ p.asked[a].revision = q.asked[a].revision
  PROVE  Sound(p, seen \cap Concern(p), base)
<1>1. \A a \in Addresses : \A revision :
        Observed(a, revision, seen, base) => Observed(a, revision, seen \cap Concern(p), base)
  BY DEF Observed
<1>2. /\ p.phase \notin {"concluding", "over"} => p.result = None
      /\ p.phase \notin Asking => DOMAIN p.asked = {}
      /\ p.phase # "committing" => p.winner = NoWinner
  BY DEF Sound
<1>3. p.phase = "committing" =>
        /\ p.winner.address \in Addresses
        /\ Observed(p.winner.address, p.winner.revision, seen \cap Concern(p), base)
  BY <1>1 DEF Sound
<1>4. \A a \in DOMAIN p.asked :
        a \in Addresses => Observed(a, p.asked[a].revision, seen \cap Concern(p), base)
  BY <1>1 DEF Sound
<1>5. /\ p.phase \in UsesSnap => NotAhead(p.snap, base)
      /\ p.phase \in UsesLatest =>
           /\ NotAhead(p.latest, base)
           /\ \A a \in Addresses : p.snap.address[a].revision <= p.latest.address[a].revision
  BY DEF Sound
<1>6. p.phase \in {"probing", "probeRacing"} =>
        \A a \in Addresses \cap DOMAIN p.asked : p.snap.address[a].revision <= p.asked[a].revision
  BY DEF Sound
<1>7. p.phase \in OneByOne => \A a, b \in DOMAIN p.asked : a = b
  BY DEF Sound
<1> QED
  BY <1>2, <1>3, <1>4, <1>5, <1>6, <1>7 DEF Sound

LEMMA WithoutIsSound ==
  ASSUME NEW q, NEW seen, NEW base, Sound(q, seen, base), NEW a
  PROVE  LET p == Without(q, a)
         IN  /\ Sound(p, seen \cap Concern(p), base) /\ p.phase = q.phase /\ p.result = q.result
             /\ p.winner = q.winner /\ p.snap = q.snap /\ p.latest = q.latest
             /\ DOMAIN p.asked = DOMAIN q.asked \ {a}
<1> DEFINE p == Without(q, a)
<1>1. Shape(q)
  BY DEF Sound
<1>2. /\ Shape(p) /\ p.phase = q.phase /\ p.result = q.result /\ p.winner = q.winner
      /\ p.snap = q.snap /\ p.latest = q.latest
      /\ p.asked = [b \in DOMAIN q.asked \ {a} |-> q.asked[b]]
  BY <1>1 DEF Without, Shape, Fields
<1> HIDE DEF p
<1>3. \A b \in DOMAIN q.asked : DOMAIN q.asked[b] = {"revision", "left"}
  BY DEF Sound
<1>4. Sound(p, seen \cap Concern(p), base)
  BY <1>2, <1>3, FewerIsSound
<1> QED
  BY <1>2, <1>4 DEF p

LEMMA WonIsSound ==
  ASSUME NEW q, NEW seen, NEW base, Sound(q, seen, base), NEW a \in Addresses, a \in DOMAIN q.asked,
         q.phase \in Asking
  PROVE  Sound(Won(q, a), seen \cap Concern(Won(q, a)), base)
<1> DEFINE p == Won(q, a)
<1>1. Shape(q) /\ q.result = None /\ Observed(a, q.asked[a].revision, seen, base)
  BY DEF Sound, Asking
<1>2. /\ Shape(p) /\ p.phase = "committing" /\ p.result = None /\ DOMAIN p.asked = {}
      /\ p.winner.address = a /\ p.winner.revision = q.asked[a].revision
  BY <1>1 DEF Won, Shape, Fields
<1> HIDE DEF p
<1>3. Observed(a, q.asked[a].revision, seen \cap Concern(p), base)
  BY <1>1 DEF Observed
<1> QED
  BY <1>2, <1>3 DEF Sound, Asking, UsesSnap, UsesLatest, OneByOne, p

LEMMA AnswersKeeps ==
  ASSUME FailoverInv, NEW r \in Requests, NEW a \in Addresses, Answers(r, a)
  PROVE  FailoverInv'
<1> DEFINE q == request[r]
           s == [q EXCEPT !.todo = <<>>, !.latest = None]
<1>1. /\ UNCHANGED <<active, address, transition, now>> /\ a \in DOMAIN q.asked
      /\ Sound(q, overtaken[r], address)
  BY DEF Answers, Asked, database, FailoverInv
<1>2. CASE Ends(r, "ok")
  BY <1>1, <1>2, OverStep DEF Ends
<1>3. CASE q.phase \in {"recovering", "asking", "racing", "sending"} /\ Becomes(r, Won(q, a))
  BY <1>1, <1>3, WonIsSound, OneGoesQuietly DEF Asking
<1>4. CASE q.phase \in {"probing", "probeRacing"} /\ Sends(r, q, a)
  <2> DEFINE p == [s EXCEPT !.phase = "sending", !.asked = Attempts(q.snap, {a}, RetriesFor(r))]
  <2>1. /\ Shape(q) /\ q.result = None /\ q.winner = NoWinner /\ NotAhead(q.snap, address)
        /\ Observed(a, q.asked[a].revision, overtaken[r], address)
        /\ q.snap.address[a].revision <= q.asked[a].revision
    BY <1>1, <1>4 DEF Sound, UsesSnap
  <2>2. Shape(s) /\ s.result = None /\ s.winner = NoWinner
    BY <2>1 DEF Shape, Fields
  <2>3. \A b \in overtaken[r] \cap {a} \cap Addresses : q.snap.address[b].revision < address[b].revision
    <3>1. q.snap.address[a].revision \in Nat /\ address[a].revision \in Nat
      BY <2>1 DEF NotAhead, FailoverInv, AddressState
    <3> QED
      BY <2>1, <3>1 DEF Observed
  <2> HIDE DEF s
  <2>4. Sound(p, overtaken[r] \cap Concern(p), address)
    BY <2>1, <2>2, <2>3, AskingIsSound DEF Asking, UsesSnap
  <2>5. Becomes(r, p)
    BY <1>4 DEF Sends, Asks, s
  <2> HIDE DEF p
  <2> QED
    BY <1>1, <2>4, <2>5, OneGoesQuietly
<1> QED
  BY <1>2, <1>3, <1>4 DEF Answers

LEMMA RetryKeeps ==
  ASSUME FailoverInv, NEW r \in Requests, NEW a, Retry(r, a)
  PROVE  FailoverInv'
<1> DEFINE q == request[r]
           p == [q EXCEPT !.asked[a].left = @ - 1]
           attempt == [q.asked[a] EXCEPT !.left = @ - 1]
<1>1. /\ UNCHANGED <<active, address, transition, now>> /\ a \in DOMAIN q.asked
      /\ Sound(q, overtaken[r], address) /\ Shape(q) /\ Becomes(r, p)
      /\ \A b \in DOMAIN q.asked : DOMAIN q.asked[b] = {"revision", "left"}
  BY DEF Retry, Asked, database, FailoverInv, Sound
<1>2. /\ Shape(p) /\ p.phase = q.phase /\ p.result = q.result /\ p.winner = q.winner
      /\ p.snap = q.snap /\ p.latest = q.latest
      /\ p.asked = [q.asked EXCEPT ![a] = attempt]
  BY <1>1 DEF Shape, Fields
<1> HIDE DEF p
<1>3. DOMAIN p.asked = DOMAIN q.asked
  BY <1>2
<1>4. ASSUME NEW b \in DOMAIN p.asked
      PROVE  DOMAIN p.asked[b] = {"revision", "left"} /\ p.asked[b].revision = q.asked[b].revision
  <2>1. CASE b # a
    BY <1>1, <1>2, <1>3, <1>4, <2>1
  <2>2. CASE b = a
    <3>1. p.asked[a] = attempt
      BY <1>1, <1>2
    <3> QED
      BY <1>1, <2>2, <3>1
  <2> QED
    BY <2>1, <2>2
<1>5. Sound(p, overtaken[r] \cap Concern(p), address)
  BY <1>1, <1>2, <1>3, <1>4, FewerIsSound
<1> QED
  BY <1>1, <1>5, OneGoesQuietly

LEMMA RefusesKeeps ==
  ASSUME FailoverInv, NEW r \in Requests, NEW a, Refuses(r, a)
  PROVE  FailoverInv'
<1> DEFINE q == request[r]
           p == Without(q, a)
           t == [p EXCEPT !.phase = "testing"]
<1>1. /\ UNCHANGED <<active, address, transition, now>> /\ a \in DOMAIN q.asked
      /\ Sound(q, overtaken[r], address) /\ Shape(q)
  BY DEF Refuses, Asked, database, FailoverInv, Sound
<1>2. /\ Sound(p, overtaken[r] \cap Concern(p), address) /\ p.phase = q.phase /\ p.result = q.result
      /\ p.winner = q.winner /\ p.snap = q.snap /\ p.latest = q.latest
      /\ DOMAIN p.asked = DOMAIN q.asked \ {a}
  BY <1>1, WithoutIsSound
<1> HIDE DEF p
<1>3. CASE Ends(r, "terminal")
  BY <1>1, <1>3, OverStep DEF Ends
<1>4. CASE Becomes(r, Concluding(q, "terminal"))
  BY <1>1, <1>4, ConcludingStep
<1>5. CASE Becomes(r, p)
  BY <1>1, <1>2, <1>5, OneGoesQuietly
<1>6. CASE q.phase = "probing" /\ Becomes(r, t)
  <2>1. /\ Shape(p) /\ p.result = None /\ p.winner = NoWinner /\ DOMAIN p.asked = {}
        /\ NotAhead(p.snap, address) /\ NotAhead(p.latest, address)
        /\ \A b \in Addresses : p.snap.address[b].revision <= p.latest.address[b].revision
    BY <1>1, <1>2, <1>6 DEF Sound, OneByOne, UsesSnap, UsesLatest
  <2>2. /\ Shape(t) /\ t.phase = "testing" /\ t.result = None /\ t.winner = NoWinner
        /\ DOMAIN t.asked = {} /\ t.snap = p.snap /\ t.latest = p.latest
    BY <2>1 DEF Shape, Fields
  <2> HIDE DEF t
  <2> QED
    BY <1>1, <1>6, <2>1, <2>2, CalmStep DEF Asking
<1> QED
  BY <1>3, <1>4, <1>5, <1>6 DEF Refuses, p

\* A failure that is recorded changes the address if nothing has changed it before.
LEMMA RecordingIsLater ==
  ASSUME FailoverInv, NEW a, NEW revision, NEW cooldown \in Cooldowns,
         address' = Cooled(a, revision, cooldown)
  PROVE  /\ address' \in [Addresses -> AddressState] /\ Later(address, address', Changed(a))
         /\ \A b \in Addresses : address'[b] # address[b] => b = a /\ address[a].revision = revision
<1>1. address \in [Addresses -> AddressState] /\ now \in Nat /\ cooldown \in Nat
  BY BoundsType DEF FailoverInv
<1>2. CASE address' = address
  <2>1. Changed(a) = {}
    BY <1>2 DEF Changed
  <2> QED
    BY <1>1, <1>2, <2>1, NothingChanges
<1>3. CASE address' # address
  <2> DEFINE cooled == [until |-> Larger(address[a].until, now + cooldown),
                        revision |-> address[a].revision + 1, probe |-> TRUE]
  <2>1. address[a].revision = revision /\ address' = [address EXCEPT ![a] = cooled]
    BY <1>3 DEF Cooled
  <2>2. a \in Addresses
    BY <1>1, <1>3, <2>1
  <2>3. cooled \in AddressState /\ cooled.revision = address[a].revision + 1 /\ address[a].revision \in Nat
    BY <1>1, <2>2 DEF AddressState, Larger
  <2> HIDE DEF cooled
  <2> QED
    BY <1>1, <2>1, <2>2, <2>3 DEF Later, Changed, AddressState
<1> QED
  BY <1>2, <1>3

LEMMA FailsKeeps ==
  ASSUME FailoverInv, NEW r \in Requests, NEW a \in Addresses, NEW limited \in BOOLEAN,
         Fails(r, a, limited)
  PROVE  FailoverInv'
<1> DEFINE before == request[r]
           rest == Without(before, a)
           q == [rest EXCEPT !.excluded = @ \cup {a}]
           p == AfterFailure(r, a, limited)
<1>1. /\ Sound(before, overtaken[r], address) /\ a \in DOMAIN before.asked
      /\ request' = [request EXCEPT ![r] = p] /\ overtaken' = Noted(Changed(a))
      /\ UNCHANGED <<active, transition, now>>
      /\ \E cooldown \in Cooldowns : address' = Cooled(a, before.asked[a].revision, cooldown)
  BY DEF Fails, Asked, BecomesAsRecorded, Records, FailoverInv
<1>2. /\ address' \in [Addresses -> AddressState] /\ Later(address, address', Changed(a))
      /\ active' \in Addresses /\ TransitionsTellActive'
  <2>1. active' \in Addresses /\ TransitionsTellActive'
    BY <1>1 DEF FailoverInv, TransitionsTellActive
  <2> QED
    BY <1>1, <2>1, RecordingIsLater
<1>3. /\ Sound(rest, overtaken[r] \cap Concern(rest), address) /\ rest.phase = before.phase
      /\ rest.result = before.result /\ rest.winner = before.winner /\ rest.snap = before.snap
      /\ rest.latest = before.latest /\ DOMAIN rest.asked = DOMAIN before.asked \ {a}
  BY <1>1, WithoutIsSound
<1> HIDE DEF rest
<1>4. /\ Shape(q) /\ q.phase = before.phase /\ q.result = before.result /\ q.winner = before.winner
      /\ q.snap = before.snap /\ DOMAIN q.asked = DOMAIN before.asked \ {a}
  BY <1>3 DEF Sound, Shape, Fields
<1>5. Sound(p, overtaken[r] \cap Concern(p), address)
  <2>1. CASE before.phase \in OneByOne
    <3>1. /\ DOMAIN rest.asked = {} /\ DOMAIN q.asked = {}
          /\ before.winner = NoWinner /\ before.result = None
      BY <1>1, <1>3, <1>4, <2>1 DEF Sound, OneByOne
    <3>2. CASE before.phase = "direct" /\ (r \in Reads \/ limited)
      <4> DEFINE l == [q EXCEPT !.phase = "leasing", !.goal = "elect", !.todo = <<>>]
      <4>1. p = l
        BY <1>4, <3>2 DEF AfterFailure, rest
      <4>2. /\ Shape(l) /\ l.phase = "leasing" /\ l.winner = NoWinner /\ l.result = None
            /\ DOMAIN l.asked = {} /\ l.snap = before.snap
        BY <1>4, <3>1 DEF Shape, Fields
      <4>3. NotAhead(before.snap, address)
        BY <1>1, <3>2 DEF Sound, UsesSnap
      <4> HIDE DEF l, p
      <4> QED
        BY <4>1, <4>2, <4>3, CalmIsSound DEF Asking
    <3>3. CASE before.phase = "direct" /\ ~(r \in Reads \/ limited)
      <4>1. p = Over("unsafe")
        BY <1>4, <3>3 DEF AfterFailure, rest
      <4> HIDE DEF p
      <4> QED
        BY <4>1, OverIsCalm, CalmIsSound DEF Asking, UsesSnap
    <3>4. CASE before.phase = "sending" /\ ~limited
      <4>1. p = Concluding(q, "unsafe")
        BY <1>4, <3>4 DEF AfterFailure, rest
      <4> HIDE DEF p, q
      <4>2. Shape(p) /\ p.phase = "concluding" /\ DOMAIN p.asked = {} /\ p.winner = NoWinner
        BY <1>4, <4>1, ConcludingIsCalm
      <4> QED
        BY <4>2, CalmIsSound DEF Asking, UsesSnap
    <3>5. CASE before.phase = "asking" \/ (before.phase = "sending" /\ limited)
      <4> DEFINE l == [q EXCEPT !.phase = "reloading", !.snap = None]
      <4>1. p = l
        BY <1>4, <3>5 DEF AfterFailure, rest
      <4>2. /\ Shape(l) /\ l.phase = "reloading" /\ l.winner = NoWinner /\ l.result = None
            /\ DOMAIN l.asked = {}
        BY <1>4, <3>1 DEF Shape, Fields
      <4> HIDE DEF l, p
      <4> QED
        BY <4>1, <4>2, CalmIsSound DEF Asking, UsesSnap
    <3>6. CASE before.phase = "probing"
      <4> DEFINE l == [rest EXCEPT !.phase = "refreshing", !.latest = None]
      <4>1. p = l
        BY <1>4, <3>6 DEF AfterFailure, rest
      <4>2. /\ Shape(l) /\ l.phase = "refreshing" /\ l.winner = NoWinner /\ l.result = None
            /\ DOMAIN l.asked = {} /\ l.snap = before.snap
        BY <1>3, <3>1 DEF Sound, Shape, Fields
      <4>3. NotAhead(before.snap, address)
        BY <1>1, <3>6 DEF Sound, UsesSnap
      <4> HIDE DEF l, p
      <4> QED
        BY <4>1, <4>2, <4>3, CalmIsSound DEF Asking
    <3> QED
      BY <2>1, <3>2, <3>3, <3>4, <3>5, <3>6 DEF OneByOne
  <2>2. CASE before.phase = "recovering"
    <3>1. p = Concluding(q, None)
      BY <1>4, <2>2 DEF AfterFailure, rest
    <3> HIDE DEF p, q
    <3>2. Shape(p) /\ p.phase = "concluding" /\ DOMAIN p.asked = {} /\ p.winner = NoWinner
      BY <1>4, <3>1, ConcludingIsCalm
    <3> QED
      BY <3>2, CalmIsSound DEF Asking, UsesSnap
  <2>3. CASE before.phase \notin OneByOne \cup {"recovering"}
    <3>1. p = rest
      BY <1>4, <2>3 DEF AfterFailure, rest, OneByOne
    <3>2. (overtaken[r] \cap Concern(rest)) = overtaken[r] \cap Concern(p)
      BY <3>1
    <3> HIDE DEF p
    <3> QED
      BY <1>3, <3>1
  <2> QED
    BY <2>1, <2>2, <2>3
<1> HIDE DEF p
<1> QED
  BY <1>1, <1>2, <1>5, OneGoes

LEMMA DropKeeps ==
  ASSUME FailoverInv, NEW r \in Requests, Drop(r) \/ DropTaking(r)
  PROVE  FailoverInv'
BY OverStep DEF Drop, DropTaking, Ends, database

\* What is late, what the user clears, and the clock.
LEMMA OthersKeep ==
  ASSUME FailoverInv,
         \/ \E recording \in recordings : LateRecording(recording)
         \/ \E a \in Addresses : ClearCooldown(a)
         \/ \E token \in releases : Release(token)
         \/ LeaseExpires \/ Tick \/ UNCHANGED vars
  PROVE  FailoverInv'
<1>1. ASSUME NEW recording \in recordings, LateRecording(recording) PROVE FailoverInv'
  <2>1. \E cooldown \in Cooldowns : address' = Cooled(recording.address, recording.revision, cooldown)
    BY <1>1 DEF LateRecording, Records
  <2>2. /\ address' \in [Addresses -> AddressState]
        /\ Later(address, address', Changed(recording.address))
    BY <2>1, RecordingIsLater
  <2>3. now' \in Nat
    BY <1>1 DEF LateRecording, FailoverInv
  <2> QED
    BY <1>1, <2>2, <2>3, NobodyGoes DEF LateRecording
<1>2. ASSUME NEW a \in Addresses, ClearCooldown(a) PROVE FailoverInv'
  <2> DEFINE cleared == [until |-> 0, revision |-> address[a].revision + 1, probe |-> TRUE]
  <2>1. address' = [address EXCEPT ![a] = cleared] /\ address \in [Addresses -> AddressState]
    BY <1>2 DEF ClearCooldown, FailoverInv
  <2>2. cleared \in AddressState /\ cleared.revision = address[a].revision + 1
        /\ address[a].revision \in Nat
    BY <2>1 DEF AddressState
  <2> HIDE DEF cleared
  <2>3. address' \in [Addresses -> AddressState] /\ Later(address, address', {a})
    BY <2>1, <2>2 DEF Later, AddressState
  <2>4. now' \in Nat
    BY <1>2 DEF ClearCooldown, FailoverInv
  <2> QED
    BY <1>2, <2>3, <2>4, NobodyGoes DEF ClearCooldown
<1>3. ASSUME UNCHANGED <<active, address, transition, request, overtaken>>, now' \in Nat
      PROVE  FailoverInv'
  <2>1. Later(address, address', {}) /\ address' \in [Addresses -> AddressState]
    BY <1>3, NothingChanges DEF FailoverInv
  <2> QED
    BY <1>3, <2>1, NobodyGoes
<1>4. now \in Nat /\ now + 1 \in Nat
  BY DEF FailoverInv
<1>5. ASSUME NEW token \in releases, Release(token) PROVE FailoverInv'
  BY <1>3, <1>4, <1>5 DEF Release
<1>6. CASE LeaseExpires \/ Tick \/ UNCHANGED vars
  BY <1>3, <1>4, <1>6 DEF LeaseExpires, Tick, vars, database, ghosts
<1> QED
  BY <1>1, <1>2, <1>5, <1>6

\* What requests know is true in every reachable state: observed revisions are those of the
\* past, and of before the change for an address that has changed since.
THEOREM FailoverInvariance == Spec => []FailoverInv
<1>1. Init => FailoverInv
  <2> SUFFICES ASSUME Init PROVE FailoverInv
    OBVIOUS
  <2>1. active \in Addresses /\ TransitionsTellActive /\ now \in Nat
    BY AddressesType DEF Init, Addresses, Primary, TransitionsTellActive
  <2>2. InitialAddress \in AddressState
    BY DEF InitialAddress, AddressState
  <2>3. address \in [Addresses -> AddressState]
    BY <2>2 DEF Init
  <2>4. /\ request = [r \in Requests |-> request[r]] /\ overtaken = [r \in Requests |-> overtaken[r]]
        /\ \A r \in Requests : request[r] = IdleRequest /\ overtaken[r] = {}
    BY DEF Init
  <2>5. /\ Shape(IdleRequest) /\ IdleRequest.phase = "idle" /\ DOMAIN IdleRequest.asked = {}
        /\ IdleRequest.winner = NoWinner /\ IdleRequest.result = None
    BY DEF IdleRequest, Shape, Fields
  <2>6. Sound(IdleRequest, {} \cap Concern(IdleRequest), address)
    BY <2>5, CalmIsSound DEF Asking, UsesSnap
  <2>7. {} \cap Concern(IdleRequest) = {}
    OBVIOUS
  <2> QED
    BY <2>1, <2>3, <2>4, <2>6, <2>7 DEF FailoverInv
<1>2. ASSUME FailoverInv, [Next]_vars PROVE FailoverInv'
  <2> USE <1>2
  <2>1. ASSUME NEW r \in Requests, Step(r) PROVE FailoverInv'
    BY <2>1, DecideKeeps, TakeLeaseKeeps, WaitForLeaseKeeps, LookAgainKeeps, AskNextKeeps,
       RaceReadsKeeps, RaceIsLostKeeps, ReloadKeeps, LoadKeeps, ChooseProbesKeeps, TestNextKeeps,
       RefreshKeeps, CommitKeeps, ConcludeKeeps DEF Step
  <2>2. ASSUME NEW r \in Requests, NEW a \in Addresses, Outcome(r, a) PROVE FailoverInv'
    BY <2>2, AnswersKeeps, RetryKeeps, RefusesKeeps, FailsKeeps DEF Outcome
  <2>3. ASSUME NEW r \in Requests, Begin(r) \/ Drop(r) \/ DropTaking(r) PROVE FailoverInv'
    BY <2>3, BeginKeeps, DropKeeps
  <2> QED
    BY <2>1, <2>2, <2>3, OthersKeep DEF Next
<1> QED
  BY <1>1, <1>2, PTL DEF Spec

\* The last transition of the log ends at the address that requests go to, and started at
\* another (complete_site_failover_evaluation).
THEOREM TheLogTellsActive == Spec => []TransitionsTellActive
<1>1. FailoverInv => TransitionsTellActive
  BY DEF FailoverInv
<1> QED
  BY <1>1, FailoverInvariance, PTL

\* The part of a request in a step of somebody else: none.
LEMMA OthersStandStill ==
  ASSUME NEW r \in Requests, NEW s \in Requests \ {r}, FailoverInv,
         \E p : request' = [request EXCEPT ![s] = p]
  PROVE  request'[r] = request[r]
BY DEF FailoverInv

\* A commit elects its winner only if the address has not changed since it was asked.
LEMMA CommitElects ==
  ASSUME FailoverInv, NEW r \in Requests, Commit(r), NEW a \in Addresses, address'[a] # address[a]
  PROVE  /\ request[r].phase = "committing" /\ request[r].winner.address = a
         /\ DOMAIN request[r].asked = {} /\ a \notin overtaken[r]
<1>1. /\ request[r].phase = "committing" /\ Sound(request[r], overtaken[r], address)
      /\ address \in [Addresses -> AddressState]
  BY DEF Commit, FailoverInv
<1>2. Elected(request[r].winner) /\ Elect(request[r].winner.address)
  BY DEF Commit, database
<1>3. request[r].winner.address = a
  BY <1>1, <1>2 DEF Elect
<1>4. address[a].revision = request[r].winner.revision /\ address[a].revision \in Nat
  BY <1>1, <1>2, <1>3 DEF Elected, AddressState
<1>5. a \notin overtaken[r]
  BY <1>1, <1>3, <1>4 DEF Sound, Observed
<1>6. DOMAIN request[r].asked = {}
  BY <1>1 DEF Sound, Asking
<1> QED
  BY <1>1, <1>3, <1>5, <1>6

\* A failure cools an address only if the address has not changed since it was asked.
LEMMA FailureCools ==
  ASSUME FailoverInv, NEW r \in Requests, NEW b \in Addresses, NEW limited \in BOOLEAN,
         Fails(r, b, limited), NEW a \in Addresses, address'[a] # address[a]
  PROVE  /\ a = b /\ a \in DOMAIN request[r].asked /\ request[r].phase # "committing"
         /\ a \notin overtaken[r]
<1>1. /\ Sound(request[r], overtaken[r], address) /\ b \in DOMAIN request[r].asked
      /\ \E cooldown \in Cooldowns : address' = Cooled(b, request[r].asked[b].revision, cooldown)
      /\ address \in [Addresses -> AddressState]
  BY DEF Fails, Asked, Records, FailoverInv
<1>2. a = b /\ address[a].revision = request[r].asked[a].revision /\ address[a].revision \in Nat
  BY <1>1, RecordingIsLater DEF AddressState
<1>3. a \notin overtaken[r]
  BY <1>1, <1>2 DEF Sound, Observed
<1>4. request[r].phase # "committing"
  BY <1>1 DEF Sound, Asking
<1> QED
  BY <1>1, <1>2, <1>3, <1>4

\* A step that changes an address and a request is a commit or a failure of that request.
LEMMA WhoChangesAddresses ==
  ASSUME Next, NEW a \in Addresses, address'[a] # address[a]
  PROVE  \/ \E r \in Requests : Commit(r)
         \/ \E r \in Requests, b \in Addresses, limited \in BOOLEAN : Fails(r, b, limited)
         \/ request' = request
<1>1. ASSUME NEW r \in Requests, Step(r) PROVE Commit(r)
  BY <1>1 DEF Step, Decide, TakeLease, WaitForLease, LookAgain, AskNext, RaceReads, RaceIsLost,
     Reload, Load, ChooseProbes, TestNext, Refresh, Conclude, database
<1>2. ASSUME NEW r \in Requests, NEW b \in Addresses, Outcome(r, b)
      PROVE  \E limited \in BOOLEAN : Fails(r, b, limited)
  BY <1>2 DEF Outcome, Answers, Retry, Refuses, database
<1>3. ASSUME NEW r \in Requests PROVE ~Begin(r) /\ ~Drop(r) /\ ~DropTaking(r)
  BY DEF Begin, Drop, DropTaking, database
<1>4. ASSUME NEW recording \in recordings, LateRecording(recording) PROVE request' = request
  BY <1>4 DEF LateRecording
<1>5. ASSUME NEW b \in Addresses, ClearCooldown(b) PROVE request' = request
  BY <1>5 DEF ClearCooldown
<1>6. ASSUME (\E token \in releases : Release(token)) \/ LeaseExpires \/ Tick PROVE request' = request
  BY <1>6 DEF Release, LeaseExpires, Tick
<1> QED
  BY <1>1, <1>2, <1>3, <1>4, <1>5, <1>6 DEF Next

\* Old failures do not cool an address that something has changed since it was asked, and old
\* successes do not elect one: record_site_failover_failure and the commit compare revisions.
THEOREM OldOutcomesAreRejected == Spec => LateOutcomesAreRejected
<1> DEFINE Counts(r, a) ==
             (\/ request[r].phase = "committing" /\ request[r].winner.address = a
                   /\ request'[r].phase # "committing" /\ ~address'[a].probe
              \/ a \in Asked(r) /\ a \notin DOMAIN request'[r].asked /\ address'[a].probe)
             /\ address'[a] # address[a]
           A == \A a \in Addresses : \A r \in Requests : Counts(r, a) => a \notin overtaken[r]
<1>1. ASSUME FailoverInv, Next, NEW a \in Addresses, NEW r \in Requests, Counts(r, a)
      PROVE  a \notin overtaken[r]
  <2>1. request'[r] # request[r]
    BY <1>1 DEF Asked
  <2>2. ASSUME NEW s \in Requests, Commit(s) PROVE a \notin overtaken[r]
    <3>1. \E p : request' = [request EXCEPT ![s] = p]
      BY <2>2 DEF Commit
    <3>2. s = r
      BY <1>1, <2>1, <3>1, OthersStandStill
    <3> QED
      BY <1>1, <2>2, <3>2, CommitElects
  <2>3. ASSUME NEW s \in Requests, NEW b \in Addresses, NEW limited \in BOOLEAN, Fails(s, b, limited)
        PROVE  a \notin overtaken[r]
    <3>1. \E p : request' = [request EXCEPT ![s] = p]
      BY <2>3 DEF Fails, BecomesAsRecorded
    <3>2. s = r
      BY <1>1, <2>1, <3>1, OthersStandStill
    <3> QED
      BY <1>1, <2>3, <3>2, FailureCools
  <2> QED
    BY <1>1, <2>1, <2>2, <2>3, WhoChangesAddresses
<1>2. FailoverInv /\ [Next]_vars => [A]_vars
  BY <1>1
<1>3. Spec => [][A]_vars
  BY <1>2, FailoverInvariance, PTL DEF Spec
<1> QED
  BY <1>3, PTL DEF LateOutcomesAreRejected

\* A request that is being committed goes on by its commit, or is dropped.
LEMMA LeavesCommitting ==
  ASSUME FailoverInv, Next, NEW r \in Requests, request[r].phase = "committing",
         request'[r].phase = "deciding" \/ request'[r].result = "ok"
  PROVE  Commit(r)
<1>1. /\ Sound(request[r], overtaken[r], address) /\ request[r].result = None
      /\ DOMAIN request[r].asked = {} /\ None # "ok"
  BY NoneIsNoResult DEF FailoverInv, Sound, Asking, Results
<1>2. request'[r] # request[r]
  BY <1>1
<1>3. ASSUME NEW s \in Requests, NEW p, request' = [request EXCEPT ![s] = p] PROVE s = r /\ request'[r] = p
  BY <1>2, <1>3, OthersStandStill DEF FailoverInv
<1>4. ASSUME NEW s \in Requests, Step(s) PROVE Commit(r)
  <2>1. \E p : request' = [request EXCEPT ![s] = p]
    BY <1>4 DEF Step, Decide, DecideRead, DecideWrite, TakeLease, WaitForLease, LookAgain, AskNext,
       RaceReads, RaceIsLost, Reload, Load, ChooseProbes, TestNext, Refresh, Commit, Conclude,
       Leases, AsksActive, Sends, Asks, Goes, Ends, Becomes
  <2>2. s = r
    BY <1>3, <2>1
  <2> QED
    BY <1>4, <2>2 DEF Step, Decide, TakeLease, WaitForLease, LookAgain, AskNext,
       RaceReads, RaceIsLost, Reload, Load, ChooseProbes, TestNext, Refresh, Conclude
<1>5. ASSUME NEW s \in Requests, NEW a \in Addresses, Outcome(s, a) PROVE FALSE
  <2>1. \E p : request' = [request EXCEPT ![s] = p]
    BY <1>5 DEF Outcome, Answers, Retry, Refuses, Fails, BecomesAsRecorded, Sends, Asks, Ends, Becomes
  <2>2. s = r
    BY <1>3, <2>1
  <2>3. a \in DOMAIN request[s].asked
    BY <1>5 DEF Outcome, Answers, Retry, Refuses, Fails, Asked
  <2> QED
    BY <1>1, <2>2, <2>3
<1>6. ASSUME NEW s \in Requests, Begin(s) \/ Drop(s) \/ DropTaking(s) PROVE FALSE
  <2>1. CASE Begin(s)
    <3>1. s = r
      BY <1>3, <2>1 DEF Begin, Goes, Becomes
    <3> QED
      BY <2>1, <3>1 DEF Begin
  <2>2. CASE Drop(s) \/ DropTaking(s)
    <3>1. s = r /\ request'[r] = Over("dropped")
      BY <1>3, <2>2 DEF Drop, DropTaking, Ends, Becomes
    <3>2. Over("dropped").phase = "over" /\ Over("dropped").result = "dropped"
      BY DEF Over, IdleRequest
    <3> QED
      BY <3>1, <3>2
  <2> QED
    BY <1>6, <2>1, <2>2
<1>7. ASSUME request' = request PROVE FALSE
  BY <1>2, <1>7
<1>8. (\E recording \in recordings : LateRecording(recording))
        \/ (\E token \in releases : Release(token)) \/ (\E a \in Addresses : ClearCooldown(a))
        \/ LeaseExpires \/ Tick
      => request' = request
  BY DEF LateRecording, Release, ClearCooldown, LeaseExpires, Tick
<1> QED
  BY <1>4, <1>5, <1>6, <1>7, <1>8 DEF Next

\* A success that ends an evaluation came from the address that requests now go to
\* (AfterCommit is the check of the snapshot that complete_site_failover_evaluation returns).
THEOREM TheElectedIsInUse == Spec => ElectedIsInUse
<1> DEFINE A == \A r \in Requests :
                  request[r].phase = "committing"
                    /\ (request'[r].phase = "deciding" \/ request'[r].result = "ok")
                  => InUse(request[r].winner.address)
<1>1. ASSUME FailoverInv, Next, NEW r \in Requests, request[r].phase = "committing",
             request'[r].phase = "deciding" \/ request'[r].result = "ok"
      PROVE  InUse(request[r].winner.address)
  <2>1. Commit(r)
    BY <1>1, LeavesCommitting
  <2>2. request'[r] = AfterCommit(request[r], MyLease(r) /\ InUse(request[r].winner.address))
    BY <1>1, <2>1 DEF Commit, FailoverInv
  <2>3. Over("late").phase = "over" /\ Over("late").result = "late"
    BY DEF Over, IdleRequest
  <2> QED
    BY <1>1, <2>2, <2>3 DEF AfterCommit
<1>2. FailoverInv /\ [Next]_vars => [A]_vars
  BY <1>1
<1>3. Spec => [][A]_vars
  BY <1>2, FailoverInvariance, PTL DEF Spec
<1> QED
  BY <1>3, PTL DEF ElectedIsInUse

=============================================================================
