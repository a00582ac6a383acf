---------------------- MODULE ResourceCoordinatorProofs ----------------------
(***************************************************************************)
(* Proofs about ResourceCoordinator, for any accounts, kinds, readers,     *)
(* writers, operations and bounds: its inductive invariant, and the safety *)
(* properties that follow from it.                                         *)
(***************************************************************************)
EXTENDS ResourceCoordinator, TLAPS

-----------------------------------------------------------------------------
(* The operators the actions are built from                                 *)

\* What an answer changes: the phase and the value of the readers answered.
LEMMA AnswerAllLemma ==
  ASSUME TypeOK, NEW S \in SUBSET Requests, NEW value \in Optional(Nat)
  PROVE  /\ AnswerAll(S, value) \in [Requests -> Request]
         /\ \A q \in Requests \ S : AnswerAll(S, value)[q] = request[q]
         /\ \A q \in S : /\ AnswerAll(S, value)[q].phase = "answered"
                         /\ AnswerAll(S, value)[q].value = value
                         /\ AnswerAll(S, value)[q].resource = request[q].resource
                         /\ AnswerAll(S, value)[q].floor = request[q].floor
                         /\ AnswerAll(S, value)[q].generation = request[q].generation
  BY DEF TypeOK, AnswerAll, Answered, Request, RequestPhase

LEMMA AnsweredLemma ==
  ASSUME TypeOK, NEW r \in Requests, NEW value \in Optional(Nat)
  PROVE  /\ Answered(r, value) \in Request
         /\ Answered(r, value).phase = "answered"
         /\ Answered(r, value).value = value
         /\ Answered(r, value).resource = request[r].resource
         /\ Answered(r, value).floor = request[r].floor
         /\ Answered(r, value).generation = request[r].generation
  BY DEF TypeOK, Answered, Request, RequestPhase

\* What landing leaves of an entry: no flight and no waiters, and a new cached
\* value only if the landing generation is current and has one.
LEMMA LandedLemma ==
  ASSUME NEW e \in Entry, NEW generation \in Nat, NEW value \in Optional(Nat)
  PROVE  /\ Landed(e, generation, value) \in Entry
         /\ Landed(e, generation, value).inFlight = None
         /\ Landed(e, generation, value).waiters = {}
         /\ Landed(e, generation, value).generation = e.generation
         /\ \/ Landed(e, generation, value).cached = e.cached
            \/ /\ Landed(e, generation, value).cached = value
               /\ value # None /\ e.generation = generation
  BY DEF Landed, Entry, Optional

LEMMA InvalidatedLemma ==
  ASSUME NEW e \in Entry
  PROVE  /\ Invalidated(e) \in Entry
         /\ Invalidated(e).inFlight = None /\ Invalidated(e).cached = None
         /\ Invalidated(e).waiters = {} /\ Invalidated(e).generation = e.generation + 1
  BY DEF Invalidated, Entry, Optional

LEMMA IdleLemma ==
  /\ IdleRequest \in Request /\ IdleRequest.phase = "idle"
  /\ IdleWrite \in Write /\ IdleWrite.phase = "idle" /\ IdleWrite.applied = None
  BY DEF IdleRequest, Request, RequestPhase, IdleWrite, Write, WritePhase, Optional

\* A reader that is not idle has a typed resource and entry.
LEMMA BusyReader ==
  ASSUME TypeOK, NEW r \in Requests, request[r].phase # "idle"
  PROVE  /\ request[r] \in Request
         /\ request[r].resource \in Resources
         /\ request[r].generation \in Nat /\ request[r].floor \in Nat
         /\ request[r].value \in Optional(Nat)
         /\ Entered(r) = entries[request[r].resource]
         /\ Entered(r) \in Entry
         /\ Entered(r).cached \in Optional(Nat)
         /\ Entered(r).generation \in Nat
         /\ Entered(r).waiters \in SUBSET Requests
  BY DEF TypeOK, Request, Entered, Entry

-----------------------------------------------------------------------------
(* Type correctness                                                         *)

LEMMA TypeInit == Init => TypeOK
  BY DEF Init, TypeOK, EmptyEntry, IdleRequest, IdleWrite, Entry, Request, Write,
     RequestPhase, WritePhase, Optional

\* The readers' part of the type invariant.
ReadersOK(req) ==
  /\ req \in [Requests -> Request]
  /\ \A q \in Requests : req[q].phase # "idle" => req[q].resource \in Resources

\* A step that replaces one reader's record.
LEMMA OneReader ==
  ASSUME TypeOK, NEW r \in Requests, NEW new \in Request,
         new.phase # "idle" => new.resource \in Resources
  PROVE  ReadersOK([request EXCEPT ![r] = new])
  BY DEF TypeOK, ReadersOK

\* A step that answers readers, none of them idle.
LEMMA AnsweredReaders ==
  ASSUME TypeOK, NEW S \in SUBSET Requests, NEW value \in Optional(Nat),
         \A q \in S : request[q].phase # "idle"
  PROVE  ReadersOK(AnswerAll(S, value))
<1> DEFINE new == AnswerAll(S, value)
<1>1. /\ new \in [Requests -> Request]
      /\ \A q \in Requests \ S : new[q] = request[q]
      /\ \A q \in S : new[q].resource = request[q].resource
  BY AnswerAllLemma
<1>2. \A q \in Requests : request[q].phase # "idle" => request[q].resource \in Resources
  BY DEF TypeOK
<1>3. ReadersOK(new)
  <2> HIDE DEF new
  <2> QED
    BY <1>1, <1>2 DEF ReadersOK
<1> QED
  BY <1>3

\* A step of the readers is well typed if the readers and the entries are.
LEMMA ReaderStepType ==
  ASSUME TypeOK, ReadersOK(request'), entries' \in [Resources -> Entry],
         barrier' \in [Resources -> Nat], UNCHANGED <<write, upstream, acked>>
  PROVE  TypeOK'
  BY DEF TypeOK, ReadersOK

\* A step that replaces one entry.
LEMMA OneEntry ==
  ASSUME TypeOK, NEW k \in Resources, NEW e \in Entry
  PROVE  [entries EXCEPT ![k] = e] \in [Resources -> Entry]
  BY DEF TypeOK

LEMMA WaitersWait ==
  ASSUME WaitersMatch, NEW k \in Resources
  PROVE  \A q \in entries[k].waiters :
           q \in Requests /\ request[q].phase = "waiting" /\ request[q].resource = k
  BY DEF WaitersMatch, WaitersAreReaders

LEMMA ReadStepType ==
  ASSUME TypeOK, WaitersMatch, NEW r \in Requests,
         ReadStep(r) \/ CancelRead(r) \/ \E k \in Resources : Call(r, k)
  PROVE  TypeOK'
<1>0. /\ entries \in [Resources -> Entry] /\ barrier \in [Resources -> Nat]
      /\ request \in [Requests -> Request] /\ request[r] \in Request
      /\ upstream \in Nat /\ acked \in [Resources -> Nat]
      /\ {None, upstream} \subseteq Optional(Nat)
  BY DEF TypeOK, Optional
<1>1. ASSUME NEW k \in Resources, Call(r, k) PROVE TypeOK'
  <2> DEFINE new == [IdleRequest EXCEPT !.phase = "entering", !.resource = k, !.floor = acked[k]]
  <2>1. new \in Request /\ new.resource \in Resources
    BY <1>0 DEF Request, RequestPhase, IdleRequest, Optional
  <2>2. ReadersOK([request EXCEPT ![r] = new])
    BY <2>1, OneReader
  <2> QED
    BY <1>0, <1>1, <2>2, ReaderStepType DEF Call
<1>2. CASE HitCache(r)
  <2>1. Entered(r).cached \in Optional(Nat) /\ request[r].resource \in Resources
    BY <1>2, BusyReader DEF HitCache
  <2>2. ReadersOK([request EXCEPT ![r] = Answered(r, Entered(r).cached)])
    BY <2>1, AnsweredLemma, OneReader
  <2> QED
    BY <1>0, <1>2, <2>2, ReaderStepType DEF HitCache
<1>3. ASSUME NEW force \in BOOLEAN, JoinFetch(r, force) PROVE TypeOK'
  <2> DEFINE new == [request[r] EXCEPT !.phase = "waiting"]
             e == [Entered(r) EXCEPT !.waiters = @ \cup {r}]
  <2>1. request[r].resource \in Resources /\ Entered(r) \in Entry
    BY <1>3, BusyReader DEF JoinFetch, MissesCache
  <2>2. new \in Request /\ new.resource \in Resources /\ e \in Entry
    BY <1>0, <2>1 DEF Request, RequestPhase, Entry
  <2>3. /\ ReadersOK([request EXCEPT ![r] = new])
        /\ [entries EXCEPT ![request[r].resource] = e] \in [Resources -> Entry]
    BY <2>1, <2>2, OneReader, OneEntry
  <2> QED
    BY <1>0, <1>3, <2>3, ReaderStepType DEF JoinFetch, Entered
<1>4. ASSUME NEW force \in BOOLEAN, LeadFetch(r, force) PROVE TypeOK'
  <2> DEFINE new == [request[r] EXCEPT !.phase = "fetching", !.generation = Entered(r).generation]
             e == [Entered(r) EXCEPT !.inFlight = Entered(r).generation]
  <2>1. request[r].resource \in Resources /\ Entered(r) \in Entry
    BY <1>4, BusyReader DEF LeadFetch, MissesCache
  <2>2. new \in Request /\ new.resource \in Resources /\ e \in Entry
    BY <1>0, <2>1 DEF Request, RequestPhase, Entry, Optional
  <2>3. /\ ReadersOK([request EXCEPT ![r] = new])
        /\ [entries EXCEPT ![request[r].resource] = e] \in [Resources -> Entry]
    BY <2>1, <2>2, OneReader, OneEntry
  <2> QED
    BY <1>0, <1>4, <2>3, ReaderStepType DEF LeadFetch, Entered
<1>5. ASSUME NEW value \in {upstream, None}, FetchReturns(r, value) PROVE TypeOK'
  <2> DEFINE new == [request[r] EXCEPT !.phase = "fetched", !.value = value]
  <2>1. request[r].resource \in Resources
    BY <1>5, BusyReader DEF FetchReturns
  <2>2. new \in Request /\ new.resource \in Resources
    BY <1>0, <2>1 DEF Request, RequestPhase, Optional
  <2>3. ReadersOK([request EXCEPT ![r] = new])
    BY <2>2, OneReader
  <2> QED
    BY <1>0, <1>5, <2>3, ReaderStepType DEF FetchReturns
<1>6. CASE CompleteFetch(r)
  <2> DEFINE S == Entered(r).waiters \cup {r}
             value == request[r].value
             e == Landed(Entered(r), request[r].generation, value)
  <2>1. /\ request[r].phase = "fetched" /\ request[r].resource \in Resources /\ Entered(r) \in Entry
        /\ request[r].generation \in Nat /\ value \in Optional(Nat)
        /\ Entered(r).waiters \in SUBSET Requests
    BY <1>6, BusyReader DEF CompleteFetch
  <2>2. \A q \in S : request[q].phase # "idle"
    BY <2>1, WaitersWait DEF Entered
  <2>3. ReadersOK(AnswerAll(S, value)) /\ ReadersOK([request EXCEPT ![r] = Answered(r, value)])
    BY <2>1, <2>2, AnsweredReaders, AnsweredLemma, OneReader
  <2>4. [entries EXCEPT ![request[r].resource] = e] \in [Resources -> Entry]
    BY <2>1, LandedLemma, OneEntry
  <2> QED
    BY <1>0, <1>6, <2>3, <2>4, ReaderStepType DEF CompleteFetch, Entered
<1>7. CASE CleanUp(r)
  <2> DEFINE S == Entered(r).waiters
             new == AnswerAll(S, None)
             e == Landed(Entered(r), request[r].generation, None)
  <2>1. /\ request[r].phase = "cancelling" /\ request[r].resource \in Resources
        /\ Entered(r) \in Entry /\ request[r].generation \in Nat
        /\ S \in SUBSET Requests
    BY <1>7, BusyReader DEF CleanUp
  <2>2. \A q \in S : request[q].phase # "idle"
    BY <2>1, WaitersWait DEF Entered
  <2>3. ReadersOK(new) /\ ReadersOK([request EXCEPT ![r] = IdleRequest])
    BY <1>0, <2>1, <2>2, AnsweredReaders, IdleLemma, OneReader
  <2>4. ReadersOK([new EXCEPT ![r] = IdleRequest])
    BY <2>3, IdleLemma DEF ReadersOK
  <2>5. [entries EXCEPT ![request[r].resource] = e] \in [Resources -> Entry]
    BY <1>0, <2>1, LandedLemma, OneEntry
  <2> QED
    BY <1>0, <1>7, <2>3, <2>4, <2>5, ReaderStepType DEF CleanUp, Entered
<1>8. CASE Return(r)
  <2>1. ReadersOK([request EXCEPT ![r] = IdleRequest])
    BY OneReader, IdleLemma
  <2> QED
    BY <1>0, <1>8, <2>1, ReaderStepType DEF Return
<1>9. CASE CancelRead(r)
  <2> DEFINE new == [request[r] EXCEPT !.phase = "cancelling", !.value = None]
             e == [Entered(r) EXCEPT !.waiters = @ \ {r}]
  <2>1. request[r].resource \in Resources /\ Entered(r) \in Entry
    BY <1>9, BusyReader DEF CancelRead
  <2>2. new \in Request /\ new.resource \in Resources /\ e \in Entry
    BY <1>0, <2>1 DEF Request, RequestPhase, Entry, Optional
  <2>3. /\ ReadersOK([request EXCEPT ![r] = new])
        /\ ReadersOK([request EXCEPT ![r] = IdleRequest])
        /\ [entries EXCEPT ![request[r].resource] = e] \in [Resources -> Entry]
    BY <2>1, <2>2, OneReader, OneEntry, IdleLemma
  <2> QED
    BY <1>0, <1>9, <2>3, ReaderStepType DEF CancelRead, Entered
<1> QED
  BY <1>1, <1>2, <1>3, <1>4, <1>5, <1>6, <1>7, <1>8, <1>9 DEF ReadStep

\* An invalidation, as a part of a step.
LEMMA InvalidateType ==
  ASSUME TypeOK, WaitersMatch, NEW S \in SUBSET Resources, Invalidate(S)
  PROVE  /\ entries' \in [Resources -> Entry]
         /\ ReadersOK(request')
         /\ barrier' \in [Resources -> Nat]
<1> DEFINE W == {q \in Requests : \E k \in S : q \in entries[k].waiters}
<1>1. entries' \in [Resources -> Entry]
  BY InvalidatedLemma DEF TypeOK, Invalidate
<1>2. barrier' \in [Resources -> Nat]
  BY DEF TypeOK, Invalidate
<1>3. \A q \in W : request[q].phase # "idle"
  BY WaitersWait
<1>4. ReadersOK(AnswerAll(W, None))
  BY <1>3, AnsweredReaders DEF Optional
<1> QED
  BY <1>1, <1>2, <1>4 DEF Invalidate

\* The writers' part of the type invariant.
WritersOK(wr) ==
  /\ wr \in [Writers -> Write]
  /\ \A w \in Writers : wr[w].phase # "idle" =>
       wr[w].account \in Accounts /\ wr[w].operation \in Operations

LEMMA OneWriter ==
  ASSUME TypeOK, NEW w \in Writers, NEW new \in Write,
         new.phase # "idle" => new.account \in Accounts /\ new.operation \in Operations
  PROVE  WritersOK([write EXCEPT ![w] = new])
  BY DEF TypeOK, WritersOK

LEMMA BusyWriter ==
  ASSUME TypeOK, NEW w \in Writers, write[w].phase # "idle"
  PROVE  /\ write[w] \in Write
         /\ write[w].account \in Accounts /\ write[w].operation \in Operations
         /\ write[w].done \in Nat /\ write[w].applied \in Optional(Nat)
         /\ Order(w) \in Seq(Kinds)
         /\ \A i \in 1..Len(Order(w)) : <<write[w].account, Order(w)[i]>> \in Resources
<1>1. /\ write[w] \in Write
      /\ write[w].account \in Accounts /\ write[w].operation \in Operations
      /\ write[w].done \in Nat /\ write[w].applied \in Optional(Nat)
  BY DEF TypeOK, Write
<1>2. Order(w) \in Seq(Kinds)
  BY <1>1, InvalidationOrderType DEF Order
<1> QED
  BY <1>1, <1>2 DEF Resources

\* A step that leaves acked alone is well typed if its parts are.
LEMMA PartsType ==
  ASSUME ReadersOK(request'), WritersOK(write'), entries' \in [Resources -> Entry],
         upstream' \in Nat, acked' \in [Resources -> Nat], barrier' \in [Resources -> Nat]
  PROVE  TypeOK'
  BY DEF TypeOK, ReadersOK, WritersOK

LEMMA WriteStepType ==
  ASSUME TypeOK, WaitersMatch, AcksFollowBarriers, NEW w \in Writers,
         \/ WriteStep(w) \/ AbandonWrite(w)
         \/ \E a \in Accounts, op \in Operations : StartWrite(w, a, op)
  PROVE  TypeOK'
<1>0. /\ write \in [Writers -> Write] /\ write[w] \in Write
      /\ upstream \in Nat /\ acked \in [Resources -> Nat]
  BY DEF TypeOK
<1>1. CASE ApplyWrite(w)
  <2> DEFINE new == [write[w] EXCEPT !.applied = upstream + 1]
  <2>0. write[w].account \in Accounts /\ write[w].operation \in Operations
    BY <1>1, BusyWriter DEF ApplyWrite
  <2>1. new \in Write /\ new.account \in Accounts /\ new.operation \in Operations
    BY <1>0, <2>0 DEF Write, Optional
  <2>2. WritersOK([write EXCEPT ![w] = new])
    BY <2>1, OneWriter
  <2> QED
    BY <1>0, <1>1, <2>2 DEF ApplyWrite, TypeOK, WritersOK
<1>2. CASE WriteSucceeds(w)
  <2> DEFINE new == [write[w] EXCEPT !.phase = "invalidating"]
  <2>1. new \in Write /\ new.account \in Accounts /\ new.operation \in Operations
    BY <1>0, <1>2, BusyWriter DEF WriteSucceeds, Write, WritePhase
  <2>2. WritersOK([write EXCEPT ![w] = new])
    BY <2>1, OneWriter
  <2> QED
    BY <1>0, <1>2, <2>2 DEF WriteSucceeds, TypeOK, WritersOK
<1>3. CASE InvalidateNext(w)
  <2> DEFINE new == [write[w] EXCEPT !.done = @ + 1]
             k == <<write[w].account, Order(w)[write[w].done + 1]>>
  <2>0. /\ write[w].account \in Accounts /\ write[w].operation \in Operations
        /\ write[w].done \in Nat
        /\ write[w].done + 1 \in 1..Len(Order(w))
        /\ k \in Resources
    <3>1. /\ write[w].account \in Accounts /\ write[w].operation \in Operations
          /\ write[w].done \in Nat /\ Order(w) \in Seq(Kinds)
          /\ \A i \in 1..Len(Order(w)) : <<write[w].account, Order(w)[i]>> \in Resources
      BY <1>3, BusyWriter DEF InvalidateNext
    <3>2. write[w].done + 1 \in 1..Len(Order(w))
      BY <1>3, <3>1 DEF InvalidateNext
    <3> QED
      BY <3>1, <3>2
  <2>1. new \in Write /\ new.account \in Accounts /\ new.operation \in Operations
    BY <1>0, <2>0 DEF Write
  <2>2. WritersOK([write EXCEPT ![w] = new])
    BY <2>1, OneWriter
  <2>3. /\ entries' \in [Resources -> Entry] /\ barrier' \in [Resources -> Nat]
        /\ ReadersOK(request')
    BY <1>3, <2>0, InvalidateType DEF InvalidateNext
  <2> QED
    BY <1>0, <1>3, <2>2, <2>3, PartsType DEF InvalidateNext
<1>4. CASE AcknowledgeWrite(w)
  <2>1. WritersOK([write EXCEPT ![w] = IdleWrite])
    BY OneWriter, IdleLemma
  <2>2. write[w].applied \in Nat
    BY <1>4, BusyWriter DEF AcknowledgeWrite, AcksFollowBarriers, WritesInvalidate, Optional
  <2>3. acked' \in [Resources -> Nat]
    BY <1>0, <1>4, <2>2 DEF AcknowledgeWrite
  <2> QED
    BY <1>0, <1>4, <2>1, <2>3 DEF AcknowledgeWrite, TypeOK, WritersOK
<1>5. CASE AbandonWrite(w)
  <2>1. WritersOK([write EXCEPT ![w] = IdleWrite])
    BY OneWriter, IdleLemma
  <2> QED
    BY <1>0, <1>5, <2>1 DEF AbandonWrite, TypeOK, WritersOK
<1>6. ASSUME NEW a \in Accounts, NEW op \in Operations, StartWrite(w, a, op) PROVE TypeOK'
  <2> DEFINE new == [phase |-> "calling", account |-> a, operation |-> op,
                     applied |-> None, done |-> 0]
  <2>1. new \in Write
    BY DEF Write, WritePhase, Optional
  <2>2. WritersOK([write EXCEPT ![w] = new])
    BY <2>1, OneWriter
  <2> QED
    BY <1>0, <1>6, <2>2 DEF StartWrite, TypeOK, WritersOK
<1> QED
  BY <1>1, <1>2, <1>3, <1>4, <1>5, <1>6 DEF WriteStep

\* The steps that belong to nobody.
LEMMA TypeStep ==
  ASSUME TypeOK, WaitersMatch, AcksFollowBarriers, [Next]_vars
  PROVE  TypeOK'
<1>1. ASSUME NEW k \in Resources, Expire(k) PROVE TypeOK'
  <2> DEFINE e == [entries[k] EXCEPT !.fresh = FALSE]
  <2>1. e \in Entry
    BY DEF TypeOK, Entry
  <2>2. [entries EXCEPT ![k] = e] \in [Resources -> Entry]
    BY <2>1, OneEntry
  <2> QED
    BY <1>1, <2>2 DEF Expire, TypeOK
<1>2. ASSUME NEW a \in Accounts, InvalidateAccount(a) PROVE TypeOK'
  <2>1. {a} \X Kinds \subseteq Resources
    BY DEF Resources
  <2>2. /\ entries' \in [Resources -> Entry] /\ barrier' \in [Resources -> Nat]
        /\ ReadersOK(request')
    BY <1>2, <2>1, InvalidateType DEF InvalidateAccount
  <2> QED
    BY <1>2, <2>2, ReaderStepType DEF InvalidateAccount, TypeOK
<1>3. CASE ChangeElsewhere
  BY <1>3 DEF ChangeElsewhere, TypeOK
<1>4. CASE UNCHANGED vars
  BY <1>4 DEF vars, TypeOK
<1> QED
  BY <1>1, <1>2, <1>3, <1>4, ReadStepType, WriteStepType DEF Next

-----------------------------------------------------------------------------
(* Flights and waiters                                                      *)

LEMMA StructureInit == Init => FlightsHaveLeaders /\ WaitersMatch
  BY DEF Init, FlightsHaveLeaders, FlightsAreLed, LeadersOwnFlights, SingleFlight, Live,
     WaitersMatch, WaitersAreReaders, WaitersHaveFlight, EmptyEntry, IdleRequest

\* A step that moves neither flights, nor generations, nor leaders.
LEMMA FlightsFrame ==
  ASSUME TypeOK, FlightsHaveLeaders,
         \A k \in Resources : /\ entries'[k].inFlight = entries[k].inFlight
                              /\ entries'[k].generation = entries[k].generation,
         \A q \in Requests : Live(q)' <=> Live(q),
         \A q \in Requests : Live(q) => /\ request'[q].resource = request[q].resource
                                        /\ request'[q].generation = request[q].generation
  PROVE  FlightsHaveLeaders'
<1>0. \A q \in Requests : Live(q) => request[q].resource \in Resources
  BY DEF TypeOK, Live
<1>1. FlightsAreLed'
  BY DEF FlightsHaveLeaders, FlightsAreLed
<1>2. LeadersOwnFlights'
  BY <1>0 DEF FlightsHaveLeaders, LeadersOwnFlights, OwnsFlight, Entered
<1>3. SingleFlight'
  BY DEF FlightsHaveLeaders, SingleFlight
<1> QED
  BY <1>1, <1>2, <1>3 DEF FlightsHaveLeaders

\* A step that moves neither waiters nor flights.
LEMMA WaitersFrame ==
  ASSUME WaitersMatch,
         \A k \in Resources : /\ entries'[k].inFlight = entries[k].inFlight
                              /\ entries'[k].waiters = entries[k].waiters,
         \A q \in Requests : request'[q].phase = "waiting" <=> request[q].phase = "waiting",
         \A q \in Requests : request[q].phase = "waiting" =>
           request'[q].resource = request[q].resource
  PROVE  WaitersMatch'
  BY DEF WaitersMatch, WaitersAreReaders, WaitersHaveFlight

\* The two endings of a leader.  Its flight lands: the entry is released, its waiters
\* are answered ...
FlightEnds(r, value) ==
  /\ OwnsFlight(r)
  /\ \A k \in Resources : k # request[r].resource => entries'[k] = entries[k]
  /\ entries'[request[r].resource] = Landed(Entered(r), request[r].generation, value)
  /\ \A q \in Requests : q # r =>
       request'[q] = IF q \in Entered(r).waiters THEN Answered(q, value) ELSE request[q]
  /\ \/ request'[r] = Answered(r, value) \/ request'[r] = IdleRequest

\* ... or it finds that it was abandoned, and leaves the entry to others.
LeaderLeaves(r) ==
  /\ ~OwnsFlight(r)
  /\ entries' = entries
  /\ \A q \in Requests : q # r => request'[q] = request[q]
  /\ \/ request'[r] = Answered(r, request[r].value) \/ request'[r] = IdleRequest

LEMMA CompleteFetchEnds ==
  ASSUME TypeOK, WaitersMatch, NEW r \in Requests, CompleteFetch(r)
  PROVE  FlightEnds(r, request[r].value) \/ LeaderLeaves(r)
<1>1. /\ request[r].resource \in Resources
      /\ entries \in [Resources -> Entry] /\ request \in [Requests -> Request]
  BY BusyReader DEF CompleteFetch, TypeOK
<1> QED
  BY <1>1 DEF CompleteFetch, FlightEnds, LeaderLeaves, AnswerAll, Entered

LEMMA CleanUpEnds ==
  ASSUME TypeOK, WaitersMatch, NEW r \in Requests, CleanUp(r)
  PROVE  FlightEnds(r, None) \/ LeaderLeaves(r)
<1>1. /\ request[r].resource \in Resources
      /\ entries \in [Resources -> Entry] /\ request \in [Requests -> Request]
  BY BusyReader DEF CleanUp, TypeOK
<1> QED
  BY <1>1 DEF CleanUp, FlightEnds, LeaderLeaves, AnswerAll, Entered

\* The facts about such a step that the invariants need.
LEMMA FlightEndsFacts ==
  ASSUME IndInv, NEW r \in Requests, NEW value \in Optional(Nat), Live(r), FlightEnds(r, value)
  PROVE  /\ request[r].resource \in Resources
         /\ \A k \in Resources : entries'[k].generation = entries[k].generation
         /\ \A k \in Resources : k # request[r].resource => entries'[k] = entries[k]
         /\ entries'[request[r].resource].inFlight = None
         /\ entries'[request[r].resource].waiters = {}
         /\ request[r].generation = entries[request[r].resource].generation
         /\ \A q \in Requests : ~Live(q)' \/ (q # r /\ request'[q] = request[q])
         /\ \A q \in Requests :
              request'[q].phase = "waiting" <=>
                request[q].phase = "waiting" /\ request[q].resource # request[r].resource
         /\ \A q \in Requests : request'[q].phase = "waiting" => request'[q] = request[q]
<1>1. /\ TypeOK /\ request[r].resource \in Resources /\ Entered(r) \in Entry
      /\ request[r].generation \in Nat /\ request[r].phase # "waiting"
      /\ Entered(r) = entries[request[r].resource]
  BY BusyReader DEF IndInv, Live
<1> DEFINE e == Landed(Entered(r), request[r].generation, value)
<1>2. /\ e.inFlight = None /\ e.waiters = {} /\ e.generation = Entered(r).generation
  BY <1>1, LandedLemma
<1>3. /\ entries'[request[r].resource] = e
      /\ \A k \in Resources : k # request[r].resource => entries'[k] = entries[k]
  BY DEF FlightEnds
<1>4. request[r].generation = entries[request[r].resource].generation
  BY <1>1, NoneIsNoRevision DEF FlightEnds, OwnsFlight, IndInv, FlightsHaveLeaders, FlightsAreLed
<1>5. \A q \in Requests : /\ Answered(q, value).phase = "answered"
                          /\ IdleRequest.phase = "idle"
  BY <1>1, AnsweredLemma, IdleLemma
<1>6. \A q \in Requests : q \in Entered(r).waiters <=>
        request[q].phase = "waiting" /\ request[q].resource = request[r].resource
  BY <1>1 DEF IndInv, WaitersMatch, WaitersAreReaders
<1>7. request'[r].phase \in {"answered", "idle"}
  BY <1>5 DEF FlightEnds
<1>8. \A q \in Requests : q # r =>
        IF q \in Entered(r).waiters THEN request'[q].phase = "answered"
                                    ELSE request'[q] = request[q]
  BY <1>5 DEF FlightEnds
<1>9. \A k \in Resources : entries'[k].generation = entries[k].generation
  <2> HIDE DEF e
  <2> QED
    BY <1>1, <1>2, <1>3
<1>10. \A q \in Requests : ~Live(q)' \/ (q # r /\ request'[q] = request[q])
  BY <1>7, <1>8 DEF Live
<1>11. \A q \in Requests :
         request'[q].phase = "waiting" <=>
           request[q].phase = "waiting" /\ request[q].resource # request[r].resource
  BY <1>1, <1>6, <1>7, <1>8
<1>12. \A q \in Requests : request'[q].phase = "waiting" => request'[q] = request[q]
  BY <1>7, <1>8
<1> HIDE DEF e
<1> QED
  BY <1>1, <1>2, <1>3, <1>4, <1>9, <1>10, <1>11, <1>12

LEMMA FlightEndsStructure ==
  ASSUME IndInv, NEW r \in Requests, NEW value \in Optional(Nat), Live(r), FlightEnds(r, value)
  PROVE  FlightsHaveLeaders' /\ WaitersMatch'
<1> DEFINE home == request[r].resource
<1>1. /\ home \in Resources
      /\ \A k \in Resources : entries'[k].generation = entries[k].generation
      /\ \A k \in Resources : k # home => entries'[k] = entries[k]
      /\ entries'[home].inFlight = None
      /\ entries'[home].waiters = {}
      /\ request[r].generation = entries[home].generation
  BY FlightEndsFacts
<1>2. \A q \in Requests : ~Live(q)' \/ (q # r /\ request'[q] = request[q])
  BY FlightEndsFacts
<1>3. \A q \in Requests : request'[q].phase = "waiting" <=>
        request[q].phase = "waiting" /\ request[q].resource # home
  BY FlightEndsFacts
<1>4. \A q \in Requests : request'[q].phase = "waiting" => request'[q] = request[q]
  BY FlightEndsFacts
<1>5. FlightsAreLed /\ LeadersOwnFlights /\ SingleFlight /\ WaitersAreReaders /\ WaitersHaveFlight
  BY DEF IndInv, FlightsHaveLeaders, WaitersMatch
<1>6. \A q \in Requests : Live(q) => request[q].resource \in Resources
  BY BusyReader DEF IndInv, Live
\* The other live readers of the resource belong to earlier generations.
<1>7. \A q \in Requests : Live(q) /\ q # r /\ request[q].resource = home
        => request[q].generation # entries[home].generation
  BY <1>1, <1>5 DEF SingleFlight
\* A leader of another resource goes on leading.
<1>8. \A q \in Requests : Live(q) /\ request[q].resource # home =>
        request'[q] = request[q] /\ Live(q)'
  <2>1. \A q \in Requests : Live(q) /\ q # r => q \notin Entered(r).waiters
    BY <1>1, <1>5 DEF WaitersAreReaders, Entered, Live
  <2> QED
    BY <2>1 DEF FlightEnds, Live
<1> HIDE DEF home
<1>9. FlightsAreLed'
  BY <1>1, <1>5, <1>8 DEF FlightsAreLed
<1>10. LeadersOwnFlights'
  <2> SUFFICES ASSUME NEW q \in Requests, Live(q)'
               PROVE  /\ request[q].generation <= entries'[request[q].resource].generation
                      /\ request[q].generation = entries'[request[q].resource].generation
                           => entries'[request[q].resource].inFlight = request[q].generation
    BY <1>2 DEF LeadersOwnFlights, Entered, OwnsFlight
  <2>1. Live(q) /\ q # r /\ request[q].resource \in Resources
    BY <1>2, <1>6 DEF Live
  <2> QED
    BY <1>1, <1>5, <1>7, <2>1 DEF LeadersOwnFlights, Entered, OwnsFlight
<1>11. SingleFlight'
  BY <1>2, <1>5 DEF SingleFlight, Live
<1>12. WaitersAreReaders'
  BY <1>1, <1>3, <1>4, <1>5 DEF WaitersAreReaders
<1>13. WaitersHaveFlight'
  BY <1>1, <1>5 DEF WaitersHaveFlight
<1> QED
  BY <1>9, <1>10, <1>11, <1>12, <1>13 DEF FlightsHaveLeaders, WaitersMatch

LEMMA LeaderLeavesStructure ==
  ASSUME IndInv, NEW r \in Requests, Live(r), LeaderLeaves(r)
  PROVE  FlightsHaveLeaders' /\ WaitersMatch'
<1>1. /\ entries' = entries
      /\ \A q \in Requests : q # r => request'[q] = request[q]
      /\ request'[r].phase \in {"answered", "idle"}
  BY AnsweredLemma, IdleLemma DEF LeaderLeaves, IndInv, TypeOK, Request
<1>2. request[r].phase # "waiting"
  BY DEF Live
<1>3. FlightsAreLed /\ LeadersOwnFlights /\ SingleFlight /\ WaitersAreReaders /\ WaitersHaveFlight
  BY DEF IndInv, FlightsHaveLeaders, WaitersMatch
<1>4. request[r].generation # entries[request[r].resource].generation
  BY <1>3 DEF LeaderLeaves, LeadersOwnFlights, OwnsFlight, Entered
<1>5. \A q \in Requests : ~Live(q)' \/ (q # r /\ request'[q] = request[q])
  BY <1>1 DEF Live
<1>6. \A q \in Requests : q # r /\ Live(q) => Live(q)' /\ request'[q] = request[q]
  BY <1>1 DEF Live
<1>7. FlightsAreLed'
  BY <1>1, <1>3, <1>4, <1>6 DEF FlightsAreLed
<1>8. LeadersOwnFlights'
  BY <1>1, <1>3, <1>5 DEF LeadersOwnFlights, Entered, OwnsFlight, Live
<1>9. SingleFlight'
  BY <1>3, <1>5 DEF SingleFlight, Live
<1>10. WaitersAreReaders' /\ WaitersHaveFlight'
  BY <1>1, <1>2, <1>3 DEF WaitersAreReaders, WaitersHaveFlight
<1> QED
  BY <1>7, <1>8, <1>9, <1>10 DEF FlightsHaveLeaders, WaitersMatch

LEMMA LeadFetchStructure ==
  ASSUME IndInv, NEW r \in Requests, NEW force \in BOOLEAN, LeadFetch(r, force)
  PROVE  FlightsHaveLeaders' /\ WaitersMatch'
<1> DEFINE home == request[r].resource
<1>1. /\ TypeOK /\ home \in Resources /\ request[r].phase = "entering"
      /\ entries[home].generation \in Nat /\ entries[home].inFlight = None
      /\ entries \in [Resources -> Entry] /\ request \in [Requests -> Request]
  BY BusyReader DEF IndInv, LeadFetch, MissesCache, TypeOK, Entered
<1>2. /\ \A k \in Resources : /\ entries'[k].generation = entries[k].generation
                              /\ entries'[k].waiters = entries[k].waiters
                              /\ k # home => entries'[k] = entries[k]
      /\ entries'[home].inFlight = entries[home].generation
  BY <1>1 DEF LeadFetch, Entered, Entry
<1>3. /\ \A q \in Requests : q # r => request'[q] = request[q]
      /\ request'[r].phase = "fetching" /\ request'[r].resource = home
      /\ request'[r].generation = entries[home].generation
  BY <1>1 DEF LeadFetch, Entered, Request
<1>4. FlightsAreLed /\ LeadersOwnFlights /\ SingleFlight /\ WaitersAreReaders /\ WaitersHaveFlight
  BY DEF IndInv, FlightsHaveLeaders, WaitersMatch
<1>5. \A q \in Requests : Live(q) => request[q].resource \in Resources
  BY BusyReader DEF IndInv, Live
<1>6. \A q \in Requests : Live(q)' <=> (q = r \/ Live(q))
  BY <1>3 DEF Live
<1>7. \A q \in Requests : Live(q) => q # r
  BY <1>1 DEF Live
\* Nobody leads the current generation of an entry without a flight.
<1>8. \A q \in Requests : Live(q) /\ request[q].resource = home
        => request[q].generation # entries[home].generation
  <2>1. entries[home].generation # None
    BY <1>1, NoneIsNoRevision
  <2> QED
    BY <1>1, <1>4, <2>1 DEF LeadersOwnFlights, OwnsFlight, Entered
<1> HIDE DEF home
<1>9. FlightsAreLed'
  BY <1>1, <1>2, <1>3, <1>4, <1>6, <1>7 DEF FlightsAreLed
<1>10. LeadersOwnFlights'
  <2> SUFFICES ASSUME NEW q \in Requests, Live(q)'
               PROVE  /\ request'[q].generation <= entries'[request'[q].resource].generation
                      /\ request'[q].generation = entries'[request'[q].resource].generation
                           => entries'[request'[q].resource].inFlight = request'[q].generation
    BY DEF LeadersOwnFlights, Entered, OwnsFlight
  <2>1. CASE q = r
    BY <1>1, <1>2, <1>3, <2>1
  <2>2. CASE q # r
    <3>1. Live(q) /\ request'[q] = request[q] /\ request[q].resource \in Resources
      BY <1>3, <1>5, <1>6, <2>2
    <3> QED
      BY <1>2, <1>4, <1>8, <3>1 DEF LeadersOwnFlights, Entered, OwnsFlight
  <2> QED
    BY <2>1, <2>2
<1>11. SingleFlight'
  BY <1>3, <1>4, <1>6, <1>8 DEF SingleFlight
<1>12. WaitersAreReaders'
  BY <1>1, <1>2, <1>3, <1>4 DEF WaitersAreReaders
<1>13. WaitersHaveFlight'
  BY <1>1, <1>2, <1>4, NoneIsNoRevision DEF WaitersHaveFlight
<1> QED
  BY <1>9, <1>10, <1>11, <1>12, <1>13 DEF FlightsHaveLeaders, WaitersMatch

LEMMA CancelReadStructure ==
  ASSUME IndInv, NEW r \in Requests, CancelRead(r)
  PROVE  FlightsHaveLeaders' /\ WaitersMatch'
<1>1. /\ TypeOK /\ WaitersMatch /\ FlightsHaveLeaders
      /\ request[r].resource \in Resources
      /\ entries \in [Resources -> Entry] /\ request \in [Requests -> Request]
  BY BusyReader DEF IndInv, CancelRead, TypeOK
<1>2. ASSUME request[r].phase \in {"entering", "waiting"},
             request' = [request EXCEPT ![r] = IdleRequest],
             entries' = [entries EXCEPT ![request[r].resource].waiters = @ \ {r}]
      PROVE  FlightsHaveLeaders' /\ WaitersMatch'
  <2>1. \A k \in Resources : /\ entries'[k].inFlight = entries[k].inFlight
                             /\ entries'[k].generation = entries[k].generation
                             /\ entries'[k].waiters \subseteq entries[k].waiters
                             /\ k # request[r].resource => entries'[k] = entries[k]
    BY <1>1, <1>2 DEF Entry
  <2>2. entries'[request[r].resource].waiters = entries[request[r].resource].waiters \ {r}
    BY <1>1, <1>2 DEF Entry
  <2>3. request'[r].phase = "idle" /\ \A q \in Requests : q # r => request'[q] = request[q]
    BY <1>1, <1>2, IdleLemma
  <2>4. FlightsHaveLeaders'
    <3>1. \A q \in Requests : /\ Live(q)' <=> Live(q)
                              /\ Live(q) => request'[q] = request[q]
      BY <1>2, <2>3 DEF Live
    <3> QED
      BY <1>1, <2>1, <3>1, FlightsFrame
  <2>5. WaitersAreReaders'
    BY <1>1, <2>1, <2>2, <2>3 DEF WaitersMatch, WaitersAreReaders
  <2>6. WaitersHaveFlight'
    BY <1>1, <2>1 DEF WaitersMatch, WaitersHaveFlight
  <2> QED
    BY <2>4, <2>5, <2>6 DEF WaitersMatch
<1>3. ASSUME request[r].phase \in {"fetching", "fetched"},
             request' = [request EXCEPT ![r].phase = "cancelling", ![r].value = None],
             UNCHANGED entries
      PROVE  FlightsHaveLeaders' /\ WaitersMatch'
  <2>1. /\ \A q \in Requests : q # r => request'[q] = request[q]
        /\ request'[r].phase = "cancelling" /\ request'[r].resource = request[r].resource
        /\ request'[r].generation = request[r].generation
    BY <1>1, <1>3 DEF Request
  <2>2. FlightsHaveLeaders'
    BY <1>1, <1>3, <2>1, FlightsFrame DEF Live
  <2>3. WaitersMatch'
    BY <1>1, <1>3, <2>1, WaitersFrame
  <2> QED
    BY <2>2, <2>3
<1> QED
  BY <1>2, <1>3 DEF CancelRead

LEMMA InvalidateStructure ==
  ASSUME IndInv, NEW S \in SUBSET Resources, Invalidate(S)
  PROVE  FlightsHaveLeaders' /\ WaitersMatch'
<1> DEFINE W == {q \in Requests : \E k \in S : q \in entries[k].waiters}
<1>1. /\ TypeOK /\ entries \in [Resources -> Entry]
      /\ FlightsAreLed /\ LeadersOwnFlights /\ SingleFlight
      /\ WaitersAreReaders /\ WaitersHaveFlight
  BY DEF IndInv, TypeOK, FlightsHaveLeaders, WaitersMatch
<1>2. \A k \in S : /\ entries'[k].inFlight = None /\ entries'[k].waiters = {}
                   /\ entries'[k].generation = entries[k].generation + 1
  BY <1>1, InvalidatedLemma DEF Invalidate
<1>3. \A k \in Resources \ S : entries'[k] = entries[k]
  BY DEF Invalidate
<1>4. /\ \A q \in Requests \ W : request'[q] = request[q]
      /\ \A q \in W : request'[q].phase = "answered"
  <2>1. W \in SUBSET Requests /\ None \in Optional(Nat) /\ request' = AnswerAll(W, None)
    BY DEF Invalidate, Optional
  <2> HIDE DEF W
  <2> QED
    BY <1>1, <2>1, AnswerAllLemma
<1>5. \A q \in Requests : q \in W <=> request[q].phase = "waiting" /\ request[q].resource \in S
  BY <1>1 DEF WaitersAreReaders
<1>6. \A q \in Requests : /\ Live(q)' <=> Live(q)
                          /\ Live(q) => request'[q] = request[q]
  <2> HIDE DEF W
  <2> QED
    BY <1>4, <1>5 DEF Live
<1>7. \A q \in Requests : Live(q) =>
        request[q].resource \in Resources /\ request[q].generation \in Nat
  BY <1>1, BusyReader DEF Live
<1> HIDE DEF W
<1>8. FlightsAreLed'
  BY <1>1, <1>2, <1>3, <1>6 DEF FlightsAreLed
<1>9. LeadersOwnFlights'
  <2> SUFFICES ASSUME NEW q \in Requests, Live(q)
               PROVE  /\ request[q].generation <= entries'[request[q].resource].generation
                      /\ request[q].generation = entries'[request[q].resource].generation
                           => entries'[request[q].resource].inFlight = request[q].generation
    BY <1>6 DEF LeadersOwnFlights, Entered, OwnsFlight
  <2>1. /\ request[q].resource \in Resources /\ request[q].generation \in Nat
        /\ entries[request[q].resource].generation \in Nat
        /\ request[q].generation <= entries[request[q].resource].generation
        /\ request[q].generation = entries[request[q].resource].generation
             => entries[request[q].resource].inFlight = request[q].generation
    BY <1>1, <1>7 DEF LeadersOwnFlights, Entered, OwnsFlight, Entry
  <2>2. CASE request[q].resource \in S
    <3>1. request[q].generation < entries'[request[q].resource].generation
      BY <1>2, <2>1, <2>2
    <3> QED
      BY <1>2, <2>1, <2>2, <3>1
  <2>3. CASE request[q].resource \notin S
    BY <1>3, <2>1, <2>3
  <2> QED
    BY <2>2, <2>3
<1>10. SingleFlight'
  BY <1>1, <1>6 DEF SingleFlight
<1>11. WaitersAreReaders'
  BY <1>1, <1>2, <1>3, <1>4, <1>5 DEF WaitersAreReaders
<1>12. WaitersHaveFlight'
  BY <1>1, <1>2, <1>3 DEF WaitersHaveFlight
<1> QED
  BY <1>8, <1>9, <1>10, <1>11, <1>12 DEF FlightsHaveLeaders, WaitersMatch

LEMMA ReadStepStructure ==
  ASSUME IndInv, NEW r \in Requests,
         ReadStep(r) \/ CancelRead(r) \/ \E k \in Resources : Call(r, k)
  PROVE  FlightsHaveLeaders' /\ WaitersMatch'
<1>0. /\ TypeOK /\ WaitersMatch /\ FlightsHaveLeaders
      /\ entries \in [Resources -> Entry] /\ request \in [Requests -> Request]
  BY DEF IndInv, TypeOK
\* A step that leaves the entries alone and moves one reader that neither leads nor
\* waits, or keeps leading.
<1>1. ASSUME UNCHANGED entries, \A q \in Requests : q # r => request'[q] = request[q],
             \/ ~Live(r) /\ ~Live(r)'
             \/ /\ Live(r) /\ Live(r)'
                /\ request'[r].resource = request[r].resource
                /\ request'[r].generation = request[r].generation,
             request[r].phase # "waiting", request'[r].phase # "waiting"
      PROVE  FlightsHaveLeaders' /\ WaitersMatch'
  <2>1. FlightsHaveLeaders'
    BY <1>0, <1>1, FlightsFrame DEF Live
  <2>2. WaitersMatch'
    BY <1>0, <1>1, WaitersFrame
  <2> QED
    BY <2>1, <2>2
<1>2. CASE \E k \in Resources : Call(r, k)
  BY <1>0, <1>1, <1>2 DEF Call, Live, IdleRequest
<1>3. CASE HitCache(r)
  <2>1. Answered(r, Entered(r).cached).phase = "answered"
    BY <1>0, <1>3, BusyReader, AnsweredLemma DEF HitCache
  <2> QED
    BY <1>0, <1>1, <1>3, <2>1 DEF HitCache, Live
<1>4. ASSUME NEW force \in BOOLEAN, JoinFetch(r, force)
      PROVE  FlightsHaveLeaders' /\ WaitersMatch'
  <2>1. request[r].resource \in Resources /\ request[r].phase = "entering"
    BY <1>0, <1>4, BusyReader DEF JoinFetch, MissesCache
  <2>2. /\ \A k \in Resources : /\ entries'[k].inFlight = entries[k].inFlight
                                /\ entries'[k].generation = entries[k].generation
                                /\ k # request[r].resource => entries'[k] = entries[k]
        /\ entries'[request[r].resource].waiters = entries[request[r].resource].waiters \cup {r}
        /\ entries'[request[r].resource].inFlight # None
    BY <1>0, <1>4, <2>1 DEF JoinFetch, Entered, Entry
  <2>3. /\ \A q \in Requests : q # r => request'[q] = request[q]
        /\ request'[r].phase = "waiting" /\ request'[r].resource = request[r].resource
    BY <1>0, <1>4 DEF JoinFetch, Request
  <2>4. FlightsHaveLeaders'
    BY <1>0, <2>1, <2>2, <2>3, FlightsFrame DEF Live
  <2>5. WaitersAreReaders'
    BY <1>0, <2>1, <2>2, <2>3 DEF WaitersMatch, WaitersAreReaders
  <2>6. WaitersHaveFlight'
    BY <1>0, <2>1, <2>2 DEF WaitersMatch, WaitersHaveFlight
  <2> QED
    BY <2>4, <2>5, <2>6 DEF WaitersMatch
<1>5. ASSUME NEW value \in {upstream, None}, FetchReturns(r, value)
      PROVE  FlightsHaveLeaders' /\ WaitersMatch'
  <2>1. /\ request'[r].phase = "fetched" /\ request'[r].resource = request[r].resource
        /\ request'[r].generation = request[r].generation
    BY <1>0, <1>5 DEF FetchReturns, Request
  <2> QED
    BY <1>0, <1>1, <1>5, <2>1 DEF FetchReturns, Live
<1>6. CASE Return(r)
  BY <1>0, <1>1, <1>6, IdleLemma DEF Return, Live
<1>7. CASE CompleteFetch(r)
  <2>1. Live(r) /\ request[r].value \in Optional(Nat)
    BY <1>0, <1>7, BusyReader DEF CompleteFetch, Live
  <2> QED
    BY <1>0, <1>7, <2>1, CompleteFetchEnds, FlightEndsStructure, LeaderLeavesStructure
<1>8. CASE CleanUp(r)
  <2>1. Live(r) /\ None \in Optional(Nat)
    BY <1>8 DEF CleanUp, Live, Optional
  <2> QED
    BY <1>0, <1>8, <2>1, CleanUpEnds, FlightEndsStructure, LeaderLeavesStructure
<1> QED
  BY <1>2, <1>3, <1>4, <1>5, <1>6, <1>7, <1>8, LeadFetchStructure, CancelReadStructure DEF ReadStep

\* What InvalidateNext invalidates.
LEMMA NextInvalidation ==
  ASSUME TypeOK, NEW w \in Writers, InvalidateNext(w)
  PROVE  /\ write[w].done \in Nat /\ write[w].done + 1 \in 1..Len(Order(w))
         /\ <<write[w].account, Order(w)[write[w].done + 1]>> \in Resources
<1>1. /\ write[w].done \in Nat /\ Order(w) \in Seq(Kinds)
      /\ \A i \in 1..Len(Order(w)) : <<write[w].account, Order(w)[i]>> \in Resources
  BY BusyWriter DEF InvalidateNext
<1>2. write[w].done + 1 \in 1..Len(Order(w))
  BY <1>1 DEF InvalidateNext
<1> QED
  BY <1>1, <1>2

LEMMA StructureStep ==
  ASSUME IndInv, [Next]_vars
  PROVE  FlightsHaveLeaders' /\ WaitersMatch'
<1>0. TypeOK /\ WaitersMatch /\ FlightsHaveLeaders
  BY DEF IndInv
<1>1. ASSUME UNCHANGED <<entries, request>>
      PROVE  FlightsHaveLeaders' /\ WaitersMatch'
  BY <1>0, <1>1, FlightsFrame, WaitersFrame DEF Live
<1>2. ASSUME NEW w \in Writers, InvalidateNext(w)
      PROVE  FlightsHaveLeaders' /\ WaitersMatch'
  BY <1>0, <1>2, NextInvalidation, InvalidateStructure DEF InvalidateNext
<1>3. ASSUME NEW a \in Accounts, InvalidateAccount(a)
      PROVE  FlightsHaveLeaders' /\ WaitersMatch'
  <2>1. {a} \X Kinds \subseteq Resources
    BY DEF Resources
  <2> QED
    BY <1>3, <2>1, InvalidateStructure DEF InvalidateAccount
<1>4. ASSUME NEW k \in Resources, Expire(k)
      PROVE  FlightsHaveLeaders' /\ WaitersMatch'
  <2>1. \A j \in Resources : /\ entries'[j].inFlight = entries[j].inFlight
                             /\ entries'[j].generation = entries[j].generation
                             /\ entries'[j].waiters = entries[j].waiters
    BY <1>0, <1>4 DEF Expire, TypeOK, Entry
  <2>2. request' = request
    BY <1>4 DEF Expire
  <2> QED
    BY <1>0, <2>1, <2>2, FlightsFrame, WaitersFrame DEF Live
<1>5. ASSUME NEW w \in Writers,
             \/ ApplyWrite(w) \/ WriteSucceeds(w) \/ AcknowledgeWrite(w) \/ AbandonWrite(w)
             \/ \E a \in Accounts, op \in Operations : StartWrite(w, a, op)
      PROVE  FlightsHaveLeaders' /\ WaitersMatch'
  BY <1>1, <1>5 DEF ApplyWrite, WriteSucceeds, AcknowledgeWrite, AbandonWrite, StartWrite
<1>6. CASE ChangeElsewhere \/ UNCHANGED vars
  BY <1>1, <1>6 DEF ChangeElsewhere, vars
<1> QED
  BY <1>2, <1>3, <1>4, <1>5, <1>6, ReadStepStructure DEF Next, WriteStep

-----------------------------------------------------------------------------
(* Mutations and their invalidations                                        *)

LEMMA OrderInit == Init => AcksFollowBarriers /\ ValuesFollowBarriers
  BY DEF Init, AcksFollowBarriers, AcksAreInvalidated, WritesAreApplied, WritesInvalidate,
     ValuesFollowBarriers, CachedIsAfterBarrier, FloorsAreAcked, FetchedIsAfterBarrier,
     AnswersAreCurrent, EmptyEntry, IdleRequest, IdleWrite

\* Barriers only rise, to the upstream's revision at most.
LEMMA InvalidateBarriers ==
  ASSUME TypeOK, AcksAreInvalidated, NEW S \in SUBSET Resources, Invalidate(S)
  PROVE  /\ \A k \in Resources : barrier[k] <= barrier'[k] /\ barrier'[k] <= upstream
         /\ \A k \in S : barrier'[k] = upstream
         /\ \A k \in Resources \ S : barrier'[k] = barrier[k]
  BY DEF TypeOK, AcksAreInvalidated, Invalidate

\* Higher barriers keep what was invalidated invalidated.
LEMMA AcksFrame ==
  ASSUME TypeOK, AcksFollowBarriers, upstream' \in Nat, upstream <= upstream',
         barrier' \in [Resources -> Nat],
         \A k \in Resources : barrier[k] <= barrier'[k] /\ barrier'[k] <= upstream',
         UNCHANGED <<write, acked>>
  PROVE  AcksFollowBarriers'
<1>1. AcksAreInvalidated'
  BY DEF TypeOK, AcksFollowBarriers, AcksAreInvalidated
<1>2. WritesAreApplied'
  BY DEF TypeOK, Write, Optional, AcksFollowBarriers, WritesAreApplied
<1>3. WritesInvalidate'
  <2>0. \A w \in Writers : write[w].phase = "calling" => write[w].done = 0
    BY DEF AcksFollowBarriers, WritesInvalidate
  <2> SUFFICES ASSUME NEW w \in Writers, write[w].phase = "invalidating"
               PROVE  /\ write[w].applied # None
                      /\ write[w].done <= Len(Order(w))
                      /\ \A i \in 1..write[w].done :
                           write[w].applied <= barrier'[<<write[w].account, Order(w)[i]>>]
    BY <2>0 DEF WritesInvalidate, Order
  <2>1. /\ write[w].applied \in Nat /\ write[w].done <= Len(Order(w)) /\ write[w].done \in Nat
        /\ write[w].applied # None /\ Order(w) \in Seq(Kinds)
        /\ \A i \in 1..Len(Order(w)) : <<write[w].account, Order(w)[i]>> \in Resources
        /\ \A i \in 1..write[w].done :
             write[w].applied <= barrier[<<write[w].account, Order(w)[i]>>]
    BY BusyWriter DEF AcksFollowBarriers, WritesInvalidate, Optional
  <2>2. ASSUME NEW i \in 1..write[w].done
        PROVE  write[w].applied <= barrier'[<<write[w].account, Order(w)[i]>>]
    <3> DEFINE k == <<write[w].account, Order(w)[i]>>
    <3>1. k \in Resources /\ write[w].applied <= barrier[k]
      BY <2>1
    <3>2. barrier[k] <= barrier'[k] /\ barrier[k] \in Nat /\ barrier'[k] \in Nat
      BY <3>1 DEF TypeOK
    <3> HIDE DEF k
    <3>3. write[w].applied <= barrier'[k]
      BY <2>1, <3>1, <3>2
    <3> QED
      BY <3>3 DEF k
  <2> QED
    BY <2>1, <2>2
<1> QED
  BY <1>1, <1>2, <1>3 DEF AcksFollowBarriers

\* The mutations that are not w's next step keep their records.
LEMMA WriterSteps ==
  ASSUME IndInv, NEW w \in Writers,
         \/ WriteStep(w) \/ AbandonWrite(w)
         \/ \E a \in Accounts, op \in Operations : StartWrite(w, a, op)
  PROVE  AcksFollowBarriers'
<1>0. /\ TypeOK /\ AcksFollowBarriers
      /\ AcksAreInvalidated /\ WritesAreApplied /\ WritesInvalidate
      /\ upstream \in Nat /\ write \in [Writers -> Write] /\ write[w] \in Write
      /\ acked \in [Resources -> Nat] /\ barrier \in [Resources -> Nat]
  BY DEF IndInv, TypeOK, AcksFollowBarriers
\* A step that replaces w's record alone by one that is not invalidating.
<1>1. ASSUME \A v \in Writers : v # w => write'[v] = write[v],
             write'[w].phase # "invalidating",
             write'[w].phase = "calling" => write'[w].done = 0,
             write'[w].applied # None => write'[w].applied <= upstream',
             upstream' \in Nat, upstream <= upstream', UNCHANGED <<acked, barrier>>
      PROVE  AcksFollowBarriers'
  <2>1. AcksAreInvalidated'
    BY <1>0, <1>1 DEF AcksAreInvalidated
  <2>2. WritesAreApplied'
    BY <1>0, <1>1 DEF WritesAreApplied, Write, Optional
  <2>3. WritesInvalidate'
    BY <1>0, <1>1 DEF WritesInvalidate, Order
  <2> QED
    BY <2>1, <2>2, <2>3 DEF AcksFollowBarriers
<1>2. CASE ApplyWrite(w)
  <2>1. /\ \A v \in Writers : v # w => write'[v] = write[v]
        /\ write'[w].phase = "calling" /\ write'[w].done = write[w].done
        /\ write'[w].applied = upstream'
    BY <1>0, <1>2 DEF ApplyWrite, Write
  <2>2. write[w].done = 0
    BY <1>0, <1>2 DEF ApplyWrite, WritesInvalidate
  <2>3. upstream' \in Nat /\ upstream <= upstream' /\ UNCHANGED <<acked, barrier>>
    BY <1>0, <1>2 DEF ApplyWrite
  <2> QED
    BY <1>1, <2>1, <2>2, <2>3
<1>3. CASE WriteSucceeds(w)
  <2>1. \A v \in Writers : v # w => write'[v] = write[v]
    BY <1>0, <1>3 DEF WriteSucceeds
  <2>2. /\ write'[w].applied = write[w].applied /\ write'[w].done = write[w].done
        /\ write'[w].operation = write[w].operation /\ write'[w].account = write[w].account
        /\ write[w].applied # None
    BY <1>0, <1>3 DEF WriteSucceeds, Write
  <2>3. AcksAreInvalidated'
    BY <1>0, <1>3 DEF WriteSucceeds, AcksAreInvalidated
  <2>4. WritesAreApplied'
    BY <1>0, <1>3, <2>1, <2>2 DEF WriteSucceeds, WritesAreApplied
  <2>5. write[w].done = 0
    BY <1>0, <1>3 DEF WriteSucceeds, WritesInvalidate
  <2>6. Len(Order(w)) \in Nat /\ Order(w)' = Order(w)
    BY <1>0, <1>3, <2>2, BusyWriter DEF WriteSucceeds, Order
  <2>7. WritesInvalidate'
    <3> SUFFICES ASSUME NEW v \in Writers
                 PROVE  /\ write'[v].phase = "calling" => write'[v].done = 0
                        /\ write'[v].phase = "invalidating" =>
                             /\ write'[v].applied # None
                             /\ write'[v].done <= Len(Order(v)')
                             /\ \A i \in 1..write'[v].done : write'[v].applied
                                  <= barrier[<<write'[v].account, Order(v)'[i]>>]
      BY <1>3 DEF WriteSucceeds, WritesInvalidate
    <3>1. CASE v = w
      BY <2>2, <2>5, <2>6, <3>1
    <3>2. CASE v # w
      BY <1>0, <2>1, <3>2 DEF WritesInvalidate, Order
    <3> QED
      BY <3>1, <3>2
  <2> QED
    BY <2>3, <2>4, <2>7 DEF AcksFollowBarriers
<1>4. CASE InvalidateNext(w)
  <2> DEFINE n == write[w].done + 1
             k == <<write[w].account, Order(w)[n]>>
  <2>1. /\ write[w].done \in Nat /\ n \in 1..Len(Order(w)) /\ k \in Resources
        /\ write[w].phase = "invalidating" /\ Order(w) \in Seq(Kinds)
        /\ \A i \in 1..Len(Order(w)) : <<write[w].account, Order(w)[i]>> \in Resources
    BY <1>0, <1>4, NextInvalidation, BusyWriter DEF InvalidateNext
  <2>2. /\ \A j \in Resources : /\ barrier[j] <= barrier'[j] /\ barrier'[j] <= upstream
                                /\ barrier'[j] \in Nat
        /\ barrier'[k] = upstream
    <3>1. barrier' \in [Resources -> Nat]
      BY <1>0, <1>4, <2>1, InvalidateType DEF InvalidateNext, IndInv
    <3>2. {k} \in SUBSET Resources /\ Invalidate({k})
      BY <1>4, <2>1 DEF InvalidateNext
    <3> HIDE DEF k
    <3>3. /\ \A j \in Resources : barrier[j] <= barrier'[j] /\ barrier'[j] <= upstream
          /\ barrier'[k] = upstream
      BY <1>0, <3>2, InvalidateBarriers
    <3> QED
      BY <3>1, <3>3
  <2>3. /\ \A v \in Writers : v # w => write'[v] = write[v]
        /\ write'[w].applied = write[w].applied /\ write'[w].done = n
        /\ write'[w].operation = write[w].operation /\ write'[w].account = write[w].account
        /\ write'[w].phase = "invalidating"
        /\ upstream' = upstream /\ acked' = acked
    BY <1>0, <1>4 DEF InvalidateNext, Write
  <2>4. AcksAreInvalidated'
    BY <1>0, <2>2, <2>3 DEF AcksAreInvalidated
  <2>5. WritesAreApplied'
    BY <1>0, <2>3 DEF WritesAreApplied
  <2>6. WritesInvalidate'
    <3> SUFFICES ASSUME NEW v \in Writers
                 PROVE  /\ write'[v].phase = "calling" => write'[v].done = 0
                        /\ write'[v].phase = "invalidating" =>
                             /\ write'[v].applied # None
                             /\ write'[v].done <= Len(Order(v)')
                             /\ \A i \in 1..write'[v].done : write'[v].applied
                                  <= barrier'[<<write'[v].account, Order(v)'[i]>>]
      BY DEF WritesInvalidate
    <3>1. CASE v = w
      <4>1. /\ write[w].applied # None /\ write[w].applied \in Nat /\ write[w].applied <= upstream
            /\ \A i \in 1..write[w].done :
                 write[w].applied <= barrier[<<write[w].account, Order(w)[i]>>]
        BY <1>0, <2>1 DEF WritesInvalidate, WritesAreApplied, Write, Optional
      <4>2. ASSUME NEW i \in 1..n
            PROVE  write[w].applied <= barrier'[<<write[w].account, Order(w)[i]>>]
        <5> DEFINE j == <<write[w].account, Order(w)[i]>>
        <5>1. CASE i = n
          BY <2>2, <4>1, <5>1
        <5>2. CASE i # n
          <6>1. i \in 1..write[w].done /\ i \in 1..Len(Order(w))
            BY <2>1, <4>2, <5>2
          <6>2. j \in Resources /\ write[w].applied <= barrier[j]
            BY <2>1, <4>1, <6>1
          <6>3. barrier[j] <= barrier'[j] /\ barrier[j] \in Nat /\ barrier'[j] \in Nat
            BY <1>0, <2>2, <6>2
          <6> HIDE DEF j
          <6>4. write[w].applied <= barrier'[j]
            BY <4>1, <6>2, <6>3
          <6> QED
            BY <6>4 DEF j
        <5> QED
          BY <5>1, <5>2
      <4>3. Order(w)' = Order(w)
        BY <2>3 DEF Order
      <4> QED
        BY <2>1, <2>3, <3>1, <4>1, <4>2, <4>3
    <3>2. CASE v # w
      <4>1. write'[v] = write[v] /\ Order(v)' = Order(v)
        BY <2>3, <3>2 DEF Order
      <4>2. ASSUME write[v].phase = "invalidating", NEW i \in 1..write[v].done
            PROVE  write[v].applied <= barrier'[<<write[v].account, Order(v)[i]>>]
        <5> DEFINE j == <<write[v].account, Order(v)[i]>>
        <5>1. j \in Resources /\ write[v].applied <= barrier[j] /\ write[v].applied \in Nat
          BY <1>0, <4>2, BusyWriter DEF WritesInvalidate, Optional
        <5>2. barrier[j] <= barrier'[j] /\ barrier[j] \in Nat /\ barrier'[j] \in Nat
          BY <1>0, <2>2, <5>1
        <5> HIDE DEF j
        <5>3. write[v].applied <= barrier'[j]
          BY <5>1, <5>2
        <5> QED
          BY <5>3 DEF j
      <4> QED
        BY <1>0, <4>1, <4>2 DEF WritesInvalidate
    <3> QED
      BY <3>1, <3>2
  <2> QED
    BY <2>4, <2>5, <2>6 DEF AcksFollowBarriers
<1>5. CASE AcknowledgeWrite(w)
  <2>1. /\ write[w].applied \in Nat /\ write[w].phase = "invalidating"
        /\ \A k \in Mutated(w) : write[w].applied <= barrier[k]
    BY <1>0, <1>5, BusyWriter DEF AcknowledgeWrite, WritesInvalidate, Optional, Mutated
  <2>2. AcksAreInvalidated'
    BY <1>0, <1>5, <2>1 DEF AcknowledgeWrite, AcksAreInvalidated
  <2>3. \A v \in Writers : write'[v] = write[v] \/ (v = w /\ write'[v] = IdleWrite)
    BY <1>0, <1>5 DEF AcknowledgeWrite
  <2>4. WritesAreApplied' /\ WritesInvalidate'
    BY <1>0, <1>5, <2>3, IdleLemma DEF AcknowledgeWrite, WritesAreApplied, WritesInvalidate, Order
  <2> QED
    BY <2>2, <2>4 DEF AcksFollowBarriers
<1>6. CASE AbandonWrite(w)
  <2>1. /\ \A v \in Writers : v # w => write'[v] = write[v]
        /\ write'[w].phase = "idle" /\ write'[w].applied = None
    BY <1>0, <1>6, IdleLemma DEF AbandonWrite
  <2> QED
    BY <1>0, <1>1, <1>6, <2>1 DEF AbandonWrite
<1>7. ASSUME NEW a \in Accounts, NEW op \in Operations, StartWrite(w, a, op)
      PROVE  AcksFollowBarriers'
  <2>1. /\ \A v \in Writers : v # w => write'[v] = write[v]
        /\ write'[w].phase = "calling" /\ write'[w].applied = None /\ write'[w].done = 0
    BY <1>0, <1>7 DEF StartWrite
  <2> QED
    BY <1>0, <1>1, <1>7, <2>1 DEF StartWrite
<1> QED
  BY <1>2, <1>3, <1>4, <1>5, <1>6, <1>7 DEF WriteStep

LEMMA AcksStep ==
  ASSUME IndInv, [Next]_vars
  PROVE  AcksFollowBarriers'
<1>0. /\ TypeOK /\ AcksFollowBarriers /\ AcksAreInvalidated /\ upstream \in Nat
      /\ barrier \in [Resources -> Nat]
  BY DEF IndInv, TypeOK, AcksFollowBarriers
<1>1. ASSUME UNCHANGED <<write, upstream, acked, barrier>>
      PROVE  AcksFollowBarriers'
  BY <1>0, <1>1, AcksFrame DEF AcksAreInvalidated
<1>2. ASSUME NEW r \in Requests,
             ReadStep(r) \/ CancelRead(r) \/ \E k \in Resources : Call(r, k)
      PROVE  AcksFollowBarriers'
  BY <1>1, <1>2 DEF ReadStep, HitCache, JoinFetch, LeadFetch, FetchReturns, CompleteFetch,
     CleanUp, Return, CancelRead, Call
<1>3. ASSUME NEW a \in Accounts, InvalidateAccount(a)
      PROVE  AcksFollowBarriers'
  <2>1. {a} \X Kinds \subseteq Resources
    BY DEF Resources
  <2>2. barrier' \in [Resources -> Nat]
    BY <1>0, <1>3, <2>1, InvalidateType DEF InvalidateAccount, IndInv
  <2> QED
    BY <1>0, <1>3, <2>1, <2>2, InvalidateBarriers, AcksFrame DEF InvalidateAccount
<1>4. CASE ChangeElsewhere
  BY <1>0, <1>4, AcksFrame DEF ChangeElsewhere, AcksAreInvalidated
<1>5. CASE (\E k \in Resources : Expire(k)) \/ UNCHANGED vars
  BY <1>1, <1>5 DEF Expire, vars
<1> QED
  BY <1>2, <1>3, <1>4, <1>5, WriterSteps DEF Next

-----------------------------------------------------------------------------
(* Values                                                                   *)

\* A step that produces no value: the cached values that stay are after their
\* barriers, and so are the values the readers hold.
LEMMA ValuesFrame ==
  ASSUME TypeOK, ValuesFollowBarriers, TypeOK', upstream <= upstream',
         \A k \in Resources : acked[k] <= acked'[k],
         \A k \in Resources : entries'[k].cached # None =>
           entries'[k].cached = entries[k].cached /\ barrier'[k] = barrier[k],
         \A k \in Resources : entries'[k].generation = entries[k].generation =>
           barrier'[k] = barrier[k],
         \A k \in Resources : entries[k].generation <= entries'[k].generation,
         LeadersOwnFlights,
         \A q \in Requests : \/ request'[q] = request[q]
                             \/ /\ request'[q].phase \notin {"fetched", "answered"}
                                /\ request[q].phase # "idle"
                                /\ request'[q].resource = request[q].resource
                                /\ request'[q].floor = request[q].floor
                             \/ /\ request'[q].phase = "answered" /\ request'[q].value = None
                                /\ request[q].phase # "idle"
                                /\ request'[q].resource = request[q].resource
                                /\ request'[q].floor = request[q].floor
                             \/ request'[q].phase = "idle"
  PROVE  ValuesFollowBarriers'
<1>0. /\ CachedIsAfterBarrier /\ FloorsAreAcked /\ FetchedIsAfterBarrier /\ AnswersAreCurrent
      /\ upstream \in Nat /\ upstream' \in Nat
      /\ barrier \in [Resources -> Nat] /\ barrier' \in [Resources -> Nat]
      /\ acked \in [Resources -> Nat] /\ acked' \in [Resources -> Nat]
      /\ \A k \in Resources : /\ entries[k].cached \in Optional(Nat)
                              /\ entries[k].generation \in Nat
                              /\ entries'[k].generation \in Nat
      /\ \A q \in Requests : /\ request[q].value \in Optional(Nat)
                             /\ request[q].floor \in Nat
                             /\ request[q].generation \in Nat
                             /\ request[q].phase # "idle" => request[q].resource \in Resources
  BY DEF ValuesFollowBarriers, TypeOK, Entry, Request
<1>1. CachedIsAfterBarrier'
  BY <1>0 DEF CachedIsAfterBarrier, Optional
<1>2. FloorsAreAcked'
  BY <1>0 DEF FloorsAreAcked
<1>3. FetchedIsAfterBarrier'
  <2> SUFFICES ASSUME NEW q \in Requests, request'[q].phase = "fetched", request'[q].value # None
               PROVE  /\ request'[q].floor <= request'[q].value /\ request'[q].value <= upstream'
                      /\ request'[q].generation = entries'[request'[q].resource].generation
                           => barrier'[request'[q].resource] <= request'[q].value
    BY DEF FetchedIsAfterBarrier, Entered
  <2>1. request'[q] = request[q]
    OBVIOUS
  <2> DEFINE k == request[q].resource
  <2>2. /\ k \in Resources /\ request[q].value \in Nat
        /\ request[q].floor <= request[q].value /\ request[q].value <= upstream
        /\ request[q].generation = entries[k].generation => barrier[k] <= request[q].value
        /\ request[q].generation <= entries[k].generation
    BY <1>0, <2>1 DEF FetchedIsAfterBarrier, Optional, Entered, LeadersOwnFlights, Live
  <2> HIDE DEF k
  <2>3. request[q].generation = entries'[k].generation => entries'[k].generation = entries[k].generation
    <3>1. /\ request[q].generation \in Nat /\ entries[k].generation \in Nat
          /\ entries'[k].generation \in Nat
          /\ entries[k].generation <= entries'[k].generation
      BY <1>0, <2>2
    <3> QED
      BY <2>2, <3>1
  <2>4. request[q].generation = entries'[k].generation => barrier'[k] <= request[q].value
    BY <2>2, <2>3
  <2> QED
    BY <1>0, <2>1, <2>2, <2>4 DEF k
<1>4. AnswersAreCurrent'
  BY <1>0 DEF AnswersAreCurrent, Optional
<1> QED
  BY <1>1, <1>2, <1>3, <1>4 DEF ValuesFollowBarriers

LEMMA InvalidateValues ==
  ASSUME IndInv, TypeOK', NEW S \in SUBSET Resources, Invalidate(S), UNCHANGED <<upstream, acked>>
  PROVE  ValuesFollowBarriers'
<1> DEFINE W == {q \in Requests : \E k \in S : q \in entries[k].waiters}
<1>1. /\ TypeOK /\ ValuesFollowBarriers /\ LeadersOwnFlights
      /\ upstream \in Nat /\ acked \in [Resources -> Nat]
      /\ \A k \in Resources : entries[k].generation \in Nat /\ entries[k] \in Entry
  BY DEF IndInv, FlightsHaveLeaders, TypeOK, Entry
<1>2. /\ \A k \in S : entries'[k].cached = None
                      /\ entries'[k].generation = entries[k].generation + 1
      /\ \A k \in Resources \ S : entries'[k] = entries[k] /\ barrier'[k] = barrier[k]
  BY <1>1, InvalidatedLemma DEF Invalidate
<1>3. \A q \in W : request[q].phase = "waiting"
  BY WaitersWait DEF IndInv
<1>4. /\ \A q \in Requests \ W : request'[q] = request[q]
      /\ \A q \in W : /\ request'[q].phase = "answered" /\ request'[q].value = None
                      /\ request'[q].resource = request[q].resource
                      /\ request'[q].floor = request[q].floor
  <2>1. W \in SUBSET Requests /\ None \in Optional(Nat) /\ request' = AnswerAll(W, None)
    BY DEF Invalidate, Optional
  <2> HIDE DEF W
  <2> QED
    BY <1>1, <2>1, AnswerAllLemma, ZenonT(40)
<1> HIDE DEF W
<1>5. \A k \in Resources : /\ entries[k].generation <= entries'[k].generation
                           /\ entries'[k].generation = entries[k].generation => k \notin S
  BY <1>1, <1>2
<1> QED
  BY <1>1, <1>2, <1>3, <1>4, <1>5, ValuesFrame

\* A leader's value is good for whoever its flight answers, and for the cache.
LEMMA FlightEndsValues ==
  ASSUME IndInv, TypeOK', NEW r \in Requests, NEW value \in Optional(Nat), Live(r),
         value = None \/ (request[r].phase = "fetched" /\ value = request[r].value),
         FlightEnds(r, value), UNCHANGED <<upstream, acked, barrier>>
  PROVE  ValuesFollowBarriers'
<1> DEFINE home == request[r].resource
<1>0. /\ TypeOK /\ CachedIsAfterBarrier /\ FloorsAreAcked /\ FetchedIsAfterBarrier
      /\ AnswersAreCurrent /\ AcksAreInvalidated
      /\ upstream \in Nat
      /\ barrier \in [Resources -> Nat] /\ acked \in [Resources -> Nat]
      /\ \A q \in Requests : /\ request[q].floor \in Nat
                             /\ request[q].phase # "idle" => request[q].resource \in Resources
  BY DEF IndInv, ValuesFollowBarriers, AcksFollowBarriers, TypeOK, Request
<1>1. /\ home \in Resources /\ Entered(r) \in Entry /\ Entered(r) = entries[home]
      /\ request[r].generation \in Nat /\ request[r].generation = entries[home].generation
      /\ \A k \in Resources : entries'[k].generation = entries[k].generation
      /\ \A k \in Resources : k # home => entries'[k] = entries[k]
  BY <1>0, FlightEndsFacts, BusyReader DEF Live
<1>2. value # None => /\ value \in Nat /\ request[r].floor <= value /\ value <= upstream
                      /\ barrier[home] <= value
  BY <1>0, <1>1 DEF FetchedIsAfterBarrier, Optional, Entered
<1>3. \A q \in Requests :
        \/ request'[q] = request[q]
        \/ request'[q].phase = "idle"
        \/ /\ request'[q].phase = "answered" /\ request'[q].value = value
           /\ request'[q].floor = request[q].floor
           /\ request'[q].resource = request[q].resource /\ request[q].resource = home
           /\ request[q].phase # "idle"
  <2>1. \A q \in Entered(r).waiters : /\ q \in Requests
                                      /\ request[q].phase = "waiting" /\ request[q].resource = home
    BY <1>1, WaitersWait DEF IndInv
  <2>2. \A q \in Requests : /\ Answered(q, value).phase = "answered"
                            /\ Answered(q, value).value = value
                            /\ Answered(q, value).floor = request[q].floor
                            /\ Answered(q, value).resource = request[q].resource
    BY <1>0, AnsweredLemma
  <2> QED
    BY <2>1, <2>2, IdleLemma DEF FlightEnds, Live
<1>4. \A k \in Resources : \/ entries'[k].cached = entries[k].cached
                           \/ k = home /\ entries'[k].cached = value /\ value # None
  <2>1. entries'[home] = Landed(Entered(r), request[r].generation, value)
    BY DEF FlightEnds
  <2>2. entries'[home].cached = entries[home].cached
        \/ (entries'[home].cached = value /\ value # None)
    BY <1>1, <2>1, LandedLemma
  <2> QED
    BY <1>1, <2>2
<1> HIDE DEF home
<1>5. CachedIsAfterBarrier'
  BY <1>0, <1>2, <1>4 DEF CachedIsAfterBarrier
<1>6. FloorsAreAcked'
  BY <1>0, <1>3 DEF FloorsAreAcked
<1>7. FetchedIsAfterBarrier'
  BY <1>0, <1>1, <1>3 DEF FetchedIsAfterBarrier, Entered
<1>8. AnswersAreCurrent'
  <2> SUFFICES ASSUME NEW q \in Requests, request'[q].phase = "answered", request'[q].value # None
               PROVE  request'[q].floor <= request'[q].value /\ request'[q].value <= upstream
    BY DEF AnswersAreCurrent
  <2>1. CASE request'[q] = request[q]
    BY <1>0, <2>1 DEF AnswersAreCurrent
  <2>2. CASE /\ request'[q].value = value /\ request'[q].floor = request[q].floor
             /\ request[q].resource = home /\ request[q].phase # "idle"
    <3>1. request[q].floor <= acked[home] /\ acked[home] <= barrier[home]
      BY <1>0, <2>2 DEF FloorsAreAcked, AcksAreInvalidated
    <3>2. home \in Resources /\ acked[home] \in Nat /\ barrier[home] \in Nat /\ value \in Nat
      BY <1>0, <1>1, <1>2, <2>2
    <3> QED
      BY <1>0, <1>2, <2>2, <3>1, <3>2
  <2> QED
    BY <1>3, <2>1, <2>2
<1> QED
  BY <1>5, <1>6, <1>7, <1>8 DEF ValuesFollowBarriers

LEMMA LeaderLeavesValues ==
  ASSUME IndInv, TypeOK', NEW r \in Requests, Live(r),
         request[r].phase = "fetched" \/ request'[r] = IdleRequest,
         LeaderLeaves(r), UNCHANGED <<upstream, acked, barrier>>
  PROVE  ValuesFollowBarriers'
<1>0. /\ TypeOK /\ CachedIsAfterBarrier /\ FloorsAreAcked /\ FetchedIsAfterBarrier
      /\ AnswersAreCurrent
  BY DEF IndInv, ValuesFollowBarriers
<1>1. /\ entries' = entries
      /\ \A q \in Requests : q # r => request'[q] = request[q]
      /\ \/ request'[r].phase = "idle"
         \/ /\ request'[r].phase = "answered" /\ request'[r].value = request[r].value
            /\ request'[r].floor = request[r].floor
            /\ request'[r].resource = request[r].resource
            /\ request[r].phase = "fetched"
  <2>1. request[r].value \in Optional(Nat)
    BY <1>0 DEF TypeOK, Request
  <2>2. IdleRequest.phase = "idle"
    BY IdleLemma
  <2>3. /\ Answered(r, request[r].value).phase = "answered"
        /\ Answered(r, request[r].value).value = request[r].value
        /\ Answered(r, request[r].value).floor = request[r].floor
        /\ Answered(r, request[r].value).resource = request[r].resource
    BY <1>0, <2>1, AnsweredLemma
  <2> QED
    BY <2>2, <2>3 DEF LeaderLeaves
<1>2. CachedIsAfterBarrier'
  BY <1>0, <1>1 DEF CachedIsAfterBarrier
<1>3. FloorsAreAcked'
  BY <1>0, <1>1 DEF FloorsAreAcked
<1>4. FetchedIsAfterBarrier'
  BY <1>0, <1>1 DEF FetchedIsAfterBarrier, Entered
<1>5. AnswersAreCurrent'
  BY <1>0, <1>1 DEF AnswersAreCurrent, FetchedIsAfterBarrier
<1> QED
  BY <1>2, <1>3, <1>4, <1>5 DEF ValuesFollowBarriers

LEMMA ValuesStep ==
  ASSUME IndInv, TypeOK', [Next]_vars
  PROVE  ValuesFollowBarriers'
<1>0. /\ TypeOK /\ ValuesFollowBarriers /\ LeadersOwnFlights /\ AcksAreInvalidated
      /\ CachedIsAfterBarrier /\ FloorsAreAcked /\ FetchedIsAfterBarrier /\ AnswersAreCurrent
      /\ upstream \in Nat /\ acked \in [Resources -> Nat] /\ barrier \in [Resources -> Nat]
      /\ entries \in [Resources -> Entry] /\ request \in [Requests -> Request]
      /\ \A k \in Resources : entries[k].generation \in Nat
  BY DEF IndInv, FlightsHaveLeaders, AcksFollowBarriers, ValuesFollowBarriers, TypeOK, Entry
\* A step that leaves values, generations and barriers alone.
<1>1. ASSUME upstream' \in Nat, upstream <= upstream',
             \A k \in Resources : acked[k] <= acked'[k],
             UNCHANGED barrier,
             \A k \in Resources : /\ entries'[k].cached = entries[k].cached
                                  /\ entries'[k].generation = entries[k].generation,
             \A q \in Requests : \/ request'[q] = request[q]
                                 \/ /\ request'[q].phase \notin {"fetched", "answered"}
                                    /\ request[q].phase # "idle"
                                    /\ request'[q].resource = request[q].resource
                                    /\ request'[q].floor = request[q].floor
                                 \/ request'[q].phase = "idle"
      PROVE  ValuesFollowBarriers'
  <2>1. \A k \in Resources : entries[k].generation <= entries'[k].generation
    BY <1>0, <1>1
  <2> QED
    BY <1>0, <1>1, <2>1, ValuesFrame
<1>2. ASSUME upstream' \in Nat, upstream <= upstream',
             \A k \in Resources : acked[k] <= acked'[k],
             UNCHANGED <<entries, request, barrier>>
      PROVE  ValuesFollowBarriers'
  BY <1>1, <1>2
<1>3. ASSUME NEW r \in Requests, NEW k \in Resources, Call(r, k)
      PROVE  ValuesFollowBarriers'
  <2>1. /\ \A q \in Requests : q # r => request'[q] = request[q]
        /\ request'[r].phase = "entering" /\ request'[r].resource = k
        /\ request'[r].floor = acked[k]
        /\ UNCHANGED <<entries, upstream, acked, barrier>>
    BY <1>0, <1>3 DEF Call, IdleRequest
  <2>2. CachedIsAfterBarrier'
    BY <1>0, <2>1 DEF CachedIsAfterBarrier
  <2>3. FloorsAreAcked'
    BY <1>0, <2>1 DEF FloorsAreAcked
  <2>4. FetchedIsAfterBarrier'
    BY <1>0, <2>1 DEF FetchedIsAfterBarrier, Entered
  <2>5. AnswersAreCurrent'
    BY <1>0, <2>1 DEF AnswersAreCurrent
  <2> QED
    BY <2>2, <2>3, <2>4, <2>5 DEF ValuesFollowBarriers
<1>4. ASSUME NEW r \in Requests, HitCache(r)
      PROVE  ValuesFollowBarriers'
  <2> DEFINE k == request[r].resource
  <2>1. /\ k \in Resources /\ request[r].phase = "entering" /\ request[r].floor \in Nat
        /\ entries[k].cached \in Nat /\ Entered(r) = entries[k]
    BY <1>0, <1>4, BusyReader DEF HitCache, Optional
  <2>2. /\ \A q \in Requests : q # r => request'[q] = request[q]
        /\ request'[r].phase = "answered" /\ request'[r].resource = k
        /\ request'[r].floor = request[r].floor /\ request'[r].value = entries[k].cached
        /\ UNCHANGED <<entries, upstream, acked, barrier>>
    <3>1. /\ Answered(r, Entered(r).cached).phase = "answered"
          /\ Answered(r, Entered(r).cached).value = Entered(r).cached
          /\ Answered(r, Entered(r).cached).floor = request[r].floor
          /\ Answered(r, Entered(r).cached).resource = request[r].resource
      BY <1>0, <2>1, AnsweredLemma DEF Optional
    <3> QED
      BY <1>0, <1>4, <2>1, <3>1 DEF HitCache
  \* floor <= acked <= barrier <= cached <= upstream
  <2>3. /\ request[r].floor <= acked[k] /\ acked[k] <= barrier[k]
        /\ barrier[k] <= entries[k].cached /\ entries[k].cached <= upstream
    BY <1>0, <2>1, NoneIsNoRevision DEF FloorsAreAcked, AcksAreInvalidated, CachedIsAfterBarrier
  <2>4. request[r].floor <= entries[k].cached
    <3>1. acked[k] \in Nat /\ barrier[k] \in Nat
      BY <1>0, <2>1
    <3> QED
      BY <2>1, <2>3, <3>1
  <2> HIDE DEF k
  <2>5. CachedIsAfterBarrier'
    BY <1>0, <2>2 DEF CachedIsAfterBarrier
  <2>6. FloorsAreAcked'
    BY <1>0, <2>2, <2>3 DEF FloorsAreAcked
  <2>7. FetchedIsAfterBarrier'
    BY <1>0, <2>2 DEF FetchedIsAfterBarrier, Entered
  <2>8. AnswersAreCurrent'
    BY <1>0, <2>2, <2>3, <2>4 DEF AnswersAreCurrent
  <2> QED
    BY <2>5, <2>6, <2>7, <2>8 DEF ValuesFollowBarriers
<1>5. ASSUME NEW r \in Requests, NEW force \in BOOLEAN,
             JoinFetch(r, force) \/ LeadFetch(r, force)
      PROVE  ValuesFollowBarriers'
  <2>1. request[r].phase = "entering" /\ request[r].resource \in Resources
    BY <1>0, <1>5, BusyReader DEF JoinFetch, LeadFetch, MissesCache
  <2>2. \A k \in Resources : /\ entries'[k].cached = entries[k].cached
                             /\ entries'[k].generation = entries[k].generation
    BY <1>0, <1>5, <2>1 DEF JoinFetch, LeadFetch, Entry
  <2>3. /\ \A q \in Requests : q # r => request'[q] = request[q]
        /\ request'[r].phase \in {"waiting", "fetching"}
        /\ request'[r].resource = request[r].resource /\ request'[r].floor = request[r].floor
    BY <1>0, <1>5 DEF JoinFetch, LeadFetch, Request
  <2>4. UNCHANGED <<upstream, acked, barrier>>
    BY <1>5 DEF JoinFetch, LeadFetch
  <2> QED
    BY <1>0, <1>1, <2>1, <2>2, <2>3, <2>4
<1>6. ASSUME NEW r \in Requests, NEW value \in {upstream, None}, FetchReturns(r, value)
      PROVE  ValuesFollowBarriers'
  <2> DEFINE k == request[r].resource
  <2>1. k \in Resources /\ request[r].floor \in Nat /\ request[r].phase = "fetching"
    BY <1>0, <1>6, BusyReader DEF FetchReturns
  <2>2. /\ \A q \in Requests : q # r => request'[q] = request[q]
        /\ request'[r].phase = "fetched" /\ request'[r].resource = k
        /\ request'[r].floor = request[r].floor /\ request'[r].value = value
        /\ UNCHANGED <<entries, upstream, acked, barrier>>
    BY <1>0, <1>6 DEF FetchReturns, Request
  <2>3. /\ request[r].floor <= acked[k] /\ acked[k] <= barrier[k] /\ barrier[k] <= upstream
    BY <1>0, <2>1 DEF FloorsAreAcked, AcksAreInvalidated
  <2>4. request[r].floor <= upstream
    <3>1. acked[k] \in Nat /\ barrier[k] \in Nat
      BY <1>0, <2>1
    <3> QED
      BY <1>0, <2>1, <2>3, <3>1
  <2> HIDE DEF k
  <2>5. CachedIsAfterBarrier'
    BY <1>0, <2>2 DEF CachedIsAfterBarrier
  <2>6. FloorsAreAcked'
    BY <1>0, <2>2, <2>3 DEF FloorsAreAcked
  <2>7. FetchedIsAfterBarrier'
    BY <1>0, <2>2, <2>3, <2>4 DEF FetchedIsAfterBarrier, Entered
  <2>8. AnswersAreCurrent'
    BY <1>0, <2>2 DEF AnswersAreCurrent
  <2> QED
    BY <2>5, <2>6, <2>7, <2>8 DEF ValuesFollowBarriers
<1>7. ASSUME NEW r \in Requests, CompleteFetch(r)
      PROVE  ValuesFollowBarriers'
  <2>1. Live(r) /\ request[r].value \in Optional(Nat) /\ request[r].phase = "fetched"
    BY <1>0, <1>7, BusyReader DEF CompleteFetch, Live
  <2>2. FlightEnds(r, request[r].value) \/ LeaderLeaves(r)
    BY <1>0, <1>7, CompleteFetchEnds DEF IndInv
  <2>3. UNCHANGED <<upstream, acked, barrier>>
    BY <1>7 DEF CompleteFetch
  <2> QED
    BY <2>1, <2>2, <2>3, FlightEndsValues, LeaderLeavesValues
<1>8. ASSUME NEW r \in Requests, CleanUp(r)
      PROVE  ValuesFollowBarriers'
  <2>1. Live(r) /\ None \in Optional(Nat)
    BY <1>8 DEF CleanUp, Live, Optional
  <2>2. FlightEnds(r, None) \/ LeaderLeaves(r)
    BY <1>0, <1>8, CleanUpEnds DEF IndInv
  <2>3. UNCHANGED <<upstream, acked, barrier>> /\ request'[r] = IdleRequest
    BY <1>0, <1>8, AnswerAllLemma DEF CleanUp, AnswerAll
  <2> QED
    BY <2>1, <2>2, <2>3, FlightEndsValues, LeaderLeavesValues
<1>9. ASSUME NEW r \in Requests, Return(r)
      PROVE  ValuesFollowBarriers'
  <2>1. /\ \A q \in Requests : q # r => request'[q] = request[q]
        /\ request'[r].phase = "idle"
        /\ UNCHANGED <<entries, upstream, acked, barrier>>
    BY <1>0, <1>9, IdleLemma DEF Return
  <2> QED
    BY <1>0, <1>1, <2>1
<1>10. ASSUME NEW r \in Requests, CancelRead(r)
       PROVE  ValuesFollowBarriers'
  <2>1. request[r].resource \in Resources /\ request[r].phase # "idle"
    BY <1>0, <1>10, BusyReader DEF CancelRead
  <2>2. /\ \A k \in Resources : /\ entries'[k].cached = entries[k].cached
                                /\ entries'[k].generation = entries[k].generation
        /\ UNCHANGED <<upstream, acked, barrier>>
    BY <1>0, <1>10, <2>1 DEF CancelRead, Entry
  <2>3. /\ \A q \in Requests : q # r => request'[q] = request[q]
        /\ \/ request'[r].phase = "idle"
           \/ /\ request'[r].phase = "cancelling" /\ request'[r].floor = request[r].floor
              /\ request'[r].resource = request[r].resource
    BY <1>0, <1>10, IdleLemma DEF CancelRead, Request
  <2> QED
    BY <1>0, <1>1, <2>1, <2>2, <2>3
<1>11. ASSUME NEW k \in Resources, Expire(k)
       PROVE  ValuesFollowBarriers'
  <2>1. /\ \A j \in Resources : /\ entries'[j].cached = entries[j].cached
                                /\ entries'[j].generation = entries[j].generation
        /\ UNCHANGED <<request, upstream, acked, barrier>>
    BY <1>0, <1>11 DEF Expire, Entry
  <2> QED
    BY <1>0, <1>1, <2>1
<1>12. ASSUME NEW a \in Accounts, InvalidateAccount(a)
       PROVE  ValuesFollowBarriers'
  <2>1. {a} \X Kinds \in SUBSET Resources
    BY DEF Resources
  <2> QED
    BY <1>12, <2>1, InvalidateValues DEF InvalidateAccount
<1>13. ASSUME NEW w \in Writers, InvalidateNext(w)
       PROVE  ValuesFollowBarriers'
  BY <1>0, <1>13, NextInvalidation, InvalidateValues DEF InvalidateNext
<1>14. ASSUME NEW w \in Writers, AcknowledgeWrite(w)
       PROVE  ValuesFollowBarriers'
  <2>1. write[w].applied \in Nat
    BY <1>0, <1>14, BusyWriter
       DEF AcknowledgeWrite, IndInv, AcksFollowBarriers, WritesInvalidate, Optional
  <2>2. \A k \in Resources : acked[k] <= acked'[k]
    BY <1>0, <1>14, <2>1 DEF AcknowledgeWrite
  <2> QED
    BY <1>0, <1>2, <1>14, <2>2 DEF AcknowledgeWrite
<1>15. ASSUME NEW w \in Writers,
              \/ ApplyWrite(w) \/ WriteSucceeds(w) \/ AbandonWrite(w)
              \/ \E a \in Accounts, op \in Operations : StartWrite(w, a, op)
       PROVE  ValuesFollowBarriers'
  BY <1>0, <1>2, <1>15 DEF ApplyWrite, WriteSucceeds, AbandonWrite, StartWrite
<1>16. CASE ChangeElsewhere \/ UNCHANGED vars
  BY <1>0, <1>2, <1>16 DEF ChangeElsewhere, vars
<1> QED
  BY <1>3, <1>4, <1>5, <1>6, <1>7, <1>8, <1>9, <1>10, <1>11, <1>12, <1>13, <1>14, <1>15, <1>16
     DEF Next, ReadStep, WriteStep

-----------------------------------------------------------------------------
(* The theorems                                                             *)

\* IndInv is an invariant of the coordinator.
THEOREM Invariance == Spec => []IndInv
<1>1. Init => IndInv
  BY TypeInit, StructureInit, OrderInit DEF IndInv
<1>2. IndInv /\ [Next]_vars => IndInv'
  <2> SUFFICES ASSUME IndInv, [Next]_vars PROVE IndInv'
    OBVIOUS
  <2>1. TypeOK'
    BY TypeStep DEF IndInv
  <2>2. FlightsHaveLeaders' /\ WaitersMatch' /\ AcksFollowBarriers'
    BY StructureStep, AcksStep
  <2>3. ValuesFollowBarriers'
    BY <2>1, ValuesStep
  <2> QED
    BY <2>1, <2>2, <2>3 DEF IndInv
<1> QED
  BY <1>1, <1>2, PTL DEF Spec

\* Every state of the coordinator is well typed.
THEOREM TypeCorrect == Spec => []TypeOK
<1>1. IndInv => TypeOK
  BY DEF IndInv
<1> QED
  BY <1>1, Invariance, PTL

\* A read never shows the state before a mutation acknowledged before the read began.
THEOREM ReadYourWrites == Spec => []AnswersAreCurrent
<1>1. IndInv => AnswersAreCurrent
  BY DEF IndInv, ValuesFollowBarriers
<1> QED
  BY <1>1, Invariance, PTL

\* No fetch begun before an invalidation lands in the cache after it.
THEOREM NoStaleLanding == Spec => []CacheIsCurrent
<1>1. IndInv => CacheIsCurrent
  <2> SUFFICES ASSUME IndInv, NEW k \in Resources, entries[k].cached # None
               PROVE  /\ acked[k] <= entries[k].cached
                      /\ \A w \in Writers : write[w].phase = "invalidating" =>
                           \A i \in 1..write[w].done :
                             k = <<write[w].account, Order(w)[i]>>
                               => write[w].applied <= entries[k].cached
    BY DEF CacheIsCurrent
  <2>1. /\ acked[k] <= barrier[k] /\ barrier[k] <= entries[k].cached
        /\ acked[k] \in Nat /\ barrier[k] \in Nat /\ entries[k].cached \in Nat
    BY DEF IndInv, TypeOK, Entry, Optional, AcksFollowBarriers, AcksAreInvalidated,
       ValuesFollowBarriers, CachedIsAfterBarrier
  <2>2. ASSUME NEW w \in Writers, write[w].phase = "invalidating", NEW i \in 1..write[w].done,
               k = <<write[w].account, Order(w)[i]>>
        PROVE  write[w].applied <= entries[k].cached
    <3>1. write[w].applied \in Nat /\ write[w].applied <= barrier[k]
      BY <2>2, BusyWriter DEF IndInv, AcksFollowBarriers, WritesInvalidate, Optional
    <3> QED
      BY <2>1, <3>1
  <2> QED
    BY <2>1, <2>2
<1> QED
  BY <1>1, Invariance, PTL

\* One generation of a resource has one leader.
THEOREM OneLeader == Spec => []SingleFlight
<1>1. IndInv => SingleFlight
  BY DEF IndInv, FlightsHaveLeaders
<1> QED
  BY <1>1, Invariance, PTL

\* Whoever waits is waited upon.
THEOREM NobodyStranded == Spec => []NoStrandedWaiter
<1>1. IndInv => NoStrandedWaiter
  <2> SUFFICES ASSUME IndInv, NEW r \in Requests, request[r].phase = "waiting"
               PROVE  /\ r \in Entered(r).waiters
                      /\ \E q \in Requests :
                           Live(q) /\ request[q].resource = request[r].resource /\ OwnsFlight(q)
    BY DEF NoStrandedWaiter
  <2>1. request[r].resource \in Resources
    BY DEF IndInv, TypeOK
  <2>2. r \in Entered(r).waiters
    BY <2>1 DEF IndInv, WaitersMatch, WaitersAreReaders, Entered
  <2>3. entries[request[r].resource].inFlight # None
    BY <2>1, <2>2 DEF IndInv, WaitersMatch, WaitersHaveFlight, Entered
  <2> QED
    BY <2>1, <2>2, <2>3 DEF IndInv, FlightsHaveLeaders, FlightsAreLed, OwnsFlight, Entered
<1> QED
  BY <1>1, Invariance, PTL

-----------------------------------------------------------------------------
(* The coordinator implements LiveRead                                      *)

\* The abstract read of a reader's record, and the readers a step leaves alone in it.
AbstractOf(q) ==
  IF q.phase \in {"idle", "cancelling"}
  THEN [phase |-> "idle", resource |-> None, floor |-> 0, value |-> None]
  ELSE IF q.phase = "answered"
  THEN [phase |-> "answered", resource |-> q.resource, floor |-> q.floor, value |-> q.value]
  ELSE [phase |-> "pending", resource |-> q.resource, floor |-> q.floor, value |-> None]

LEMMA AbstractCalls ==
  ASSUME NEW r \in Requests
  PROVE  AbstractCall(r) = AbstractOf(request[r]) /\ AbstractCall(r)' = AbstractOf(request'[r])
  BY DEF AbstractCall, AbstractOf

\* A step that shows no reader anything.
LEMMA UnseenStep ==
  ASSUME \A q \in Requests : AbstractOf(request'[q]) = AbstractOf(request[q]),
         UNCHANGED <<upstream, acked>>
  PROVE  UNCHANGED Read!lvars
<1>1. \A q \in Requests : AbstractCall(q)' = AbstractCall(q)
  BY AbstractCalls
<1> QED
  BY <1>1 DEF Read!lvars

\* A step that answers the readers of S alike, and shows nobody else anything.
LEMMA AnsweringStep ==
  ASSUME NEW S \in SUBSET Requests, NEW value \in Optional(Nat), upstream \in Nat,
         \A q \in S : Pending(q),
         value # None => /\ value <= upstream
                         /\ \A q \in S : request[q].floor <= value,
         \A q \in S : AbstractOf(request'[q]) =
           [phase |-> "answered", resource |-> request[q].resource,
            floor |-> request[q].floor, value |-> value],
         \A q \in Requests \ S : AbstractOf(request'[q]) = AbstractOf(request[q]),
         UNCHANGED <<upstream, acked>>
  PROVE  Read!Next
<1> DEFINE calls == [q \in Requests |-> AbstractCall(q)]
<1>1. \A q \in S : AbstractCall(q) = [phase |-> "pending", resource |-> request[q].resource,
                                      floor |-> request[q].floor, value |-> None]
  BY AbstractCalls DEF AbstractOf, Pending
<1>2. \A q \in S : calls[q].phase = "pending" /\ Read!Acceptable(q, value)
  BY <1>1 DEF Read!Acceptable, Optional
<1>3. \A q \in S : Read!Answered(q, value) = AbstractCall(q)'
  <2> SUFFICES ASSUME NEW q \in S PROVE Read!Answered(q, value) = AbstractCall(q)'
    OBVIOUS
  <2>1. Read!Answered(q, value) = [phase |-> "answered", resource |-> request[q].resource,
                                   floor |-> request[q].floor, value |-> value]
    BY <1>1 DEF Read!Answered
  <2> QED
    BY <2>1, AbstractCalls
<1>4. \A q \in Requests \ S : AbstractCall(q)' = AbstractCall(q)
  BY AbstractCalls
<1>5. [q \in Requests |-> AbstractCall(q)'] =
        [q \in Requests |-> IF q \in S THEN Read!Answered(q, value) ELSE calls[q]]
  BY <1>3, <1>4
<1>6. Read!Answer(S, value)
  BY <1>2, <1>5 DEF Read!Answer
<1>7. value \in 0..upstream \cup {None}
  BY DEF Optional
<1> QED
  BY <1>6, <1>7 DEF Read!Next

LEMMA AnsweringOne ==
  ASSUME NEW r \in Requests, NEW value \in Optional(Nat), upstream \in Nat, Pending(r),
         value # None => request[r].floor <= value /\ value <= upstream,
         AbstractOf(request'[r]) = [phase |-> "answered", resource |-> request[r].resource,
                                    floor |-> request[r].floor, value |-> value],
         \A q \in Requests : q # r => request'[q] = request[q],
         UNCHANGED <<upstream, acked>>
  PROVE  Read!Next
<1>1. /\ {r} \in SUBSET Requests /\ \A q \in {r} : Pending(q)
      /\ value # None => value <= upstream /\ \A q \in {r} : request[q].floor <= value
      /\ \A q \in {r} : AbstractOf(request'[q]) =
           [phase |-> "answered", resource |-> request[q].resource,
            floor |-> request[q].floor, value |-> value]
      /\ \A q \in Requests \ {r} : AbstractOf(request'[q]) = AbstractOf(request[q])
  OBVIOUS
<1> QED
  BY <1>1, AnsweringStep

\* A step that takes one reader out of its read.
LEMMA LeavingStep ==
  ASSUME NEW r \in Requests, request[r].phase \notin {"idle", "cancelling"},
         AbstractOf(request'[r]).phase = "idle",
         \A q \in Requests : q # r => AbstractOf(request'[q]) = AbstractOf(request[q]),
         UNCHANGED <<upstream, acked>>
  PROVE  Read!Next
<1> DEFINE calls == [q \in Requests |-> AbstractCall(q)]
<1>1. calls[r].phase # "idle"
  BY AbstractCalls DEF AbstractOf
<1>2. AbstractCall(r)' = Read!Idle
  BY AbstractCalls DEF AbstractOf, Read!Idle
<1>3. \A q \in Requests : q # r => AbstractCall(q)' = AbstractCall(q)
  BY AbstractCalls
<1>4. [q \in Requests |-> AbstractCall(q)'] = [calls EXCEPT ![r] = Read!Idle]
  BY <1>2, <1>3
<1>5. Read!Leave(r)
  BY <1>1, <1>4 DEF Read!Leave
<1> QED
  BY <1>5 DEF Read!Next

\* An invalidation turns its waiters away with an error.
LEMMA InvalidateRefines ==
  ASSUME IndInv, NEW S \in SUBSET Resources, Invalidate(S), UNCHANGED <<upstream, acked>>
  PROVE  Read!Next
<1> DEFINE told == {r \in Requests : \E k \in S : r \in entries[k].waiters}
<1>1. TypeOK /\ upstream \in Nat /\ None \in Optional(Nat)
  BY DEF IndInv, TypeOK, Optional
<1>2. \A q \in told : request[q].phase = "waiting"
  BY WaitersWait DEF IndInv
<1>3. request' = AnswerAll(told, None)
  BY DEF Invalidate
<1>4. /\ \A q \in Requests \ told : request'[q] = request[q]
      /\ \A q \in told : /\ request'[q].phase = "answered" /\ request'[q].value = None
                         /\ request'[q].resource = request[q].resource
                         /\ request'[q].floor = request[q].floor
  BY <1>1, <1>3, AnswerAllLemma
<1> HIDE DEF told
<1>5. told \in SUBSET Requests
  BY DEF told
<1>6. \A q \in told : AbstractOf(request'[q]) =
        [phase |-> "answered", resource |-> request[q].resource,
         floor |-> request[q].floor, value |-> None]
  BY <1>4 DEF AbstractOf
<1> QED
  BY <1>1, <1>2, <1>4, <1>5, <1>6, AnsweringStep DEF Pending

\* The end of a flight answers the leader, unless its future was dropped, and its waiters.
LEMMA FlightEndsRefines ==
  ASSUME IndInv, NEW r \in Requests, NEW value \in Optional(Nat), Live(r), FlightEnds(r, value),
         \/ request[r].phase = "fetched" /\ value = request[r].value /\ request'[r] = Answered(r, value)
         \/ request[r].phase = "cancelling" /\ value = None /\ request'[r] = IdleRequest,
         UNCHANGED <<upstream, acked>>
  PROVE  Read!Next
<1> DEFINE home == request[r].resource
           told == Entered(r).waiters \cup {q \in {r} : request[q].phase = "fetched"}
<1>1. /\ TypeOK /\ upstream \in Nat /\ home \in Resources /\ Entered(r) = entries[home]
      /\ barrier[home] \in Nat /\ acked[home] \in Nat
      /\ \A q \in Requests : request[q].floor \in Nat
      /\ request[r].generation = Entered(r).generation
  BY FlightEndsFacts, BusyReader DEF IndInv, TypeOK, Request, Live
<1>2. \A q \in Entered(r).waiters : /\ q \in Requests /\ request[q].phase = "waiting"
                                    /\ request[q].resource = home
  BY <1>1, WaitersWait DEF IndInv
<1>3. value # None => /\ value \in Nat /\ value <= upstream /\ request[r].floor <= value
                      /\ barrier[home] <= value
  BY <1>1 DEF IndInv, ValuesFollowBarriers, FetchedIsAfterBarrier, Optional
<1>4. \A q \in Entered(r).waiters : request[q].floor <= acked[home] /\ acked[home] <= barrier[home]
  BY <1>1, <1>2 DEF IndInv, ValuesFollowBarriers, FloorsAreAcked, AcksFollowBarriers, AcksAreInvalidated
<1>5. value # None => value <= upstream /\ \A q \in told : request[q].floor <= value
  BY <1>1, <1>2, <1>3, <1>4
<1>6. told \in SUBSET Requests /\ \A q \in told : Pending(q)
  BY <1>2 DEF Pending
<1>7. \A q \in Requests : /\ Answered(q, value).phase = "answered"
                          /\ Answered(q, value).value = value
                          /\ Answered(q, value).floor = request[q].floor
                          /\ Answered(q, value).resource = request[q].resource
  BY <1>1, AnsweredLemma
<1>8. \A q \in told : request'[q] = Answered(q, value)
  BY <1>2, IdleLemma DEF FlightEnds
<1>9. \A q \in told : AbstractOf(request'[q]) =
        [phase |-> "answered", resource |-> request[q].resource,
         floor |-> request[q].floor, value |-> value]
  BY <1>6, <1>7, <1>8 DEF AbstractOf
<1>10. \A q \in Requests \ told : AbstractOf(request'[q]) = AbstractOf(request[q])
  BY IdleLemma DEF FlightEnds, AbstractOf
<1> HIDE DEF told
<1> QED
  BY <1>1, <1>5, <1>6, <1>9, <1>10, AnsweringStep

\* Every step of a reader is a step of its abstract read, or none of anybody's.
LEMMA ReaderRefines ==
  ASSUME IndInv, NEW r \in Requests,
         ReadStep(r) \/ CancelRead(r) \/ \E k \in Resources : Call(r, k)
  PROVE  [Read!Next]_(Read!lvars)
<1>1. /\ TypeOK /\ request \in [Requests -> Request] /\ upstream \in Nat
      /\ None \in Optional(Nat)
  BY DEF IndInv, TypeOK, Optional
<1>2. \A k \in Resources : Call(r, k) => Read!Next
  <2> SUFFICES ASSUME NEW k \in Resources, Call(r, k) PROVE Read!Next
    OBVIOUS
  <2> DEFINE calls == [q \in Requests |-> AbstractCall(q)]
             new == [IdleRequest EXCEPT !.phase = "entering", !.resource = k, !.floor = acked[k]]
  <2>0. request[r].phase = "idle"
    BY DEF Call
  <2>1. calls[r].phase = "idle"
    BY <2>0, AbstractCalls DEF AbstractOf
  <2>2. request' = [request EXCEPT ![r] = new] /\ UNCHANGED <<upstream, acked>>
    BY DEF Call
  <2>3. AbstractOf(new) = [phase |-> "pending", resource |-> k, floor |-> acked[k], value |-> None]
    BY DEF AbstractOf, IdleRequest
  <2> HIDE DEF new
  <2>4. AbstractCall(r)' = [phase |-> "pending", resource |-> k, floor |-> acked[k], value |-> None]
    BY <1>1, <2>2, <2>3, AbstractCalls
  <2>5. \A q \in Requests : q # r => AbstractCall(q)' = AbstractCall(q)
    BY <1>1, <2>2, AbstractCalls
  <2>6. [q \in Requests |-> AbstractCall(q)'] = [calls EXCEPT ![r] =
          [phase |-> "pending", resource |-> k, floor |-> acked[k], value |-> None]]
    BY <2>4, <2>5
  <2>7. Read!Call(r, k)
    BY <2>1, <2>2, <2>6 DEF Read!Call
  <2> QED
    BY <2>7 DEF Read!Next
<1>3. HitCache(r) => Read!Next
  <2> SUFFICES ASSUME HitCache(r) PROVE Read!Next
    OBVIOUS
  <2> DEFINE value == Entered(r).cached
  <2>1. /\ request[r].resource \in Resources /\ Entered(r) = entries[request[r].resource]
        /\ value \in Nat /\ request[r].phase = "entering" /\ request[r].floor \in Nat
        /\ acked[request[r].resource] \in Nat /\ barrier[request[r].resource] \in Nat
    BY <1>1, BusyReader DEF HitCache, Optional, TypeOK
  <2>2. /\ request[r].floor <= acked[request[r].resource]
        /\ acked[request[r].resource] <= barrier[request[r].resource]
        /\ barrier[request[r].resource] <= value /\ value <= upstream
    BY <2>1 DEF HitCache, IndInv, ValuesFollowBarriers, CachedIsAfterBarrier, FloorsAreAcked,
       AcksFollowBarriers, AcksAreInvalidated
  <2> HIDE DEF value
  <2>3. /\ request'[r] = Answered(r, value) /\ \A q \in Requests : q # r => request'[q] = request[q]
        /\ UNCHANGED <<upstream, acked>>
    BY <1>1 DEF HitCache, value
  <2>4. AbstractOf(request'[r]) = [phase |-> "answered", resource |-> request[r].resource,
                                   floor |-> request[r].floor, value |-> value]
    BY <1>1, <2>1, <2>3, AnsweredLemma DEF AbstractOf, Optional
  <2>5. value \in Optional(Nat) /\ request[r].floor <= value /\ value <= upstream
    BY <1>1, <2>1, <2>2 DEF Optional
  <2> QED
    BY <1>1, <2>1, <2>3, <2>4, <2>5, AnsweringOne DEF Pending
<1>4. ASSUME NEW force \in BOOLEAN, JoinFetch(r, force) \/ LeadFetch(r, force)
      PROVE  UNCHANGED Read!lvars
  <2>1. /\ request[r].phase = "entering" /\ UNCHANGED <<upstream, acked>>
        /\ \A q \in Requests : q # r => request'[q] = request[q]
        /\ request'[r].phase \in {"waiting", "fetching"}
        /\ request'[r].resource = request[r].resource /\ request'[r].floor = request[r].floor
    BY <1>1, <1>4 DEF JoinFetch, LeadFetch, MissesCache, Request
  <2> QED
    BY <2>1, UnseenStep DEF AbstractOf
<1>5. ASSUME NEW value \in {upstream, None}, FetchReturns(r, value)
      PROVE  UNCHANGED Read!lvars
  <2>1. /\ request[r].phase = "fetching" /\ UNCHANGED <<upstream, acked>>
        /\ \A q \in Requests : q # r => request'[q] = request[q]
        /\ request'[r].phase = "fetched"
        /\ request'[r].resource = request[r].resource /\ request'[r].floor = request[r].floor
    BY <1>1, <1>5 DEF FetchReturns, Request
  <2> QED
    BY <2>1, UnseenStep DEF AbstractOf
<1>6. CompleteFetch(r) => Read!Next
  <2> SUFFICES ASSUME CompleteFetch(r) PROVE Read!Next
    OBVIOUS
  <2> DEFINE value == request[r].value
  <2>1. /\ request[r].phase = "fetched" /\ Live(r) /\ value \in Optional(Nat)
        /\ UNCHANGED <<upstream, acked>> /\ request'[r] = Answered(r, value)
    BY <1>1, BusyReader DEF CompleteFetch, Live, AnswerAll
  <2>2. CASE FlightEnds(r, value)
    BY <2>1, <2>2, FlightEndsRefines
  <2>3. CASE LeaderLeaves(r)
    <3> HIDE DEF value
    <3>1. value # None => request[r].floor <= value /\ value <= upstream
      BY <2>1 DEF value, IndInv, ValuesFollowBarriers, FetchedIsAfterBarrier
    <3>2. AbstractOf(request'[r]) = [phase |-> "answered", resource |-> request[r].resource,
                                     floor |-> request[r].floor, value |-> value]
      BY <1>1, <2>1, AnsweredLemma DEF AbstractOf
    <3> QED
      BY <1>1, <2>1, <2>3, <3>1, <3>2, AnsweringOne DEF LeaderLeaves, Pending
  <2> QED
    BY <1>1, <2>2, <2>3, CompleteFetchEnds DEF IndInv
<1>7. CleanUp(r) => [Read!Next]_(Read!lvars)
  <2> SUFFICES ASSUME CleanUp(r) PROVE [Read!Next]_(Read!lvars)
    OBVIOUS
  <2>1. /\ request[r].phase = "cancelling" /\ Live(r) /\ UNCHANGED <<upstream, acked>>
        /\ request'[r] = IdleRequest
    BY <1>1 DEF CleanUp, Live, AnswerAll
  <2>2. CASE FlightEnds(r, None)
    BY <1>1, <2>1, <2>2, FlightEndsRefines
  <2>3. CASE LeaderLeaves(r)
    BY <2>1, <2>3, UnseenStep, IdleLemma DEF LeaderLeaves, AbstractOf
  <2> QED
    BY <1>1, <2>2, <2>3, CleanUpEnds DEF IndInv
<1>8. Return(r) => Read!Next
  <2> SUFFICES ASSUME Return(r) PROVE Read!Next
    OBVIOUS
  <2>1. /\ request[r].phase = "answered" /\ UNCHANGED <<upstream, acked>>
        /\ request'[r] = IdleRequest /\ \A q \in Requests : q # r => request'[q] = request[q]
    BY <1>1 DEF Return
  <2> QED
    BY <2>1, LeavingStep, IdleLemma DEF AbstractOf
<1>9. CancelRead(r) => Read!Next
  <2> SUFFICES ASSUME CancelRead(r) PROVE Read!Next
    OBVIOUS
  <2>1. /\ request[r].phase \in {"entering", "waiting", "fetching", "fetched"}
        /\ UNCHANGED <<upstream, acked>>
        /\ request'[r].phase \in {"idle", "cancelling"}
        /\ \A q \in Requests : q # r => request'[q] = request[q]
    BY <1>1, IdleLemma DEF CancelRead, Request
  <2> QED
    BY <2>1, LeavingStep DEF AbstractOf
<1> QED
  BY <1>2, <1>3, <1>4, <1>5, <1>6, <1>7, <1>8, <1>9 DEF ReadStep

\* Mutations take effect or are acknowledged, invalidations turn their waiters away.
LEMMA WriterRefines ==
  ASSUME IndInv, NEW w \in Writers,
         \/ WriteStep(w) \/ AbandonWrite(w)
         \/ \E a \in Accounts, op \in Operations : StartWrite(w, a, op)
  PROVE  [Read!Next]_(Read!lvars)
<1>1. TypeOK /\ upstream \in Nat /\ acked \in [Resources -> Nat] /\ write[w] \in Write
  BY DEF IndInv, TypeOK
<1>2. request' = request => \A q \in Requests : AbstractCall(q)' = AbstractCall(q)
  BY AbstractCalls
<1>3. ASSUME UNCHANGED <<request, upstream, acked>> PROVE UNCHANGED Read!lvars
  BY <1>3, UnseenStep
<1>4. ApplyWrite(w) => Read!Next
  BY <1>2 DEF ApplyWrite, Read!Next, Read!Commit
<1>5. InvalidateNext(w) => Read!Next
  BY <1>1, NextInvalidation, InvalidateRefines DEF InvalidateNext, IndInv
<1>6. AcknowledgeWrite(w) => Read!Next
  <2> SUFFICES ASSUME AcknowledgeWrite(w) PROVE Read!Next
    OBVIOUS
  <2>1. write[w].applied \in Nat /\ write[w].applied <= upstream
    BY <1>1 DEF AcknowledgeWrite, IndInv, AcksFollowBarriers, WritesInvalidate, WritesAreApplied,
       Write, Optional
  <2>2. \A k \in Resources : acked[k] \in Nat /\ acked[k] <= upstream
    BY <1>1 DEF IndInv, AcksFollowBarriers, AcksAreInvalidated, TypeOK
  <2>3. acked' = [k \in Resources |->
          IF k \in Mutated(w) /\ acked[k] < write[w].applied THEN write[w].applied ELSE acked[k]]
    BY DEF AcknowledgeWrite
  <2>4. /\ acked' \in [Resources -> Nat]
        /\ \A k \in Resources : acked[k] <= acked'[k] /\ acked'[k] <= upstream
    BY <1>1, <2>1, <2>2, <2>3
  <2> QED
    BY <1>2, <2>4 DEF AcknowledgeWrite, Read!Next, Read!Acknowledge
<1> QED
  BY <1>3, <1>4, <1>5, <1>6 DEF WriteStep, WriteSucceeds, AbandonWrite, StartWrite

\* The coordinator implements its abstract specification: whatever is shared, cached,
\* cancelled or invalidated, its readers see the steps of LiveRead and no others.
THEOREM Implementation == Spec => ImplementsLiveRead
<1>1. Init => Read!Init
  <2> SUFFICES ASSUME Init PROVE Read!Init
    OBVIOUS
  <2>1. \A q \in Requests : AbstractCall(q) = Read!Idle
    BY DEF Init, AbstractCall, IdleRequest, Read!Idle
  <2> QED
    BY <2>1 DEF Init, Read!Init
<1>2. IndInv /\ [Next]_vars => [Read!Next]_(Read!lvars)
  <2> SUFFICES ASSUME IndInv, [Next]_vars PROVE [Read!Next]_(Read!lvars)
    OBVIOUS
  <2>1. ASSUME NEW r \in Requests,
               ReadStep(r) \/ CancelRead(r) \/ \E k \in Resources : Call(r, k)
        PROVE  [Read!Next]_(Read!lvars)
    BY <2>1, ReaderRefines
  <2>2. ASSUME NEW w \in Writers,
               \/ WriteStep(w) \/ AbandonWrite(w)
               \/ \E a \in Accounts, op \in Operations : StartWrite(w, a, op)
        PROVE  [Read!Next]_(Read!lvars)
    BY <2>2, WriterRefines
  <2>3. ASSUME UNCHANGED <<request, upstream, acked>> PROVE UNCHANGED Read!lvars
    BY <2>3, UnseenStep
  <2>4. ASSUME NEW a \in Accounts, InvalidateAccount(a) PROVE Read!Next
    <3>1. {a} \X Kinds \in SUBSET Resources
      BY DEF Resources
    <3> QED
      BY <2>4, <3>1, InvalidateRefines DEF InvalidateAccount
  <2>5. ASSUME ChangeElsewhere PROVE Read!Next
    <3>1. \A q \in Requests : AbstractCall(q)' = AbstractCall(q)
      BY <2>5, AbstractCalls DEF ChangeElsewhere
    <3> QED
      BY <2>5, <3>1 DEF ChangeElsewhere, Read!Next, Read!Commit
  <2> QED
    BY <2>1, <2>2, <2>3, <2>4, <2>5 DEF Next, Expire, vars
<1> QED
  BY <1>1, <1>2, Invariance, PTL DEF Spec, ImplementsLiveRead, Read!Spec

=============================================================================
