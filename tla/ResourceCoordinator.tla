------------------------- MODULE ResourceCoordinator -------------------------
(***************************************************************************)
(* The live resource cache of one process                                  *)
(* (src-tauri/src/application/resource_coordinator.rs) with its readers    *)
(* and with the mutations of keys_service.rs that invalidate it.           *)
(*                                                                         *)
(* A resource is an account and a kind of live data.  Readers of one       *)
(* resource share one upstream fetch: the first becomes the leader, the    *)
(* others wait for its answer.  An invalidation starts a new generation:   *)
(* it empties the cache, turns the waiters away and abandons the leader,   *)
(* which goes on fetching.  Every step between two awaits is one action.   *)
(*                                                                         *)
(* Upstream data is abstracted to a revision that each effective mutation  *)
(* increments; a fetch returns the revision at the moment the upstream     *)
(* served it.  The 30s time to live is abstracted to Expire: a cached      *)
(* value may stop being fresh at any moment.                               *)
(***************************************************************************)
EXTENDS Naturals, Sequences

CONSTANTS Accounts, Kinds, Requests, Writers, Operations,
          InvalidationOrder,  \* the kinds each operation invalidates, in order
          None,
          MaxWrites,          \* bound: effective mutations
          MaxGeneration       \* bound: generation up to which a whole account is invalidated

ASSUME NoneIsNoRevision == None \notin Nat
ASSUME InvalidationOrderType == InvalidationOrder \in [Operations -> Seq(Kinds)]
ASSUME BoundsType == MaxWrites \in Nat /\ MaxGeneration \in Nat

Resources == Accounts \X Kinds

VARIABLES entries,   \* the coordinator's map, one ResourceEntry per resource
          request,   \* each reader's call of get_or_fetch
          write,     \* each caller of a keys_service mutation
          upstream,  \* revision of the upstream's state
          acked,     \* history: revision of the last acknowledged mutation per resource
          barrier    \* history: upstream revision at the last invalidation per resource

vars == <<entries, request, write, upstream, acked, barrier>>

-----------------------------------------------------------------------------

Optional(S) == S \cup {None}

Entry == [cached : Optional(Nat), fresh : BOOLEAN, inFlight : Optional(Nat),
          generation : Nat, waiters : SUBSET Requests]

\* "entering" waits for the entries lock, "fetching" awaits the upstream,
\* "fetched" holds its result and waits for the lock, "cancelling" was dropped
\* and its guard's clean-up task has not run.
RequestPhase ==
  {"idle", "entering", "waiting", "fetching", "fetched", "cancelling", "answered"}

Request == [phase : RequestPhase, resource : Optional(Resources), generation : Nat,
            value : Optional(Nat), floor : Nat]

WritePhase == {"idle", "calling", "invalidating"}

Write == [phase : WritePhase, account : Optional(Accounts), operation : Optional(Operations),
          applied : Optional(Nat), done : Nat]

TypeOK ==
  /\ entries \in [Resources -> Entry]
  /\ request \in [Requests -> Request]
  /\ write \in [Writers -> Write]
  /\ upstream \in Nat
  /\ acked \in [Resources -> Nat]
  /\ barrier \in [Resources -> Nat]
  /\ \A r \in Requests : request[r].phase # "idle" => request[r].resource \in Resources
  /\ \A w \in Writers : write[w].phase # "idle" =>
       write[w].account \in Accounts /\ write[w].operation \in Operations

EmptyEntry ==
  [cached |-> None, fresh |-> FALSE, inFlight |-> None, generation |-> 0, waiters |-> {}]

IdleRequest ==
  [phase |-> "idle", resource |-> None, generation |-> 0, value |-> None, floor |-> 0]

IdleWrite ==
  [phase |-> "idle", account |-> None, operation |-> None, applied |-> None, done |-> 0]

Init ==
  /\ entries = [k \in Resources |-> EmptyEntry]
  /\ request = [r \in Requests |-> IdleRequest]
  /\ write = [w \in Writers |-> IdleWrite]
  /\ upstream = 0
  /\ acked = [k \in Resources |-> 0]
  /\ barrier = [k \in Resources |-> 0]

-----------------------------------------------------------------------------
(* Readers: get_or_fetch and its leader guard                               *)

Entered(r) == entries[request[r].resource]

\* A oneshot answer: a revision, or None for an error.
Answered(r, value) == [request[r] EXCEPT !.phase = "answered", !.value = value]

AnswerAll(S, value) ==
  [r \in Requests |-> IF r \in S THEN Answered(r, value) ELSE request[r]]

Call(r, k) ==
  /\ request[r].phase = "idle"
  /\ request' = [request EXCEPT ![r] =
       [IdleRequest EXCEPT !.phase = "entering", !.resource = k, !.floor = acked[k]]]
  /\ UNCHANGED <<entries, write, upstream, acked, barrier>>

\* The locked section of get_or_fetch: a fresh value answers an unforced read.
HitCache(r) ==
  /\ request[r].phase = "entering"
  /\ Entered(r).cached # None /\ Entered(r).fresh
  /\ request' = [request EXCEPT ![r] = Answered(r, Entered(r).cached)]
  /\ UNCHANGED <<entries, write, upstream, acked, barrier>>

\* Otherwise (force, or nothing fresh) the read joins the fetch in flight ...
MissesCache(r, force) ==
  /\ request[r].phase = "entering"
  /\ force \/ Entered(r).cached = None \/ ~Entered(r).fresh

JoinFetch(r, force) ==
  /\ MissesCache(r, force)
  /\ Entered(r).inFlight # None
  /\ entries' = [entries EXCEPT ![request[r].resource].waiters = @ \cup {r}]
  /\ request' = [request EXCEPT ![r].phase = "waiting"]
  /\ UNCHANGED <<write, upstream, acked, barrier>>

\* ... or becomes the leader of its generation.
LeadFetch(r, force) ==
  /\ MissesCache(r, force)
  /\ Entered(r).inFlight = None
  /\ entries' = [entries EXCEPT ![request[r].resource].inFlight = Entered(r).generation]
  /\ request' = [request EXCEPT ![r].phase = "fetching",
                                ![r].generation = Entered(r).generation]
  /\ UNCHANGED <<write, upstream, acked, barrier>>

\* The upstream serves the leader's fetch, or the fetch fails.
FetchReturns(r, value) ==
  /\ request[r].phase = "fetching"
  /\ value \in {upstream, None}
  /\ request' = [request EXCEPT ![r].phase = "fetched", ![r].value = value]
  /\ UNCHANGED <<entries, write, upstream, acked, barrier>>

\* Mutant: any flight will do.
OwnsAnyFlight(r) == Entered(r).inFlight # None

\* complete_fetch: only the leader of the generation in flight touches the entry.
OwnsFlight(r) == Entered(r).inFlight = request[r].generation

Landed(e, generation, value) ==
  IF e.generation = generation /\ value # None
  THEN [e EXCEPT !.inFlight = None, !.waiters = {}, !.cached = value, !.fresh = TRUE]
  ELSE [e EXCEPT !.inFlight = None, !.waiters = {}]

CompleteFetch(r) ==
  /\ request[r].phase = "fetched"
  /\ IF OwnsFlight(r)
     THEN /\ entries' = [entries EXCEPT ![request[r].resource] =
                           Landed(@, request[r].generation, request[r].value)]
          /\ request' = AnswerAll(Entered(r).waiters \cup {r}, request[r].value)
     ELSE /\ request' = [request EXCEPT ![r] = Answered(r, request[r].value)]
          /\ UNCHANGED entries
  /\ UNCHANGED <<write, upstream, acked, barrier>>

\* A reader's future is dropped.  The sender of a dropped waiter answers nobody,
\* so it leaves the waiters at once; a leader's armed guard spawns its clean-up.
CancelRead(r) ==
  /\ \/ /\ request[r].phase \in {"entering", "waiting"}
        /\ request' = [request EXCEPT ![r] = IdleRequest]
        /\ entries' = [entries EXCEPT ![request[r].resource].waiters = @ \ {r}]
     \/ /\ request[r].phase \in {"fetching", "fetched"}
        /\ request' = [request EXCEPT ![r].phase = "cancelling", ![r].value = None]
        /\ UNCHANGED entries
  /\ UNCHANGED <<write, upstream, acked, barrier>>

\* Mutant: the guard was disarmed too early, and nothing is cleaned up.
CleanUpDisarmed(r) ==
  /\ request[r].phase = "cancelling"
  /\ request' = [request EXCEPT ![r] = IdleRequest]
  /\ UNCHANGED <<entries, write, upstream, acked, barrier>>

\* The spawned clean-up: complete_fetch with an error.
CleanUp(r) ==
  /\ request[r].phase = "cancelling"
  /\ IF OwnsFlight(r)
     THEN /\ entries' = [entries EXCEPT ![request[r].resource] =
                           Landed(@, request[r].generation, None)]
          /\ request' = [AnswerAll(Entered(r).waiters, None) EXCEPT ![r] = IdleRequest]
     ELSE /\ request' = [request EXCEPT ![r] = IdleRequest]
          /\ UNCHANGED entries
  /\ UNCHANGED <<write, upstream, acked, barrier>>

Return(r) ==
  /\ request[r].phase = "answered"
  /\ request' = [request EXCEPT ![r] = IdleRequest]
  /\ UNCHANGED <<entries, write, upstream, acked, barrier>>

Expire(k) ==
  /\ entries[k].fresh
  /\ entries' = [entries EXCEPT ![k].fresh = FALSE]
  /\ UNCHANGED <<request, write, upstream, acked, barrier>>

-----------------------------------------------------------------------------
(* Invalidation, and the mutations that call it                             *)

\* Mutant: an invalidation that only empties the cache.
InvalidatedCacheOnly(e) == [e EXCEPT !.cached = None, !.fresh = FALSE]

Invalidated(e) ==
  [cached |-> None, fresh |-> FALSE, inFlight |-> None,
   generation |-> e.generation + 1, waiters |-> {}]

Invalidate(S) ==
  /\ entries' = [k \in Resources |-> IF k \in S THEN Invalidated(entries[k]) ELSE entries[k]]
  /\ request' = AnswerAll({r \in Requests : \E k \in S : r \in entries[k].waiters}, None)
  /\ barrier' = [k \in Resources |-> IF k \in S THEN upstream ELSE barrier[k]]

InvalidateAccount(a) ==
  /\ \A kind \in Kinds : entries[<<a, kind>>].generation < MaxGeneration
  /\ Invalidate({a} \X Kinds)
  /\ UNCHANGED <<write, upstream, acked>>

\* The upstream changes on its own account, or applies a mutation whose caller
\* has given up on the response.
ChangeElsewhere ==
  /\ upstream < MaxWrites
  /\ upstream' = upstream + 1
  /\ UNCHANGED <<entries, request, write, acked, barrier>>

StartWrite(w, a, op) ==
  /\ write[w].phase = "idle"
  /\ upstream < MaxWrites
  /\ write' = [write EXCEPT ![w] =
       [phase |-> "calling", account |-> a, operation |-> op, applied |-> None, done |-> 0]]
  /\ UNCHANGED <<entries, request, upstream, acked, barrier>>

\* The upstream applies the mutation; its response is still on the way.
ApplyWrite(w) ==
  /\ write[w].phase = "calling" /\ write[w].applied = None
  /\ upstream < MaxWrites
  /\ upstream' = upstream + 1
  /\ write' = [write EXCEPT ![w].applied = upstream']
  /\ UNCHANGED <<entries, request, acked, barrier>>

WriteSucceeds(w) ==
  /\ write[w].phase = "calling" /\ write[w].applied # None
  /\ write' = [write EXCEPT ![w].phase = "invalidating"]
  /\ UNCHANGED <<entries, request, upstream, acked, barrier>>

Order(w) == InvalidationOrder[write[w].operation]

InvalidateNext(w) ==
  /\ write[w].phase = "invalidating"
  /\ write[w].done < Len(Order(w))
  /\ Invalidate({<<write[w].account, Order(w)[write[w].done + 1]>>})
  /\ write' = [write EXCEPT ![w].done = @ + 1]
  /\ UNCHANGED <<upstream, acked>>

Mutated(w) == {<<write[w].account, Order(w)[i]>> : i \in 1..Len(Order(w))}

\* Mutant: the mutation returns before its invalidations.
AcknowledgeWriteEarly(w) ==
  /\ write[w].phase = "invalidating"
  /\ acked' = [k \in Resources |->
       IF k \in Mutated(w) /\ acked[k] < write[w].applied THEN write[w].applied ELSE acked[k]]
  /\ write' = [write EXCEPT ![w] = IdleWrite]
  /\ UNCHANGED <<entries, request, upstream, barrier>>

\* The mutation returns to its caller.
AcknowledgeWrite(w) ==
  /\ write[w].phase = "invalidating"
  /\ write[w].done = Len(Order(w))
  /\ acked' = [k \in Resources |->
       IF k \in Mutated(w) /\ acked[k] < write[w].applied THEN write[w].applied ELSE acked[k]]
  /\ write' = [write EXCEPT ![w] = IdleWrite]
  /\ UNCHANGED <<entries, request, upstream, barrier>>

\* The response is an error, applied or not, or the caller's future is dropped
\* between two invalidations: nothing more is invalidated.
AbandonWrite(w) ==
  /\ write[w].phase # "idle"
  /\ write' = [write EXCEPT ![w] = IdleWrite]
  /\ UNCHANGED <<entries, request, upstream, acked, barrier>>

-----------------------------------------------------------------------------

ReadStep(r) ==
  \/ HitCache(r)
  \/ \E force \in BOOLEAN : JoinFetch(r, force) \/ LeadFetch(r, force)
  \/ \E value \in {upstream, None} : FetchReturns(r, value)
  \/ CompleteFetch(r)
  \/ CleanUp(r)
  \/ Return(r)

WriteStep(w) ==
  \/ ApplyWrite(w)
  \/ WriteSucceeds(w)
  \/ InvalidateNext(w)
  \/ AcknowledgeWrite(w)

Next ==
  \/ \E r \in Requests : ReadStep(r) \/ CancelRead(r) \/ \E k \in Resources : Call(r, k)
  \/ \E w \in Writers :
       WriteStep(w) \/ AbandonWrite(w) \/ \E a \in Accounts, op \in Operations : StartWrite(w, a, op)
  \/ \E k \in Resources : Expire(k)
  \/ \E a \in Accounts : InvalidateAccount(a)
  \/ ChangeElsewhere

Spec == Init /\ [][Next]_vars

\* A reader's task keeps running, and the HTTP client bounds every fetch in time.
Fairness == \A r \in Requests : WF_vars(ReadStep(r))

FairSpec == Spec /\ Fairness

-----------------------------------------------------------------------------
(* Properties                                                               *)

Live(r) == request[r].phase \in {"fetching", "fetched", "cancelling"}

Pending(r) == request[r].phase \in {"entering", "waiting", "fetching", "fetched"}

\* Read your writes: whoever calls get_or_fetch after a mutation was acknowledged
\* is never shown the state before it, whether the answer comes from the cache,
\* from another reader's fetch or from a fetch of its own.
AnswersAreCurrent ==
  \A r \in Requests :
    request[r].phase = "answered" /\ request[r].value # None
      => request[r].floor <= request[r].value /\ request[r].value <= upstream

\* A cached value is no older than any acknowledged mutation of its resource, nor
\* than a mutation in progress that has already invalidated the resource: a fetch
\* begun before an invalidation cannot land in the cache after it.
CacheIsCurrent ==
  \A k \in Resources : entries[k].cached # None =>
    /\ acked[k] <= entries[k].cached
    /\ \A w \in Writers : write[w].phase = "invalidating" =>
         \A i \in 1..write[w].done :
           k = <<write[w].account, Order(w)[i]>> => write[w].applied <= entries[k].cached

\* Between two invalidations of a resource at most one fetch is under way, and a
\* leader the invalidation abandoned cannot free the place of its successor.
SingleFlight ==
  \A r, q \in Requests :
    Live(r) /\ Live(q) /\ request[r].resource = request[q].resource
            /\ request[r].generation = request[q].generation => r = q

\* Nobody waits for an answer that no one is going to send: whoever waits is in the
\* entry's waiters, and a leader, or its clean-up, still owns the flight.
NoStrandedWaiter ==
  \A r \in Requests : request[r].phase = "waiting" =>
    /\ r \in Entered(r).waiters
    /\ \E q \in Requests : Live(q) /\ request[q].resource = request[r].resource /\ OwnsFlight(q)

\* Every read ends, also when its leader is cancelled or its generation is
\* invalidated again and again.
EveryReadEnds == \A r \in Requests : Pending(r) ~> ~Pending(r)

\* The inductive invariant behind the first four.  A flight belongs to the entry's
\* generation and has a live leader ...
FlightsAreLed ==
  \A k \in Resources : entries[k].inFlight # None =>
    /\ entries[k].inFlight = entries[k].generation
    /\ \E q \in Requests :
         Live(q) /\ request[q].resource = k /\ request[q].generation = entries[k].generation

\* ... and a live leader of the current generation owns the flight ...
LeadersOwnFlights ==
  \A r \in Requests : Live(r) =>
    /\ request[r].generation <= Entered(r).generation
    /\ request[r].generation = Entered(r).generation => OwnsFlight(r)

FlightsHaveLeaders == FlightsAreLed /\ LeadersOwnFlights /\ SingleFlight

\* ... the waiters of an entry are the readers that wait for its flight ...
WaitersAreReaders ==
  \A k \in Resources : entries[k].waiters =
    {r \in Requests : request[r].phase = "waiting" /\ request[r].resource = k}

WaitersHaveFlight ==
  \A k \in Resources : entries[k].waiters # {} => entries[k].inFlight # None

WaitersMatch == WaitersAreReaders /\ WaitersHaveFlight

\* ... every acknowledged mutation was followed by an invalidation, and so is each
\* one in progress, for the resources it is done with ...
AcksAreInvalidated ==
  \A k \in Resources : acked[k] <= barrier[k] /\ barrier[k] <= upstream

WritesAreApplied ==
  \A w \in Writers : write[w].applied # None => write[w].applied <= upstream

WritesInvalidate ==
  \A w \in Writers :
    /\ write[w].phase = "calling" => write[w].done = 0
    /\ write[w].phase = "invalidating" =>
         /\ write[w].applied # None
         /\ write[w].done <= Len(Order(w))
         /\ \A i \in 1..write[w].done :
              write[w].applied <= barrier[<<write[w].account, Order(w)[i]>>]

AcksFollowBarriers == AcksAreInvalidated /\ WritesAreApplied /\ WritesInvalidate

\* ... and no value a read can still receive is older than the last invalidation
\* the read must observe.
CachedIsAfterBarrier ==
  \A k \in Resources : entries[k].cached # None =>
    barrier[k] <= entries[k].cached /\ entries[k].cached <= upstream

FloorsAreAcked ==
  \A r \in Requests : request[r].phase # "idle" => request[r].floor <= acked[request[r].resource]

FetchedIsAfterBarrier ==
  \A r \in Requests : request[r].phase = "fetched" /\ request[r].value # None =>
    /\ request[r].floor <= request[r].value /\ request[r].value <= upstream
    /\ request[r].generation = Entered(r).generation
         => barrier[request[r].resource] <= request[r].value

ValuesFollowBarriers ==
  CachedIsAfterBarrier /\ FloorsAreAcked /\ FetchedIsAfterBarrier /\ AnswersAreCurrent

\* The five parts together are inductive.
IndInv == TypeOK /\ FlightsHaveLeaders /\ WaitersMatch /\ AcksFollowBarriers /\ ValuesFollowBarriers

\* The abstract specification's view of a reader: a clean-up task is nobody's read.
AbstractCall(r) ==
  IF request[r].phase \in {"idle", "cancelling"}
  THEN [phase |-> "idle", resource |-> None, floor |-> 0, value |-> None]
  ELSE IF request[r].phase = "answered"
  THEN [phase |-> "answered", resource |-> request[r].resource,
        floor |-> request[r].floor, value |-> request[r].value]
  ELSE [phase |-> "pending", resource |-> request[r].resource,
        floor |-> request[r].floor, value |-> None]

Read == INSTANCE LiveRead WITH call <- [r \in Requests |-> AbstractCall(r)]

\* Sharing fetches, caching, cancelling and invalidating are invisible to the
\* readers: the coordinator implements LiveRead.
ImplementsLiveRead == Read!Spec

=============================================================================
