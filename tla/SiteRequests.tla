---------------------------- MODULE SiteRequests ----------------------------
(***************************************************************************)
(* The request budget of one site, shared by the runtimes of the machine   *)
(* (SiteRequestCoordination in src-tauri/src/infrastructure/               *)
(* runtime_coordination.rs, its callers in infrastructure/sub2api/         *)
(* client.rs).                                                             *)
(*                                                                         *)
(* A call registers a demand in the coordination database, polls until it  *)
(* is first in line and the budget allows for it, sends its request under  *)
(* the permit and gives it back.  Each operation of the database is one    *)
(* transaction on a blocking thread: a caller that is dropped meanwhile (a *)
(* client of the HTTP adapter hangs up) leaves the thread to finish, and   *)
(* its guards start the clean-up on another.                               *)
(*                                                                         *)
(* A call is a member of Requests and may be made again once nothing is    *)
(* left of it: request ids are never used twice.  Cooldowns of a site have *)
(* no caller.  Time is abstracted to its effects, as in AccountWork.       *)
(***************************************************************************)
EXTENDS Naturals, Sequences, FiniteSets

CONSTANTS Requests,
          UsagePages,   \* the requests for a page of usage
          Urgent,       \* the requests of the highest priority, the rest share one
          MaxInFlight,  \* site_max_in_flight
          MaxUsage,     \* usage_page_max_in_flight
          MayStall      \* a permit may expire under the request it was given for

ASSUME RequestsType == UsagePages \subseteq Requests /\ Urgent \subseteq Requests
ASSUME FiniteRequests == IsFiniteSet(Requests)
ASSUME LimitsType == MaxInFlight \in Nat \ {0} /\ MaxUsage \in Nat \ {0}
ASSUME MayStallType == MayStall \in BOOLEAN

VARIABLES
  call,        \* where the caller of a request is
  thread,      \* the transactions of a request that nobody waits for any more
  queue, aged, \* database: the demands in order, the first "aged" of which are aged
  permits,     \* database: the requests in flight
  spaced,      \* database: the next request of the site has to wait for its time
  lapsed       \* history: the requests whose permit expired under them

vars == <<call, thread, queue, aged, permits, spaced, lapsed>>

database == <<queue, aged, permits, spaced>>

Phase == {"over", "enqueuing", "polling", "cancelling", "sending", "releasing"}

Transaction == {"enqueue", "acquire", "cancel", "release"}

TypeOK ==
  /\ call \in [Requests -> Phase]
  /\ thread \in [Requests -> SUBSET Transaction]
  /\ queue \in Seq(Requests) /\ aged \in 0..Len(queue)
  /\ permits \subseteq Requests
  /\ spaced \in BOOLEAN
  /\ lapsed \subseteq Requests

Init ==
  /\ call = [r \in Requests |-> "over"]
  /\ thread = [r \in Requests |-> {}]
  /\ queue = <<>> /\ aged = 0
  /\ permits = {}
  /\ spaced = FALSE
  /\ lapsed = {}

Queued == {queue[n] : n \in DOMAIN queue}

Goes(r, phase) == call' = [call EXCEPT ![r] = phase]

-----------------------------------------------------------------------------
(* Transactions                                                             *)

EnqueueDemand(r) ==
  /\ queue' = IF r \in Queued THEN queue ELSE Append(queue, r)
  /\ UNCHANGED <<aged, permits, spaced>>

\* Mutant: nothing ages.
FirstByPriority(r) ==
  \E n \in DOMAIN queue :
    /\ queue[n] = r
    /\ \A m \in DOMAIN queue : IF m < n THEN r \in Urgent /\ queue[m] \notin Urgent
                                        ELSE r \in Urgent \/ queue[m] \notin Urgent

\* The aged demands come first, in order; then the urgent ones, in order; then the rest.
FirstInLine(r) ==
  IF aged > 0
  THEN queue[1] = r
  ELSE \E n \in DOMAIN queue :
         /\ queue[n] = r
         /\ \A m \in DOMAIN queue : IF m < n THEN r \in Urgent /\ queue[m] \notin Urgent
                                             ELSE r \in Urgent \/ queue[m] \notin Urgent

\* Mutant: one request too many.
WithinOneMore(r) ==
  /\ Cardinality(permits) < MaxInFlight
  /\ r \in UsagePages => Cardinality(permits \cap UsagePages) <= MaxUsage

WithinBudget(r) ==
  /\ Cardinality(permits) < MaxInFlight
  /\ r \in UsagePages => Cardinality(permits \cap UsagePages) < MaxUsage

Remaining(r) == SelectSeq(queue, LAMBDA q : q # r)

RemoveDemand(r) ==
  /\ queue' = Remaining(r)
  /\ aged' = Cardinality({n \in 1..aged : queue[n] # r})

\* try_acquire_site_request_permit
Acquires(r) ==
  /\ r \in Queued /\ FirstInLine(r)
  /\ WithinBudget(r)
  /\ ~spaced
  /\ spaced' = TRUE
  /\ permits' = permits \cup {r}
  /\ RemoveDemand(r)

CancelsDemand(r) == RemoveDemand(r) /\ UNCHANGED <<permits, spaced>>

ReleasesPermit(r) == permits' = permits \ {r} /\ UNCHANGED <<queue, aged, spaced>>

-----------------------------------------------------------------------------
(* A call                                                                   *)

Call(r) ==
  /\ call[r] = "over" /\ thread[r] = {} /\ r \notin Queued \cup permits
  /\ Goes(r, "enqueuing")
  /\ lapsed' = lapsed \ {r}
  /\ UNCHANGED <<thread, database>>

Enqueue(r) ==
  /\ call[r] = "enqueuing"
  /\ EnqueueDemand(r)
  /\ Goes(r, "polling")
  /\ UNCHANGED <<thread, lapsed>>

\* A poll that does not get the permit changes nothing.
Poll(r) ==
  /\ call[r] = "polling"
  /\ Acquires(r)
  /\ Goes(r, "sending")
  /\ UNCHANGED <<thread, lapsed>>

\* The database fails the caller, whose guard cancels the demand on another thread.
DatabaseFails(r) ==
  /\ call[r] \in {"enqueuing", "polling"}
  /\ Goes(r, "over")
  /\ thread' = [thread EXCEPT ![r] = @ \cup {"cancel"}]
  /\ UNCHANGED <<database, lapsed>>

\* The call has waited for as long as it may.
TimeOut(r) ==
  /\ call[r] = "polling"
  /\ Goes(r, "cancelling")
  /\ UNCHANGED <<thread, database, lapsed>>

Cancel(r) ==
  /\ call[r] = "cancelling"
  /\ CancelsDemand(r)
  /\ Goes(r, "over")
  /\ UNCHANGED <<thread, lapsed>>

\* The guard has already forgotten the demand: it is left to expire.
CancelFails(r) ==
  /\ call[r] = "cancelling"
  /\ Goes(r, "over")
  /\ UNCHANGED <<thread, database, lapsed>>

\* The whole response has been read, or the request has failed or timed out.
Respond(r) ==
  /\ call[r] = "sending"
  /\ Goes(r, "releasing")
  /\ UNCHANGED <<thread, database, lapsed>>

Release(r) ==
  /\ call[r] = "releasing"
  /\ ReleasesPermit(r)
  /\ Goes(r, "over")
  /\ UNCHANGED <<thread, lapsed>>

\* A release that fails is not repeated: the permit is left to expire.
ReleaseFails(r) ==
  /\ call[r] = "releasing"
  /\ Goes(r, "over")
  /\ UNCHANGED <<thread, database, lapsed>>

\* The threads that a dropped caller may leave behind: the transaction it waited for, if
\* it had begun, and the one its guards start.  A process that ends leaves none.
Leftovers(phase) ==
  CASE phase = "enqueuing"  -> {{}, {"cancel"}, {"enqueue", "cancel"}}
    [] phase = "polling"    -> {{}, {"cancel"}, {"acquire", "cancel"}}
    [] phase = "cancelling" -> {{}, {"cancel"}}
    [] phase = "sending"    -> {{}, {"release"}}
    [] phase = "releasing"  -> {{}, {"release"}}

Drop(r) ==
  /\ call[r] # "over"
  /\ \E left \in Leftovers(call[r]) : thread' = [thread EXCEPT ![r] = left]
  /\ Goes(r, "over")
  /\ UNCHANGED <<database, lapsed>>

\* The threads run in any order; what they return is not read.
ThreadEnds(r, t) ==
  /\ t \in thread[r]
  /\ thread' = [thread EXCEPT ![r] = @ \ {t}]
  /\ \/ t = "enqueue" /\ EnqueueDemand(r)
     \/ t = "acquire" /\ (Acquires(r) \/ UNCHANGED database)
     \/ t = "cancel" /\ CancelsDemand(r)
     \/ t = "release" /\ ReleasesPermit(r)
  /\ UNCHANGED <<call, lapsed>>

-----------------------------------------------------------------------------
(* Time                                                                     *)

Age ==
  /\ aged < Len(queue)
  /\ aged' = aged + 1
  /\ UNCHANGED <<call, thread, queue, permits, spaced, lapsed>>

SpacingPasses ==
  /\ spaced
  /\ spaced' = FALSE
  /\ UNCHANGED <<call, thread, queue, aged, permits, lapsed>>

\* A request times out long before its permit: who outlives it is stalled.
PermitExpires(r) ==
  /\ r \in permits /\ (call[r] \notin {"sending", "releasing"} \/ MayStall)
  /\ permits' = permits \ {r}
  /\ lapsed' = IF call[r] \in {"sending", "releasing"} THEN lapsed \cup {r} ELSE lapsed
  /\ UNCHANGED <<call, thread, queue, aged, spaced>>

\* A call polls for less time than its demand lasts.
DemandExpires(r) ==
  /\ r \in Queued /\ (call[r] \notin {"polling", "cancelling"} \/ MayStall)
  /\ RemoveDemand(r)
  /\ UNCHANGED <<call, thread, permits, spaced, lapsed>>

-----------------------------------------------------------------------------

Next ==
  \/ \E r \in Requests :
       \/ Call(r) \/ Enqueue(r) \/ Poll(r) \/ DatabaseFails(r) \/ TimeOut(r)
       \/ Cancel(r) \/ CancelFails(r) \/ Respond(r) \/ Release(r) \/ ReleaseFails(r) \/ Drop(r)
       \/ PermitExpires(r) \/ DemandExpires(r)
       \/ \E t \in Transaction : ThreadEnds(r, t)
  \/ Age \/ SpacingPasses

Spec == Init /\ [][Next]_vars

\* Callers go on, threads end and time passes; nobody has to fail or to be dropped, and
\* only a caller whose demand was lost has to give up.
Fairness ==
  /\ \A r \in Requests :
       /\ WF_vars(Enqueue(r)) /\ WF_vars(Poll(r)) /\ WF_vars(Cancel(r))
       /\ WF_vars(Respond(r)) /\ WF_vars(Release(r)) /\ WF_vars(TimeOut(r) /\ r \notin Queued)
       /\ WF_vars(PermitExpires(r)) /\ WF_vars(DemandExpires(r) /\ call[r] # "polling")
       /\ WF_vars(\E t \in Transaction : ThreadEnds(r, t))
  /\ WF_vars(Age) /\ WF_vars(SpacingPasses)

FairSpec == Spec /\ Fairness

-----------------------------------------------------------------------------
(* Properties                                                               *)

Sending(r) == call[r] = "sending" /\ r \notin lapsed

\* The requests that are being sent under a live permit stay within the two limits of
\* the site, whoever sends them and whatever became of the callers before them.
BudgetKept ==
  /\ Cardinality({r \in Requests : Sending(r)}) <= MaxInFlight
  /\ Cardinality({r \in UsagePages : Sending(r)}) <= MaxUsage

\* A call that neither gives up nor is dropped gets its permit as long as its demand is
\* in the queue, whatever demands and permits others have left behind and however urgent
\* theirs are.
EveryCallIsServed == \A r \in Requests : call[r] = "polling" ~> call[r] # "polling"

=============================================================================
