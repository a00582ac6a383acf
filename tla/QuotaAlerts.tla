----------------------------- MODULE QuotaAlerts -----------------------------
(* Alerts about the quota of one subscription of an account: the evaluation of *)
(* its windows (subscription_quota_alert_service.rs), the events it stores     *)
(* (repositories/subscription_quota_alerts.rs), their delivery                 *)
(* (subscription_quota_alert_dispatcher.rs) to the mailbox of the process      *)
(* (lib.rs) and to the notifications of the system, and what the owner does    *)
(* meanwhile: the rule, the switch of the account, deletions.                  *)
(*                                                                             *)
(* An account has one dispatcher, the worker of the scheduler that holds the   *)
(* lease of the account (AccountWork!OneWorker). A claim is therefore known by *)
(* its event, channel and status; its thirty seconds are an event of their     *)
(* own, which comes only when no dispatcher holds the claim. Two gates order   *)
(* the rest: one of the account, and one that deliveries take to read and      *)
(* deletions to write. Amounts and percentages are levels, compared with the   *)
(* level of the rule.                                                          *)
EXTENDS Integers, FiniteSets

CONSTANTS
  Windows,     \* daily, weekly, monthly
  Periods,     \* the starts of a window
  Evaluations, \* evaluations under way: of the scheduler, of the pages
  None,
  MaxEvents, MaxRevision, MaxMishaps \* bounds: events, changes of the rule, failures

Channels == {"business", "windows"}
Levels == 1..2
Events == 1..MaxEvents

ASSUME NoneIsNoPeriod == None \notin Periods
ASSUME BoundsType == MaxEvents \in Nat /\ MaxRevision \in Nat /\ MaxMishaps \in Nat

VARIABLES
  account,    \* "on", "off" by the switch of the account, or "gone"
  subject,    \* the row that owns the following three exists
  config,     \* the rule of the owner, or None
  window,     \* the state of each window, or None
  event,      \* the stored events
  created,    \* how many were stored so far
  evaluation, \* evaluations, with what they read
  dispatcher, \* the flush of the channels
  mailbox,    \* notifications of the process
  mishaps,    \* crashes and failures so far
  shown,      \* how often a channel has shown an event
  told        \* the excess of each window that was announced, until it is over

rows == <<account, subject, config, window, event, created>>
process == <<evaluation, dispatcher, mailbox>>
vars == <<rows, process, mishaps, shown, told>>

-----------------------------------------------------------------------------
(* States                                                                    *)

Rule == [enabled : BOOLEAN, threshold : Levels, revision : 0..MaxRevision]
DefaultRule == [enabled |-> TRUE, threshold |-> 2, revision |-> 0]

Reading == [level : Levels, period : Periods \cup {None}]
Readings == [Windows -> Reading \cup {None}]

WindowState ==
  [state : {"armed", "triggered"}, revision : 0..MaxRevision,
   period : Periods \cup {None}, event : Events \cup {None}]

\* A channel that was tried before is due again only after a while.
Waiting == {"pending", "retrying"}
Final == {"sent", "unsupported"}
Status == Waiting \cup {"delivering"} \cup Final
StoredEvent == [Channels -> Status]

IdleEvaluation == [phase |-> "idle", reading |-> None, rule |-> None, window |-> None]

EvaluationType ==
  [phase : {"idle", "reading"}, reading : Readings \cup {None},
   rule : Rule \cup {None}, window : [Windows -> WindowState \cup {None}] \cup {None}]

IdleDispatcher == [phase |-> "idle", channel |-> "business", event |-> None, ok |-> FALSE]

DispatcherType ==
  [phase : {"idle", "flushing", "claimed", "sending", "marking"}, channel : Channels,
   event : Events \cup {None}, ok : BOOLEAN]

ASSUME NoneIsNothing ==
  /\ None \notin Events
  /\ None \notin Rule /\ None \notin Reading /\ None \notin WindowState
  /\ None \notin StoredEvent

NoWindows == [w \in Windows |-> None]
NoEvents == [e \in Events |-> None]

Init ==
  /\ account = "on" /\ subject = FALSE /\ config = None
  /\ window = NoWindows /\ event = NoEvents /\ created = 0
  /\ evaluation = [x \in Evaluations |-> IdleEvaluation]
  /\ dispatcher = IdleDispatcher
  /\ mailbox = {} /\ mishaps = 0
  /\ shown = [e \in Events |-> [c \in Channels |-> 0]]
  /\ told = NoWindows

Stored == {e \in Events : event[e] # None}
Completed(e) == \A c \in Channels : event[e][c] \in Final

-----------------------------------------------------------------------------
(* The gates                                                                 *)

AccountGateFree ==
  /\ \A x \in Evaluations : evaluation[x].phase # "reading"
  /\ dispatcher.phase \notin {"sending", "marking"}

NobodyDelivers == dispatcher.phase \in {"idle", "flushing"}

\* Mutant: deletions do not wait for the delivery under way.
DeliversOrNot == TRUE

DeletionGateFree == NobodyDelivers

-----------------------------------------------------------------------------
(* Evaluation of a snapshot of the subscription                              *)

UnderEvaluation == {x \in Evaluations : evaluation[x].phase # "idle"}

EffectiveRule == IF config = None THEN DefaultRule ELSE config

EntersWhenFree == AccountGateFree

\* Mutant: evaluations do not wait for each other.
EntersAnyTime == dispatcher.phase \notin {"sending", "marking"}

EvaluationMayEnter == EntersWhenFree

\* Under the gate: the subject is made sure of, the rule and the states are read. The
\* site has answered with any reading. Nothing happens while alerts are off.
ReadStates(x) ==
  /\ evaluation[x].phase = "idle" /\ account = "on" /\ EvaluationMayEnter
  /\ created + Cardinality(UnderEvaluation) < MaxEvents
  /\ subject' = TRUE
  /\ \E reading \in Readings :
       evaluation' = [evaluation EXCEPT ![x] =
         IF EffectiveRule.enabled
         THEN [phase |-> "reading", reading |-> reading, rule |-> EffectiveRule,
               window |-> window]
         ELSE @]
  /\ UNCHANGED <<account, config, window, event, created, dispatcher, mailbox, mishaps, shown,
                 told>>

Reached(q, w) == q.reading[w].level >= q.rule.threshold

Observed(q) == {w \in Windows : q.reading[w] # None}

PeriodChanged(q, w) ==
  /\ q.reading[w].period # None
  /\ q.window[w] = None \/ q.window[w].period # q.reading[w].period

WasArmed(q, w) == q.window[w] = None \/ q.window[w].state = "armed"

ConfigChanged(q, w) == q.window[w] = None \/ q.window[w].revision # q.rule.revision

NewlyTriggered(q) ==
  {w \in Observed(q) :
     Reached(q, w) /\ (ConfigChanged(q, w) \/ PeriodChanged(q, w) \/ WasArmed(q, w))}

Period(q, w) ==
  IF q.reading[w].period = None /\ q.window[w] # None
  THEN q.window[w].period ELSE q.reading[w].period

NextState(q, w) ==
  [state |-> IF Reached(q, w) THEN "triggered" ELSE "armed",
   revision |-> q.rule.revision,
   period |-> Period(q, w),
   event |-> IF w \in NewlyTriggered(q) THEN created + 1
             ELSE IF q.window[w] = None THEN None ELSE q.window[w].event]

\* The states of the windows and the event of those newly triggered are one
\* transaction. "supported" tells whether the system shows notifications.
StoresStates(q) ==
  /\ window' = [w \in Windows |-> IF w \in Observed(q) THEN NextState(q, w) ELSE window[w]]
  /\ told' = [w \in Windows |->
       IF w \in NewlyTriggered(q) THEN [period |-> Period(q, w), revision |-> q.rule.revision]
       ELSE IF w \in Observed(q) /\ ~Reached(q, w) THEN None ELSE told[w]]

StoresEvent(q, supported) ==
  IF NewlyTriggered(q) = {} THEN UNCHANGED <<event, created>>
  ELSE /\ created' = created + 1
       /\ event' = [event EXCEPT ![created + 1] =
            [c \in Channels |-> IF c = "business" \/ supported THEN "pending"
                                ELSE "unsupported"]]

Commits(q) ==
  \E supported \in BOOLEAN : StoresStates(q) /\ StoresEvent(q, supported)

\* Mutant: the states are stored first, and the event may be lost.
CommitsInTwoSteps(q) ==
  \/ Commits(q)
  \/ mishaps < MaxMishaps /\ StoresStates(q) /\ UNCHANGED <<event, created>>

StoreEvaluation(q) == Commits(q)

\* The rows of a subject that was deleted meanwhile are refused.
FinishEvaluation(x) ==
  /\ evaluation[x].phase = "reading"
  /\ IF subject THEN StoreEvaluation(evaluation[x])
     ELSE UNCHANGED <<window, event, created, told>>
  /\ evaluation' = [evaluation EXCEPT ![x] = IdleEvaluation]
  /\ UNCHANGED <<account, subject, config, dispatcher, mailbox, mishaps, shown>>

-----------------------------------------------------------------------------
(* The owner of the account                                                  *)

\* A rule is stored for the subject; a new revision only if it says other things.
SaveRule(enabled, threshold) ==
  /\ AccountGateFree /\ account # "gone"
  /\ LET old == EffectiveRule
         same == old.enabled = enabled /\ old.threshold = threshold
     IN /\ same \/ old.revision < MaxRevision
        /\ config' = [enabled |-> enabled, threshold |-> threshold,
                      revision |-> IF same THEN old.revision ELSE old.revision + 1]
  /\ subject' = TRUE
  /\ UNCHANGED <<account, window, event, created, process, mishaps, shown, told>>

Terminated(e) ==
  [c \in Channels |-> IF event[e][c] \in Final THEN event[e][c] ELSE "unsupported"]

ClearsWindows == window' = NoWindows /\ told' = NoWindows

SwitchOff ==
  /\ AccountGateFree /\ account = "on"
  /\ account' = "off"
  /\ ClearsWindows
  /\ event' = [e \in Events |-> IF event[e] = None THEN None ELSE Terminated(e)]
  /\ UNCHANGED <<subject, config, created, process, mishaps, shown>>

SwitchOn ==
  /\ AccountGateFree /\ account = "off"
  /\ account' = "on"
  /\ ClearsWindows
  /\ UNCHANGED <<subject, config, event, created, process, mishaps, shown>>

Deletes ==
  /\ subject' = FALSE /\ config' = None
  /\ window' = NoWindows /\ told' = NoWindows
  /\ event' = NoEvents
  /\ UNCHANGED <<created, process, mishaps, shown>>

RemoveAccount ==
  /\ AccountGateFree /\ account # "gone"
  /\ account' = "gone" /\ Deletes

RemoveSite ==
  /\ DeletionGateFree /\ account # "gone"
  /\ account' = "gone" /\ Deletes

\* The data of the runtime, without the accounts and their switches.
ClearRuntimeData ==
  /\ DeletionGateFree /\ account # "gone"
  /\ UNCHANGED account /\ Deletes

\* The maintenance removes events some days after they were completed, which no
\* delivery takes.
Prune(e) ==
  /\ e \in Stored /\ Completed(e) /\ dispatcher.event # e
  /\ event' = [event EXCEPT ![e] = None]
  /\ UNCHANGED <<account, subject, config, window, created, process, mishaps, shown, told>>

-----------------------------------------------------------------------------
(* Delivery                                                                  *)

Dispatches(d) == dispatcher' = d
Flushing == [IdleDispatcher EXCEPT !.phase = "flushing", !.channel = dispatcher.channel]

\* The scheduler has synchronised the subscriptions of the account.
StartFlush ==
  /\ dispatcher.phase = "idle" /\ account # "gone"
  /\ Dispatches([IdleDispatcher EXCEPT !.phase = "flushing"])
  /\ UNCHANGED <<rows, evaluation, mailbox, mishaps, shown, told>>

\* Channels never tried are due at once, the others may or may not be.
DueNow == {e \in Stored : event[e][dispatcher.channel] = "pending"}

ClaimableStatus == Waiting \cup {"delivering"}

\* Mutant: claims do not expire.
ClaimableOnce == Waiting

\* Mutant: a channel that was sent is claimed like one whose claim expired.
ClaimableAnyTime == ClaimableStatus \cup {"sent"}

Claimable == ClaimableStatus

\* The oldest event whose channel is due is claimed, together with the gate that
\* deletions wait for.
Claim(e) ==
  /\ dispatcher.phase = "flushing" /\ account = "on"
  /\ e \in Stored /\ ~Completed(e) /\ event[e][dispatcher.channel] \in Claimable
  /\ \A older \in DueNow : older >= e
  /\ event' = [event EXCEPT ![e][dispatcher.channel] = "delivering"]
  /\ Dispatches([Flushing EXCEPT !.phase = "claimed", !.event = e])
  /\ UNCHANGED <<account, subject, config, window, created, evaluation, mailbox, mishaps, shown,
                 told>>

\* Nothing is due: the other channel is next, or the flush is over.
ChannelDone ==
  /\ dispatcher.phase = "flushing"
  /\ account = "on" => DueNow = {}
  /\ Dispatches(IF dispatcher.channel = "business"
                THEN [Flushing EXCEPT !.channel = "windows"] ELSE IdleDispatcher)
  /\ UNCHANGED <<rows, evaluation, mailbox, mishaps, shown, told>>

Held == dispatcher.event \in Stored /\ event[dispatcher.event][dispatcher.channel] = "delivering"

Marks(status) ==
  event' = IF Held THEN [event EXCEPT ![dispatcher.event][dispatcher.channel] = status]
           ELSE event

\* The gate of the account is granted, and its switch is read once more.
RechecksSwitch ==
  IF account = "on"
  THEN Dispatches([dispatcher EXCEPT !.phase = "sending"]) /\ UNCHANGED event
  ELSE Dispatches(Flushing) /\ Marks("unsupported")

EnterGate ==
  /\ dispatcher.phase = "claimed" /\ AccountGateFree
  /\ RechecksSwitch
  /\ UNCHANGED <<account, subject, config, window, created, evaluation, mailbox, mishaps, shown,
                 told>>

Shows == shown' = [shown EXCEPT ![dispatcher.event][dispatcher.channel] = @ + 1]

\* The mailbox takes a notification only once as long as it has it.
Reaches ==
  IF dispatcher.channel = "windows" THEN Shows /\ UNCHANGED mailbox
  ELSE IF dispatcher.event \in mailbox THEN UNCHANGED <<mailbox, shown>>
  ELSE Shows /\ mailbox' = mailbox \cup {dispatcher.event}

Send ==
  /\ dispatcher.phase = "sending"
  /\ Reaches
  /\ Dispatches([dispatcher EXCEPT !.phase = "marking", !.ok = TRUE])
  /\ UNCHANGED <<rows, evaluation, mishaps, told>>

\* The channel refuses, or the window that shows the mailbox fails after it took
\* the notification.
SendFails ==
  /\ dispatcher.phase = "sending" /\ mishaps < MaxMishaps
  /\ \/ UNCHANGED <<mailbox, shown>>
     \/ dispatcher.channel = "business" /\ Reaches
  /\ mishaps' = mishaps + 1
  /\ Dispatches([dispatcher EXCEPT !.phase = "marking", !.ok = FALSE])
  /\ UNCHANGED <<rows, evaluation, told>>

StatusAfter(ok) == IF ok THEN "sent" ELSE "retrying"

\* A claim that is lost after a delivery ends the flush.
Mark ==
  /\ dispatcher.phase = "marking"
  /\ Marks(StatusAfter(dispatcher.ok))
  /\ Dispatches(IF Held \/ ~dispatcher.ok THEN Flushing ELSE IdleDispatcher)
  /\ UNCHANGED <<account, subject, config, window, created, evaluation, mailbox, mishaps, shown,
                 told>>

\* The database refuses the mark: the flush is over and the claim has to expire.
MarkFails ==
  /\ dispatcher.phase = "marking" /\ mishaps < MaxMishaps
  /\ mishaps' = mishaps + 1
  /\ Dispatches(IdleDispatcher)
  /\ UNCHANGED <<rows, evaluation, mailbox, shown, told>>

\* The worker is dropped while it waits for the gate.
Abandon ==
  /\ dispatcher.phase = "claimed" /\ mishaps < MaxMishaps
  /\ mishaps' = mishaps + 1
  /\ Dispatches(IdleDispatcher)
  /\ UNCHANGED <<rows, evaluation, mailbox, shown, told>>

\* The user has read a notification.
Dismiss(e) ==
  /\ e \in mailbox
  /\ mailbox' = mailbox \ {e}
  /\ UNCHANGED <<rows, evaluation, dispatcher, mishaps, shown, told>>

\* The process ends and is started again.
Crash ==
  /\ mishaps < MaxMishaps
  /\ mishaps' = mishaps + 1
  /\ evaluation' = [x \in Evaluations |-> IdleEvaluation]
  /\ Dispatches(IdleDispatcher)
  /\ mailbox' = {}
  /\ UNCHANGED <<rows, shown, told>>

-----------------------------------------------------------------------------
Owner ==
  \/ \E enabled \in BOOLEAN, threshold \in Levels : SaveRule(enabled, threshold)
  \/ SwitchOff \/ SwitchOn
  \/ RemoveAccount \/ RemoveSite \/ ClearRuntimeData
  \/ \E e \in Events : Prune(e) \/ Dismiss(e)

Deliver ==
  \/ StartFlush \/ ChannelDone \/ EnterGate \/ Send \/ SendFails \/ Mark \/ MarkFails
  \/ Abandon
  \/ \E e \in Events : Claim(e)

Next ==
  \/ \E x \in Evaluations : ReadStates(x) \/ FinishEvaluation(x)
  \/ Owner \/ Deliver \/ Crash

Spec == Init /\ [][Next]_vars

\* Steps of a task end; the gate is granted in the order of the requests; the
\* scheduler flushes again and again, and what is not due yet will be.
Fairness ==
  /\ \A x \in Evaluations : WF_vars(FinishEvaluation(x))
  /\ WF_vars(StartFlush) /\ WF_vars(ChannelDone)
  /\ SF_vars(EnterGate) /\ WF_vars(Send) /\ WF_vars(Mark)
  /\ \A e \in Events : SF_vars(Claim(e))

FairSpec == Spec /\ Fairness

-----------------------------------------------------------------------------
(* Properties                                                                *)

\* Every variable has a value of its type.
TypeOK ==
  /\ account \in {"on", "off", "gone"} /\ subject \in BOOLEAN
  /\ config \in Rule \cup {None}
  /\ window \in [Windows -> WindowState \cup {None}]
  /\ event \in [Events -> StoredEvent \cup {None}] /\ created \in 0..MaxEvents
  /\ evaluation \in [Evaluations -> EvaluationType]
  /\ dispatcher \in DispatcherType
  /\ mailbox \subseteq Events /\ mishaps \in 0..MaxMishaps
  /\ shown \in [Events -> [Channels -> Nat]]
  /\ told \in [Windows -> [period : Periods \cup {None}, revision : 0..MaxRevision] \cup {None}]

\* While alerts are on, a window that counts as announced has been shown to the
\* user, or its event still waits for that (commit_subscription_quota_alert_evaluation,
\* update_account_with_alert_preferences).
AnnouncementsAreKept ==
  account = "on" =>
    \A w \in Windows :
      window[w] # None /\ window[w].state = "triggered" =>
        LET e == window[w].event IN
          \/ shown[e]["business"] > 0
          \/ e \in Stored /\ event[e]["business"] \notin Final

\* The same excess of a window, that is of one period and one revision of the rule,
\* is not announced again before the usage was seen below the threshold, however
\* evaluations of several snapshots interleave (the gate of the account).
AnnouncedAnew ==
  \A w \in Windows :
    told'[w] # None /\ created' # created /\ window'[w].event = created' =>
      told[w] = None \/ told'[w] # told[w]

AnnouncedOnce == [][AnnouncedAnew]_vars

\* A channel shows an event once, plus at most once for each crash, refused mark or
\* failure reported by a channel (claims and the dedupe key of the mailbox).
ShownOncePerMishap ==
  \A e \in Events, c \in Channels : shown[e][c] <= 1 + mishaps

\* What is shown belongs to an account that exists and wants it, and to an event
\* that no deletion has removed (the two gates of flush_channel).
ShownWhileWanted ==
  [][\A e \in Events : shown'[e] # shown[e] => account = "on" /\ e \in Stored]_vars

\* When no more events are created, every one that is stored is delivered on all its
\* channels or terminated in the end, unless a deletion removes it.
EveryEventEnds == <>[](\A e \in Stored : Completed(e))

\* The switch of the account terminates deliveries that were claimed but not yet
\* made (mark_subscription_quota_alert_channel_unsupported): what is shown is held.
OnlyHeldIsShown ==
  [][\A e \in Events : shown'[e] # shown[e] => Held]_vars

=============================================================================
