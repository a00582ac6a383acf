------------------------- MODULE SubscriptionsProofs -------------------------
(***************************************************************************)
(* Proofs about QuotaAlerts and SubscriptionSwitch, what the program does  *)
(* with the subscriptions it has read.                                     *)
(*                                                                         *)
(* The alerts: for any windows, periods and evaluations, any number of     *)
(* events, revisions of the rule and mishaps.  The two gates carry the     *)
(* argument: nobody changes what an evaluation has read while the subject  *)
(* of the evaluation exists, and no deletion takes an event away from the  *)
(* delivery that has claimed it.                                           *)
(*                                                                         *)
(* The rule of switching: for any groups, settings, quotas and callers.    *)
(* An evaluation writes back the whole rule it has read.  What it has read *)
(* are still the user's settings, because every user who changes them      *)
(* takes the gate of the account, and who holds it is past "waiting".  Who *)
(* clears the data or removes the account does not: what was read is then  *)
(* what was cleared, and may only come back while the account is there.    *)
(***************************************************************************)
EXTENDS QuotaAlerts, SubscriptionSwitch, FiniteSetTheorems, SequenceTheorems, WellFoundedInduction, TLAPS

-----------------------------------------------------------------------------
(* The invariant *)

ToldOf == [period : Periods \cup {None}, revision : 0..MaxRevision]

Triggered(w) == window[w] # None /\ window[w].state = "triggered"

\* Events get their numbers in turn; what refers to an event refers to one of these.
Numbered ==
  /\ \A e \in Events : e > created => event[e] = None /\ \A c \in Channels : shown[e][c] = 0
  /\ \A w \in Windows : window[w] # None =>
       /\ window[w].event # None => window[w].event <= created
       /\ window[w].state = "triggered" => window[w].event # None
  /\ dispatcher.phase \in {"claimed", "sending", "marking"} =>
       dispatcher.event \in Events /\ dispatcher.event <= created

\* One evaluation has the gate of the account, and while its subject exists nobody changes
\* what it has read.
ReadingIsCurrent ==
  \A x \in Evaluations : evaluation[x].phase = "reading" =>
    /\ \A y \in Evaluations : evaluation[y].phase = "reading" => y = x
    /\ dispatcher.phase \notin {"sending", "marking"}
    /\ created < MaxEvents
    /\ evaluation[x].reading \in Readings /\ evaluation[x].rule \in Rule
    /\ evaluation[x].window \in [Windows -> WindowState \cup {None}]
    /\ subject => evaluation[x].window = window

\* What is claimed stays stored as long as the account does; what is sent is wanted.
ClaimsAreStored ==
  /\ dispatcher.phase = "claimed" => account = "gone" \/ event[dispatcher.event] # None
  /\ dispatcher.phase \in {"sending", "marking"} => account = "on" /\ event[dispatcher.event] # None
  /\ dispatcher.phase \in {"claimed", "sending", "marking"} /\ event[dispatcher.event] # None =>
       event[dispatcher.event][dispatcher.channel] \in {"delivering", "unsupported"}

\* What was announced of a window is its excess, as long as it counts as one.
ToldIsTriggered ==
  \A w \in Windows :
    told[w] = IF Triggered(w) THEN [period |-> window[w].period, revision |-> window[w].revision]
              ELSE None

\* The notifications of the process were shown, and so is what counts as sent to it.
BusinessIsShown ==
  /\ \A e \in mailbox : shown[e]["business"] > 0
  /\ dispatcher.phase = "marking" /\ dispatcher.ok /\ dispatcher.channel = "business" =>
       shown[dispatcher.event]["business"] > 0

\* The channel may be tried again, or is about to be.
MayBeShown(e, c) ==
  \/ event[e] # None /\ event[e][c] \notin Final
     /\ ~(dispatcher.phase = "marking" /\ dispatcher.ok /\ dispatcher.event = e /\ dispatcher.channel = c)
  \/ /\ dispatcher.event = e /\ dispatcher.channel = c
     /\ dispatcher.phase \in {"claimed", "sending"} \/ (dispatcher.phase = "marking" /\ ~dispatcher.ok)

\* A channel that may show its event again has a mishap for each time that it did.
RepeatsAreMishaps ==
  \A e \in Events, c \in Channels :
    shown[e][c] <= 1 + mishaps /\ (MayBeShown(e, c) => shown[e][c] <= mishaps)

QuotaInv ==
  /\ TypeOK /\ Numbered /\ ReadingIsCurrent /\ ClaimsAreStored /\ ToldIsTriggered
  /\ BusinessIsShown /\ AnnouncementsAreKept /\ RepeatsAreMishaps

-----------------------------------------------------------------------------
(* The types *)

LEMMA RuleTypes == TypeOK => EffectiveRule \in Rule
  BY BoundsType DEF TypeOK, EffectiveRule, DefaultRule, Rule, Levels

LEMMA IdleTypes ==
  IdleDispatcher \in DispatcherType /\ IdleDispatcher.phase = "idle"
  BY DEF IdleDispatcher, DispatcherType, Channels

LEMMA FlushingType ==
  ASSUME TypeOK
  PROVE  /\ Flushing \in DispatcherType
         /\ Flushing.phase = "flushing"
         /\ Flushing.channel = dispatcher.channel
<1>1. dispatcher \in DispatcherType
  BY DEF TypeOK
<1>2. dispatcher.channel \in Channels
  BY <1>1 DEF DispatcherType
<1> DEFINE begun == [IdleDispatcher EXCEPT !.phase = "flushing"]
<1>3. begun \in DispatcherType /\ begun.phase = "flushing"
  BY DEF IdleDispatcher, DispatcherType, Channels
<1>4. Flushing = [begun EXCEPT !.channel = dispatcher.channel]
  BY DEF Flushing
<1> HIDE DEF begun
<1> QED
  BY <1>2, <1>3, <1>4 DEF DispatcherType

LEMMA EvaluationTypes ==
  IdleEvaluation \in EvaluationType /\ IdleEvaluation.phase = "idle"
  BY DEF IdleEvaluation, EvaluationType

\* What an evaluation stores of a window.
LEMMA NextStateType ==
  ASSUME TypeOK, created < MaxEvents,
         NEW q \in EvaluationType, q.reading \in Readings, q.rule \in Rule,
         q.window \in [Windows -> WindowState \cup {None}],
         NEW w \in Observed(q)
  PROVE  /\ NextState(q, w) \in WindowState
         /\ Period(q, w) \in Periods \cup {None}
         /\ created + 1 \in Events
<1>1. w \in Windows /\ q.reading[w] \in Reading
  BY DEF Observed, Readings
<1>2. q.window[w] \in WindowState \cup {None}
  BY <1>1
<1>3. Period(q, w) \in Periods \cup {None}
  BY <1>1, <1>2 DEF Period, Reading, WindowState
<1>4. created + 1 \in Events
  BY BoundsType DEF TypeOK, Events
<1>5. q.rule.revision \in 0..MaxRevision
  BY DEF Rule
<1>6. (IF w \in NewlyTriggered(q) THEN created + 1
       ELSE IF q.window[w] = None THEN None ELSE q.window[w].event) \in Events \cup {None}
  BY <1>2, <1>4 DEF WindowState
<1>7. NextState(q, w) \in WindowState
  BY <1>3, <1>5, <1>6 DEF NextState, WindowState
<1> QED
  BY <1>3, <1>4, <1>7

\* What an evaluation stores, by window.
LEMMA StoresEffect ==
  ASSUME TypeOK, created < MaxEvents,
         NEW q \in EvaluationType, q.reading \in Readings, q.rule \in Rule,
         q.window \in [Windows -> WindowState \cup {None}], StoreEvaluation(q)
  PROVE  /\ window' \in [Windows -> WindowState \cup {None}]
         /\ told' \in [Windows -> ToldOf \cup {None}]
         /\ \A w \in Windows : window'[w] = IF w \in Observed(q) THEN NextState(q, w) ELSE window[w]
         /\ \A w \in Windows : told'[w] =
              IF w \in NewlyTriggered(q) THEN [period |-> Period(q, w), revision |-> q.rule.revision]
              ELSE IF w \in Observed(q) /\ ~Reached(q, w) THEN None ELSE told[w]
         /\ \/ NewlyTriggered(q) = {} /\ event' = event /\ created' = created
            \/ /\ NewlyTriggered(q) # {} /\ created' = created + 1
               /\ event' \in [Events -> StoredEvent \cup {None}]
               /\ \A e \in Events \ {created + 1} : event'[e] = event[e]
               /\ event'[created + 1] # None
               /\ event'[created + 1]["business"] = "pending"
<1>1. PICK supported \in BOOLEAN : StoresStates(q) /\ StoresEvent(q, supported)
  BY DEF StoreEvaluation, Commits
<1>2. \A w \in Observed(q) : NextState(q, w) \in WindowState /\ Period(q, w) \in Periods \cup {None}
  BY NextStateType
<1>3. created + 1 \in Events
  BY BoundsType DEF TypeOK, Events
<1>4. NewlyTriggered(q) \subseteq Observed(q)
  BY DEF NewlyTriggered
<1>5. /\ window' = [w \in Windows |-> IF w \in Observed(q) THEN NextState(q, w) ELSE window[w]]
      /\ told' = [w \in Windows |->
           IF w \in NewlyTriggered(q) THEN [period |-> Period(q, w), revision |-> q.rule.revision]
           ELSE IF w \in Observed(q) /\ ~Reached(q, w) THEN None ELSE told[w]]
  BY <1>1 DEF StoresStates
<1>6. window' \in [Windows -> WindowState \cup {None}]
  BY <1>2, <1>5 DEF TypeOK
<1>7. \A w \in NewlyTriggered(q) : [period |-> Period(q, w), revision |-> q.rule.revision] \in ToldOf
  BY <1>2, <1>4 DEF ToldOf, Rule
<1>8. told' \in [Windows -> ToldOf \cup {None}]
  BY <1>5, <1>7 DEF TypeOK, ToldOf
<1>9. CASE NewlyTriggered(q) = {}
  BY <1>1, <1>5, <1>6, <1>8, <1>9 DEF StoresEvent
<1>10. CASE NewlyTriggered(q) # {}
  <2> DEFINE new == [c \in Channels |-> IF c = "business" \/ supported THEN "pending" ELSE "unsupported"]
  <2>1. created' = created + 1 /\ event' = [event EXCEPT ![created + 1] = new]
    BY <1>1, <1>10 DEF StoresEvent
  <2>2. new \in StoredEvent /\ new["business"] = "pending"
    BY DEF StoredEvent, Status, Waiting, Final, Channels
  <2> HIDE DEF new
  <2>3. new # None
    BY <2>2, NoneIsNothing
  <2> QED
    BY <1>3, <1>5, <1>6, <1>8, <1>10, <2>1, <2>2, <2>3 DEF TypeOK
<1> QED
  BY <1>9, <1>10

\* One channel of one event changes its status.
OneChannel(e, c, status) ==
  /\ event' \in [Events -> StoredEvent \cup {None}]
  /\ \A f \in Events : event'[f] = None <=> event[f] = None
  /\ \A f \in Events \ {e} : event'[f] = event[f]
  /\ event'[e][c] = status
  /\ \A d \in Channels \ {c} : event'[e][d] = event[e][d]

LEMMA ChannelEffect ==
  ASSUME TypeOK, NEW e \in Stored, NEW c \in Channels, NEW status \in Status,
         event' = [event EXCEPT ![e][c] = status]
  PROVE  OneChannel(e, c, status)
<1> DEFINE new == [event[e] EXCEPT ![c] = status]
<1>1. e \in Events /\ event[e] \in StoredEvent /\ event[e] # None
  BY DEF Stored, TypeOK
<1>2. new \in StoredEvent /\ new[c] = status /\ \A d \in Channels \ {c} : new[d] = event[e][d]
  BY <1>1 DEF StoredEvent
<1>3. event' = [event EXCEPT ![e] = new]
  OBVIOUS
<1>4. event \in [Events -> StoredEvent \cup {None}]
  BY DEF TypeOK
<1> HIDE DEF new
<1>5. new # None
  BY <1>2, NoneIsNothing
<1> QED
  BY <1>1, <1>2, <1>3, <1>4, <1>5 DEF OneChannel

LEMMA MarksEffect ==
  ASSUME TypeOK, NEW status \in Status, Marks(status)
  PROVE  \/ Held /\ OneChannel(dispatcher.event, dispatcher.channel, status)
         \/ ~Held /\ event' = event
<1>1. dispatcher.channel \in Channels
  BY DEF TypeOK, DispatcherType
<1>2. CASE Held
  BY <1>1, <1>2, ChannelEffect DEF Held, Marks
<1>3. CASE ~Held
  BY <1>3 DEF Marks
<1> QED
  BY <1>2, <1>3

\* What a channel shows.
LEMMA ShowsEffect ==
  ASSUME TypeOK, Reaches, dispatcher.event \in Events
  PROVE  /\ shown' \in [Events -> [Channels -> Nat]]
         /\ \A e \in Events, c \in Channels :
              \/ shown'[e][c] = shown[e][c]
              \/ e = dispatcher.event /\ c = dispatcher.channel /\ shown'[e][c] = shown[e][c] + 1
         /\ dispatcher.channel = "business" =>
              /\ mailbox' = mailbox \cup {dispatcher.event}
              /\ shown'[dispatcher.event]["business"] > 0 \/ dispatcher.event \in mailbox
         /\ dispatcher.channel = "windows" => mailbox' = mailbox
<1>1. dispatcher.channel \in Channels
  BY DEF TypeOK, DispatcherType
<1>2. CASE Shows
  <2> DEFINE d == dispatcher.event  c == dispatcher.channel
  <2>1. shown' = [shown EXCEPT ![d][c] = @ + 1]
    BY <1>2 DEF Shows
  <2>2. shown \in [Events -> [Channels -> Nat]] /\ d \in Events /\ c \in Channels
    BY <1>1 DEF TypeOK
  <2> HIDE DEF d, c
  <2>3. /\ shown' \in [Events -> [Channels -> Nat]]
        /\ \A e \in Events, b \in Channels :
              \/ shown'[e][b] = shown[e][b]
              \/ e = d /\ b = c /\ shown'[e][b] = shown[e][b] + 1
        /\ shown'[d][c] = shown[d][c] + 1
    BY <2>1, <2>2
  <2>4. shown'[d][c] > 0
    BY <2>2, <2>3
  <2> QED
    BY <1>2, <2>3, <2>4 DEF Reaches, d, c
<1>3. CASE ~Shows
  BY <1>3 DEF Reaches, TypeOK, Channels, DispatcherType
<1> QED
  BY <1>2, <1>3

-----------------------------------------------------------------------------
(* The state keeps its type *)

LEMMA ReadTypes ==
  ASSUME TypeOK, NEW x \in Evaluations, ReadStates(x)
  PROVE  TypeOK' /\ (evaluation'[x] # evaluation[x] =>
           /\ evaluation'[x].phase = "reading" /\ evaluation'[x].reading \in Readings
           /\ evaluation'[x].rule = EffectiveRule /\ evaluation'[x].window = window)
         /\ \A y \in Evaluations \ {x} : evaluation'[y] = evaluation[y]
<1>1. PICK reading \in Readings :
        evaluation' = [evaluation EXCEPT ![x] =
          IF EffectiveRule.enabled
          THEN [phase |-> "reading", reading |-> reading, rule |-> EffectiveRule, window |-> window]
          ELSE @]
  BY DEF ReadStates
<1> DEFINE new == [phase |-> "reading", reading |-> reading, rule |-> EffectiveRule, window |-> window]
<1>2. new \in EvaluationType
  BY RuleTypes DEF EvaluationType, TypeOK
<1>3. new.phase = "reading" /\ new.reading \in Readings /\ new.rule = EffectiveRule /\ new.window = window
  OBVIOUS
<1>4. evaluation' = [evaluation EXCEPT ![x] = IF EffectiveRule.enabled THEN new ELSE @]
  BY <1>1
<1> HIDE DEF new
<1>5. evaluation' \in [Evaluations -> EvaluationType]
      /\ (evaluation'[x] = evaluation[x] \/ evaluation'[x] = new)
      /\ \A y \in Evaluations \ {x} : evaluation'[y] = evaluation[y]
  BY <1>2, <1>4 DEF TypeOK
<1>6. /\ subject' = TRUE
      /\ UNCHANGED <<account, config, window, event, created, dispatcher, mailbox, mishaps, shown, told>>
  BY DEF ReadStates
<1>7. TypeOK'
  BY <1>5, <1>6 DEF TypeOK
<1> QED
  BY <1>3, <1>5, <1>7

LEMMA FinishTypes ==
  ASSUME TypeOK, ReadingIsCurrent, NEW x \in Evaluations, FinishEvaluation(x)
  PROVE  /\ TypeOK'
         /\ evaluation' = [evaluation EXCEPT ![x] = IdleEvaluation]
<1>1. /\ evaluation' = [evaluation EXCEPT ![x] = IdleEvaluation]
      /\ UNCHANGED <<account, subject, config, dispatcher, mailbox, mishaps, shown>>
      /\ evaluation[x].phase = "reading"
  BY DEF FinishEvaluation
<1>2. evaluation' \in [Evaluations -> EvaluationType]
  BY <1>1, EvaluationTypes DEF TypeOK
<1>3. CASE UNCHANGED <<window, event, created, told>>
  BY <1>1, <1>2, <1>3 DEF TypeOK
<1>4. CASE subject /\ StoreEvaluation(evaluation[x])
  <2>1. /\ evaluation[x] \in EvaluationType /\ evaluation[x].reading \in Readings
        /\ evaluation[x].rule \in Rule /\ created < MaxEvents
        /\ evaluation[x].window \in [Windows -> WindowState \cup {None}]
    BY <1>1 DEF ReadingIsCurrent, TypeOK
  <2>2. /\ window' \in [Windows -> WindowState \cup {None}]
        /\ told' \in [Windows -> ToldOf \cup {None}]
        /\ event' \in [Events -> StoredEvent \cup {None}]
        /\ created' = created \/ created' = created + 1
    BY <1>4, <2>1, StoresEffect DEF TypeOK
  <2>3. created' \in 0..MaxEvents
    BY <2>1, <2>2, BoundsType DEF TypeOK
  <2> QED
    BY <1>1, <1>2, <2>2, <2>3 DEF TypeOK, ToldOf
<1> QED
  BY <1>1, <1>3, <1>4 DEF FinishEvaluation

LEMMA SaveRuleTypes ==
  ASSUME TypeOK, NEW enabled \in BOOLEAN, NEW threshold \in Levels, SaveRule(enabled, threshold)
  PROVE  TypeOK'
<1> DEFINE old == EffectiveRule
           same == old.enabled = enabled /\ old.threshold = threshold
           revision == IF same THEN old.revision ELSE old.revision + 1
<1>1. old \in Rule
  BY RuleTypes
<1>2. (same \/ old.revision < MaxRevision)
      /\ config' = [enabled |-> enabled, threshold |-> threshold, revision |-> revision]
  BY DEF SaveRule
<1>3. old.revision \in 0..MaxRevision
  BY <1>1 DEF Rule
<1> HIDE DEF same, old
<1>4. revision \in 0..MaxRevision
  BY <1>2, <1>3, BoundsType
<1>5. config' \in Rule
  BY <1>2, <1>4 DEF Rule
<1>6. /\ subject' = TRUE
      /\ UNCHANGED <<account, window, event, created, process, mishaps, shown, told>>
  BY DEF SaveRule
<1> QED
  BY <1>5, <1>6 DEF TypeOK, process

\* The rows of an account that is switched, deleted or maintained.
LEMMA OwnerTypes ==
  ASSUME TypeOK, \/ SwitchOff \/ SwitchOn \/ RemoveAccount \/ RemoveSite \/ ClearRuntimeData
                 \/ \E e \in Events : Prune(e) \/ Dismiss(e)
  PROVE  TypeOK'
<1>1. NoWindows \in [Windows -> WindowState \cup {None}]
      /\ NoWindows \in [Windows -> ToldOf \cup {None}]
      /\ NoEvents \in [Events -> StoredEvent \cup {None}]
  BY DEF NoWindows, NoEvents
<1>2. CASE SwitchOff
  <2>1. \A e \in Events : event[e] # None => Terminated(e) \in StoredEvent
    BY DEF Terminated, StoredEvent, Status, Final, Waiting, TypeOK
  <2>2. event' \in [Events -> StoredEvent \cup {None}]
    BY <1>2, <2>1 DEF SwitchOff, TypeOK
  <2> QED
    BY <1>1, <1>2, <2>2 DEF SwitchOff, ClearsWindows, process, TypeOK, ToldOf
<1>3. CASE SwitchOn
  BY <1>1, <1>3 DEF SwitchOn, ClearsWindows, process, TypeOK, ToldOf
<1>4. CASE RemoveAccount \/ RemoveSite \/ ClearRuntimeData
  <2>1. Deletes /\ account' \in {"on", "off", "gone"}
    BY <1>4 DEF RemoveAccount, RemoveSite, ClearRuntimeData, TypeOK
  <2> QED
    BY <1>1, <2>1 DEF Deletes, process, TypeOK, ToldOf
<1>5. ASSUME NEW e \in Events, Prune(e) \/ Dismiss(e)
      PROVE  TypeOK'
  BY <1>5 DEF Prune, Dismiss, rows, process, TypeOK
<1> QED
  BY <1>2, <1>3, <1>4, <1>5

\* What a delivery does to the dispatcher.
LEMMA DispatcherSteps ==
  ASSUME TypeOK, Deliver
  PROVE  /\ dispatcher' \in DispatcherType
         /\ UNCHANGED <<account, subject, config, window, created, evaluation, told>>
<1>1. Flushing \in DispatcherType /\ IdleDispatcher \in DispatcherType
  BY FlushingType, IdleTypes
<1>2. CASE StartFlush \/ ChannelDone
  <2>1. [IdleDispatcher EXCEPT !.phase = "flushing"] \in DispatcherType
    BY IdleTypes DEF DispatcherType
  <2>2. [Flushing EXCEPT !.channel = "windows"] \in DispatcherType
    BY <1>1 DEF DispatcherType, Channels
  <2> QED
    BY <1>1, <1>2, <2>1, <2>2 DEF StartFlush, ChannelDone, Dispatches, rows
<1>3. CASE EnterGate
  BY <1>1, <1>3 DEF EnterGate, RechecksSwitch, Dispatches, TypeOK, DispatcherType
<1>4. CASE Send \/ SendFails
  <2>1. [dispatcher EXCEPT !.phase = "marking"] \in DispatcherType
    BY DEF TypeOK, DispatcherType
  <2>2. \A ok \in BOOLEAN : [[dispatcher EXCEPT !.phase = "marking"] EXCEPT !.ok = ok] \in DispatcherType
    BY <2>1 DEF DispatcherType
  <2> QED
    BY <1>4, <2>2 DEF Send, SendFails, Dispatches, rows
<1>5. CASE Mark \/ MarkFails \/ Abandon
  BY <1>1, <1>5 DEF Mark, MarkFails, Abandon, Dispatches, rows
<1>6. ASSUME NEW e \in Events, Claim(e)
      PROVE  /\ dispatcher' \in DispatcherType
             /\ UNCHANGED <<account, subject, config, window, created, evaluation, told>>
  <2>1. [Flushing EXCEPT !.phase = "claimed"] \in DispatcherType
    BY <1>1 DEF DispatcherType
  <2>2. [[Flushing EXCEPT !.phase = "claimed"] EXCEPT !.event = e] \in DispatcherType
    BY <2>1 DEF DispatcherType
  <2> QED
    BY <1>6, <2>2 DEF Claim, Dispatches
<1> QED
  BY <1>2, <1>3, <1>4, <1>5, <1>6 DEF Deliver

-----------------------------------------------------------------------------
(* The steps of a delivery *)

Busy == dispatcher.phase \in {"claimed", "sending", "marking"}

Rests == dispatcher'.phase \in {"idle", "flushing"}

SameDelivery == dispatcher'.event = dispatcher.event /\ dispatcher'.channel = dispatcher.channel

\* The flush begins, goes on or ends, or its claim is left behind by a mishap.
Flushes ==
  /\ Rests /\ event' = event /\ UNCHANGED <<mailbox, shown>>
  /\ (~Busy /\ mishaps' = mishaps) \/ mishaps' = mishaps + 1

Claims(e) ==
  /\ ~Busy /\ e \in Stored /\ event[e][dispatcher.channel] \in Claimable
  /\ OneChannel(e, dispatcher.channel, "delivering")
  /\ dispatcher'.phase = "claimed" /\ dispatcher'.event = e
  /\ dispatcher'.channel = dispatcher.channel
  /\ UNCHANGED <<mailbox, shown, mishaps>>

Enters ==
  /\ dispatcher.phase = "claimed" /\ account = "on" /\ AccountGateFree
  /\ dispatcher'.phase = "sending" /\ SameDelivery
  /\ UNCHANGED <<event, mailbox, shown, mishaps>>

IsRefused ==
  /\ dispatcher.phase = "claimed" /\ account # "on" /\ Marks("unsupported")
  /\ Rests /\ UNCHANGED <<mailbox, shown, mishaps>>

Sends ==
  /\ dispatcher.phase = "sending" /\ Reaches
  /\ dispatcher'.phase = "marking" /\ dispatcher'.ok /\ SameDelivery
  /\ UNCHANGED <<event, mishaps>>

Fails ==
  /\ dispatcher.phase = "sending" /\ (Reaches \/ UNCHANGED <<mailbox, shown>>)
  /\ dispatcher'.phase = "marking" /\ ~dispatcher'.ok /\ SameDelivery
  /\ mishaps' = mishaps + 1 /\ UNCHANGED event

IsMarked ==
  /\ dispatcher.phase = "marking" /\ Marks(StatusAfter(dispatcher.ok))
  /\ Rests /\ UNCHANGED <<mailbox, shown, mishaps>>

LEMMA DeliverEffect ==
  ASSUME TypeOK, Deliver
  PROVE  \/ Flushes \/ Enters \/ IsRefused \/ Sends \/ Fails \/ IsMarked
         \/ \E e \in Events : Claims(e)
<1>1. /\ Flushing \in DispatcherType /\ Flushing.phase = "flushing"
      /\ Flushing.channel = dispatcher.channel /\ IdleDispatcher.phase = "idle"
  BY FlushingType, IdleTypes
<1>2. dispatcher \in DispatcherType /\ dispatcher.channel \in Channels
  BY DEF TypeOK, DispatcherType
<1>3. CASE StartFlush \/ ChannelDone
  <2>1. [IdleDispatcher EXCEPT !.phase = "flushing"].phase = "flushing"
    BY IdleTypes DEF DispatcherType
  <2>2. [Flushing EXCEPT !.channel = "windows"].phase = "flushing"
    BY <1>1 DEF DispatcherType
  <2> QED
    BY <1>1, <1>3, <2>1, <2>2 DEF StartFlush, ChannelDone, Dispatches, rows, Flushes, Rests, Busy
<1>4. CASE EnterGate
  <2> DEFINE new == [dispatcher EXCEPT !.phase = "sending"]
  <2>1. new.phase = "sending" /\ new.event = dispatcher.event /\ new.channel = dispatcher.channel
    BY <1>2 DEF DispatcherType
  <2>2. \/ account = "on" /\ dispatcher' = new /\ event' = event
        \/ account # "on" /\ dispatcher' = Flushing /\ Marks("unsupported")
    BY <1>4 DEF EnterGate, RechecksSwitch, Dispatches
  <2> HIDE DEF new
  <2> QED
    BY <1>1, <1>4, <2>1, <2>2 DEF EnterGate, Enters, IsRefused, Rests, SameDelivery
<1>5. ASSUME NEW ok \in BOOLEAN,
             Dispatches([dispatcher EXCEPT !.phase = "marking", !.ok = ok])
      PROVE  dispatcher'.phase = "marking" /\ dispatcher'.ok = ok /\ SameDelivery
  <2> DEFINE moved == [dispatcher EXCEPT !.phase = "marking"]
  <2>1. moved \in DispatcherType /\ moved.phase = "marking"
        /\ moved.event = dispatcher.event /\ moved.channel = dispatcher.channel
    BY <1>2 DEF DispatcherType
  <2>2. dispatcher' = [moved EXCEPT !.ok = ok]
    BY <1>5 DEF Dispatches
  <2> HIDE DEF moved
  <2> QED
    BY <2>1, <2>2 DEF DispatcherType, SameDelivery
<1>6. CASE Send
  BY <1>5, <1>6 DEF Send, Sends, rows
<1>7. CASE SendFails
  BY <1>5, <1>7 DEF SendFails, Fails, rows
<1>8. CASE Mark
  BY <1>1, <1>8 DEF Mark, Dispatches, IsMarked, Rests
<1>9. CASE MarkFails \/ Abandon
  BY <1>1, <1>9 DEF MarkFails, Abandon, Dispatches, rows, Flushes, Rests
<1>10. ASSUME NEW e \in Events, Claim(e)
       PROVE  Claims(e)
  <2> DEFINE moved == [Flushing EXCEPT !.phase = "claimed"]
  <2>1. moved \in DispatcherType /\ moved.phase = "claimed" /\ moved.channel = dispatcher.channel
    BY <1>1 DEF DispatcherType
  <2>2. dispatcher' = [moved EXCEPT !.event = e]
    BY <1>10 DEF Claim, Dispatches
  <2> HIDE DEF moved
  <2>3. dispatcher'.phase = "claimed" /\ dispatcher'.event = e /\ dispatcher'.channel = dispatcher.channel
    BY <2>1, <2>2 DEF DispatcherType
  <2>4. e \in Stored /\ "delivering" \in Status
    BY <1>10 DEF Claim, Status
  <2>5. OneChannel(e, dispatcher.channel, "delivering")
    BY <1>2, <1>10, <2>4, ChannelEffect DEF Claim
  <2> QED
    BY <1>10, <2>3, <2>4, <2>5 DEF Claim, Claims, Busy
<1> QED
  BY <1>3, <1>4, <1>6, <1>7, <1>8, <1>9, <1>10 DEF Deliver

LEMMA DeliverTypes ==
  ASSUME TypeOK, Numbered, Deliver
  PROVE  TypeOK'
<1>1. /\ dispatcher' \in DispatcherType
      /\ UNCHANGED <<account, subject, config, window, created, evaluation, told>>
  BY DispatcherSteps
<1>2. mishaps' \in 0..MaxMishaps
  <2>1. mishaps' = mishaps \/ (mishaps' = mishaps + 1 /\ mishaps < MaxMishaps)
    BY DEF Deliver, StartFlush, ChannelDone, EnterGate, Send, SendFails, Mark, MarkFails, Abandon, Claim
  <2> QED
    BY <2>1, BoundsType DEF TypeOK
<1>3. event' \in [Events -> StoredEvent \cup {None}] /\ mailbox' \subseteq Events
      /\ shown' \in [Events -> [Channels -> Nat]]
  <2>0. event \in [Events -> StoredEvent \cup {None}] /\ mailbox \subseteq Events
        /\ shown \in [Events -> [Channels -> Nat]]
    BY DEF TypeOK
  <2>1. ASSUME NEW status \in Status, Marks(status)
        PROVE  event' \in [Events -> StoredEvent \cup {None}]
    BY <2>0, <2>1, MarksEffect DEF OneChannel
  <2>2. "unsupported" \in Status /\ StatusAfter(dispatcher.ok) \in Status
    BY DEF Status, Final, Waiting, StatusAfter
  <2>3. CASE Flushes \/ Enters \/ IsRefused \/ IsMarked
    BY <2>0, <2>1, <2>2, <2>3 DEF Flushes, Enters, IsRefused, IsMarked
  <2>4. CASE Sends \/ Fails
    <3>1. dispatcher.event \in Events
      BY <2>4 DEF Numbered, Sends, Fails
    <3>2. CASE Reaches
      <4>1. dispatcher.channel \in {"business", "windows"}
        BY DEF TypeOK, DispatcherType, Channels
      <4> QED
        BY <2>0, <2>4, <3>1, <3>2, <4>1, ShowsEffect DEF Sends, Fails
    <3>3. CASE UNCHANGED <<mailbox, shown>>
      BY <2>0, <2>4, <3>3 DEF Sends, Fails
    <3> QED
      BY <2>4, <3>2, <3>3 DEF Sends, Fails
  <2>5. ASSUME NEW e \in Events, Claims(e)
        PROVE  event' \in [Events -> StoredEvent \cup {None}] /\ UNCHANGED <<mailbox, shown>>
    BY <2>5 DEF Claims, OneChannel
  <2> QED
    BY <2>0, <2>3, <2>4, <2>5, DeliverEffect
<1> QED
  BY <1>1, <1>2, <1>3 DEF TypeOK

LEMMA CrashTypes ==
  ASSUME TypeOK, Crash
  PROVE  /\ TypeOK' /\ dispatcher'.phase = "idle" /\ mailbox' = {} /\ mishaps' = mishaps + 1
         /\ \A x \in Evaluations : evaluation'[x].phase = "idle"
         /\ UNCHANGED <<rows, shown, told>>
<1>1. /\ evaluation' = [x \in Evaluations |-> IdleEvaluation] /\ dispatcher' = IdleDispatcher
      /\ mailbox' = {} /\ mishaps' = mishaps + 1 /\ mishaps < MaxMishaps
      /\ UNCHANGED <<rows, shown, told>>
  BY DEF Crash, Dispatches
<1>2. mishaps' \in 0..MaxMishaps
  BY <1>1, BoundsType DEF TypeOK
<1> QED
  BY <1>1, <1>2, EvaluationTypes, IdleTypes DEF TypeOK, rows

\* The steps of the owner, of an evaluation, of a delivery, and a crash.
LEMMA TypeStep ==
  ASSUME TypeOK, Numbered, ReadingIsCurrent, [Next]_vars
  PROVE  TypeOK'
<1>1. CASE UNCHANGED vars
  BY <1>1 DEF vars, rows, process, TypeOK
<1> QED
  BY <1>1, ReadTypes, FinishTypes, SaveRuleTypes, OwnerTypes, DeliverTypes, CrashTypes DEF Next, Owner

-----------------------------------------------------------------------------
(* The numbers of the events *)

LEMMA NumberedStep ==
  ASSUME TypeOK, Numbered, ReadingIsCurrent, [Next]_vars
  PROVE  Numbered'
<1>1. ASSUME NEW x \in Evaluations, FinishEvaluation(x)
      PROVE  Numbered'
  <2>1. /\ UNCHANGED <<dispatcher, shown>>
        /\ evaluation[x].phase = "reading"
    BY <1>1 DEF FinishEvaluation
  <2>2. CASE UNCHANGED <<window, event, created, told>>
    BY <2>1, <2>2 DEF Numbered
  <2>3. CASE subject /\ StoreEvaluation(evaluation[x])
    <3> DEFINE q == evaluation[x]
    <3>1. /\ q \in EvaluationType /\ q.reading \in Readings /\ q.rule \in Rule
          /\ q.window \in [Windows -> WindowState \cup {None}]
          /\ q.window = window /\ created < MaxEvents
      BY <2>1, <2>3 DEF ReadingIsCurrent, TypeOK
    <3>2. created \in Nat /\ created + 1 \in Events
      BY <3>1, BoundsType DEF TypeOK, Events
    <3> HIDE DEF q
    <3>3. /\ \A w \in Windows : window'[w] = IF w \in Observed(q) THEN NextState(q, w) ELSE window[w]
          /\ \/ NewlyTriggered(q) = {} /\ event' = event /\ created' = created
             \/ /\ NewlyTriggered(q) # {} /\ created' = created + 1
                /\ \A e \in Events \ {created + 1} : event'[e] = event[e]
      BY <2>3, <3>1, StoresEffect DEF q
    <3>4. \A e \in Events : e > created' => event'[e] = None /\ \A c \in Channels : shown[e][c] = 0
      <4>1. Events \subseteq Nat
        BY DEF Events
      <4> QED
        BY <3>2, <3>3, <4>1 DEF Numbered
    <3>5. ASSUME NEW w \in Windows, window'[w] # None
          PROVE  /\ window'[w].event # None => window'[w].event <= created'
                 /\ window'[w].state = "triggered" => window'[w].event # None
      <4>1. CASE w \notin Observed(q)
        <5>1. window'[w] = window[w]
          BY <3>3, <4>1
        <5>2. window[w].event # None => window[w].event \in Nat
          BY <3>5, <5>1 DEF TypeOK, WindowState, Events
        <5> QED
          BY <3>2, <3>3, <3>5, <5>1, <5>2 DEF Numbered
      <4>2. CASE w \in Observed(q)
        <5>1. window'[w] = NextState(q, w)
          BY <3>3, <4>2
        <5>2. window'[w].state = (IF Reached(q, w) THEN "triggered" ELSE "armed")
          BY <5>1 DEF NextState
        <5>3. window'[w].event = (IF w \in NewlyTriggered(q) THEN created + 1
                                  ELSE IF q.window[w] = None THEN None ELSE q.window[w].event)
          BY <5>1 DEF NextState
        <5>4. CASE w \in NewlyTriggered(q)
          BY <3>2, <3>3, <5>3, <5>4, NoneIsNothing
        <5>5. CASE w \notin NewlyTriggered(q)
          <6>1. Reached(q, w) => q.window[w] # None /\ q.window[w].state = "triggered"
            <7>1. q.window[w] # None => q.window[w].state \in {"armed", "triggered"}
              BY <3>1 DEF WindowState
            <7> QED
              BY <4>2, <5>5, <7>1 DEF NewlyTriggered, WasArmed
          <6>2. q.window[w] # None =>
                  /\ q.window[w].event # None => q.window[w].event <= created /\ q.window[w].event \in Nat
                  /\ q.window[w].state = "triggered" => q.window[w].event # None
            BY <3>1 DEF Numbered, WindowState, Events
          <6>3. created' \in Nat /\ created <= created'
            BY <3>2, <3>3
          <6> QED
            BY <3>2, <5>2, <5>3, <5>5, <6>1, <6>2, <6>3
        <5> QED
          BY <5>4, <5>5
      <4> QED
        BY <4>1, <4>2
    <3> QED
      BY <2>1, <3>2, <3>3, <3>4, <3>5 DEF Numbered, TypeOK, Events
  <2> QED
    BY <1>1, <2>2, <2>3 DEF FinishEvaluation
<1>2. CASE UNCHANGED <<event, created, window, shown>>
           /\ (dispatcher' = dispatcher \/ Rests)
  BY <1>2 DEF Numbered, Rests
<1>3. ASSUME NEW x \in Evaluations, ReadStates(x)
      PROVE  Numbered'
  BY <1>2, <1>3 DEF ReadStates
<1>4. ASSUME NEW a \in BOOLEAN, NEW l \in Levels, SaveRule(a, l)
      PROVE  Numbered'
  BY <1>2, <1>4 DEF SaveRule, process
<1>5. CASE \/ SwitchOff \/ SwitchOn \/ RemoveAccount \/ RemoveSite \/ ClearRuntimeData
           \/ \E e \in Events : Prune(e) \/ Dismiss(e)
  <2>1. UNCHANGED <<created, shown, dispatcher>>
    BY <1>5 DEF SwitchOff, SwitchOn, RemoveAccount, RemoveSite, ClearRuntimeData, Deletes, Prune,
       Dismiss, process, rows
  <2>2. window' = window \/ window' = NoWindows
    BY <1>5 DEF SwitchOff, SwitchOn, RemoveAccount, RemoveSite, ClearRuntimeData, Deletes, Prune,
       Dismiss, process, rows, ClearsWindows
  <2>3. \A e \in Events : event[e] = None => event'[e] = None
    BY <1>5 DEF SwitchOff, SwitchOn, RemoveAccount, RemoveSite, ClearRuntimeData, Deletes, Prune,
       Dismiss, process, rows, NoEvents, TypeOK
  <2> QED
    BY <2>1, <2>2, <2>3 DEF Numbered, NoWindows
<1>6. CASE Deliver
  <2>1. UNCHANGED <<window, created>>
    BY <1>6, DispatcherSteps
  <2>2. ASSUME NEW status \in Status, Marks(status), Rests, shown' = shown
        PROVE  Numbered'
    <3>1. \A e \in Events : event[e] = None => event'[e] = None
      BY <2>2, MarksEffect DEF OneChannel
    <3> QED
      BY <2>1, <2>2, <3>1 DEF Numbered, Rests
  <2>3. CASE IsRefused \/ IsMarked
    <3>1. "unsupported" \in Status /\ StatusAfter(dispatcher.ok) \in Status
      BY DEF Status, Final, Waiting, StatusAfter
    <3> QED
      BY <2>2, <2>3, <3>1 DEF IsRefused, IsMarked
  <2>4. CASE Flushes
    BY <1>2, <2>1, <2>4 DEF Flushes
  <2>5. CASE Enters
    BY <2>1, <2>5 DEF Enters, SameDelivery, Numbered
  <2>6. CASE Sends \/ Fails
    <3>1. dispatcher.event \in Events /\ dispatcher.event <= created
          /\ dispatcher'.event = dispatcher.event /\ event' = event
      BY <2>6 DEF Numbered, Sends, Fails, SameDelivery
    <3>2. \A e \in Events, c \in Channels : e # dispatcher.event => shown'[e][c] = shown[e][c]
      <4>1. CASE Reaches
        BY <3>1, <4>1, ShowsEffect
      <4> QED
        BY <2>6, <4>1 DEF Sends, Fails
    <3>3. created \in Nat /\ Events \subseteq Nat
      BY DEF TypeOK, Events
    <3>4. \A e \in Events : e > created => e # dispatcher.event
      BY <3>1, <3>3
    <3>5. \A e \in Events : e > created' => event'[e] = None /\ \A c \in Channels : shown'[e][c] = 0
      BY <2>1, <3>1, <3>2, <3>4 DEF Numbered
    <3> QED
      BY <2>1, <3>1, <3>5 DEF Numbered
  <2>7. ASSUME NEW e \in Events, Claims(e)
        PROVE  Numbered'
    <3>1. event[e] # None
      BY <2>7 DEF Claims, Stored
    <3>2. e <= created
      BY <3>1 DEF Numbered, TypeOK, Events
    <3> QED
      BY <2>1, <2>7, <3>2 DEF Claims, OneChannel, Numbered
  <2> QED
    BY <1>6, <2>3, <2>4, <2>5, <2>6, <2>7, DeliverEffect
<1>7. CASE Crash
  BY <1>2, <1>7, CrashTypes DEF Rests, rows
<1>8. CASE UNCHANGED vars
  BY <1>2, <1>8 DEF vars, rows, process
<1> QED
  BY <1>1, <1>3, <1>4, <1>5, <1>6, <1>7, <1>8 DEF Next, Owner

-----------------------------------------------------------------------------
(* The gates *)

\* What an evaluation has read stays current: who changes the windows or gives the subject
\* back waits for the gate of the account, and a deletion removes the subject.
LEMMA ReadingStep ==
  ASSUME TypeOK, ReadingIsCurrent, [Next]_vars
  PROVE  ReadingIsCurrent'
<1>1. ASSUME NEW x \in Evaluations, ReadStates(x)
      PROVE  ReadingIsCurrent'
  <2>1. /\ \A y \in Evaluations : evaluation[y].phase # "reading"
        /\ dispatcher.phase \notin {"sending", "marking"}
        /\ created + Cardinality(UnderEvaluation) < MaxEvents
        /\ UNCHANGED <<window, created, dispatcher>>
    BY <1>1 DEF ReadStates, EvaluationMayEnter, EntersWhenFree, AccountGateFree
  <2>2. UnderEvaluation = {}
    BY <2>1 DEF UnderEvaluation, TypeOK, EvaluationType
  <2>3. created < MaxEvents
    BY <2>1, <2>2, FS_EmptySet, BoundsType DEF TypeOK
  <2>4. /\ \A y \in Evaluations \ {x} : evaluation'[y] = evaluation[y]
        /\ evaluation'[x] # evaluation[x] =>
             /\ evaluation'[x].phase = "reading" /\ evaluation'[x].reading \in Readings
             /\ evaluation'[x].rule \in Rule /\ evaluation'[x].window = window
    BY <1>1, ReadTypes, RuleTypes
  <2>5. window \in [Windows -> WindowState \cup {None}]
    BY DEF TypeOK
  <2>6. ASSUME NEW y \in Evaluations, evaluation'[y].phase = "reading"
        PROVE  y = x /\ evaluation'[x] # evaluation[x]
    BY <2>1, <2>4, <2>6
  <2> QED
    BY <2>1, <2>3, <2>4, <2>5, <2>6 DEF ReadingIsCurrent
<1>2. ASSUME NEW x \in Evaluations, FinishEvaluation(x)
      PROVE  ReadingIsCurrent'
  <2>1. evaluation' = [evaluation EXCEPT ![x] = IdleEvaluation] /\ evaluation[x].phase = "reading"
    BY <1>2 DEF FinishEvaluation
  <2>2. \A y \in Evaluations : evaluation'[y].phase # "reading"
    BY <2>1, EvaluationTypes DEF ReadingIsCurrent, TypeOK
  <2> QED
    BY <2>2 DEF ReadingIsCurrent
<1>3. ASSUME UNCHANGED <<evaluation, created>>,
             \A x \in Evaluations : evaluation[x].phase # "reading"
      PROVE  ReadingIsCurrent'
  BY <1>3 DEF ReadingIsCurrent
<1>4. ASSUME UNCHANGED <<evaluation, created>>,
             dispatcher.phase \notin {"sending", "marking"} => dispatcher'.phase \notin {"sending", "marking"},
             subject' = FALSE \/ UNCHANGED <<subject, window>>
      PROVE  ReadingIsCurrent'
  BY <1>4 DEF ReadingIsCurrent
<1>5. ASSUME NEW a \in BOOLEAN, NEW l \in Levels, SaveRule(a, l)
      PROVE  ReadingIsCurrent'
  BY <1>3, <1>5 DEF SaveRule, AccountGateFree, process
<1>6. CASE SwitchOff \/ SwitchOn \/ RemoveAccount
  BY <1>3, <1>6 DEF SwitchOff, SwitchOn, RemoveAccount, Deletes, AccountGateFree, process
<1>7. CASE RemoveSite \/ ClearRuntimeData
  BY <1>4, <1>7 DEF RemoveSite, ClearRuntimeData, Deletes, process
<1>8. ASSUME NEW e \in Events, Prune(e) \/ Dismiss(e)
      PROVE  ReadingIsCurrent'
  BY <1>4, <1>8 DEF Prune, Dismiss, rows, process
<1>9. CASE Deliver
  <2>1. UNCHANGED <<subject, window, created, evaluation>>
    BY <1>9, DispatcherSteps
  <2>2. CASE Enters
    BY <1>3, <2>1, <2>2 DEF Enters, AccountGateFree
  <2>3. CASE Flushes \/ IsRefused \/ IsMarked \/ Sends \/ Fails \/ \E e \in Events : Claims(e)
    BY <1>4, <2>1, <2>3 DEF Flushes, IsRefused, IsMarked, Sends, Fails, Claims, Rests
  <2> QED
    BY <1>9, <2>2, <2>3, DeliverEffect
<1>10. CASE Crash
  BY <1>10, CrashTypes DEF ReadingIsCurrent
<1>11. CASE UNCHANGED vars
  BY <1>4, <1>11 DEF vars, rows, process
<1> QED
  BY <1>1, <1>2, <1>5, <1>6, <1>7, <1>8, <1>9, <1>10, <1>11 DEF Next, Owner

\* What is claimed is not deleted with its site or by the maintenance, and what is sent is
\* neither switched off nor deleted with its account.
LEMMA ClaimsStep ==
  ASSUME TypeOK, Numbered, ReadingIsCurrent, ClaimsAreStored, [Next]_vars
  PROVE  ClaimsAreStored'
<1>1. CASE UNCHANGED <<dispatcher, event, account>>
  BY <1>1 DEF ClaimsAreStored
<1>2. CASE Rests
  BY <1>2 DEF ClaimsAreStored, Rests
<1>3. ASSUME NEW x \in Evaluations, FinishEvaluation(x)
      PROVE  ClaimsAreStored'
  <2>1. evaluation[x].phase = "reading" /\ UNCHANGED <<dispatcher, account>>
    BY <1>3 DEF FinishEvaluation
  <2>2. Busy => dispatcher.event \in Events \ {created + 1}
    BY DEF Numbered, Busy, TypeOK, Events
  <2>3. Busy => event'[dispatcher.event] = event[dispatcher.event]
    <3>1. CASE event' = event
      BY <3>1
    <3>2. CASE StoreEvaluation(evaluation[x])
      <4>1. /\ evaluation[x] \in EvaluationType /\ evaluation[x].reading \in Readings
            /\ evaluation[x].rule \in Rule /\ created < MaxEvents
            /\ evaluation[x].window \in [Windows -> WindowState \cup {None}]
        BY <2>1 DEF ReadingIsCurrent, TypeOK
      <4>2. event' = event \/ \A e \in Events \ {created + 1} : event'[e] = event[e]
        BY <3>2, <4>1, StoresEffect
      <4> QED
        BY <2>2, <4>2
    <3> QED
      BY <1>3, <3>1, <3>2 DEF FinishEvaluation
  <2> QED
    BY <2>1, <2>3 DEF ClaimsAreStored, Busy
<1>4. ASSUME NEW x \in Evaluations, ReadStates(x)
      PROVE  ClaimsAreStored'
  BY <1>1, <1>4 DEF ReadStates
<1>5. ASSUME NEW a \in BOOLEAN, NEW l \in Levels, SaveRule(a, l)
      PROVE  ClaimsAreStored'
  BY <1>1, <1>5 DEF SaveRule, process
<1>6. CASE SwitchOff
  <2>1. dispatcher.phase \notin {"sending", "marking"} /\ account = "on" /\ dispatcher' = dispatcher
        /\ event' = [e \in Events |-> IF event[e] = None THEN None ELSE Terminated(e)]
    BY <1>6 DEF SwitchOff, AccountGateFree, process
  <2>2. ASSUME Busy
        PROVE  /\ dispatcher.event \in Events /\ dispatcher.channel \in Channels
               /\ event[dispatcher.event] # None
               /\ event[dispatcher.event][dispatcher.channel] \in {"delivering", "unsupported"}
               /\ dispatcher.phase = "claimed"
    BY <2>1, <2>2 DEF Busy, Numbered, ClaimsAreStored, TypeOK, DispatcherType
  <2>3. ASSUME Busy
        PROVE  /\ event'[dispatcher.event] = Terminated(dispatcher.event)
               /\ Terminated(dispatcher.event) \in StoredEvent
               /\ Terminated(dispatcher.event)[dispatcher.channel] = "unsupported"
    BY <2>1, <2>2, <2>3 DEF Terminated, Final, TypeOK, StoredEvent, Status, Waiting
  <2> QED
    BY <2>1, <2>2, <2>3, NoneIsNothing DEF ClaimsAreStored, Busy
<1>7. CASE SwitchOn
  BY <1>7 DEF SwitchOn, AccountGateFree, process, ClaimsAreStored
<1>8. CASE RemoveAccount
  BY <1>8 DEF RemoveAccount, Deletes, AccountGateFree, process, ClaimsAreStored, NoEvents, Numbered
<1>9. CASE RemoveSite \/ ClearRuntimeData
  BY <1>9 DEF RemoveSite, ClearRuntimeData, Deletes, DeletionGateFree, NobodyDelivers, process,
     ClaimsAreStored
<1>10. ASSUME NEW e \in Events, Prune(e) \/ Dismiss(e)
       PROVE  ClaimsAreStored'
  BY <1>1, <1>10 DEF Prune, Dismiss, rows, process, ClaimsAreStored, TypeOK, Numbered
<1>11. CASE Deliver
  <2>1. account' = account
    BY <1>11, DispatcherSteps
  <2>2. CASE Flushes \/ IsRefused \/ IsMarked
    BY <1>2, <2>2 DEF Flushes, IsRefused, IsMarked
  <2>3. CASE Enters \/ Sends \/ Fails
    BY <2>1, <2>3 DEF Enters, Sends, Fails, SameDelivery, ClaimsAreStored
  <2>4. ASSUME NEW e \in Events, Claims(e)
        PROVE  ClaimsAreStored'
    <3>1. event'[e] # None /\ event'[e][dispatcher.channel] = "delivering"
      BY <2>4 DEF Claims, OneChannel, Stored
    <3> QED
      BY <2>4, <3>1 DEF Claims, ClaimsAreStored
  <2> QED
    BY <1>11, <2>2, <2>3, <2>4, DeliverEffect
<1>12. CASE Crash
  BY <1>2, <1>12, CrashTypes DEF Rests
<1>13. CASE UNCHANGED vars
  BY <1>1, <1>13 DEF vars, rows, process
<1> QED
  BY <1>3, <1>4, <1>5, <1>6, <1>7, <1>8, <1>9, <1>10, <1>11, <1>12, <1>13 DEF Next, Owner

-----------------------------------------------------------------------------
(* What an evaluation stores *)

\* An evaluation whose subject exists stores what follows from the present states of the
\* windows.
LEMMA StoresPresent ==
  ASSUME TypeOK, ReadingIsCurrent, NEW x \in Evaluations, FinishEvaluation(x)
  PROVE  \/ UNCHANGED <<window, event, created, told>>
         \/ /\ evaluation[x] \in EvaluationType /\ evaluation[x].reading \in Readings
            /\ evaluation[x].rule \in Rule /\ created < MaxEvents
            /\ evaluation[x].window = window
            /\ evaluation[x].window \in [Windows -> WindowState \cup {None}]
            /\ StoreEvaluation(evaluation[x])
<1>1. evaluation[x].phase = "reading"
  BY DEF FinishEvaluation
<1>2. subject =>
        /\ evaluation[x] \in EvaluationType /\ evaluation[x].reading \in Readings
        /\ evaluation[x].rule \in Rule /\ created < MaxEvents
        /\ evaluation[x].window = window
        /\ evaluation[x].window \in [Windows -> WindowState \cup {None}]
  BY <1>1 DEF ReadingIsCurrent, TypeOK
<1> QED
  BY <1>2 DEF FinishEvaluation

\* What is stored of an observed window: it is triggered if the threshold is reached; if that
\* is new it belongs to the new event, otherwise the window was triggered before, in the same
\* period and by the same revision of the rule.
LEMMA StoredWindow ==
  ASSUME TypeOK, created < MaxEvents, NEW q \in EvaluationType,
         q.reading \in Readings, q.rule \in Rule, q.window = window, NEW w \in Observed(q)
  PROVE  LET new == NextState(q, w) IN
         /\ w \in Windows
         /\ new \in WindowState
         /\ new.state = "triggered" <=> Reached(q, w)
         /\ new.period = Period(q, w) /\ new.revision = q.rule.revision
         /\ w \in NewlyTriggered(q) => Reached(q, w) /\ new.event = created + 1
         /\ Reached(q, w) /\ w \notin NewlyTriggered(q) =>
              /\ Triggered(w)
              /\ new.event = window[w].event
              /\ new.period = window[w].period /\ new.revision = window[w].revision
<1>0. w \in Windows /\ window \in [Windows -> WindowState \cup {None}]
  BY DEF Observed, TypeOK
<1>1. NextState(q, w) \in WindowState
  BY <1>0, NextStateType
<1>2. /\ NextState(q, w).state = (IF Reached(q, w) THEN "triggered" ELSE "armed")
      /\ NextState(q, w).revision = q.rule.revision
      /\ NextState(q, w).period = Period(q, w)
      /\ NextState(q, w).event = (IF w \in NewlyTriggered(q) THEN created + 1
                                  ELSE IF q.window[w] = None THEN None ELSE q.window[w].event)
  BY DEF NextState
<1>3. ASSUME Reached(q, w), w \notin NewlyTriggered(q)
      PROVE  ~ConfigChanged(q, w) /\ ~PeriodChanged(q, w) /\ ~WasArmed(q, w)
  BY <1>3 DEF NewlyTriggered
<1>4. ASSUME Reached(q, w), w \notin NewlyTriggered(q)
      PROVE  /\ Triggered(w) /\ window[w].revision = q.rule.revision
             /\ Period(q, w) = window[w].period
  <2>1. window[w] # None /\ window[w].state # "armed" /\ window[w].revision = q.rule.revision
    BY <1>3, <1>4 DEF ConfigChanged, WasArmed
  <2>2. window[w].state = "triggered"
    BY <1>0, <2>1 DEF WindowState
  <2>3. q.reading[w].period = None \/ window[w].period = q.reading[w].period
    BY <1>3, <1>4, <2>1 DEF PeriodChanged
  <2> QED
    BY <2>1, <2>2, <2>3 DEF Triggered, Period
<1>5. w \in NewlyTriggered(q) => Reached(q, w)
  BY DEF NewlyTriggered
<1> QED
  BY <1>0, <1>1, <1>2, <1>4, <1>5 DEF Triggered

\* What was told is the excess of the windows that are triggered.
LEMMA ToldStep ==
  ASSUME TypeOK, ReadingIsCurrent, ToldIsTriggered, [Next]_vars
  PROVE  ToldIsTriggered'
<1>1. CASE UNCHANGED <<window, told>>
  BY <1>1 DEF ToldIsTriggered, Triggered
<1>2. CASE window' = NoWindows /\ told' = NoWindows
  BY <1>2 DEF ToldIsTriggered, Triggered, NoWindows
<1>3. ASSUME NEW x \in Evaluations, FinishEvaluation(x)
      PROVE  ToldIsTriggered'
  <2> DEFINE q == evaluation[x]
  <2>1. CASE UNCHANGED <<window, event, created, told>>
    BY <1>1, <2>1
  <2>2. CASE /\ q \in EvaluationType /\ q.reading \in Readings
             /\ q.rule \in Rule /\ created < MaxEvents
             /\ q.window = window /\ q.window \in [Windows -> WindowState \cup {None}]
             /\ StoreEvaluation(q)
    <3> HIDE DEF q
    <3>1. /\ \A w \in Windows : window'[w] = IF w \in Observed(q) THEN NextState(q, w) ELSE window[w]
          /\ \A w \in Windows : told'[w] =
               IF w \in NewlyTriggered(q) THEN [period |-> Period(q, w), revision |-> q.rule.revision]
               ELSE IF w \in Observed(q) /\ ~Reached(q, w) THEN None ELSE told[w]
      BY <2>2, StoresEffect
    <3>2. ASSUME NEW w \in Windows
          PROVE  told'[w] = IF window'[w] # None /\ window'[w].state = "triggered"
                            THEN [period |-> window'[w].period, revision |-> window'[w].revision]
                            ELSE None
      <4>1. CASE w \notin Observed(q)
        BY <3>1, <4>1 DEF ToldIsTriggered, Triggered, NewlyTriggered
      <4>2. CASE w \in Observed(q)
        <5> DEFINE new == NextState(q, w)
        <5>1. window'[w] = new /\ new # None
          BY <2>2, <3>1, <4>2, StoredWindow, NoneIsNothing
        <5>2. /\ new.state = "triggered" <=> Reached(q, w)
              /\ new.period = Period(q, w) /\ new.revision = q.rule.revision
              /\ w \in NewlyTriggered(q) => Reached(q, w)
              /\ Reached(q, w) /\ w \notin NewlyTriggered(q) =>
                   /\ Triggered(w)
                   /\ new.period = window[w].period /\ new.revision = window[w].revision
          BY <2>2, <4>2, StoredWindow
        <5> HIDE DEF new
        <5>3. CASE w \in NewlyTriggered(q)
          BY <3>1, <5>1, <5>2, <5>3
        <5>4. CASE w \notin NewlyTriggered(q) /\ Reached(q, w)
          BY <3>1, <5>1, <5>2, <5>4 DEF ToldIsTriggered
        <5>5. CASE w \notin NewlyTriggered(q) /\ ~Reached(q, w)
          BY <3>1, <4>2, <5>1, <5>2, <5>5
        <5> QED
          BY <5>3, <5>4, <5>5
      <4> QED
        BY <4>1, <4>2
    <3> QED
      BY <3>2 DEF ToldIsTriggered, Triggered
  <2> QED
    BY <1>3, <2>1, <2>2, StoresPresent
<1>4. ASSUME NEW x \in Evaluations, ReadStates(x)
      PROVE  ToldIsTriggered'
  BY <1>1, <1>4 DEF ReadStates
<1>5. CASE Owner
  <2>1. CASE \E a \in BOOLEAN, l \in Levels : SaveRule(a, l)
    BY <1>1, <2>1 DEF SaveRule
  <2>2. CASE SwitchOff \/ SwitchOn \/ RemoveAccount \/ RemoveSite \/ ClearRuntimeData
    BY <1>2, <2>2 DEF SwitchOff, SwitchOn, RemoveAccount, RemoveSite, ClearRuntimeData, Deletes,
       ClearsWindows
  <2>3. CASE \E e \in Events : Prune(e) \/ Dismiss(e)
    BY <1>1, <2>3 DEF Prune, Dismiss, rows
  <2> QED
    BY <1>5, <2>1, <2>2, <2>3 DEF Owner
<1>6. CASE Deliver
  BY <1>1, <1>6, DispatcherSteps
<1>7. CASE Crash \/ UNCHANGED vars
  BY <1>1, <1>7 DEF Crash, vars, rows
<1> QED
  BY <1>3, <1>4, <1>5, <1>6, <1>7 DEF Next

-----------------------------------------------------------------------------
(* What was shown *)

\* Only a delivery that sends shows anything, and only its own event.
LEMMA ShownOnlyBySending ==
  ASSUME TypeOK, Numbered, [Next]_vars
  PROVE  \/ shown' = shown
         \/ Deliver /\ dispatcher.phase = "sending" /\ Reaches /\ dispatcher.event \in Events
<1>1. CASE Deliver
  <2>1. CASE Sends \/ Fails
    BY <1>1, <2>1 DEF Sends, Fails, Numbered
  <2>2. CASE Flushes \/ Enters \/ IsRefused \/ IsMarked \/ \E e \in Events : Claims(e)
    BY <2>2 DEF Flushes, Enters, IsRefused, IsMarked, Claims
  <2> QED
    BY <1>1, <2>1, <2>2, DeliverEffect
<1>2. CASE Owner
  BY <1>2 DEF Owner, SaveRule, SwitchOff, SwitchOn, RemoveAccount, RemoveSite, ClearRuntimeData,
     Deletes, Prune, Dismiss
<1>3. CASE \E x \in Evaluations : ReadStates(x) \/ FinishEvaluation(x)
  BY <1>3 DEF ReadStates, FinishEvaluation
<1>4. CASE Crash \/ UNCHANGED vars
  BY <1>4 DEF Crash, vars
<1> QED
  BY <1>1, <1>2, <1>3, <1>4 DEF Next

LEMMA ShownGrows ==
  ASSUME TypeOK, Numbered, [Next]_vars
  PROVE  \A e \in Events, c \in Channels : shown'[e][c] >= shown[e][c]
<1>1. \A e \in Events, c \in Channels : shown[e][c] \in Nat
  BY DEF TypeOK
<1>2. CASE shown' = shown
  BY <1>1, <1>2
<1>3. CASE Reaches /\ dispatcher.event \in Events
  <2>1. \A e \in Events, c \in Channels : shown'[e][c] = shown[e][c] \/ shown'[e][c] = shown[e][c] + 1
    BY <1>3, ShowsEffect
  <2> QED
    BY <1>1, <2>1
<1> QED
  BY <1>2, <1>3, ShownOnlyBySending

LEMMA BusinessStep ==
  ASSUME TypeOK, Numbered, BusinessIsShown, [Next]_vars
  PROVE  BusinessIsShown'
<1>1. /\ \A e \in Events, c \in Channels :
           shown[e][c] \in Nat /\ shown'[e][c] >= shown[e][c] /\ shown'[e][c] \in Nat
      /\ "business" \in Channels /\ mailbox \subseteq Events
  <2>1. \A e \in Events, c \in Channels : shown[e][c] \in Nat
    BY DEF TypeOK
  <2>2. CASE shown' = shown
    BY <2>1, <2>2, ShownGrows DEF Channels, TypeOK
  <2>3. CASE Reaches /\ dispatcher.event \in Events
    <3>1. shown' \in [Events -> [Channels -> Nat]]
      BY <2>3, ShowsEffect
    <3> QED
      BY <2>1, <3>1, ShownGrows DEF Channels, TypeOK
  <2> QED
    BY <2>2, <2>3, ShownOnlyBySending
<1>2. \A e \in mailbox : shown'[e]["business"] > 0
  <2>1. \A e \in mailbox : e \in Events /\ shown[e]["business"] > 0
    BY <1>1 DEF BusinessIsShown
  <2> QED
    BY <1>1, <2>1
<1>3. ASSUME mailbox' \subseteq mailbox, Rests \/ dispatcher'.phase \in {"claimed", "sending"}
      PROVE  BusinessIsShown'
  BY <1>2, <1>3 DEF BusinessIsShown, Rests
<1>4. ASSUME mailbox' \subseteq mailbox, dispatcher' = dispatcher
      PROVE  BusinessIsShown'
  <2>1. dispatcher.phase = "marking" => dispatcher.event \in Events
    BY DEF Numbered
  <2>2. dispatcher.phase = "marking" /\ dispatcher.ok /\ dispatcher.channel = "business" =>
          shown'[dispatcher.event]["business"] > 0
    BY <1>1, <2>1 DEF BusinessIsShown
  <2> QED
    BY <1>2, <1>4, <2>2 DEF BusinessIsShown
<1>5. CASE Sends \/ Fails
  <2>1. dispatcher.event \in Events /\ dispatcher'.event = dispatcher.event
        /\ dispatcher'.channel = dispatcher.channel
    BY <1>5 DEF Sends, Fails, SameDelivery, Numbered
  <2>2. CASE Reaches /\ dispatcher.channel = "business"
    <3>1. mailbox' = mailbox \cup {dispatcher.event}
          /\ (shown'[dispatcher.event]["business"] > 0 \/ dispatcher.event \in mailbox)
      BY <2>1, <2>2, ShowsEffect
    <3>2. shown'[dispatcher.event]["business"] > 0
      BY <1>2, <3>1
    <3> QED
      BY <1>2, <2>1, <3>1, <3>2 DEF BusinessIsShown
  <2>3. CASE Reaches /\ dispatcher.channel # "business"
    <3>1. dispatcher.channel = "windows"
      BY <2>3 DEF TypeOK, DispatcherType, Channels
    <3>2. mailbox' = mailbox
      BY <2>1, <2>3, <3>1, ShowsEffect
    <3> QED
      BY <1>2, <2>1, <2>3, <3>2 DEF BusinessIsShown
  <2>4. CASE UNCHANGED <<mailbox, shown>> /\ ~dispatcher'.ok
    BY <1>2, <2>4 DEF BusinessIsShown
  <2> QED
    BY <1>5, <2>2, <2>3, <2>4 DEF Sends, Fails
<1>6. CASE Deliver
  <2>1. CASE Flushes \/ Enters \/ IsRefused \/ IsMarked \/ \E e \in Events : Claims(e)
    BY <1>3, <2>1 DEF Flushes, Enters, IsRefused, IsMarked, Claims
  <2> QED
    BY <1>5, <1>6, <2>1, DeliverEffect
<1>7. CASE Owner
  BY <1>4, <1>7 DEF Owner, SaveRule, SwitchOff, SwitchOn, RemoveAccount, RemoveSite,
     ClearRuntimeData, Deletes, Prune, Dismiss, process, rows
<1>8. CASE \E x \in Evaluations : ReadStates(x) \/ FinishEvaluation(x)
  BY <1>4, <1>8 DEF ReadStates, FinishEvaluation
<1>9. CASE Crash
  BY <1>3, <1>9, CrashTypes DEF Rests
<1>10. CASE UNCHANGED vars
  BY <1>4, <1>10 DEF vars, process
<1> QED
  BY <1>6, <1>7, <1>8, <1>9, <1>10 DEF Next

-----------------------------------------------------------------------------
(* What was announced *)

\* An announcement is kept by its event: shown, or stored and still to be shown.
KeptBy(e) ==
  \/ shown[e]["business"] > 0
  \/ e \in Stored /\ event[e]["business"] \notin Final

\* While alerts stay on, a step keeps what its event does.
LEMMA KeptStays ==
  ASSUME TypeOK, Numbered, ReadingIsCurrent, ClaimsAreStored, BusinessIsShown, [Next]_vars,
         account = "on", account' = "on", NEW e \in Events, KeptBy(e), e <= created
  PROVE  KeptBy(e)' \/ window' = NoWindows
<1>1. shown[e]["business"] > 0 => shown'[e]["business"] > 0
  <2>1. "business" \in Channels /\ shown[e]["business"] \in Nat /\ shown'[e]["business"] \in Nat
    <3>1. "business" \in Channels /\ TypeOK'
      BY TypeStep DEF Channels
    <3> QED
      BY <3>1 DEF TypeOK
  <2>2. shown'[e]["business"] >= shown[e]["business"]
    BY <2>1, ShownGrows
  <2> QED
    BY <2>1, <2>2
<1>2. SUFFICES ASSUME e \in Stored, event[e]["business"] \notin Final,
                      window' # NoWindows, ~(shown'[e]["business"] > 0)
               PROVE  event'[e] # None /\ event'[e]["business"] \notin Final
  BY <1>1 DEF KeptBy, Stored
<1>3. CASE event' = event
  BY <1>2, <1>3 DEF Stored
<1>4. ASSUME NEW x \in Evaluations, FinishEvaluation(x)
      PROVE  event'[e] = event[e]
  <2>1. e # created + 1
    BY DEF TypeOK, Events
  <2> QED
    BY <1>4, <2>1, StoresPresent, StoresEffect
<1>5. CASE Owner
  <2>1. ~SwitchOff /\ ~SwitchOn /\ ~RemoveAccount /\ ~RemoveSite /\ ~ClearRuntimeData
    BY <1>2 DEF SwitchOff, SwitchOn, RemoveAccount, RemoveSite, ClearRuntimeData, Deletes,
       ClearsWindows
  <2>2. ASSUME NEW f \in Events, Prune(f)
        PROVE  event'[e] = event[e]
    <3>1. e # f
      BY <1>2, <2>2 DEF Prune, Completed, Channels
    <3> QED
      BY <2>2, <3>1 DEF Prune, TypeOK
  <2>3. CASE \E f \in Events : Dismiss(f)
    BY <1>3, <2>3 DEF Dismiss, rows
  <2>4. CASE \E a \in BOOLEAN, l \in Levels : SaveRule(a, l)
    BY <1>3, <2>4 DEF SaveRule
  <2> QED
    BY <1>2, <1>5, <2>1, <2>2, <2>3, <2>4 DEF Owner, Stored
<1>6. CASE Deliver
  <2>1. CASE Flushes \/ Enters \/ Sends \/ Fails
    BY <1>3, <2>1 DEF Flushes, Enters, Sends, Fails
  <2>2. CASE IsRefused
    BY <2>2 DEF IsRefused
  <2>3. CASE IsMarked
    <3> DEFINE status == StatusAfter(dispatcher.ok)
    <3>1. status \in Status /\ (~dispatcher.ok => status \notin Final)
      BY DEF StatusAfter, Status, Final, Waiting
    <3>2. \/ Held /\ OneChannel(dispatcher.event, dispatcher.channel, status)
          \/ ~Held /\ event' = event
      BY <2>3, <3>1, MarksEffect DEF IsMarked
    <3>3. CASE dispatcher.event = e /\ dispatcher.channel = "business" /\ dispatcher.ok
      <4>1. shown[e]["business"] > 0
        BY <2>3, <3>3 DEF IsMarked, BusinessIsShown
      <4> QED
        BY <1>1, <1>2, <4>1
    <3>4. CASE dispatcher.event = e /\ dispatcher.channel = "business" /\ ~dispatcher.ok
      BY <1>2, <1>3, <3>1, <3>2, <3>4 DEF OneChannel, Stored
    <3>5. CASE dispatcher.event = e /\ dispatcher.channel # "business"
      BY <1>2, <1>3, <3>2, <3>5 DEF OneChannel, Stored, Channels
    <3>6. CASE dispatcher.event # e
      BY <1>2, <1>3, <3>2, <3>6 DEF OneChannel, Stored
    <3> QED
      BY <3>3, <3>4, <3>5, <3>6
  <2>4. ASSUME NEW f \in Events, Claims(f)
        PROVE  event'[e] # None /\ event'[e]["business"] \notin Final
    <3>1. OneChannel(f, dispatcher.channel, "delivering") /\ "delivering" \notin Final
      BY <2>4 DEF Claims, Final
    <3> QED
      BY <1>2, <3>1 DEF OneChannel, Stored, Channels
  <2> QED
    BY <1>6, <2>1, <2>2, <2>3, <2>4, DeliverEffect
<1>7. CASE Crash \/ UNCHANGED vars \/ \E x \in Evaluations : ReadStates(x)
  BY <1>3, <1>7 DEF Crash, vars, rows, ReadStates
<1> QED
  BY <1>2, <1>4, <1>5, <1>6, <1>7 DEF Next, Stored

\* A window that stays announced keeps its event, and one that is announced anew has a new
\* event, stored with it.
LEMMA AnnouncementsStep ==
  ASSUME TypeOK, Numbered, ReadingIsCurrent, ClaimsAreStored, BusinessIsShown,
         AnnouncementsAreKept, [Next]_vars
  PROVE  AnnouncementsAreKept'
<1>1. SUFFICES ASSUME account' = "on", NEW w \in Windows, window'[w] # None,
                      window'[w].state = "triggered", NEW e, e = window'[w].event
               PROVE  KeptBy(e)'
  BY DEF AnnouncementsAreKept, KeptBy
<1>2. window' # NoWindows
  BY <1>1 DEF NoWindows
<1>3. account = "on"
  <2>1. CASE \E x \in Evaluations : ReadStates(x) \/ FinishEvaluation(x)
    BY <1>1, <2>1 DEF ReadStates, FinishEvaluation
  <2>2. CASE Owner
    BY <1>1, <1>2, <2>2 DEF Owner, SaveRule, SwitchOff, SwitchOn, RemoveAccount, RemoveSite,
       ClearRuntimeData, Deletes, ClearsWindows, Prune, Dismiss, rows
  <2>3. CASE Deliver
    BY <1>1, <2>3, DispatcherSteps
  <2>4. CASE Crash \/ UNCHANGED vars
    BY <1>1, <2>4 DEF Crash, vars, rows
  <2> QED
    BY <2>1, <2>2, <2>3, <2>4 DEF Next
<1>4. ASSUME Triggered(w), e = window[w].event
      PROVE  KeptBy(e)'
  <2>1. window[w] \in WindowState
    BY <1>4 DEF Triggered, TypeOK
  <2>2. e \in Events /\ e <= created
    BY <1>4, <2>1 DEF Numbered, Triggered, WindowState
  <2>3. KeptBy(e)
    BY <1>3, <1>4 DEF AnnouncementsAreKept, Triggered, KeptBy
  <2> QED
    BY <1>1, <1>2, <1>3, <2>2, <2>3, KeptStays
<1>5. CASE window'[w] = window[w]
  BY <1>1, <1>4, <1>5 DEF Triggered
<1>6. ASSUME NEW x \in Evaluations, FinishEvaluation(x), window'[w] # window[w]
      PROVE  KeptBy(e)'
  <2> DEFINE q == evaluation[x]
  <2>1. /\ q \in EvaluationType /\ q.reading \in Readings
        /\ q.rule \in Rule /\ created < MaxEvents
        /\ q.window = window /\ q.window \in [Windows -> WindowState \cup {None}]
        /\ StoreEvaluation(q)
    BY <1>6, StoresPresent
  <2> HIDE DEF q
  <2>2. /\ window'[w] = IF w \in Observed(q) THEN NextState(q, w) ELSE window[w]
        /\ NewlyTriggered(q) # {} =>
             event'[created + 1] # None /\ event'[created + 1]["business"] = "pending"
    BY <2>1, StoresEffect
  <2>3. w \in Observed(q) /\ window'[w] = NextState(q, w)
    BY <1>6, <2>2
  <2>4. Reached(q, w)
    BY <1>1, <2>1, <2>3, StoredWindow
  <2>5. CASE w \in NewlyTriggered(q)
    <3>1. e = created + 1 /\ created + 1 \in Events
      BY <1>1, <2>1, <2>3, <2>5, StoredWindow, NextStateType
    <3>2. event'[e] # None /\ event'[e]["business"] = "pending"
      BY <2>2, <2>5, <3>1
    <3> QED
      BY <3>1, <3>2 DEF KeptBy, Stored, Final
  <2>6. CASE w \notin NewlyTriggered(q)
    <3>1. Triggered(w) /\ e = window[w].event
      BY <1>1, <2>1, <2>3, <2>4, <2>6, StoredWindow
    <3> QED
      BY <1>4, <3>1
  <2> QED
    BY <2>5, <2>6
<1>7. CASE Owner
  <2>1. window' = window \/ window' = NoWindows
    BY <1>7 DEF Owner, SaveRule, SwitchOff, SwitchOn, RemoveAccount, RemoveSite,
       ClearRuntimeData, Deletes, ClearsWindows, Prune, Dismiss, rows
  <2> QED
    BY <1>2, <1>5, <2>1
<1>8. CASE Deliver
  BY <1>5, <1>8, DispatcherSteps
<1>9. CASE Crash \/ UNCHANGED vars \/ \E x \in Evaluations : ReadStates(x)
  BY <1>5, <1>9 DEF Crash, vars, rows, ReadStates
<1> QED
  BY <1>5, <1>6, <1>7, <1>8, <1>9 DEF Next

-----------------------------------------------------------------------------
(* How often an event is shown *)

\* A channel is not shown its event once more unless a mishap lets it, and a mishap lets it
\* once.
LEMMA RepeatsStep ==
  ASSUME TypeOK, Numbered, ReadingIsCurrent, ClaimsAreStored, RepeatsAreMishaps, [Next]_vars
  PROVE  RepeatsAreMishaps'
<1>0. TypeOK'
  BY TypeStep
<1>1. SUFFICES ASSUME NEW e \in Events, NEW c \in Channels
               PROVE  shown'[e][c] <= 1 + mishaps' /\ (MayBeShown(e, c)' => shown'[e][c] <= mishaps')
  BY DEF RepeatsAreMishaps
<1>2. /\ shown[e][c] \in Nat /\ shown'[e][c] \in Nat /\ mishaps \in Nat /\ mishaps' \in Nat
  BY <1>0, BoundsType DEF TypeOK
<1>3. shown[e][c] <= 1 + mishaps /\ (MayBeShown(e, c) => shown[e][c] <= mishaps)
  BY DEF RepeatsAreMishaps
<1>4. ASSUME shown'[e][c] = shown[e][c], mishaps' = mishaps \/ mishaps' = mishaps + 1,
             mishaps' = mishaps /\ MayBeShown(e, c)' => MayBeShown(e, c)
      PROVE  shown'[e][c] <= 1 + mishaps' /\ (MayBeShown(e, c)' => shown'[e][c] <= mishaps')
  <2>1. CASE mishaps' = mishaps
    BY <1>2, <1>3, <1>4, <2>1
  <2>2. CASE mishaps' = mishaps + 1
    BY <1>2, <1>3, <1>4, <2>2
  <2> QED
    BY <1>4, <2>1, <2>2
<1>5. ASSUME shown' = shown, mishaps' = mishaps, dispatcher' = dispatcher,
             event'[e] # None => event[e] # None,
             event'[e] # None /\ event'[e][c] \notin Final => event[e][c] \notin Final
      PROVE  shown'[e][c] <= 1 + mishaps' /\ (MayBeShown(e, c)' => shown'[e][c] <= mishaps')
  BY <1>4, <1>5 DEF MayBeShown
<1>6. CASE \E x \in Evaluations : ReadStates(x)
  BY <1>5, <1>6 DEF ReadStates
<1>7. ASSUME NEW x \in Evaluations, FinishEvaluation(x)
      PROVE  shown'[e][c] <= 1 + mishaps' /\ (MayBeShown(e, c)' => shown'[e][c] <= mishaps')
  <2>1. shown' = shown /\ mishaps' = mishaps /\ dispatcher' = dispatcher
    BY <1>7 DEF FinishEvaluation
  <2>2. e # created + 1 => event'[e] = event[e]
    BY <1>7, StoresPresent, StoresEffect
  <2>3. CASE e = created + 1
    <3>1. shown'[e][c] = 0
      BY <2>1, <2>3 DEF Numbered, TypeOK
    <3>2. \A n \in Nat : 0 <= n /\ 0 <= 1 + n
      OBVIOUS
    <3> QED
      BY <1>2, <3>1, <3>2, Zenon
  <2> QED
    BY <1>5, <2>1, <2>2, <2>3
<1>8. CASE Owner
  <2>1. shown' = shown /\ mishaps' = mishaps /\ dispatcher' = dispatcher
    BY <1>8 DEF Owner, SaveRule, SwitchOff, SwitchOn, RemoveAccount, RemoveSite,
       ClearRuntimeData, Deletes, ClearsWindows, Prune, Dismiss, rows, process
  <2>2. \/ event' = event \/ event' = NoEvents
        \/ event' = [f \in Events |-> IF event[f] = None THEN None ELSE Terminated(f)]
        \/ \E f \in Events : event' = [event EXCEPT ![f] = None]
    BY <1>8 DEF Owner, SaveRule, SwitchOff, SwitchOn, RemoveAccount, RemoveSite,
       ClearRuntimeData, Deletes, ClearsWindows, Prune, Dismiss, rows, process
  <2>3. Terminated(e)[c] \in Final
    BY DEF Terminated, Final
  <2>4. event'[e] # None => event[e] # None
    BY <2>2 DEF NoEvents, TypeOK
  <2>5. event'[e] # None /\ event'[e][c] \notin Final => event[e][c] \notin Final
    BY <2>2, <2>3 DEF NoEvents, TypeOK
  <2> QED
    BY <1>5, <2>1, <2>4, <2>5
<1>9. CASE Crash
  <2>1. /\ event' = event /\ shown' = shown /\ mishaps' = mishaps + 1
    BY <1>9, CrashTypes DEF rows
  <2> QED
    BY <1>2, <1>4, <2>1
<1>10. CASE Flushes
  BY <1>2, <1>4, <1>10 DEF Flushes, Rests, Busy, MayBeShown
<1>11. CASE Enters
  BY <1>4, <1>11 DEF Enters, SameDelivery, MayBeShown
<1>12. CASE IsRefused
  <2>1. "unsupported" \in Status /\ "unsupported" \in Final
    BY DEF Status, Final
  <2>2. \/ Held /\ OneChannel(dispatcher.event, dispatcher.channel, "unsupported")
        \/ ~Held /\ event' = event
    BY <1>12, <2>1, MarksEffect DEF IsRefused
  <2>3. event'[e] # None /\ event'[e][c] \notin Final => event[e] # None /\ event[e][c] \notin Final
    BY <2>1, <2>2 DEF OneChannel
  <2> QED
    BY <1>4, <1>12, <2>3 DEF IsRefused, Rests, MayBeShown
<1>13. ASSUME NEW f \in Events, Claims(f)
       PROVE  shown'[e][c] <= 1 + mishaps' /\ (MayBeShown(e, c)' => shown'[e][c] <= mishaps')
  <2>1. /\ OneChannel(f, dispatcher.channel, "delivering")
        /\ event[f] # None /\ event[f][dispatcher.channel] \notin Final
        /\ dispatcher.channel \in Channels
    BY <1>13 DEF Claims, Stored, Claimable, ClaimableStatus, Waiting, Final, TypeOK, DispatcherType
  <2>2. event'[e] # None /\ event'[e][c] \notin Final => event[e] # None /\ event[e][c] \notin Final
    BY <2>1 DEF OneChannel
  <2>3. event[e] # None /\ event[e][c] \notin Final => MayBeShown(e, c)
    BY <1>13 DEF Claims, Busy, MayBeShown
  <2>4. MayBeShown(e, c)' => MayBeShown(e, c)
    BY <1>13, <2>1, <2>2, <2>3 DEF Claims, MayBeShown
  <2> QED
    BY <1>4, <1>13, <2>4 DEF Claims
<1>14. CASE Sends \/ Fails
  <2>1. /\ event' = event /\ SameDelivery /\ dispatcher.phase = "sending"
        /\ dispatcher'.phase = "marking" /\ dispatcher.event \in Events
    BY <1>14 DEF Sends, Fails, Numbered
  <2>2. CASE e = dispatcher.event /\ c = dispatcher.channel
    <3>1. shown[e][c] <= mishaps
      BY <1>3, <2>1, <2>2 DEF MayBeShown
    <3>2. shown'[e][c] = shown[e][c] \/ shown'[e][c] = shown[e][c] + 1
      BY <1>14, <2>1, ShowsEffect DEF Sends, Fails
    <3>3. CASE Sends
      <4>1. mishaps' = mishaps /\ ~MayBeShown(e, c)'
        BY <2>1, <2>2, <3>3 DEF Sends, SameDelivery, MayBeShown
      <4> QED
        BY <1>2, <3>1, <3>2, <4>1
    <3>4. CASE Fails
      BY <1>2, <3>1, <3>2, <3>4 DEF Fails
    <3> QED
      BY <1>14, <3>3, <3>4
  <2>3. CASE ~(e = dispatcher.event /\ c = dispatcher.channel)
    <3>1. shown'[e][c] = shown[e][c]
      BY <1>14, <2>1, <2>3, ShowsEffect DEF Sends, Fails
    <3>2. MayBeShown(e, c)' => MayBeShown(e, c)
      BY <2>1, <2>3 DEF SameDelivery, MayBeShown
    <3> QED
      BY <1>4, <1>14, <3>1, <3>2 DEF Sends, Fails
  <2> QED
    BY <2>2, <2>3
<1>15. CASE IsMarked
  <2> DEFINE status == StatusAfter(dispatcher.ok)
  <2>1. status \in Status /\ (dispatcher.ok => status \in Final) /\ dispatcher.event \in Events
    BY <1>15 DEF StatusAfter, Status, Final, Waiting, IsMarked, Numbered
  <2>2. \/ Held /\ OneChannel(dispatcher.event, dispatcher.channel, status)
        \/ ~Held /\ event' = event
    BY <1>15, <2>1, MarksEffect DEF IsMarked
  <2>3. MayBeShown(e, c)' => event'[e] # None /\ event'[e][c] \notin Final
    BY <1>15 DEF IsMarked, Rests, MayBeShown
  <2>4. CASE e = dispatcher.event /\ c = dispatcher.channel /\ dispatcher.ok
    <3>1. ~MayBeShown(e, c)'
      <4>1. CASE Held
        BY <2>1, <2>2, <2>3, <2>4, <4>1 DEF OneChannel
      <4>2. CASE ~Held
        <5>1. event'[e] = event[e] /\ event[e] # None
          BY <1>15, <2>2, <2>4, <4>2 DEF ClaimsAreStored, IsMarked
        <5>2. event[e][c] = "unsupported"
          BY <1>15, <2>1, <2>4, <4>2, <5>1 DEF ClaimsAreStored, IsMarked, Held, Stored
        <5> QED
          BY <2>3, <5>1, <5>2 DEF Final
      <4> QED
        BY <4>1, <4>2
    <3> QED
      BY <1>4, <1>15, <3>1 DEF IsMarked
  <2>5. CASE e = dispatcher.event /\ c = dispatcher.channel /\ ~dispatcher.ok
    <3>1. MayBeShown(e, c)
      BY <1>15, <2>5 DEF IsMarked, MayBeShown
    <3> QED
      BY <1>4, <1>15, <3>1 DEF IsMarked
  <2>6. CASE ~(e = dispatcher.event /\ c = dispatcher.channel)
    <3>1. event'[e] # None /\ event'[e][c] \notin Final => event[e] # None /\ event[e][c] \notin Final
      BY <2>2, <2>6 DEF OneChannel
    <3>2. MayBeShown(e, c)' => MayBeShown(e, c)
      BY <2>3, <2>6, <3>1 DEF MayBeShown
    <3> QED
      BY <1>4, <1>15, <3>2 DEF IsMarked
  <2> QED
    BY <2>4, <2>5, <2>6
<1>16. CASE UNCHANGED vars
  BY <1>5, <1>16 DEF vars, rows, process
<1>17. CASE Deliver
  BY <1>10, <1>11, <1>12, <1>13, <1>14, <1>15, <1>17, DeliverEffect
<1> QED
  BY <1>6, <1>7, <1>8, <1>9, <1>16, <1>17 DEF Next

-----------------------------------------------------------------------------
(* The theorems *)

\* The invariant of the alerts holds in every behaviour.
THEOREM QuotaInvariance == Spec => []QuotaInv
<1>1. Init => QuotaInv
  <2> SUFFICES ASSUME Init PROVE QuotaInv
    OBVIOUS
  <2>1. TypeOK
    <3>1. account \in {"on", "off", "gone"} /\ subject \in BOOLEAN /\ config \in Rule \cup {None}
      BY DEF Init
    <3>2. window \in [Windows -> WindowState \cup {None}]
      BY DEF Init, NoWindows
    <3>3. event \in [Events -> StoredEvent \cup {None}]
      BY DEF Init, NoEvents
    <3>4. created \in 0..MaxEvents /\ mishaps \in 0..MaxMishaps
      BY BoundsType DEF Init
    <3>5. evaluation \in [Evaluations -> EvaluationType] /\ dispatcher \in DispatcherType
      <4>1. IdleEvaluation \in EvaluationType
        BY DEF IdleEvaluation, EvaluationType
      <4> QED
        BY <4>1, IdleTypes DEF Init
    <3>6. mailbox \subseteq Events
      BY DEF Init
    <3>7. shown \in [Events -> [Channels -> Nat]]
      BY DEF Init
    <3>8. told \in [Windows ->
                      [period : Periods \cup {None}, revision : 0..MaxRevision] \cup {None}]
      BY DEF Init, NoWindows
    <3> QED
      BY <3>1, <3>2, <3>3, <3>4, <3>5, <3>6, <3>7, <3>8 DEF TypeOK
  <2>2. Numbered
    BY DEF Init, Numbered, NoWindows, NoEvents, IdleDispatcher
  <2>3. ReadingIsCurrent
    BY DEF Init, ReadingIsCurrent, IdleEvaluation
  <2>4. ClaimsAreStored
    BY DEF Init, ClaimsAreStored, IdleDispatcher
  <2>5. ToldIsTriggered
    BY DEF Init, ToldIsTriggered, Triggered, NoWindows
  <2>6. BusinessIsShown
    BY DEF Init, BusinessIsShown, IdleDispatcher
  <2>7. AnnouncementsAreKept
    BY DEF Init, AnnouncementsAreKept, NoWindows
  <2>8. RepeatsAreMishaps
    BY DEF Init, RepeatsAreMishaps
  <2> QED
    BY <2>1, <2>2, <2>3, <2>4, <2>5, <2>6, <2>7, <2>8 DEF QuotaInv
<1>2. QuotaInv /\ [Next]_vars => QuotaInv'
  BY TypeStep, NumberedStep, ReadingStep, ClaimsStep, ToldStep, BusinessStep, AnnouncementsStep,
     RepeatsStep DEF QuotaInv
<1> QED
  BY <1>1, <1>2, PTL DEF Spec

\* While alerts are on, a window that counts as announced was shown to the user, or its event
\* still waits for that (commit_subscription_quota_alert_evaluation).
THEOREM AnnouncementsReachTheUser == Spec => []AnnouncementsAreKept
<1>1. QuotaInv => AnnouncementsAreKept
  BY DEF QuotaInv
<1> QED
  BY <1>1, QuotaInvariance, PTL

\* However claims expire and the process restarts, a channel repeats an event at most once for
\* each mishap (claim_due_subscription_quota_alert_channel, the dedupe key of the mailbox).
THEOREM MishapsBoundRepeats == Spec => []ShownOncePerMishap
<1>1. QuotaInv => ShownOncePerMishap
  BY DEF QuotaInv, RepeatsAreMishaps, ShownOncePerMishap
<1> QED
  BY <1>1, QuotaInvariance, PTL

\* What is shown belongs to an event that is stored and to an account whose alerts are on: the
\* delivery re-reads the switch under the gates that the switch and the deletions take
\* (flush_channel).
THEOREM OnlyTheWantedIsShown == Spec => ShownWhileWanted
<1> DEFINE A == \A e \in Events : shown'[e] # shown[e] => account = "on" /\ e \in Stored
<1>1. ASSUME QuotaInv, Next
      PROVE  A
  <2>1. TypeOK /\ Numbered /\ ClaimsAreStored
    BY <1>1 DEF QuotaInv
  <2>2. CASE shown' = shown
    BY <2>2
  <2>3. CASE dispatcher.phase = "sending" /\ Reaches /\ dispatcher.event \in Events
    <3>1. account = "on" /\ dispatcher.event \in Stored
      BY <2>1, <2>3 DEF ClaimsAreStored, Stored
    <3>2. ASSUME NEW e \in Events, e # dispatcher.event
          PROVE  shown'[e] = shown[e]
      <4>1. \A c \in Channels : shown'[e][c] = shown[e][c]
        BY <2>1, <2>3, <3>2, ShowsEffect
      <4>2. shown'[e] \in [Channels -> Nat] /\ shown[e] \in [Channels -> Nat]
        BY <2>1, <2>3, ShowsEffect DEF TypeOK
      <4> QED
        BY <4>1, <4>2
    <3> QED
      BY <3>1, <3>2
  <2> QED
    BY <1>1, <2>1, <2>2, <2>3, ShownOnlyBySending
<1>2. QuotaInv /\ [Next]_vars => [A]_vars
  BY <1>1
<1>3. Spec => [][A]_vars
  BY <1>2, QuotaInvariance, PTL DEF Spec
<1> QED
  BY <1>3, PTL DEF ShownWhileWanted

\* An excess that was announced is not announced again, until the usage was seen below the
\* threshold, the period is another one, or the rule was changed: what an evaluation compares
\* with is what the last one has stored (evaluate_under_gate).
THEOREM ExcessesAreToldOnce == Spec => AnnouncedOnce
<1>1. ASSUME QuotaInv, Next
      PROVE  AnnouncedAnew
  <2>1. TypeOK /\ Numbered /\ ReadingIsCurrent /\ ToldIsTriggered
    BY <1>1 DEF QuotaInv
  <2>2. SUFFICES ASSUME NEW w \in Windows, told'[w] # None, created' # created,
                        window'[w].event = created'
                 PROVE  told[w] = None \/ told'[w] # told[w]
    BY DEF AnnouncedAnew
  <2>3. PICK x \in Evaluations : FinishEvaluation(x)
    <3>1. CASE Deliver
      BY <2>1, <2>2, <3>1, DispatcherSteps
    <3>2. CASE Owner
      BY <2>2, <3>2 DEF Owner, SaveRule, SwitchOff, SwitchOn, RemoveAccount, RemoveSite,
         ClearRuntimeData, Deletes, Prune, Dismiss, rows
    <3>3. CASE Crash \/ \E x \in Evaluations : ReadStates(x)
      BY <2>2, <3>3 DEF Crash, rows, ReadStates
    <3> QED
      BY <1>1, <3>1, <3>2, <3>3 DEF Next
  <2> DEFINE q == evaluation[x]
  <2>4. /\ q \in EvaluationType /\ q.reading \in Readings
        /\ q.rule \in Rule /\ created < MaxEvents
        /\ q.window = window /\ q.window \in [Windows -> WindowState \cup {None}]
        /\ StoreEvaluation(q)
    BY <2>1, <2>2, <2>3, StoresPresent
  <2> HIDE DEF q
  <2>5. /\ window'[w] = IF w \in Observed(q) THEN NextState(q, w) ELSE window[w]
        /\ told'[w] =
             IF w \in NewlyTriggered(q) THEN [period |-> Period(q, w), revision |-> q.rule.revision]
             ELSE IF w \in Observed(q) /\ ~Reached(q, w) THEN None ELSE told[w]
        /\ created' = created + 1
    BY <2>1, <2>2, <2>4, StoresEffect
  <2>6. CASE w \in NewlyTriggered(q)
    <3>1. w \in Observed(q) /\ (ConfigChanged(q, w) \/ PeriodChanged(q, w) \/ WasArmed(q, w))
      BY <2>6 DEF NewlyTriggered
    <3>2. CASE ~Triggered(w)
      BY <2>1, <3>2 DEF ToldIsTriggered
    <3>3. CASE Triggered(w)
      <4>1. told[w] = [period |-> window[w].period, revision |-> window[w].revision]
        BY <2>1, <3>3 DEF ToldIsTriggered
      <4>2. window[w].revision # q.rule.revision \/ PeriodChanged(q, w)
        BY <2>4, <3>1, <3>3 DEF ConfigChanged, WasArmed, Triggered
      <4>3. PeriodChanged(q, w) => Period(q, w) # window[w].period
        BY <2>4, <3>3 DEF PeriodChanged, Period, Triggered
      <4>4. told'[w] = [period |-> Period(q, w), revision |-> q.rule.revision]
        BY <2>5, <2>6
      <4>5. told'[w].revision # told[w].revision \/ told'[w].period # told[w].period
        BY <4>1, <4>2, <4>3, <4>4
      <4> QED
        BY <4>5
    <3> QED
      BY <3>2, <3>3
  <2>7. CASE w \notin NewlyTriggered(q)
    <3>1. Triggered(w) /\ window'[w].event = window[w].event
      <4>1. CASE w \in Observed(q)
        <5>1. Reached(q, w) /\ window'[w] = NextState(q, w)
          BY <2>2, <2>5, <2>7, <4>1
        <5> QED
          BY <2>1, <2>4, <2>7, <4>1, <5>1, StoredWindow
      <4>2. CASE w \notin Observed(q)
        BY <2>1, <2>2, <2>5, <2>7, <4>2 DEF ToldIsTriggered
      <4> QED
        BY <4>1, <4>2
    <3>2. window[w].event <= created
      BY <2>1, <3>1 DEF Numbered, Triggered
    <3>3. window[w].event \in Nat /\ created \in Nat
      BY <2>1, <2>2, <2>5, <3>1 DEF TypeOK
    <3> QED
      BY <2>2, <2>5, <3>1, <3>2, <3>3
  <2> QED
    BY <2>6, <2>7
<1>2. QuotaInv /\ [Next]_vars => [AnnouncedAnew]_vars
  BY <1>1
<1>3. Spec => [][AnnouncedAnew]_vars
  BY <1>2, QuotaInvariance, PTL DEF Spec
<1> QED
  BY <1>3, PTL DEF AnnouncedOnce

-----------------------------------------------------------------------------
(* Switching: the decision                                                  *)

\* The least of some numbers is one of them.
LEMMA LeastIsThere ==
  ASSUME NEW S, S \subseteq Nat, S # {}
  PROVE  Min(S) \in S
<1>1. \E x \in S : \A y \in S : <<y, x>> \notin OpToRel(<, Nat)
  BY WFMin, NatLessThanWellFounded
<1>2. PICK x \in S : \A y \in S : ~(y < x)
  BY <1>1 DEF OpToRel
<1>3. \A y \in S : x <= y
  BY <1>2
<1> QED
  BY <1>3 DEF Min

LEMMA ChainFacts ==
  ASSUME NEW chain \in Chain
  PROVE  chain \in Seq(Groups) /\ Len(chain) \in Nat /\ Len(chain) >= 2
         /\ DOMAIN chain = 1..Len(chain)
<1>1. PICK m \in 0..3 : chain \in [1..m -> Groups]
  BY DEF Chain, SeqOf
<1>2. chain \in Seq(Groups)
  BY <1>1
<1> QED
  BY <1>2, LenProperties DEF Chain

\* The first of the candidates that are good is one of the candidates.
LEMMA EligibleIsCandidate ==
  ASSUME NEW candidates \in Seq(Groups), NEW verdicts
  PROVE  FirstEligible(candidates, verdicts) \in Groups \cup {Nothing}
<1> DEFINE good == {n \in DOMAIN candidates : verdicts[candidates[n]] = "good"}
<1>1. CASE good = {}
  BY <1>1 DEF FirstEligible
<1>2. CASE good # {}
  <2>1. DOMAIN candidates = 1..Len(candidates) /\ Len(candidates) \in Nat
    BY LenProperties
  <2>2. good \subseteq Nat
    BY <2>1
  <2>3. Min(good) \in good
    BY <1>2, <2>2, LeastIsThere
  <2>4. candidates[Min(good)] \in Groups
    BY <2>1, <2>3, ElementOfSeq
  <2> QED
    BY <1>2, <2>4 DEF FirstEligible
<1> QED
  BY <1>1, <1>2

\* The node that a key is to move to is one of the account's groups, or there is none.
LEMMA TargetIsGroup ==
  ASSUME NEW set \in Setting, NEW group \in Range(set.chain), NEW verdicts
  PROVE  Target(set, group, verdicts) \in Groups \cup {Nothing}
<1> DEFINE chain == set.chain
           n == At(chain, group)
<1>1. chain \in Chain
  BY DEF Setting
<1>2. chain \in Seq(Groups) /\ Len(chain) \in Nat /\ Len(chain) >= 2 /\ DOMAIN chain = 1..Len(chain)
  BY <1>1, ChainFacts
<1>3. n \in DOMAIN chain
  BY DEF At, Range
<1>4. chain[1] \in Groups
  BY <1>2, ElementOfSeq
<1> HIDE DEF chain, n
<1>5. SubSeq(chain, 1, n - 1) \in Seq(Groups) /\ SubSeq(chain, n + 1, Len(chain)) \in Seq(Groups)
  BY <1>2, <1>3, SubSeqProperties
<1>6. Others(chain, n) \in Seq(Groups)
  BY <1>5, ConcatProperties DEF Others
<1>7. /\ FirstEligible(SubSeq(chain, 1, n - 1), verdicts) \in Groups \cup {Nothing}
      /\ FirstEligible(Others(chain, n), verdicts) \in Groups \cup {Nothing}
  BY <1>5, <1>6, EligibleIsCandidate
<1> QED
  BY <1>4, <1>7 DEF Target, chain, n

-----------------------------------------------------------------------------
(* Switching: the invariant                                                 *)

Holding == {"reading", "moving", "moved", "saving", "failing", "refreshing", "editing"}
HasRead == {"reading", "moving", "moved", "saving", "failing"}
Writing == {"moving", "moved", "saving"}

\* A caller holds the gate from its first look at the rule, and what it has read and is about
\* to write has the given settings.
Knows(t, holds, settings) ==
  /\ t.phase \in Holding => holds
  /\ t.phase \in HasRead => t.copy # Nothing /\ t.copy.set = settings
  /\ t.phase \in Writing => t.next # Nothing /\ t.next.set = settings

\* These are the ones that were saved last or, if the rule was taken away without the gate since,
\* the ones it then had.
CallersKnow == \A a \in Actors : Knows(actor[a], gate = a, InForce)

SwitchInv == SwitchTypeOK /\ SettingsAreTheUsers /\ CallersKnow

LEMMA IdleFacts ==
  Idle \in Actor /\ \A holds, settings : Knows(Idle, holds, settings)
BY DEF Idle, Actor, Phase, Optional, Knows, Holding, HasRead, Writing

\* What a rule says of a key in its chain is a rule with the same settings.
LEMMA ToldFacts ==
  ASSUME NEW set \in Setting, NEW group \in Groups
  PROVE  /\ Told(set, group) \in SwitchRule /\ Told(set, group) # Nothing
         /\ Told(set, group).set = set
         /\ [Told(set, group) EXCEPT !.state = "failed"] \in SwitchRule
         /\ [Told(set, group) EXCEPT !.state = "failed"].set = set
BY NothingIsNoState DEF Told, SwitchRule, Optional

\* The rule that is not moved by an evaluation keeps its settings.
LEMMA UnmovedFacts ==
  ASSUME NEW r \in SwitchRule, NEW group \in Groups, NEW verdicts
  PROVE  Unmoved(r, group, verdicts) \in SwitchRule /\ Unmoved(r, group, verdicts).set = r.set
<1>1. r.set \in Setting
  BY DEF SwitchRule
<1> QED
  BY <1>1, ToldFacts DEF Unmoved

LEMMA TargetOfType ==
  ASSUME NEW r \in SwitchRule
  PROVE  TargetOf(r) \in Groups
<1>1. r.set.chain \in Chain /\ r.active \in Groups \cup {Nothing}
  BY DEF SwitchRule, Setting, Optional
<1>2. r.set.chain[1] \in Groups
  BY <1>1, ChainFacts, ElementOfSeq
<1> QED
  BY <1>1, <1>2 DEF TargetOf

\* One caller moves, with the gate or without it, while the settings stay.
LEMMA OneMoves ==
  ASSUME SwitchInv, NEW a \in Actors, NEW t \in Actor, actor' = [actor EXCEPT ![a] = t],
         InForce' = InForce, gate' = gate \/ (gate' = a /\ gate = Nothing) \/ (gate' = Nothing /\ gate = a),
         Knows(t, gate' = a, InForce)
  PROVE  actor' \in [Actors -> Actor] /\ gate' \in Optional(Actors) /\ CallersKnow'
<1>1. actor' \in [Actors -> Actor] /\ gate' \in Optional(Actors)
  BY DEF SwitchInv, SwitchTypeOK, Optional
<1>2. ASSUME NEW b \in Actors PROVE Knows(actor'[b], gate' = b, InForce')
  <2>1. CASE b = a
    BY <2>1 DEF SwitchInv, SwitchTypeOK
  <2>2. CASE b # a
    <3>1. actor'[b] = actor[b] /\ Knows(actor[b], gate = b, InForce)
      BY <2>2 DEF SwitchInv, CallersKnow, SwitchTypeOK
    <3>2. gate = b => gate' = b
      BY <2>2, NothingIsNeither
    <3> QED
      BY <3>1, <3>2 DEF Knows
  <2> QED
    BY <2>1, <2>2
<1> QED
  BY <1>1, <1>2 DEF CallersKnow

\* The caller leaves.
LEMMA LeavesFacts ==
  ASSUME SwitchInv, NEW a \in Actors, Leaves(a), InForce' = InForce
  PROVE  actor' \in [Actors -> Actor] /\ gate' \in Optional(Actors) /\ CallersKnow'
<1>1. gate' = gate \/ (gate' = Nothing /\ gate = a)
  BY DEF Leaves
<1>2. Knows(Idle, gate' = a, InForce) /\ Idle \in Actor
  BY IdleFacts
<1> QED
  BY <1>1, <1>2, OneMoves DEF Leaves

\* Only the phase changes.
LEMMA GoesFacts ==
  ASSUME SwitchInv, NEW a \in Actors, NEW phase \in Phase, Goes(a, phase), InForce' = InForce, gate' = gate,
         phase \in Holding => actor[a].phase \in Holding,
         phase \in HasRead => actor[a].phase \in HasRead,
         phase \in Writing => actor[a].phase \in Writing
  PROVE  actor' \in [Actors -> Actor] /\ gate' \in Optional(Actors) /\ CallersKnow'
<1> DEFINE t == [actor[a] EXCEPT !.phase = phase]
<1>1. actor[a] \in Actor /\ Knows(actor[a], gate = a, InForce)
  BY DEF SwitchInv, SwitchTypeOK, CallersKnow
<1>2. t \in Actor /\ t.phase = phase /\ t.copy = actor[a].copy /\ t.next = actor[a].next
  BY <1>1 DEF Actor
<1>3. actor' = [actor EXCEPT ![a] = t]
  BY DEF Goes
<1> HIDE DEF t
<1>4. Knows(t, gate' = a, InForce)
  BY <1>1, <1>2 DEF Knows
<1> QED
  BY <1>2, <1>3, <1>4, OneMoves

-----------------------------------------------------------------------------
(* Switching: the steps                                                     *)

LEMMA ActorIs ==
  ASSUME SwitchInv, NEW a \in Actors
  PROVE  /\ actor[a] \in Actor /\ Knows(actor[a], gate = a, InForce)
         /\ actor[a].phase \in Phase /\ actor[a].forced \in BOOLEAN
         /\ actor[a].copy \in Optional(SwitchRule) /\ actor[a].next \in Optional(SwitchRule)
         /\ actor[a].snapshot \in Optional([Groups -> Verdict]) /\ actor[a].seen \in Optional(Place)
BY DEF SwitchInv, SwitchTypeOK, CallersKnow, Actor

\* A caller arrives, reads or fails to.
LEMMA SwitchReadingStep ==
  ASSUME SwitchInv, NEW a \in Actors,
         TakeSnapshot(a) \/ Ask(a) \/ Enter(a) \/ ReadSubscriptions(a) \/ ReadKeys(a) \/ ReadFails(a)
  PROVE  SwitchInv'
<1>1. UNCHANGED <<position, quota, late, rule, chosen, cleared, registered>>
  BY DEF TakeSnapshot, Ask, Enter, ReadSubscriptions, ReadKeys, ReadFails, SiteStands, Database
<1>2. /\ position \in Place /\ quota \in [Groups -> Verdict] /\ late \in Optional(Groups)
      /\ rule \in Optional(SwitchRule) /\ cache \in Optional(Place) /\ gate \in Optional(Actors)
      /\ chosen \in Optional(Setting) /\ actor \in [Actors -> Actor] /\ SettingsAreTheUsers
      /\ InForce' = InForce
  BY <1>1 DEF SwitchInv, SwitchTypeOK, InForce
<1>3. SUFFICES cache' \in Optional(Place) /\ actor' \in [Actors -> Actor] /\ gate' \in Optional(Actors)
               /\ CallersKnow'
  BY <1>1, <1>2 DEF SwitchInv, SwitchTypeOK, SettingsAreTheUsers
<1>4. CASE TakeSnapshot(a)
  <2> DEFINE t == [actor[a] EXCEPT !.phase = "waiting", !.snapshot = quota]
  <2>1. actor' = [actor EXCEPT ![a] = t] /\ gate' = gate /\ cache' = cache
    BY <1>2, <1>4 DEF TakeSnapshot
  <2> "waiting" \in Phase /\ quota \in Optional([Groups -> Verdict]) /\ actor[a] \in Actor
    BY <1>2, ActorIs DEF Phase, Optional
  <2>2. t \in Actor /\ t.phase = "waiting"
    BY DEF Actor
  <2> HIDE DEF t
  <2>3. Knows(t, gate' = a, InForce)
    BY <2>2 DEF Knows, Holding, HasRead, Writing
  <2> QED
    BY <1>1, <1>2, <2>1, <2>2, <2>3, OneMoves
<1>5. CASE Ask(a)
  <2> DEFINE t == [actor[a] EXCEPT !.phase = "waiting", !.forced = TRUE]
  <2>1. actor' = [actor EXCEPT ![a] = t] /\ gate' = gate /\ cache' = cache
    BY <1>2, <1>5 DEF Ask
  <2> "waiting" \in Phase /\ actor[a] \in Actor
    BY ActorIs DEF Phase
  <2>2. t \in Actor /\ t.phase = "waiting"
    BY DEF Actor
  <2> HIDE DEF t
  <2>3. Knows(t, gate' = a, InForce)
    BY <2>2 DEF Knows, Holding, HasRead, Writing
  <2> QED
    BY <1>1, <1>2, <2>1, <2>2, <2>3, OneMoves
<1>6. CASE Enter(a) /\ rule = Nothing
  <2>1. Leaves(a) /\ cache' = cache
    BY <1>6 DEF Enter
  <2> QED
    BY <1>1, <1>2, <2>1, LeavesFacts
<1>7. CASE Enter(a) /\ rule # Nothing
  <2> DEFINE t == [actor[a] EXCEPT !.phase = "reading", !.copy = rule]
  <2>1. actor' = [actor EXCEPT ![a] = t] /\ gate = Nothing /\ gate' = a /\ cache' = cache
    BY <1>2, <1>7 DEF Enter
  <2>2. rule.set = InForce
    BY <1>2, <1>7 DEF SettingsAreTheUsers
  <2> "reading" \in Phase /\ actor[a] \in Actor
    BY ActorIs DEF Phase
  <2>3. t \in Actor /\ t.phase = "reading" /\ t.copy = rule
    BY <1>2 DEF Actor
  <2> HIDE DEF t
  <2>4. Knows(t, gate' = a, InForce)
    BY <1>7, <2>1, <2>2, <2>3 DEF Knows, Writing
  <2> QED
    BY <1>1, <1>2, <2>1, <2>3, <2>4, OneMoves
<1>8. CASE ReadSubscriptions(a)
  <2> DEFINE t == [actor[a] EXCEPT !.snapshot = quota]
  <2>1. actor' = [actor EXCEPT ![a] = t] /\ gate' = gate /\ cache' = cache
    BY <1>2, <1>8 DEF ReadSubscriptions
  <2>2. t \in Actor
    BY <1>2, ActorIs DEF Actor, Optional
  <2>3. t.phase = actor[a].phase /\ t.copy = actor[a].copy /\ t.next = actor[a].next
    BY ActorIs DEF Actor
  <2> HIDE DEF t
  <2>4. Knows(t, gate' = a, InForce)
    BY <2>1, <2>3, ActorIs DEF Knows
  <2> QED
    BY <1>1, <1>2, <2>1, <2>2, <2>4, OneMoves
<1>9. CASE ReadKeys(a)
  <2> DEFINE keys == IF cache = Nothing \/ actor[a].forced THEN position ELSE cache
             t == [actor[a] EXCEPT !.seen = keys]
  <2>1. actor' = [actor EXCEPT ![a] = t] /\ gate' = gate /\ cache' = keys
    BY <1>2, <1>9 DEF ReadKeys
  <2>2. keys \in Place
    BY <1>2 DEF Optional
  <2> HIDE DEF keys
  <2>3. t \in Actor
    BY <2>2, ActorIs DEF Actor, Optional
  <2>4. t.phase = actor[a].phase /\ t.copy = actor[a].copy /\ t.next = actor[a].next
    BY ActorIs DEF Actor
  <2> HIDE DEF t
  <2>5. Knows(t, gate' = a, InForce)
    BY <2>1, <2>4, ActorIs DEF Knows
  <2> QED
    BY <1>1, <1>2, <2>1, <2>2, <2>3, <2>5, OneMoves DEF Optional
<1>10. CASE ReadFails(a)
  <2>1. Leaves(a) /\ cache' = cache
    BY <1>10 DEF ReadFails
  <2> QED
    BY <1>1, <1>2, <2>1, LeavesFacts
<1> QED
  BY <1>4, <1>5, <1>6, <1>7, <1>8, <1>9, <1>10

\* evaluate_single_rule decides: what it is about to write has the settings it has read.
LEMMA DecideStep ==
  ASSUME SwitchInv, NEW a \in Actors, Decide(a)
  PROVE  SwitchInv'
<1> DEFINE r == actor[a].copy
           group == actor[a].seen
           verdicts == actor[a].snapshot
           target == Target(r.set, group, verdicts)
           still == Unmoved(r, group, verdicts)
<1>1. UNCHANGED <<position, quota, late, rule, chosen, cleared, registered, cache>>
  BY DEF Decide, SiteStands, Database
<1> InForce' = InForce
  BY <1>1 DEF InForce
<1>2. SUFFICES actor' \in [Actors -> Actor] /\ gate' \in Optional(Actors) /\ CallersKnow'
  BY <1>1 DEF SwitchInv, SwitchTypeOK, SettingsAreTheUsers
<1>3. /\ actor[a].phase = "reading" /\ group # Nothing /\ gate = a
      /\ r \in SwitchRule /\ r.set = InForce /\ r.set \in Setting
  BY ActorIs DEF Decide, Knows, Holding, HasRead, Optional, SwitchRule
<1>4. CASE Leaves(a)
  BY <1>1, <1>4, LeavesFacts
<1>5. CASE Goes(a, "failing") /\ UNCHANGED gate
  <2>1. "failing" \in Phase
    BY DEF Phase
  <2> QED
    BY <1>1, <1>3, <1>5, <2>1, GoesFacts DEF Holding, HasRead, Writing
<1>6. ASSUME NEW phase \in {"moving", "saving"}, NEW next \in SwitchRule, next.set = r.set, gate' = gate,
             actor' = [actor EXCEPT ![a].phase = phase, ![a].next = next]
      PROVE  actor' \in [Actors -> Actor] /\ gate' \in Optional(Actors) /\ CallersKnow'
  <2> DEFINE t == [actor[a] EXCEPT !.phase = phase, !.next = next]
  <2>1. actor' = [actor EXCEPT ![a] = t]
    BY <1>2, <1>6
  <2> phase \in Phase /\ next \in Optional(SwitchRule) /\ actor[a] \in Actor
    BY ActorIs DEF Phase, Optional
  <2>2. t \in Actor
    BY DEF Actor
  <2>3. t.phase = phase /\ t.copy = r /\ t.next = next
    BY ActorIs DEF Actor
  <2> HIDE DEF t
  <2>4. Knows(t, gate' = a, InForce)
    BY <1>3, <1>6, <2>3, NothingIsNoState DEF Knows
  <2> QED
    BY <1>1, <1>6, <2>1, <2>2, <2>4, OneMoves
<1>7. CASE group \in Range(r.set.chain)
  <2>1. group \in Groups
    <3>1. r.set.chain \in Seq(Groups) /\ DOMAIN r.set.chain = 1..Len(r.set.chain)
      BY <1>3, ChainFacts DEF Setting
    <3> QED
      BY <1>7, <3>1, ElementOfSeq DEF Range
  <2>2. target \in Groups \cup {Nothing}
    BY <1>3, <1>7, TargetIsGroup
  <2>3. target # Nothing => Told(r.set, target) \in SwitchRule /\ Told(r.set, target).set = r.set
    BY <1>3, <2>2, ToldFacts
  <2>4. still \in SwitchRule /\ still.set = r.set
    BY <1>3, <2>1, UnmovedFacts
  <2>5. \/ Leaves(a)
        \/ /\ target # Nothing /\ gate' = gate
           /\ actor' = [actor EXCEPT ![a].phase = "moving", ![a].next = Told(r.set, target)]
        \/ /\ gate' = gate
           /\ actor' = [actor EXCEPT ![a].phase = "saving", ![a].next = still]
    BY <1>3, <1>7 DEF Decide
  <2> QED
    BY <1>4, <1>6, <2>3, <2>4, <2>5
<1>8. CASE group \notin Range(r.set.chain)
  <2>1. Leaves(a) \/ (Goes(a, "failing") /\ UNCHANGED gate)
    BY <1>3, <1>8 DEF Decide
  <2> QED
    BY <1>4, <1>5, <2>1
<1> QED
  BY <1>7, <1>8

\* Whose settings the rule has depends on nothing else.
LEMMA InForceStands == UNCHANGED <<chosen, cleared>> => InForce' = InForce
BY DEF InForce

\* What changes no caller and no settings, and keeps the type of what it changes.
LEMMA SettingsStand ==
  ASSUME SwitchInv, UNCHANGED <<chosen, cleared, registered>>,
         position' \in Place, quota' \in [Groups -> Verdict], late' \in Optional(Groups),
         cache' \in Optional(Place), actor' \in [Actors -> Actor], gate' \in Optional(Actors), CallersKnow',
         rule' = rule \/ (registered /\ rule' \in SwitchRule /\ rule' # Nothing /\ rule'.set = InForce)
  PROVE  SwitchInv'
<1>1. rule' \in Optional(SwitchRule) /\ chosen' \in Optional(Setting)
  BY DEF SwitchInv, SwitchTypeOK, Optional
<1>2. SettingsAreTheUsers'
  BY DEF SwitchInv, SettingsAreTheUsers, InForce
<1> QED
  BY <1>1, <1>2 DEF SwitchInv, SwitchTypeOK

LEMMA TypesOfState ==
  ASSUME SwitchInv
  PROVE  /\ position \in Place /\ quota \in [Groups -> Verdict] /\ late \in Optional(Groups)
         /\ rule \in Optional(SwitchRule) /\ cache \in Optional(Place) /\ gate \in Optional(Actors)
         /\ chosen \in Optional(Setting) /\ cleared \in Optional(Setting)
         /\ registered \in BOOLEAN /\ actor \in [Actors -> Actor]
BY DEF SwitchInv, SwitchTypeOK

\* What a request that is given up may leave at the site.
LEMMA LeftoverFacts ==
  ASSUME SwitchInv, NEW a \in Actors, Leftover(a)
  PROVE  late' \in Optional(Groups)
<1>1. late' = late \/ (actor[a].phase = "moving" /\ late' = TargetOf(actor[a].next))
  BY DEF Leftover
<1>2. CASE actor[a].phase = "moving"
  <2>1. actor[a].next \in SwitchRule
    BY <1>2, ActorIs DEF Knows, Writing, Optional
  <2> QED
    BY <1>1, <2>1, TargetOfType, TypesOfState DEF Optional
<1> QED
  BY <1>1, <1>2, TypesOfState

\* The writes of an evaluation: the key, then the rule.
LEMMA WritingStep ==
  ASSUME SwitchInv, NEW a \in Actors,
         \/ Move(a) \/ MoveFails(a) \/ Save(a) \/ SaveFails(a)
         \/ MarkRuleFailed(a) \/ MarkRuleFails(a) \/ Refresh(a)
  PROVE  SwitchInv'
<1> USE TypesOfState
<1> DEFINE t == actor[a]
<1>1. t \in Actor /\ Knows(t, gate = a, InForce)
  BY ActorIs
<1>2. t.phase \in Writing => t.next \in SwitchRule /\ t.next # Nothing /\ t.next.set = InForce
  BY <1>1, ActorIs DEF Knows, Optional
<1>3. t.phase \in HasRead => t.copy \in SwitchRule /\ t.copy.set = InForce
  BY <1>1, ActorIs DEF Knows, Optional
<1>4. {"moved", "failing", "refreshing"} \subseteq Phase
  BY DEF Phase
<1>5. CASE Move(a)
  <2>1. t.phase = "moving" /\ Goes(a, "moved") /\ UNCHANGED <<gate, rule, chosen, cleared, registered>>
    BY <1>5 DEF Move, Database
  <2>2. position' \in Place /\ cache' \in Optional(Place) /\ late' = late /\ quota' = quota
    BY <1>2, <1>5, <2>1, TargetOfType DEF Move, Place, Optional, Writing
  <2>3. actor' \in [Actors -> Actor] /\ gate' \in Optional(Actors) /\ CallersKnow'
    BY <1>4, <2>1, GoesFacts, InForceStands DEF Holding, HasRead, Writing
  <2> QED
    BY <2>1, <2>2, <2>3, SettingsStand
<1>6. CASE MoveFails(a) \/ SaveFails(a)
  <2>1. /\ t.phase \in {"moving", "moved", "saving"} /\ Goes(a, "failing")
        /\ UNCHANGED <<gate, chosen, cleared, registered, rule, position, quota, cache>>
    BY <1>6 DEF MoveFails, SaveFails, Database, SiteStands
  <2>2. late' \in Optional(Groups)
    BY <1>6, LeftoverFacts DEF MoveFails, SaveFails, SiteStands
  <2>3. actor' \in [Actors -> Actor] /\ gate' \in Optional(Actors) /\ CallersKnow'
    BY <1>4, <2>1, GoesFacts, InForceStands DEF Holding, HasRead, Writing
  <2> QED
    BY <2>1, <2>2, <2>3, SettingsStand
<1>7. CASE Save(a)
  <2>1. /\ t.phase \in {"moved", "saving"} /\ rule' = t.next /\ registered
        /\ UNCHANGED <<chosen, cleared, registered, position, quota, late, cache>>
    BY <1>7 DEF Save, SiteStands, OnlyTheRule
  <2>2. (Goes(a, "refreshing") /\ gate' = gate) \/ Leaves(a)
    BY <1>7 DEF Save
  <2>3. actor' \in [Actors -> Actor] /\ gate' \in Optional(Actors) /\ CallersKnow'
    BY <1>4, <2>1, <2>2, GoesFacts, LeavesFacts, InForceStands DEF Holding, HasRead, Writing
  <2> QED
    BY <1>2, <2>1, <2>3, SettingsStand DEF Writing
<1>8. CASE MarkRuleFailed(a)
  <2>1. /\ t.phase = "failing" /\ rule' = [t.copy EXCEPT !.state = "failed"] /\ registered
        /\ UNCHANGED <<chosen, cleared, registered, position, quota, late, cache>> /\ Leaves(a)
    BY <1>8 DEF MarkRuleFailed, SiteStands, OnlyTheRule
  <2>2. t.copy \in SwitchRule /\ t.copy.set = InForce
    BY <1>3, <2>1 DEF HasRead
  <2>3. rule' \in SwitchRule /\ rule'.set = InForce
    BY <2>1, <2>2 DEF SwitchRule
  <2>4. actor' \in [Actors -> Actor] /\ gate' \in Optional(Actors) /\ CallersKnow'
    BY <2>1, LeavesFacts, InForceStands
  <2> QED
    BY <2>1, <2>3, <2>4, SettingsStand, NothingIsNoState
<1>9. CASE MarkRuleFails(a) \/ Refresh(a)
  <2>1. /\ Leaves(a) /\ UNCHANGED <<chosen, cleared, registered, rule, position, quota, late>>
        /\ cache' \in {cache, position}
    BY <1>9 DEF MarkRuleFails, Refresh, SiteStands, Database
  <2>2. actor' \in [Actors -> Actor] /\ gate' \in Optional(Actors) /\ CallersKnow'
    BY <2>1, LeavesFacts, InForceStands
  <2> QED
    BY <2>1, <2>2, SettingsStand DEF Optional
<1> QED
  BY <1>5, <1>6, <1>7, <1>8, <1>9

\* Who does not hold the gate knows nothing that could be out of date.
LEMMA OutsideFacts ==
  ASSUME SwitchInv, NEW b \in Actors, gate # b
  PROVE  \A holds, settings : Knows(actor[b], holds, settings)
<1>1. actor[b].phase \notin Holding
  BY ActorIs DEF Knows
<1> QED
  BY <1>1 DEF Knows, Holding, HasRead, Writing

\* Users edit the rule under the gate, and delete it while nobody has it.
LEMMA EditingStep ==
  ASSUME SwitchInv, NEW a \in Actors,
         \/ BeginEdit(a) \/ EditIsRefused(a) \/ Delete(a) \/ \E set \in Settings : SaveSettings(a, set)
  PROVE  SwitchInv'
<1> USE TypesOfState
<1>1. CASE BeginEdit(a)
  <2> DEFINE t == [actor[a] EXCEPT !.phase = "editing", !.forced = TRUE]
  <2>1. /\ actor' = [actor EXCEPT ![a] = t] /\ gate = Nothing /\ gate' = a
        /\ UNCHANGED <<chosen, cleared, registered, rule, position, quota, late, cache>>
    BY <1>1 DEF BeginEdit, SiteStands
  <2>2. "editing" \in Phase /\ actor[a] \in Actor
    BY ActorIs DEF Phase
  <2>3. t \in Actor /\ t.phase = "editing"
    BY <2>2 DEF Actor
  <2> HIDE DEF t
  <2>4. Knows(t, gate' = a, InForce)
    BY <2>1, <2>3 DEF Knows, HasRead, Writing
  <2>5. actor' \in [Actors -> Actor] /\ gate' \in Optional(Actors) /\ CallersKnow'
    BY <2>1, <2>3, <2>4, OneMoves, InForceStands
  <2> QED
    BY <2>1, <2>5, SettingsStand
<1>2. CASE EditIsRefused(a)
  <2>1. Leaves(a) /\ UNCHANGED <<chosen, cleared, registered, rule, position, quota, late, cache>>
    BY <1>2 DEF EditIsRefused, SiteStands, Database
  <2>2. actor' \in [Actors -> Actor] /\ gate' \in Optional(Actors) /\ CallersKnow'
    BY <2>1, LeavesFacts, InForceStands
  <2> QED
    BY <2>1, <2>2, SettingsStand
<1>3. CASE Delete(a)
  <2>1. /\ gate = Nothing /\ rule' = Nothing /\ chosen' = Nothing /\ cleared' = Nothing
        /\ UNCHANGED <<registered, position, quota, late, cache, gate, actor>>
    BY <1>3 DEF Delete, SiteStands, memory
  <2>2. \A b \in Actors : gate # b
    BY <2>1, NothingIsNeither
  <2>3. CallersKnow'
    BY <2>1, <2>2, OutsideFacts DEF CallersKnow
  <2> QED
    BY <2>1, <2>3 DEF SwitchInv, SwitchTypeOK, SettingsAreTheUsers, Optional
<1>4. ASSUME NEW set \in Settings, SaveSettings(a, set)
      PROVE  SwitchInv'
  <2>1. /\ actor[a].phase = "editing" /\ actor[a].seen \in Range(set.chain)
        /\ rule' = Told(set, actor[a].seen) /\ chosen' = set /\ cleared' = Nothing /\ registered
        /\ actor' = [actor EXCEPT ![a] = Idle] /\ gate' = (IF gate = a THEN Nothing ELSE gate)
        /\ UNCHANGED <<registered, position, quota, late, cache>>
    BY <1>4 DEF SaveSettings, SiteStands, Leaves
  <2>2. gate = a /\ gate' = Nothing
    BY <2>1, ActorIs DEF Knows, Holding
  <2>3. set \in Setting
    BY SettingsType
  <2>4. actor[a].seen \in Groups
    <3>1. set.chain \in Seq(Groups) /\ DOMAIN set.chain = 1..Len(set.chain)
      BY <2>3, ChainFacts DEF Setting
    <3> QED
      BY <2>1, <3>1, ElementOfSeq DEF Range
  <2>5. rule' \in SwitchRule /\ rule' # Nothing /\ rule'.set = set
    BY <2>1, <2>3, <2>4, ToldFacts
  <2>6. ASSUME NEW b \in Actors PROVE actor'[b] \in Actor /\ Knows(actor'[b], gate' = b, InForce')
    <3>1. CASE b = a
      BY <2>1, <3>1, IdleFacts
    <3>2. CASE b # a
      <4>1. actor'[b] = actor[b] /\ gate # b
        BY <2>1, <2>2, <3>2
      <4> QED
        BY <4>1, OutsideFacts
    <3> QED
      BY <3>1, <3>2
  <2>7. actor' \in [Actors -> Actor]
    BY <2>1, <2>6
  <2>8. CallersKnow'
    BY <2>6 DEF CallersKnow
  <2>9. InForce' = set
    BY <2>1, <2>3, NothingIsNoState DEF InForce
  <2>10. SettingsAreTheUsers'
    BY <2>1, <2>5, <2>9 DEF SettingsAreTheUsers
  <2> QED
    BY <2>1, <2>2, <2>3, <2>5, <2>7, <2>8, <2>10 DEF SwitchInv, SwitchTypeOK, Optional
<1> QED
  BY <1>1, <1>2, <1>3, <1>4

\* A rule is taken away without the gate: whoever has read it still knows its settings, which
\* are those that were cleared.
LEMMA TakenAwayStep ==
  ASSUME SwitchInv, TakenAway, registered' \in BOOLEAN
  PROVE  SwitchInv'
<1> USE TypesOfState
<1>1. /\ rule' = Nothing /\ chosen' = Nothing /\ cleared' = Copied
      /\ UNCHANGED <<position, quota, late, cache, gate, actor>>
  BY DEF TakenAway, SiteStands, memory
<1>2. InForce' = Copied
  BY <1>1 DEF InForce
<1>3. Copied \in Optional(Setting)
  BY ActorIs DEF Copied, Optional, SwitchRule
<1>4. ASSUME NEW b \in Actors PROVE Knows(actor[b], gate = b, Copied)
  <2>1. CASE gate = b
    <3>1. b # Nothing /\ Knows(actor[b], TRUE, InForce)
      BY <2>1, ActorIs, NothingIsNeither
    <3>2. actor[b].copy # Nothing => Copied = actor[b].copy.set
      BY <2>1, <3>1 DEF Copied
    <3> QED
      BY <2>1, <3>1, <3>2 DEF Knows, Writing, HasRead
  <2>2. CASE gate # b
    BY <2>2, OutsideFacts
  <2> QED
    BY <2>1, <2>2
<1>5. CallersKnow'
  BY <1>1, <1>2, <1>4 DEF CallersKnow
<1> QED
  BY <1>1, <1>3, <1>5 DEF SwitchInv, SwitchTypeOK, SettingsAreTheUsers, Optional

\* Callers are dropped, the program restarts, the site changes, the cache expires.
LEMMA WorldStep ==
  ASSUME SwitchInv,
         \/ \E a \in Actors : Drop(a)
         \/ ClearRules \/ AccountGoes \/ Restart \/ LateMove \/ QuotaChanges \/ KeyIsMoved \/ CacheExpires
  PROVE  SwitchInv'
<1> USE TypesOfState
<1>1. ASSUME NEW a \in Actors, Drop(a) PROVE SwitchInv'
  <2>1. Leaves(a) /\ Leftover(a) /\ UNCHANGED <<chosen, cleared, registered, rule, position, quota, cache>>
    BY <1>1 DEF Drop, Database
  <2>2. actor' \in [Actors -> Actor] /\ gate' \in Optional(Actors) /\ CallersKnow'
    BY <2>1, LeavesFacts, InForceStands
  <2>3. late' \in Optional(Groups)
    BY <2>1, LeftoverFacts
  <2> QED
    BY <2>1, <2>2, <2>3, SettingsStand
<1>2. CASE Restart
  <2>1. /\ \E a \in Actors : Leftover(a)
        /\ actor' = [a \in Actors |-> Idle] /\ gate' = Nothing /\ cache' = Nothing
        /\ UNCHANGED <<chosen, cleared, registered, rule, position, quota>>
    BY <1>2 DEF Restart, Database
  <2>2. late' \in Optional(Groups)
    BY <2>1, LeftoverFacts
  <2>3. actor' \in [Actors -> Actor] /\ \A b \in Actors : actor'[b] = Idle
    BY <2>1, IdleFacts
  <2>4. CallersKnow'
    BY <2>3, IdleFacts DEF CallersKnow
  <2> QED
    BY <2>1, <2>2, <2>3, <2>4, SettingsStand DEF Optional
<1>3. ASSUME UNCHANGED <<rule, chosen, cleared, registered, gate, actor>>,
             position' \in Place, quota' \in [Groups -> Verdict], late' \in Optional(Groups),
             cache' \in Optional(Place)
      PROVE  SwitchInv'
  <2>1. CallersKnow'
    BY <1>3, InForceStands DEF SwitchInv, CallersKnow
  <2> QED
    BY <1>3, <2>1, SettingsStand
<1>4. CASE LateMove
  BY <1>3, <1>4 DEF LateMove, Database, memory, Optional, Place
<1>5. CASE QuotaChanges
  <2>1. quota' \in [Groups -> Verdict]
    BY <1>5 DEF QuotaChanges
  <2> QED
    BY <1>3, <1>5, <2>1 DEF QuotaChanges, Database, memory
<1>6. CASE KeyIsMoved
  BY <1>3, <1>6 DEF KeyIsMoved, Database, memory
<1>7. CASE CacheExpires
  BY <1>3, <1>7 DEF CacheExpires, SiteStands, Database, Optional
<1>8. CASE ClearRules \/ AccountGoes
  BY <1>8, TakenAwayStep DEF ClearRules, AccountGoes
<1> QED
  BY <1>1, <1>2, <1>4, <1>5, <1>6, <1>7, <1>8

LEMMA SwitchInitOK == SwitchInit => SwitchInv
<1> SUFFICES ASSUME SwitchInit PROVE SwitchInv
  OBVIOUS
<1>1. chosen \in Setting /\ chosen.chain \in Chain
  BY SettingsType DEF SwitchInit, Setting
<1>2. chosen.chain[1] \in Groups
  BY <1>1, ChainFacts, ElementOfSeq
<1>3. position \in Groups /\ rule = Told(chosen, position)
  BY <1>2 DEF SwitchInit
<1>4. rule \in SwitchRule /\ rule # Nothing /\ rule.set = chosen
  BY <1>1, <1>3, ToldFacts
<1>5. actor \in [Actors -> Actor] /\ \A a \in Actors : actor[a] = Idle
  BY IdleFacts DEF SwitchInit
<1>6. CallersKnow
  BY <1>5, IdleFacts DEF CallersKnow
<1>7. quota \in [Groups -> Verdict] /\ late = Nothing /\ cache = Nothing /\ gate = Nothing
  BY QuotasType DEF SwitchInit
<1> QED
  BY <1>1, <1>3, <1>4, <1>5, <1>6, <1>7, NothingIsNoState
  DEF SwitchInit, SwitchInv, SwitchTypeOK, SettingsAreTheUsers, InForce, Place, Optional

LEMMA SwitchStep ==
  ASSUME SwitchInv, [SwitchNext]_switchVars
  PROVE  SwitchInv'
<1>1. ASSUME NEW a \in Actors,
             TakeSnapshot(a) \/ Ask(a) \/ Enter(a) \/ Evaluate(a) \/ Fail(a) \/ BeginEdit(a) \/ Delete(a)
      PROVE  SwitchInv'
  BY <1>1, SwitchReadingStep, DecideStep, WritingStep, EditingStep, WorldStep DEF Evaluate, Fail, EndEdit
<1>2. CASE UNCHANGED switchVars
  BY <1>2 DEF switchVars, memory, SwitchInv, SwitchTypeOK, SettingsAreTheUsers, CallersKnow, InForce
<1> QED
  BY <1>1, <1>2, WorldStep DEF SwitchNext

-----------------------------------------------------------------------------
(* Switching: the theorems                                                  *)

\* The inductive invariant: everybody who has read the rule holds the gate of the account,
\* and what he has read and is about to write has the settings that were saved last, or those
\* with which clear_runtime_data or the removal of the account deleted it under him.
THEOREM SwitchInvariance == SwitchSpec => []SwitchInv
<1>1. SwitchInit => SwitchInv
  BY SwitchInitOK
<1>2. SwitchInv /\ [SwitchNext]_switchVars => SwitchInv'
  BY SwitchStep
<1> QED
  BY <1>1, <1>2, PTL DEF SwitchSpec

\* Every variable keeps its type: the key is only moved to a group of its chain.
THEOREM SwitchTypeCorrect == SwitchSpec => []SwitchTypeOK
<1>1. SwitchInv => SwitchTypeOK
  BY DEF SwitchInv
<1> QED
  BY <1>1, SwitchInvariance, PTL

\* An evaluation (subscription_switch_service.rs) that writes back the rule it has read never
\* undoes an edit nor a deletion by a user, however long ago it has read it, nor brings back the
\* rule of an account that was removed.  Only a rule that clear_runtime_data, which does not take
\* the gate, deleted under it may come back, with the settings it had, until a user changes or
\* deletes it.
THEOREM SettingsSurvive == SwitchSpec => []SettingsAreTheUsers
<1>1. SwitchInv => SettingsAreTheUsers
  BY DEF SwitchInv
<1> QED
  BY <1>1, SwitchInvariance, PTL

=============================================================================
