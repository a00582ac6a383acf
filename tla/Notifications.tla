----------------------------- MODULE Notifications -----------------------------
(***************************************************************************)
(* The notifications of the desktop program, from their arrival to the     *)
(* moment a reader is done with them (src-tauri/src/lib.rs,                *)
(* usage_notification_outbox.rs and FloatingNotificationWindowRoot.tsx).   *)
(*                                                                         *)
(* The mailbox is in the memory of the program, the outbox in its          *)
(* database: it keeps what tells of usage over a restart.  Each change of  *)
(* the two is made under a lock, hence one action; the snapshot that tells *)
(* the window of it is taken and sent later, under a lock of its own, so   *)
(* that the snapshots that are sent arrive in order.  The answers to the   *)
(* commands of the window carry snapshots too, and arrive whenever they    *)
(* do.  The handlers of the window run one at a time.                      *)
(*                                                                         *)
(* A panel over the window and a window that is hidden pause it in the     *)
(* same way: the first is modelled.  The pointer and the keyboard pause it *)
(* until they are elsewhere, which is left out, and so is the snapshot that *)
(* opening and closing a detail send again: it tells nothing new.          *)
(***************************************************************************)
EXTENDS NotificationQueue

CONSTANTS Notices,     \* the notifications
          Usage,       \* those that tell of usage
          Together,    \* bound: the sets of notifications that one behaviour sends
          PlacesAsked, \* bound: the numbers of places that the user sets
          MaxTroubles  \* bound: failures of the database, restarts, deletions of rows of the
                       \* outbox, changes of the number of places and openings of the panel

ASSUME NoticesType == Usage \subseteq Notices /\ None \notin Notices
ASSUME PlacesType == PlacesAsked \subseteq Nat \ {0} /\ PlacesAsked # {}

VARIABLES
  due,       \* notifications that nobody has sent yet
  outbox,    \* database: notifications of usage, in order
  mailbox,   \* program: revision and items
  syncs,     \* program: snapshots that are to be sent
  events,    \* snapshots on their way to the window
  call,      \* the calls with which the window dismisses its notifications
  asking,    \* reads of the snapshot that are asked for: by the window as it opens, or a retry
  reads,     \* answers to these reads on their way
  open,      \* window: it listens
  ready,     \* window: its preferences are there
  buffer,    \* window: the snapshot that waits for them, or None
  applied,   \* window: the last revision it applied
  places,    \* window: the number of places that the preferences ask for
  panel,     \* window: the panel is over it
  queue,     \* window: the queue
  shown,     \* history: notifications of usage that have been before the reader's eyes
  doubles,   \* history: those that were refused, as one of the same was in the outbox
  discarded, \* history: those whose row was deleted though nobody had dismissed them
  troubles

program == <<outbox, mailbox>>
window  == <<open, ready, buffer, applied, places, panel, queue>>
history == <<shown, doubles, discarded>>
nvars   == <<due, program, syncs, events, call, asking, reads, window, history, troubles>>

NoMail == [revision |-> 0, items |-> <<>>]

Snapshot == [revision : Nat, items : Seq(Notices)]

NoCall == [phase |-> "idle", answer |-> None]

NotificationInit ==
  /\ due = Notices
  /\ outbox = <<>> /\ mailbox = NoMail
  /\ syncs = 0 /\ events = <<>>
  /\ call = [n \in Notices |-> NoCall]
  /\ asking = {} /\ reads = {}
  /\ open = FALSE /\ ready = FALSE /\ buffer = None /\ applied = 0
  /\ places \in PlacesAsked /\ panel = FALSE /\ queue = NoQueue(places)
  /\ shown = {} /\ doubles = {} /\ discarded = {}
  /\ troubles = 0

Trouble == troubles < MaxTroubles /\ troubles' = troubles + 1

-----------------------------------------------------------------------------
(* The program                                                              *)

KeysOf(items) == {KeyOf[n] : n \in ToSet(items)}

Mailed(n) ==
  IF KeyOf[n] \in KeysOf(mailbox.items) THEN mailbox
  ELSE [revision |-> mailbox.revision + 1, items |-> Append(mailbox.items, n)]

\* Mutant: what tells of usage is not stored.
SendOnly(n) ==
  /\ n \in due /\ \E sent \in Together : (Notices \ due) \cup {n} \subseteq sent
  /\ due' = due \ {n}
  /\ mailbox' = Mailed(n)
  /\ syncs' = syncs + 1
  /\ UNCHANGED <<outbox, events, call, asking, reads, window, history, troubles>>

\* A notification of usage is stored first; one that is stored already goes no further.
Send(n) ==
  /\ n \in due /\ \E sent \in Together : (Notices \ due) \cup {n} \subseteq sent
  /\ due' = due \ {n}
  /\ IF n \notin Usage
     THEN mailbox' = Mailed(n) /\ UNCHANGED <<outbox, doubles>>
     ELSE IF KeyOf[n] \in KeysOf(outbox)
     THEN doubles' = doubles \cup {n} /\ UNCHANGED program
     ELSE outbox' = Append(outbox, n) /\ mailbox' = Mailed(n) /\ UNCHANGED doubles
  /\ syncs' = syncs + 1
  /\ UNCHANGED <<events, call, asking, reads, window, shown, discarded, troubles>>

\* A window that is not there misses what is sent.
Sent == events' = IF open THEN Append(events, mailbox) ELSE events

Sync ==
  /\ syncs > 0
  /\ syncs' = syncs - 1
  /\ Sent
  /\ UNCHANGED <<due, program, call, asking, reads, window, history, troubles>>

\* The preferences, without which nothing is sent, cannot be read.
SyncFails ==
  /\ syncs > 0
  /\ syncs' = syncs - 1
  /\ Trouble
  /\ UNCHANGED <<due, program, events, call, asking, reads, window, history>>

Calls(n, phase, answer) == call' = [call EXCEPT ![n] = [phase |-> phase, answer |-> answer]]

OnlyCalls == UNCHANGED <<due, syncs, asking, reads, window, history>>

\* dismiss_floating_notification: the row of the outbox first, then the item ...
Dismiss(n) ==
  /\ call[n].phase = "asked"
  /\ IF n \in ToSet(mailbox.items)
     THEN /\ outbox' = Removed(outbox, {n})
          /\ mailbox' = [revision |-> mailbox.revision + 1, items |-> Removed(mailbox.items, {n})]
     ELSE UNCHANGED program
  /\ Calls(n, "removed", None)
  /\ UNCHANGED <<events, troubles>> /\ OnlyCalls

\* ... and the snapshot is sent to the window, and is the answer.
DismissSends(n) ==
  /\ call[n].phase = "removed"
  /\ Sent
  /\ Calls(n, "answered", mailbox)
  /\ UNCHANGED <<program, troubles>> /\ OnlyCalls

\* The row cannot be removed, or the preferences not be read.
DismissFails(n) ==
  /\ call[n].phase \in {"asked", "removed"}
  /\ Trouble
  /\ Calls(n, "failed", None)
  /\ UNCHANGED <<program, events>> /\ OnlyCalls

\* The window asks whether the notification is gone all the same.
ReadAfterFailure(n) ==
  /\ call[n].phase = "failed"
  /\ Calls(n, "answered", mailbox)
  /\ UNCHANGED <<program, events, troubles>> /\ OnlyCalls

\* Rows of the outbox are deleted though nobody has dismissed them; the mailbox keeps its items.
Discards(gone) ==
  /\ gone # {} /\ gone \subseteq ToSet(outbox)
  /\ Trouble
  /\ outbox' = Removed(outbox, gone) /\ discarded' = discarded \cup gone
  /\ UNCHANGED <<due, mailbox, syncs, events, call, asking, reads, window, shown, doubles>>

\* run_database_maintenance prunes what was stored more than seven days ago.  Those are not
\* always the first rows: a row has the time at which its batch was made, which is before it is
\* stored.
Prune == \E old \in SUBSET ToSet(outbox) : Discards(old)

ClearRuntimeData == Discards(ToSet(outbox))

\* An account, or its site, is removed: its rows go with it.
AccountGoes == \E its \in SUBSET ToSet(outbox) : Discards(its)

AnswerRead(r) ==
  /\ r \in asking
  /\ asking' = asking \ {r}
  /\ reads' = reads \cup {mailbox}
  /\ UNCHANGED <<due, program, syncs, events, call, window, history, troubles>>

\* The memory of the program and its window are gone, the outbox is read again.
Restart ==
  /\ Trouble
  /\ mailbox' = IF outbox = <<>> THEN NoMail ELSE [revision |-> 1, items |-> outbox]
  /\ syncs' = 0 /\ events' = <<>>
  /\ call' = [n \in Notices |-> NoCall]
  /\ asking' = {} /\ reads' = {}
  /\ open' = FALSE /\ ready' = FALSE /\ buffer' = None /\ applied' = 0
  /\ panel' = FALSE /\ queue' = NoQueue(places)
  /\ UNCHANGED <<due, outbox, places, history>>

-----------------------------------------------------------------------------
(* The window: what it is told                                              *)

\* The panel pauses the queue that is there now.
UnderPanel(s) == IF panel THEN Paused(s, "panel") ELSE Resumed(s, "panel")

IsNews(s) == s.revision > applied

\* applyMailboxSnapshot, on the queue r.
Apply(s, r) ==
  LET resumed == Resumed(r, "sync")
  IN IF IsNews(s)
     THEN /\ applied' = s.revision
          /\ queue' = UnderPanel(Reconciled(resumed, s.items, places))
     ELSE /\ queue' = resumed
          /\ UNCHANGED applied

\* bufferMailboxSnapshot: before the preferences are there, the latest waits.
Take(s, r) ==
  IF ready THEN Apply(s, r) /\ UNCHANGED buffer
  ELSE /\ buffer' = IF buffer # None /\ s.revision < buffer.revision THEN buffer ELSE s
       /\ queue' = r
       /\ UNCHANGED applied

\* A card that has entered has been seen, and so has a detail.
NowShown == shown' = shown \cup {n \in Usage : IsAt(queue', n, "visible") \/ queue'.detail = n}

InWindow == NowShown /\ UNCHANGED <<due, program, doubles, discarded, troubles>>

OnlyTheQueue ==
  InWindow /\ UNCHANGED <<syncs, events, call, asking, reads, open, ready, buffer, applied, places, panel>>

Open ==
  /\ ~open /\ mailbox.items # <<>>
  /\ open' = TRUE /\ asking' = {"opening"}
  /\ UNCHANGED <<due, program, syncs, events, call, reads, ready, buffer, applied, places, panel, queue,
                 history, troubles>>

\* They are read, or cannot be and the defaults are taken.
PreferencesArrive ==
  /\ open /\ ~ready
  /\ ready' = TRUE /\ buffer' = None
  /\ IF buffer = None THEN UNCHANGED <<applied, queue>> ELSE Apply(buffer, queue)
  /\ InWindow /\ UNCHANGED <<syncs, events, call, asking, reads, open, places, panel>>

EventArrives ==
  /\ events # <<>>
  /\ events' = Tail(events)
  /\ Take(Head(events), queue)
  /\ InWindow /\ UNCHANGED <<syncs, call, asking, reads, open, ready, places, panel>>

ReadArrives(s) ==
  /\ s \in reads
  /\ reads' = reads \ {s}
  /\ Take(s, queue)
  /\ InWindow /\ UNCHANGED <<syncs, events, call, asking, open, ready, places, panel>>

-----------------------------------------------------------------------------
(* The window: the life of a card                                           *)

Enter(n) ==
  /\ IsAt(queue, n, "entering")
  /\ queue' = HasEntered(queue, n)
  /\ OnlyTheQueue

Expire ==
  /\ MayExpire(queue)
  /\ queue' = Expired(queue)
  /\ OnlyTheQueue

\* finishExit: a card that has left the screen is dismissed, once.
FinishExit(n) ==
  /\ IsAt(queue, n, "exiting") /\ call[n].phase = "idle"
  /\ Calls(n, "asked", None)
  /\ UNCHANGED <<program, events, troubles>> /\ OnlyCalls

\* The mailbox has let go of it.
Acknowledge(n) ==
  /\ call[n].phase = "answered" /\ n \notin ToSet(call[n].answer.items)
  /\ Calls(n, "idle", None)
  /\ Take(call[n].answer, Acknowledged(HasExited(queue, n), n))
  /\ InWindow /\ UNCHANGED <<syncs, events, asking, reads, open, ready, places, panel>>

\* Mutant: the snapshot is not asked for again.
RestoreOnly(n) ==
  /\ call[n].phase = "answered" /\ n \in ToSet(call[n].answer.items)
  /\ Calls(n, "idle", None)
  /\ queue' = Paused(Restored(queue, n), "sync")
  /\ InWindow /\ UNCHANGED <<syncs, events, asking, reads, open, ready, buffer, applied, places, panel>>

\* It has not: the card comes back, and waits until the snapshot has been read again.
Restore(n) ==
  /\ call[n].phase = "answered" /\ n \in ToSet(call[n].answer.items)
  /\ Calls(n, "idle", None)
  /\ queue' = Paused(Restored(queue, n), "sync")
  /\ asking' = asking \cup {n}
  /\ InWindow /\ UNCHANGED <<syncs, events, reads, open, ready, buffer, applied, places, panel>>

-----------------------------------------------------------------------------
(* The window: its user                                                     *)

OpenDetail(n) ==
  /\ queue.detail = None
  /\ queue' = DetailOpened(queue, n)
  /\ OnlyTheQueue

CloseDetail ==
  /\ queue.detail # None
  /\ queue' = DetailClosed(queue)
  /\ OnlyTheQueue

\* The reader is done with it: the card exits at once, and is dismissed if it could.
DismissDetail ==
  /\ queue.detail # None
  /\ queue' = DetailDismissed(queue, queue.detail)
  /\ call' = IF IsAt(queue', queue.detail, "exiting") /\ call[queue.detail].phase = "idle"
             THEN [call EXCEPT ![queue.detail].phase = "asked"] ELSE call
  /\ InWindow
  /\ UNCHANGED <<syncs, events, asking, reads, open, ready, buffer, applied, places, panel>>

PanelOpens ==
  /\ open /\ ~panel
  /\ panel' = TRUE /\ queue' = Paused(queue, "panel")
  /\ Trouble
  /\ UNCHANGED <<due, program, history, syncs, events, call, asking, reads, open, ready, buffer, applied, places>>

PanelCloses ==
  /\ panel
  /\ panel' = FALSE /\ queue' = Resumed(queue, "panel")
  /\ InWindow /\ UNCHANGED <<syncs, events, call, asking, reads, open, ready, buffer, applied, places>>

\* The preferences ask for another number of places; the queue follows when it is drawn.
AskForPlaces ==
  /\ open
  /\ places' \in PlacesAsked \ {places}
  /\ Trouble
  /\ UNCHANGED <<due, program, syncs, events, call, asking, reads, open, ready, buffer, applied, panel,
                 queue, history>>

FollowPlaces ==
  /\ open /\ queue.max # places
  /\ queue' = CappedAt(queue, places)
  /\ OnlyTheQueue

-----------------------------------------------------------------------------

CardStep(n) ==
  Dismiss(n) \/ DismissSends(n) \/ ReadAfterFailure(n) \/ Acknowledge(n) \/ Restore(n)

Told == EventArrives \/ \E s \in reads : ReadArrives(s)

User ==
  \/ CloseDetail \/ DismissDetail \/ PanelOpens \/ PanelCloses
  \/ AskForPlaces \/ \E n \in Notices : OpenDetail(n)

NotificationNext ==
  \/ \E n \in Notices : Send(n) \/ CardStep(n) \/ DismissFails(n) \/ Enter(n) \/ FinishExit(n)
  \/ Sync \/ SyncFails \/ Restart \/ Prune \/ ClearRuntimeData \/ AccountGoes
  \/ \E r \in Notices \cup {"opening"} : AnswerRead(r)
  \/ Open \/ PreferencesArrive \/ Told \/ Expire \/ FollowPlaces \/ User

NotificationSpec == NotificationInit /\ [][NotificationNext]_nvars

-----------------------------------------------------------------------------
(* Fairness                                                                 *)

\* What is on its way to the window arrives, whatever the window makes of it ...
EventIsTaken == events # <<>> /\ events' = Tail(events)
ReadIsTaken == \E s \in reads : reads' = reads \ {s}
AnswerIsTaken(n) == call[n].phase = "answered" /\ call' = [call EXCEPT ![n] = NoCall]
PreferencesAreTaken == open /\ ~ready /\ ready' = TRUE

\* The fairness of what timers do names the states in which they may, which is what ENABLED
\* says of <<queue.paused = {} /\ (Enter(n) \/ FinishExit(n))>>_nvars and of <<Expire>>_nvars.
MayMove(n) ==
  /\ queue.paused = {}
  /\ IsAt(queue, n, "entering") \/ (IsAt(queue, n, "exiting") /\ call[n].phase = "idle")

MayLeave == MayExpire(queue) /\ Expired(queue) # queue

\* Drawing the window is not put off for ever: this is WF_nvars(FollowPlaces), after which the
\* two are equal.
PlacesFollowed == []<>(open => queue.max = places)

\* The reader leaves the window alone again and again.
ReaderMovesOn == []<>(~panel /\ queue.detail = None)

\* ... and so do timers.  Time that a pause interrupts goes on after it, so that an animation
\* or a display that is interrupted again and again ends.
NotificationFairness ==
  /\ WF_nvars(Sync) /\ WF_nvars(Open) /\ WF_nvars(\E r \in asking : AnswerRead(r))
  /\ WF_events(EventIsTaken) /\ WF_reads(ReadIsTaken) /\ WF_ready(PreferencesAreTaken)
  /\ \A n \in Notices :
       /\ WF_nvars(Dismiss(n) \/ DismissSends(n) \/ ReadAfterFailure(n)) /\ WF_call(AnswerIsTaken(n))
       /\ []<>MayMove(n) => []<><<queue.paused = {} /\ (Enter(n) \/ FinishExit(n))>>_nvars
  /\ []<>MayLeave => []<><<Expire>>_nvars
  /\ PlacesFollowed /\ ReaderMovesOn

NotificationFairSpec == NotificationSpec /\ NotificationFairness

-----------------------------------------------------------------------------
(* Properties                                                               *)

\* Every variable has a value of its type.
NotificationTypeOK ==
  /\ due \subseteq Notices /\ outbox \in Seq(Usage) /\ mailbox \in Snapshot
  /\ syncs \in Nat /\ events \in Seq(Snapshot)
  /\ call \in [Notices -> [phase : {"idle", "asked", "removed", "failed", "answered"},
                           answer : Snapshot \cup {None}]]
  /\ asking \subseteq Notices \cup {"opening"} /\ reads \subseteq Snapshot
  /\ open \in BOOLEAN /\ ready \in BOOLEAN /\ buffer \in Snapshot \cup {None} /\ applied \in Nat
  /\ places \in PlacesAsked /\ panel \in BOOLEAN
  /\ queue.visible \in Seq([id : Notices, stage : {"entering", "visible", "exiting"}])
  /\ queue.pending \in Seq(Notices) /\ queue.awaiting \in Seq(Notices) /\ queue.exits \in Seq(Notices)
  /\ queue.paused \subseteq {"panel", "detail", "sync"} /\ queue.detail \in Notices \cup {None}

\* However snapshots, answers, timers and the user meet, at most one card moves, no more
\* cards are there than there are places, and none is there twice.
OneCardMoves ==
  LET moving == {i \in DOMAIN queue.visible : queue.visible[i].stage # "visible"}
      all == [i \in DOMAIN queue.visible |-> queue.visible[i].id] \o queue.pending \o queue.awaiting
  IN /\ Cardinality(moving) + Len(queue.awaiting) <= 1
     /\ Len(queue.visible) + Len(queue.awaiting) <= queue.max
     /\ IsInjective(all)

\* What tells of usage stays in the outbox until it has been before the reader's eyes, unless
\* one of the same key was there before it, whatever fails, is answered late or is lost with
\* the program: dismissing never deletes a row that nobody has seen.  Only the deletions that
\* ask nobody do, of rows older than seven days, of all the data and of an account; after a
\* restart what they deleted is never shown.
NothingLeavesUnseen == Usage \ due \subseteq ToSet(outbox) \cup shown \cup doubles \cup discarded

\* The window has not been told of the mailbox, and nobody will tell it: the preferences
\* could not be read when it was to be told.
Untold ==
  /\ applied < mailbox.revision
  /\ syncs = 0 /\ events = <<>> /\ asking = {} /\ reads = {}
  /\ \A n \in Notices : call[n].phase = "idle"

\* The queue has refused it, because one with the same key was still exiting.
Refused(n) == applied = mailbox.revision /\ n \in ToSet(mailbox.items) \ Ids(queue)

\* A card is asked to leave, nothing moves, and yet it stays.
Blocked == queue.exits # <<>> /\ ~Moving(queue)

\* Every notification is shown and leaves, unless the window cannot know of it or is blocked.
EveryNotificationLeaves ==
  \A n \in Notices :
    n \in ToSet(mailbox.items) ~> n \notin ToSet(mailbox.items) \/ Untold \/ Refused(n) \/ Blocked

\* A card that is asked to leave waits only while another one moves: the comment of
\* beginFloatingNotificationDetailDismissal says that it is never blocked for ever.
DismissalGoesOn == Blocked ~> ~Blocked

=============================================================================
