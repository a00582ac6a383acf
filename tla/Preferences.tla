------------------------------ MODULE Preferences ------------------------------
(***************************************************************************)
(* How an edit of the preferences reaches the database: the queue of one   *)
(* window (prefs-save-queue.ts), the hook that feeds it                    *)
(* (useDesktopUiPrefs.ts) and the commands that store it                   *)
(* (adapters/desktop/commands.rs, desktop_ui_service.rs).                  *)
(*                                                                         *)
(* A window keeps one operation for each field, sends the ready ones       *)
(* together and only one such save at a time, and keeps an operation that  *)
(* failed until the user retries or edits the field again.  Every caller   *)
(* edits one field.  Some fields are saved by a command of their own,      *)
(* which moves windows after it has stored the field and may fail there.   *)
(* The copies of the preferences that windows show and pass to each other  *)
(* are left out: a save sends the edited fields alone, whatever the copy.  *)
(***************************************************************************)
EXTENDS Naturals, FiniteSets

CONSTANTS Fields,       \* the preferences
          Commanded,    \* those that a command of their own saves
          MaxEdits,     \* bound: edits
          MaxRefusals   \* bound: saves that fail, and the window that closes

ASSUME CommandedAreFields == Commanded \subseteq Fields

VARIABLES
  queue,    \* window: its operations and who waits for them
  saving,   \* the save that is under way
  edits,    \* history: the edits of the user
  saved,    \* database, as a history: the edits that were written to it
  denied,   \* history: the edits whose callers were told that they failed
  refusals

prefVars == <<queue, saving, edits, saved, denied, refusals>>

Edit == [field : Fields, revision : 1..MaxEdits]

Operation == [edit : Edit, phase : {"pending", "saving", "failed"}, ready : BOOLEAN]

EmptyQueue == [revision |-> 0, ops |-> {}, active |-> FALSE, timer |-> FALSE, waiters |-> {}, open |-> TRUE]

NoSave == [phase |-> "none", sent |-> {}]

PreferencesInit ==
  /\ queue = EmptyQueue
  /\ saving = NoSave
  /\ edits = {} /\ saved = {} /\ denied = {}
  /\ refusals = 0

Refusal == refusals < MaxRefusals /\ refusals' = refusals + 1

-----------------------------------------------------------------------------
(* The queue of a window                                                    *)

InPhase(qu, phase) == {o \in qu.ops : o.phase = phase}

\* The timer is set for what is pending, but not while a save is under way: that one sets it.
Scheduled(qu) ==
  IF qu.active \/ ~qu.open THEN qu ELSE [qu EXCEPT !.timer = InPhase(qu, "pending") # {}]

\* Callers wait for the field, not for their own edit of it.
FailedFor(qu, e) == \E o \in InPhase(qu, "failed") : o.edit.field = e.field /\ o.edit.revision >= e.revision

DoneFor(qu, e) == \A o \in qu.ops : o.edit.field # e.field

\* settleWaiters: who waits for a field that failed, or that nothing is left of, is told.
Settles(qu) ==
  /\ queue' = [qu EXCEPT !.waiters = {e \in @ : ~FailedFor(qu, e) /\ ~DoneFor(qu, e)}]
  /\ denied' = denied \cup {e \in qu.waiters : FailedFor(qu, e)}

\* patchPrefs, handleSwitchMode, handleFloatingVisible: the edit takes the place of an older one.
Enqueue(f, debounced) ==
  LET e  == [field |-> f, revision |-> queue.revision + 1]
      op == [edit |-> e, phase |-> "pending", ready |-> ~debounced]
  IN  /\ queue.open /\ queue.revision < MaxEdits
      /\ Settles(Scheduled([queue EXCEPT !.revision = e.revision, !.waiters = @ \cup {e},
                                         !.ops = {o \in @ : o.edit.field # f} \cup {op}]))
      /\ edits' = edits \cup {e}
      /\ UNCHANGED <<saving, saved, refusals>>

\* Those that are sent together: the first that has a command goes alone.
Selected(ready) ==
  LET commanded == {o \in ready : o.edit.field \in Commanded}
  IN  IF commanded = {} THEN ready
      ELSE {CHOOSE o \in commanded : \A p \in commanded : o.edit.revision <= p.edit.revision}

\* flushReadyOperations, up to its await.  Time may have made more of the operations ready.
Flush ==
  /\ queue.timer
  /\ \E ready \in SUBSET InPhase(queue, "pending") :
       /\ {o \in InPhase(queue, "pending") : o.ready} \subseteq ready /\ ready # {}
       /\ LET sent == Selected(ready)
              asSaving(o) == IF o \in sent THEN [o EXCEPT !.phase = "saving", !.ready = TRUE]
                             ELSE IF o \in ready THEN [o EXCEPT !.ready = TRUE] ELSE o
          IN  /\ queue' = [queue EXCEPT !.ops = {asSaving(o) : o \in @}, !.timer = FALSE, !.active = TRUE]
              /\ saving' = [phase |-> "sent", sent |-> {o.edit : o \in sent}]
  /\ UNCHANGED <<edits, saved, denied, refusals>>

\* The command of the program: the fields it was sent are saved, all or none.
Store ==
  /\ saving.phase = "sent"
  /\ saved' = saved \cup saving.sent
  /\ saving' = [saving EXCEPT !.phase = "saved"]
  /\ UNCHANGED <<queue, edits, denied, refusals>>

StoreFails ==
  /\ saving.phase = "sent"
  /\ Refusal
  /\ saving' = [saving EXCEPT !.phase = "failed"]
  /\ UNCHANGED <<queue, edits, saved, denied>>

\* A command that moves windows has stored its field before it fails to.
MoveFails ==
  /\ saving.phase = "saved" /\ \E e \in saving.sent : e.field \in Commanded
  /\ Refusal
  /\ saving' = [saving EXCEPT !.phase = "failed"]
  /\ UNCHANGED <<queue, edits, saved, denied>>

\* The save is over, what is pending comes next.
Finishes(ops) ==
  /\ Settles(Scheduled([queue EXCEPT !.ops = ops, !.active = FALSE]))
  /\ saving' = NoSave

\* Mutant: the field is done, whatever was edited meanwhile.
SavedFields ==
  /\ saving.phase = "saved"
  /\ Finishes({o \in queue.ops : \A e \in saving.sent : e.field # o.edit.field})
  /\ UNCHANGED <<edits, saved, refusals>>

\* The rest of flushReadyOperations: a field that was edited meanwhile keeps its newer operation.
Saved ==
  /\ saving.phase = "saved"
  /\ Finishes({o \in queue.ops : o.edit \notin saving.sent})
  /\ UNCHANGED <<edits, saved, refusals>>

SaveFailed ==
  /\ saving.phase = "failed"
  /\ Finishes({IF o.edit \in saving.sent THEN [o EXCEPT !.phase = "failed"] ELSE o : o \in queue.ops})
  /\ UNCHANGED <<edits, saved, refusals>>

Retry ==
  /\ queue.open /\ InPhase(queue, "failed") # {}
  /\ LET again(o) == IF o.phase = "failed" THEN [o EXCEPT !.phase = "pending", !.ready = TRUE] ELSE o
     IN  queue' = Scheduled([queue EXCEPT !.ops = {again(o) : o \in @}])
  /\ UNCHANGED <<saving, edits, saved, denied, refusals>>

\* The window is gone: whoever waits is told that the queue is closed.
Dispose ==
  /\ queue.open
  /\ Refusal
  /\ queue' = [queue EXCEPT !.open = FALSE, !.timer = FALSE, !.waiters = {}]
  /\ denied' = denied \cup queue.waiters
  /\ UNCHANGED <<saving, edits, saved>>

-----------------------------------------------------------------------------

PreferencesNext ==
  \/ \E f \in Fields, debounced \in BOOLEAN : Enqueue(f, debounced)
  \/ Flush \/ Store \/ StoreFails \/ MoveFails \/ Saved \/ SaveFailed \/ Retry \/ Dispose

\* Timers fire, the program answers and handlers run; the user may do nothing at all.
PreferencesFairness ==
  WF_prefVars(Flush) /\ WF_prefVars(Store) /\ WF_prefVars(Saved \/ SaveFailed)

PreferencesSpec == PreferencesInit /\ [][PreferencesNext]_prefVars

PreferencesFairSpec == PreferencesSpec /\ PreferencesFairness

-----------------------------------------------------------------------------
(* Properties                                                               *)

\* Every variable has a value of its type.
PreferencesTypeOK ==
  /\ queue \in [revision : 0..MaxEdits, ops : SUBSET Operation, active : BOOLEAN, timer : BOOLEAN,
                waiters : SUBSET Edit, open : BOOLEAN]
  /\ saving \in [phase : {"none", "sent", "saved", "failed"}, sent : SUBSET Edit]
  /\ edits \subseteq Edit /\ saved \subseteq edits /\ denied \subseteq edits

\* The newest edit of the field is neither stored nor known to have failed.
IsOpen(f) ==
  \E e \in edits \ (saved \cup denied) :
    e.field = f /\ \A d \in edits : d.field = f => d.revision <= e.revision

\* The newest edit of a field is not forgotten, however it meets the save of an older one, a
\* failure or a retry: it is saved, or its caller is told that it failed.
EveryEditEnds == \A f \in Fields : IsOpen(f) ~> ~IsOpen(f)

=============================================================================
