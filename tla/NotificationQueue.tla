-------------------------- MODULE NotificationQueue --------------------------
(* The queue of the notification window, as functions from one of its states  *)
(* to the next: business-notification-queue.ts, and what                      *)
(* FloatingNotificationWindowRoot.tsx builds from it. A notification waits in *)
(* `pending', moves into `visible', enters, is shown, exits, and awaits the   *)
(* acknowledgement of the mailbox. Only one of them moves at a time. How long *)
(* one is shown is left out: its time may run out whenever it runs.           *)
EXTENDS Naturals, FiniteSets, SequencesExt

CONSTANTS KeyOf, \* the deduplication key of a notification
          None

\* Which of the first n of s are in S.
Taken(s, n, S) == {m \in 1..n : s[m] \in S}

\* What of s is in S, in its order: each follows those of them that precede it.
Kept(s, S) ==
  LET taken == Taken(s, Len(s), S)
  IN [p \in 1..Cardinality(taken) |-> s[CHOOSE m \in taken : Cardinality(Taken(s, m, S)) = p]]

Removed(s, S) == Kept(s, ToSet(s) \ S)

NoQueue(max) == [visible |-> <<>>, pending |-> <<>>, awaiting |-> <<>>, exits |-> <<>>,
                 keys |-> {}, paused |-> {}, detail |-> None, max |-> max]

VisibleIds(q) == {e.id : e \in ToSet(q.visible)}

Cards(q, ids) == {e \in ToSet(q.visible) : e.id \in ids}

Ids(q) == VisibleIds(q) \cup ToSet(q.pending) \cup ToSet(q.awaiting)

IsAt(q, n, stage) == \E e \in ToSet(q.visible) : e = [id |-> n, stage |-> stage]

WithStage(q, n, stage) ==
  [q EXCEPT !.visible = [i \in DOMAIN @ |-> IF @[i].id = n THEN [id |-> n, stage |-> stage] ELSE @[i]]]

\* Something enters, exits or awaits its acknowledgement.
Moving(q) == q.awaiting # <<>> \/ \E e \in ToSet(q.visible) : e.stage # "visible"

\* With nothing left in the queue, nobody points at it and no detail is open.
Settled(q) ==
  IF Ids(q) # {} \/ (q.paused = {} /\ q.detail = None) THEN q
  ELSE [q EXCEPT !.exits = <<>>, !.paused = {}, !.detail = None]

Promoted(q) ==
  IF q.pending = <<>> \/ Len(q.visible) + Len(q.awaiting) >= q.max \/ Moving(q) THEN q
  ELSE [q EXCEPT !.visible = Append(@, [id |-> Head(q.pending), stage |-> "entering"]),
                 !.pending = Tail(@)]

\* Mutant: an exit begins while another notification is still moving.
ExitAtOnce(q) ==
  LET asked == Kept(q.exits, VisibleIds(q))
  IN  IF asked = <<>> THEN [q EXCEPT !.exits = asked]
      ELSE WithStage([q EXCEPT !.exits = Tail(asked)], Head(asked), "exiting")

\* The first notification that was asked to leave begins to, unless something moves.
NextExit(q) ==
  LET asked == Kept(q.exits, VisibleIds(q))
  IN  IF asked = <<>> \/ Moving(q) THEN [q EXCEPT !.exits = asked]
      ELSE WithStage([q EXCEPT !.exits = Tail(asked)], Head(asked), "exiting")

\* What comes next: after a removal the place is filled first, otherwise exits come first.
Continued(q, fillFirst) ==
  LET filled  == Promoted(q)
      exiting == NextExit(q)
  IN  IF Moving(q) THEN q
      ELSE IF fillFirst /\ filled # q THEN filled
      ELSE IF Moving(exiting) THEN exiting
      ELSE Promoted(exiting)

Paused(q, reason) ==
  IF Ids(q) = {} THEN Settled(q) ELSE [q EXCEPT !.paused = @ \cup {reason}]

Resumed(q, reason) == [Settled(q) EXCEPT !.paused = @ \ {reason}]

Enqueued(q, n) ==
  LET s == Settled(q)
  IN  IF KeyOf[n] \in s.keys THEN s
      ELSE Continued([s EXCEPT !.pending = Append(@, n), !.keys = @ \cup {KeyOf[n]}], FALSE)

\* A key is free again when no notification in the queue has it.
Released(q, key) ==
  IF \E n \in Ids(q) : KeyOf[n] = key THEN q ELSE [q EXCEPT !.keys = @ \ {key}]

\* The notifications that are asked to leave queue up for it.
AskedToExit(q, ids) ==
  LET asks(e) == e.stage # "exiting" /\ e.id \notin ToSet(q.exits)
      asked == Kept(q.visible, {e \in Cards(q, ids) : asks(e)})
  IN  IF asked = <<>> THEN q
      ELSE NextExit([q EXCEPT !.exits = @ \o [i \in DOMAIN asked |-> asked[i].id]])

DetailClosed(q) ==
  IF q.detail = None THEN Settled(q) ELSE Resumed([q EXCEPT !.detail = None], "detail")

\* A detail is closed with the notification it is about.
ClosedFor(q, n) == IF q.detail = n THEN DetailClosed(q) ELSE q

DetailOpened(q, n) ==
  IF n \in VisibleIds(q) /\ ~IsAt(q, n, "exiting")
  THEN [Paused(q, "detail") EXCEPT !.detail = n]
  ELSE q

\* The reader is done with the detail: what was entering has entered, and the notification exits.
DetailDismissed(q, n) ==
  LET here(e) == IF e.stage = "entering" THEN [e EXCEPT !.stage = "visible"] ELSE e
  IN  AskedToExit([q EXCEPT !.visible = [i \in DOMAIN @ |-> here(@[i])]], {n})

HasEntered(q, n) ==
  IF IsAt(q, n, "entering") THEN Continued(WithStage(q, n, "visible"), FALSE) ELSE q

\* The time of the first one has run out; time runs while nothing moves and nobody pauses it.
MayExpire(q) == q.paused = {} /\ q.visible # <<>> /\ ~Moving(q)

Expired(q) == AskedToExit(q, {Head(q.visible).id})

HasExited(q, n) ==
  IF ~IsAt(q, n, "exiting") THEN q
  ELSE LET moved == [q EXCEPT !.visible = Removed(@, Cards(q, {n})), !.awaiting = Append(@, n)]
       IN  Settled(Promoted(ClosedFor(moved, n)))

\* The mailbox did not let go of it: it is shown again.
Restored(q, n) ==
  IF ~IsAt(q, n, "exiting") THEN q
  ELSE [WithStage(q, n, "visible") EXCEPT !.exits = Removed(@, {n})]

Dismissed(q, n) ==
  IF n \notin Ids(q) \cup ToSet(q.exits) THEN q
  ELSE LET left == [q EXCEPT !.visible = Removed(@, Cards(q, {n})),
                             !.pending = Removed(@, {n}),
                             !.awaiting = Removed(@, {n}),
                             !.exits = Removed(@, {n})]
       IN  Settled(Continued(ClosedFor(left, n), TRUE))

Acknowledged(q, n) ==
  IF n \in ToSet(q.awaiting) THEN Released(Dismissed(q, n), KeyOf[n]) ELSE q

\* Another number of places: the last ones go back to the front of those that wait, but never
\* one that is leaving.
CappedAt(q, max) ==
  LET staying  == Removed(q.visible, {e \in ToSet(q.visible) : e.stage = "exiting"})
      reserved == Len(q.visible) - Len(staying) + Len(q.awaiting)
      places   == IF max > reserved THEN max - reserved ELSE 0
      moved    == {staying[i].id : i \in {j \in DOMAIN staying : j > places}}
      back     == Kept(staying, Cards(q, moved))
  IN  Continued([q EXCEPT !.max = max,
                          !.visible = Removed(@, Cards(q, moved)),
                          !.pending = [i \in DOMAIN back |-> back[i].id] \o @], FALSE)

\* What the mailbox holds and the queue does not, whose key may be taken by what has left.
Added(q, n) == Enqueued(Released(q, KeyOf[n]), n)

\* The queue follows what the mailbox holds: what it no longer holds leaves, what is new waits.
Reconciled(q, items, max) ==
  LET capped == CappedAt(q, max)
      acked  == FoldLeft(Acknowledged, capped, Removed(capped.awaiting, ToSet(items)))
      kept   == FoldLeft(Dismissed, acked, Removed(acked.pending, ToSet(items)))
      gone   == {e.id : e \in {d \in ToSet(kept.visible) : d.stage # "exiting" /\ d.id \notin ToSet(items)}}
      asked  == AskedToExit(kept, gone)
      closed == IF asked.detail \in gone THEN DetailClosed(asked) ELSE asked
  IN  FoldLeft(Added, closed, Removed(items, Ids(closed)))

=============================================================================
