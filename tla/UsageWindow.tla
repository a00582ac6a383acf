----------------------------- MODULE UsageWindow -----------------------------
(***************************************************************************)
(* The usage records of one date, read page by page                        *)
(* (sync_usage_date_window in application/data_center_service.rs): the     *)
(* first page tells how many there are, up to Slots readers fetch the      *)
(* others side by side, and the first and the last page are read again at  *)
(* the end.  Every page is written when it is joined, so a window that     *)
(* fails leaves some of its records.                                       *)
(*                                                                         *)
(* A record is the number of its place in time.  A date is open while it   *)
(* is today or yesterday: its records come in their order.  On a closed    *)
(* date one may still turn up anywhere.  No record goes.  The log-in that  *)
(* is recovered once is one more reason to begin again, and is left out.   *)
(***************************************************************************)
EXTENDS Naturals, FiniteSets

CONSTANTS Records,   \* numbers, in the order of time
          PageRows,  \* records on a page
          Slots,     \* page readers side by side
          Attempts   \* reads of one window

ASSUME RecordsType == Records \subseteq Nat \ {0} /\ IsFiniteSet(Records)
ASSUME WindowBounds == PageRows \in Nat \ {0} /\ Slots \in Nat \ {0} /\ Attempts \in Nat \ {0}

VARIABLES
  open,      \* the date is open
  rows,      \* the records of the date at the site
  stored,    \* database: those in account_usage_row_cache
  phase,     \* where the read is
  attempt,   \* its number
  snapshot,  \* the records there were when the first page was read
  last,      \* the last record of the snapshot as the last page told it, 0 if none was told
  asked,     \* pages with a reader whose request is under way
  answered,  \* pages with a reader that has an answer, with the records at the site then
  next       \* the next page to be asked for

wvars == <<open, rows, stored, phase, attempt, snapshot, last, asked, answered, next>>

Site == <<open, rows>>

WindowInit ==
  /\ open \in BOOLEAN
  /\ rows \in SUBSET Records
  /\ stored = {}
  /\ phase = "first" /\ attempt = 1
  /\ snapshot = {} /\ last = 0
  /\ asked = {} /\ answered = {} /\ next = 2

Total(S) == Cardinality(S)

Pages(S) == (Total(S) + PageRows - 1) \div PageRows

Place(r, S) == Cardinality({q \in S : q <= r})

PageOf(n, S) == {r \in S : Place(r, S) > (n - 1) * PageRows /\ Place(r, S) <= n * PageRows}

\* usage_snapshot_boundary_anchor: the record that closes the snapshot on its last page.
Boundary(S, total) ==
  IF \E r \in S : Place(r, S) = total THEN CHOOSE r \in S : Place(r, S) = total ELSE 0

First(S) == IF S = {} THEN 0 ELSE CHOOSE r \in S : \A q \in S : r <= q

\* Mutant: closed dates may grow as well.
MatchesGrown(S) == Total(S) >= Total(snapshot)

\* metadata_matches: an open date may have grown, a closed one may not.
MetadataMatches(S) == IF open THEN Total(S) >= Total(snapshot) ELSE Total(S) = Total(snapshot)

-----------------------------------------------------------------------------

\* Readers for the pages from n on, as long as there are slots.
Spawned(n, S, busy) == {p \in n..Pages(S) : p < n + Slots - busy}

After(S, readers, n) == IF readers = {} /\ n > Pages(S) THEN "postflight" ELSE "pages"

ReadFirstPage ==
  /\ phase = "first"
  /\ snapshot' = rows
  /\ stored' = stored \cup PageOf(1, rows)
  /\ last' = IF Pages(rows) = 1 THEN Boundary(rows, Total(rows)) ELSE 0
  /\ asked' = Spawned(2, rows, 0)
  /\ next' = 2 + Cardinality(asked')
  /\ phase' = After(rows, asked', next')
  /\ UNCHANGED <<Site, attempt, answered>>

Answer(p) ==
  /\ p \in asked
  /\ asked' = asked \ {p}
  /\ answered' = answered \cup {[page |-> p, seen |-> rows]}
  /\ UNCHANGED <<Site, stored, phase, attempt, snapshot, last, next>>

\* The readers are awaited, what they bring is dropped, and the window is read anew or given up.
Changed ==
  /\ phase' = IF attempt < Attempts THEN "first" ELSE "failed"
  /\ attempt' = IF attempt < Attempts THEN attempt + 1 ELSE attempt
  /\ asked' = {} /\ answered' = {} /\ next' = 2
  /\ snapshot' = {} /\ last' = 0
  /\ UNCHANGED <<Site, stored>>

\* Readers end in any order.  The last page is cut where the snapshot ends.
JoinPage(a) ==
  /\ phase = "pages" /\ a \in answered /\ MetadataMatches(a.seen)
  /\ LET isLast == a.page = Pages(snapshot)
         page == PageOf(a.page, a.seen)
         busy == Cardinality(asked) + Cardinality(answered) - 1
         spawned == IF next <= Pages(snapshot) THEN {next} ELSE {}
     IN
     /\ last' = IF isLast THEN Boundary(a.seen, Total(snapshot)) ELSE last
     /\ stored' = stored \cup {r \in page : isLast => r <= Boundary(a.seen, Total(snapshot))}
     /\ answered' = answered \ {a}
     /\ asked' = asked \cup spawned
     /\ next' = next + Cardinality(spawned)
     /\ phase' = After(snapshot, asked' \cup answered', next')
  /\ UNCHANGED <<Site, attempt, snapshot>>

JoinOfChanged(a) ==
  /\ phase = "pages" /\ a \in answered /\ ~MetadataMatches(a.seen)
  /\ Changed

\* The first page again: the same records first, and last if there is one page only.
FirstPageIsTheSame ==
  /\ MetadataMatches(rows)
  /\ snapshot # {} => First(rows) = First(snapshot)
  /\ Pages(snapshot) <= 1 => Boundary(rows, Total(snapshot)) = last

CheckFirstPage ==
  /\ phase = "postflight" /\ FirstPageIsTheSame
  /\ phase' = IF Pages(snapshot) > 1 THEN "postflight last" ELSE "completed"
  /\ UNCHANGED <<Site, stored, attempt, snapshot, last, asked, answered, next>>

CheckLastPage ==
  /\ phase = "postflight last" /\ MetadataMatches(rows) /\ Boundary(rows, Total(snapshot)) = last
  /\ phase' = "completed"
  /\ UNCHANGED <<Site, stored, attempt, snapshot, last, asked, answered, next>>

CheckFails ==
  /\ \/ phase = "postflight" /\ ~FirstPageIsTheSame
     \/ phase = "postflight last" /\ ~(MetadataMatches(rows) /\ Boundary(rows, Total(snapshot)) = last)
  /\ Changed

\* An error, or a yield to a peer.
WindowCutShort ==
  /\ phase \in {"first", "pages", "postflight", "postflight last"}
  /\ phase' = "failed"
  /\ asked' = {} /\ answered' = {}
  /\ UNCHANGED <<Site, stored, attempt, snapshot, last, next>>

RecordComes(r) ==
  /\ r \notin rows /\ phase \notin {"completed", "failed"}
  /\ open => \A q \in rows : q < r
  /\ rows' = rows \cup {r}
  /\ UNCHANGED <<open, stored, phase, attempt, snapshot, last, asked, answered, next>>

WindowNext ==
  \/ ReadFirstPage
  \/ \E p \in asked : Answer(p)
  \/ \E a \in answered : JoinPage(a) \/ JoinOfChanged(a)
  \/ CheckFirstPage \/ CheckLastPage \/ CheckFails \/ WindowCutShort
  \/ \E r \in Records : RecordComes(r)

WindowSpec == WindowInit /\ [][WindowNext]_wvars

-----------------------------------------------------------------------------
(* Properties                                                               *)

\* A window that is completed has brought every record there was when its last attempt began,
\* although its pages were read one by one, in any order, while records came.
WindowIsComplete == phase = "completed" => snapshot \subseteq stored

=============================================================================
