---------------------------- MODULE UsageHistory ----------------------------
(***************************************************************************)
(* The usage of one account, day by day: the history that is read once and *)
(* for all behind a checkpoint, the four days that every day reads again,  *)
(* the two days that a user asks for and the newest pages that the         *)
(* scheduler asks for (src-tauri/src/application/data_center_service.rs,   *)
(* the state in sqlite/repositories/usage_history_state.rs).               *)
(*                                                                         *)
(* The usage gate of the account lets one of these in at a time.  The      *)
(* pages of a date are read in UsageWindow; here the reading of a date is  *)
(* one step that brings all its records the site had when it began, or is  *)
(* cut short and has brought some of them.  An error, a yield to a peer, a *)
(* dropped caller and a crash all cut a task short and leave the same      *)
(* dates in the database; the state and the error shown to the user, and   *)
(* the repeated attempts at one date, are left out.                        *)
(***************************************************************************)
EXTENDS Naturals, FiniteSets

CONSTANTS Rows,        \* the usage records, numbered in the order of their time
          DayOf,       \* the day of a record, 1 or later
          FirstToday,  \* the day on which the program is first started
          MaxDay,      \* bound: the last day
          PageSize,    \* records on a page of the newest ones
          MaxPages,    \* pages of the newest ones in one run
          MayClear     \* the user may clear the data of this device

ASSUME RowsType == Rows \subseteq Nat /\ IsFiniteSet(Rows)
ASSUME DaysType == DayOf \in [Rows -> Nat \ {0}]
ASSUME CalendarType == FirstToday \in Nat /\ MaxDay \in Nat /\ FirstToday > 3 /\ FirstToday <= MaxDay
ASSUME PagesType == PageSize \in Nat \ {0} /\ MaxPages \in Nat \ {0}
ASSUME MayClearType == MayClear \in BOOLEAN

VARIABLES
  today,      \* the day in Shanghai
  site,       \* the records the site has
  cache,      \* database: the records of account_usage_row_cache
  history,    \* database: account_usage_history_states, 0 for no date
  task,       \* memory: who has the usage gate of the account
  disturbed   \* history: a manual read was cut short, or the cache was cleared

vars == <<today, site, cache, history, task, disturbed>>

Day == 0..MaxDay

\* "scan" is the daily one, "full" and "usage" are asked for, "latest" is the scheduler's,
\* "full-latest" a full synchronisation that the program asks for.
Kind == {"scan", "full", "full-latest", "usage", "latest"}

\* "dates" is between two dates, "reading" within one of a part of the task.
Part == {"history", "recent", "scan"}

Task == [kind : Kind, phase : {"idle", "probing", "dates", "reading", "latest", "merging"},
         part : Part, day : Day, earliest : Day, date : Day, last : Day,
         must : SUBSET Rows, pending : SUBSET Rows, page : Nat, complete : BOOLEAN]

History == [earliest : Day, completed : Day, active : Day, scanned : Day]

TypeOK ==
  /\ today \in FirstToday..MaxDay
  /\ site \subseteq Rows
  /\ cache \subseteq Rows
  /\ history \in History
  /\ task \in Task
  /\ disturbed \in BOOLEAN

Idle == [kind |-> "scan", phase |-> "idle", part |-> "history", day |-> 0, earliest |-> 0, date |-> 0,
         last |-> 0, must |-> {}, pending |-> {}, page |-> 0, complete |-> FALSE]

\* The last two days of the calendar may still get records.
ClosedEnd == today - 2

Init ==
  /\ today = FirstToday
  /\ site = {r \in Rows : DayOf[r] <= FirstToday - 2}
  /\ cache = {}
  /\ history = [earliest |-> 0, completed |-> 0, active |-> 0, scanned |-> 0]
  /\ task = Idle
  /\ disturbed = FALSE

World == <<today, site>>

On(date) == {r \in site : DayOf[r] = date}

Later(d, e) == IF d > e THEN d ELSE e

-----------------------------------------------------------------------------
(* Tasks begin                                                              *)

Starts(kind, phase) == task.phase = "idle" /\ task' = [Idle EXCEPT !.kind = kind, !.phase = phase, !.day = today]

\* Once a day, and again until it has succeeded.
StartScan ==
  /\ history.scanned # today
  /\ Starts("scan", "probing")
  /\ UNCHANGED <<World, cache, history, disturbed>>

StartFull ==
  /\ \E kind \in {"full", "full-latest"} : Starts(kind, "probing")
  /\ UNCHANGED <<World, cache, history, disturbed>>

\* usage_dates_for_sync: yesterday and today.
Recent(t) == [t EXCEPT !.phase = "dates", !.part = "recent", !.date = today - 1, !.last = today]

StartUsage ==
  /\ task.phase = "idle"
  /\ task' = Recent([Idle EXCEPT !.kind = "usage", !.day = today])
  /\ UNCHANGED <<World, cache, history, disturbed>>

Latest(t) == [t EXCEPT !.phase = "latest", !.page = 1]

StartLatest ==
  /\ task.phase = "idle"
  /\ task' = Latest([Idle EXCEPT !.kind = "latest", !.day = today])
  /\ UNCHANGED <<World, cache, history, disturbed>>

-----------------------------------------------------------------------------
(* The history                                                              *)

\* Mutant: a later checkpoint wins over the date that was left unfinished.
ResumePastActive(earliest) ==
  IF history.earliest = 0 \/ earliest < history.earliest THEN earliest
  ELSE Later(Later(history.active, history.completed) + 1, earliest)

\* usage_history_resume_date.
Resume(earliest) ==
  IF history.earliest = 0 \/ earliest < history.earliest THEN earliest
  ELSE IF history.active # 0 THEN Later(history.active, earliest)
  ELSE IF history.completed # 0 THEN Later(history.completed + 1, earliest)
  ELSE earliest

\* What a task does once the closed days are read.
AfterHistory(t) ==
  CASE t.kind = "scan" -> [t EXCEPT !.phase = "dates", !.part = "scan", !.date = t.day - 3, !.last = t.day]
    [] t.kind = "full" -> Recent(t)
    [] t.kind = "full-latest" -> Latest(t)

\* Two probes for the earliest record agree.  Records of closed days neither come nor go, so
\* the stored date that stands in for probes which do not agree is the same.
Probe ==
  /\ task.phase = "probing"
  /\ \/ site = {} /\ task' = AfterHistory(task)
     \/ \E earliest \in {DayOf[r] : r \in site} :
          /\ \A r \in site : earliest <= DayOf[r]
          /\ task' = IF earliest > ClosedEnd \/ Resume(earliest) > ClosedEnd
                     THEN AfterHistory(task)
                     ELSE [task EXCEPT !.phase = "dates", !.part = "history", !.earliest = earliest,
                                       !.date = Resume(earliest), !.last = ClosedEnd]
  /\ UNCHANGED <<World, cache, history, disturbed>>

Tracked == task.part \in {"history", "recent"}

\* mark_usage_history_active, unless the checkpoint is to be preserved.
BeginDate ==
  /\ task.phase = "dates"
  /\ task' = [task EXCEPT !.phase = "reading", !.must = On(task.date)]
  /\ history' = IF Tracked THEN [history EXCEPT !.active = task.date] ELSE history
  /\ UNCHANGED <<World, cache, disturbed>>

\* merge_usage_row_cache: records are kept by their identity, those of one call in one transaction.
Merged(rows) == cache \cup rows

\* Records that come while the date is read may be among those that are brought.
Brings(rows) ==
  /\ task.phase = "reading"
  /\ task.must \subseteq rows
  /\ cache' = Merged(rows)

NextDate(t) == [t EXCEPT !.phase = "dates", !.date = @ + 1, !.must = {}]

\* advance_usage_history_completed_through_date, and on to the next date.
HistoryDateRead ==
  /\ task.part = "history"
  /\ \E rows \in SUBSET On(task.date) : Brings(rows)
  /\ history' = [history EXCEPT
       !.earliest = IF @ = 0 \/ task.earliest < @ THEN task.earliest ELSE @,
       !.completed = task.date, !.active = 0]
  /\ task' = IF task.date < task.last THEN NextDate(task) ELSE AfterHistory([task EXCEPT !.must = {}])
  /\ UNCHANGED <<World, disturbed>>

\* Mutant: a scan that midnight overtook is taken for that of the new day.
ScanDateReadToday ==
  /\ task.part = "scan"
  /\ \E rows \in SUBSET On(task.date) : Brings(rows)
  /\ IF task.date < task.last
     THEN task' = NextDate(task) /\ UNCHANGED history
     ELSE task' = Idle /\ history' = [history EXCEPT !.scanned = today]
  /\ UNCHANGED <<World, disturbed>>

\* The four days up to the day on which the scan was begun.
ScanDateRead ==
  /\ task.part = "scan"
  /\ \E rows \in SUBSET On(task.date) : Brings(rows)
  /\ IF task.date < task.last
     THEN task' = NextDate(task) /\ UNCHANGED history
     ELSE task' = Idle /\ history' = [history EXCEPT !.scanned = task.day]
  /\ UNCHANGED <<World, disturbed>>

\* Yesterday and today; record_usage_history_recent_reconciliation after both.
RecentDateRead ==
  /\ task.part = "recent"
  /\ \E rows \in SUBSET On(task.date) : Brings(rows)
  /\ IF task.date < task.last
     THEN task' = NextDate(task) /\ UNCHANGED history
     ELSE task' = Idle /\ history' = [history EXCEPT !.active = 0]
  /\ UNCHANGED <<World, disturbed>>

-----------------------------------------------------------------------------
(* The newest pages                                                         *)

\* The records on a page, the newest on the first.
OnPage(n) ==
  {r \in site : LET newer == Cardinality({q \in site : q > r})
                IN newer >= (n - 1) * PageSize /\ newer < n * PageSize}

Above(r, S) == \A q \in S : r > q

\* What the newest pages should bring: all that is newer than anything in the cache.
Wanted == IF task.page = 1 THEN {r \in site : Above(r, cache)} ELSE task.must

\* has_contiguous_cached_tail: below the newest record of the page that is in the cache, all are.
CachedTail(rows) ==
  /\ rows \cap cache # {}
  /\ \A r \in rows \ cache : Above(r, rows \cap cache)

NaturalEnd(n) == Cardinality(OnPage(n)) < PageSize \/ n * PageSize >= Cardinality(site)

\* Mutant: each page is written when it has been read.
ReadLatestPageAndMerge ==
  LET rows == OnPage(task.page)
      ends == CachedTail(rows) \/ NaturalEnd(task.page)
  IN
  /\ task.phase = "latest"
  /\ cache' = Merged(rows)
  /\ task' = [task EXCEPT !.must = Wanted, !.pending = @ \cup rows, !.complete = ends,
                          !.phase = IF ends \/ task.page = MaxPages THEN "merging" ELSE @, !.page = @ + 1]
  /\ UNCHANGED <<World, history, disturbed>>

\* Pages are read until one joins the cache, there are no more, or there have been enough.
ReadLatestPage ==
  LET rows == OnPage(task.page)
      ends == CachedTail(rows) \/ NaturalEnd(task.page)
  IN
  /\ task.phase = "latest"
  /\ task' = [task EXCEPT !.must = Wanted, !.pending = @ \cup rows, !.complete = ends,
                          !.phase = IF ends \/ task.page = MaxPages THEN "merging" ELSE @, !.page = @ + 1]
  /\ UNCHANGED <<World, cache, history, disturbed>>

\* The records of all pages are written together.
MergeLatest ==
  /\ task.phase = "merging"
  /\ cache' = Merged(task.pending)
  /\ task' = Idle
  /\ UNCHANGED <<World, history, disturbed>>

-----------------------------------------------------------------------------
(* What goes wrong, and the rest of the world                               *)

\* An error, a yield, a dropped caller, a crash.
CutShort ==
  /\ task.phase # "idle"
  /\ IF task.phase = "reading"
     THEN \E rows \in SUBSET On(task.date) : cache' = Merged(rows)
     ELSE UNCHANGED cache
  /\ task' = Idle
  /\ disturbed' = (disturbed \/ (task.part = "recent" /\ task.phase \in {"dates", "reading"}))
  /\ UNCHANGED <<World, history>>

\* clear_runtime_data, with the sites and accounts kept: the records go, the state stays.
ClearRuntimeData ==
  /\ MayClear
  /\ cache' = {}
  /\ disturbed' = TRUE
  /\ UNCHANGED <<World, history, task>>

\* A record of today, or a late one of yesterday; those of one day come in their order.
RowArrives(r) ==
  /\ r \notin site /\ DayOf[r] \in {today - 1, today}
  /\ \A q \in site : DayOf[q] = DayOf[r] => q < r
  /\ site' = site \cup {r}
  /\ UNCHANGED <<today, cache, history, task, disturbed>>

NewDay ==
  /\ today < MaxDay
  /\ today' = today + 1
  /\ UNCHANGED <<site, cache, history, task, disturbed>>

-----------------------------------------------------------------------------

DateRead == HistoryDateRead \/ ScanDateRead \/ RecentDateRead

Next ==
  \/ StartScan \/ StartFull \/ StartUsage \/ StartLatest
  \/ Probe \/ BeginDate \/ HistoryDateRead \/ ScanDateRead \/ RecentDateRead
  \/ ReadLatestPage \/ MergeLatest
  \/ CutShort \/ ClearRuntimeData \/ NewDay \/ \E r \in Rows : RowArrives(r)

Spec == Init /\ [][Next]_vars

Step == Probe \/ BeginDate \/ DateRead \/ ReadLatestPage \/ MergeLatest

\* The scheduler asks for the scan until it has succeeded, and the gate is fair; a task ends,
\* days pass, and sooner or later scans are cut short no more.
Fairness ==
  /\ SF_vars(StartScan)
  /\ WF_vars(Step)
  /\ WF_vars(NewDay)
  /\ <>[][CutShort => task.kind # "scan"]_vars

FairSpec == Spec /\ Fairness

-----------------------------------------------------------------------------
(* Properties                                                               *)

\* completed_through_date, as the comment of the column has it, is the date through which
\* everything is synchronised (schema_metadata.rs): no record up to it is missing.
CheckpointIsTrue == \A r \in site : DayOf[r] <= history.completed => r \in cache

\* Tasks of all kinds that are cut short at any point, the program that is not running for
\* days, midnight within a task and late records leave the checkpoint true, unless a read of
\* the recent days was cut short or the cache was cleared.
CheckpointIsKept == disturbed \/ CheckpointIsTrue

\* A run for the newest pages that did not run out of pages has all that is newer than what
\* was in the cache when it began, whatever arrives between the pages.
LatestReachesTheCache ==
  task.phase = "merging" /\ task.complete => task.must \subseteq cache \cup task.pending

\* Every record gets into the cache in the end, those excepted that are too young for the last
\* scan there is.
EveryRecordArrives == <>[](disturbed \/ {r \in site : DayOf[r] <= MaxDay - 2} \subseteq cache)

=============================================================================
