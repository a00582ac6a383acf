------------------------- MODULE UsageHistoryProofs -------------------------
(***************************************************************************)
(* Proofs about UsageHistory and UsageWindow, for any records, days and    *)
(* page sizes.                                                             *)
(*                                                                         *)
(* The checkpoint is true because nothing comes to a closed day any more:  *)
(* whatever is before the date a task is at, or will resume at, is in the  *)
(* cache, and what a task has to bring of a closed date is all there is.   *)
(* The newest pages and the pages of one date may shift under their        *)
(* reader, but only in one direction.                                      *)
(***************************************************************************)
EXTENDS UsageHistory, UsageWindow, FiniteSetTheorems, TLAPS

\* The tasks that read the history first.
Readers == {"scan", "full", "full-latest"}

InHistory == task.part = "history" /\ task.phase \in {"dates", "reading"}

\* Dates of tasks are in order, and those of the history are closed.
Dates ==
  /\ task.phase # "idle" => FirstToday <= task.day /\ task.day <= today
  /\ task.phase \in {"dates", "reading"} => task.date <= task.last
  /\ task.part = "recent" => task.phase \in {"dates", "reading"}
  /\ task.phase = "probing" \/ InHistory => task.kind \in Readers
  /\ InHistory => task.last <= ClosedEnd

\* No record of a day before the date is missing.
ReadBefore(date) == \A r \in site : DayOf[r] < date => r \in cache

\* The checkpoint, the date left unfinished and the date under way are true to their word;
\* a read of the recent days uses the second for its own.
Checkpoints ==
  /\ history.completed <= ClosedEnd
  /\ ReadBefore(history.completed + 1)
  /\ task.part # "recent" => history.active <= ClosedEnd /\ ReadBefore(history.active)
  /\ InHistory => ReadBefore(task.date)
  /\ InHistory /\ task.phase = "reading" => On(task.date) \subseteq task.must

IndInv == TypeOK /\ Dates /\ (disturbed \/ Checkpoints)

-----------------------------------------------------------------------------
(* Tasks                                                                    *)

LEMMA IdleIsTask == Idle \in Task
  BY CalendarType DEF Idle, Task, Kind, Part, Day

\* What follows on the history is a read of dates that are in order, or of the newest pages.
LEMMA AfterHistoryOK ==
  ASSUME TypeOK, NEW t \in Task, t.kind \in Readers, t.part # "recent",
         FirstToday <= t.day, t.day <= today
  PROVE  /\ AfterHistory(t) \in Task
         /\ AfterHistory(t).day = t.day
         /\ \/ /\ AfterHistory(t).phase = "dates"
               /\ AfterHistory(t).part \in {"scan", "recent"}
               /\ AfterHistory(t).date <= AfterHistory(t).last
            \/ AfterHistory(t).phase = "latest" /\ AfterHistory(t).part # "recent"
  <1>1. CASE t.kind = "scan"
    <2>1. AfterHistory(t) = [t EXCEPT !.phase = "dates", !.part = "scan", !.date = t.day - 3, !.last = t.day]
      BY <1>1 DEF AfterHistory
    <2>2. t.day \in Day /\ t.day - 3 \in Day /\ t.day - 3 <= t.day
      BY CalendarType DEF Task, Day
    <2> QED BY <2>1, <2>2 DEF Task, Part
  <1>2. CASE t.kind = "full"
    <2>1. AfterHistory(t) = [t EXCEPT !.phase = "dates", !.part = "recent", !.date = today - 1, !.last = today]
      BY <1>2 DEF AfterHistory, Recent
    <2>2. today \in Day /\ today - 1 \in Day /\ today - 1 <= today
      BY CalendarType DEF TypeOK, Day
    <2> QED BY <2>1, <2>2 DEF Task, Part
  <1>3. CASE t.kind = "full-latest"
    <2>1. AfterHistory(t) = [t EXCEPT !.phase = "latest", !.page = 1]
      BY <1>3 DEF AfterHistory, Latest
    <2>2. AfterHistory(t) \in Task
      <3> DEFINE n == 1
      <3>1. n \in Nat
        OBVIOUS
      <3>2. AfterHistory(t) = [t EXCEPT !.phase = "latest", !.page = n]
        BY <2>1
      <3> HIDE DEF n
      <3> QED BY <3>1, <3>2 DEF Task
    <2>3. AfterHistory(t).phase = "latest" /\ AfterHistory(t).part = t.part /\ AfterHistory(t).day = t.day
      BY <2>1 DEF Task
    <2> QED BY <2>2, <2>3
  <1> QED BY <1>1, <1>2, <1>3 DEF Readers

\* A new task that is not at the history has nothing to answer for.
LEMMA NewTask ==
  ASSUME IndInv, task' \in Task, Dates', task.part # "recent", ~InHistory',
         UNCHANGED <<today, site, cache, history, disturbed>>
  PROVE  IndInv'
  <1>1. TypeOK'
    BY DEF IndInv, TypeOK
  <1>2. disturbed' \/ Checkpoints'
    BY DEF IndInv, Checkpoints, ReadBefore, ClosedEnd
  <1> QED BY <1>1, <1>2 DEF IndInv

LEMMA StartScanStep ==
  ASSUME IndInv, StartScan
  PROVE  IndInv'
  <1>1. task' = [Idle EXCEPT !.kind = "scan", !.phase = "probing", !.day = today]
    BY DEF StartScan, Starts
  <1>2. today \in Day /\ FirstToday <= today
    BY CalendarType DEF IndInv, TypeOK, Day
  <1>3. task' \in Task
    BY <1>1, <1>2, IdleIsTask DEF Task, Kind
  <1>4. task'.kind = "scan" /\ task'.phase = "probing" /\ task'.part = "history" /\ task'.day = today
    BY <1>1, IdleIsTask DEF Task, Idle
  <1>5. today' = today /\ UNCHANGED <<site, cache, history, disturbed>>
    BY DEF StartScan, World
  <1>6. Dates' /\ ~InHistory'
    BY <1>2, <1>4, <1>5, CalendarType DEF Dates, InHistory, Readers, IndInv, TypeOK
  <1>7. task.part # "recent"
    BY DEF StartScan, Starts, IndInv, Dates
  <1> QED BY <1>3, <1>5, <1>6, <1>7, NewTask

LEMMA StartFullStep ==
  ASSUME IndInv, StartFull
  PROVE  IndInv'
  <1>1. PICK kind \in {"full", "full-latest"} : Starts(kind, "probing")
    BY DEF StartFull
  <1>2. task' = [Idle EXCEPT !.kind = kind, !.phase = "probing", !.day = today]
    BY <1>1 DEF Starts
  <1>3. today \in Day /\ FirstToday <= today
    BY CalendarType DEF IndInv, TypeOK, Day
  <1>4. task' \in Task
    BY <1>2, <1>3, IdleIsTask DEF Task, Kind
  <1>5. task'.kind = kind /\ task'.phase = "probing" /\ task'.part = "history" /\ task'.day = today
    BY <1>2, IdleIsTask DEF Task, Idle
  <1>6. today' = today /\ UNCHANGED <<site, cache, history, disturbed>>
    BY DEF StartFull, World
  <1>7. Dates' /\ ~InHistory'
    BY <1>3, <1>5, <1>6, CalendarType DEF Dates, InHistory, Readers, IndInv, TypeOK
  <1>8. task.part # "recent"
    BY <1>1 DEF Starts, IndInv, Dates
  <1> QED BY <1>4, <1>6, <1>7, <1>8, NewTask

LEMMA StartUsageStep ==
  ASSUME IndInv, StartUsage
  PROVE  IndInv'
  <1>1. task' = [[Idle EXCEPT !.kind = "usage", !.day = today]
                   EXCEPT !.phase = "dates", !.part = "recent", !.date = today - 1, !.last = today]
    BY DEF StartUsage, Recent
  <1>2. today \in Day /\ today - 1 \in Day /\ FirstToday <= today /\ today - 1 <= today
    BY CalendarType DEF IndInv, TypeOK, Day
  <1>3. task' \in Task
    BY <1>1, <1>2, IdleIsTask DEF Task, Kind, Part
  <1>4. task'.phase = "dates" /\ task'.part = "recent" /\ task'.day = today
        /\ task'.date = today - 1 /\ task'.last = today
    BY <1>1, IdleIsTask DEF Task, Idle
  <1>5. today' = today /\ UNCHANGED <<site, cache, history, disturbed>>
    BY DEF StartUsage, World
  <1>6. Dates' /\ ~InHistory'
    BY <1>2, <1>4, <1>5, CalendarType DEF Dates, InHistory, Readers, IndInv, TypeOK
  <1>7. task.part # "recent"
    BY DEF StartUsage, IndInv, Dates
  <1> QED BY <1>3, <1>5, <1>6, <1>7, NewTask

LEMMA StartLatestStep ==
  ASSUME IndInv, StartLatest
  PROVE  IndInv'
  <1> DEFINE n == 1
  <1>1. task' = [[Idle EXCEPT !.kind = "latest", !.day = today] EXCEPT !.phase = "latest", !.page = n]
    BY DEF StartLatest, Latest
  <1>2. today \in Day /\ FirstToday <= today
    BY CalendarType DEF IndInv, TypeOK, Day
  <1>3. n \in Nat
    OBVIOUS
  <1> HIDE DEF n
  <1>4. task' \in Task
    BY <1>1, <1>2, <1>3, IdleIsTask DEF Task, Kind
  <1>5. task'.phase = "latest" /\ task'.part = "history" /\ task'.day = today
    BY <1>1, IdleIsTask DEF Task, Idle
  <1>6. today' = today /\ UNCHANGED <<site, cache, history, disturbed>>
    BY DEF StartLatest, World
  <1>7. Dates' /\ ~InHistory'
    BY <1>2, <1>5, <1>6, CalendarType DEF Dates, InHistory, Readers, IndInv, TypeOK
  <1>8. task.part # "recent"
    BY DEF StartLatest, IndInv, Dates
  <1> QED BY <1>4, <1>6, <1>7, <1>8, NewTask

-----------------------------------------------------------------------------
(* The history                                                              *)

\* A reader resumes where nothing before is missing.
LEMMA ResumeOK ==
  ASSUME IndInv, Checkpoints, NEW earliest \in Day, \A r \in site : earliest <= DayOf[r],
         task.part # "recent"
  PROVE  ReadBefore(Resume(earliest))
  <1> USE RowsType, DaysType, CalendarType DEF IndInv, TypeOK, History, Day, ReadBefore
  <1>1. ReadBefore(earliest)
    OBVIOUS
  <1>2. ReadBefore(history.active) /\ ReadBefore(history.completed + 1)
    BY DEF Checkpoints
  <1> QED BY <1>1, <1>2 DEF Resume, Later

LEMMA ResumeIsDay ==
  ASSUME TypeOK, NEW earliest \in Day, Resume(earliest) <= ClosedEnd
  PROVE  Resume(earliest) \in Day
  BY CalendarType DEF TypeOK, History, Day, Resume, Later, ClosedEnd

LEMMA ProbeStep ==
  ASSUME IndInv, Probe
  PROVE  IndInv'
  <1> USE CalendarType
  <1>1. task.phase = "probing" /\ task.part # "recent" /\ task.kind \in Readers
        /\ FirstToday <= task.day /\ task.day <= today
    BY DEF Probe, IndInv, Dates
  <1>2. today' = today /\ UNCHANGED <<site, cache, history, disturbed>>
    BY DEF Probe, World
  <1>3. CASE task' = AfterHistory(task)
    <2>1. /\ task' \in Task /\ task'.day = task.day
          /\ \/ /\ task'.phase = "dates" /\ task'.part \in {"scan", "recent"}
                /\ task'.date <= task'.last
             \/ task'.phase = "latest" /\ task'.part # "recent"
      BY <1>1, <1>3, AfterHistoryOK DEF IndInv, TypeOK
    <2>2. Dates' /\ ~InHistory'
      BY <1>1, <1>2, <2>1 DEF Dates, InHistory
    <2> QED BY <1>1, <1>2, <2>1, <2>2, NewTask
  <1>4. CASE task' # AfterHistory(task)
    <2>1. PICK earliest \in {DayOf[r] : r \in site} :
            /\ \A r \in site : earliest <= DayOf[r]
            /\ ~(earliest > ClosedEnd \/ Resume(earliest) > ClosedEnd)
            /\ task' = [task EXCEPT !.phase = "dates", !.part = "history", !.earliest = earliest,
                                    !.date = Resume(earliest), !.last = ClosedEnd]
      BY <1>4 DEF Probe
    <2>2. earliest \in Nat /\ ClosedEnd \in Day /\ today \in Nat
      BY <2>1, DaysType DEF IndInv, TypeOK, ClosedEnd, Day
    <2>3. earliest \in Day /\ earliest <= ClosedEnd
      BY <2>1, <2>2 DEF Day
    <2>4. Resume(earliest) \in Nat
      BY <2>3 DEF IndInv, TypeOK, History, Day, Resume, Later
    <2>5. Resume(earliest) <= ClosedEnd
      BY <2>1, <2>2, <2>4 DEF Day
    <2>6. Resume(earliest) \in Day
      BY <2>3, <2>5, ResumeIsDay DEF IndInv
    <2>7. task' \in Task
      BY <2>1, <2>2, <2>3, <2>6 DEF IndInv, TypeOK, Task, Part
    <2>8. task'.phase = "dates" /\ task'.part = "history" /\ task'.date = Resume(earliest)
          /\ task'.last = ClosedEnd /\ task'.kind = task.kind /\ task'.day = task.day
      BY <2>1 DEF IndInv, TypeOK, Task
    <2>9. Dates'
      BY <1>1, <1>2, <2>2, <2>5, <2>8 DEF Dates, InHistory, ClosedEnd
    <2>10. ASSUME Checkpoints PROVE Checkpoints'
      <3>1. ReadBefore(Resume(earliest))
        BY <1>1, <2>1, <2>3, <2>10, ResumeOK
      <3> QED BY <1>1, <1>2, <2>8, <2>10, <3>1 DEF Checkpoints, ReadBefore, ClosedEnd, On
    <2> QED BY <1>2, <2>7, <2>9, <2>10 DEF IndInv, TypeOK
  <1> QED BY <1>3, <1>4

LEMMA BeginDateStep ==
  ASSUME IndInv, BeginDate
  PROVE  IndInv'
  <1> USE CalendarType
  <1>1. task' = [task EXCEPT !.phase = "reading", !.must = On(task.date)]
    BY DEF BeginDate
  <1>2. task' \in Task
    BY <1>1 DEF IndInv, TypeOK, Task, On
  <1>3. task'.phase = "reading" /\ task'.must = On(task.date) /\ task'.part = task.part /\ task'.kind = task.kind
        /\ task'.day = task.day /\ task'.date = task.date /\ task'.last = task.last
    BY <1>1 DEF IndInv, TypeOK, Task
  <1>4. UNCHANGED <<today, site, cache, disturbed>> /\ task.phase = "dates" /\ task.date \in Day
    BY DEF BeginDate, World, IndInv, TypeOK, Task
  <1>5. history' \in History
    BY <1>4 DEF BeginDate, IndInv, TypeOK, History
  <1>6. Dates'
    BY <1>3, <1>4 DEF IndInv, Dates, InHistory, ClosedEnd
  <1>7. ASSUME Checkpoints PROVE Checkpoints'
    <2>1. history'.completed = history.completed
          /\ history'.active = IF Tracked THEN task.date ELSE history.active
      BY DEF BeginDate, IndInv, TypeOK, History
    <2>2. CASE task.part = "history"
      <3>1. InHistory /\ InHistory' /\ task.date <= ClosedEnd /\ ReadBefore(task.date)
        BY <1>3, <1>4, <1>7, <2>2 DEF InHistory, IndInv, Dates, Checkpoints, TypeOK, Task, ClosedEnd, Day
      <3> QED BY <1>3, <1>4, <1>7, <2>1, <2>2, <3>1 DEF Checkpoints, ReadBefore, ClosedEnd, On, Tracked
    <2>3. CASE task.part # "history"
      BY <1>3, <1>4, <1>7, <2>1, <2>3 DEF Checkpoints, ReadBefore, ClosedEnd, Tracked, InHistory, IndInv, TypeOK, Task, Part
    <2> QED BY <2>2, <2>3
  <1> QED BY <1>2, <1>4, <1>5, <1>6, <1>7 DEF IndInv, TypeOK

\* A date of the history is read: all its records are there, and none will follow.
LEMMA HistoryDateReadStep ==
  ASSUME IndInv, HistoryDateRead
  PROVE  IndInv'
  <1> USE CalendarType
  <1>1. InHistory /\ task.phase = "reading" /\ task.kind \in Readers /\ FirstToday <= task.day /\ task.day <= today
        /\ task.date <= task.last /\ task.last <= ClosedEnd
    BY DEF HistoryDateRead, Brings, InHistory, IndInv, Dates
  <1>2. PICK brought \in SUBSET On(task.date) : task.must \subseteq brought /\ cache' = cache \cup brought
    BY DEF HistoryDateRead, Brings, Merged
  <1>3. UNCHANGED <<today, site, disturbed>>
    BY DEF HistoryDateRead, World
  <1>4. cache' \subseteq Rows
    BY <1>2 DEF IndInv, TypeOK, On
  <1>5. task.date \in Day /\ task.last \in Day /\ task.earliest \in Day /\ today \in Nat /\ history \in History /\ task \in Task
    BY DEF IndInv, TypeOK, Task
  <1>6. history' \in History /\ history'.completed = task.date /\ history'.active = 0
    <2> DEFINE none == 0
               first == IF history.earliest = 0 \/ task.earliest < history.earliest
                        THEN task.earliest ELSE history.earliest
    <2>1. history' = [history EXCEPT !.earliest = first, !.completed = task.date, !.active = none]
      BY DEF HistoryDateRead
    <2>2. none \in Day /\ first \in Day /\ none = 0
      BY <1>5 DEF History, Day
    <2> HIDE DEF none, first
    <2> QED BY <1>5, <2>1, <2>2 DEF History
  <1>7. ASSUME Checkpoints PROVE \A r \in site : DayOf[r] <= task.date => r \in cache'
    <2>1. ReadBefore(task.date) /\ On(task.date) \subseteq task.must
      BY <1>1, <1>7 DEF Checkpoints
    <2>2. (\A r \in site : DayOf[r] \in Nat) /\ task.date \in Nat
      BY <1>5, DaysType DEF IndInv, TypeOK, Day
    <2> QED BY <1>2, <2>1, <2>2 DEF ReadBefore, On
  <1>8. ASSUME Checkpoints, InHistory' => task'.phase = "dates" /\ task'.date = task.date + 1
        PROVE  Checkpoints'
    <2>1. (\A r \in site : DayOf[r] \in Nat \ {0}) /\ task.date \in Nat /\ task.last \in Nat
      BY <1>5, DaysType DEF IndInv, TypeOK, Day
    <2>2. history'.completed <= ClosedEnd' /\ history'.active <= ClosedEnd'
      BY <1>1, <1>3, <1>5, <1>6, <2>1 DEF ClosedEnd, IndInv, TypeOK
    <2>3. \A r \in site' : /\ DayOf[r] < history'.completed + 1 => r \in cache'
                           /\ DayOf[r] < history'.active => r \in cache'
                           /\ DayOf[r] < task.date + 1 => r \in cache'
      BY <1>3, <1>6, <1>7, <1>8, <2>1
    <2> QED BY <1>8, <2>2, <2>3 DEF Checkpoints, ReadBefore
  <1>9. CASE task.date < task.last
    <2>1. task' = [task EXCEPT !.phase = "dates", !.date = task.date + 1, !.must = {}]
      BY <1>5, <1>9 DEF HistoryDateRead, NextDate, Task
    <2>2. task.date + 1 \in Day /\ task.date + 1 <= task.last
      BY <1>5, <1>9 DEF Day
    <2>3. task' \in Task
      BY <1>5, <2>1, <2>2 DEF Task
    <2>4. task'.phase = "dates" /\ task'.date = task.date + 1 /\ task'.last = task.last
          /\ task'.part = task.part /\ task'.kind = task.kind /\ task'.day = task.day
      BY <1>5, <2>1 DEF Task
    <2>5. Dates'
      BY <1>1, <1>3, <2>2, <2>4 DEF Dates, InHistory, ClosedEnd
    <2> QED BY <1>3, <1>4, <1>6, <1>8, <2>3, <2>4, <2>5 DEF IndInv, TypeOK
  <1>10. CASE ~(task.date < task.last)
    <2> DEFINE t == [task EXCEPT !.must = {}]
    <2>1. task' = AfterHistory(t)
      BY <1>10 DEF HistoryDateRead
    <2>2. t \in Task /\ t.kind = task.kind /\ t.part = task.part /\ t.day = task.day
      BY <1>5 DEF Task
    <2> HIDE DEF t
    <2>3. t.kind \in Readers /\ t.part # "recent" /\ FirstToday <= t.day /\ t.day <= today
      BY <1>1, <2>2 DEF InHistory
    <2>4. /\ task' \in Task /\ task'.day = task.day
          /\ \/ /\ task'.phase = "dates" /\ task'.part \in {"scan", "recent"}
                /\ task'.date <= task'.last
             \/ task'.phase = "latest" /\ task'.part # "recent"
      BY <2>1, <2>2, <2>3, AfterHistoryOK DEF IndInv
    <2>5. Dates' /\ ~InHistory'
      BY <1>1, <1>3, <2>4 DEF Dates, InHistory
    <2> QED BY <1>3, <1>4, <1>6, <1>8, <2>4, <2>5 DEF IndInv, TypeOK
  <1> QED BY <1>9, <1>10

-----------------------------------------------------------------------------
(* The recent days and the newest pages                                     *)

\* A task that is not at the history ends or goes on, with more in the cache and the same
\* checkpoint, and no date left unfinished unless there was one.
LEMMA CacheGrows ==
  ASSUME IndInv, Checkpoints, UNCHANGED <<today, site>>, cache \subseteq cache', ~InHistory',
         history'.completed = history.completed,
         \/ history'.active = history.active /\ task.part # "recent"
         \/ history'.active = history.active /\ task'.part = "recent"
         \/ history'.active = 0
  PROVE  Checkpoints'
  <1>1. (\A r \in site : DayOf[r] \in Nat \ {0}) /\ today \in Nat /\ FirstToday <= today /\ FirstToday > 3
    BY DaysType, CalendarType DEF IndInv, TypeOK
  <1>2. ReadBefore(history.completed + 1)' /\ history'.completed <= ClosedEnd'
    BY DEF Checkpoints, ReadBefore, ClosedEnd
  <1>3. task'.part # "recent" => history'.active <= ClosedEnd' /\ ReadBefore(history.active)'
    <2>1. CASE history'.active = 0
      BY <1>1, <2>1, CalendarType DEF ReadBefore, ClosedEnd
    <2>2. CASE history'.active = history.active /\ task.part # "recent"
      BY <2>2 DEF Checkpoints, ReadBefore, ClosedEnd
    <2> QED BY <2>1, <2>2
  <1> QED BY <1>2, <1>3 DEF Checkpoints

LEMMA IdleFacts == Idle.phase = "idle" /\ Idle.part = "history"
  BY DEF Idle

\* The next date of the same part.
LEMMA NextDateOK ==
  ASSUME TypeOK, task.date < task.last, task' = NextDate(task)
  PROVE  /\ task' \in Task
         /\ task'.phase = "dates" /\ task'.date <= task'.last
         /\ task'.part = task.part /\ task'.day = task.day /\ task'.kind = task.kind
  <1>1. task' = [task EXCEPT !.phase = "dates", !.date = task.date + 1, !.must = {}]
    BY DEF NextDate, TypeOK, Task
  <1>2. task.date \in Day /\ task.last \in Day
    BY DEF TypeOK, Task
  <1>3. task.date + 1 \in Day /\ task.date + 1 <= task.last
    BY <1>2, CalendarType DEF Day
  <1> QED BY <1>1, <1>3 DEF TypeOK, Task

LEMMA ScanDateReadStep ==
  ASSUME IndInv, ScanDateRead
  PROVE  IndInv'
  <1> USE CalendarType
  <1>1. task.part = "scan" /\ task.phase = "reading" /\ FirstToday <= task.day /\ task.day <= today
    BY DEF ScanDateRead, Brings, IndInv, Dates
  <1>2. UNCHANGED <<today, site, disturbed>>
    BY DEF ScanDateRead, World
  <1>3. PICK brought \in SUBSET On(task.date) : cache' = cache \cup brought
    BY DEF ScanDateRead, Brings, Merged
  <1>4. cache \subseteq cache' /\ cache' \subseteq Rows
    BY <1>3 DEF IndInv, TypeOK, On
  <1>5. CASE task.date < task.last
    <2>1. task' = NextDate(task) /\ history' = history
      BY <1>5 DEF ScanDateRead
    <2>2. /\ task' \in Task /\ task'.phase = "dates" /\ task'.date <= task'.last
          /\ task'.part = "scan" /\ task'.day = task.day
      BY <1>1, <1>5, <2>1, NextDateOK DEF IndInv
    <2>3. Dates' /\ ~InHistory'
      BY <1>1, <1>2, <2>2 DEF Dates, InHistory
    <2>4. disturbed \/ Checkpoints'
      BY <1>1, <1>2, <1>4, <2>1, <2>3, CacheGrows DEF IndInv
    <2> QED BY <1>2, <1>4, <2>1, <2>2, <2>3, <2>4 DEF IndInv, TypeOK
  <1>6. CASE ~(task.date < task.last)
    <2>1. task' = Idle /\ history' = [history EXCEPT !.scanned = task.day]
      BY <1>6 DEF ScanDateRead
    <2>2. history' \in History /\ history'.completed = history.completed /\ history'.active = history.active
      BY <2>1 DEF IndInv, TypeOK, History, Task
    <2>3. Dates' /\ ~InHistory'
      BY <2>1, IdleFacts DEF Dates, InHistory
    <2>4. disturbed \/ Checkpoints'
      BY <1>1, <1>2, <1>4, <2>2, <2>3, CacheGrows DEF IndInv
    <2> QED BY <1>2, <1>4, <2>1, <2>2, <2>3, <2>4, IdleIsTask DEF IndInv, TypeOK
  <1> QED BY <1>5, <1>6

LEMMA RecentDateReadStep ==
  ASSUME IndInv, RecentDateRead
  PROVE  IndInv'
  <1> USE CalendarType
  <1>1. task.part = "recent" /\ task.phase = "reading" /\ FirstToday <= task.day /\ task.day <= today
    BY DEF RecentDateRead, Brings, IndInv, Dates
  <1>2. UNCHANGED <<today, site, disturbed>>
    BY DEF RecentDateRead, World
  <1>3. PICK brought \in SUBSET On(task.date) : cache' = cache \cup brought
    BY DEF RecentDateRead, Brings, Merged
  <1>4. cache \subseteq cache' /\ cache' \subseteq Rows
    BY <1>3 DEF IndInv, TypeOK, On
  <1>5. CASE task.date < task.last
    <2>1. task' = NextDate(task) /\ history' = history
      BY <1>5 DEF RecentDateRead
    <2>2. /\ task' \in Task /\ task'.phase = "dates" /\ task'.date <= task'.last
          /\ task'.part = "recent" /\ task'.day = task.day
      BY <1>1, <1>5, <2>1, NextDateOK DEF IndInv
    <2>3. Dates' /\ ~InHistory'
      BY <1>1, <1>2, <2>2 DEF Dates, InHistory
    <2>4. disturbed \/ Checkpoints'
      BY <1>2, <1>4, <2>1, <2>2, <2>3, CacheGrows DEF IndInv
    <2> QED BY <1>2, <1>4, <2>1, <2>2, <2>3, <2>4 DEF IndInv, TypeOK
  <1>6. CASE ~(task.date < task.last)
    <2> DEFINE none == 0
    <2>1. task' = Idle /\ history' = [history EXCEPT !.active = none]
      BY <1>6 DEF RecentDateRead
    <2>2. none \in Day /\ none = 0
      BY DEF Day
    <2> HIDE DEF none
    <2>3. history' \in History /\ history'.completed = history.completed /\ history'.active = 0
      BY <2>1, <2>2 DEF IndInv, TypeOK, History
    <2>4. Dates' /\ ~InHistory'
      BY <2>1, IdleFacts DEF Dates, InHistory
    <2>5. disturbed \/ Checkpoints'
      BY <1>2, <1>4, <2>3, <2>4, CacheGrows DEF IndInv
    <2> QED BY <1>2, <1>4, <2>1, <2>3, <2>4, <2>5, IdleIsTask DEF IndInv, TypeOK
  <1> QED BY <1>5, <1>6

LEMMA ReadLatestPageStep ==
  ASSUME IndInv, ReadLatestPage
  PROVE  IndInv'
  <1> DEFINE brought == OnPage(task.page)
             ends == CachedTail(brought) \/ NaturalEnd(task.page)
             ph == IF ends \/ task.page = MaxPages THEN "merging" ELSE "latest"
             after == task.page + 1
             pend == task.pending \cup brought
  <1>1. task.phase = "latest" /\ task.part # "recent" /\ FirstToday <= task.day /\ task.day <= today
    BY DEF ReadLatestPage, IndInv, Dates
  <1>2. UNCHANGED <<today, site, cache, history, disturbed>>
    BY DEF ReadLatestPage, World
  <1>3. task' = [task EXCEPT !.must = Wanted, !.pending = pend, !.complete = ends, !.phase = ph, !.page = after]
    BY <1>1 DEF ReadLatestPage, IndInv, TypeOK, Task
  <1>4. Wanted \subseteq Rows /\ pend \subseteq Rows /\ ph \in {"latest", "merging"} /\ after \in Nat
    BY DEF Wanted, OnPage, IndInv, TypeOK, Task
  <1>5. ends \in BOOLEAN
    BY DEF CachedTail, NaturalEnd
  <1> HIDE DEF brought, ends, ph, after, pend
  <1>6. task' \in Task
    BY <1>3, <1>4, <1>5 DEF IndInv, TypeOK, Task
  <1>7. task'.phase \in {"latest", "merging"} /\ task'.part = task.part /\ task'.day = task.day
    BY <1>3, <1>4 DEF IndInv, TypeOK, Task
  <1>8. Dates' /\ ~InHistory'
    BY <1>1, <1>2, <1>7 DEF Dates, InHistory
  <1> QED BY <1>1, <1>2, <1>6, <1>8, NewTask

LEMMA MergeLatestStep ==
  ASSUME IndInv, MergeLatest
  PROVE  IndInv'
  <1>1. task.part # "recent" /\ task' = Idle /\ UNCHANGED <<today, site, history, disturbed>>
    BY DEF MergeLatest, World, IndInv, Dates
  <1>2. cache \subseteq cache' /\ cache' \subseteq Rows
    BY DEF MergeLatest, Merged, IndInv, TypeOK, Task
  <1>3. Dates' /\ ~InHistory'
    BY <1>1, IdleFacts DEF Dates, InHistory
  <1>4. disturbed \/ Checkpoints'
    BY <1>1, <1>2, <1>3, CacheGrows DEF IndInv
  <1> QED BY <1>1, <1>2, <1>3, <1>4, IdleIsTask DEF IndInv, TypeOK

-----------------------------------------------------------------------------
(* What goes wrong, and the rest of the world                               *)

LEMMA CutShortStep ==
  ASSUME IndInv, CutShort
  PROVE  IndInv'
  <1>1. task' = Idle /\ UNCHANGED <<today, site, history>> /\ disturbed' \in BOOLEAN
    BY DEF CutShort, World, IndInv, TypeOK
  <1>2. cache \subseteq cache' /\ cache' \subseteq Rows
    BY DEF CutShort, Merged, On, IndInv, TypeOK
  <1>3. Dates' /\ ~InHistory'
    BY <1>1, IdleFacts DEF Dates, InHistory
  <1>4. disturbed' \/ (~disturbed /\ task.part # "recent")
    BY DEF CutShort, IndInv, Dates, TypeOK
  <1>5. disturbed' \/ Checkpoints'
    BY <1>1, <1>2, <1>3, <1>4, CacheGrows DEF IndInv
  <1> QED BY <1>1, <1>2, <1>3, <1>5, IdleIsTask DEF IndInv, TypeOK

LEMMA ClearRuntimeDataStep ==
  ASSUME IndInv, ClearRuntimeData
  PROVE  IndInv'
  BY DEF ClearRuntimeData, World, IndInv, TypeOK, Dates, InHistory, ClosedEnd

\* No record comes to a closed day.
LEMMA RowArrivesStep ==
  ASSUME IndInv, NEW r \in Rows, RowArrives(r)
  PROVE  IndInv'
  <1> USE CalendarType
  <1>1. UNCHANGED <<today, cache, history, task, disturbed>> /\ site' = site \cup {r} /\ DayOf[r] \in {today - 1, today}
    BY DEF RowArrives
  <1>2. TypeOK' /\ Dates'
    BY <1>1 DEF IndInv, TypeOK, Dates, InHistory, ClosedEnd
  <1>3. today \in Nat /\ history.completed \in Nat /\ history.active \in Nat /\ task.date \in Nat /\ task.last \in Nat
        /\ DayOf[r] > ClosedEnd
    BY <1>1 DEF IndInv, TypeOK, History, Task, Day, ClosedEnd
  <1>4. ASSUME Checkpoints PROVE Checkpoints'
    <2>1. \A d \in Nat : d <= ClosedEnd + 1 /\ ReadBefore(d) => \A q \in site' : DayOf[q] < d => q \in cache'
      BY <1>1, <1>3 DEF ReadBefore, ClosedEnd
    <2>2. ReadBefore(history.completed + 1)' /\ history'.completed <= ClosedEnd'
      BY <1>1, <1>3, <1>4, <2>1 DEF Checkpoints, ReadBefore, ClosedEnd
    <2>3. task'.part # "recent" => history'.active <= ClosedEnd' /\ ReadBefore(history.active)'
      BY <1>1, <1>3, <1>4, <2>1 DEF Checkpoints, ReadBefore, ClosedEnd
    <2>4. InHistory' => task.date <= ClosedEnd
      BY <1>1, <1>3 DEF InHistory, IndInv, Dates, ClosedEnd
    <2>5. InHistory' => ReadBefore(task.date)'
      BY <1>1, <1>3, <1>4, <2>1, <2>4 DEF Checkpoints, ReadBefore, InHistory, ClosedEnd
    <2>6. InHistory' /\ task'.phase = "reading" => On(task.date)' \subseteq task'.must
      BY <1>1, <1>3, <1>4, <2>4 DEF Checkpoints, On, InHistory, ClosedEnd
    <2> QED BY <2>2, <2>3, <2>5, <2>6 DEF Checkpoints
  <1> QED BY <1>1, <1>2, <1>4 DEF IndInv

LEMMA NewDayStep ==
  ASSUME IndInv, NewDay
  PROVE  IndInv'
  <1> USE CalendarType
  <1>1. today' = today + 1 /\ today < MaxDay /\ UNCHANGED <<site, cache, history, task, disturbed>>
    BY DEF NewDay
  <1>2. today \in Nat /\ task.day \in Nat /\ task.last \in Nat /\ history.completed \in Nat /\ history.active \in Nat
    BY DEF IndInv, TypeOK, Task, History, Day
  <1>3. TypeOK'
    BY <1>1 DEF IndInv, TypeOK
  <1>4. Dates'
    BY <1>1, <1>2 DEF IndInv, Dates, InHistory, ClosedEnd
  <1>5. disturbed' \/ Checkpoints'
    BY <1>1, <1>2 DEF IndInv, Checkpoints, ReadBefore, InHistory, On, ClosedEnd
  <1> QED BY <1>3, <1>4, <1>5 DEF IndInv

-----------------------------------------------------------------------------

\* The inductive invariant holds in every state of every behaviour.
THEOREM HistoryInvariance == Spec => []IndInv
  <1>1. Init => IndInv
    <2> SUFFICES ASSUME Init PROVE IndInv
      OBVIOUS
    <2>1. TypeOK
      <3>1. history \in History
        BY CalendarType DEF Init, History, Day
      <3>2. today \in FirstToday..MaxDay
        BY CalendarType DEF Init
      <3>3. site \subseteq Rows /\ cache \subseteq Rows /\ disturbed \in BOOLEAN /\ task \in Task
        BY IdleIsTask DEF Init
      <3> QED BY <3>1, <3>2, <3>3 DEF TypeOK
    <2>2. Dates /\ ~InHistory
      BY IdleFacts DEF Init, Dates, InHistory
    <2>3. history.completed = 0 /\ history.active = 0 /\ today = FirstToday
      BY DEF Init
    <2>4. \A r \in site : DayOf[r] \in Nat \ {0}
      BY DaysType DEF Init
    <2>5. Checkpoints
      BY <2>2, <2>3, <2>4, CalendarType DEF Checkpoints, ReadBefore, ClosedEnd
    <2> QED BY <2>1, <2>2, <2>5 DEF IndInv
  <1>2. IndInv /\ [Next]_vars => IndInv'
    <2> SUFFICES ASSUME IndInv, [Next]_vars PROVE IndInv'
      OBVIOUS
    <2>1. CASE StartScan \/ StartFull \/ StartUsage \/ StartLatest
      BY <2>1, StartScanStep, StartFullStep, StartUsageStep, StartLatestStep
    <2>2. CASE Probe \/ BeginDate \/ HistoryDateRead
      BY <2>2, ProbeStep, BeginDateStep, HistoryDateReadStep
    <2>3. CASE ScanDateRead \/ RecentDateRead
      BY <2>3, ScanDateReadStep, RecentDateReadStep
    <2>4. CASE ReadLatestPage \/ MergeLatest
      BY <2>4, ReadLatestPageStep, MergeLatestStep
    <2>5. CASE CutShort \/ ClearRuntimeData \/ NewDay
      BY <2>5, CutShortStep, ClearRuntimeDataStep, NewDayStep
    <2>6. CASE \E r \in Rows : RowArrives(r)
      BY <2>6, RowArrivesStep
    <2>7. CASE UNCHANGED vars
      BY <2>7 DEF vars, IndInv, TypeOK, Dates, Checkpoints, ReadBefore, InHistory, On, ClosedEnd
    <2> QED BY <2>1, <2>2, <2>3, <2>4, <2>5, <2>6, <2>7 DEF Next
  <1> QED BY <1>1, <1>2, PTL DEF Spec

\* Every variable keeps its type.
THEOREM HistoryTypes == Spec => []TypeOK
  BY HistoryInvariance, PTL DEF IndInv

\* advance_usage_history_completed_through_date never passes a day with a record that is not in
\* the cache, unless a read of the recent days was cut short or the cache was cleared.
THEOREM TheCheckpointIsKept == Spec => []CheckpointIsKept
  <1>1. IndInv => CheckpointIsKept
    <2> SUFFICES ASSUME IndInv, ~disturbed, NEW r \in site, DayOf[r] <= history.completed
                 PROVE  r \in cache
      BY DEF CheckpointIsKept, CheckpointIsTrue
    <2>1. DayOf[r] \in Nat /\ history.completed \in Nat
      BY DaysType DEF IndInv, TypeOK, History, Day
    <2> QED BY <2>1 DEF IndInv, Checkpoints, ReadBefore
  <1> QED BY <1>1, HistoryInvariance, PTL

-----------------------------------------------------------------------------
(* The newest pages                                                         *)

Newer(r, S) == {q \in S : q > r}

\* Among finitely many records there is one with every number of newer ones: their numbers are
\* distinct, and as many as there are records.
LEMMA EveryRankIsTaken ==
  ASSUME NEW S \in SUBSET Nat, IsFiniteSet(S)
  PROVE  /\ \A r \in S : Cardinality(Newer(r, S)) \in 0..(Cardinality(S) - 1)
         /\ \A k \in 0..(Cardinality(S) - 1) : \E r \in S : Cardinality(Newer(r, S)) = k
<1> DEFINE card == Cardinality(S)
           ranks == 0..(card - 1)
           rank == [r \in S |-> Cardinality(Newer(r, S))]
<1>1. card \in Nat
  BY FS_CardinalityType
<1>2. \A r \in S : IsFiniteSet(Newer(r, S)) /\ Cardinality(Newer(r, S)) \in Nat
  BY FS_Subset, FS_CardinalityType DEF Newer
<1>3. ASSUME NEW r \in S, NEW T \in SUBSET S, Newer(r, S) \subseteq T, r \in T
      PROVE  Cardinality(Newer(r, S)) < Cardinality(T)
  <2>0. r \notin Newer(r, S)
    BY DEF Newer
  <2>1. IsFiniteSet(T) /\ Newer(r, S) # T
    BY <1>3, <2>0, FS_Subset
  <2>2. Cardinality(T) \in Nat /\ Cardinality(Newer(r, S)) \in Nat
    BY <1>2, <2>1, FS_CardinalityType
  <2> QED
    BY <1>3, <2>1, <2>2, FS_Subset
<1>4. \A r \in S : Cardinality(Newer(r, S)) < card
  BY <1>3 DEF Newer
<1>5. rank \in [S -> ranks]
  BY <1>1, <1>2, <1>4
<1>6. \A r, q \in S : r < q => Cardinality(Newer(q, S)) < Cardinality(Newer(r, S))
  <2> SUFFICES ASSUME NEW r \in S, NEW q \in S, r < q
               PROVE  Cardinality(Newer(q, S)) < Cardinality(Newer(r, S))
    OBVIOUS
  <2> DEFINE T == Newer(r, S)
  <2>0. \A p \in S : p > q => p > r
    OBVIOUS
  <2>1. T \in SUBSET S /\ Newer(q, S) \subseteq T /\ q \in T
    BY <2>0 DEF Newer
  <2> HIDE DEF T
  <2>2. Cardinality(Newer(q, S)) < Cardinality(T)
    BY <1>3, <2>1
  <2> QED
    BY <2>2 DEF T
<1>7. \A r, q \in S : rank[r] = rank[q] => r = q
  BY <1>2, <1>6
<1>8. IsFiniteSet(ranks) /\ Cardinality(ranks) = card
  <2>1. 0 \in Int /\ card - 1 \in Int /\ (0 > card - 1 <=> card = 0) /\ card - 1 - 0 + 1 = card
    BY <1>1
  <2> HIDE DEF card
  <2> QED
    BY <2>1, FS_Interval
<1>9. rank \in Injection(S, ranks)
  BY <1>5, <1>7 DEF Injection, IsInjective
<1>10. rank \in Surjection(S, ranks)
  BY <1>8, <1>9, FS_Injection
<1> QED
  BY <1>4, <1>5, <1>10 DEF Surjection

\* Ranked(S, low, high) has as many records as there are numbers from low up to high.
Ranked(S, low, high) ==
  {r \in S : low <= Cardinality(Newer(r, S)) /\ Cardinality(Newer(r, S)) < high}

LEMMA PagesAreFull ==
  ASSUME NEW S \in SUBSET Nat, IsFiniteSet(S), NEW low \in Nat, NEW high \in Nat,
         low <= high, high <= Cardinality(S)
  PROVE  Cardinality(Ranked(S, low, high)) >= high - low
<1> DEFINE ranks == low..(high - 1)
           page == Ranked(S, low, high)
           at == [k \in ranks |-> CHOOSE r \in S : Cardinality(Newer(r, S)) = k]
<1>1. Cardinality(S) \in Nat /\ IsFiniteSet(page) /\ Cardinality(page) \in Nat
  BY FS_CardinalityType, FS_Subset DEF Ranked
<1>2. \A k \in ranks : k \in 0..(Cardinality(S) - 1) /\ low <= k /\ k < high
  BY <1>1
<1>3. \A k \in ranks : \E r \in S : Cardinality(Newer(r, S)) = k
  BY <1>2, EveryRankIsTaken
<1>4. \A k \in ranks : at[k] \in S /\ Cardinality(Newer(at[k], S)) = k
  BY <1>3
<1>5. at \in [ranks -> page]
  <2>1. \A k \in ranks : at[k] \in page
    BY <1>2, <1>4 DEF Ranked
  <2> HIDE DEF page
  <2> QED
    BY <2>1
<1>6. \A j, k \in ranks : at[j] = at[k] => j = k
  BY <1>4
<1> HIDE DEF at, page
<1>7. at \in Injection(ranks, page)
  BY <1>5, <1>6 DEF Injection, IsInjective
<1>8. Cardinality(ranks) <= Cardinality(page)
  BY <1>1, <1>7, FS_Injection
<1>9. Cardinality(ranks) = high - low
  <2>1. /\ low \in Int /\ high - 1 \in Int /\ (low > high - 1 <=> high = low)
        /\ high - 1 - low + 1 = high - low
    OBVIOUS
  <2>2. Cardinality(ranks) = IF low > high - 1 THEN 0 ELSE high - 1 - low + 1
    BY <2>1, FS_Interval
  <2> QED
    BY <2>1, <2>2
<1> QED
  BY <1>8, <1>9 DEF page

\* While the pages are read: what is wanted is above all that is cached, and so much of it has
\* been brought as stands on the pages that were read, however these have shifted since.
PagesHold ==
  /\ task.phase = "latest" => task.page # 0
  /\ task.phase = "latest" /\ task.page # 1 =>
       /\ task.must \subseteq site
       /\ \A r \in task.must : Above(r, cache)
       /\ \A r \in task.must :
            Cardinality(Newer(r, site)) < (task.page - 1) * PageSize => r \in task.pending
  /\ task.phase = "merging" /\ task.complete => task.must \subseteq task.pending

LEMMA RecordsAreFinite ==
  ASSUME NEW S \in SUBSET Rows
  PROVE  /\ S \in SUBSET Nat /\ IsFiniteSet(S) /\ Cardinality(S) \in Nat
         /\ \A r \in S : IsFiniteSet(Newer(r, S)) /\ Cardinality(Newer(r, S)) \in Nat
<1>1. S \in SUBSET Nat /\ IsFiniteSet(S)
  BY RowsType, FS_Subset
<1>2. \A r \in S : Newer(r, S) \in SUBSET S
  BY DEF Newer
<1> QED
  BY <1>1, <1>2, FS_Subset, FS_CardinalityType

LEMMA SiteIsFinite ==
  ASSUME TypeOK
  PROVE  /\ site \in SUBSET Nat /\ IsFiniteSet(site) /\ Cardinality(site) \in Nat
         /\ \A r \in site : IsFiniteSet(Newer(r, site)) /\ Cardinality(Newer(r, site)) \in Nat
  BY RecordsAreFinite DEF TypeOK

LEMMA PageBounds ==
  ASSUME NEW n \in Nat \ {0}, NEW size \in Nat
  PROVE  n * size \in Nat /\ (n - 1) * size \in Nat /\ n * size - (n - 1) * size = size
  OBVIOUS

LEMMA ProductIsNat ==
  ASSUME NEW n \in Nat
  PROVE  n * PageSize \in Nat /\ (n # 0 => (n - 1) * PageSize \in Nat)
  BY PagesType

\* The pages up to the one that is read have brought what is wanted and stands on them.
LEMMA PageBrings ==
  ASSUME TypeOK, PagesHold, task.phase = "latest", NEW r \in Wanted,
         Cardinality(Newer(r, site)) < task.page * PageSize
  PROVE  r \in task.pending \cup OnPage(task.page)
<1>1. /\ task.page \in Nat \ {0} /\ r \in site
      /\ \A q \in site : Cardinality(Newer(q, site)) \in Nat
  BY SiteIsFinite DEF Wanted, PagesHold, TypeOK, Task
<1>2. CASE Cardinality(Newer(r, site)) >= (task.page - 1) * PageSize
  BY <1>1, <1>2 DEF OnPage, Newer
<1>3. CASE Cardinality(Newer(r, site)) < (task.page - 1) * PageSize
  <2>1. CASE task.page = 1
    BY <1>1, <1>3, <2>1, PagesType
  <2>2. CASE task.page # 1
    BY <1>3, <2>2 DEF PagesHold, Wanted
  <2> QED
    BY <2>1, <2>2
<1> QED
  BY <1>1, <1>2, <1>3, ProductIsNat

\* A page with a record of the cache has brought all that is above the cache ...
LEMMA TailEnds ==
  ASSUME TypeOK, PagesHold, task.phase = "latest", CachedTail(OnPage(task.page))
  PROVE  \A r \in Wanted : Cardinality(Newer(r, site)) < task.page * PageSize
<1> SUFFICES ASSUME NEW r \in Wanted
             PROVE  Cardinality(Newer(r, site)) < task.page * PageSize
  OBVIOUS
<1>1. PICK c \in OnPage(task.page) : c \in cache
  BY DEF CachedTail
<1>2. /\ c \in site /\ Cardinality(Newer(c, site)) < task.page * PageSize
  BY <1>1 DEF OnPage, Newer
<1>3. r \in site /\ r > c
  BY <1>1 DEF Wanted, PagesHold, Above
<1>4. Newer(r, site) \subseteq Newer(c, site)
  <2>1. \A q \in site : q > r => q > c
    BY <1>2, <1>3, SiteIsFinite
  <2> QED
    BY <2>1 DEF Newer
<1>5. Cardinality(Newer(r, site)) <= Cardinality(Newer(c, site))
  BY <1>2, <1>4, SiteIsFinite, FS_Subset
<1>6. Cardinality(Newer(r, site)) \in Nat /\ Cardinality(Newer(c, site)) \in Nat /\ task.page * PageSize \in Nat
  BY <1>2, <1>3, SiteIsFinite, ProductIsNat DEF TypeOK, Task
<1> QED
  BY <1>2, <1>5, <1>6

\* ... and so has a page that is not full, or the last that there can be.
LEMMA NaturalEnds ==
  ASSUME TypeOK, PagesHold, task.phase = "latest", NaturalEnd(task.page)
  PROVE  \A r \in site : Cardinality(Newer(r, site)) < task.page * PageSize
<1> DEFINE low == (task.page - 1) * PageSize
           high == task.page * PageSize
<1>1. task.page \in Nat \ {0} /\ PageSize \in Nat \ {0}
  BY PagesType DEF PagesHold, TypeOK, Task
<1>2. low \in Nat /\ high \in Nat /\ high - low = PageSize
  BY <1>1, PageBounds
<1>3. OnPage(task.page) = Ranked(site, low, high)
  BY DEF OnPage, Ranked, Newer
<1> HIDE DEF low, high
<1>4. Cardinality(site) <= high
  <2>1. CASE Cardinality(Ranked(site, low, high)) < PageSize
    <3>1. Ranked(site, low, high) \in SUBSET site
      BY DEF Ranked
    <3>2. Cardinality(Ranked(site, low, high)) \in Nat
      BY <3>1, SiteIsFinite, FS_Subset, FS_CardinalityType
    <3>3. ~(high <= Cardinality(site))
      BY <1>1, <1>2, <2>1, <3>2, SiteIsFinite, PagesAreFull
    <3> QED
      BY <1>2, <3>3, SiteIsFinite
  <2>2. CASE high >= Cardinality(site)
    BY <1>2, <2>2, SiteIsFinite
  <2> QED
    BY <1>3, <2>1, <2>2 DEF NaturalEnd, high
<1>5. \A r \in site : Cardinality(Newer(r, site)) \in 0..(Cardinality(site) - 1)
  BY SiteIsFinite, EveryRankIsTaken
<1>6. \A r \in site : Cardinality(Newer(r, site)) < high
  BY <1>2, <1>4, <1>5, SiteIsFinite
<1> QED
  BY <1>6 DEF high

\* Every step keeps it: a task begins its pages with the first, and what comes to the site while
\* they are read only moves records to later pages.
LEMMA PagesInit == Init => PagesHold
  BY IdleFacts DEF Init, PagesHold

LEMMA LatestBegins ==
  ASSUME NEW t \in Task, task' = Latest(t)
  PROVE  PagesHold'
<1> DEFINE n == 1
<1>1. task' = [t EXCEPT !.phase = "latest", !.page = n] /\ n \in Nat /\ n # 0
  BY DEF Latest
<1> HIDE DEF n
<1>2. task'.phase = "latest" /\ task'.page = n
  BY <1>1 DEF Task
<1> QED
  BY <1>1, <1>2 DEF PagesHold, n

\* Tasks that are not at the newest pages have nothing to answer for here.
LEMMA PagesElsewhere ==
  ASSUME task'.phase \notin {"latest", "merging"}
  PROVE  PagesHold'
  BY DEF PagesHold

LEMMA AfterHistoryPages ==
  ASSUME TypeOK, NEW t \in Task, t.kind \in Readers, task' = AfterHistory(t)
  PROVE  PagesHold'
<1>1. CASE t.kind = "full-latest"
  <2>1. task' = Latest(t)
    BY <1>1 DEF AfterHistory
  <2> QED
    BY <2>1, LatestBegins
<1>2. CASE t.kind = "scan"
  <2>1. task'.phase = "dates"
    BY <1>2 DEF AfterHistory, Task
  <2> QED
    BY <2>1, PagesElsewhere
<1>3. CASE t.kind = "full"
  <2>1. task'.phase = "dates"
    BY <1>3 DEF AfterHistory, Recent, Task
  <2> QED
    BY <2>1, PagesElsewhere
<1> QED
  BY <1>1, <1>2, <1>3 DEF Readers

LEMMA StartsPages ==
  ASSUME StartScan \/ StartFull \/ StartUsage \/ StartLatest, TypeOK
  PROVE  PagesHold'
<1>1. today \in Day
  BY CalendarType DEF TypeOK, Day
<1>2. CASE StartScan \/ StartFull
  <2>1. task'.phase = "probing"
    BY <1>1, <1>2, IdleIsTask DEF StartScan, StartFull, Starts, Task
  <2> QED
    BY <2>1, PagesElsewhere
<1>3. CASE StartUsage
  <2>1. task' = [[Idle EXCEPT !.kind = "usage", !.day = today]
                   EXCEPT !.phase = "dates", !.part = "recent", !.date = today - 1, !.last = today]
    BY <1>3 DEF StartUsage, Recent
  <2>2. task'.phase = "dates"
    BY <1>1, <2>1, IdleIsTask DEF Task
  <2> QED
    BY <2>2, PagesElsewhere
<1>4. CASE StartLatest
  <2>1. [Idle EXCEPT !.kind = "latest", !.day = today] \in Task
    BY <1>1, IdleIsTask DEF Task, Kind
  <2> QED
    BY <1>4, <2>1, LatestBegins DEF StartLatest
<1> QED
  BY <1>2, <1>3, <1>4

LEMMA ReadPageHolds ==
  ASSUME TypeOK, PagesHold, ReadLatestPage
  PROVE  PagesHold'
<1> DEFINE brought == OnPage(task.page)
           ends == CachedTail(brought) \/ NaturalEnd(task.page)
           ph == IF ends \/ task.page = MaxPages THEN "merging" ELSE "latest"
           after == task.page + 1
           pend == task.pending \cup brought
           wanted == Wanted
<1>1. task.phase = "latest" /\ UNCHANGED <<site, cache>>
  BY DEF ReadLatestPage, World
<1>2. task' = [task EXCEPT !.must = wanted, !.pending = pend, !.complete = ends, !.phase = ph, !.page = after]
  BY <1>1 DEF ReadLatestPage, TypeOK, Task
<1>3. /\ wanted \subseteq site /\ \A r \in wanted : Above(r, cache)
      /\ wanted \subseteq Rows /\ pend \subseteq Rows
      /\ task.page \in Nat \ {0} /\ after \in Nat \ {0, 1} /\ after - 1 = task.page
      /\ ends \in BOOLEAN /\ ph \in {"latest", "merging"}
  BY <1>1 DEF Wanted, OnPage, PagesHold, TypeOK, Task, CachedTail, NaturalEnd
<1>4. \A r \in wanted : Cardinality(Newer(r, site)) < task.page * PageSize => r \in pend
  BY <1>1, PageBrings
<1>5. ends => \A r \in wanted : Cardinality(Newer(r, site)) < task.page * PageSize
  BY <1>1, <1>3, TailEnds, NaturalEnds
<1>6. ends => wanted \subseteq pend
  BY <1>4, <1>5
<1>7. ph = "latest" \/ ph = "merging"
  BY <1>3
<1> HIDE DEF brought, ends, ph, after, pend, wanted
<1>8. /\ task'.must = wanted /\ task'.pending = pend /\ task'.complete = ends
      /\ task'.phase = ph /\ task'.page = after
  BY <1>2, <1>3 DEF TypeOK, Task
<1>9. \A r \in task'.must :
        Cardinality(Newer(r, site)') < (task'.page - 1) * PageSize => r \in task'.pending
  BY <1>1, <1>3, <1>4, <1>8 DEF Newer
<1>10. /\ task'.must \subseteq site' /\ task'.page # 0
       /\ \A r \in task'.must : Above(r, cache)'
       /\ task'.complete => task'.must \subseteq task'.pending
  BY <1>1, <1>3, <1>6, <1>8 DEF Above
<1> QED
  BY <1>9, <1>10 DEF PagesHold

\* What comes makes no record newer.
LEMMA ArrivalMovesDown ==
  ASSUME TypeOK, TypeOK', NEW r \in Rows, RowArrives(r)
  PROVE  \A q \in site : Cardinality(Newer(q, site)) <= Cardinality(Newer(q, site'))
<1> SUFFICES ASSUME NEW q \in site
             PROVE  Cardinality(Newer(q, site)) <= Cardinality(Newer(q, site'))
  OBVIOUS
<1>1. site' = site \cup {r}
  BY DEF RowArrives
<1>2. IsFiniteSet(site') /\ Newer(q, site') \in SUBSET site'
  BY RowsType, FS_Subset DEF TypeOK, Newer
<1>3. IsFiniteSet(Newer(q, site')) /\ Newer(q, site) \in SUBSET Newer(q, site')
  BY <1>1, <1>2, FS_Subset DEF Newer
<1> QED
  BY <1>3, FS_Subset

LEMMA PagesStep ==
  ASSUME IndInv, IndInv', PagesHold, [Next]_vars
  PROVE  PagesHold'
<1>0. TypeOK /\ TypeOK' /\ task \in Task /\ today \in Day
  BY CalendarType DEF IndInv, TypeOK, Day
<1>1. CASE StartScan \/ StartFull \/ StartUsage \/ StartLatest
  BY <1>0, <1>1, StartsPages
<1>2. CASE Probe
  <2>1. task.kind \in Readers
    BY <1>2 DEF Probe, IndInv, Dates
  <2>2. CASE task' = AfterHistory(task)
    BY <1>0, <2>1, <2>2, AfterHistoryPages
  <2>3. CASE task' # AfterHistory(task)
    <3>1. PICK earliest \in {DayOf[r] : r \in site} :
            task' = [task EXCEPT !.phase = "dates", !.part = "history", !.earliest = earliest,
                                 !.date = Resume(earliest), !.last = ClosedEnd]
      BY <1>2, <2>3 DEF Probe
    <3>2. task'.phase = "dates"
      BY <1>0, <3>1 DEF Task
    <3> QED
      BY <3>2, PagesElsewhere
  <2> QED
    BY <2>2, <2>3
<1>3. CASE BeginDate
  <2>1. task'.phase = "reading"
    BY <1>0, <1>3 DEF BeginDate, Task
  <2> QED
    BY <2>1, PagesElsewhere
<1>4. ASSUME task' = NextDate(task) PROVE PagesHold'
  <2>1. task'.phase = "dates"
    BY <1>0, <1>4 DEF NextDate, Task
  <2> QED
    BY <2>1, PagesElsewhere
<1>5. CASE HistoryDateRead
  <2>1. CASE task.date < task.last
    BY <1>4, <1>5, <2>1 DEF HistoryDateRead
  <2>2. CASE ~(task.date < task.last)
    <3> DEFINE t == [task EXCEPT !.must = {}]
    <3>1. task' = AfterHistory(t)
      BY <1>5, <2>2 DEF HistoryDateRead
    <3>2. task.kind \in Readers
      BY <1>5 DEF HistoryDateRead, Brings, InHistory, IndInv, Dates
    <3>3. t \in Task /\ t.kind \in Readers
      BY <1>0, <3>2 DEF Task
    <3> HIDE DEF t
    <3> QED
      BY <1>0, <3>1, <3>3, AfterHistoryPages
  <2> QED
    BY <2>1, <2>2
<1>6. ASSUME task' = Idle PROVE PagesHold'
  BY <1>6, IdleFacts, PagesElsewhere
<1>7. CASE ScanDateRead \/ RecentDateRead
  BY <1>4, <1>6, <1>7 DEF ScanDateRead, RecentDateRead
<1>8. CASE ReadLatestPage
  BY <1>0, <1>8, ReadPageHolds
<1>9. CASE MergeLatest \/ CutShort
  BY <1>6, <1>9 DEF MergeLatest, CutShort
<1>10. CASE ClearRuntimeData
  BY <1>10 DEF ClearRuntimeData, World, PagesHold, Above, Newer
<1>11. CASE \E r \in Rows : RowArrives(r)
  <2> PICK r \in Rows : RowArrives(r)
    BY <1>11
  <2>1. site' = site \cup {r} /\ UNCHANGED <<cache, task>>
    BY DEF RowArrives
  <2>2. ASSUME task.phase = "latest", task.page # 1, NEW q \in task.must,
               Cardinality(Newer(q, site)') < (task.page - 1) * PageSize
        PROVE  q \in task.pending
    <3>1. q \in site /\ q \in site' /\ task.page \in Nat /\ task.page # 0
      BY <1>0, <2>1, <2>2 DEF PagesHold, Task
    <3>2. Cardinality(Newer(q, site)) <= Cardinality(Newer(q, site'))
      BY <1>0, <3>1, ArrivalMovesDown
    <3>3. Cardinality(Newer(q, site)) \in Nat /\ Cardinality(Newer(q, site')) \in Nat
      BY <1>0, <3>1, RecordsAreFinite DEF TypeOK
    <3>4. Newer(q, site)' = Newer(q, site')
      BY DEF Newer
    <3>5. Cardinality(Newer(q, site)) < (task.page - 1) * PageSize
      BY <2>2, <3>1, <3>2, <3>3, <3>4, ProductIsNat
    <3> QED
      BY <2>2, <3>5 DEF PagesHold
  <2> QED
    BY <2>1, <2>2 DEF PagesHold, Above
<1>12. CASE NewDay \/ UNCHANGED vars
  BY <1>12 DEF NewDay, vars, PagesHold, Above, Newer
<1> QED
  BY <1>1, <1>2, <1>3, <1>5, <1>7, <1>8, <1>9, <1>10, <1>11, <1>12 DEF Next

\* A run for the newest pages that joined the cache, or came to the end, misses nothing that is
\* newer than the cache it began with, however the pages shifted under it.
THEOREM TheLatestReachTheCache == Spec => []LatestReachesTheCache
<1>1. Init => PagesHold
  BY PagesInit
<1>2. IndInv /\ IndInv' /\ PagesHold /\ [Next]_vars => PagesHold'
  BY PagesStep
<1>3. PagesHold => LatestReachesTheCache
  BY DEF PagesHold, LatestReachesTheCache
<1> QED
  BY <1>1, <1>2, <1>3, HistoryInvariance, PTL DEF Spec

-----------------------------------------------------------------------------
(* The pages of one date                                                    *)

UpTo(r, S) == {q \in S : q <= r}

LEMMA WindowIsFinite ==
  ASSUME NEW S \in SUBSET Records
  PROVE  /\ S \in SUBSET Nat /\ IsFiniteSet(S) /\ Total(S) \in Nat /\ Pages(S) \in Nat
         /\ \A r \in Nat : IsFiniteSet(UpTo(r, S)) /\ Place(r, S) \in Nat /\ Place(r, S) <= Total(S)
<1>1. S \in SUBSET Nat /\ IsFiniteSet(S)
  BY RecordsType, FS_Subset
<1>2. Total(S) \in Nat
  BY <1>1, FS_CardinalityType DEF Total
<1>3. Pages(S) \in Nat
  BY <1>2, WindowBounds DEF Pages
<1>4. ASSUME NEW r \in Nat
      PROVE  IsFiniteSet(UpTo(r, S)) /\ Place(r, S) \in Nat /\ Place(r, S) <= Total(S)
  <2>1. UpTo(r, S) \in SUBSET S
    BY DEF UpTo
  <2>2. IsFiniteSet(UpTo(r, S)) /\ Cardinality(UpTo(r, S)) \in Nat
        /\ Cardinality(UpTo(r, S)) <= Cardinality(S)
    BY <1>1, <2>1, FS_Subset, FS_CardinalityType
  <2> QED
    BY <2>2 DEF UpTo, Place, Total
<1> QED
  BY <1>1, <1>2, <1>3, <1>4

\* Later records have later places, and the last record has the last place.
LEMMA PlacesAreOrdered ==
  ASSUME NEW S \in SUBSET Records, NEW q \in S, NEW r \in S, q < r
  PROVE  Place(q, S) < Place(r, S)
<1>1. q \in Nat /\ r \in Nat /\ \A p \in S : p \in Nat
  BY RecordsType
<1>2. \A p \in S : p <= q => p <= r
  BY <1>1
<1>3. UpTo(q, S) \subseteq UpTo(r, S) /\ r \in UpTo(r, S) /\ r \notin UpTo(q, S)
  <2>1. r <= r /\ ~(r <= q)
    BY <1>1
  <2>2. UpTo(q, S) \subseteq UpTo(r, S)
    BY <1>2 DEF UpTo
  <2> QED
    BY <2>1, <2>2 DEF UpTo
<1>4. IsFiniteSet(UpTo(r, S)) /\ IsFiniteSet(UpTo(q, S))
  BY <1>1, WindowIsFinite
<1>5. Cardinality(UpTo(q, S)) <= Cardinality(UpTo(r, S))
      /\ Cardinality(UpTo(q, S)) # Cardinality(UpTo(r, S))
  BY <1>3, <1>4, FS_Subset
<1>6. Cardinality(UpTo(q, S)) \in Nat /\ Cardinality(UpTo(r, S)) \in Nat
  BY <1>4, FS_CardinalityType
<1>7. Place(q, S) = Cardinality(UpTo(q, S)) /\ Place(r, S) = Cardinality(UpTo(r, S))
  BY DEF Place, UpTo
<1> QED
  BY <1>5, <1>6, <1>7

LEMMA LastPlace ==
  ASSUME NEW S \in SUBSET Records, S # {}
  PROVE  \E r \in S : Place(r, S) = Total(S)
<1>1. S \in SUBSET Nat /\ IsFiniteSet(S) /\ Cardinality(S) \in Nat
  BY WindowIsFinite DEF Total
<1>2. Cardinality(S) # 0
  BY <1>1, FS_EmptySet
<1>3. 0 \in 0..(Cardinality(S) - 1)
  BY <1>1, <1>2
<1>4. PICK r \in S : Cardinality(Newer(r, S)) = 0
  BY <1>1, <1>3, EveryRankIsTaken
<1>5. Newer(r, S) \in SUBSET S
  BY DEF Newer
<1>6. Newer(r, S) = {}
  BY <1>1, <1>4, <1>5, FS_Subset, FS_EmptySet
<1>7. \A q \in S : q <= r
  BY <1>1, <1>6 DEF Newer
<1>8. {q \in S : q <= r} = S
  BY <1>7
<1> QED
  BY <1>8 DEF Place, Total

\* A set that has grown at its end only, or that has as many records, has the same places.
LEMMA PlacesAreKept ==
  ASSUME NEW S \in SUBSET Records, NEW T \in SUBSET Records, S \subseteq T,
         \/ Total(T) = Total(S)
         \/ \A q \in S, r \in T \ S : q < r
  PROVE  \A r \in S : Place(r, T) = Place(r, S)
<1>1. CASE Total(T) = Total(S)
  <2>1. T = S
    BY <1>1, WindowIsFinite, FS_Subset DEF Total
  <2> QED
    BY <2>1
<1>2. CASE \A q \in S, r \in T \ S : q < r
  <2> SUFFICES ASSUME NEW r \in S PROVE Place(r, T) = Place(r, S)
    OBVIOUS
  <2>1. \A q \in T : q \in Nat
    BY RecordsType
  <2>2. \A q \in T \ S : ~(q <= r)
    BY <1>2, <2>1
  <2>3. {q \in T : q <= r} = {q \in S : q <= r}
    BY <2>2
  <2> QED
    BY <2>3 DEF Place
<1> QED
  BY <1>1, <1>2

\* So its pages are those of the snapshot, up to the record that closes the snapshot.
LEMMA PageCovers ==
  ASSUME NEW S \in SUBSET Records, NEW T \in SUBSET Records, S \subseteq T,
         \A r \in S : Place(r, T) = Place(r, S),
         NEW n, NEW r \in PageOf(n, S)
  PROVE  r \in PageOf(n, T) /\ r <= Boundary(T, Total(S))
<1>1. r \in S /\ r \in T /\ r \in Nat
  BY RecordsType DEF PageOf
<1>2. r \in PageOf(n, T)
  BY <1>1 DEF PageOf
<1> DEFINE last_ == CHOOSE b \in T : Place(b, T) = Total(S)
<1>3. \E b \in T : Place(b, T) = Total(S)
  BY <1>1, LastPlace
<1>4. last_ \in T /\ Place(last_, T) = Total(S) /\ Boundary(T, Total(S)) = last_ /\ last_ \in Nat
  BY <1>3, RecordsType DEF Boundary
<1> HIDE DEF last_
<1>5. Place(r, T) <= Total(S) /\ Total(S) \in Nat /\ Place(r, T) \in Nat
  BY <1>1, WindowIsFinite
<1>6. ~(last_ < r)
  BY <1>1, <1>4, <1>5, PlacesAreOrdered
<1> QED
  BY <1>1, <1>2, <1>4, <1>6

\* Every place is on a page.
LEMMA PlaceHasPage ==
  ASSUME NEW place \in Nat \ {0}, NEW total \in Nat, place <= total, NEW size \in Nat \ {0}
  PROVE  \E n \in 1..((total + size - 1) \div size) : place > (n - 1) * size /\ place <= n * size
<1> DEFINE n == (place + size - 1) \div size
           m == (total + size - 1) \div size
<1>1. n \in Nat /\ m \in Nat
  OBVIOUS
<1>2. size * n <= place + size - 1 /\ place + size - 1 < size * n + size
  OBVIOUS
<1>3. size * m <= total + size - 1 /\ total + size - 1 < size * m + size
  OBVIOUS
<1> HIDE DEF n, m
<1>4. place > (n - 1) * size /\ place <= n * size
  BY <1>1, <1>2
<1>5. n # 0
  BY <1>1, <1>4
<1>6. n <= m
  <2> SUFFICES ASSUME n >= m + 1 PROVE FALSE
    BY <1>1
  <2>1. size * (m + 1) <= size * n
    BY <1>1
  <2>2. size * (m + 1) = size * m + size
    BY <1>1
  <2>3. size * m \in Nat /\ size * n \in Nat
    BY <1>1
  <2> QED
    BY <1>2, <1>3, <2>1, <2>2, <2>3
<1>7. n \in 1..m
  BY <1>1, <1>5, <1>6
<1>8. \E k \in 1..m : place > (k - 1) * size /\ place <= k * size
  BY <1>4, <1>7
<1> QED
  BY <1>8 DEF m

LEMMA PagesCover ==
  ASSUME NEW S \in SUBSET Records, NEW r \in S
  PROVE  \E n \in 1..Pages(S) : r \in PageOf(n, S)
<1>1. /\ r \in Nat /\ Place(r, S) \in Nat /\ Total(S) \in Nat /\ Place(r, S) <= Total(S)
      /\ IsFiniteSet(UpTo(r, S))
  BY RecordsType, WindowIsFinite
<1>2. Place(r, S) # 0
  <2>1. r \in UpTo(r, S)
    BY <1>1 DEF UpTo
  <2>2. Cardinality(UpTo(r, S)) # 0
    BY <1>1, <2>1, FS_EmptySet
  <2> QED
    BY <2>2 DEF Place, UpTo
<1> QED
  BY <1>1, <1>2, PlaceHasPage, WindowBounds DEF Pages, PageOf

\* The pages up to the next one are with a reader or stored, whatever has come to the site.
Read == phase \in {"pages", "postflight", "postflight last", "completed"}

PageIsSafe(p) ==
  p \in asked \/ (\E a \in answered : a.page = p) \/ PageOf(p, snapshot) \subseteq stored

GrowsAtItsEnd == \A q \in snapshot, r \in rows \ snapshot : q < r

WindowInv ==
  /\ rows \subseteq Records /\ snapshot \subseteq rows /\ next \in Nat
  /\ \A a \in answered : snapshot \subseteq a.seen /\ a.seen \subseteq rows
  /\ open => GrowsAtItsEnd
  /\ phase = "first" => asked = {} /\ answered = {}
  /\ Read => PageOf(1, snapshot) \subseteq stored /\ \A p \in 2..(next - 1) : PageIsSafe(p)
  /\ Read /\ phase # "pages" => asked = {} /\ answered = {} /\ next > Pages(snapshot)

LEMMA WindowInitOK == WindowInit => WindowInv
  BY DEF WindowInit, WindowInv, GrowsAtItsEnd, Read

\* The readers that are started are those of the first pages after the first.
LEMMA SpawnedFirst ==
  ASSUME NEW S \in SUBSET Records
  PROVE  /\ Cardinality(Spawned(2, S, 0)) \in Nat
         /\ \A p \in 2..(1 + Cardinality(Spawned(2, S, 0))) : p \in Spawned(2, S, 0)
<1> DEFINE m == IF Pages(S) < 1 + Slots THEN Pages(S) ELSE 1 + Slots
<1>1. Pages(S) \in Nat /\ Slots \in Nat \ {0} /\ m \in Nat
  BY WindowIsFinite, WindowBounds
<1>2. Spawned(2, S, 0) = 2..m
  BY <1>1 DEF Spawned
<1> HIDE DEF m
<1>3. Cardinality(2..m) = IF 2 > m THEN 0 ELSE m - 2 + 1
  <2>1. 2 \in Int /\ m \in Int
    BY <1>1
  <2> QED
    BY <2>1, FS_Interval
<1> QED
  BY <1>1, <1>2, <1>3

LEMMA ReadFirstPageStep ==
  ASSUME WindowInv, ReadFirstPage
  PROVE  WindowInv'
<1>1. /\ snapshot' = rows /\ rows' = rows /\ open' = open /\ answered' = answered /\ answered = {}
      /\ asked' = Spawned(2, rows, 0) /\ next' = 2 + Cardinality(asked')
      /\ phase' = After(rows, asked', next') /\ stored' = stored \cup PageOf(1, rows)
      /\ rows \in SUBSET Records
  BY DEF ReadFirstPage, Site, WindowInv
<1>2. /\ Cardinality(asked') \in Nat /\ next' \in Nat
      /\ \A p \in 2..(next' - 1) : p \in asked'
  BY <1>1, SpawnedFirst
<1>3. phase' \in {"pages", "postflight"} /\ (phase' = "postflight" => asked' = {} /\ next' > Pages(rows))
  BY <1>1 DEF After
<1>4. PageOf(1, snapshot') \subseteq stored' /\ \A p \in 2..(next' - 1) : PageIsSafe(p)'
  BY <1>1, <1>2 DEF PageIsSafe
<1>5. GrowsAtItsEnd'
  BY <1>1 DEF GrowsAtItsEnd
<1>6. Pages(snapshot)' = Pages(rows) /\ PageOf(1, snapshot)' = PageOf(1, snapshot')
  BY <1>1 DEF Pages, Total, PageOf, Place
<1> QED
  BY <1>1, <1>2, <1>3, <1>4, <1>5, <1>6 DEF WindowInv

LEMMA AnswerStep ==
  ASSUME WindowInv, NEW p \in asked, Answer(p)
  PROVE  WindowInv'
<1>1. /\ asked' = asked \ {p} /\ answered' = answered \cup {[page |-> p, seen |-> rows]}
      /\ UNCHANGED <<open, rows, stored, phase, snapshot, next>> /\ phase # "first"
  BY DEF Answer, Site, WindowInv
<1>2. \A a \in answered' : snapshot' \subseteq a.seen /\ a.seen \subseteq rows'
  BY <1>1 DEF WindowInv
<1>3. PageOf(1, snapshot)' = PageOf(1, snapshot) /\ Pages(snapshot)' = Pages(snapshot)
      /\ \A n : PageOf(n, snapshot') = PageOf(n, snapshot)
  BY <1>1 DEF PageOf, Place, Pages, Total
<1>4. ASSUME NEW n, PageIsSafe(n) PROVE PageIsSafe(n)'
  <2>1. CASE n = p
    <3>1. [page |-> p, seen |-> rows] \in answered' /\ [page |-> p, seen |-> rows].page = n
      BY <1>1, <2>1
    <3> QED
      BY <3>1 DEF PageIsSafe
  <2>2. CASE n # p
    BY <1>1, <1>3, <1>4, <2>2 DEF PageIsSafe
  <2> QED
    BY <2>1, <2>2
<1>5. GrowsAtItsEnd' = GrowsAtItsEnd
  BY <1>1 DEF GrowsAtItsEnd
<1>6. Read => phase = "pages"
  BY DEF WindowInv
<1> QED
  BY <1>1, <1>2, <1>3, <1>4, <1>5, <1>6 DEF WindowInv, Read

\* An answer that passes the check brings the page of the snapshot, however the site has grown.
LEMMA JoinPageStep ==
  ASSUME WindowInv, NEW a \in answered, JoinPage(a)
  PROVE  WindowInv'
<1> DEFINE S == snapshot
           T == a.seen
           isLast == a.page = Pages(S)
           spawned == IF next <= Pages(S) THEN {next} ELSE {}
<1>1. /\ phase = "pages" /\ MetadataMatches(T)
      /\ S \in SUBSET Records /\ T \in SUBSET Records /\ S \subseteq T /\ T \subseteq rows
      /\ Pages(S) \in Nat /\ next \in Nat
  BY WindowIsFinite DEF JoinPage, WindowInv
<1>2. /\ stored' = stored \cup {r \in PageOf(a.page, T) : isLast => r <= Boundary(T, Total(S))}
      /\ answered' = answered \ {a} /\ asked' = asked \cup spawned
      /\ next' = next + Cardinality(spawned)
      /\ phase' = After(S, asked' \cup answered', next')
      /\ UNCHANGED <<open, rows, snapshot>>
  BY DEF JoinPage, Site
<1>3. \/ Total(T) = Total(S)
      \/ \A q \in S, r \in T \ S : q < r
  <2>1. CASE open
    BY <1>1, <2>1 DEF WindowInv, GrowsAtItsEnd
  <2>2. CASE ~open
    BY <1>1, <2>2 DEF MetadataMatches
  <2> QED
    BY <2>1, <2>2
<1>4. \A r \in S : Place(r, T) = Place(r, S)
  BY <1>1, <1>3, PlacesAreKept
<1>5. PageOf(a.page, S) \subseteq stored'
  BY <1>1, <1>2, <1>4, PageCovers
<1>6. /\ next' \in Nat
      /\ \A p \in 2..(next' - 1) : p \in 2..(next - 1) \/ p \in asked'
      /\ next' <= Pages(S) + 1 \/ next' = next
  <2>1. CASE next <= Pages(S)
    <3>1. spawned = {next} /\ next' = next + 1
      BY <1>2, <2>1, FS_Singleton
    <3>2. next \in asked'
      BY <1>2, <3>1
    <3> HIDE DEF S, spawned, isLast, T
    <3>3. next' = next + 1 /\ next \in Nat /\ Pages(S) \in Nat
      BY <1>1, <3>1
    <3>4. next' \in Nat /\ next' <= Pages(S) + 1
      BY <2>1, <3>3
    <3>5. \A p \in 2..(next' - 1) : p \in 2..(next - 1) \/ p = next
      BY <3>3
    <3> QED
      BY <3>2, <3>4, <3>5
  <2>2. CASE ~(next <= Pages(S))
    BY <1>1, <1>2, <2>2, FS_EmptySet
  <2> QED
    BY <2>1, <2>2
<1>7. \A n : PageOf(n, snapshot)' = PageOf(n, snapshot)
  BY <1>2 DEF PageOf, Place
<1>8. ASSUME NEW n, PageIsSafe(n) PROVE PageIsSafe(n)'
  <2>1. CASE n = a.page
    BY <1>5, <1>7, <2>1 DEF PageIsSafe
  <2>2. CASE n # a.page
    BY <1>2, <1>7, <1>8, <2>2 DEF PageIsSafe
  <2> QED
    BY <2>1, <2>2
<1>9. /\ phase' \in {"pages", "postflight"}
      /\ phase' = "postflight" => asked' = {} /\ answered' = {} /\ next' > Pages(S)
  BY <1>2 DEF After
<1>10. /\ PageOf(1, snapshot)' \subseteq stored'
       /\ \A p \in 2..(next' - 1) : PageIsSafe(p)'
  <2>1. PageOf(1, snapshot) \subseteq stored' /\ \A p \in 2..(next - 1) : PageIsSafe(p)
    BY <1>1, <1>2 DEF WindowInv, Read
  <2>2. ASSUME NEW p \in 2..(next' - 1) PROVE PageIsSafe(p)'
    <3>1. CASE p \in asked'
      BY <3>1 DEF PageIsSafe
    <3>2. CASE p \in 2..(next - 1)
      BY <1>8, <2>1, <3>2
    <3> QED
      BY <1>6, <3>1, <3>2
  <2>3. PageOf(1, snapshot)' \subseteq stored'
    BY <1>7, <2>1
  <2> QED
    BY <2>2, <2>3
<1>11. GrowsAtItsEnd' = GrowsAtItsEnd /\ Pages(snapshot)' = Pages(S)
  BY <1>2 DEF GrowsAtItsEnd, Pages, Total
<1>12. \A b \in answered' : snapshot' \subseteq b.seen /\ b.seen \subseteq rows'
  BY <1>2 DEF WindowInv
<1> HIDE DEF S, T, isLast, spawned
<1> QED
  BY <1>2, <1>6, <1>9, <1>10, <1>11, <1>12 DEF WindowInv, S

LEMMA ChangedStep ==
  ASSUME WindowInv, Changed
  PROVE  WindowInv'
<1>1. /\ phase' \in {"first", "failed"} /\ asked' = {} /\ answered' = {} /\ next' = 2
      /\ snapshot' = {} /\ UNCHANGED <<open, rows>>
  BY DEF Changed, Site
<1> QED
  BY <1>1 DEF WindowInv, Read, GrowsAtItsEnd

\* The checks at the end look at the records and change none.
LEMMA WindowFrame ==
  ASSUME WindowInv, UNCHANGED <<open, rows, stored, snapshot, asked, answered, next>>,
         \/ phase' = phase
         \/ phase' = "failed"
         \/ Read /\ phase # "pages" /\ phase' \in {"postflight last", "completed"}
  PROVE  WindowInv'
<1>1. \A n : (PageIsSafe(n)' <=> PageIsSafe(n)) /\ PageOf(n, snapshot)' = PageOf(n, snapshot)
  BY DEF PageIsSafe, PageOf, Place
<1>2. GrowsAtItsEnd' = GrowsAtItsEnd /\ Pages(snapshot)' = Pages(snapshot)
  BY DEF GrowsAtItsEnd, Pages, Total
<1>3. Read' => Read /\ (phase' # "pages" => phase # "pages")
  BY DEF Read
<1>4. phase' # "first" \/ phase' = phase
  OBVIOUS
<1> QED
  BY <1>1, <1>2, <1>3, <1>4 DEF WindowInv

LEMMA RecordComesStep ==
  ASSUME WindowInv, NEW r \in Records, RecordComes(r)
  PROVE  WindowInv'
<1>1. /\ rows' = rows \cup {r} /\ UNCHANGED <<open, stored, phase, snapshot, asked, answered, next>>
      /\ open => \A q \in rows : q < r
  BY DEF RecordComes
<1>2. \A n : (PageIsSafe(n)' <=> PageIsSafe(n)) /\ PageOf(n, snapshot)' = PageOf(n, snapshot)
  BY <1>1 DEF PageIsSafe, PageOf, Place
<1>3. open => GrowsAtItsEnd'
  BY <1>1 DEF WindowInv, GrowsAtItsEnd
<1>4. Pages(snapshot)' = Pages(snapshot)
  BY <1>1 DEF Pages, Total
<1> QED
  BY <1>1, <1>2, <1>3, <1>4 DEF WindowInv, Read

\* The pages of a date hold together while they are read side by side.
THEOREM WindowInvariance == WindowSpec => []WindowInv
<1>1. WindowInv /\ [WindowNext]_wvars => WindowInv'
  <2> SUFFICES ASSUME WindowInv, [WindowNext]_wvars PROVE WindowInv'
    OBVIOUS
  <2>1. CASE ReadFirstPage
    BY <2>1, ReadFirstPageStep
  <2>2. CASE \E p \in asked : Answer(p)
    BY <2>2, AnswerStep
  <2>3. CASE \E a \in answered : JoinPage(a)
    BY <2>3, JoinPageStep
  <2>4. CASE (\E a \in answered : JoinOfChanged(a)) \/ CheckFails
    BY <2>4, ChangedStep DEF JoinOfChanged, CheckFails
  <2>5. CASE CheckFirstPage \/ CheckLastPage
    BY <2>5, WindowFrame DEF CheckFirstPage, CheckLastPage, Site, Read
  <2>6. CASE WindowCutShort
    BY <2>6 DEF WindowCutShort, Site, WindowInv, Read, GrowsAtItsEnd
  <2>7. CASE \E r \in Records : RecordComes(r)
    BY <2>7, RecordComesStep
  <2>8. CASE UNCHANGED wvars
    BY <2>8, WindowFrame DEF wvars
  <2> QED
    BY <2>1, <2>2, <2>3, <2>4, <2>5, <2>6, <2>7, <2>8 DEF WindowNext
<1> QED
  BY <1>1, WindowInitOK, PTL DEF WindowSpec

\* A window that is completed has brought every record there was when its last attempt began.
THEOREM TheWindowIsComplete == WindowSpec => []WindowIsComplete
<1>1. WindowInv => WindowIsComplete
  <2> SUFFICES ASSUME WindowInv, phase = "completed", NEW r \in snapshot PROVE r \in stored
    BY DEF WindowIsComplete
  <2>1. snapshot \in SUBSET Records /\ Pages(snapshot) \in Nat /\ next \in Nat
    BY WindowIsFinite DEF WindowInv
  <2>2. PICK n \in 1..Pages(snapshot) : r \in PageOf(n, snapshot)
    BY <2>1, PagesCover
  <2>3. /\ asked = {} /\ answered = {} /\ next > Pages(snapshot)
        /\ PageOf(1, snapshot) \subseteq stored /\ \A p \in 2..(next - 1) : PageIsSafe(p)
    BY DEF WindowInv, Read
  <2>4. n = 1 \/ n \in 2..(next - 1)
    BY <2>1, <2>3
  <2> QED
    BY <2>2, <2>3, <2>4 DEF PageIsSafe
<1> QED
  BY <1>1, WindowInvariance, PTL

=============================================================================
