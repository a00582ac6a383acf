------------------------------ MODULE SyncTasks ------------------------------
(***************************************************************************)
(* The synchronisation tasks of one account                                *)
(* (src-tauri/src/application/data_center_service.rs and context.rs).      *)
(*                                                                         *)
(* A caller of sync_account_data joins the run of its scope if one is under*)
(* way, and starts one otherwise; Full and Usage runs stay in the task map *)
(* after they end, until the next run replaces them.  The scheduler comes  *)
(* with the account's usage gate in hand; Full and Usage runs need it.     *)
(* Every section between two awaits is one action; what a run synchronises *)
(* is abstracted to the phases in which it needs, holds and has released   *)
(* the gate.  The release build aborts on panic, so a run always ends.     *)
(***************************************************************************)
EXTENDS Naturals, FiniteSets

CONSTANTS Callers, Scopes,
          Retained,   \* scopes whose last run stays in the map: Full and Usage
          Gated,      \* scopes that synchronise usage: Full and Usage
          Scheduled,  \* the scope the scheduler synchronises: Usage
          Together,   \* bound: the sets of scopes that one behaviour asks for
          Runs,       \* identities of task handles, reused when nobody refers to one
          Background, \* whoever else takes the usage gate: history, start-up scan
          None

ASSUME ScopesType == Retained \subseteq Scopes /\ Gated \subseteq Scopes /\ Scheduled \in Gated
ASSUME TogetherType == Together \subseteq SUBSET Scopes
ASSUME Identities ==
  /\ None \notin Runs \cup Callers /\ Background \notin Runs \cup Callers \cup {None}
  /\ Callers \cap Runs = {}

VARIABLES tasks,   \* the map: scope -> task handle
          run,     \* the task handles and the spawned tasks behind them
          caller,  \* the calls of sync_account_data_with_usage_gate
          gate,    \* holder of the account's usage gate
          ended    \* history: the task in the map that was over when a call began

vars == <<tasks, run, caller, gate, ended>>

Optional(S) == S \cup {None}

\* "starting" waits for the gate, "syncing" holds it, "settling" is past it;
\* "completed" has its result, "notified" has woken its waiters, "over" is done.
RunPhase == {"starting", "syncing", "settling", "completed", "notified", "over"}

Run == [phase : RunPhase, scope : Optional(Scopes), waiters : SUBSET Callers]

\* "looking", "inspecting", "replacing" and "creating" are the rounds of the loop
\* that finds a task; "checking", "listening" and "waiting" those of
\* wait_for_sync_task.
CallerPhase == {"idle", "looking", "inspecting", "replacing", "creating",
                "checking", "listening", "waiting", "answered"}

Caller == [phase : CallerPhase, scope : Optional(Scopes), run : Optional(Runs), owner : BOOLEAN]

TypeOK ==
  /\ tasks \in [Scopes -> Optional(Runs)]
  /\ run \in [Runs -> Run]
  /\ caller \in [Callers -> Caller]
  /\ gate \in Optional(Callers \cup Runs \cup {Background})
  /\ ended \in [Callers -> SUBSET Runs]
  /\ \A h \in Runs : run[h].phase # "over" => run[h].scope \in Scopes
  /\ \A c \in Callers :
       /\ caller[c].phase # "idle" => caller[c].scope \in Scopes
       /\ caller[c].phase \notin {"idle", "looking", "creating"} => caller[c].run \in Runs

OverRun == [phase |-> "over", scope |-> None, waiters |-> {}]

IdleCaller == [phase |-> "idle", scope |-> None, run |-> None, owner |-> FALSE]

Init ==
  /\ tasks = [s \in Scopes |-> None]
  /\ run = [h \in Runs |-> OverRun]
  /\ caller = [c \in Callers |-> IdleCaller]
  /\ gate = None
  /\ ended = [c \in Callers |-> {}]

-----------------------------------------------------------------------------

Completed(h) == run[h].phase \in {"completed", "notified", "over"}

Running(h) == ~Completed(h)

\* The caller drops whatever it holds of the gate.
GateWithout(c) == IF gate = c THEN None ELSE gate

Begin(c, s) ==
  /\ caller[c].phase = "idle"
  /\ caller' = [caller EXCEPT ![c] = [IdleCaller EXCEPT !.phase = "looking", !.scope = s]]
  /\ ended' = [ended EXCEPT ![c] = {h \in Runs : h = tasks[s] /\ Completed(h)}]
  /\ UNCHANGED <<tasks, run>>

\* sync_account_data, from the user, the HTTP adapter or a re-login.
Call(c, s) == Begin(c, s) /\ UNCHANGED gate

\* sync_scheduled_account_data: gives up at once if the gate is busy.
CallScheduled(c) ==
  /\ gate = None
  /\ gate' = c
  /\ Begin(c, Scheduled)

Look(c) ==
  /\ caller[c].phase = "looking"
  /\ LET existing == tasks[caller[c].scope] IN
     caller' = [caller EXCEPT ![c].phase = IF existing = None THEN "creating" ELSE "inspecting",
                              ![c].run = existing]
  /\ UNCHANGED <<tasks, run, gate, ended>>

\* Mutants: a joiner that keeps the gate, one that joins a finished task, and one that
\* believes it owns the notifications.
JoinWithGate(c) ==
  /\ caller[c].phase = "inspecting" /\ Running(caller[c].run)
  /\ caller' = [caller EXCEPT ![c].phase = "checking"]
  /\ UNCHANGED <<tasks, run, gate, ended>>

JoinAnything(c) ==
  /\ caller[c].phase = "inspecting"
  /\ caller' = [caller EXCEPT ![c].phase = "checking"]
  /\ gate' = GateWithout(c)
  /\ UNCHANGED <<tasks, run, ended>>

\* A task under way is joined, and whoever joins it lets go of the gate.
Join(c) ==
  /\ caller[c].phase = "inspecting" /\ Running(caller[c].run)
  /\ caller' = [caller EXCEPT ![c].phase = "checking"]
  /\ gate' = GateWithout(c)
  /\ UNCHANGED <<tasks, run, ended>>

\* Mutant: a caller that removes the finished task before it starts the next.
FindsTerminalAndRemoves(c) ==
  /\ caller[c].phase = "inspecting" /\ Completed(caller[c].run)
  /\ tasks' = [tasks EXCEPT ![caller[c].scope] = None]
  /\ caller' = [caller EXCEPT ![c].phase = "creating", ![c].run = None]
  /\ UNCHANGED <<run, gate, ended>>

\* A finished task is not joined.
FindsTerminal(c) ==
  /\ caller[c].phase = "inspecting" /\ Completed(caller[c].run)
  /\ caller' = [caller EXCEPT ![c].phase = "replacing"]
  /\ UNCHANGED <<tasks, run, gate, ended>>

\* A handle nobody refers to any more.
Free(h) ==
  /\ run[h].phase = "over"
  /\ \A s \in Scopes : tasks[s] # h
  /\ \A c \in Callers : caller[c].run # h

\* The handle is inserted and its task spawned, with the gate if the caller has it.
Start(c, h) ==
  LET s == caller[c].scope IN
  /\ Free(h)
  /\ tasks' = [tasks EXCEPT ![s] = h]
  /\ run' = [run EXCEPT ![h] =
       [phase |-> IF s \notin Gated THEN "settling" ELSE IF gate = c THEN "syncing" ELSE "starting",
        scope |-> s, waiters |-> {}]]
  /\ caller' = [caller EXCEPT ![c].phase = "checking", ![c].run = h, ![c].owner = TRUE]
  /\ gate' = IF gate = c THEN h ELSE gate
  /\ ended' = [d \in Callers |-> ended[d] \ {h}]

LooksAgain(c) ==
  /\ caller' = [caller EXCEPT ![c].phase = "looking", ![c].run = None]
  /\ UNCHANGED <<tasks, run, gate, ended>>

\* A terminal task is replaced if it is still the one in the map.
Replace(c) ==
  /\ caller[c].phase = "replacing"
  /\ IF tasks[caller[c].scope] = caller[c].run
     THEN \E h \in Runs : Start(c, h)
     ELSE LooksAgain(c)

Create(c) ==
  /\ caller[c].phase = "creating"
  /\ IF tasks[caller[c].scope] = None
     THEN \E h \in Runs : Start(c, h)
     ELSE LooksAgain(c)

\* wait_for_sync_task: the state is read under its lock, and the notification is
\* only asked for after the lock is released.
Check(c) ==
  /\ caller[c].phase = "checking"
  /\ caller' = [caller EXCEPT ![c].phase =
       IF Completed(caller[c].run) THEN "answered" ELSE "listening"]
  /\ UNCHANGED <<tasks, run, gate, ended>>

Listen(c) ==
  /\ caller[c].phase = "listening"
  /\ caller' = [caller EXCEPT ![c].phase = "waiting"]
  /\ run' = [run EXCEPT ![caller[c].run].waiters = @ \cup {c}]
  /\ UNCHANGED <<tasks, gate, ended>>

Return(c) ==
  /\ caller[c].phase = "answered"
  /\ caller' = [caller EXCEPT ![c] = IdleCaller]
  /\ ended' = [ended EXCEPT ![c] = {}]
  /\ UNCHANGED <<tasks, run, gate>>

\* The caller's future is dropped at an await.  The run it started goes on.
Cancel(c) ==
  /\ caller[c].phase \notin {"idle", "listening", "answered"}
  /\ caller' = [caller EXCEPT ![c] = IdleCaller]
  /\ run' = [h \in Runs |-> [run[h] EXCEPT !.waiters = @ \ {c}]]
  /\ gate' = GateWithout(c)
  /\ ended' = [ended EXCEPT ![c] = {}]
  /\ UNCHANGED tasks

-----------------------------------------------------------------------------
(* The spawned run                                                          *)

AcquireGate(h) ==
  /\ run[h].phase = "starting" /\ gate = None
  /\ gate' = h
  /\ run' = [run EXCEPT ![h].phase = "syncing"]
  /\ UNCHANGED <<tasks, caller, ended>>

LeaveUsage(h) ==
  /\ run' = [run EXCEPT ![h].phase = "settling"]
  /\ gate' = IF gate = h THEN None ELSE gate
  /\ UNCHANGED <<tasks, caller, ended>>

\* The usage part of the run ends, well or badly ...
EndUsage(h) == run[h].phase = "syncing" /\ LeaveUsage(h)

\* ... or another part of a Full run fails, and it is dropped.
DropUsage(h) ==
  /\ run[h].phase \in {"starting", "syncing"} /\ run[h].scope # Scheduled
  /\ LeaveUsage(h)

Complete(h) ==
  /\ run[h].phase = "settling"
  /\ run' = [run EXCEPT ![h].phase = "completed"]
  /\ UNCHANGED <<tasks, caller, gate, ended>>

\* notify_waiters wakes those who listen already, and no one else.
Notify(h) ==
  /\ run[h].phase = "completed"
  /\ run' = [run EXCEPT ![h] =
       IF run[h].scope \in Retained THEN OverRun ELSE [@ EXCEPT !.phase = "notified", !.waiters = {}]]
  /\ caller' = [c \in Callers |->
       IF c \in run[h].waiters THEN [caller[c] EXCEPT !.phase = "checking"] ELSE caller[c]]
  /\ UNCHANGED <<tasks, gate, ended>>

\* Mutant: the task leaves the map, and takes whoever replaced it along.
RemoveAnything(h) ==
  /\ run[h].phase = "notified"
  /\ tasks' = [tasks EXCEPT ![run[h].scope] = None]
  /\ run' = [run EXCEPT ![h] = OverRun]
  /\ UNCHANGED <<caller, gate, ended>>

\* The task leaves the map, unless another has taken its place.
Remove(h) ==
  /\ run[h].phase = "notified"
  /\ tasks' = [tasks EXCEPT ![run[h].scope] = IF @ = h THEN None ELSE @]
  /\ run' = [run EXCEPT ![h] = OverRun]
  /\ UNCHANGED <<caller, gate, ended>>

BackgroundTakes ==
  /\ gate = None
  /\ gate' = Background
  /\ UNCHANGED <<tasks, run, caller, ended>>

BackgroundReleases ==
  /\ gate = Background
  /\ gate' = None
  /\ UNCHANGED <<tasks, run, caller, ended>>

-----------------------------------------------------------------------------

CallerStep(c) ==
  Look(c) \/ Join(c) \/ FindsTerminal(c) \/ Replace(c) \/ Create(c) \/ Check(c) \/ Listen(c)

RunStep(h) == EndUsage(h) \/ Complete(h) \/ Notify(h) \/ Remove(h)

\* The bound: with what is in the map or asked for already, the scope is one of a set.
MayAsk(s) ==
  LET asked == {t \in Scopes : tasks[t] # None} \cup {caller[c].scope : c \in Callers}
  IN \E scopes \in Together : {s} \cup (asked \ {None}) \subseteq scopes

Next ==
  \/ \E c \in Callers :
       \/ CallerStep(c) \/ Return(c) \/ Cancel(c)
       \/ MayAsk(Scheduled) /\ CallScheduled(c)
       \/ \E s \in Scopes : MayAsk(s) /\ Call(c, s)
  \/ \E h \in Runs : RunStep(h) \/ AcquireGate(h) \/ DropUsage(h)
  \/ BackgroundTakes \/ BackgroundReleases

Spec == Init /\ [][Next]_vars

\* Tasks are polled, HTTP bounds the time a run takes, and tokio's Mutex hands the
\* gate to its waiters in turn.
Fairness ==
  /\ \A c \in Callers : WF_vars(CallerStep(c))
  /\ \A h \in Runs : WF_vars(RunStep(h)) /\ SF_vars(AcquireGate(h))
  /\ WF_vars(BackgroundReleases)

FairSpec == Spec /\ Fairness

-----------------------------------------------------------------------------
(* Properties                                                               *)

\* One account never synchronises the same scope twice at the same time, although
\* finding no task, or a finished one, and inserting a new one are separate steps.
SingleRun ==
  \A g, h \in Runs : Running(g) /\ Running(h) /\ run[g].scope = run[h].scope => g = h

\* A run under way is the one in the map: no later caller can miss it.
RunningIsJoinable == \A h \in Runs : Running(h) => tasks[run[h].scope] = h

\* Usage is synchronised by whoever holds the gate: a caller that joins a run has let
\* go of it, a finished run has too, and of the callers only the scheduler has it.
GateHoldersWork ==
  /\ \A h \in Runs : (gate = h) <=> (run[h].phase = "syncing")
  /\ \A c \in Callers : gate = c =>
       /\ caller[c].phase \in {"looking", "inspecting", "replacing", "creating"}
       /\ caller[c].scope = Scheduled

\* A caller is never answered with the result of a run that was over before it
\* called, although the last Full and Usage runs stay in the map.
AnswersAreFresh ==
  \A c \in Callers : caller[c].phase = "answered" =>
    Completed(caller[c].run) /\ caller[c].run \notin ended[c]

\* At most one caller of a run owns its notifications.
OneOwner ==
  \A c, d \in Callers :
    caller[c].owner /\ caller[d].owner /\ caller[c].run = caller[d].run => c = d

\* What keeps these true from step to step: a task found finished cannot start again
\* while a caller refers to it, a task that was over when a call began stays over and is
\* not the one the call waits for, whom a task will wake does wait for it, and only a
\* caller that waits owns notifications.
ReplacesFinished == \A c \in Callers : caller[c].phase = "replacing" => Completed(caller[c].run)

Served == {"checking", "listening", "waiting", "answered"}

EndedStaysEnded ==
  \A c \in Callers :
    /\ \A h \in ended[c] : Completed(h)
    /\ caller[c].phase \in Served => caller[c].run \notin ended[c]
    /\ caller[c].phase = "answered" => Completed(caller[c].run)

WaitersListen ==
  \A h \in Runs : \A c \in run[h].waiters : caller[c].phase = "waiting" /\ caller[c].run = h

OwnersWait == \A c \in Callers : caller[c].owner => caller[c].phase \in Served

IndInv ==
  /\ TypeOK
  /\ RunningIsJoinable
  /\ GateHoldersWork
  /\ ReplacesFinished
  /\ EndedStaysEnded
  /\ WaitersListen
  /\ OwnersWait
  /\ OneOwner

\* The last Full or Usage run stays visible until the next one takes its place: the
\* map never has a moment without it.
RetainedStaysVisible ==
  [][\A s \in Retained : tasks[s] # None => tasks'[s] # None]_tasks

\* Every run completes: no run waits forever for a gate that a caller holds which
\* itself waits for the run.
EveryRunCompletes == \A h \in Runs : Running(h) ~> Completed(h)

\* Every caller that joined or started a run gets its result.  The tests of
\* data_center_service.rs await both callers of a run.
EveryJoinerReturns ==
  \A c \in Callers :
    caller[c].phase \in {"checking", "listening", "waiting"}
      ~> caller[c].phase \notin {"checking", "listening", "waiting"}

=============================================================================
