--------------------------- MODULE SyncTasksProofs ---------------------------
(***************************************************************************)
(* Proofs about SyncTasks, for any callers, scopes and task handles: its   *)
(* inductive invariant, and the safety properties that follow from it.     *)
(***************************************************************************)
EXTENDS SyncTasks, TLAPS

USE DEF Optional, Running, Completed

-----------------------------------------------------------------------------
(* The records                                                              *)

LEMMA RecordsLemma ==
  /\ IdleCaller \in Caller /\ IdleCaller.phase = "idle" /\ ~IdleCaller.owner
  /\ IdleCaller.run = None /\ IdleCaller.scope = None
  /\ OverRun \in Run /\ OverRun.phase = "over" /\ OverRun.waiters = {}
  BY DEF IdleCaller, Caller, CallerPhase, OverRun, Run, RunPhase

LEMMA RunMoves ==
  ASSUME NEW r \in Run, NEW phase \in RunPhase, NEW W \in SUBSET Callers
  PROVE  [r EXCEPT !.phase = phase, !.waiters = W] \in Run
  BY DEF Run

LEMMA CallerMoves ==
  ASSUME NEW r \in Caller, NEW phase \in CallerPhase, NEW h \in Optional(Runs)
  PROVE  /\ [r EXCEPT !.phase = phase] \in Caller
         /\ [r EXCEPT !.phase = phase, !.run = h] \in Caller
  BY DEF Caller

-----------------------------------------------------------------------------

\* A caller that found no running task starts one: the handle is nobody else's.
LEMMA StartKeeps ==
  ASSUME IndInv, NEW c \in Callers, NEW h \in Runs, Start(c, h),
         caller[c].phase \in {"replacing", "creating"},
         tasks[caller[c].scope] = None \/ Completed(tasks[caller[c].scope])
  PROVE  IndInv'
  <1> DEFINE s == caller[c].scope
  <1>0. TypeOK
    BY DEF IndInv
  <1>1. s \in Scopes /\ run[h].phase = "over"
    BY <1>0 DEF Start, Free, TypeOK
  <1>2. /\ tasks' = [tasks EXCEPT ![s] = h]
        /\ tasks \in [Scopes -> Optional(Runs)]
    BY <1>0 DEF Start, TypeOK
  <1>3. /\ run' \in [Runs -> Run]
        /\ \A g \in Runs \ {h} : run'[g] = run[g]
        /\ run'[h].scope = s /\ run'[h].waiters = {}
        /\ run'[h].phase \in {"settling", "syncing", "starting"}
        /\ (run'[h].phase = "syncing") <=> (s \in Gated /\ gate = c)
    BY <1>0, <1>1 DEF Start, TypeOK, Run, RunPhase
  <1>4. /\ caller' \in [Callers -> Caller]
        /\ \A d \in Callers \ {c} : caller'[d] = caller[d]
        /\ caller'[c].phase = "checking" /\ caller'[c].run = h
        /\ caller'[c].owner /\ caller'[c].scope = s
    BY <1>0, <1>1 DEF Start, TypeOK, Caller, CallerPhase
  <1>5. gate' = IF gate = c THEN h ELSE gate
    BY DEF Start
  <1>6. ended' = [d \in Callers |-> ended[d] \ {h}]
    BY DEF Start
  <1>7. \A d \in Callers : caller[d].run # h
    BY DEF Start, Free
  <1>8. \A t \in Scopes : tasks[t] # h
    BY DEF Start, Free
  <1>9. tasks[s] = None \/ Completed(tasks[s])
    OBVIOUS
  <1>10. caller[c].phase \notin Served
    BY DEF Served
  <1>11. TypeOK'
    BY <1>0, <1>1, <1>2, <1>3, <1>4, <1>5, <1>6 DEF TypeOK
  <1>12. RunningIsJoinable'
    <2> SUFFICES ASSUME NEW g \in Runs, ~(run'[g].phase \in {"completed", "notified", "over"})
                 PROVE  tasks'[run'[g].scope] = g
      BY DEF RunningIsJoinable
    <2>1. CASE g = h
      BY <2>1, <1>1, <1>2, <1>3
    <2>2. CASE g # h
      <3>1. run[g] = run'[g] /\ tasks[run[g].scope] = g /\ run[g].scope \in Scopes
        BY <2>2, <1>0, <1>3 DEF IndInv, RunningIsJoinable, TypeOK
      <3>2. run[g].scope # s
        BY <3>1, <1>9, Identities
      <3> QED BY <3>1, <3>2, <1>2
    <2> QED BY <2>1, <2>2
  <1>13. GateHoldersWork'
    <2>1. gate = c => s \in Gated
      BY ScopesType DEF IndInv, GateHoldersWork
    <2>2. gate # h
      BY <1>1 DEF IndInv, GateHoldersWork
    <2>3. \A g \in Runs : (gate' = g) <=> (run'[g].phase = "syncing")
      BY <2>1, <2>2, <1>3, <1>5, Identities DEF IndInv, GateHoldersWork
    <2>4. \A d \in Callers : gate' = d => d # c /\ gate = d
      BY <1>5, Identities
    <2> QED BY <2>3, <2>4, <1>4 DEF IndInv, GateHoldersWork
  <1>14. ReplacesFinished'
    BY <1>3, <1>4, <1>7, <1>0 DEF IndInv, ReplacesFinished, TypeOK
  <1>15. EndedStaysEnded'
    <2>1. \A d \in Callers : h \notin ended'[d] /\ ended'[d] \subseteq ended[d] /\ ended[d] \subseteq Runs
      BY <1>0, <1>6 DEF TypeOK
    <2>2. \A d \in Callers : \A g \in ended'[d] : Completed(g)'
      BY <2>1, <1>3 DEF IndInv, EndedStaysEnded
    <2>3. \A d \in Callers \ {c} :
            caller[d].phase = "answered" => Completed(caller[d].run)'
      BY <1>3, <1>4, <1>7, <1>0 DEF IndInv, EndedStaysEnded, TypeOK
    <2> QED BY <2>1, <2>2, <2>3, <1>4 DEF IndInv, EndedStaysEnded, Served
  <1>16. WaitersListen'
    BY <1>0, <1>3, <1>4, <1>10 DEF IndInv, WaitersListen, Served, TypeOK, Run
  <1>17. OwnersWait'
    BY <1>4 DEF IndInv, OwnersWait, Served
  <1>18. OneOwner'
    BY <1>4, <1>7 DEF IndInv, OneOwner
  <1> QED
    BY <1>11, <1>12, <1>13, <1>14, <1>15, <1>16, <1>17, <1>18 DEF IndInv

LEMMA LooksAgainKeeps ==
  ASSUME IndInv, NEW c \in Callers, LooksAgain(c), caller[c].phase \in {"replacing", "creating"}
  PROVE  IndInv'
  <1>1. TypeOK'
    <2>1. caller[c] \in Caller /\ caller[c].scope \in Scopes
      BY DEF IndInv, TypeOK
    <2>2. [caller[c] EXCEPT !.phase = "looking", !.run = None] \in Caller
      BY <2>1 DEF Caller, CallerPhase
    <2>3. /\ caller' \in [Callers -> Caller]
          /\ \A d \in Callers \ {c} : caller'[d] = caller[d]
          /\ caller'[c].phase = "looking" /\ caller'[c].scope = caller[c].scope
      BY <2>1, <2>2 DEF IndInv, LooksAgain, TypeOK, Caller
    <2> QED BY <2>1, <2>3 DEF IndInv, LooksAgain, TypeOK
  <1>2. RunningIsJoinable'
    BY Identities DEF IndInv, LooksAgain, TypeOK, Caller, CallerPhase, Run, RunningIsJoinable
  <1>3. GateHoldersWork'
    BY Identities DEF IndInv, LooksAgain, TypeOK, Caller, CallerPhase, Run, GateHoldersWork
  <1>4. ReplacesFinished'
    BY Identities DEF IndInv, LooksAgain, TypeOK, Caller, CallerPhase, Run, ReplacesFinished
  <1>5. EndedStaysEnded'
    BY Identities DEF IndInv, LooksAgain, TypeOK, Caller, CallerPhase, Run, EndedStaysEnded, Served
  <1>6. WaitersListen'
    BY Identities DEF IndInv, LooksAgain, TypeOK, Caller, CallerPhase, Run, WaitersListen
  <1>7. OwnersWait'
    BY Identities DEF IndInv, LooksAgain, TypeOK, Caller, CallerPhase, Run, OwnersWait, Served
  <1>8. OneOwner'
    BY Identities
       DEF IndInv, LooksAgain, TypeOK, Caller, CallerPhase, Run, OneOwner, OwnersWait, Served
  <1> QED
    BY <1>1, <1>2, <1>3, <1>4, <1>5, <1>6, <1>7, <1>8 DEF IndInv

LEMMA ReplaceKeeps ==
  ASSUME IndInv, NEW c \in Callers, Replace(c)
  PROVE  IndInv'
  <1>1. caller[c].phase \in {"replacing", "creating"}
    BY DEF Replace
  <1>2. CASE tasks[caller[c].scope] = caller[c].run
    <2>1. Completed(tasks[caller[c].scope])
      BY <1>2 DEF IndInv, ReplacesFinished, Replace
    <2>2. PICK h \in Runs : Start(c, h)
      BY <1>2 DEF Replace
    <2> QED BY <1>1, <2>1, <2>2, StartKeeps
  <1>3. CASE tasks[caller[c].scope] # caller[c].run
    BY <1>1, <1>3, LooksAgainKeeps DEF Replace
  <1> QED BY <1>2, <1>3

LEMMA CreateKeeps ==
  ASSUME IndInv, NEW c \in Callers, Create(c)
  PROVE  IndInv'
  <1>1. caller[c].phase \in {"replacing", "creating"}
    BY DEF Create
  <1>2. CASE tasks[caller[c].scope] = None
    <2>1. PICK h \in Runs : Start(c, h)
      BY <1>2 DEF Create
    <2> QED BY <1>1, <1>2, <2>1, StartKeeps
  <1>3. CASE tasks[caller[c].scope] # None
    BY <1>1, <1>3, LooksAgainKeeps DEF Create
  <1> QED BY <1>2, <1>3

LEMMA CallKeeps ==
  ASSUME IndInv, NEW c \in Callers, NEW s \in Scopes, Call(c, s)
  PROVE  IndInv'
  <1>1. TypeOK'
    BY RecordsLemma
       DEF IndInv, Call, Begin, TypeOK, Caller, CallerPhase, Run, RunPhase
  <1>2. RunningIsJoinable'
    BY DEF IndInv, Call, Begin, TypeOK, Caller, Run, RunningIsJoinable, ReplacesFinished
  <1>3. GateHoldersWork'
    BY DEF IndInv, Call, Begin, TypeOK, Caller, Run, GateHoldersWork
  <1>4. ReplacesFinished'
    BY DEF IndInv, Call, Begin, TypeOK, Caller, Run, ReplacesFinished
  <1>5. EndedStaysEnded'
    BY DEF IndInv, Call, Begin, TypeOK, Caller, Run, EndedStaysEnded, Served, ReplacesFinished
  <1>6. WaitersListen'
    BY DEF IndInv, Call, Begin, TypeOK, Caller, Run, WaitersListen
  <1>7. OwnersWait'
    BY RecordsLemma
       DEF IndInv, Call, Begin, TypeOK, Caller, Run, OwnersWait, Served
  <1>8. OneOwner'
    BY RecordsLemma
       DEF IndInv, Call, Begin, TypeOK, Caller, Run, OneOwner, OwnersWait, Served
  <1> QED
    BY <1>1, <1>2, <1>3, <1>4, <1>5, <1>6, <1>7, <1>8 DEF IndInv

LEMMA CallScheduledKeeps ==
  ASSUME IndInv, NEW c \in Callers, CallScheduled(c)
  PROVE  IndInv'
  <1>1. TypeOK'
    BY RecordsLemma, ScopesType
       DEF IndInv, CallScheduled, Begin, TypeOK, Caller, CallerPhase, Run, RunPhase
  <1>2. RunningIsJoinable'
    BY DEF IndInv, CallScheduled, Begin, TypeOK, Caller, Run, RunningIsJoinable, ReplacesFinished
  <1>3. GateHoldersWork'
    BY Identities
       DEF IndInv, CallScheduled, Begin, TypeOK, Caller, Run, GateHoldersWork
  <1>4. ReplacesFinished'
    BY DEF IndInv, CallScheduled, Begin, TypeOK, Caller, Run, ReplacesFinished
  <1>5. EndedStaysEnded'
    BY DEF IndInv, CallScheduled, Begin, TypeOK, Caller, Run, EndedStaysEnded, Served,
       ReplacesFinished
  <1>6. WaitersListen'
    BY DEF IndInv, CallScheduled, Begin, TypeOK, Caller, Run, WaitersListen
  <1>7. OwnersWait'
    BY RecordsLemma
       DEF IndInv, CallScheduled, Begin, TypeOK, Caller, Run, OwnersWait, Served
  <1>8. OneOwner'
    BY RecordsLemma
       DEF IndInv, CallScheduled, Begin, TypeOK, Caller, Run, OneOwner, OwnersWait, Served
  <1> QED
    BY <1>1, <1>2, <1>3, <1>4, <1>5, <1>6, <1>7, <1>8 DEF IndInv

LEMMA LookKeeps ==
  ASSUME IndInv, NEW c \in Callers, Look(c)
  PROVE  IndInv'
  <1> DEFINE existing == tasks[caller[c].scope]
             phase == IF existing = None THEN "creating" ELSE "inspecting"
  <1>a. /\ caller[c] \in Caller /\ caller[c].scope \in Scopes
        /\ existing \in Optional(Runs) /\ phase \in CallerPhase
    BY DEF IndInv, TypeOK, Look, CallerPhase
  <1>b. /\ caller' = [caller EXCEPT ![c] = [@ EXCEPT !.phase = phase, !.run = existing]]
        /\ UNCHANGED <<tasks, run, gate, ended>>
    BY DEF Look
  <1>c. /\ caller' \in [Callers -> Caller]
        /\ \A d \in Callers \ {c} : caller'[d] = caller[d]
        /\ caller'[c].phase = phase /\ caller'[c].run = existing
        /\ caller'[c].scope = caller[c].scope /\ caller'[c].owner = caller[c].owner
    <2> DEFINE new == [caller[c] EXCEPT !.phase = phase, !.run = existing]
    <2>1. /\ new \in Caller /\ new.phase = phase /\ new.run = existing
          /\ new.scope = caller[c].scope /\ new.owner = caller[c].owner
      BY <1>a, CallerMoves DEF Caller
    <2>2. caller' = [caller EXCEPT ![c] = new]
      BY <1>b
    <2> HIDE DEF new
    <2> QED BY <2>1, <2>2 DEF IndInv, TypeOK
  <1>d. caller[c].phase = "looking" /\ phase \in {"creating", "inspecting"} /\ phase \notin Served
    BY DEF Look, Served
  <1>e. phase # "creating" => existing \in Runs
    BY <1>a
  <1> HIDE DEF phase, existing
  <1>1. TypeOK'
    BY <1>b, <1>c, <1>d, <1>e, <1>a DEF IndInv, TypeOK
  <1>2. RunningIsJoinable'
    BY <1>b DEF IndInv, RunningIsJoinable
  <1>3. GateHoldersWork'
    BY <1>b, <1>c, <1>d DEF IndInv, GateHoldersWork
  <1>4. ReplacesFinished'
    BY <1>b, <1>c, <1>d DEF IndInv, ReplacesFinished
  <1>5. EndedStaysEnded'
    BY <1>b, <1>c, <1>d DEF IndInv, EndedStaysEnded, Served
  <1>6. WaitersListen'
    BY DEF IndInv, Look, TypeOK, Caller, Run, WaitersListen
  <1>7. OwnersWait'
    BY DEF IndInv, Look, TypeOK, Caller, Run, OwnersWait, Served
  <1>8. OneOwner'
    BY DEF IndInv, Look, TypeOK, Caller, Run, OneOwner, OwnersWait, Served
  <1> QED
    BY <1>1, <1>2, <1>3, <1>4, <1>5, <1>6, <1>7, <1>8 DEF IndInv

LEMMA JoinKeeps ==
  ASSUME IndInv, NEW c \in Callers, Join(c)
  PROVE  IndInv'
  <1>1. TypeOK'
    BY DEF IndInv, Join, GateWithout, TypeOK, Caller, CallerPhase, Run, RunPhase
  <1>2. RunningIsJoinable'
    BY RecordsLemma, ScopesType
       DEF IndInv, Join, GateWithout, TypeOK, Caller, Run, RunningIsJoinable, ReplacesFinished
  <1>3. GateHoldersWork'
    BY Identities
       DEF IndInv, Join, GateWithout, TypeOK, Caller, Run, GateHoldersWork
  <1>4. ReplacesFinished'
    BY DEF IndInv, Join, GateWithout, TypeOK, Caller, Run, ReplacesFinished
  <1>5. EndedStaysEnded'
    BY DEF IndInv, Join, GateWithout, TypeOK, Caller, Run, EndedStaysEnded, Served,
       ReplacesFinished
  <1>6. WaitersListen'
    BY DEF IndInv, Join, GateWithout, TypeOK, Caller, Run, WaitersListen
  <1>7. OwnersWait'
    BY DEF IndInv, Join, GateWithout, TypeOK, Caller, Run, OwnersWait, Served
  <1>8. OneOwner'
    BY DEF IndInv, Join, GateWithout, TypeOK, Caller, Run, OneOwner, OwnersWait, Served
  <1> QED
    BY <1>1, <1>2, <1>3, <1>4, <1>5, <1>6, <1>7, <1>8 DEF IndInv

LEMMA FindsTerminalKeeps ==
  ASSUME IndInv, NEW c \in Callers, FindsTerminal(c)
  PROVE  IndInv'
  <1>1. TypeOK'
    BY DEF IndInv, FindsTerminal, TypeOK, Caller, CallerPhase, Run, RunPhase
  <1>2. RunningIsJoinable'
    BY DEF IndInv, FindsTerminal, TypeOK, Caller, Run, RunningIsJoinable, ReplacesFinished
  <1>3. GateHoldersWork'
    BY DEF IndInv, FindsTerminal, TypeOK, Caller, Run, GateHoldersWork
  <1>4. ReplacesFinished'
    BY DEF IndInv, FindsTerminal, TypeOK, Caller, Run, ReplacesFinished
  <1>5. EndedStaysEnded'
    BY DEF IndInv, FindsTerminal, TypeOK, Caller, Run, EndedStaysEnded, Served, ReplacesFinished
  <1>6. WaitersListen'
    BY DEF IndInv, FindsTerminal, TypeOK, Caller, Run, WaitersListen
  <1>7. OwnersWait'
    BY DEF IndInv, FindsTerminal, TypeOK, Caller, Run, OwnersWait, Served
  <1>8. OneOwner'
    BY DEF IndInv, FindsTerminal, TypeOK, Caller, Run, OneOwner, OwnersWait, Served
  <1> QED
    BY <1>1, <1>2, <1>3, <1>4, <1>5, <1>6, <1>7, <1>8 DEF IndInv

LEMMA CheckKeeps ==
  ASSUME IndInv, NEW c \in Callers, Check(c)
  PROVE  IndInv'
  <1>1. TypeOK'
    BY DEF IndInv, Check, TypeOK, Caller, CallerPhase, Run, RunPhase
  <1>2. RunningIsJoinable'
    BY DEF IndInv, Check, TypeOK, Caller, Run, RunningIsJoinable, ReplacesFinished
  <1>3. GateHoldersWork'
    BY DEF IndInv, Check, TypeOK, Caller, Run, GateHoldersWork
  <1>4. ReplacesFinished'
    BY DEF IndInv, Check, TypeOK, Caller, Run, ReplacesFinished
  <1>5. EndedStaysEnded'
    BY DEF IndInv, Check, TypeOK, Caller, Run, EndedStaysEnded, Served, ReplacesFinished
  <1>6. WaitersListen'
    BY DEF IndInv, Check, TypeOK, Caller, Run, WaitersListen
  <1>7. OwnersWait'
    BY DEF IndInv, Check, TypeOK, Caller, Run, OwnersWait, Served
  <1>8. OneOwner'
    BY RecordsLemma, ScopesType
       DEF IndInv, Check, TypeOK, Caller, Run, OneOwner, OwnersWait, Served
  <1> QED
    BY <1>1, <1>2, <1>3, <1>4, <1>5, <1>6, <1>7, <1>8 DEF IndInv

LEMMA ListenKeeps ==
  ASSUME IndInv, NEW c \in Callers, Listen(c)
  PROVE  IndInv'
  <1>1. TypeOK'
    BY DEF IndInv, Listen, TypeOK, Caller, CallerPhase, Run, RunPhase
  <1>2. RunningIsJoinable'
    BY DEF IndInv, Listen, TypeOK, Caller, Run, RunningIsJoinable, ReplacesFinished
  <1>3. GateHoldersWork'
    BY RecordsLemma, ScopesType DEF IndInv, Listen, TypeOK, Caller, Run, GateHoldersWork
  <1>4. ReplacesFinished'
    BY DEF IndInv, Listen, TypeOK, Caller, Run, ReplacesFinished
  <1>5. EndedStaysEnded'
    BY DEF IndInv, Listen, TypeOK, Caller, Run, EndedStaysEnded, Served, ReplacesFinished
  <1>6. WaitersListen'
    BY DEF IndInv, Listen, TypeOK, Caller, Run, WaitersListen
  <1>7. OwnersWait'
    BY DEF IndInv, Listen, TypeOK, Caller, Run, OwnersWait, Served
  <1>8. OneOwner'
    BY DEF IndInv, Listen, TypeOK, Caller, Run, OneOwner, OwnersWait, Served
  <1> QED
    BY <1>1, <1>2, <1>3, <1>4, <1>5, <1>6, <1>7, <1>8 DEF IndInv

LEMMA ReturnKeeps ==
  ASSUME IndInv, NEW c \in Callers, Return(c)
  PROVE  IndInv'
  <1>1. TypeOK'
    BY RecordsLemma
       DEF IndInv, Return, TypeOK, Caller, CallerPhase, Run, RunPhase
  <1>2. RunningIsJoinable'
    BY DEF IndInv, Return, TypeOK, Caller, Run, RunningIsJoinable, ReplacesFinished
  <1>3. GateHoldersWork'
    BY DEF IndInv, Return, TypeOK, Caller, Run, GateHoldersWork
  <1>4. ReplacesFinished'
    BY RecordsLemma
       DEF IndInv, Return, TypeOK, Caller, Run, ReplacesFinished
  <1>5. EndedStaysEnded'
    BY RecordsLemma
       DEF IndInv, Return, TypeOK, Caller, Run, EndedStaysEnded, Served, ReplacesFinished
  <1>6. WaitersListen'
    BY DEF IndInv, Return, TypeOK, Caller, Run, WaitersListen
  <1>7. OwnersWait'
    BY RecordsLemma
       DEF IndInv, Return, TypeOK, Caller, Run, OwnersWait, Served
  <1>8. OneOwner'
    BY RecordsLemma
       DEF IndInv, Return, TypeOK, Caller, Run, OneOwner, OwnersWait, Served
  <1> QED
    BY <1>1, <1>2, <1>3, <1>4, <1>5, <1>6, <1>7, <1>8 DEF IndInv

LEMMA CancelKeeps ==
  ASSUME IndInv, NEW c \in Callers, Cancel(c)
  PROVE  IndInv'
  <1>1. TypeOK'
    <2>1. \A h \in Runs : [run[h] EXCEPT !.waiters = @ \ {c}] \in Run
      BY DEF IndInv, TypeOK, Run
    <2>2. /\ run' \in [Runs -> Run]
          /\ \A h \in Runs : run'[h].phase = run[h].phase /\ run'[h].scope = run[h].scope
      BY <2>1 DEF IndInv, Cancel, TypeOK, Run
    <2>3. /\ caller' \in [Callers -> Caller]
          /\ \A d \in Callers \ {c} : caller'[d] = caller[d]
          /\ caller'[c] = IdleCaller
      BY RecordsLemma DEF IndInv, Cancel, TypeOK
    <2>4. /\ gate' \in Optional(Callers \cup Runs \cup {Background})
          /\ ended' \in [Callers -> SUBSET Runs]
          /\ tasks' \in [Scopes -> Optional(Runs)]
      BY DEF IndInv, Cancel, TypeOK, GateWithout
    <2> QED BY <2>2, <2>3, <2>4, RecordsLemma DEF IndInv, TypeOK
  <1>2. RunningIsJoinable'
    BY DEF IndInv, Cancel, GateWithout, TypeOK, Caller, Run, RunningIsJoinable, ReplacesFinished,
       WaitersListen
  <1>3. GateHoldersWork'
    BY Identities
       DEF IndInv, Cancel, GateWithout, TypeOK, Caller, Run, GateHoldersWork, WaitersListen
  <1>4. ReplacesFinished'
    <2>1. \A d \in Callers \ {c} : caller'[d] = caller[d]
      BY DEF IndInv, Cancel, TypeOK
    <2>2. caller'[c].phase = "idle"
      BY RecordsLemma DEF IndInv, Cancel, TypeOK
    <2>3. \A h \in Runs : run'[h].phase = run[h].phase
      BY DEF IndInv, Cancel, TypeOK, Run
    <2>4. \A d \in Callers : caller[d].phase = "replacing" => caller[d].run \in Runs
      BY DEF IndInv, TypeOK
    <2> QED BY <2>1, <2>2, <2>3, <2>4 DEF IndInv, ReplacesFinished
  <1>5. EndedStaysEnded'
    BY RecordsLemma, Identities
       DEF IndInv, Cancel, GateWithout, TypeOK, Caller, Run, EndedStaysEnded, Served,
       ReplacesFinished, WaitersListen
  <1>6. WaitersListen'
    BY DEF IndInv, Cancel, GateWithout, TypeOK, Caller, Run, WaitersListen
  <1>7. OwnersWait'
    BY RecordsLemma
       DEF IndInv, Cancel, GateWithout, TypeOK, Caller, Run, OwnersWait, Served, WaitersListen
  <1>8. OneOwner'
    BY RecordsLemma
       DEF IndInv, Cancel, GateWithout, TypeOK, Caller, Run, OneOwner, OwnersWait, Served,
       WaitersListen
  <1> QED
    BY <1>1, <1>2, <1>3, <1>4, <1>5, <1>6, <1>7, <1>8 DEF IndInv

LEMMA AcquireGateKeeps ==
  ASSUME IndInv, NEW h \in Runs, AcquireGate(h)
  PROVE  IndInv'
  <1>1. TypeOK'
    BY DEF IndInv, AcquireGate, TypeOK, Caller, CallerPhase, Run, RunPhase
  <1>2. RunningIsJoinable'
    BY DEF IndInv, AcquireGate, TypeOK, Caller, Run, RunningIsJoinable, ReplacesFinished
  <1>3. GateHoldersWork'
    BY Identities
       DEF IndInv, AcquireGate, TypeOK, Caller, Run, GateHoldersWork
  <1>4. ReplacesFinished'
    BY DEF IndInv, AcquireGate, TypeOK, Caller, Run, ReplacesFinished
  <1>5. EndedStaysEnded'
    BY DEF IndInv, AcquireGate, TypeOK, Caller, Run, EndedStaysEnded, Served, ReplacesFinished
  <1>6. WaitersListen'
    BY DEF IndInv, AcquireGate, TypeOK, Caller, Run, WaitersListen
  <1>7. OwnersWait'
    BY DEF IndInv, AcquireGate, TypeOK, Caller, Run, OwnersWait, Served
  <1>8. OneOwner'
    BY DEF IndInv, AcquireGate, TypeOK, Caller, Run, OneOwner, OwnersWait, Served
  <1> QED
    BY <1>1, <1>2, <1>3, <1>4, <1>5, <1>6, <1>7, <1>8 DEF IndInv

LEMMA EndUsageKeeps ==
  ASSUME IndInv, NEW h \in Runs, EndUsage(h)
  PROVE  IndInv'
  <1>1. TypeOK'
    BY SMTT(30) DEF IndInv, EndUsage, LeaveUsage, TypeOK, Run, RunPhase
  <1>2. RunningIsJoinable'
    BY DEF IndInv, EndUsage, LeaveUsage, TypeOK, Caller, Run, RunningIsJoinable, ReplacesFinished
  <1>3. GateHoldersWork'
    BY Identities
       DEF IndInv, EndUsage, LeaveUsage, TypeOK, Caller, Run, GateHoldersWork
  <1>4. ReplacesFinished'
    BY DEF IndInv, EndUsage, LeaveUsage, TypeOK, Caller, Run, ReplacesFinished
  <1>5. EndedStaysEnded'
    BY DEF IndInv, EndUsage, LeaveUsage, TypeOK, Caller, Run, EndedStaysEnded, Served,
       ReplacesFinished
  <1>6. WaitersListen'
    BY DEF IndInv, EndUsage, LeaveUsage, TypeOK, Caller, Run, WaitersListen
  <1>7. OwnersWait'
    BY DEF IndInv, EndUsage, LeaveUsage, TypeOK, Caller, Run, OwnersWait, Served
  <1>8. OneOwner'
    BY DEF IndInv, EndUsage, LeaveUsage, TypeOK, Caller, Run, OneOwner, OwnersWait, Served
  <1> QED
    BY <1>1, <1>2, <1>3, <1>4, <1>5, <1>6, <1>7, <1>8 DEF IndInv

LEMMA DropUsageKeeps ==
  ASSUME IndInv, NEW h \in Runs, DropUsage(h)
  PROVE  IndInv'
  <1>1. TypeOK'
    BY Identities
       DEF IndInv, DropUsage, LeaveUsage, TypeOK, Caller, CallerPhase, Run, RunPhase
  <1>2. RunningIsJoinable'
    BY DEF IndInv, DropUsage, LeaveUsage, TypeOK, Caller, Run, RunningIsJoinable, ReplacesFinished
  <1>3. GateHoldersWork'
    BY Identities
       DEF IndInv, DropUsage, LeaveUsage, TypeOK, Caller, Run, GateHoldersWork
  <1>4. ReplacesFinished'
    BY DEF IndInv, DropUsage, LeaveUsage, TypeOK, Caller, Run, ReplacesFinished
  <1>5. EndedStaysEnded'
    BY DEF IndInv, DropUsage, LeaveUsage, TypeOK, Caller, Run, EndedStaysEnded, Served,
       ReplacesFinished
  <1>6. WaitersListen'
    BY DEF IndInv, DropUsage, LeaveUsage, TypeOK, Caller, Run, WaitersListen
  <1>7. OwnersWait'
    BY DEF IndInv, DropUsage, LeaveUsage, TypeOK, Caller, Run, OwnersWait, Served
  <1>8. OneOwner'
    BY DEF IndInv, DropUsage, LeaveUsage, TypeOK, Caller, Run, OneOwner, OwnersWait, Served
  <1> QED
    BY <1>1, <1>2, <1>3, <1>4, <1>5, <1>6, <1>7, <1>8 DEF IndInv

LEMMA CompleteKeeps ==
  ASSUME IndInv, NEW h \in Runs, Complete(h)
  PROVE  IndInv'
  <1>1. TypeOK'
    BY DEF IndInv, Complete, TypeOK, Caller, CallerPhase, Run, RunPhase
  <1>2. RunningIsJoinable'
    BY DEF IndInv, Complete, TypeOK, Caller, Run, RunningIsJoinable, ReplacesFinished
  <1>3. GateHoldersWork'
    BY DEF IndInv, Complete, TypeOK, Caller, Run, GateHoldersWork
  <1>4. ReplacesFinished'
    BY DEF IndInv, Complete, TypeOK, Caller, Run, ReplacesFinished
  <1>5. EndedStaysEnded'
    BY DEF IndInv, Complete, TypeOK, Caller, Run, EndedStaysEnded, Served, ReplacesFinished
  <1>6. WaitersListen'
    BY DEF IndInv, Complete, TypeOK, Caller, Run, WaitersListen
  <1>7. OwnersWait'
    BY DEF IndInv, Complete, TypeOK, Caller, Run, OwnersWait, Served
  <1>8. OneOwner'
    BY DEF IndInv, Complete, TypeOK, Caller, Run, OneOwner, OwnersWait, Served
  <1> QED
    BY <1>1, <1>2, <1>3, <1>4, <1>5, <1>6, <1>7, <1>8 DEF IndInv

LEMMA NotifyKeeps ==
  ASSUME IndInv, NEW h \in Runs, Notify(h)
  PROVE  IndInv'
  <1>1. TypeOK'
    <2>1. \A c \in Callers : [caller[c] EXCEPT !.phase = "checking"] \in Caller
      BY CallerMoves, "checking" \in CallerPhase DEF IndInv, TypeOK, CallerPhase
    <2>2. [run[h] EXCEPT !.phase = "notified", !.waiters = {}] \in Run
      BY RunMoves, "notified" \in RunPhase DEF IndInv, TypeOK, RunPhase
    <2>3. /\ run' \in [Runs -> Run]
          /\ \A g \in Runs \ {h} : run'[g] = run[g]
          /\ run'[h].phase # "over" => run'[h].scope = run[h].scope
      BY <2>2, RecordsLemma DEF IndInv, Notify, TypeOK, Run
    <2>4. /\ caller' \in [Callers -> Caller]
          /\ \A d \in Callers \ run[h].waiters : caller'[d] = caller[d]
          /\ \A d \in run[h].waiters \cap Callers :
               caller'[d].phase = "checking" /\ caller'[d].scope = caller[d].scope
               /\ caller'[d].run = caller[d].run
      BY <2>1 DEF IndInv, Notify, TypeOK, Caller
    <2>5. \A d \in run[h].waiters \cap Callers : caller[d].phase = "waiting"
      BY DEF IndInv, WaitersListen
    <2>6. run[h].phase = "completed" /\ UNCHANGED <<tasks, gate, ended>>
      BY DEF Notify
    <2>7. run[h].scope \in Scopes
      BY <2>6 DEF IndInv, TypeOK
    <2> QED BY <2>3, <2>4, <2>5, <2>6, <2>7 DEF IndInv, TypeOK
  <1>2. RunningIsJoinable'
    BY RecordsLemma
       DEF IndInv, Notify, TypeOK, Caller, Run, RunningIsJoinable, ReplacesFinished, WaitersListen
  <1>3. GateHoldersWork'
    BY RecordsLemma
       DEF IndInv, Notify, TypeOK, Caller, Run, GateHoldersWork, WaitersListen
  <1>4. ReplacesFinished'
    BY RecordsLemma
       DEF IndInv, Notify, TypeOK, Caller, Run, ReplacesFinished, WaitersListen
  <1>5. EndedStaysEnded'
    BY RecordsLemma
       DEF IndInv, Notify, TypeOK, Caller, Run, EndedStaysEnded, Served, ReplacesFinished,
       WaitersListen
  <1>6. WaitersListen'
    BY RecordsLemma
       DEF IndInv, Notify, TypeOK, Caller, Run, WaitersListen, WaitersListen
  <1>7. OwnersWait'
    BY DEF IndInv, Notify, TypeOK, Caller, Run, OwnersWait, Served, WaitersListen
  <1>8. OneOwner'
    BY DEF IndInv, Notify, TypeOK, Caller, Run, OneOwner, OwnersWait, Served, WaitersListen
  <1> QED
    BY <1>1, <1>2, <1>3, <1>4, <1>5, <1>6, <1>7, <1>8 DEF IndInv

LEMMA RemoveKeeps ==
  ASSUME IndInv, NEW h \in Runs, Remove(h)
  PROVE  IndInv'
  <1>1. TypeOK'
    BY RecordsLemma
       DEF IndInv, Remove, TypeOK, Caller, CallerPhase, Run, RunPhase
  <1>2. RunningIsJoinable'
    BY RecordsLemma
       DEF IndInv, Remove, TypeOK, Caller, Run, RunningIsJoinable, ReplacesFinished
  <1>3. GateHoldersWork'
    BY RecordsLemma DEF IndInv, Remove, TypeOK, Caller, Run, GateHoldersWork
  <1>4. ReplacesFinished'
    BY RecordsLemma
       DEF IndInv, Remove, TypeOK, Caller, Run, ReplacesFinished
  <1>5. EndedStaysEnded'
    BY RecordsLemma
       DEF IndInv, Remove, TypeOK, Caller, Run, EndedStaysEnded, Served, ReplacesFinished
  <1>6. WaitersListen'
    BY RecordsLemma DEF IndInv, Remove, TypeOK, Caller, Run, WaitersListen
  <1>7. OwnersWait'
    BY DEF IndInv, Remove, TypeOK, Caller, Run, OwnersWait, Served
  <1>8. OneOwner'
    BY DEF IndInv, Remove, TypeOK, Caller, Run, OneOwner, OwnersWait, Served
  <1> QED
    BY <1>1, <1>2, <1>3, <1>4, <1>5, <1>6, <1>7, <1>8 DEF IndInv

-----------------------------------------------------------------------------
(* The inductive invariant and what follows from it                         *)

LEMMA InitLemma ==
  Init => IndInv
  BY RecordsLemma, Identities DEF Init, IndInv, TypeOK, RunningIsJoinable, GateHoldersWork,
     ReplacesFinished, EndedStaysEnded, WaitersListen, OwnersWait, OneOwner, Served

LEMMA StepLemma ==
  IndInv /\ [Next]_vars => IndInv'
  <1> SUFFICES ASSUME IndInv, [Next]_vars
               PROVE  IndInv'
    OBVIOUS
  <1>1. CASE UNCHANGED vars
    BY <1>1 DEF vars, IndInv, TypeOK, RunningIsJoinable, GateHoldersWork,
       ReplacesFinished, EndedStaysEnded, WaitersListen, OwnersWait, OneOwner
  <1>2. ASSUME NEW c \in Callers, CallerStep(c)
        PROVE  IndInv'
    BY <1>2, LookKeeps, JoinKeeps, FindsTerminalKeeps, ReplaceKeeps, CreateKeeps, CheckKeeps,
       ListenKeeps DEF CallerStep
  <1>3. ASSUME NEW c \in Callers, Return(c) \/ Cancel(c) \/ CallScheduled(c)
        PROVE  IndInv'
    BY <1>3, ReturnKeeps, CancelKeeps, CallScheduledKeeps
  <1>4. ASSUME NEW c \in Callers, NEW s \in Scopes, Call(c, s)
        PROVE  IndInv'
    BY <1>4, CallKeeps
  <1>5. ASSUME NEW h \in Runs, RunStep(h) \/ AcquireGate(h) \/ DropUsage(h)
        PROVE  IndInv'
    BY <1>5, EndUsageKeeps, CompleteKeeps, NotifyKeeps, RemoveKeeps, AcquireGateKeeps,
       DropUsageKeeps DEF RunStep
  <1>6. CASE BackgroundTakes \/ BackgroundReleases
    BY <1>6, Identities DEF BackgroundTakes, BackgroundReleases, IndInv, TypeOK,
       RunningIsJoinable, GateHoldersWork, ReplacesFinished, EndedStaysEnded, WaitersListen,
       OwnersWait, OneOwner
  <1> QED
    BY <1>1, <1>2, <1>3, <1>4, <1>5, <1>6 DEF Next

\* The inductive invariant: running tasks are in the map, whoever holds the gate works
\* with it, and a task that a caller found or knew finished stays finished.
THEOREM TasksInvariance == Spec => []IndInv
  <1>1. Init => IndInv
    BY InitLemma
  <1>2. IndInv /\ [Next]_vars => IndInv'
    BY StepLemma
  <1> QED BY <1>1, <1>2, PTL DEF Spec

\* Type correctness, for any callers, scopes and task handles.
THEOREM TasksTypeCorrect == Spec => []TypeOK
  <1>1. IndInv => TypeOK
    BY DEF IndInv
  <1> QED BY <1>1, TasksInvariance, PTL

\* Two runs of one scope of an account are never under way together (sync_account_data).
THEOREM OneRunPerScope == Spec => []SingleRun
  <1>1. IndInv => SingleRun
    BY DEF IndInv, RunningIsJoinable, SingleRun
  <1> QED BY <1>1, TasksInvariance, PTL

\* A run under way is the task of its scope in the map: every caller finds it.
THEOREM NoRunIsMissed == Spec => []RunningIsJoinable
  <1>1. IndInv => RunningIsJoinable
    BY DEF IndInv
  <1> QED BY <1>1, TasksInvariance, PTL

\* A caller that waits for a run does not hold the gate that the run may need.
THEOREM GateIsHeldToWork == Spec => []GateHoldersWork
  <1>1. IndInv => GateHoldersWork
    BY DEF IndInv
  <1> QED BY <1>1, TasksInvariance, PTL

\* No caller is answered by a run that was over before it called.
THEOREM FreshAnswers == Spec => []AnswersAreFresh
  <1>1. IndInv => AnswersAreFresh
    BY DEF IndInv, EndedStaysEnded, AnswersAreFresh, Served
  <1> QED BY <1>1, TasksInvariance, PTL

\* Of the callers of one run, at most one owns the notifications of its rows.
THEOREM NotificationsHaveOneOwner == Spec => []OneOwner
  <1>1. IndInv => OneOwner
    BY DEF IndInv
  <1> QED BY <1>1, TasksInvariance, PTL

\* Only the tasks of scopes that are not retained wait to leave the map: the others are
\* over once they have woken their waiters.
OnlyOthersLeave == \A h \in Runs : run[h].phase = "notified" => run[h].scope \notin Retained

\* A run takes its scope when it is started, and keeps it until it is over.
LEMMA OthersLeaveStep ==
  ASSUME TypeOK, OnlyOthersLeave, [Next]_vars
  PROVE  OnlyOthersLeave'
  <1> USE DEF OnlyOthersLeave, TypeOK, Run
  <1>1. CASE run' = run
    BY <1>1
  <1>2. ASSUME NEW c \in Callers, NEW h \in Runs, Start(c, h)
        PROVE  OnlyOthersLeave'
    BY <1>2 DEF Start
  <1>3. ASSUME NEW c \in Callers, Replace(c) \/ Create(c)
        PROVE  OnlyOthersLeave'
    BY <1>1, <1>2, <1>3 DEF Replace, Create, LooksAgain
  <1>4. ASSUME NEW c \in Callers, Listen(c) \/ Cancel(c)
        PROVE  OnlyOthersLeave'
    <2>1. \A h \in Runs : run'[h].phase = run[h].phase /\ run'[h].scope = run[h].scope
      <3>1. CASE Listen(c)
        BY <3>1 DEF Listen
      <3>2. CASE Cancel(c)
        BY <3>2 DEF Cancel
      <3> QED
        BY <1>4, <3>1, <3>2
    <2> QED
      BY <2>1
  <1>5. ASSUME NEW c \in Callers,
               \/ Look(c) \/ Join(c) \/ FindsTerminal(c) \/ Check(c) \/ Return(c)
               \/ CallScheduled(c) \/ \E s \in Scopes : Call(c, s)
        PROVE  run' = run
    BY <1>5 DEF Look, Join, FindsTerminal, Check, Return, CallScheduled, Call, Begin
  <1>6. ASSUME NEW h \in Runs, AcquireGate(h) \/ EndUsage(h) \/ DropUsage(h) \/ Complete(h)
        PROVE  OnlyOthersLeave'
    BY <1>6 DEF AcquireGate, EndUsage, DropUsage, LeaveUsage, Complete
  <1>7. ASSUME NEW h \in Runs, Notify(h)
        PROVE  OnlyOthersLeave'
    BY <1>7 DEF Notify, OverRun
  <1>8. ASSUME NEW h \in Runs, Remove(h)
        PROVE  OnlyOthersLeave'
    BY <1>8 DEF Remove, OverRun
  <1>9. CASE BackgroundTakes \/ BackgroundReleases \/ UNCHANGED vars
    BY <1>1, <1>9 DEF BackgroundTakes, BackgroundReleases, vars
  <1> QED
    BY <1>1, <1>3, <1>4, <1>5, <1>6, <1>7, <1>8, <1>9 DEF Next, CallerStep, RunStep

\* A step that takes a task out of the map is that of the task itself, the last one of a
\* run that is not retained.
LEMMA LeavesTheMap ==
  ASSUME TypeOK, Next, NEW s \in Scopes, tasks[s] # None, tasks'[s] = None
  PROVE  \E h \in Runs : run[h].phase = "notified" /\ run[h].scope = s
  <1> USE DEF TypeOK
  <1>1. ASSUME NEW c \in Callers, NEW h \in Runs, Start(c, h)
        PROVE  FALSE
    BY <1>1, Identities DEF Start
  <1>2. ASSUME NEW c \in Callers, Replace(c) \/ Create(c)
        PROVE  FALSE
    BY <1>1, <1>2 DEF Replace, Create, LooksAgain
  <1>3. ASSUME tasks' = tasks
        PROVE  FALSE
    BY <1>3
  <1>4. ASSUME NEW h \in Runs, Remove(h)
        PROVE  run[h].phase = "notified" /\ run[h].scope = s
    BY <1>4 DEF Remove
  <1>5. ASSUME NEW c \in Callers,
               \/ Look(c) \/ Join(c) \/ FindsTerminal(c) \/ Check(c) \/ Listen(c) \/ Return(c)
               \/ Cancel(c) \/ CallScheduled(c) \/ \E t \in Scopes : Call(c, t)
        PROVE  tasks' = tasks
    BY <1>5 DEF Look, Join, FindsTerminal, Check, Listen, Return, Cancel, CallScheduled, Call, Begin
  <1>6. ASSUME NEW h \in Runs,
               \/ AcquireGate(h) \/ EndUsage(h) \/ DropUsage(h) \/ Complete(h) \/ Notify(h)
        PROVE  tasks' = tasks
    BY <1>6 DEF AcquireGate, EndUsage, DropUsage, LeaveUsage, Complete, Notify
  <1>7. ASSUME BackgroundTakes \/ BackgroundReleases
        PROVE  tasks' = tasks
    BY <1>7 DEF BackgroundTakes, BackgroundReleases
  <1> QED
    BY <1>2, <1>3, <1>4, <1>5, <1>6, <1>7 DEF Next, CallerStep, RunStep

\* The last Full or Usage run stays visible until the next one takes its place: whoever
\* finds it finished starts the next in the section that replaces it.
THEOREM RetainedRunsStay == Spec => RetainedStaysVisible
  <1> DEFINE A == \A s \in Retained : tasks[s] # None => tasks'[s] # None
  <1>1. Init => OnlyOthersLeave
    BY DEF Init, OnlyOthersLeave, OverRun
  <1>2. TypeOK /\ OnlyOthersLeave /\ [Next]_vars => OnlyOthersLeave'
    BY OthersLeaveStep
  <1>3. Spec => []OnlyOthersLeave
    BY <1>1, <1>2, TasksTypeCorrect, PTL DEF Spec
  <1>4. ASSUME TypeOK, OnlyOthersLeave, [Next]_vars
        PROVE  [A]_tasks
    <2>1. CASE UNCHANGED vars
      BY <2>1 DEF vars
    <2>2. ASSUME Next, NEW s \in Retained, tasks[s] # None, tasks'[s] = None
          PROVE  FALSE
      <3>1. s \in Scopes
        BY ScopesType
      <3>2. PICK h \in Runs : run[h].phase = "notified" /\ run[h].scope = s
        BY <1>4, <2>2, <3>1, LeavesTheMap
      <3> QED
        BY <1>4, <3>2 DEF OnlyOthersLeave
    <2> QED
      BY <1>4, <2>1, <2>2
  <1>5. Spec => [][A]_tasks
    BY <1>3, <1>4, TasksTypeCorrect, PTL DEF Spec
  <1> QED
    BY <1>5, PTL DEF RetainedStaysVisible

=============================================================================
