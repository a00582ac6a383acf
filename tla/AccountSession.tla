---------------------------- MODULE AccountSession ----------------------------
(* The stored session of an account and its recovery: requests that save the   *)
(* session they were answered with (upstream_service.rs), the recovery under   *)
(* the gate of the account, which asks for the profile, refreshes and logs in  *)
(* again (upstream_service.rs, auth_service.rs), and the log-in of the user,   *)
(* which takes no gate.                                                        *)
(*                                                                             *)
(* A session is known by its number, in the order in which the site issued     *)
(* them. The site is external: it accepts an access token until it expires,    *)
(* and a refresh token once.                                                   *)
EXTENDS Integers

CONSTANTS
  Callers,
  MaxExpiries, MaxLogins, MaxMishaps   \* bounds

ASSUME SessionBounds ==
  /\ MaxExpiries \in Nat /\ MaxLogins \in Nat /\ MaxMishaps \in Nat

VARIABLES
  stored, credential,      \* database: the session, 0 if none; a password is saved
  access, refresh, issued, \* site: the tokens it accepts, and the last session
  twoFactor,               \* site: it asks for a second factor at a log-in
  task,                    \* the requests
  login,                   \* the session of a log-in of the user, not yet saved
  expiries, logins, mishaps,
  meanwhile                \* a session was saved by others than the holder of the gate

site == <<access, refresh, issued, twoFactor>>
counters == <<expiries, logins, mishaps>>
sessionVars == <<stored, credential, site, task, login, counters, meanwhile>>

-----------------------------------------------------------------------------
(* States                                                                    *)

Calls == {"request", "again"}
Recovering == {"profile", "refresh", "check", "login"}
Phases == {"idle", "queued"} \cup Calls \cup Recovering
Answers == {"none", "ok", "denied", "failed"}

\* "session" is what the request is sent with, or was issued by the call under way;
\* "effects" is how often the site did what the request asks.
IdleTask == [phase |-> "idle", session |-> 0, answer |-> "none", effects |-> 0]

\* The account was logged in, with its password saved.
SessionInit ==
  /\ stored = 1 /\ credential = TRUE
  /\ access = {1} /\ refresh = {1} /\ issued = 1 /\ twoFactor \in BOOLEAN
  /\ task = [r \in Callers |-> IdleTask]
  /\ login = 0
  /\ expiries = 0 /\ logins = 0 /\ mishaps = 0
  /\ meanwhile = FALSE

Answered(r, phase, answer) == task[r].phase = phase /\ task[r].answer = answer

Moves(r, phase, session) ==
  task' = [task EXCEPT ![r] =
             [phase |-> phase, session |-> session, answer |-> "none", effects |-> @.effects]]

Ends(r) == task' = [task EXCEPT ![r] = IdleTask]

-----------------------------------------------------------------------------
(* The site                                                                  *)

\* A session of its own is issued, and saved by whoever asked for it.
Issues ==
  /\ issued' = issued + 1
  /\ access' = access \cup {issued + 1}
  /\ UNCHANGED twoFactor

\* What the site does for a call of the request, if it accepts its token.
Accepts(r) ==
  CASE task[r].phase \in Calls \cup {"profile", "check"} -> task[r].session \in access
    [] task[r].phase = "refresh" -> task[r].session \in refresh
    [] task[r].phase = "login" -> ~twoFactor

Issuing == {"refresh", "login"}

\* The site issues a session for a recovery; a refresh token is used up by it.
Effect(r) ==
  IF task[r].phase \in Issuing
  THEN /\ Issues
       /\ refresh' = (refresh \ {task[r].session}) \cup {issued'}
  ELSE UNCHANGED site

UnderWay(r) == task[r].phase \in Calls \cup Recovering /\ task[r].answer = "none"

Effects(r) == task[r].effects + IF task[r].phase \in Calls THEN 1 ELSE 0

Replies(r, answer, session, effects) ==
  task' = [task EXCEPT ![r] =
             [phase |-> @.phase, session |-> session, answer |-> answer, effects |-> effects]]

Answer(r) ==
  /\ UnderWay(r)
  /\ \/ /\ Accepts(r) /\ Effect(r)
        /\ Replies(r, "ok", IF task[r].phase \in Issuing THEN issued' ELSE task[r].session,
                   Effects(r))
     \/ /\ ~Accepts(r) /\ UNCHANGED site
        /\ Replies(r, "denied", task[r].session, task[r].effects)
  /\ UNCHANGED <<stored, credential, login, counters, meanwhile>>

\* The call fails otherwise, before or after the site has done what it asks.
AnswerLost(r) ==
  /\ UnderWay(r) /\ mishaps < MaxMishaps
  /\ mishaps' = mishaps + 1
  /\ \/ /\ Accepts(r) /\ Effect(r)
        /\ Replies(r, "failed", task[r].session, Effects(r))
     \/ /\ UNCHANGED site
        /\ Replies(r, "failed", task[r].session, task[r].effects)
  /\ UNCHANGED <<stored, credential, login, expiries, logins, meanwhile>>

\* The access tokens expire, with the refresh tokens or without them.
Expire ==
  /\ expiries < MaxExpiries
  /\ expiries' = expiries + 1
  /\ access' = {} /\ refresh' \in {refresh, {}}
  /\ UNCHANGED <<stored, credential, issued, twoFactor, task, login, logins, mishaps, meanwhile>>

-----------------------------------------------------------------------------
(* A request                                                                 *)

SavesOutside(session) == stored' = session /\ meanwhile' = TRUE

\* It is sent with the stored session, or goes for a recovery if there is none.
Begin(r) ==
  /\ task[r].phase = "idle"
  /\ Moves(r, IF stored = 0 THEN "queued" ELSE "request", stored)
  /\ UNCHANGED <<stored, credential, site, login, counters, meanwhile>>

RecoversOn == {"denied"}

\* Mutant: any failure is taken for an expired session.
RecoversOnAny == {"denied", "failed"}

RecoverableAnswers == RecoversOn

\* The first answer: its session is saved, or the session is to be recovered.
RequestAnswered(r) ==
  /\ task[r].phase = "request" /\ task[r].answer # "none"
  /\ IF task[r].answer = "ok" THEN Ends(r) /\ SavesOutside(task[r].session)
     ELSE /\ IF task[r].answer \in RecoverableAnswers THEN Moves(r, "queued", 0) ELSE Ends(r)
          /\ UNCHANGED <<stored, meanwhile>>
  /\ UNCHANGED <<credential, site, login, counters>>

\* The answer to the request that was sent once more, with the recovered session.
AgainAnswered(r) ==
  /\ task[r].phase = "again" /\ task[r].answer # "none"
  /\ Ends(r)
  /\ IF task[r].answer = "ok" THEN SavesOutside(task[r].session)
     ELSE UNCHANGED <<stored, meanwhile>>
  /\ UNCHANGED <<credential, site, login, counters>>

-----------------------------------------------------------------------------
(* The recovery, under the gate of the account                               *)

GateFree == \A r \in Callers : task[r].phase \notin Recovering

\* Mutant: recoveries do not wait for each other.
NoGate == TRUE

MayEnter == GateFree

\* Without a password the user has to log in.
LogsInOrEnds(r) == IF credential THEN Moves(r, "login", 0) ELSE Ends(r)

\* Mutant: a session that cannot be refreshed is given up.
GivesUp(r) == Ends(r)

LogsIn(r) == LogsInOrEnds(r)

\* The session is read again: another recovery may have stored a good one.
EnterGate(r) ==
  /\ task[r].phase = "queued" /\ MayEnter
  /\ IF stored = 0 THEN LogsIn(r) ELSE Moves(r, "profile", stored)
  /\ meanwhile' = FALSE
  /\ UNCHANGED <<stored, credential, site, login, counters>>

\* The recovered session is stored, and the request sent with it.
Recovered(r) ==
  /\ stored' = task[r].session
  /\ Moves(r, "again", task[r].session)

\* A failure that does not speak of the session ends the recovery and the request.
RecoveryFails(r) ==
  /\ task[r].phase \in Recovering /\ task[r].answer = "failed"
  /\ Ends(r)
  /\ UNCHANGED <<stored, credential, site, login, counters, meanwhile>>

ProfileAnswered(r) ==
  /\ \/ Answered(r, "profile", "ok") /\ Recovered(r)
     \/ /\ Answered(r, "profile", "denied")
        /\ Moves(r, "refresh", task[r].session)
        /\ UNCHANGED stored
  /\ UNCHANGED <<credential, site, login, counters, meanwhile>>

\* A refreshed session is stored only after the profile was read with it.
RefreshAnswered(r) ==
  /\ \/ Answered(r, "refresh", "ok") /\ Moves(r, "check", task[r].session)
     \/ Answered(r, "refresh", "denied") /\ LogsIn(r)
  /\ UNCHANGED <<stored, credential, site, login, counters, meanwhile>>

CheckAnswered(r) ==
  /\ \/ Answered(r, "check", "ok") /\ Recovered(r)
     \/ /\ Answered(r, "check", "denied")
        /\ LogsIn(r) /\ UNCHANGED stored
  /\ UNCHANGED <<credential, site, login, counters, meanwhile>>

\* The password is saved once more with the session. Where a second factor is asked
\* for, the user has to log in.
LogsInAgain(r) ==
  \/ Answered(r, "login", "ok") /\ credential' = TRUE /\ Recovered(r)
  \/ /\ Answered(r, "login", "denied")
     /\ Ends(r) /\ UNCHANGED <<stored, credential>>

LoginAnswered(r) ==
  /\ LogsInAgain(r)
  /\ UNCHANGED <<site, login, counters, meanwhile>>

-----------------------------------------------------------------------------
(* The user                                                                  *)

\* The site answers a log-in. A second factor is asked for first: the password is
\* saved with the challenge, otherwise after the session.
LogIn ==
  /\ login = 0 /\ logins < MaxLogins
  /\ logins' = logins + 1
  /\ Issues /\ refresh' = refresh \cup {issued'}
  /\ login' = issued'
  /\ credential' = (credential \/ twoFactor)
  /\ UNCHANGED <<stored, task, expiries, mishaps, meanwhile>>

SaveLogin ==
  /\ login # 0
  /\ SavesOutside(login)
  /\ credential' = (credential \/ ~twoFactor)
  /\ login' = 0
  /\ UNCHANGED <<site, task, counters>>

\* Sessions and passwords are deleted with the data of the runtime.
ClearRuntimeData ==
  /\ mishaps < MaxMishaps
  /\ mishaps' = mishaps + 1
  /\ stored' = 0 /\ credential' = FALSE
  /\ UNCHANGED <<site, task, login, expiries, logins, meanwhile>>

\* The process ends and is started again: what was not saved is lost.
Crash ==
  /\ mishaps < MaxMishaps
  /\ mishaps' = mishaps + 1
  /\ task' = [r \in Callers |-> IdleTask]
  /\ login' = 0
  /\ UNCHANGED <<stored, credential, site, expiries, logins, meanwhile>>

-----------------------------------------------------------------------------
Step(r) ==
  \/ Begin(r) \/ Answer(r) \/ RequestAnswered(r) \/ AgainAnswered(r)
  \/ RecoveryFails(r) \/ ProfileAnswered(r) \/ RefreshAnswered(r) \/ CheckAnswered(r)
  \/ LoginAnswered(r)

SessionNext ==
  \/ \E r \in Callers : Step(r) \/ EnterGate(r) \/ AnswerLost(r)
  \/ Expire \/ LogIn \/ SaveLogin \/ ClearRuntimeData \/ Crash

SessionSpec == SessionInit /\ [][SessionNext]_sessionVars

\* Tasks go on, calls are bounded in time, the scheduler asks again and again, and the
\* gate is granted in the order of the requests.
SessionFairness ==
  /\ \A r \in Callers : WF_sessionVars(Step(r)) /\ SF_sessionVars(EnterGate(r))
  /\ WF_sessionVars(SaveLogin)

SessionFairSpec == SessionSpec /\ SessionFairness

-----------------------------------------------------------------------------
(* Properties                                                                *)

\* Every variable has a value of its type.
SessionTypeOK ==
  /\ stored \in 0..issued /\ credential \in BOOLEAN
  /\ access \subseteq 1..issued /\ refresh \subseteq 1..issued /\ issued \in Nat /\ twoFactor \in BOOLEAN
  /\ task \in [Callers -> [phase : Phases, session : 0..issued, answer : Answers,
                         effects : Nat]]
  /\ login \in 0..issued
  /\ expiries \in 0..MaxExpiries /\ logins \in 0..MaxLogins /\ mishaps \in 0..MaxMishaps
  /\ meanwhile \in BOOLEAN

\* A request that is sent again after a recovery had no effect before, whatever became
\* of the session and of its answers (the error path of account_upstream_request).
EffectOnce == \A r \in Callers : task[r].effects <= 1

\* A recovery has a session issued only if the stored one is lost, unless one that
\* works was saved since it entered the gate by somebody who takes none, the user or
\* an older request: requests that are denied together share one recovery
\* (acquire_auth_recovery_account_gate).
Recovers(r) == task[r].phase \in Issuing /\ UnderWay(r) /\ issued' # issued

RecoveriesAreNeeded ==
  [][\A r \in Callers : Recovers(r) => stored \notin access \/ meanwhile]_sessionVars

\* While a password is saved and the site asks for no second factor, the stored session
\* is one the site accepts, once it has stopped to expire: however late older answers
\* save theirs, the last word is a session that works.
SessionIsRecovered == <>[](credential /\ ~twoFactor => stored \in access)

=============================================================================
