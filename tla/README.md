# Input Panel in TLA+

Input Panel (Tauri 2, Rust and React) is a local workbench for several Sub2API sites and
accounts: it reads usage, keys, subscriptions and announcements of each account, keeps them in
SQLite, raises alerts and switches the group of a key when a quota runs out. This directory holds
TLA+ models of its concurrent core, the TLC configurations that check them on small instances and
TLAPS proofs about them for every instance.

1. [The system](#1-the-system): components, state, interactions, what is hard, what makes it correct
2. [Plan](#2-plan): modules, order, what is left
3. [Modules](#3-modules): what models what
4. [Runs](#4-runs): what is checked, bounds, fairness
5. [Proofs](#5-proofs): what is proved, from what, and along which argument
6. [Findings](#6-findings): where the code does something else than it says
7. [Limits](#7-limits): what is only checked, and what is not modelled

All paths below are relative to the repository; `app/` is `src-tauri/src/application/`, `infra/` is
`src-tauri/src/infrastructure/`, `web/` is the front end, `src/`.

## 1. The system

### Processes and what they share

The desktop application and the HTTP adapter are two *runtimes*, and there may be several of them on
one machine. Each is a multi-threaded tokio process with its own in-memory state and its own business
database. They share one *coordination database* (SQLite, every operation a `BEGIN IMMEDIATE`
transaction on a blocking thread). Consequences that the models take seriously:

- a future may be dropped at any await (an HTTP client hangs up, a `select!` picks the other branch);
  a transaction that has started on a blocking thread goes on without it, and guards start their
  clean-up in tasks of their own;
- a process may die at any moment (release builds abort on panic): its memory is gone, its rows in
  the coordination database stay until they expire;
- a process may stall, so that a lease it meant to renew expires under it;
- a window talks to its program through calls whose answers, and events which, come in any order.

Upstream requests are bounded in time (5 s to connect, 15 s in all), which is what makes "every fetch
ends" a fair assumption.

### Components

| Component | State | Operations | Model |
|---|---|---|---|
| Live resource cache, `app/resource_coordinator.rs` | entries by account and kind: cached value with TTL 30 s, generation, waiters, the flight | get_or_fetch, complete_fetch, the leader's guard, invalidate | `ResourceCoordinator`, `LiveRead` |
| Synchronisation of account data, `app/data_center_service.rs`, `app/context.rs` | map of tasks by scope, state of each task and its `Notify`, the usage gate of the account | sync_account_data, scheduled sync, wait_for_sync_task, the spawned run | `SyncTasks` |
| Scheduler and account lease, `app/scheduler_service.rs`, `app/runtime_coordination_service.rs`, `infra/runtime_coordination.rs` | due times, pending and active work by account; instances, demands, leases | collect due work, spawn worker, acquire/renew/release, heartbeat | `AccountWork` |
| Request budget of a site, `infra/runtime_coordination.rs`, `infra/sub2api/client.rs` | demands, permits, earliest next request | enqueue, acquire, cancel, release, their guards | `SiteRequests` |
| Failover between the addresses of a site, `app/site_failover_service.rs`, `infra/runtime_coordination.rs` | active address, cooldown and revision of each address, lease and revision of the evaluation, transitions | read, write, evaluate (race, serial, probes), record failure, commit success, recover the primary | `SiteFailover` |
| Subscription quota alerts, `app/subscription_quota_alert_service.rs`, `..._dispatcher.rs`, its repository | rule, state of each window, events with two channels, claims with leases, two gates | evaluate, claim, deliver, mark, switch, delete | `QuotaAlerts` |
| Account session, `app/upstream_service.rs`, `app/auth_service.rs` | stored session, recovery gate; the tokens the site accepts | request, recover (profile, refresh, log in), log-in of the user | `AccountSession` |
| Subscription switching, `app/subscription_switch_service.rs` | rule with its chain, position of the key, caches | evaluate (snapshot or fresh), move, save, edit, delete | `SubscriptionSwitch` |
| Usage history and ledger, `app/data_center_service.rs`, `usage_history_state.rs` | rows of the account, checkpoint, date under way | scan, full and recent reads, newest pages, the pages of a date | `UsageHistory`, `UsageWindow` |
| Notifications, `lib.rs`, `usage_notification_outbox.rs`, `web/shared/lib/business-notification-queue.ts`, `web/app/FloatingNotificationWindowRoot.tsx` | outbox, mailbox with revision; the queue of the window: visible, pending, exiting, awaiting | send, sync, dismiss, prune, clear, read, restart; enter, expire, exit, detail, panel, places | `Notifications`, `NotificationQueue` |
| Saved preferences, `web/features/desktop-ui/prefs-save-queue.ts` and the commands behind it | operations by field, the save under way, waiters | enqueue, flush, store, retry, dispose | `Preferences` |
| Feed of transitions, scoped cache of the front end, selection shared by windows | cursor; versions; revisions | list, observe; load, invalidate; publish, hydrate | not modelled, see [7](#7-limits) |
| Preload and warm-up, database storage and migration, maintenance, sites/accounts/keys, dashboard and status pages, HTTP client, adapters, schema, windows, pages | rows and presentation | reads and writes of single rows, or one sequential procedure | not modelled, see [7](#7-limits) |

### How they interact

- A page or an adapter calls `keys_service` and the other services; live reads go through the
  **resource cache**, mutations invalidate it after the upstream has answered.
- The **scheduler** collects due work of an account, asks for the **account lease**, and under it runs
  the account's **synchronisation** with the usage gate already in its hand. Users reach the same
  synchronisation without the lease, so that the task map and the gate must sort them out. What a run
  reads day by day is the **usage history**.
- Every request to an upstream goes through the **account session** (log-in recovery), then through
  the **failover** of its site, then takes a permit of the **request budget** for each attempt.
- Subscriptions that a synchronisation has read feed **alerts** and **switching**; alerts are delivered
  to the system and to the **notifications** of the program, which also tell of usage.

Each model below covers one of these parts with all the actors that meet in it; the parts touch each
other through narrow promises (a fetch returns within a bound; a permit is eventually granted; one
worker has an account), which are properties of the one and assumptions of the other.

### What is hard, and what makes each part correct

| Part | Hard behaviour | Correctness |
|---|---|---|
| Live resource cache | a fetch older than an invalidation comes back after it; the leader is dropped while others wait; a mutation of several kinds invalidates one after the other | read-your-writes; no stale landing; one leader per generation; nobody waits for an answer that no one will send |
| Synchronisation | look-then-insert over two locks; finished tasks stay in the map; gate held while joining; one-shot wake-up | one run per scope; running tasks are found; fresh answers; no circular wait |
| Account lease | crash, stall, failed release; leftover demands; priorities of the peers | one worker; no work forgotten, none done that is not due; every demand is served |
| Request budget | dropped callers whose transactions go on; expired permits; priorities | the limits hold; nobody waits for ever because of what others left behind |
| Failover | lost answers of writes; races whose losers are aborted; evaluations that lose their lease; late recordings | no write is replayed; late outcomes do not count; evaluations are fenced; every request ends |
| Quota alerts | a claim waits for the gate while the owner changes his mind; a crash between delivery and mark; windows that are armed again | each excess is announced, once; nothing is delivered that is deleted or turned off |
| Session | sessions saved outside the gate; refresh tokens that work once; the profile read between refresh and save | no request takes effect twice; no working session is thrown away; the last word is a session that works |
| Switching | the group at the site changes before the rule is saved; stale snapshots and caches; edits in between; rules that are cleared without the gate | rule and key agree in the end; evaluations never undo what a user did |
| Usage history | tasks cut short anywhere; records that arrive while pages are read; two kinds of tasks share one resume date | the checkpoint passes nothing; a completed date or run misses nothing; every record arrives |
| Notifications | three channels with revisions out of order; dismissals that fail; rows of the outbox that are pruned or cleared; a queue whose steps each begin the next | one card moves at a time; no dismissal takes what tells of usage away unseen; every notification leaves |
| Preferences | a field edited while its older value is saved, fails or is tried again | the newest edit is stored or known to have failed |

`PROJECT.json` lists the hazards at the lines where they bite, with the properties that cover them, or a
note where none does.

## 2. Plan

Order: first what several processes or many futures contend for (a wrong answer there is silent, and a
test would need a scheduler), then what crosses a process and an upstream, then the front end.

| # | Module | Status |
|---|---|---|
| 1 | `LiveRead` (abstract) and `ResourceCoordinator`, refinement | modelled, safety and refinement proved |
| 2 | `SyncTasks` | modelled, safety proved |
| 3 | `AccountWork` | modelled, safety proved |
| 4 | `SiteRequests` | modelled, safety proved |
| 5 | `SiteFailover` | modelled, safety and action properties proved |
| 6 | `QuotaAlerts` | modelled, safety and action properties proved |
| 7 | `AccountSession` | modelled, safety and action property proved |
| 8 | `UsageHistory`, `UsageWindow` | modelled, safety proved |
| 9 | `SubscriptionSwitch` | modelled, safety proved |
| 10 | `Notifications`, `NotificationQueue` | modelled, safety proved |
| 11 | `Preferences` | modelled; its one property is liveness |
| 12 | feed of transitions, scoped cache and shared selection of the front end | not modelled |

Composition: `ResourceCoordinator` is composed with its writers (`keys_service.rs`), `SyncTasks` with
the scheduler's entry and the background holders of the gate, `AccountWork` with the coordination
transactions it shares with its peers, `QuotaAlerts` with evaluator, dispatcher and owner,
`Notifications` with the program, the window and its reader. Composing, say, `SiteFailover` with
`SiteRequests` would multiply states without a property that spans both, since a permit is held
within one attempt only.

## 3. Modules

Every section of code between two awaits is one action; every database transaction is one action.
Variables marked *history* never influence an action: they only remember what a property needs.
`MC*` modules hold nothing but the instances of the runs.

### `ResourceCoordinator`, `LiveRead`

A resource is an account and a kind of live data. `entries` is the coordinator's map, `request` the
calls of `get_or_fetch`, `write` the calls of the mutations of `keys_service.rs`. Upstream data is a
revision number that each effective mutation increments; a fetch returns the revision at the time the
upstream served it, so that "stale" becomes "smaller".

| Action | Code |
|---|---|
| Call, HitCache, JoinFetch, LeadFetch | the four outcomes of `get_or_fetch` under the lock |
| FetchReturns, CompleteFetch | the leader's await, and `complete_fetch` |
| CancelRead, CleanUp | the future is dropped; its guard's task runs later |
| Return, Expire | the caller takes its answer; the TTL passes |
| Invalidate, InvalidateAccount | `invalidate`, `invalidate_account` (the latter has no caller outside tests) |
| StartWrite, ApplyWrite, WriteSucceeds, InvalidateNext, AcknowledgeWrite, AbandonWrite | a mutation, its invalidations one by one, and its loss on the way |
| ChangeElsewhere | the upstream changes without this process |

`acked` and `barrier` are history: the revision of the last acknowledged mutation and that of the last
invalidation. The answers to all waiters are sent in one step, because the sender holds them all and
no await lies between. The wrap of the 64-bit generation is out of reach and not modelled.

`LiveRead` is what the cache promises: an answer shows the upstream no older than the last mutation
acknowledged before the call. `ResourceCoordinator` implements it (`ImplementsLiveRead`) under the
mapping that hides caching, sharing, generations and clean-up.

### `SyncTasks`

`tasks` is the map from scope to task handle, `run` the tasks, `caller` the calls, `gate` the account's
usage gate; `ended` is history (the task that was over when a call began). `Call` and `CallScheduled`
begin; `Look`, `Join`, `FindsTerminal`, `Replace`, `Create` are the rounds of the loop that finds or
inserts a task; `Check`, `Listen`, `Return` are `wait_for_sync_task`; `Cancel` drops a caller.
`AcquireGate`, `EndUsage`, `DropUsage`, `Complete`, `Notify`, `Remove` are a run, `BackgroundTakes` and
`BackgroundReleases` the other users of the gate. What a run synchronises is reduced to the phases in
which it needs, holds and has released the gate. Handles are reused when nobody refers to them.

### `AccountWork`

One account. An instance is one *life* of a runtime: a restart is another instance. `registered`,
`queue`, `aged`, `lease` are the coordination database; `pending` and `worker` the scheduler's memory;
`lapsed` and `owed` history. `Due` makes work due, `SpawnWorker` starts a worker, `Ask` is the
transaction that grants the lease or leaves a demand, then come fresh usage, subscriptions, the check
for history and reading it, `ReleaseLease`, and `Collect`, with which the loop takes back what is to
be queued again. Failures: `AskFails`, `FreshIsBusy`, `QuantumEnds`, `HistoryEnds`, `ReleaseFails`,
`Crash`, and what time does: `Age`, `LeaseExpires`, `DemandsExpire`, `InstanceRemoved`; `Heartbeat`
renews. Removing the demands of an instance keeps the order of the others (`Without`). Left out: retry
delays and deadlines as numbers, the limit of four accounts at once (other accounts), the order of
demands that arrive in the same millisecond.

### `SiteRequests`

Calls to one site. `queue`, `aged`, `permits`, `spaced` are the database, `call` the callers, `thread`
the transactions nobody waits for any more; `lapsed` is history. `Call`, `Enqueue`, `Poll`, `Respond`,
`Release`, `Cancel` are a call that goes well or gives up (`TimeOut`); `Drop` drops the caller at any
of its awaits, after which `ThreadEnds` lets the transaction finish; `DatabaseFails`, `CancelFails`,
`ReleaseFails` are errors. Time: `Age`, `SpacingPasses`, `PermitExpires` (20 s), `DemandExpires`
(2 min); a call waits up to 30 s. Site cooldowns exist in the code but nothing sets them.

### `SiteFailover`

Addresses 1..n, 1 the primary. `active`, `evaluation`, `address` (cooldown, revision, probe flag),
`lease`, `transition` are the database; `request` holds each request with the snapshot it works from,
its attempts under way and the candidates still to try; `recordings` and `releases` are the threads
and tasks left behind by dropped or aborted workers; `effects` and `overtaken` are history. A request
decides (`deciding`), asks the active address (`direct`) or leases an evaluation (`leasing`, or
`waiting` for another's) and then races the candidates (`asking`, `racing`), tries them one by one
(`serial`, `testing`), probes before a write (`probing`, `probeRacing`, `sending`), and commits or
concludes. `Answers`, `Retry`, `Refuses`, `Fails` are the outcomes at an address; a failing write may
have taken effect. `Drop` and `DropTaking` drop the caller, the latter while the transaction that
takes the lease is under way. A crash of a process is a drop of each of its requests of which nothing
is cleaned up; a lease that nobody can release expires.

Cooldowns count in steps of `now`; the lease expires as an event. Left out: backoff times, the
retention clean-up of states and transitions, status and listing pages. The result `exhausted` stands
for the several errors with which a lost race or the end of serial probes answers; a database error is
an end like a drop.

### `QuotaAlerts`

One subscription of one account. `config`, `window`, `event` are the rows of its repository, `created`
numbers the events; `evaluation` holds the evaluations with what they have read, `dispatcher` the
flush of the channels; `mailbox` is what the program holds, `shown` is history. `ReadStates` and
`FinishEvaluation` are an evaluation (read under the gate, then one transaction), `SaveRule`,
`SwitchOff`, `SwitchOn`, `RemoveAccount`, `RemoveSite`, `ClearRuntimeData`, `Prune` the owner and the
maintenance, `StartFlush`, `Claim`, `EnterGate`, `Send`, `SendFails`, `Mark`, `MarkFails`, `Abandon`,
`ChannelDone` the dispatcher, `Crash` the process. The gate of the account and the deletion gate
(deliveries read, deletions write) are conditions over who is where. An account has one dispatcher,
which is `AccountWork!OneWorker`, so a claim's lease expires only when nobody works under it.

### `AccountSession`

Sessions are numbers in the order of issue. `stored` and `credential` are the database, `access`,
`refresh`, `issued`, `twoFactor` the site, `task` the requests, `login` a log-in of the user that is not
saved yet; `meanwhile` is history. `Begin`, `Answer`, `AnswerLost`, `RequestAnswered`, `AgainAnswered`
are a request and its repetition, `EnterGate`, `ProfileAnswered`, `RefreshAnswered`, `CheckAnswered`,
`LoginAnswered` the recovery, `LogIn` and `SaveLogin` the log-in that takes no gate. `Expire` is the
site; `ClearRuntimeData` and `Crash` come at any time. A refresh token works once.

### `SubscriptionSwitch`

One rule of one key. `position` is the group of the key at the site, `quota` a verdict for each group;
`rule` and `registered` (the account is there) are the database, the caches of keys and subscriptions
are what an evaluation of the scheduler reads, `actor` the evaluations, edits and deletions, which take
turns at the gate; `chosen` (what the user saved last) and `cleared` (what an evaluation had read of a
rule that was cleared under it) are history. `TakeSnapshot`, `Ask`, `Enter`, `ReadSubscriptions`, `ReadKeys`, `Decide`,
`Move`, `Save`, `MarkRuleFailed`, `Refresh` are an evaluation with its failures (`ReadFails`,
`MoveFails`, `SaveFails`, `MarkRuleFails`), `BeginEdit`, `SaveSettings`, `EditIsRefused`, `Delete` the
user. `ClearRules` (clearing the data) and `AccountGoes` (the account or its site is removed, or cleared
with the data) delete the rule whoever holds the gate; of an account that is gone nothing can be saved.
`Drop` and `Restart` end anything anywhere; a move whose caller is gone may still happen
(`LateMove`). `QuotaChanges`, `KeyIsMoved`, `CacheExpires` are the site and time.

### `UsageHistory`, `UsageWindow`

`UsageHistory` is one account over several days: `site` and `cache` its records, `history` the row of
account_usage_history_states with the checkpoint and the date under way, `task` who has the usage gate.
`StartScan`, `StartFull`, `StartUsage`, `StartLatest` begin the four kinds of tasks; `Probe`,
`BeginDate`, `HistoryDateRead`, `ScanDateRead`, `RecentDateRead` take them from date to date,
`ReadLatestPage` and `MergeLatest` read the newest pages; `CutShort` ends any of them anywhere (an error,
the end of its four seconds, a drop, a crash). `RowArrives`, `NewDay`, `ClearRuntimeData` are the
world. `UsageWindow` opens the reading of one date: the first page tells how many records there are,
several readers fetch the others, pages are joined in any order while records arrive, and the first and
the last page are read again at the end (`CheckFirstPage`, `CheckLastPage`); what does not fit is read
again, a bounded number of times.

### `NotificationQueue`, `Notifications`

`NotificationQueue` holds the functions of `business-notification-queue.ts`, from one state of the
queue to the next. `Notifications` is the rest: `outbox` and `mailbox` of the program, `syncs` and
`events` its snapshots on their way to the window, `call`, `asking` and `reads` what the window has
asked for, `applied`, `buffer`, `places`, `panel` and `queue` the window. `shown` and `doubles` (refused,
as one of the same key was in the outbox) are history, and so is `discarded`: what `Prune` (the
maintenance of the scheduler, after seven days), `ClearRuntimeData` and `AccountGoes` (an account or its
site is removed) deleted from the outbox without a dismissal. They leave the mailbox as it is. The
handlers of the window apply a snapshot of any of the three sources if its revision is news. `Restart`
empties all but the outbox.

### `Preferences`

`queue` is the queue of one window with one operation per field, `saving` the save under way; `edits`,
`saved`, `denied` are history. `Enqueue`, `Flush`, `Store`, `StoreFails`, `MoveFails` (the command of a
field that moves windows after it has stored it), `Saved`, `SaveFailed`, `Retry`, `Dispose`.

### Modules of instances

`MCRequests` instantiates `SiteRequests` and `AccountSession`, `MCSubscriptions` `QuotaAlerts` and
`SubscriptionSwitch`, `MCKeptData` `UsageHistory`, `UsageWindow` and `Preferences`. A variable of its
own (`part`, `subject`) says from the start which of them moves while the others stand still; only
what moves is fair. Their properties are checked in one run, each over the states of its own part, and
nothing is claimed about an interplay.

## 4. Runs

| Run | Instance | Shows |
|---|---|---|
| `reads` | 2 readers, 1 writer, keys and subscriptions of an account, 1 mutation, fair | one leader per generation, nobody stranded, an acknowledged mutation is visible to every later read; every read ends; the coordinator implements `LiveRead` |
| `sync_tasks` | 2 callers, the usage or the full scope beside that of the keys, 2 handles, fair | one run per scope, fresh answers, every run completes although the scheduler comes with the gate in its hand, a retained task never vanishes |
| `sync_wakeup` | 2 callers of usage, 3 handles, fair | violation: the lost wake-up, see [6](#6-findings) |
| `account_work` | 2 lives, three kinds between them, the second may stall, fair | one worker, only due work, no work lost, every demand is granted or expires |
| `requests` | *budget*: 2 pages of usage, 1 urgent request, limits 2 and 1, stalls; *session*: 2 requests, one expiry, one log-in, one mishap; both fair | both limits hold, every call that does not give up gets its permit; no request takes effect twice, no recovery without need, the stored session works in the end |
| `failover` | 2 addresses, a read and a write that may have come from a log-in at the fallback, 1 retry, 2 failures, clock to 1, stalls, fair | writes are not replayed, refused writes had no effect, the log tells the active address, late outcomes do not count, who elects is served by the elected, every request ends |
| `subscriptions` | *alerts*: 1 window, 2 evaluations, 2 events, 1 change of the rule, 1 mishap; *switch*: 2 actors, chains of 3 and 2 of 3 groups, 1 edit, 1 change, 1 failure, clearing or removal, at first all but the first subscription have run out; both fair | announcements reach the user, once, and only while wanted, and every event ends; what a user did is not undone, the key comes to rest where the rule wants it and the rule says so |
| `quota_switched` | 1 window, 2 periods, 2 evaluations | violation: a terminated delivery is made, see [6](#6-findings) |
| `kept_data` | *history*: 5 records of days 1 to 5, today from 4 to 6, pages of 2, 2 pages in a run, clearing allowed; *window*: 6 records, pages of 2, 2 readers, 2 attempts; *edits*: 3 fields, one with a command of its own, 3 edits, 1 refusal; history and edits fair | the checkpoint passes nothing, the newest run misses nothing, a completed date is complete, every record arrives; every edit ends |
| `usage_checkpoint` | the same history, without clearing | violation: the checkpoint passes days that were never read, see [6](#6-findings) |
| `notifications` | 2 of 3 notifications: two of the same business, or one of them and one of usage; 1 or 2 places; 1 trouble; fair | one card moves at a time, usage is seen before it leaves the outbox, unless it is pruned, cleared or removed with its account, every notification leaves |
| `notifications_dismissal` | 3 notifications, 2 places, no trouble, fair | violation: a dismissal blocks the queue, see [6](#6-findings) |

**Bounds.** A bound limits how often the environment does something, never what the code may do.

- `reads`: one mutation that races two reads of each of two kinds. Staleness relates one invalidation
  to one flight, and two readers are a leader and its waiter, or its successor. `MaxGeneration` only
  limits the invalidation of a whole account, which has no caller in production.
- `sync_tasks`: the scheduler is one of the callers. `Together` keeps one behaviour to one retained
  scope; scopes meet at the gate only, and the background holder of the gate stands for the other.
- `account_work`: the lease concerns a holder and a rival; a crash and restart is one life after the
  other. Theorems cover any number.
- `requests`: the budget is full with one call waiting, for either of two reasons; a recovery that
  meets one expiry, one log-in and one crash, lost answer or clearing, at any point.
- `failover`: the primary and a fallback, each with a cooldown; two failures let both addresses fail;
  one step of the clock ends a cooldown. More addresses only lengthen the lists.
- `subscriptions`: two evaluations are the race; two events are an excess and the one after the window
  was armed again; in the switch, one edit, change and failure (or clearing, or removal) at any point, a chain with a stop
  between its ends.
- `kept_data`: days before, within and after the four that every day reads; two midnights; three pages
  of a date with two readers, so that a page is read while another shifts; each edit may meet the save of
  the one before and its failure.
- `notifications`: who moves and who waits; the one trouble may be a deletion from the outbox at any point. `SameKeys` gives two of them one key, for the deduplication.

Deadlock is checked in `reads` and `sync_tasks`, whose calls may always begin anew, and not where all
calls may simply be over.

**Fairness.** Each assumption is one the scheduling justifies, and nobody has to fail, to be dropped, to
be cancelled, to call again or to invalidate.

- Weak fairness of the steps of a live reader, caller, run, worker, request, task or save: tokio polls
  tasks that are ready, and the HTTP client bounds fetches.
- Strong fairness where one waits for a turn that others take in between: `AcquireGate`, `EnterGate`,
  `Enter` and `StartScan` (tokio's `Mutex` serves waiters in order), `Ask` (a worker asks again and
  again, and the database is not busy at each of them), `Claim` of each event (the dispatcher
  comes back to what is due, in the order of its rows).
- Weak fairness of `Heartbeat`, `Age`, `LeaseExpires`, `SpacingPasses`, `PermitExpires`, `NewDay`,
  `CacheExpires` and of the expiry of demands that nobody renews: time passes. In `AccountWork` only
  the demands of a dead instance have to expire, in `SiteRequests` only those of a call that no longer
  polls.
- Threads end: a transaction on a blocking thread is not busy for ever.
- In `SiteFailover` nothing is assumed of the tasks that release a dropped request's lease: the time to
  live of the lease is enough.
- In `SubscriptionSwitch` somebody logs in again after a clearing, which takes the session too: until then
  nothing reaches the site.
- In `UsageHistory` a scan is cut short only finitely often: one that takes longer than its four seconds
  each time would never be done, which is a matter of durations.
- In `Notifications` snapshots, answers and reads arrive, timers end that pauses interrupt again
  and again (their time goes on after a pause), and the reader leaves the window alone again and again.
  What is strong fairness of a timer, and weak fairness of drawing the window, is written out there as
  the temporal formula it stands for, with the states in which the step may be taken (`MayMove`,
  `MayLeave`, `PlacesFollowed`): the queue functions do not have to be expanded under an `ENABLED`.
  `EveryNotificationLeaves` excepts three states, each a way to stay: nobody will tell the window of the
  mailbox (`Untold`: the preferences could not be read when it was to be told), the queue has refused
  one whose key was still exiting (`Refused`), and the block of the fourth finding (`Blocked`).

## 5. Proofs

All theorems hold for every value of the constants that the named assumptions of the modules admit:
`None` and `Nothing` are no value of the set they are added to; limits, bounds and page sizes are
natural numbers; the invalidation order maps operations to sequences of kinds; retained and gated
scopes are scopes; requests are a finite set in `SiteRequests`, and so are records in `UsageHistory`
and `UsageWindow` (for the cardinalities); the program is first started on a day after the third, so
that the four days of a scan have numbers; reads and writes are distinct. Every module of proofs
extends the modules it is about.

| Module | Theorems (the property of a run each states) |
|---|---|
| `ResourceCoordinatorProofs` | `Invariance`, `TypeCorrect`, `ReadYourWrites` (AnswersAreCurrent), `NoStaleLanding`, `OneLeader` (SingleFlight), `NobodyStranded` (NoStrandedWaiter), `Implementation` (ImplementsLiveRead) |
| `SyncTasksProofs` | `TasksTypeCorrect`, `OneRunPerScope` (SingleRun), `NoRunIsMissed`, `GateIsHeldToWork`, `FreshAnswers` (AnswersAreFresh), `NotificationsHaveOneOwner`, `RetainedRunsStay` (RetainedStaysVisible) |
| `AccountWorkProofs` | `OneWorkerPerAccount` (OneWorker), `NoWorkIsForgotten` (NoWorkIsLost), `WorkInvariance`, `DemandInvariance`, `WorkTypeCorrect`, `GrantsAreDue` (OnlyDueWork) |
| `RequestsProofs` | `TheBudgetIsKept` (BudgetKept), `PermitInvariance`, `SessionInvariance`, `TakesEffectOnce` (EffectOnce), `RecoveriesFindWhatIsSaved` (RecoveriesAreNeeded) |
| `SiteFailoverProofs` | `WriteInvariance`, `NoReplay` (WritesAreNotReplayed), `RejectedMayBeRepeated` (RejectedWritesHadNoEffect), `EvaluationsAreFenced`, `FailoverInvariance`, `TheLogTellsActive` (TransitionsTellActive), `OldOutcomesAreRejected` (LateOutcomesAreRejected), `TheElectedIsInUse` (ElectedIsInUse) |
| `SubscriptionsProofs` | `QuotaInvariance`, `AnnouncementsReachTheUser` (AnnouncementsAreKept), `MishapsBoundRepeats` (ShownOncePerMishap), `OnlyTheWantedIsShown` (ShownWhileWanted), `ExcessesAreToldOnce` (AnnouncedOnce), `SwitchInvariance`, `SwitchTypeCorrect`, `SettingsSurvive` (SettingsAreTheUsers) |
| `UsageHistoryProofs` | `TheCheckpointIsKept` (CheckpointIsKept), `HistoryTypes`, `HistoryInvariance`, `TheLatestReachTheCache` (LatestReachesTheCache), `WindowInvariance`, `TheWindowIsComplete` (WindowIsComplete) |
| `NotificationsProofs` | `NotificationInvariant`, `NotificationTypesCorrect`, `OneCardMovesAlways` (OneCardMoves), `NothingLeavesUnseenAlways` (NothingLeavesUnseen) |

Five properties among these are proved and belong to no run: `CacheIsCurrent`, `RunningIsJoinable`,
`GateHoldersWork`, `OneOwner` and `LeaseSeesPresent`, and so are the type invariants. TLC has checked
them, and each inductive invariant, on the instances of section 4 before they were proved.

**Live resource cache.** `AnswersAreCurrent` is not inductive: an answer comes from the cache or from a
flight. The invariant follows the value. What is acknowledged has been invalidated
(`AcksFollowBarriers`), whatever is cached or fetched *in the current generation* is not older than the
last invalidation (`ValuesFollowBarriers`), and therefore not older than what was acknowledged when the
read began. The generation is what a late fetch is recognised by, so a live leader of the current
generation must own the flight (`FlightsHaveLeaders`), and the waiters of an entry are exactly the
readers that wait for it (`WaitersMatch`), for otherwise an invalidation would turn away too few.
`Implementation` maps each step to one of `LiveRead` or to a stutter: a call begins an abstract read; the
end of a flight answers its leader and all its waiters in one abstract step, each with a revision between
its floor and the upstream's, which is where `IndInv` is needed; an invalidation answers its waiters
with an error; caching, clean-up and expiry are stutters.

**Synchronisation.** `SingleRun` follows from `RunningIsJoinable`: two running tasks of a scope are both
the one in the map. That a replacement is not made on a stale finding needs `ReplacesFinished`: who
is about to replace a task refers to it, so its handle cannot be used again and it stays finished. For
fresh answers, `EndedStaysEnded` carries the task that was over when the call began. `WaitersListen`
and `OwnersWait` keep handles from being reused under a waiter or an owner. `RetainedRunsStay` is
about steps: only a run of a scope that is not retained removes its task, and a replacement puts
another in its place.

**Account work.** A first invariant takes any queue: `LeaseHeld` (a worker whose lease has not expired
under it holds it, and only the holder's release and expiry remove it) and `WorkKept` (what is owed is
queued, still to be done in this round, or about to be queued again). A second one, `DemandInv`, is about
the queue: what an instance has in it is due there, on its worker, or withdrawn by the step that ends its
dueness (`DemandsFit`), from which `OnlyDueWork`. Its difficulty is that the number of aged demands,
which are first in the queue, must still be one of the queue after a removal. `Without` keeps the
demands of the others by their rank, and the proof shows that ranks are a bijection onto an initial
segment, by an induction over natural numbers that `SetInduction` derives from their well-foundedness.

**Request budget.** A permit is only given within both limits; who sends under a live permit has one;
and abandoned transactions belong to calls that are over. The last is what makes a late acquisition
harmless: its permit counts although nobody uses it.

**Failover.** *Writes*: a write that is still to be sent has had no effect; one that is being sent has
no retry left; and once an address may have done what it asks, the write is in its commit, its
conclusion or over, and nothing leads back from there. *Fencing*: whoever completes an evaluation also
removes the lease, so that none is completed beside the one that holds it. *Addresses*: the revision of
an address grows with all that changes what is known about it, and `FailoverInv` says of every request,
in each of its phases, that the revisions it works from are of the past, and strictly so for the
addresses that have changed since it asked them (`Observed`, with the history variable `overtaken`).
Hence an outcome that is accepted, because its revision is the present one, is not of those
(`OldOutcomesAreRejected`), and a request that completes an evaluation leaves active the address that
answered it (`TheElectedIsInUse`). `TransitionsTellActive` is part of it.

**Quota alerts.** Four properties from one invariant. Two gates carry it: while an evaluation is reading,
nobody changes what it has read, unless the subject itself is deleted (`ReadingIsCurrent`), and while a
claim is being sent, no deletion takes its event away (`ClaimsAreStored`). Events are numbered, so that
a window tells which event announced it. `ShownOncePerMishap` needs the count of what may still happen: a
channel that may show its event again (`MayBeShown`: not final, claimed, or about to be tried again) has
one mishap for each time that it did (`RepeatsAreMishaps`).

**Session.** What the site does not accept it never accepts again, since sessions are numbered as they
are issued. So what the holder of the gate was told of the saved session stays true (`HolderKnows`),
unless somebody saves one past the gate, which `meanwhile` remembers. A request that is repeated was
denied, and a denied request had no effect (`TaskDid`).

**Usage history.** `CheckpointIsTrue` is no invariant of the code (the third finding), `CheckpointIsKept`
is, and needs that no record comes to a closed day. Whatever is before the checkpoint, before the date
that was left unfinished and before the date under way is in the cache (`Checkpoints`); a read of the
recent days uses the second for its own, which is what the finding is about. *Newest pages*: records
arrive at the front and shift those behind, so a record that was to come is on a later page or has been
brought: whoever of what is wanted has fewer newer ones than the pages read so far hold was brought
(`PagesHold`). *Pages of a date*: records that come late only move others to later pages; a page that was
asked for is with its reader or stored (`PageIsSafe`), and what the snapshot had on it is on it or was
there before. Both count with the cardinalities of sets of records.

**Switching.** An evaluation writes back the whole rule that it read, long after it read it and after a
request to the site. `CallersKnow` says why this undoes nothing that a user did: whoever has read the rule
holds the gate of the account, a user who saves settings or deletes the rule needs that gate, and so the
rule that was read and the one that is to be written both have the settings that were saved last. Clearing
the data and removing the account or its site take no such gate: what was read then has the settings that
were deleted under it (`InForce`). These may come back (`TakenAwayStep`), but not for an account that is
gone, whose rows the database refuses. A restart gives the gate away and forgets all copies. That the key is only moved to a group of its chain is part of the types: the
first eligible node is the least index of a set of indices, which exists because the natural numbers are
well-founded.

**Notifications.** `OneCardMoves` is about the queue alone, `NothingLeavesUnseen` about everything around
it, and both rest on the functions of the queue. Of each of them one lemma says that it leads from a
healthy queue (`Healthy`: one card moves, none is there twice, all have a place, the keys of all are
taken) to a healthy one, and another what it brings and shows (`From`): nothing comes but what it is
given, and nothing is before the reader's eyes but what was, or what it is asked for. What a function
removes from a sequence (`Kept`) is counted, so that the order and the absence of doubles survive; a fold
over the items of a snapshot keeps what each of its steps keeps (`FoldsOf`, by induction over its length).
With them the invariant follows what the program tells: a snapshot on its way tells of whatever an earlier
one told of, or that has been shown since (`LaterTellsMore`), so a snapshot that is applied takes nothing
away unseen, and the queue holds only what the mailbox still does or has shown (`QueueIsTold`). What
a snapshot asks to leave is what it no longer tells of; hence whatever leaves, and whatever is being
dismissed, has been shown (`LeavesShown`). Besides a dismissal only pruning, clearing and the removal of an
account take from the outbox, whether or not it was seen; `discarded` remembers what they took.

**Out of reach of the provers**: liveness (no fairness, no `ENABLED`), which are `EveryReadEnds`,
`EveryRunCompletes`, `EveryDemandIsServed`, `EveryCallIsServed`, `EveryRequestEnds`, `EveryEventEnds`,
`SessionIsRecovered`, `KeyComesToRest`, `RuleTellsTheKey`, `EveryRecordArrives`, `EveryEditEnds` and
`EveryNotificationLeaves`. Every invariant and every action property of the runs that pass is proved.

## 6. Findings

**`sync_wakeup`.** `wait_for_sync_task` (`app/data_center_service.rs`, from line 694) reads that its task
is not completed, drops the lock, and only then asks for the notification (line 722). The run completes
and calls `notify_waiters` once (line 646), which stores no permit. If this comes in between, the
caller waits although its result is there; nothing wakes it, unless it is dropped. The test
`same_account_same_scope_joins_single_flight_run` awaits both callers on a single-threaded runtime,
on which nothing can come in between. `EveryRunCompletes` holds all the same: it is the caller that
hangs, not the run.

**`quota_switched`.** After its claim the dispatcher waits for the gate of the account, and then reads
only the switch of the account (`app/subscription_quota_alert_dispatcher.rs:83`). If alerts were switched
off and on again meanwhile, it delivers an event that the first change terminated, and finds only
afterwards that its claim is gone. The repository says of that termination that it ends deliveries that
were claimed and not yet made. `ShownWhileWanted` holds all the same: alerts are on when it is shown.

**`usage_checkpoint`.** A user who synchronises the usage while the history is incomplete marks yesterday
and today as the active date of the history (`app/data_center_service.rs:3051`); if that read fails or is
dropped, the mark stays, the history resumes there on a later day, and `completed_through_date` jumps over
days that were never read.

**`notifications_dismissal`.** A detail that is dismissed while another card moves queues its card to
exit. If it is dismissed again while a card enters (`web/app/FloatingNotificationWindowRoot.tsx:249`), the
entering card is made visible at once, the exit is queued already, and nothing moves any more whose end
would look at the queue: it stays.

Observations that are no disagreement with any statement of the repository:

- a mutation of a key whose answer is lost invalidates nothing, so that a cached list may stay older
  than the upstream until it expires, which is why `AnswersAreCurrent` speaks of acknowledged mutations;
- a write whose lease expires while its answer is on the way is reported as an error although it took
  effect (`RejectedWritesHadNoEffect` is about other results);
- clearing the data of the device takes the gate of the deliveries (`app/maintenance_service.rs:9`) and
  not that of the rules of switching: an evaluation that has read a rule inserts it again when it saves
  (`subscription_switch_rules.rs:28`), with the settings it had, until the user changes or deletes it (the
  exception in `SettingsAreTheUsers`);
- what tells of usage and is not seen within seven days is pruned from the outbox
  (`app/scheduler_service.rs:600`), which a test of the repository asks for: as long as the program runs the
  mailbox still holds it, after a restart it is gone (the exception in `NothingLeavesUnseen`);
- clearing the data of the device (`maintenance.rs`, lines 12 to 46 of the repository) deletes the rows
  of account_usage_row_cache and keeps account_usage_history_states: the checkpoint stands, and the
  history is not read again (`disturbed` in `CheckpointIsKept`).

## 7. Limits

**Only checked**: the properties at the end of [5](#5-proofs).

**Hazards without a property** are in `PROJECT.json` with a note: the postponing of history that was
granted together with more urgent work (`app/scheduler_service.rs:546`: whether it is starved depends on
how long the deadlines are).

**Modelled in part** (the notes in `PROJECT.json` say what is left out): the coordinator's gates and
semaphores, the progress of synchronisation runs, the limits that can be configured at run time, the
retries' durations, statistics and prices over the usage, how long a card is shown, the copies of the
preferences that windows pass to each other.

**Not modelled**:

- the feed of transitions, the scoped cache and the shared selection of the front end: small protocols
  of their own, next if the model is extended;
- database storage and migration, maintenance: one sequential procedure each, over files or rows;
- sites, accounts, keys, profiles, schema and repositories: statements over single rows; the key
  mutations that matter to live reads are in `ResourceCoordinator`;
- dashboard, endpoints, status, radar, the HTTP client, adapters, contracts: reading, formats, routing;
- preload and warm-up of pages, windows, pages: one task at a time, or presentation.

**Abstractions that all modules share**: time is what it does (something expires, ages, comes due), not a
number, except for cooldowns and days; the database serves one transaction at a time; the payload of an
answer is a revision, a session, a verdict or nothing; logging, formats and wording are left out.
