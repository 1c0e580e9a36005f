# TLA+ models of NEURO COMMENTING

NEURO COMMENTING is a multi-tenant service that runs Telegram accounts: worker processes claim
accounts and comment with them, single-purpose workers package, audit and recover accounts, farms
of accounts comment under one configuration, and a FastAPI application with a React frontend sells
and controls all this. The processes share a Postgres database and a Redis server; most of what is
hard about the program is in what several of them do to the same rows, keys and connections.

This directory holds TLA+ models of the parts where that matters most, the TLC configurations that
check them, and TLAPS proofs about each of them. `PROJECT.json` maps every definition to the lines it
models and lists components, runs, mutants, findings, hazards and theorems.

## How to run

    tlc -workers 2 -config RetryWorker.cfg MCRetryWorker     # any run: its cfg and its MC module
    tlapm RetryWorkerProofs.tla

## Inventory

| Component | State it keeps | Operations | Interacts with |
| --- | --- | --- | --- |
| Leased task queue (`core/task_queue.py`) | per queue four Redis keys: pending list, `:processing` list, `:leases` hash, `:dlq` list | enqueue, reserve (with recovery of expired leases), ack, requeue, dead_letter, purge_queue, dequeue | every producer and worker |
| Retry workers (`recovery_worker.py`, `parser_service.py`, `packager_worker.py`, `core/assistant_jobs.py`) | the task in hand | reserve / job / ack, requeue or dead_letter | queue; `recovery_worker` may clear all claims |
| Account claims (`core/redis_state.py`) | `worker_claim:<phone>` with a TTL | claim, renew, release, clear all | workers, reset, recovery |
| Comment worker (`worker.py`) | `claimed_phones`, connected clients, five loops | start, stop, claim, connect, renew, comment, health | claims, queue, session manager |
| Session manager (`core/session_manager.py`) | clients by phone, session owners, LRU times | connect, disconnect, evict | Telegram, proxies |
| Session pool (`core/session_pool.py`) | entries by account, IN_USE flags, a lock per account, one pool lock | get, release, cached get/release, disconnect, evict idle | warm-up engine, farm threads, packaging pipeline |
| Farm jobs (`core/farm_jobs.py`, `ops_api.py`) | job rows and queue entries | enqueue, dequeue, run, fail | Postgres, queue |
| Farm orchestrator and threads (`core/farm_orchestrator.py`, `core/farm_thread.py`) | `_active_farms`, farm and thread rows, asyncio tasks | start, stop, pause, resume, redistribute | Postgres, session pool |
| Account lifecycle and quarantine (`core/account_lifecycle.py`, `core/quarantine_manager.py`) | `lifecycle_stage`, thread status | transition, auto_advance, quarantine, lift | every writer of the stage |
| Billing (`core/billing_service.py`, endpoints in `ops_api.py`) | subscription rows, payments, payment events | checkout, payment, Stripe and YooKassa webhooks, trial, subscribe, cancel | external payment services, login |
| Web sessions (`core/web_auth.py`) | refresh token rows | login, refresh, logout, revoke all | frontend |
| Proxy router (`core/proxy_router.py`) | `Account.proxy_id` | assign, rebalance | accounts, proxies |
| Scheduler (`scheduler_service.py`) | runtime flags, engine state | reconcile, recovery, digest | Redis, engine |
| AI router (`core/ai_router.py`) | request and budget rows | route, guard the budget | model providers |
| The rest (warm-up, engines, bots, content, analytics, frontend, migrations) | | I/O and presentation | |

What is hard, and what makes each part correct:

* **Queue and workers.** Each method is several Redis commands with an await between them; every
  consumer recovers the expired leases of all; ack looks a lease up by task id alone; a worker may
  die at any command. Correct: no task vanishes, none is duplicated without need, a consumer
  settles its own delivery, attempts are counted right, every task is settled in the end.
* **Claims and workers.** Claims expire; renewal and release read and write in two commands; an
  operator's reset or a recovery task deletes all claims; shutdown runs beside the loops it ends.
  Correct: two workers use one account only after its claim has lapsed, a loss is noticed, an
  orphan becomes free.
* **Session pool.** Two kinds of locks, calls that fail in the middle, evictions that run beside
  calls. Correct: one client per account, entries and connections stay bounded, locks are always
  given back, every call returns.
* **Farms.** Rows and memory disagree while a call awaits, calls overlap; a thread is told to stop,
  pause or rest while it is busy, and waits for Telegram while it is stopped. Correct: no runner works
  on after the last stop, none comments on after it was told to be quiet or during a rest.
* **Farm jobs.** They are queued before their row is committed and taken with BRPOP; those that
  control a farm raise. Correct: no job stuck as queued.
* **Billing.** Webhooks are repeated and reordered, transactions overlap and fail. Correct: one
  subscription per tenant, a checkout leads to one, access follows what was asked and paid.
* **Web sessions.** Correct: one refresh token of a chain is valid at a time, logout is final.
* **Lifecycle.** Correct: every change of stage follows `TRANSITIONS`.

## Modules

| Module | Models |
| --- | --- |
| `TaskQueue` | `core/task_queue.py`, one Redis command per action |
| `RetryWorker` (extends `TaskQueue`) | the workers' loop, faults, and the properties of both |
| `AtLeastOnce` | what a leased queue promises: the abstract specification `RetryWorker` implements |
| `RetryWorkerProofs` | TLAPS proofs about `RetryWorker`: types, attempts, the refinement of `AtLeastOnce` |
| `RetryWorkerCopyProofs` (extends `RetryWorkerProofs`) | TLAPS proofs about `RetryWorker`: copies, own deliveries, stranded and settled tasks |
| `WorkerClaims` | claim keys and the worker processes that hold them |
| `WorkerClaimsProofs` | TLAPS proofs about `WorkerClaims` |
| `SessionPool` | the pool and its callers in one event loop |
| `SessionPoolProofs` | TLAPS proofs about `SessionPool` |
| `Billing` | one tenant's subscriptions, its requests and the providers' webhooks |
| `Subscription` | what billing promises as long as requests do not overlap: the abstract specification `Billing` implements |
| `BillingProofs` | TLAPS proofs about `Billing` |
| `Farm` | the calls of the farm orchestrator for one farm and its runners in one event loop |
| `FarmProofs` | TLAPS proofs about `Farm` |
| `MC...` | symmetry and one bound (`Few`) for TLC; the constants are in the `.cfg` files |

A definition with the comment "Mutant:" stands beside the one it distorts. No specification uses
it; it is there to show that a property notices the mistake (PROJECT.json, "mutants").

### TaskQueue and RetryWorker

`pending`, `processing`, `leases` and `dlq` are the four keys; `processing` is a bag because only
LREM looks into it. A payload is its task id, its `_attempts` and the call that wrote its text
(`via`), because LREM compares whole texts; two texts of one origin and one counter that would
differ in a detail (`_last_requeue_reason`) are taken for equal, which lets LREM remove more than
it may. `dlq` holds the payload as its consumer got it. `pc` names the next command of a client,
`task`, `target` and `snap` are its locals. `recover_expired_leases()` reads the hash in
`ReadLeases` and then works from its snapshot, one LREM, HDEL and LPUSH at a time, while others
run; deadlines are the flag `expired`, which `LeaseExpires` sets at any time. `Policy` is the
workers' except clause: recovery and parser workers know the outcomes `ok` and `error`, the
packager `fatal` too, and assistant jobs are `MaxAttempts = 0`.

`settled`, `lost`, `delivered`, `overrun`, `reopened` and `faults` are history: what an ack or dead
letter has ended, what a fault took, how often `reserve()` returned a task, under which tasks a
lease expired while its owner was at work, and which ones an ack removed before its HDEL failed,
so that its caller took it for an error of the job (`AckFails`).

The model shows what these two exceptions are worth: a worker that outlives its lease may settle
another's delivery and leave two copies, and an ack that fails after its LREM runs a finished task
again. Without either, a task is at one place at a time and stays settled.

Bounds: `MaxFaults` (kills, failed commands, purges), `MaxAtt` (a lease on a payload with that
counter no longer expires: it bounds how often a task goes round). `MaxAtt` is two rounds more
than `MaxAttempts`, so that tasks pass the limit by errors, by expiries and by both.

Not modelled: payloads that are not JSON (nothing writes one), `store_task_status`, the
`_heartbeat` calls, the comment worker's own policy (burst pauses, requeues without limit).

### WorkerClaims

An action is a Redis command or an await. `pc` is where `start()` is, `stop` where `stop()` is:
they are two coroutines of one process, and `Exit` is `asyncio.run()` cancelling the second when
the first returns. A `stop()` that comes while the accounts still connect does not end `start()`:
it goes on into the loops with a closed Redis connection (`RenewFails` from then on), as the code
does. Time is counted in renewal periods: `Tick` ends one. A renewal pass that has not ended by
then is late, which counts as an incident, as do crashes, signals, failed commands and resets
(`MaxIncidents`). `Ttl` is at least two periods (`ClaimsAssumption`): `CLAIM_TTL` is
twice the sleep of the renewal loop (`worker.py:402`). `lapsed` and `slipped` are history: the accounts whose claim ended under its
holder, and those whose claim ended between the GET and the DEL of a release.

Not modelled: which accounts the database calls eligible (any unclaimed one may be found), the
policy checks, the comment, health and keepalive loops, which use `claimed_phones` and do not
change it, `CONNECT_BATCH_SIZE` (any order of connects).

### SessionPool

`running` is the task the event loop runs: it goes on, action by action, until it is `Suspended`,
that is, it awaits the network, the database or a lock that is taken. `Scheduled`, the last conjunct
of every action of a task, keeps the others waiting until then, so two tasks interleave only where
asyncio lets them. `_pool_lock` is held over a suspension only in `Reject`; elsewhere it is a guard.
`lockOf` is the dict of account locks; a lock is told from its
successor, because eviction removes a lock from the dict while it is held. Bounds: `MaxClients`
clients of one account at a time; a lock or client number is used again once nothing refers to it.
`replaced` (the accounts that got a new lock while a task still had the old one) and `leaked` are
history for the known ways to a client the pool does not know. `leaked` holds the connected clients an
error has left behind: `client.connect()` raises although the connection is there, which Telethon does
for a revoked or duplicated key (`session_pool.py:555-567`; nothing disconnects the client);
`is_user_authorized()` raises something that nobody expects (583); a `disconnect()` fails and is
swallowed (231, 425, 578, 588). `MaxMishaps` bounds both: such an error happens only while fewer
clients are in `leaked` and accounts in `replaced`; and the constraint `Few` of `MCSessionPool` drops, once a
client was left behind, the states in which both accounts got a second lock. The properties name the two and say what they leave
intact: other clients, the entries, the locks.

`PoolWithinCeiling` counts entries. The module's docstrings promise more, "a hard ceiling on
simultaneous connections" (`session_pool.py:5`, also 126), and the code does not keep that: two misses
pass the first look at the capacity (202) together and both are connected before the second (228), and
an evicted client is still connected (424) after its place is free. What holds is
`ConnectedWithinReach`: beyond the ceiling there is one connection at most for each call at such a
point.

`evict_idle_clients()`, `disconnect_client()` and `disconnect_all()` have no caller outside the
tests at this commit; they are part of the public interface and of the model.
Not modelled: cancellation of a caller in the middle of a call.

### Billing and Subscription

A request runs in one transaction: `Receive` begins it, `Load` is its queries, `Commit` its writes and
their commit. Under READ COMMITTED two transactions read the same state and both write; the ORM writes
the columns that differ from the row it has loaded, so `Write` merges what a handler read (`was`), what
it wants (`Asked`) and what the row is by then. `rows` are the tenant's rows in the order of
`created_at`. Any exception, or the end of the process, rolls back (`Abort`), and the provider sends
again.

`sent` is what has happened at the providers and in the browser: an event is reported only for
something that exists there (`Issue`), and then received any number of times, late and in any
order. `answered`, `stale`, `raced` and `faults` are history: the events a webhook has answered with
success; the handlers whose reads another has overtaken; whether one of those has committed.

`Subscription` knows one status and one of Stripe's ids. The newest row maps `Billing` to it; after a
race (`raced`) it promises nothing more.

Three things in the code end a request before it has changed anything, and the model has all three:

* `record_payment()` always raises (`RecordFails`). Its INSERT says `:metadata::jsonb` in a `text()`
  query (`billing_service.py:482`), which keeps the parameter `metadata` from being bound. So the table
  `payments` stays empty, the look for a payment already recorded (1098) never finds one and is left
  out, `invoice.paid` of a known subscription and `payment.succeeded` are answered 500 for ever, and the
  report of a payment never activates a subscription. Two callers swallow the exception. `create_yookassa_payment()` (1373) has nothing to
  lose. The report of a cancelled payment (1066) is answered; whether its new status stays depends on
  who rejects the statement: SQLAlchemy, before it reaches the database (the status is committed), or
  Postgres (the transaction is over, it is lost). Both are in the model.
* The endpoints that start a trial, subscribe and cancel call `session.begin()` (`ops_api.py:9480`, 9508,
  9554) in the session `tenant_session()` has already begun (1436): `InvalidRequestError` (`Begin`). One
  request of the kind `direct` stands for the three.
* The webhooks set no `app.tenant_id`, and the tables have forced row level security
  (`alembic/versions/20260314_33_billing_sprint13.py:72-91`). Where the application's role is subject to it
  (`docker/postgres/init/01-app-role.sh`; `README.md:293` of the repository says what becomes of an older
  volume) a webhook sees no row (`Hidden`) and the row of a checkout is refused (`InsertRefused`).
  `rowSecurity` is chosen once, in `Init`; the runs and theorems cover both. With SQLite there would be
  neither this nor READ COMMITTED; it is not modelled.

The docstrings of the webhooks say that they always return 200 so that the provider does not repeat an
event (`ops_api.py:9623`, 9645). The code returns 200 for a `BillingError` only, of which the handlers
of events raise none; anything else is a 500, and it is the repetition that makes `CheckoutLands` true
after a failure. With row level security a checkout is repeated until Stripe gives up and never lands;
`CheckoutLands` says nothing about that case.

What the code does and nothing in it forbids, so that no property does either: `invoice.paid` that
arrives before `checkout.session.completed` finds no row, is answered and forgotten; a checkout that
comes again late makes a cancelled subscription active; `active` never ends by itself.

Bounds: `MaxRows` (a row per handler, so that both may insert one), `MaxSent` (different requests),
`MaxFaults`, `Updates` (which statuses `customer.subscription.updated` reports; one of those that
differ from the others in nothing but the name). Not modelled: plans and periods, amounts, the audit
table `payment_events`, e-mails, `refund.succeeded` and `create_stripe_checkout()`, which change nothing
here, and a checkout without the tenant or the plan in its metadata, which is answered and skipped.

### Farm

An action goes from one await to the next. `registry[o]` is the entry of the farm in the
orchestrator's `_active_farms`, `farm` the status of its row. `at` is where a call is: `find` (before
it looks up the entry), `wait` (`asyncio.wait` in `stop_farm()`), `mark` (before the commit), `spawn`,
`forget` (before the `del`); `mine` is the entry it has found or the runners it has made.

The calls are those of the orchestrator's public interface, in any order. Its one caller in the
repository, `_handle_farm_control()` of `core/farm_jobs.py`, never makes one: it calls
`SessionManager(settings)` (167), `SessionManager.__init__` takes no argument
(`core/session_manager.py:44`), and the `TypeError` ends every start, stop, pause and resume job
(`Job`). So what the runs show of `stop_farm()` and the runners is what a caller of the orchestrator
gets, and not yet what the service does. Mended, each job would have an orchestrator of its own, whose
registry is empty: `Call` lets a call go to any of `Orch`.

A runner is a `FarmThread` with its task. `pc` follows `run()`: `top` is the head of the loop with
its waits and the poll, `post` the head of the loop over the posts, `compose` everything up to the
typing that follows the look at the stop event after the delay, `send` what comes then: the text, or
by default (`apply_emoji_trick()`) an emoji that `edit` replaces by the text. When a runner has ended
its flags are reset (`Finish`): nothing reads them, and the states that differ in them alone are one.

`rest` is a flood wait or mute not yet over, `mode` the state that makes the loop wait for it. A rest is
`ordered` by `handle_flood_wait()` and `handle_mute()`. It is `swallowed`, and orders nothing, where
`apply_emoji_trick()` meets anything but a `FloodWaitError` (`core/smart_commenter.py:1069`), so a mute
on the default path, and where the typing meets a flood wait (`core/anti_detection.py:100`): the runner
goes on with the next post, although `farm_thread.py:13` and 962 say that a muted thread goes into
quarantine. A flood wait met while a channel is joined is forgotten by the transition to monitoring
(`Join`). `RestRespected` speaks of the rests ordered.

`extra` and `halted` are history: the comments a runner published since it was told to be quiet, and
the starts that had been called when `stop_farm()` last looked the farm up. `StopIsFinal` is what the
comment in `start_farm()` claims of the registry, and it fails: the entry is written after the awaits,
so a stop in between finds none. Beside it the model shows that of two stops that overlap the second
deletes an entry a start has made in between, or raises at the `del`.

Bounds: `MaxStarts` (sets of runners), `MaxCalls` (jobs count as calls). Not modelled: the channels of a
runner (`_split_evenly` may return fewer chunks than accounts, so `Spawn` leaves any of the rows out),
what is published and counted, the rows of `farm_threads` and the account lifecycle, which no code
here reads back, `quarantine_until` in the database, which `start_farm()` does not read either, and
`redistribute_on_failure()`, which nothing calls.

## Runs

| Run | Instance | Shows |
| --- | --- | --- |
| `RetryWorker` | 2 workers, 1 task, `MaxAttempts` 1, `MaxAtt` 3, 2 faults; 1.1 M states | type, no vanishing, one copy unless a lease is overrun, own delivery, attempts, nothing stranded without a fault, settled for good |
| `JobWorker` | 2 workers, 2 tasks, `MaxAttempts` 0, 1 fault; 0.4 M states | every task is settled, unless lost, overrun or stranded; implements `AtLeastOnce` |
| `ReserveCrash` | 1 worker, 1 task, 1 fault | violation: `reserve()` is not atomic |
| `WorkerClaims` | 2 workers, 2 accounts, 1 incident; 1.5 M states | exclusive claims and clients, claims end by their owner, a worker on time keeps its claims |
| `WorkerClaimsLive` | 2 workers, 1 account, 2 incidents; 0.3 M states | losses are noticed, orphans expire |
| `GracefulStop` | 1 worker, 1 account | violation: `stop()` is cancelled before it releases |
| `SessionPool` | 2 tasks, 2 accounts, 1 place, 1 lock, 1 mishap; 3.7 M states | ceiling on entries, bound on connections, one client unless a lock was replaced, locks are given back, nobody waits in a circle, no client is forgotten but by an error |
| `SessionPoolLive` | the same with 1 client per account and no mishap; 0.4 M states | every call returns |
| `SessionTwice` | 2 tasks, 1 account | violation: an account with two clients |
| `Billing` | 2 handlers, 2 Stripe subscriptions, a YooKassa payment, 3 requests, 1 failure, row level security or not; 0.4 M states | one subscription unless transactions race; an answered checkout has left one; implements `Subscription`; checkouts land |
| `Farm` | 2 calls at a time, 1 orchestrator, 1 row, 2 starts, 4 calls; 0.4 M states | last comment, rests ordered, a stop holds on and ends |
| `FarmStop` | 1 orchestrator, a start and a stop | violation: a stop that comes before the farm is registered does not stop it |

Why the bounds are enough: the races above are between two actors about one task, account or lock;
a second task or account is there where they share something (the list, the ceiling, the dict of
locks). Two incidents are needed to lose a claim and then meet another failure; one is enough for
every safety property of the claims, and two with two accounts is beyond TLC's reach here. One mishap
in the pool leaves a client behind; what matters is that it takes nothing from the other calls. Two
handlers race in billing as any number does, and three requests are a subscription, what follows it and
what ends it, or two checkouts and a report about one of them. Two starts and four calls let a start
and a stop overlap and another pair follow; a second orchestrator is beyond TLC's reach with them, and
two runners on two orchestrators share nothing. All runs but `Farm`, `FarmStop` and `SessionPoolLive`
check deadlock: `SessionPoolLive` reports one as the call that does not return, and a farm really may
stop, when its calls are used up and nobody runs.

The four violations are findings, with the lines they contradict, in PROJECT.json.

## Fairness

* `RetryWorker`: weak fairness of each worker's next command and restart (an event loop, a
  supervisor: `docker-compose.yml` restarts the services), and of the expiry of each lease (time
  passes). Nothing is assumed about faults or producers.
* `WorkerClaims`: weak fairness of each process's coroutines and of the end of a period. Shutdown
  and crashes are not fair.
* `SessionPool`: strong fairness of each task's next step, because an `asyncio.Lock` is handed to
  its waiters first come, first served, and network calls return or time out. That a caller
  releases its client is not assumed.
* `Billing`: weak fairness of a handler's next query or commit, strong fairness of the delivery of a
  checkout that is not answered: Stripe repeats a webhook until it gets a 2xx, and the code answers
  500 after any failure, whatever its docstring says (`ops_api.py:9623`).
* `Farm`: weak fairness of a call's next step (the database answers or raises, the wait has a
  timeout) and of the `CancelledError` of a cancelled task. Nothing is assumed about runners: each
  may wait for Telegram for ever.

## Proofs

`RetryWorkerProofs` proves for all tasks, consumers and bounds (from `QueueAssumption` and
`WorkerAssumption`):

* `TypeCorrect`: `Spec => []TypeOK`. The invariant `TypeInv` adds to the types which local is set
  at which label; without it, `LREM` and `HDEL` might be applied to no payload.
* `AttemptsCorrect`: `Spec => []AttemptsAreDeliveries`. The property is not inductive: a payload
  also travels through locals, leases and snapshots. `AttemptsInv` bounds the counter in each of
  these places, strictly below `delivered` wherever the next text has one attempt more.
* `Implements`: `Spec => PromiseKept`, the refinement of `AtLeastOnce` with `live <- Live`.
  `KnownInv` says that every payload anywhere is of a submitted task; `NextPromise` then maps
  every step to an abstract step or a stutter.
* `NoTaskVanishes`: `Spec => []NothingVanishes`. `AtLeastOnce` keeps it (a lemma about the abstract
  specification alone), and the refinement carries it over.

`RetryWorkerCopyProofs` proves, from the same assumptions:

* `OneCopy`: `Spec => []OneCopyUnlessOverrun`. A count of copies says too little to be inductive; the
  invariant is `OnePlace`: a task is pending once, or in `:processing` once, or with one client, and
  in both of the last only from the pop to the LREM. Two things threaten it, a lease and a snapshot
  from the past. `OwnLease` says that a client at work has its own lease or none; `OldLease` and
  `OldSnap` that any other lease and every payload in a snapshot has fewer attempts than the copy
  that is pending or with a client (`Older`), so that LREM finds no such text but the one that is
  still in `:processing`. Lemmas say what a calm step, a push, a pop and a removal do to `OnePlace`
  and `Older` (`CalmPlace`, `PushedPlace`, `PoppedPlace`, `RemovedPlace`, ...); `NextPlaces` goes
  through the actions. `OnePlaceOneCopy` counts: each of the three sets has one element at most.
* `SettlesOwn`: `Spec => []SettlesOwnDelivery`, a part of the same invariant.
* `ReservedUnlessFault`: `Spec => []StrandedOnlyByFault`. As long as nothing has failed,
  `Undisturbed` says that a payload in `:processing` has a client, a lease has its owner at work,
  and no recovery is concerned with the task.
* `SettledOnce`: `Spec => []SettledIsFinal`, from `SettledInv`: a settled task is at rest, in no list
  and with no client but the one about to finish its ack. `OnePlace` is what makes the LREM of an
  ack, or the LPUSH of a dead letter, take the only copy there is.

`WorkerClaimsProofs` proves for all phones, workers and bounds (from `ClaimsAssumption`):

* `ClaimTypes`: `Spec => []TypeOK`, inductive as it stands.
* `ClaimsAreExclusive`: `Spec => []ExclusiveClaims`. The invariant is `HeldInv`: whatever a running
  worker counts as claimed is its own in Redis or has lapsed, and the phone a stopping worker is
  about to DEL is its own unless its claim has ended since the GET. `VanishHeld` says why a deadline
  or a reset keeps it: what they end goes into `lapsed` and `slipped`.
* `ClaimsEndProperly`: `Spec => ClaimEndsByOwner`, an action property, from the same invariant: the
  DEL of a release only meets a claim of its own worker, unless that claim slipped away in between.
* `ClientsAreExclusive`: `Spec => []OneClientPerAccount`, from `ConnectedInv`: the connected clients
  of a running worker are among its claimed accounts or the lapsed ones.
* `OnTimeKeepsClaims`: `Spec => RunningKeepsClaims`, an action property. `RenewedInv` says, as long as
  nothing has gone wrong, that every claim the pass of this period has visited has its full TTL. A
  period that is on time ends after its pass, so no claim is in its last period then. It needs
  `Ttl >= 2`: with a single period a claim would end although it has just been renewed.

`SessionPoolProofs` proves for all accounts, tasks and limits (from `PoolAssumption`):

* `PoolTypes`: `Spec => []TypeOK`. `TypeInv` adds what a task's label says about its locals. That
  there is always a new lock number (`NewLock`) is a pigeonhole argument.
* `CeilingHolds`: `Spec => []PoolWithinCeiling`: only `Insert` adds an entry, and only below the
  ceiling.
* `ConnectionsBounded`: `Spec => []ConnectedWithinReach`, by counting: by `OwnInv` (below) each
  connection that counts is the entry of its account or in the hand of a call under way.
* `LocksAreReturned`: `Spec => []QuietIsUnlocked`, from `LocksInv`: who holds a lock has it in
  hand, at a label inside the block that takes it.
* `OneClient` and `NoneForgotten`: `Spec => []OneClientUnlessReplaced`, `Spec => []NoClientForgotten`.
  The history of the dict of locks comes in by `replaced`: for an account that is not in it, all
  callers with a lock have the same one, and no other is in the dict (`OneLockInv`); who is inside
  holds it (`HoldInv`). `EntryInv` and `OnlyInv` say where the account's clients are then: in the pool,
  or in the hand of the one call inside the lock. `OwnInv` is their conjunction.
* `WaitsEnd`: `Spec => []NoCircularWait`, from `LocksInv`: who holds a lock is inside the block that
  takes it and waits for no account lock, and who holds `_pool_lock` waits for nothing.

`BillingProofs` proves for all handlers, requests and bounds (from `BillingAssumption` and
`NoneAssumption`), with row level security and without:

* `TypeCorrect`: `Spec => []TypeOK`, with what a handler's label says of its locals (`LocalsOK`).
* `CheckoutStands`: `Spec => []AnsweredCheckoutStands`. Rows stay, a checkout is answered by its commit
  alone (`NextStands`), and that leaves a row (`CommitTypes`).
* `OneSubscription`: `Spec => []OneSubscriptionUnlessRaced`, which is not inductive: what matters is what
  a handler has read. `Alone` says, as long as nothing has raced, that there is one row at most and
  that a handler that is not stale still sees what it has read (`Fresh`).
* `Implements`: `Spec => ImplementsSubscription`, from the same invariant: a commit that is not stale is
  a trial, a checkout, a report followed or a payment lapsed (`CommitIdeal`), one that is sets `raced`.

`FarmProofs` proves for all callers, orchestrators, rows and bounds (from `FarmAssumption` and
`NoneAssumption`):

* `TypeCorrect`: `Spec => []TypeOK`, with what a call's label says of its locals (`CallOK`).
* `AtMostOneMore`, `RestIsRespected`, `StopIsHeldOn`, from `SafeInv`. `RunnerOK` says where a runner
  that has sent its last comment can be: past the text, or before the look at its set stop event; and
  where one can be whose rest is ordered. `NumberInv` says that the runners of a start are new, so that
  no signal reaches them before they run.

Only model-checked: liveness under fairness, which the prover does not handle (`EventuallySettled`,
`LossNoticed`, `OrphanExpires`, `CallsReturn`, `CheckoutLands`, `StopEnds`). Every invariant and action
property of a passing run has a theorem. For `CallsReturn` and `EventuallySettled` the theorems cover
the safety half: nobody waits in a circle, and what recovery cannot reach was stranded by a fault.

## Plan

1. *(done)* Queue, retry workers, abstract queue; claims and workers; session pool; proofs.
2. *(done)* Farm: start, stop, pause and resume against memory, row and runners; proofs of its safety.
3. *(done)* Billing with its abstract subscription, webhooks repeated and out of order, row level
   security and what raises; proofs of its safety and of the refinement.
4. *(done)* Proofs of the copies and own deliveries in the queue, of one client and no circular wait
   in the pool; what is stranded, settled, forgotten, renewed, connected or answered, checked and proved.
5. When `farm_jobs.py` and `record_payment()` are mended: the jobs as callers of the orchestrator, and
   the record of payments with its idempotency.
6. An abstract claim (a lock with a lease) that `WorkerClaims` implements as long as nothing lapses.

## Not modelled

* Web sessions, account lifecycle, proxy router, session manager: small races between a read and
  the write that follows it, listed as hazards.
* Farm jobs: their rows and the BRPOP of their queues; only that they end before they reach a farm is
  in `Farm`.
* The scheduler, AI router, engines, bots, ops API, frontend and migrations: I/O, arithmetic over database sums,
  validation or presentation.
