# A verification of backbone-framework

backbone-framework is a set of Rust crates for business services on Postgres: repositories fenced
per company, services that write and emit events in one transaction, a relay that delivers the
events, durable workflows, scheduled jobs, queues, caches and the middleware around them. This
directory models the parts of it where the outcome depends on the order in which tasks, processes,
transactions and failures meet. TLC checks the models on small instances, TLAPS proves their
safety properties for every instance. `PROJECT.json` ties each definition to the lines it models
and lists runs, hazards, findings and theorems.

## 1. The system and its parts

### Parts that are modelled

**Transactional outbox, relay, inbox** (`backbone-outbox`: `outbox.rs`, `relay.rs`, `inbox.rs`).
State: the tables `outbox_events` (rows, `published_at`, `failed_at`) and `inbox_consumed`.
Operations: `stage` on the producer's transaction; `drain_once`, which reads a batch, publishes each
row and marks it published or dead in separate statements and holds no lock on it meanwhile;
`reemit` and `reemit_all`; `inbox::once` in the consumer's transaction. Hard: a crash between publish and
mark, two relays on one schema, one consumer of several failing. Correct when a committed change
has its effect on each consumer exactly once, a rolled-back change has none, nothing is lost, and
published means delivered.

**Relay runner** (`backbone-outbox/src/runner.rs`, `drain_all`). State: the wait before the next
restart, the shutdown future. Operations: the poll loop, the supervised restart. Hard: outages and
shutdown at any await, a publish error that ends a pass. Correct when accepted rows are delivered
behind refused and doomed ones, and restarts follow the documented schedule.

**Write transaction and request scope** (`backbone-orm`: `write_tx.rs`, `company_scope.rs`). State:
one connection behind `Arc<Mutex<_>>` with its transaction depth and `app.company_id`; the open
units of a request; spawned clean-up tasks. Operations: `in_write_tx`, `within_savepoint`,
`begin_unit`, `finish`, the `Drop` of a unit and of the scope guard, `with_request_scope`. Hard:
futures dropped at any await, clean-up tasks in no order, statements that abort a transaction and
whose error is swallowed. Correct when the answer tells the truth about what was committed, and a
connection returns to the pool without a transaction and without a company.

**Workflow engine** (`backbone-core/src/workflow/engine.rs`). State: `bb_workflow_instances`,
`bb_workflow_steps`, the inbox, and what each driver carries between transactions. Operations:
`start`, `resume`, `run` with every step kind, `after_failure`, `compensate`, `sweep_due`, `cancel`. Hard:
the sweep takes over an instance whose driver is only slow; failures are decided in a later
transaction; compensation fails half way. Correct when compensation happens once and a
`compensated` instance is undone, ended instances stay ended, an event resumes once, and a
running instance comes to rest.

**Job scheduler** (`backbone-jobs`: `scheduler.rs`, `job.rs`, `in_memory.rs`). State: the job storage,
`active_jobs`, `is_running`, the copy each task works on. Operations: the loop, `execute_single_job`,
trigger, pause, resume, cancel, update, unschedule, stop. Hard: every task writes whole copies back;
`trigger_job` executes in the caller's future, which may be dropped.
Correct when deleted jobs stay deleted, slots are given back, due jobs are picked up and cron jobs recur.

**Rate limiter** (`backbone-rate-limit`). State: a counter and a lockout per key, in memory or in
Redis. Operations: `check` and `reset` on either store, the sweep, the choice of the store, the
middleware's answer to a failed store. Hard: on Redis a check is a sequence of commands that
requests interleave, any of which may be lost. Correct when the budget of a window holds, lockouts
are exact, and a quiet key is admitted again.

**Service write path and repositories** (`backbone-core`: `service.rs`, `write_hooks.rs`;
`backbone-orm`: `generic_repository.rs`, `repository.rs`). State: a table of live and trashed rows with
its row locks, the events staged for each row. Operations: every writing call of
`GenericCrudService`, single and batch: it reads rows without a lock, asks guard, lifecycle and
before-hooks about what it read, writes, runs the after-hooks, commits. Hard: the row that is
written is not the row that was read; the trash is read page by page while it moves; some rows of
a batch are gone. Correct when nothing stale is written back, a deleted row is neither edited nor
revived, batches are whole, nothing is written that nobody was asked about, and the outbox tells
what really happened to each row.

**Tenant registry** (`backbone-tenant/src/lib.rs`). State: a cell and an access tick per tenant.
Operations: `get_or_build` in three phases, `forget_failed`, `touch_and_evict`, three evictions. Hard:
builds run without the lock, are shared, fail, are dropped and are evicted half way. Correct when
the number of built runtimes is bounded, first callers share a build, and failures leave nothing
behind and push nobody out.

**Memory cache** (`backbone-cache/src/memory.rs`). State: entries and statistics, each behind a lock.
Operations: `set`, `get`, `delete`, `exists`, `ttl`, `expire`, `clear`, `stats` and their `m` forms. Hard: two
locks taken in both orders, a copy written back. Correct when calls return and what is gone stays gone.

**Request idempotency** (`backbone-auth/src/idempotency.rs`). State: a row per company and key.
Operations: lookup, handler, store. Hard: nothing is claimed between lookup and store. Correct when
the write of a key is applied once.

### How the parts hang together, and those that are not modelled

A request enters through the HTTP layer, is authenticated (`backbone-auth`), may be deduplicated
(`idempotency.rs`), is resolved to a tenant's runtime (`backbone-tenant`) and given a connection
scoped to a company (`company_scope.rs`) or an organisation unit (`org_scope.rs`). A service
runs hooks, guards and the repository's write inside `in_write_tx`
and stages events in the outbox on the same transaction. The relay hands the staged rows to sinks:
the workflow engine's `on_event`, the notification dispatcher, the integration bus. Jobs and the timer
sweep act without a request.

| Part | State | Why it is hard |
|---|---|---|
| FIFO queue, deduplication, batching | windows, batches, statistics behind locks | check-then-act, re-enqueue at the tail, a lock taken twice by one task |
| Permission cache | permissions per user with an expiry | a fetch before a revocation stored after it |
| Notification dispatcher | attempts in memory, inbox row | retries counted in memory across redelivery, a delivery whose commit fails |
| Event bus, integration bus | handler map, history, dead letters | handlers awaited under a lock, retries, errors that are swallowed |
| State machines, triggers, flows | transition tables | sequential |

Left out for good: filters, aggregates and migrations (SQL text whose meaning is the
database's), HTTP, OpenAPI, GraphQL and configuration (decoding and formatting), tokens, grants and
policies (cryptography and pure decisions), storage, search, email and queue backends (clients of
external services), observability, health and maintenance (counters and flags), GL posting (a
contract of types). The organisation scope uses the guard that `WriteTx` models, with more
variables. Most of the repository's lines are in these parts, in tests, examples and generated
formats, so the map covers a small share of them.

## 2. Modules

| Module | What it is |
|---|---|
| `EventDelivery` | the abstract promise: raised, at most one effect per consumer, reported only after all effects |
| `Outbox` | producers, tables, relays and consumers; implements `EventDelivery` |
| `MCOutbox` | its instance for TLC, with the symmetry of relays and consumers |
| `OutboxProofs` | its theorems and those of `RelayRunner` |
| `RelayRunner` | what paces `drain_once`: poll loop, supervisor, `drain_all`, outages, shutdown |
| `WriteTx` | nested units, the request scope and clean-up tasks on one connection |
| `MCWriteTx` | where TLC's search of it stops |
| `WriteTxProofs` | its theorems |
| `WorkflowEngine`, `WorkflowEngineProofs` | instances, step log and drivers over any workflow graph |
| `MCWorkflow` | a workflow for TLC |
| `JobScheduler`, `JobSchedulerProofs` | storage, loops and callers |
| `RateLimit`, `MCRateLimit`, `RateLimitProofs` | one key over both stores; symmetry of clients |
| `CrudService`, `MCCrud`, `CrudServiceProofs` | concurrent service calls on one soft-delete table; edits and lists for TLC |
| `TenantRegistry`, `MCTenant`, `TenantRegistryProofs` | requests, cells and evictions; symmetry of requests and tenants |
| `MemoryCache`, `MemoryCacheProofs` | tasks, two locks, entries |
| `Idempotency` | attempts with one key |

Each module keeps one variable per piece of state named in its header and one action per handler or
per stretch of a handler between two awaits at which others can act. The modules meet at their
interfaces: `CrudService` takes from `WriteTx` that a transaction commits as a whole or not at all and
from `Outbox` that staging is part of it; `RelayRunner` takes a pass of `drain_once` from `Outbox`.
Conventions:

- A transaction that holds its row lock from its first statement is one action (the workflow
  engine); where the code releases everything between statements (`drain_once`, the job storage, the
  Redis commands) each statement is an action.
- A future that can be dropped has a `Cancel`, `Drop`, `Crash` or `Abort` action for the points where it
  awaits. What it owned is cleaned up as its `Drop` does, by a task.
- Payloads, contexts and expressions are absent. A guard, a branch, the answer of an action or of
  a transport is a nondeterministic choice. Time is `later`/`past` where only the order of
  a deadline matters, and a clock in seconds in `RateLimit`.
- Definitions whose name extends that of another one (`CommitUnprobed`, `FinishErrReleases`) are
  plausible faults of the code. Nothing in a specification uses them; each breaks a property
  when it takes the place of its original, which shows that the property speaks about that code.

### How state and actions correspond

`Outbox`: `rows`, `published`, `failed` are the three facts of `outbox_events` a query reads; `ptx`
the producer's transaction; `pc`, `todo`, `called`, `ctx`, `claimed` are a relay's place in
`drain_once` and in the publish it awaits. `Write`, `Stage`, `Commit`, `Rollback` are the producer;
`Select`, `PublishOk`, `PublishRefused`, `PublishExhausted`, `MarkPublished`, `MarkDead`, `Abort` the
relay; `Once` and `Consume` the consumer; `Reemit` and `ReemitAll` the operator.

`WriteTx`: `units` are the live `TxUnit`s with their `base_depth`, `levels` what the connection holds
on the server, `finishing` is set while `finish` awaits, `tasks` are the spawned clean-ups that keep
the `Arc` alive. `promised` and `denied` record what callers were told. `stray` is a history: a unit was
dropped alone inside `finish`, which marks it done before its first await, or a request used the
connection before the rollback of a unit dropped inside it (one `in_write_tx` under a timeout, as in
engine.rs:1413) had run. What the code promises breaks there, and only there. Postgres
is external: an aborted transaction refuses statements and its COMMIT is a rollback; a rollback also
restores a session variable that was set inside the transaction.

`RelayRunner`: `pc` is where the runner and a `drain_all` are, `streak` a history of failures. Rows are
accepted, refused (left for the next pass), doomed (marked dead) or failing: the publish returns
another error, and `drain_once` returns it (relay.rs:116).

`WorkflowEngine`: `inst` and `log` are the two tables, `drv` what a driver carries, which is stale
by the time it uses it. `Step`, `AfterFailure`, `Compensation`, `Sweep` and `Calls` group the actions of
`run`, `after_failure`, `compensate`, `sweep_due` and the public entry points. `due` and `deadline` are as
the database's `now()` sees them, which selects what the sweep takes; whether a wait timed out is
decided by the application's clock, which may differ, and a due wait that it does not call timed
out expires (engine.rs:1987).

`JobScheduler`: `store` is the storage, `task` each loop's or caller's place and its copy of a job;
`gone` and `abandoned` are histories of deleted jobs and of executions whose caller was dropped.

`RateLimit`: `mem`, `counter`, `lock` are the stores; `req` each request's place in `check` or `reset`;
`admitted` (the counted requests that were let in, each with its time, its counter and its count),
`opened` (when the counter began to count), `last`, `lockEnd` are histories for the properties.

`CrudService`: `table` and `ledger` are the committed rows and outbox events; `req` holds a call's
arguments, the rows it has `seen` and asked about, and its uncommitted `writes`, which are its locks.
`Call…` are the entry points with their checks, `ReadRow`, `MissRow`, `ReadPage`, `CountTrash` the readings
(each SELECT a step, at read committed), `Insert`, `UpdateRow`, `UpdateMissed`, `Statement` the writes (a
statement waits for locked rows), `Commit` the after-hooks and the commit. `Fail` stands for every
refusal and error. `unasked` is a history.

`TenantRegistry`: `entries` maps a tenant to its `OnceCell`, by number, `full` are the cells that hold a runtime; a
cell nobody refers to is used again. `fresh`, `released`, `orphaned` are histories.

`MemoryCache`: a task's `phase` is the lock it waits for. Where code takes a lock, works and lets go,
that is one step; the two places that hold one lock while they wait for the other are two.

`Idempotency`: `row` is the stored answer, `attempt` each request's place.

## 3. Runs

Passing runs:

| Run | Instance | Shows |
|---|---|---|
| `outbox_relays` | 3 events of which the first is refused for ever, 2 consumers, 2 relays, 2 faults | exactly-once effects, no loss, published means delivered, and refinement of `EventDelivery`, with no lock on rows |
| `relay_runner` | 4 rows: refused, doomed, accepted, failing; 2 outages, fair | an accepted row is delivered behind bad ones although a failing row after it ends pass after pass; the backoff schedule |
| `write_tx` | 2 requests, 3 rows, 3 levels | until `stray`: answers are true, denied rows stay out, no open transaction returns, each statement runs under its own company, a failed inner unit leaves the outer one usable |
| `workflow_order` | 1 instance, 2 drivers of which one sweeps, a timed call with 2 attempts in a cycle, 2 waits, a compensation, 1 crash, fair | compensation once and complete, final statuses, one resume per event, waits that keep their timer; the instance comes to rest unless it is backed off again and again for ever |
| `jobs` | 2 jobs, 1 slot, 1 loop, 1 caller, 2 calls of any operation, fair | deletions are final; slots are given back and due jobs picked up, but for the two leaks: a job deleted under its execution, a dropped `trigger_job` |
| `rate_limit` | 2 requests at a time, 4 seconds, 1 fault, 1 reset, either store | the budget, exact lockouts, quiet keys |
| `crud` | 3 calls of any kind, 4 ids, 1 live row, 2 trashed, 2 columns, pages of 1, batches of 2 | no stale write-back, no revival, whole batches, nothing written unasked, and events that tell each row's life |
| `tenant` | 3 requests, 2 tenants, room for 1, 4 calls | the bound, one build for first callers, nothing left of failures, established tenants stay |
| `cache` | 2 tasks, 2 keys, room for 1, 4 calls, fair | calls return unless the locks cross; gone values come back only by the copy a `get` had in hand |

Runs that refute what a document or a comment says of the code:

| Run | Property | What happens |
|---|---|---|
| `write_tx_open` | `NeverReturnsOpen` | a request is dropped at an await of `finish`, which has set `done` already: nobody rolls back, the connection returns to the pool inside its transaction |
| `write_tx_scope` | `ReturnsUnscoped` | a request is dropped inside the in-line reset of its scope, which disarmed its guard already; or it is dropped inside a write transaction, its reset task runs first and the rollback of the other task restores `app.company_id`: the connection returns scoped |
| `idempotency` | `AppliedOnce` | a retry arrives while the first attempt runs; both miss in the lookup, both write |

Other statements of the code's own comments and documents do not hold of it. The properties of the
passing runs are stated so that they do; each deviation below is found by TLC when the line named
is put into the configuration.

| In | Add or change | What happens |
|---|---|---|
| `write_tx_open.cfg` | `INVARIANT CommittedWhenOk` | a request that follows on a connection left open commits with a mere RELEASE and answers Ok; or the late rollback of a unit that timed out undoes what the request did after it (write_tx.rs:128, "committed when `f` returns `Ok`") |
| `relay_runner.cfg` | `Failing = {1}`, `Refused = {}`, `PROPERTY NoRowBlocksAnother` | a consumer's database error ends every pass at the first row; nothing behind it is delivered (runner.rs:40, "it does not stop the loop") |
| `outbox_relays.cfg` | `INVARIANT DeadAwaitsReemit` | one relay publishes a row the other marked dead; `dead_count` counts it, `reemit` leaves it (outbox.rs:259, "awaiting a re-emit") |
| `workflow_order.cfg` | `Branches <- StraightBranches`, `INVARIANT StepOrFallback` | one driver completes a step, the other then routes its own older failure of it: the instance takes both paths (engine.rs:707) |
| `workflow_order.cfg` | `INVARIANT ExpiresOnlyPastDeadline` | the database calls a wait due, the application's clock does not: the instance expires with its deadline ahead (engine.rs:1840) |
| `workflow_order.cfg` | `PROPERTY AlwaysRests` | a cycle whose call fails transiently once a turn: `max_steps` counts the steps of one drive, and each retry is a new one (engine.rs:732) |
| `jobs.cfg` | `INVARIANT NothingLeaks` | the caller of `trigger_job` is dropped while the job runs: its entry of `active_jobs` stays (scheduler.rs:290) |
| `jobs.cfg` | `PROPERTY CompletedRunsAgain` | a successful cron job keeps the status `Completed`, which the poll never selects (job.rs:175) |
| `workflow_order.cfg` | `"waiting"` into `CompensateOn` | `CompensatedMeansUndone` fails: `compensate`, called on a waiting instance, skips every step, and ends it `compensated` when the wait's timeout has failed it meanwhile (engine.rs:1603) |
| `rate_limit.cfg` | `Window = 3`, `Lockout = 1` | `AdmittedBudget` fails: after a lockout that is shorter than the window the in-memory store starts a fresh window at once (storage.rs:88) |
| `crud.cfg` | `INVARIANT NothingSlipsThrough` | `bulk_permanent_delete` removes a row that was live when it asked and trashed when it wrote, without guard, hook or event (service.rs:1003) |
| `crud.cfg` | `INVARIANT TransitionLeavesItsFrom` | two verbs read one state; the second reports to have left it after the first did (write_hooks.rs:265) |
| `tenant.cfg` | `INVARIANT OneBuildAtATime` | a build fails, a waiter builds again in the same cell, `forget_failed` of the first removes that cell's entry (lib.rs:195) and a third request builds beside the waiter; an eviction of a cell mid-build does the same (lib.rs:27, "build the runtime exactly once") |

In `MemoryCache` the crossing of the two locks is reachable, and `ReturnsUnlessLocksCross` without
`LocksCross` fails; so is the write-back of a deleted entry, which `GoneStaysGone` allows for.

Although a connection may return with the old company bound, `OwnCompany` holds until `stray`: the next
request sets its own company before any statement, at session level or inside its transaction.
That is so of requests that carry a company; a statement run outside any scope, which is not
modelled, would see the old one.

### Bounds

Two of everything that competes (relays, drivers, clients, tasks) show each interleaving of a
pair. Three service calls let one move a row away and another bring it back while the third is
between its read and its write; three requests for a tenant are one that fails, one that waits for
it and one that comes after the entry was forgotten. Two faults allow a fault during the recovery from the
first. Three levels of nesting are an outermost, an inner and an innermost unit, the three cases
`finish` and `rollback_to` tell apart. Four rows put refused and doomed ones ahead of an accepted row,
and a failing one behind it, in batches of two. The search of `write_tx` stops where `stray` becomes true
(`BeforeStray`), since its properties except what follows. One crash, one compensation and one answer in
`workflow_order` are what its liveness check affords; the safety theorems hold for any number. Four seconds with a window of one and a lockout of two hold a window, a lockout and a
fresh window. `TLC` follows one instance of a workflow because instances share nothing but the
claim of an event. A page of one row and a trash of up to three put rows on either side of a page
boundary; a batch of two is passed by a trash of three. Room for one tenant or entry makes each
further one an eviction. Calls are counted in `tenant` and `cache` (`MaxCalls`); the ids of `crud` bound its
creates. Deadlock is not checked where the system may stop: requests that are all
served (`write_tx`, `crud`, `tenant`, `cache`), a runner shut down, a scheduler stopped, the end of bounded time.

### Fairness

- `RelayRunner`: the runner's task is scheduled and its sleeps end, and an outage ends. Nothing is
  assumed of producers, operators, shutdown.
- `WorkflowEngine`: a task that runs goes on, time passes, and an instance that is due again and
  again is claimed by the sweep (strong fairness: the sweep runs every minute and takes what it
  lists, up to its batch; the property is about fewer due instances than that).
- `JobScheduler`: the spawned loops are scheduled, a call that was made goes on or is dropped, and time
  passes; calls are free.
- `MemoryCache`: a task whose lock is free goes on (weak fairness per task): tokio's locks are first
  come first served. Calls, their being dropped and the clock are free.

The other modules state safety only.

## 4. Proofs

Every theorem is about the same specification TLC runs, for every value of its constants that
satisfies the module's `ASSUME`, which TLC evaluates on each run. Eight modules hold them. Each has
one inductive invariant, one lemma per action that the action keeps it, and frame lemmas for what
actions have in common; the invariants were first checked by TLC on the instance of the run.

`OutboxProofs` holds for any sets of events, consumers and relays, any batch and any number of
faults. `ExactlyOnceEffect` is not inductive: committing a consumer's transaction adds one to the
effect, which is sound only because the claim `inbox::once` granted is exclusive while that
transaction is open, and marking a row published is sound only because the relay remembers whom it
served. `IndInv` adds this `RelayKnowledge`, and that the state change and its row exist
together. From it follow `TypeCorrect`, `ExactlyOnce`, `PublishedDelivered`, `NoneLost`,
`PublishedFinal` and `Refinement`, the implementation of `EventDelivery` under the mapping
`raised <- business, effects <- effect, delivered <- published`. `SingleRelayDeadAwaitsReemit`
assumes one relay: with two, one can publish a row the other has marked dead.

`WriteTxProofs` holds for any requests, rows and depth and for every drop. Its properties except the
states after `stray`; without the exception TLC refutes them (`NeverReturnsOpen`, `CommittedWhenOk`). Whole
requests dropped outside `finish`, and units that are rolled back before their request goes on, are
covered. `AnswerIsTruth` is not inductive; `IndInv` is `Typed /\ (stray \/ Kept)`, and `Kept` adds that the first
levels of the connection mirror the open units row by row (`Bases`, `Mirror`), that levels beyond them have
their rollback pending (`Pending`), and that open units hold rows of their own (`OpenApart`). From it follow
`AnswersAreTrue`, `DeniedStaysOut`, `PoolNeverOpen` (of `RolledBackBeforePool`), `InnerFailuresContained` and
`TypeCorrect`. `StatementsAreScoped` (`OwnCompany`) rests on `IndInv` and on `Bound`: every level a rollback may
return to while the request goes on was opened under the request's company; the first level of a
transaction on a connection of its own was not, and is left only together with the request.

`WorkflowEngineProofs` holds for any workflow graph, instances, drivers, sweepers, answers and
crashes. A driver decides in a later transaction on what it read in an earlier one. `IndInv` says
what lasts of that: a carried failure still names a step the loop can route (`DriverOK`), a
compensating driver has undone all it has passed in its loop, unless it noted a failure or the
instance was cancelled (`Knows`), and the rows themselves are consistent (`RowOK`). `Knows` lasts
because a closed instance completes nothing more, which `RowStep`, a property of every step, states
once for `FinalStays` and `EndedIsLeftAlone` too. The others are `TypeCorrect`, `UndoneOnce`, `ResumesOnce`,
`WaitsWhereItWaits` and `CompensatedIsUndone`. The last assumes `CompensatesEnded`: nobody calls
`compensate` on an instance that runs or waits. The code does not check it and its comment asks for it
(engine.rs:1603, "of a failed instance"); without it TLC finds a `compensate` that skips the steps of an
instance still waiting, and ends it `compensated` once the wait has timed out and failed it meanwhile.

`JobSchedulerProofs` holds for any jobs, loops, callers and slots. `DeletedStaysDeleted` and `SlotsAreHeld` are
not inductive: that a task writes back a copy only over a job that exists depends on what the copy
and its list are of (`Holds`): jobs that are stored or deleted, never jobs that were not there.
Theorems: `TypeCorrect`, `NoResurrection`, `NoSlotLeaks`; the last is about the entries outside `Leaked`.

The section "The pace of a relay" of `OutboxProofs` is about `RelayRunner`, instantiated as `Pace` beside
`Outbox`, for any rows, refused or doomed ones, passes and outages. `WaitsOnSchedule` (`BackoffSchedule`) needs
`ScheduleInv`: while the relay runs, `backoff` is the wait after one more failure, and the power of two
outgrows the count of failures, so that where the count stops the wait is the longest. That
2^(k+1) = 2 * 2^k is its hypothesis (`PowersDouble`), since the backends have no theory of powers.
`PassWithinBatch` is the type invariant, of which one part is more than a type: a pass publishes at
most a batch. It rests on `LimitOfOldest`, that the SELECT takes at most LIMIT rows however many wait,
and on `Fits`: what a pass has published and what it has still to publish fit into the batch.

`RateLimitProofs` holds for any limit, window, lockout, policy, clients, time, faults and resets, on
both stores. `IndInv` relates the stores to the histories (`MemOK`: the entry knows the lockout
until it is swept, after its end; `RedisOK`: the lock key ends with the lockout, the counter within a
window of the last command), says what a request knows at its place in `increment` (`Knows`), and that
a request that found the key quiet has it to itself until another begins (`Alone`). Theorems:
`TypeCorrect`, `LockoutHolds`, `QuietIsAdmitted`.

`BudgetHolds` (`AdmittedBudget`) has an invariant of its own, `BudgetInv`. An admission is known by two
numbers: when its counter opened and what the counter then read. No two admissions agree on both
(`Distinct`), no count exceeds `max_requests`, each belongs to the standing counter or was made before it
opened (`Placed`), and two counters open a window apart at least, the later one after everything the
earlier one admitted (`Spaced`). So a stretch of `Window` + 1 seconds meets at most two counters
(`TwoCounters`), and the admissions in it map one to one into 1..2 * `max_requests` (`Counting`). A reset
forgives what was admitted before it. The theorem assumes `Lockout` = 0 or `Window` <= `Lockout`: TLC refutes the
property for a shorter lockout, after which the in-memory store starts a fresh window at once. It
speaks of requests the store counts, not of those that pass because the store failed.

`CrudServiceProofs` holds for any rows, columns, calls, pages and batches. `IndInv` says how far a request
is with reading, asking and writing (`Placed`, `HasAsked`, `HasWritten`) and, through the row locks, that
each uncommitted write still fits the committed row it will replace (`Fits`): this is what makes
`ColumnsAreOwned` and `TrashStaysPut` hold although the row was read without a lock. The ids of
concurrent creates are disjoint and unborn, from which, with `Fits`, each commit appends the event
that continues the row's life (`LedgerIsTheLife`, of rows that `bulk_permanent_delete` did not remove unseen). `NothingUnasked`, which
excepts `bulk_restore` and `bulk_permanent_delete`, `BatchesAreWhole` and `TypeCorrect` follow. The lists of a call are not empty (`CrudAssumption`): an empty list reads and writes nothing.
That `dedup_ids` of any list is a list of ids (`DedupType`) is proved from the least number without an
n-th first place, in the place of an induction. `AllOrNothing` of the calls on the whole trash rests on
the count of rows read (`Cardinality(DOMAIN seen) <= count`).

`TenantRegistryProofs` holds for any finite sets of requests and tenants, any capacity and calls. `IndInv`
adds the ownership of cells (`Owned`: a cell belongs to one tenant for as long as anybody refers to it),
that a cell has one builder (`OneBuilder`) and that the settled runtimes fit (`SettledBound`), of which
`ResidentBound` is a consequence. Theorems: `TypeCorrect`, `OneBuildPerTenant`, `NoAbandonedEntry`, `Bounded` and
`Established`, an action property. `OneBuildPerTenant` says that builds run in the registered cell unless an
eviction or `forget_failed` released it.

`MemoryCacheProofs` holds for any tasks, keys, capacity and calls. `IndInv` adds that a value belongs to
one key and is new when it is set (`OneKey`, `Fresh`, `Numbered`) and that a value that is gone and still to
be found, or in somebody's hands, was in a `get`'s hands when it went (`HeldOrGone`). Theorems: `TypeCorrect`,
`NoRevival`.

Only model-checked:

- every liveness property (`AcceptedIsDelivered`, `ComesToRest`, `DueJobIsPickedUp`,
  `ReturnsUnlessLocksCross`): fairness and `ENABLED` are out of the prover's reach;
- `ReturnsUnscoped`, `NeverReturnsOpen` and `AppliedOnce`, which are refuted.

## 5. What the models leave out

- `Outbox`: migrations, row-level security, the payload and its decoding, the loss of a COMMIT's answer.
- `WriteTx`: a second pool, several futures of one request on one connection (`join!`), a runtime
  that is shut down, a connection lost or a future dropped while COMMIT or ROLLBACK is under way.
- `WorkflowEngine`: `run_inline`, expressions and contexts, the sweep's batch limit.
- `JobScheduler`: cron arithmetic, attempt history, statistics, the wait in `stop`.
- `RateLimit`: how the key is derived, other keys except for the sweep they cause.
- `CrudService`: what guards, hooks and references decide; the metadata column apart from `deleted_at`;
  in-process events after the commit, previews, filtered listings, repositories that delete for good;
  a verb's hand-written transaction around a call.
- `TenantRegistry`: provisioning and the resolution of a slug. `MemoryCache`: the statistics' numbers, the
  time stamps by which the victim is chosen (any entry may be it), the Redis cache.
- `Idempotency`: requests that pass through, and other keys.

Hazards that no property covers carry a note in `PROJECT.json`.

## 6. Plan

Modelling, in this order:

1. `Queue`: the FIFO wrapper over an external queue, deduplication windows, the batching processor
   and its background loop. Order inside a group, at most one enqueue per id, no message dropped.
2. `PermissionCache`: the read-through of permissions against their revocation.
3. `IntegrationBus` and `Notification` as consumers behind the relay, composed with `Outbox`.

Proving: every safety property of the passing runs is a theorem; liveness stays with TLC. New models
come with the theorems of their safety properties.

## 7. Running

```
tlc -workers 2 -config write_tx.cfg MCWriteTx
tlapm WriteTxProofs.tla
```

The module and configuration of every run are in `PROJECT.json`.
