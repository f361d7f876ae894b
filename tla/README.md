# TLA+ specifications of mini-jupiter

mini-jupiter is a Go runtime (`pkg/`, `internal/middleware/`) with one serious
application on top of it, the coupon service Quan (`examples/Quan/`). Its central
promise is that MySQL is the ledger of record while Redis decides the hot path and
an outbox with retrying workers does the rest later. These modules model that
promise step by step, check it with TLC on small instances, and prove the parts
that matter most with TLAPS for every size.

Paths below are relative to the root of the repository.

## 1. Inventory

| Component | Source | State | Operations | What makes it correct |
|---|---|---|---|---|
| Claim service | `examples/Quan/internal/coupon/service.go`, `handler.go` | none of its own; local variables of one request | `Claim` (two attempts), `claimWithRedis`, `claimWithoutRedis` | every request ends; an answered claim id is a committed claim of that user and key |
| Redis adjudicator | `coupon/decision.go` | meta hash, stock counter, user counters, idempotency entries with a TTL | `Decide`, `EnsureCampaign`, `WaitResult`, `Finalize`, `Rollback` | never admits more than MySQL can sell unless it has been told of a failure that was none; exact when nothing fails |
| Claim repository | `coupon/repository_claim.go`, `repository_query.go` | `coupon_campaigns`, `coupon_claims`, with `async_tasks` and `outbox_events` | `ClaimCoupon`, `PersistClaimAfterAdjudication`, `LoadCampaign`, `FindClaimByID` | no oversell, per-user limit, one claim per key, task and event written with the claim |
| Transaction manager | `pkg/mysql/tx.go` | none | `WithinTx` | all or nothing, outcome possibly unknown to the caller |
| Outbox relay | `examples/Quan/internal/outbox/*.go` | `outbox_events.status`, `next_retry_at`, `updated_at` | recover stale, list, claim, publish, confirm or retry | a committed event reaches the ready list at least once |
| Task consumer and queue | `examples/Quan/internal/task/consumer.go`, `queue.go` | ready list, retry sorted set, dead-letter list | pop, run, mark, schedule, push to DLQ, move due retries | no task is stranded; no two workers run one task |
| Task repository | `task/repository_*.go` | `async_tasks` | compare-and-set status updates | the documented state machine, the retry budget |
| Compensator | `task/compensator.go` | candidates of the current round | three scans, recover, schedule | whatever is stale is brought back |
| Task service | `task/service.go`, `http_handler.go` | none | `CreateTask`, `ReplayDLQTask`, `GetTask` | a dead task can be replayed, a live one is not harmed |
| Route isolation | `pkg/isolation/isolation.go` | semaphore channel, queue counter per route | `Acquire`, release | both bounds hold, nothing leaks, Acquire returns |
| Worker pool | `pkg/pool/pool.go` | bounded channel, `closed` | `Submit`, `Close`, workers | an accepted task runs exactly once, also when the pool is closed; a refused one never |
| Rate limiter | `pkg/ratelimiter/limiter.go` | tokens, last refill | `Allow` | never more than burst plus rate times time, never less than earned |
| Middleware chain, example server | `internal/middleware/*`, `examples/http-server/main.go` | none of their own | isolation, rate limit, handler of `/jobs`, shutdown | slots come back, accepted jobs run, the process exits |
| Migrator | `pkg/mysql/migration.go`, `examples/Quan/sql` | version table, schema, seeded stock | apply, record, split statements | only a complete schema is served; what was sold is not reset |
| Component lifecycle | `pkg/runtime/app.go`, `signal.go`, `examples/Quan/main.go` | started components | start, roll back, stop | what was started is stopped; every start and stop ends |
| MySQL and Redis clients | `pkg/mysql`, `pkg/redis` | connections | ping, close | their failures are part of every model |
| Configuration, errors, logging, metrics | `pkg/config`, `pkg/errors`, `pkg/log`, `pkg/metric`, `observability` | settings and counters | load, format, count | no state the properties above are about |

How they interact. An HTTP handler calls `Claim`. With a Redis client configured,
the `Decide` script reserves a unit and writes a PENDING idempotency entry; the
handler then commits the claim, a task row and an outbox event in one MySQL
transaction, and finalizes or rolls back the reservation. Any number of instances do
this at once; they share only MySQL and Redis. In each instance a relay polls the
outbox and pushes task ids to a Redis list, workers pop them, a scheduler moves due
retries back to the list, a compensator scans MySQL for tasks that got stuck, and
an operator may replay dead tasks over HTTP. There is no lock between any of them
beyond MySQL's row locks, Redis's single thread and compare-and-set updates. When an
instance starts, its components start one after the other, the migration of the shared
database second; when it stops, they stop all at once.

What is hard here: two stores without a common transaction; calls that time out
after they took effect; reservations that expire under a running transaction; Redis
restarting empty; request contexts cancelled half-way through a protocol; two
relays, two workers or two replays on the same row; updates without fencing tokens
by somebody declared dead; the order of checks in three places that are meant
to agree; migrations without a lock or a transaction; and a shutdown that closes
pool, server and clients at the same time. `PROJECT.json` lists each of these under `hazards`, at its line.

## 2. Modules

| Module | What it is |
|---|---|
| `CouponLedger` | abstract: what MySQL holds about one campaign and the one thing that may happen to it, a whole claim committed |
| `ClaimService` | the claim path in detail; implements `CouponLedger` |
| `MCClaimService` | finite instances of `ClaimService` |
| `CouponLedgerProofs`, `ClaimServiceProofs` | theorems about the two |
| `ClaimRedisProofs` | theorems about the counters and entries of Redis |
| `TaskLifecycle` | abstract: the state machine of an `async_tasks` row with its retry budget |
| `TaskPipeline` | relay, workers, scheduler, compensator, replay, queues, time and faults; implements `TaskLifecycle` |
| `MCTaskPipeline` | symmetry for the instances of `TaskPipeline` |
| `TaskLifecycleProofs`, `TaskPipelineProofs` | theorems about the two |
| `ClaimDelivery` | composes ledger and pipeline on one database: a claim commits its rows and its task at once |
| `MCClaimDelivery`, `ClaimDeliveryProofs` | its instance and its theorems |
| `IsolationLimiter` | the limiter of one route |
| `RateLimiter` | the token bucket |
| `WorkerPool` | the pool: callers of `Submit`, channel, workers, `Close` |
| `HttpServer` | composes the three above into the example server with its shutdown |
| `HttpServerProofs` | theorems about limiter, token bucket, pool and their composition |
| `Migrator` | `Migrator.Run` in several instances on one database |
| `QuanApp`, `QuanAppProofs` | extends `Migrator`: life and death of the instances of the Quan service; its theorems |
| `SqlSplitter` | `splitSQLStatements` and a reference for it |
| `MCQuanApp` | finite instance of `QuanApp` and of `SqlSplitter` |

`map` in `PROJECT.json` gives the source lines of every definition. Definitions
whose comment begins with "Mutant of" are deliberately wrong variants of the
definition that follows. They are part of no specification; each one shows that the
property it is paired with in `mutants` does notice the mistake.

### ClaimService

One campaign, any set of requests with a user and a key each. `adjudicator` says
whether the deployment has Redis.

State. MySQL: `status`, `available`, `claims`, `notices` (claims that have a task
and an outbox event). Redis: `rstatus` (the meta hash), `rstock`, `rcount`, `idem`.
Per request: `pc` and the local variables of `Claim`: `attempt`, `snap` (the campaign
row loaded for hydration), `got` (claim id to answer with), `code`, and `gone` (its
context is cancelled). The clock is only known relative to `start_at` and `end_at`
(`window`); `since` remembers where it was when the current step began, because the
code reads `time.Now()` before it takes the row lock or runs the script. History
variables: `prior`, `expired`, `lost`.

Steps. A Lua script is one step, since Redis runs it alone. A claim transaction is
one step: it locks the campaign row before it reads anything else, and so does
every other writer. All else interleaves. The labels follow the code: `decide` (Decide
and the switch on its code), `load` and `hydrate` (campaign miss), `wait` and `fetch`
(somebody else's reservation, replay), `persist`, then `rollback` or `finalize`;
`direct` is the path without Redis.

Failures. Every call either works, fails unexecuted, or is executed and its answer
is lost (`Works`, `Fails`, `ReplyLost`). After a client disconnect every call of that
request fails. An instance may die at any label. An idempotency entry may expire at
any time, which is more than 30 s and 24 h allow and therefore covers them. Redis may
lose all its data. An operator may create, activate and end the campaign.

### TaskPipeline

State. `task` and `event` are the MySQL rows: status, retry count, whether
`next_retry_at` is absent, ahead or due, and whether `updated_at` lies before the
stale timeout (`old`). `ready`, `zset`, `dlq` are the Redis structures. `relay`, `worker`,
`sched`, `comp`, `replay` are the local states of the loops and calls, with any number of
relays, workers, schedulers and compensators. `replays` counts the replay calls that found a task.
`dropped` (ids lost with a process or with Redis), `taken` (how often a task was recovered while a
worker still held it) and `resent` (letters pushed again) are history, the last two per task.

Steps. One SQL statement, one transaction or one Redis command each. A polling round
that finds nothing changes nothing and is left out. Ordinary actions are grouped by
loop (`RelayNext`, `WorkerNext`, `SchedNext`, `CompNext`, `ReplayNext`); failed calls, lost
answers, crashes and slow workers are under `Failure`, each costing one of `MaxFaults`. So are the
commands that the Redis client sends a second time because it saw no answer (`RelayResend`,
`WorkerResend`, `SchedResend`, `CompResend`, `ReplayResend`: `pkg/redis/client.go` leaves go-redis its
default of three retries; a second BLPOP is a pop whose worker dies, and another pop), and a
Redis that restarts empty (`RedisFlush`). `Tick` lets delays run out and rows age. A RUNNING row ages for free only when nobody
works on it; a worker that outlives the stale timeout (`Stall`) costs a fault.

### ClaimDelivery

Extends `TaskPipeline` with `available` and `claims`. `Claim` is the commit of
`PersistClaimAfterAdjudication` or `ClaimCoupon` down to `createTaskAndOutbox`: the ledger's rows and
the pipeline's `Create` in one step. `CreateTask` is `POST /tasks`. `Loops` is all the rest of the
pipeline. The ledger's `notices` are no variable here: they are the claims whose row in `async_tasks`
exists. A task that somebody creates through the API under the biz id of a future claim, which
`createTaskAndOutbox` would adopt, is left out.

### IsolationLimiter

`sem` is the length of the channel, `queued` the atomic counter, `pc` the position of
each request goroutine in `Acquire`. A step is one channel operation or one atomic
add. As in the Go runtime, a receive on a full channel with a blocked sender hands
the slot over at once; which sender gets it is left open, so the model allows every order
Go's queue could produce.

### RateLimiter, WorkerPool, HttpServer

`Allow` holds a mutex, so it is one step. Time and tokens are integers in units of
`1/Unit`, which makes elapsed time times rate exact; rounding of `float64` is left out. A step
of the pool is one critical section or one channel operation; a send on the channel that
`Close` has closed panics, and the label `panicked` records it. `HttpServer` takes a request
of `/jobs` through isolation, rate limit and handler into `Submit`, and shows that panic where
it happens: `net/http` or `Recovery` catches it, and the deferred release still runs.
`Elsewhere` is the use of the shared rate limiter by the other routes. After a signal,
`Shutdown` and `Close` run at the same time; `Shutdown` returns when no request is under way
or after the stop timeout, `Close` when the workers have drained the channel; main waits for both.

### Migrator, QuanApp

A file is a sequence of kinds of statements, those found in `examples/Quan/sql`: "keep" may be
repeated (`CREATE TABLE IF NOT EXISTS`), "seed" may be repeated and sets the stock of the campaign
back (the `INSERT` of 001), "once" fails when repeated (004). MySQL commits each by itself.
`mig` is the local state of `Run`: the versions it read, the file and the statement it is at.
`executed`, `recorded` and `available` are the database. `migration.enabled` is set, as in
`examples/Quan/config.yaml`. A call may fail, or work and lose its
answer; an instance may crash anywhere. `app` holds how far an instance has started, which
components are at work (`on`) and whose `Stop` is still awaited (`stop`). The loops appear only
as started or stopped; what they do is in `TaskPipeline`. A claim is one step here, since
`ClaimService` shows it in detail. `raced` is history: two instances migrated at the same time.

### SqlSplitter

`splitSQLStatements` is a fold over the text with the flags of the loop as its state. The
reference is written the other way round: it finds the lexical elements of the text
(strings, comments, characters) and joins what is between the semicolons among them.
They are compared on every text over ten characters up to length five that is `Admissible`.
The rest are texts on which the code differs from MySQL by design or by neglect: it drops
a comment without leaving a blank (`a/**/b` becomes `ab`), takes `--` for a comment whatever
follows it, and treats a backslash as an escape outside strings and in identifiers. None of
them occurs in the repository's files.

## 3. Runs

All sizes are for TLC with two workers. Deadlock checking is off in all runs because they may
legitimately end: every request has been answered, every task is settled, the process
has exited.

| Run | Instance | Distinct states | Shows |
|---|---|---|---|
| `claim_safety` | 3 requests, 2 users, 2 keys, stock 2, limit 1, with and without Redis, 1 fault, 1 flush, symmetry | 1 365 000 | types, per-user limit, answers belong to committed claims and agree for equal keys, Redis never over-admits, entries are covered by counters |
| `claim_lifecycle` | 2 requests, 2 users, 1 key, stock 1, stored limit 0, campaign created, activated and ended, window opens and closes, 1 fault, fairness | 301 000 | stock adds up, Redis is exact when undisturbed, its admissions hold in MySQL and its refusals have a cause, replays are stable, every request ends, refinement of `CouponLedger` |
| `pipeline_safety` | 1 task, 1 relay, 2 workers, 2 schedulers, 1 compensator, 1 replay, `max_retry` 2, `MaxReady` 1, 1 fault, symmetry | 1 363 000 | types, retry budget, no silent loss, exclusive runs, one dead letter per death and per repeated push |
| `claim_delivery` | 1 claim for 2 users, 1 API task, 2 relays, 2 workers, 1 scheduler, 1 compensator, `max_retry` 1, no fault, symmetry | 232 000 | claims keep their tasks and stay on their way, exclusive runs, refinement of `CouponLedger` |
| `pipeline_settles` | 1 task, 1 relay, 1 worker, 2 faults, fairness | 224 000 | every committed task ends in SUCCESS or DEAD; refinement of `TaskLifecycle` |
| `demo_server` | 3 requests of which 2 submit a job, 1 slot, 1 place, burst 1, rate 1, 2 ticks of half a second, 1 worker, buffer 1, fairness | 250 000 | limiter bounds, no leaks, exact rate, jobs run exactly once, `Close` drains, `Acquire` returns, accepted jobs run, the process exits |
| `quan_startup` | 2 instances, 3 starts, 2 files of 2 statements, stock 2, 1 fault, the consumer as the loop, fairness; 111 111 texts | 232 000 | served schemas are complete, no stock is reset, starts are refused for a cause, stops are complete, starts and stops end, statements are split as MySQL would |
| `replay_without_redis` | 2 requests, stock 1, no Redis | violation | finding 1 |
| `disconnect_leaks_reservation` | 2 requests, stock 1, 1 fault | violation | finding 2 |
| `pop_loses_task` | 1 task, 1 fault | violation | finding 3 |
| `replay_buries_task` | 1 task, `max_retry` 2, 1 replay | violation | finding 4 |
| `replays_race` | 1 task, `max_retry` 1, 2 replays | violation | finding 5 |

Why these bounds. Claims: three requests are the fewest for a reservation that expires, is taken by
a second request and then meets a late Rollback or Finalize of the first while a third competes for
the unit; two keys of one user are needed for the limit, two users for the counters not to be
confused. The stored limit 0 exercises the normalisation to one. When Redis forgets, the per-user
limit is at stake in `claim_safety`; in `claim_lifecycle` the stock is, when a commit is reported as
failed. That stock and refinement survive an empty Redis as well is proved (`StockAndLimitSafe`,
`ServiceImplementsLedger`). Two requests suffice for the campaign run, where each is tested against
time and status. Pipeline: tasks share nothing but the order of the ready list, so one task with
several actors on it is the interesting instance for faults; `claim_delivery` has two, and two
relays, of which the slow one is recovered by the other without any fault and publishes the id a
second time. `max_retry` 2 gives one retry and one exhaustion. `MaxReady` 2 lets a duplicate
delivery wait behind the original; beyond it a push waits, which removes only longer lists of the
same id. `pipeline_safety` has room for one id, since what a duplicate does there begins when two
workers have popped it, one after the other. Two of a loop stand for two instances; the runs split
them (two schedulers with faults, two relays without) so that each stays small. One compensator is
enough for its list to be out of date: the worker it found too slow fails, the retry starts on the
other worker, and is then taken for the stale run. Two compensators, and two relays with faults, are
too many states beside the rest; there the theorems of section 4 stand alone, which hold for any
number of each. Server: three requests fill the slot and the place and overshoot the counter; two
jobs, one worker and one place in the channel let a job be in the worker, in the channel and blocked
in `Submit`; two ticks earn one token. The bounds of the limiter are proved for every size. Startup:
three starts are one that fails half-way and two that race after it, or a restart after a sale; the
two files are 001 and 004, the others are like the first statement of 001; the other loops start and
stop like the consumer. Five characters hold a comment in a statement, an escaped quote in a string,
or a comment mark that overlaps another. With one fault every single failing call, crash or lost
answer is tried at every point; the settling run uses two, so that a recovery can fail too.

Symmetry is used in safety runs only, over identities that the modules never compare
except for equality.

Fairness. `ClaimService!FairSpec`: a running handler keeps being scheduled. Its calls
return or fail, and the wait for a foreign reservation has a deadline of its own, so no
request waits for another. Nothing is assumed of clients, clock or operators.
`TaskPipeline!FairSpec`: each loop polls on a ticker or a blocking pop for ever, and the
clock runs; no fairness on creation, replay or failures, which `MaxFaults` bounds.
`HttpServer!ServerFairSpec`: goroutines in `Acquire`, workers and the shutdown are scheduled and
timers fire; a job of the example ends by its own time-out. Nothing makes a handler
return, so the properties hold even if all of them hang. `QuanApp!AppSpec`: calls of a start or
a stop return, and a cancelled loop ends its round; nothing makes a handler return, and nobody
needs to send a signal or to start an instance again.

## 4. What is proved

Checked by TLAPS for all values of the constants that satisfy the named assumptions of the
modules. They say that the bounds are numbers, that `max_retry` is at least one, that there is
a pool worker, that the markers for "no request", "no task", "no job" and "exited" are
different from the things they stand in for, that the jobs are among the requests, that the loops
are the ones `main.go` starts (none without Redis), and that a migration file has at least one
statement, since `applyFile` refuses any other. Every inductive invariant below was checked by TLC
on the instances of section 3 before it was proved.

**Claims in MySQL.**

* `CouponLedgerProofs!LedgerInvariant`: stock conservation, per-user limit, one claim
  per key, a notice per claim. The conjunction is inductive as it is; the work is in
  the cardinalities of `claims` and `ClaimsOf(u)` after one insertion.
* `ClaimServiceProofs!TypeCorrect`: one lemma per group of actions. That no counter goes
  below zero needs the guards of `Decide` and of the stock update.
* `ClaimServiceProofs!AnswersCorrect`: from `LedgerIInv`. `AnswersAreLedgered` alone is not
  inductive: at `fetch` and `finalize` the id about to be answered must already be a
  claim of this user and key, and a claim id that exists must belong to a request that
  is past its transaction, or a second commit under the same id could not be excluded.
* `ClaimServiceProofs!ServiceImplementsLedger`: the mapping is the identity on the MySQL
  variables. `PersistCommit`, `PersistUnknown`, `DirectCommit` and `DirectUnknown` are
  ledger commits, because a COMMIT verdict implies all of the ledger's guards, with
  `LedgerIInv` for the fresh id; every other action stutters.
* `ClaimServiceProofs!StockAndLimitSafe`, `LimitSafe`: the ledger's invariant carried back through
  the refinement. No oversell and no user above the limit, for any number of requests,
  faults, expiries and losses of Redis. In other words: MySQL alone carries these two.
* `ClaimServiceProofs!AnswersAgree`: an answer is a row of the ledger (`AnswersCorrect`), and the ledger
  has one row per user and key (`LedgerKept`, its invariant through the refinement). Neither half
  speaks of two requests; together they do, over any time between them.

**Redis.** The steps are first sorted by what they do to the counters (`Kinds`: an admission, a
purchase, a return, a hydration, a rewrite of one entry, a flush, a step of the path without
Redis, or nothing), so that each invariant is shown for eight kinds of step and not for every
action.

* `ClaimRedisProofs!EntriesCounted`: `EntriesIInv` adds only that the live entries of a user
  are finitely many, without which their number means nothing.
* `ClaimRedisProofs!NeverOveradmits`: `CountersIInv` adds `Fresh`. Until the first hydration
  nothing is reserved or sold, so a snapshot loaded long ago cannot promise more than there is;
  without it a late `EnsureCampaign` would break the bound. Crashes, expiries and late
  Rollbacks are all covered: they make Redis stricter.
* `ClaimRedisProofs!RedisMirrors`, `ReplaysStable`: `ExactIInv`. A reservation is owned by its
  request until that request is through with it (`Tidy`), every claim is remembered by an entry or
  by the request about to finalize it (`Remembered`), a Redis that is not hydrated holds nothing
  (`Blank`), and a replay is at one of four labels with the right id (`Replays`). The two
  properties need each other's parts, so they are proved together.
* `ClaimRedisProofs!AdmissionsHold`: from `PromiseIInv`, carried by the two invariants before. A request
  about to persist is one of the reservations in flight; `NeverOveradmits` bounds them by what MySQL
  has left, in all and for each user, and `EntriesCounted` keeps the user's counter within the limit,
  so neither stock nor allowance can be missing (`RejectIsNotScarcity`). Crashes and expiries keep
  these bounds; only a flush or a commit reported as failed breaks them, which `Agreeing` excludes.
* `ClaimRedisProofs!RefusalsHaveCause`: an action property, the other direction. The refusing step reads
  a counter of Redis, `ExactIInv` says that the counter is exact, and `PromiseIInv` that MySQL has not
  refused it either: nobody is turned away for a unit that a Rollback should have returned.

**Tasks.**

* `TaskLifecycleProofs!LifecycleBudget`: from `RetryIInv`. A bound on the count is not
  inductive: a task that can still be run must be strictly below it. The account is kept task by
  task: what one task is given by its replays no other can spend.
* `TaskPipelineProofs!PipelineTypeCorrect`, `PipelineImplementsLifecycle`, `BudgetSafe`: the same
  route. `TypeOK` contains which labels of a loop go with a task, which is all the
  refinement needs: the updates are compare-and-set, so each is a step of the state
  machine whoever makes it, stale or not.
* `TaskPipelineProofs!RunsAreExclusive`: from `RunIInv`, an account of the holders of a task: they are at
  most the takeovers so far plus the permission of the row (`Permit`), which is one while it is
  RUNNING, or SUCCESS when only the answer of `MarkSuccess` was lost, and else none.
  `TryMarkRunning` adds a holder and finds a row without permission; `MarkRecovered` takes the
  permission and is counted in `taken`; a late write of a holder takes it too, but that holder leaves.
  The property itself is this account, so a second and a third takeover are counted, not excused.
* `TaskPipelineProofs!NothingLost`: from `LossIInv`, which adds that a relay about to confirm has queued
  the id, and that nothing is under way for a task that does not exist (else an event could be
  PUBLISHED at birth). The steps are described by what they may do to a row, an event,
  a relay and a replay (`RowWrite`, `EventWrite`, `RelayMove`); `QueuedStays` and
  `ReplayingStays` say that an id on its way stays on its way. A `RedisFlush` puts the ids of the ready list into `dropped`;
  those that only the retry set knew are safe because their rows have a retry time.* `TaskPipelineProofs!LettersCounted`: from `LetterIInv`, an account per task: letters written, letters on
  their way in a worker (`Carriers`) and the death still to come (`Owed`) are at most one plus the
  replays plus the repeated pushes. Without a repeated push a second letter would need a second change from RUNNING to DEAD, and only a replay
  leads out of DEAD (`DeadStays`).

**Claims and tasks together.**

* `ClaimDeliveryProofs!PipelineHalf`: every step of the whole is a step of the pipeline, so that
  `NothingLost`, `RunsAreExclusive`, `BudgetSafe` and the others hold of it.
* `ClaimDeliveryProofs!ClaimsStayOnTheirWay`: from `Linked`, that the rows of every claim exist. They are
  written with it and no step removes them (`RowsStay`, read off `RowWrite` and `EventWrite`); the rest is
  `NothingLost`.
* `ClaimDeliveryProofs!DeliveryImplementsLedger`: a claim is a ledger commit because its task is fresh,
  hence by `Linked` its id is no claim's yet. Every other step leaves the ledger's variables alone, the
  notices among them: `LoopsKeepRows` shows that no loop makes or unmakes a row.

**Example server.**

* `HttpServerProofs!LimiterSafe`: `TypeOK`, `Bounded` and `NothingLeaks` are inductive
  together. The steps are lemmas on how the number of requests at a set of labels changes
  when one of them moves.
* `HttpServerProofs!LimiterIsTokenBucket`: from `RateInv`. `RateBound` speaks of `now`, but tokens are
  only counted at a call; so the invariant bounds every interval up to `last` with the tokens that
  are left (`Budget`), says that one interval is exhausted (`Tight`), and that nothing was granted
  since (`QuietSinceLast`).
* `HttpServerProofs!PoolConserves`: from `PoolInv`, where "exactly one copy" is spelled out place by
  place (`OnePlace`), and a worker that left saw the channel closed and empty (`Drained`).
* `HttpServerProofs!ServerComposes`: a step of the server is a step or a stutter of each of the three
  components. From it `RouteIsBounded`, `RouteLeaksNothing`, `RateIsKept`, `RateIsUsed`, `JobsRunOnce` and
  `ShutdownDrainsPool` follow for the whole server, panics and shutdown included;
  `ServerTypeCorrect` adds the chain's own variables.

**Startup.**

* `QuanAppProofs!AppInvariance` and the theorems drawn from it: `AppTypeCorrect`, `SchemaBeforeService`,
  `SeedsNeverTouchSales`, `StopLeavesNothing`. `AppInv` consists of `SchemaInv` (a recorded version is completely
  executed; what a run has passed is recorded or in its view), `LifeInv` (the migrator runs inside its
  component, what comes after it needs all versions recorded, what is at work was started and is
  waited for in a stop), `RaceInv` (without a race one instance migrates, and nobody else
  records what it has still to do) and `SalesInv` (nothing is sold before that). The files are any
  sequence; the least outstanding version is taken by well-founded minimum, not by induction.
* `QuanAppProofs!MigrationFailureExplained`: the action property `MigrationFailsForCause`, from the same
  invariant: a statement that cannot be repeated fails only if it was executed before, and then
  its file is torn or two instances raced.

**Only model-checked.** `RequestEnds`, `Settles`, `AcquireEnds`, `AcceptedJobsRun`, `StopEnds` and
`LifecycleEnds`, because liveness under fairness is outside the prover. `SplitsAsMySQL`, because what a fold
computes on every text needs induction over data. The five violation runs are counterexamples,
and need no proof. Every other property of a passing run is a theorem.

## 5. Findings

1. Without Redis a replay of the request that took the last unit is refused as sold
   out (`repository_claim.go:27`): stock is looked at before the key. The documents promise
   the same claim again. The path with Redis has the right order.
2. When a client disconnects while its claim is persisted, the Redis reservation is never
   given back (`service.go:99`): Rollback runs with the cancelled context. The
   counters have no TTL, so the unit cannot be sold until Redis is hydrated again.
3. A worker that dies, or whose `TryMarkRunning` fails, after BLPOP leaves a PENDING
   task with a PUBLISHED event that nothing scans for (`consumer.go:173`). `NoSilentLoss`
   shows, within this model, that this, the crash of a replay and a Redis that restarts without its
   ready list are the only ways to strand a task.
4. Replaying a FAILED task that waits for its retry makes it DEAD with attempts left
   (`service.go:137`).
5. Of two concurrent replays of a dead task the second restores DEAD after the first has
   emptied the dead-letter list (`service.go:132`); the task can then not be replayed again. A
   `PushDLQ` that fails, a Redis that restarts empty, and a `ReplayFromDLQ` that the client sends
   twice lead to the same state.

Seen while modelling, without a document to hold against the code: a dead letter pushed twice by the
Redis client stays behind when the task has been replayed, and a later replay of the task, FAILED or
DEAD, uses it up (`queue.go:53`; `DeadLetters` counts them); two instances that migrate an empty
database at once can set sold stock back (`migration.go:59`, what `raced` excludes in
`SeedsBeforeSales`); a crash inside 004 leaves a file that no restart can apply (`Torn`); the
checksum of a migration is stored and never compared; a campaign that Redis has cached as DRAFT
stays inactive there after its activation (`decision.go:143`); a graceful stop that cancels a worker
between BLPOP and `TryMarkRunning` strands the task like a crash does; the example server reports a
successful start when its address is in use, because it listens in a goroutine (`main.go:226`).

## 6. What is not modelled

Within modelled parts: `GetMyClaim` and `GetTask` (reads); the duplicate branch of
`CreateTask` (a read inside a transaction, relevant for the connection pool only);
malformed outbox payloads and the SUSPENDED event status (both writers marshal
payloads that parse); `Queue.RollbackReplay` (no caller); batches at their limit and the
pending-count metric; collation of idempotency keys; the FIFO order of blocked channel
senders; a panic of a pool task, which ends the process; a pool with no workers; nil tasks;
rounding in the rate limiter; a statement that a crashed instance sent and that MySQL
executes only after the next start; a closed client under a loop (it fails the loop's calls,
which `TaskPipeline` covers as faults); an instance with `migration.enabled: false`, whose
`MigrationComponent.Start` does nothing (`migration.go:232-245`) and which serves on whatever schema it
finds, so that `ServesOnlyMigrated` does not hold of it; the routes of the example server other than `/jobs`.

Whole parts: configuration, logging, errors and metrics have no state these properties
depend on. Trace id and logging middleware pass requests on.

## 7. Plan

Done, in this order: the claim path with its ledger, refinement and proofs; the pipeline
with its state machine, refinement and proofs; the limiter; several schedulers and
compensators in the pipeline; rate limiter, pool and their composition in the example
server; migrator, statement splitter and the lifecycle of the instances.

Since then: the agreement of answers, admissions and refusals between Redis and MySQL, the account of
dead letters, and the composition of ledger and pipeline, each with its proof.

Next modules: the connection pool, for the duplicate branch of `CreateTask` with every
connection taken; in `ClaimDelivery`, the adoption of a task that the API created first, and under
fairness that every claim is eventually notified (`Settles` says it of tasks).

Next proofs: every safety property of the runs is proved. What would say more is the shape of what
`splitSQLStatements` returns (no empty statement, whatever the text), as an invariant of its loop
rather than of its result.
