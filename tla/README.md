# TLA+ models of GetRich

GetRich is a quant platform for the A-share market: data ingestion, a backtest engine, live
signals, and an API (`gr-api`) with a queue of backtest jobs, subscriptions and payments.
This directory holds TLA+ models of its stateful, concurrent parts, the TLC configurations
that check them on small instances, and TLAPS proofs for every instance.

Paths below are relative to the repository's `packages/`; `gr_api/` stands for
`gr-api/src/gr_api/`, and so on. `PROJECT.json` maps every definition to its lines.

## 1. Where to start

| module | models | read with |
|---|---|---|
| `JobStore` | one row of `backtest.backtest_jobs` and its SQL statements | `gr_api/jobs/persistence.py` |
| `BacktestJobs` | POST, broker, workers, cancel, time, around those rows | `gr_api/{routers/backtest_jobs,services/backtest_job,worker/tasks,jobs/runner,jobs/ops}.py` |
| `JobLease` | what the job queue promises, in 6 actions | - |
| `BacktestJobsLiveness` | fairness, message/row balance, what must eventually happen | the same code |
| `JobPosts` | POSTs with an Idempotency-Key that overlap | `gr_api/services/backtest_job.py` |
| `TrialRuns` | one worker's sweep: trial loop, progress callbacks, cancel listener, last row writes | `gr_api/{jobs/runner,jobs/ops,worker/cancel_listener}.py`, `gr_backtest/{sweep,walk_forward}.py` |
| `JobEvents` | event streams of a job and the LISTEN pump that wakes them | `gr_api/services/{backtest_job,backtest_sweep,backtest_walk_forward,job_listener}.py` |
| `Subscriptions` | subscribe, unsubscribe, payment webhook as concurrent transactions | `gr_api/services/{subscription,payment}.py` |
| `BacktestAccount` | the bar loop of a backtest and the account it trades on | `gr_backtest/{api,account,execution,margin,risk}.py` |
| `TradeBook` | the trade journal: executions, imports, reconciliation | `gr_signal/{trade_writer,trade_reconciler}.py`, `gr_api/services/signal.py` |
| `Migrations` | the migration runner and its two executors | `gr_db/{runner,executors}.py` |
| `ConnectionPool` | threads and the ClickHouse pool | `gr_data/db/clickhouse/pool.py` |
| `PickImport` | imports of a strategy's daily pools, two at a time | `gr_api/services/pick_import.py` |
| `RiskImport` | risk bundles from the raw download to PostgreSQL | `gr_data/{raw/ricequant,ingest/ricequant/riskmodel,db/risk_receipts}` |
| `MonthlyBackfill` | the supervised backfill that drives `RiskImport` | `gr-data/ops/ricequant_backfill/run_monthly_accounts.py` |
| `MC*` with 12 cfgs | instances for TLC | - |
| `SumTheorems` | what sums over finite sets are; theorems only | - |
| `*_proofs` (7) | TLAPS proofs: `BacktestJobs` (with its lease and dispatch), `JobEvents`, `Subscriptions`, `MonthlyBackfill` (with `RiskImport`), `Backtest` (POSTs, trial runs, account), `Data` (pool, migrations, picks, trade book), `Platform` (the seven in one run) | - |

Check a run with `tlc -config MCBacktestJobs_safety.cfg MCBacktestJobs`, a proof with
`tlapm BacktestJobs_proofs.tla`. Definitions introduced by "Variant for the checks" are
deliberately wrong forms of the definition that follows; no specification uses them. They
exist to show that each property fails when the code is changed in that way.

## 2. Inventory

For each part: the state it keeps, its operations, what is hard about it, and what makes it
correct. "Modelled" names the module; the rest is in the plan (section 10) or out of scope
(section 11).

**Backtest job queue** (`gr_api/jobs/persistence.py`, `jobs/runner.py`, `worker/tasks.py`,
`worker/factory.py`). State: job rows in PostgreSQL, messages in the Celery broker, what a
worker is running. Operations: claim (`FOR UPDATE SKIP LOCKED`), progress, complete, fail,
retry with backoff, cancel, recovery of stale rows. Interacts with the API (which inserts
rows and sends messages) and the ops (which save results). Hard: two workers and one row;
a cancel between a probe and a write; a lost worker; a run that outlasts the stale limit;
messages and rows that are never matched again. Correct when one worker runs a job at a
time, outcomes are final, attempts are bounded, and queued jobs get run. *Modelled:
`JobStore`, `BacktestJobs`, `JobLease`, `BacktestJobsLiveness`.*

**Backtest job API** (`gr_api/services/backtest_job.py`, `routers/backtest_jobs.py`,
`deps.py`). State: the request's transaction, the idempotency key. Operations: POST of
three job types, repeated POST, cancel, status, SSE stream. Hard: the message is sent
before the row is committed; the key is looked up before the row it guards is there; cancel
reads and then writes. Correct when an answer fits its request and a key makes one job.
*Modelled: `BacktestJobs` (POST, repeat, cancel), `JobPosts` (key), `JobEvents` (stream).*

**Backtest job operations** (`gr_api/jobs/ops.py`) and the **sweep and walk-forward drivers**
(`gr_backtest/{sweep,walk_forward}.py`). Run trials, probe for cancellation between them,
report progress, save results. Hard: progress writes are scheduled as coroutines, start after
the last trial and commit in any order. Correct when the row ends at the percentage its
status calls for. *Modelled: `TrialRuns` (control; what is computed is left out).*

**Cancel listener and worker lifespan** (`worker/cancel_listener.py`, `worker/lifespan.py`).
State: a set of known-cancelled ids in each worker, filled by a LISTEN pump. Hard: the pump
is a task of an event loop that ends; every row write sends the NOTIFY it takes for a cancel.
Correct when nothing but a cancel stops a run. *Modelled within `TrialRuns`.*

**Job event streams** (`services/job_listener.py`, `services/sse.py`, the sweep and
walk-forward services). State: one Event a job, shared by its streams. Hard: one stream's
exit while another waits; a NOTIFY between the read and the wait; a lost connection. Correct
when every stream that stays shows every change. *Modelled: `JobEvents`.*

**Orders, payments and subscriptions** (`services/payment.py`, `subscription.py`,
`order.py`). State: `app.orders`, `app.user_strategy_subscriptions`. Operations: subscribe,
unsubscribe, the provider's webhook. Hard: every handler reads, decides, and writes by id
without a lock; deliveries repeat, reorder and overlap. Correct when payment and access move
together and a redelivery changes nothing. *Modelled: `Subscriptions`.*

**Backtest engine** (`gr_backtest/{api,account,execution,cost,margin,risk}.py`). State:
cash, frozen cash, positions, margin, sub-accounts. Operations: reserve, match, apply a fill,
corporate actions, daily settlement, margin call, liquidation. Hard: long sequences of legal
calls with signs that turn. Correct when cash, cost, profit and margin agree after every
sequence. *Partly modelled: `BacktestAccount`.*

**Trade booking** (`gr_signal/{trade_writer,trade_reconciler,account_loader}.py`,
`gr_api/services/signal.py`). State: `strategy_trades` with average cost and profit per row.
Hard: executions recorded late and at once, each recomputing all rows it can see. Correct
when each row's profit follows from the rows before it. *Modelled: `TradeBook`; the readers
are left out.*

**Database migrations** (`gr_db/{runner,executors}.py`). State: schema and ledger. Hard: a
ClickHouse migration applied statement by statement, two runs that plan from one ledger, a
file edited after it was applied. Correct when the ledger claims no more than was done and a
run that succeeds leaves it current. *Modelled: `Migrations`.*

**ClickHouse connection pool** (`gr_data/db/clickhouse/pool.py`). State: a list of wrapped
connections and counters under one lock. Hard: releases of connections that were closed or
taken again. Correct when a client has one holder and the counters match the list.
*Modelled: `ConnectionPool`.*

**Risk model download and import** (`gr_data/raw/ricequant`, `ingest/ricequant/riskmodel.py`,
`db/risk_receipts.py`). State: published observations and a round's journal on disk; captures,
checkpoints, receipts, run bindings in PostgreSQL. Hard: deaths between publication and
journal, a COMMIT whose answer is lost, a checkout that moves, several importers. Correct
when an observation is imported whole and once and no process misreports it. *Modelled:
`RiskImport`.*

**Risk model backfill** (`gr-data/ops/ricequant_backfill/run_monthly_accounts.py`). State: one
ledger file replaced whole at each save; children that outlive the runner. Hard: a stop or a
death in the middle of a job, IPOs that have to be recovered the day after. Correct when what
the ledger calls complete is in the database, and nobody goes on past a problem without a
review. *Modelled: `MonthlyBackfill`.*

**Pick imports** (`gr_api/services/pick_import.py`). State: one batch of items for each
strategy and trading day, superseded by overwrites. Hard: items carry the day their symbol
entered, derived from earlier batches; checks and write are separate statements, and another
import may run between them. Correct when a day's items are one batch's, whole, and its
history explains their dates. *Modelled: `PickImport`.*

**Live signals, broker and risk** (`gr_signal/{broker,live_runner,scheduler,live_risk,
signal_writer}.py`). A run builds a context, checks risk and inserts the signals it produces;
strategies are isolated from each other. No orders are placed: the broker adapters are stubs,
and nothing calls the one in memory. *Not modelled: no state beyond one INSERT.*

**The rest**: pages of picks and strategies, admin imports, diagnosis and authentication
(`gr_api`), data loading, reports and strategies (`gr_backtest`), market data download and
realtime streams (`gr_data`), option pricing (`gr_factor`), tools and front-ends. See section
11.

## 3. The job queue

### State and code

| variable | code |
|---|---|
| `rows` | `backtest.backtest_jobs` as committed: status, attempt, `next_retry_at` (`retry`), age of `updated_at` (`aged`) |
| `request` | the POST's transaction: open between the insert and `get_db`'s exit |
| `messages` | Celery messages by job id, in the broker |
| `pc`, `msg`, `run` | a worker in `_run_job_sync` and `run_once`; the unacknowledged message; the claimed job with the attempt of the claimed row |
| `results` | the user_id an op's results were saved under |
| `cancelling`, `cancelled` | cancel requests past their status check; jobs whose cancel was answered with success (history) |
| `dropped`, `crashes`, `reposts` | history: messages that ended before a claim was made; bounds |

One action is one committed transaction or one read. `Post`, `Commit`, `Rollback` and
`Repost` are the POST handlers; `Receive` .. `ClaimNothing` are `_run_job_sync` up to the
claim; `Heartbeat` .. `Finish` are `run_once`; `StoreFails` is a store call that raises out
of it; `Crash` is a lost worker process whose message the broker redelivers (`acks_late`,
`reject_on_worker_lost`, prefetch 1); `CancelRequest` and `CancelWrite` are `cancel_job`'s
two statements. A claim takes any runnable row of its message's *type*, not its job.
`RetryDue` and `Age` are the clock, reduced to the comparisons the SQL makes.

The transport is Celery's, the one for production. The `inproc` transport of development runs
the same `run_once` as a background task of the API process.

### Runs

Bounds: two jobs, two workers, one user besides anonymous, one lost worker, one repeated POST.
Two jobs of one type on two workers is the smallest instance where a message is spent on
the other job and a row is contended; one crash gives a redelivery that races a live worker.
Attempts are bounded by `max_attempts` 1 or 2. With runs that outlast `stale_seconds`
(`long_op`) it may pass that bound, but stays finite: only a worker whose claimed attempt is
below `max_attempts` retries.

| run | question | distinct states |
|---|---|---|
| `safety` | with lost workers, lost transactions, repeated POSTs, failing stores and failing probes, and every run within `stale_seconds`: one execution per job, attempts bounded, outcomes final, a refinement of `JobLease`? | 102 000 |
| `faults` | and with runs that outlast `stale_seconds`: are completed jobs backed by results, are cancelled jobs with a single attempt left alone, do first attempts that wait never outnumber their type's messages and the dropped ones? | 525 000 |
| `liveness` | is a queued job run to its end when no message is dropped? | 5 600 |
| `cancel`, `sweepowner`, `dispatch`, `retry` | do four statements of the comments hold? They do not (below). | stop at the violation |

Deadlock is not checked: when all jobs have ended, the queue is at rest.

`DispatchBalanced` deserves a word. Nothing ties a message to a row after the POST, so whether
a job runs is a matter of counting: the rows of a type that wait for their *first* attempt
never outnumber that type's messages in the broker and in the hands of claiming workers, plus
those dropped. It is an inequality per type and says nothing of retried rows that are due or of
stale running ones, which may well have no message. It depends on the claim's ORDER BY: a claim
that preferred retried rows would spend a waiting row's message on a retry. The mutant shows
that, and `DispatchBalancedHolds` that with the code's order it never happens, for any finite
number of jobs and workers.

### What does not hold

* **`cancel`** - `_MARK_RETRY_SQL` has no status test. A cancel that commits between the
  runner's probe and `mark_retry` is answered with success and then overwritten with
  `queued`; the job runs again. `runner.py:220` promises "never retry a job the user
  explicitly asked to stop". In `JobLease` this is the action `Revive`; for jobs with a
  single attempt `CancelIsFinalWithoutRetry` shows, and proves, that it cannot happen.
* **`sweepowner`** - the claim's column list has no `user_id`, so a sweep's results are saved
  without an owner and the owner-scoped reads do not find them.
* **`dispatch`** - the message is sent before the row commits. A worker that is quick finds no
  row, drops the message, and the job stays queued.
* **`retry`** - `mark_retry` sends no message. The new attempt waits for another POST of the
  type.

Three more consequences are in the model without a run of their own. A lost worker's message is
redelivered at once and spent before its row counts as stale, so stale recovery, too, waits for
some other message. A store call that raises after the op ends the task: its message is
acknowledged, and the row stays running with its results saved until it is stale and some other
message comes. No property asks that a running row ends. And a run that outlasts
`stale_seconds` can be retried by two workers, which takes `attempt` past `max_attempts` (hence
`NoLongRuns` in `AttemptsBoundedWhenInTime`).

### Fairness

`FairSpec` is weakly fair to `Commit` (a request ends its transaction), to each worker's step
(a worker process runs its code and Celery hands waiting messages to idle workers), to
`CancelWrite`, and to the clock. It is not fair to POSTs, cancels or faults. Where a worker
may do several things, fairness asks for some step of that worker, not for a particular one.
Weak fairness suffices: a message in the broker and an idle worker stay until they meet.
`QueuedJobsEnd` assumes that no message is dropped and is checked with single attempts and no
lost workers, because the runs above show what happens otherwise.

## 4. Subscriptions

`orders` and `subs` are the two tables, both keyed by the order (`subscribe` inserts one row
into each). `hooks` are webhook requests in progress, `subscribing` and `unsubscribing` the
requests between their SELECT and their writes, `expired` the clock. A handler is cut at
its reads, because PostgreSQL's READ COMMITTED lets other transactions commit there; its
UPDATEs lock their rows until the commit and are one step. The provider is free: any order
number, reference and status, any number of times, in any order, two at once.

Run `payments` (two orders of one buyer for one strategy, two requests at once, two
references, 89 000 states up to symmetry) checks
* under any overlap: `RefundEndsAccess`, `PaidLeavesPending`, `CancelledIsFinal`;
* while deliveries have not overlapped (`overlapped` records it): `SerialPayments` (active
  means paid; a reference names one order) and `ProcessedIsFinal` (idempotence).

The split is the point. The handlers' UPDATEs of orders name the row only, so with two
deliveries in flight a `failed` may overwrite a `paid` and leave its subscription active, and
a `success` may overwrite a `refunded`; that the subscription's UPDATE tests
`pending_payment` is what keeps the three properties of the first group. Two requests
interleave every pair of reads and writes; a third adds no new pair.

Run `access` shows that a paid subscription stops counting as one the moment it is cancelled,
while `subscription.py:4` and the response's `access_until` say it lasts until `expire_date`.

Also visible in the model, and documented by the code as intended or not at all: a refund of
a paid order and a payment after a failed one are answered as processed and ignored; two
pending orders of one buyer for one strategy may both become active; `expire_date` counts
from the order, so a late payment buys fewer days.

## 5. Event streams

`JobEvents` has every row write as one action with the NOTIFY its transaction sends, the
listener's connection with what is under way on it, and each `GET .../events` as a generator
cut where it awaits: the first read, `subscribe`, the wait, the read, the frames. `version`
stands for `updated_at`, which with the status is the etag. `registered` is `_events`,
`flag` the `asyncio.Event` of each registration, named after the stream that made it;
`event` is a stream's local reference, which survives an `unsubscribe` of another stream.

`PushKept` is about the order `wait`, `clear`, `read`: with `clear` after the frame (the
mutant) a notification between the read and the clear is lost. It is stated for streams that
have their event to themselves. When two streams share one, the first to wake clears it and
the first to leave pops it from `_events`, so pushes do get lost, and what is left is the poll.
`UpdatesShown` says that the poll is enough: under any loss and sharing, every stream that
stays shows every version of its row, or a newer one.

Fairness is weak fairness on each open stream's own steps: the event loop runs the
coroutines it has accepted and timers fire. Nothing is assumed of workers, notifications or
the listener, nor that a client ever opens or closes a stream.

Run `streams`: one job, two streams on it, rows written up to version 3, two notifications
under way, 71 000 states. Two streams on one job are the smallest instance that shares an
event; three versions let a notification be overtaken by the next write.

Beside the properties, reading the code for the model showed that `job_listener.py` describes
an event for each subscriber where the streams of a job share one; and that the claim sends no
NOTIFY, so a stream learns that its job runs from the poll.

## 6. Seven components in one run

`MCPlatform` composes seven components that share no state. The constant initial value of
`focus` picks the one that moves; the others stand still, so the run explores the seven one
after the other, and no property relates two of them. 875 000 states together, in about
two minutes.

**`TrialRuns`**: one worker and one job. The op is a coroutine that runs the trial loop
without an await, so nothing else on the event loop moves until the last trial; the progress
callbacks it scheduled then start in order and commit in any order, next to the runner's own
writes (`Awaiting` are the steps at which the loop turns). Three trials, two attempts, one
lost worker: three callbacks can be in every order around `mark_completed`.
* `ProgressFitsStatus` - a completed row says 100 and a queued one 0, whatever lands late.
* `ReportsFit` - a run is given up only after the user's cancel, though every write to the row
  NOTIFYs the pump, and one that reports "completed" leaves the row completed or cancelled.
  With a pump that outlived its loop (the mutant) the worker would take its own progress
  writes for a cancel.

The model shows what `tasks.py` does not say: `init_cancel_listener` runs `start()` in an
`asyncio.run` of its own, which cancels the pump when it returns. The push never arrives, and
every cancel is found by the status probe (`Silent` in the proofs). Progress is not live
either: the callbacks start when the engine is through, although `ops.py` speaks of a worker
thread, and on the way the percentage may go back; only its end is right.

**`JobPosts`**: four POSTs, three of one user with one key, one with another body, one
anonymous. `KeysKept`: an answer with a job fits the request's user and body, under any
overlap; requests that did not overlap have one job between them. Those that did overlap may
have one each: the lookup has no unique index behind it. `raced` records the overlap.

**`BacktestAccount`**: a stock and a future, two prices, at most one order a bar, bars 0 to 2,
with splits, dividends, settlement, margin call and liquidation between them. Amounts are
integers and a position carries its cost, so that only part sales and splits round; `flows`
is a history of money that is neither profit nor cost. Three bars are enough to open, to turn
into a margin call, and to close or be liquidated.
* `BooksBalance` - cash plus cost is what there was plus profit plus flows, and a settled
  account's margin is the sum over its positions.
* `CallStopsExposure` - orders decided before a margin call do not enlarge a position after it.

Read off the model, and not stated as properties: a plain SELL of a future releases no margin
before settlement; the call never clears without a RiskManager; a forced close of a short may
raise `AccountError`, which ends the backtest; a corporate action is applied on every bar of
its day; `account.py:285` adds `variation_pnl_cumulative` to cash that contains it. Equity is
in the module only as the liquidation thresholds need it.

**`Migrations`**: two files of two statements, two runs, one edit, both backends. A run may
fail before any statement. `LedgerBacked`: a recorded version took effect whole, and files
before it are recorded. `SuccessIsCurrent`: a run that had the database to itself and ended
well leaves the ledger as it found the files. Of two overlapping runs the one with the older
checkout may record last; `overlapped` keeps those apart. `LedgerSound` is the two together.

**`ConnectionPool`**: three threads on a pool of one to two connections, four clients, so that
a thread waits at the limit while one that `close_all` took away is still used. Everything but
the use of a client is under one lock, hence one action a method; which idle connections turn
out unhealthy is free. `PoolSound`: one thread a client, none in use within reach of
maintenance, exact counters, never above `max_size`. A client that `close_all` closed under a
thread reconnects at its next query, and nobody closes it after that.

**`TradeBook`**: three trades of one symbol, quantities 1 and 2, prices that are multiples of
every position's size, so that average cost divides exactly; executions, an import and the
repair of old rows at once. Each trade has an `executed_at` of its own, in any order; ties,
where the code's order is undefined, are left out. Trades are symmetric (`TradeSymmetry`): the
model names them nowhere.
* `JournalExplained` - two equations over the whole journal, as an invariant. `ProfitsAddUp`:
  each trade's cumulative profit is the sum of the profits realized one by one up to it.
  `CashAndCost`: it is also the cash so far plus what the held position has cost, however
  often the position turned over and whatever the order of recording.

At READ COMMITTED two concurrent executions may each select before the other commits, and the
last one's UPDATE ignores the other's trade until something reconciles again. The code allows
that. `missed` is a history of exactly those trades: what others committed between the SELECT
and the COMMIT of the request that committed last (`beside` collects them for each request).
Both equations speak of the journal without them (`Together`), so a request that misses a
trade may miss only that one and must agree on the rest; a request that nobody overlapped
misses nothing and must make up for what earlier ones missed; and nothing may break the
equations until the next commit. The mutant, which computes profit only for rows that have
none, is a late trade's undoing. `write_fills` computes an import's profit from the import
alone, so after one everything else is in `missed`. Profits are whole numbers here and are
compared before the code's rounding to two places.

`write_fills` also says that repeating an import creates no duplicates, but gives each row a
new uuid per call, so its `ON CONFLICT (id)` never applies; a repeated `record_execute`
likewise adds a trade.

**`PickImport`**: three imports of one symbol over three trading days, at most two at once; a
file leaves the symbol out, leaves its date blank or states day 2. Three days are the fewest in
which a symbol is seen, missed and seen again; symbols are derived apart, so one is enough.
Each SQL statement is an action: two checks, the derivation, the UPDATE in two halves (what its
snapshot finds, then what is still active when the lock is free), the INSERT that waits for or
is refused by the unique index, the items with COMMIT. The SELECTs of the derivation are one
step: a commit between two of them, like one between the derivation and the write, is an
overlap, about which only `PoolsIntact` speaks, and that does not depend on the dates. The
calendar ends one day early, so both ways to the previous day are taken. `PicksSound` has three
parts:
* `PoolsIntact` - a day's items are its one active batch's, whole, whatever overlaps. Without
  the index, or with an INSERT that does not wait for it, TLC finds two batches and one pool.
* `PoolsExplained` - dates of an import that ran alone are those the whole history explains
  (the scan that the code avoids when the day before has a batch), and stay so: the test for
  uploads out of order, which the mutant drops, is what keeps history fixed behind them.
* `ReplacedOnPurpose` - only an import with `overwrite` replaces a pool.

The last two are about imports that no other overlapped (`concurrent`); without that premise
TLC refutes both. An import of day 1 may pass its test before day 3 commits and commit after
it. One without `overwrite` may find no batch, and supersede the one that was committed in
between, which the docstring of `import_picks` says is answered with 409. A calendar that is
two days behind names too early a day as the previous one, and the pools between are ignored;
`PoolsExplained` leaves such days out.

## 7. Risk data: download, import, backfill

`RiskImport` is two kinds of processes around the disk and PostgreSQL. A raw process
(`gr-data raw`) fetches a day, publishes its observation by a rename, records it in the
journal, captures it, and removes the journal; a lock keeps one raw process a variant. Ingest
processes read a selection and, observation by observation, write business rows, receipt,
binding and checkpoint in one transaction that begins with a table lock. A process is bound
to the checkout of its first call and raises when that has moved; a raw process makes that
call before it waits for its lock, so when it gets the lock it may be bound to any version.
COMMIT is three actions:
answered, unanswered, not done; after the second or third the process may `Ask`. Any process
may be killed anywhere.

`MonthlyBackfill` adds the runner, a step for each save of its ledger or start or end of a
child, and its ledger: status, attempts, jobs, pending IPOs, quota stops. An error before an
attempt is saved stops the ledger without one (`PickFails`); the audit is begun under the
approved checkout, which may move until its result is saved. Quota stops are one flag: while
one stands, a start may be of the account that made it, and is deferred, or of another, and
works. Children survive it
and keep its lock, because the lock's descriptor is passed on. A raw child may still be
waiting for the variant's lock (`queued`) when the runner dies.

| property | what it is about |
|---|---|
| `ImportedOnce` | receipt, binding, checkpoint and rows come together, once, under one version |
| `ReportsHonest` | no process says "failed" of what it committed, nor "done" of what is not there |
| `InitFetchesOnce` | a day is downloaded once in init mode, wherever a process died |
| `CompleteIsImported` | a job the ledger calls complete is in the database under the approved version, in calendar order |
| `IposFollow` | an IPO gap is on the list once and confirmed by the next trading day's job only |
| `ReviewFirst` | after a stop or a death in mid-attempt nobody works before a review |

Run `backfill`: two days of one model, the first with an IPO gap; two importer versions; three
observations. `focus` splits it into three parts, because the full product is too large: the
runner with its children, where an operator's ingest process moves while day 2 is audited and
another account works beside a quota stop on day 1 only;
two ingest processes and a raw process without the runner; raw processes alone, where a day
may have two observations. 1 866 000 states, under three minutes. Two days are the smallest
calendar in which an IPO is recovered; two ingest processes the smallest number that contend.
The proofs have no such split: they hold for any calendar, models and processes.

Two things the code allows. A failure is saved twice, by `run_job` as the attempt's and by
`run` as the ledger's; a kill between them leaves a failed attempt under a ledger that says
running, and the next start goes on without a review. `ReviewFirst` counts a failure from its
second save on (`owed`). A quota stop holds for its local day only, which the code's test wants
too, although `ops/ricequant_backfill/README.md:28` says that work waits for an explicit resume
and does not go on when the next day resets the quota; `ReviewFirst` is not about quota stops,
so no property rests on either reading. And `reports()` follows the save that completes a job
inside the same `try`, so a report that cannot be written marks a complete job's attempt as
failed.

## 8. Proofs

Each proof follows the same line: an inductive invariant, one step per action, one lemma for
what the SQL statements do to a row, and a last step by PTL.

`BacktestJobs_proofs` assumes only the types of the constants (the named assumptions in
`BacktestJobs`: ids differ from the null values, `max_attempts` is at least 1).

* `Inv`, under every fault: a row is there only once its POST committed; a worker holds a
  row that is there; a worker about to retry may; a worker past its op has saved results.
  The last is what makes `CompletedHasResults` inductive, the one before that
  `CancelIsFinalWithoutRetry`.
* `InvInTime`, without `long_op`: a held row is fresh, running or cancelled, at the holder's
  attempt, and held by one. "Fresh" is why a claim cannot take it (the row must be queued or
  aged), "at the holder's attempt" is why `attempt < max_attempts`, tested on the claimed
  row, bounds the row's own attempt. `OneExecution`, `AttemptsBoundedWhenInTime` and
  `SettledIsFinal` follow.
* `LeaseRefined`: without `long_op` every step is a step of
  `JobLease` or leaves its state alone. Each action is mapped by a lemma on how it changes
  the statuses and the leases.
* `Balance`, under every fault, is the inequality of `DispatchBalanced` made inductive. The
  property alone is not: a message may be spent while the transaction of its own POST is open,
  so open requests count as waiting too (`Covered`), each has its message still unless one was
  dropped (`LostDropped`), and a worker that works has a message in hand (`MessageHeld`). What
  a step moves is one summand on either side; that finitely many jobs and workers exist
  (`FiniteAssumption`) is what gives the sums a value.

`SumTheorems` has the lemmas on `SumFunctionOnSet` that those sums and the account's need:
type, change of one summand, sums of parts. The operator is a recursive function on subsets
that a CHOOSE picks, so that it exists has to be proved first; induction over subsets is the
choice of a least one on which a fact would fail, because the library's induction theorems
take an operator.

`Subscriptions_proofs` assumes that `NoOrder` and `NoRef` are no order and no reference.

* `Inv`, under any overlap: an order and its subscription are there together, requests
  name what is there, and a refunded order's subscription is *cancelled*, which is what
  `RefundEndsAccess` needs to survive a late payment.
* `InvSerial`, while no deliveries overlapped: one request in progress, and what it read
  (the binding of its reference and the order's status) still stands when it writes.

The proofs about the other components hold for any sizes and any number of actors too. They
assume what the named assumptions beside the constants say, and no more.

* `Backtest_proofs`, for `JobPosts` - what each request knows of the rows (`FoundFits`), and
  that of two requests with one key that never overlapped, one has seen the other's row
  (`NoneMissed`). `KeysKept` follows.
* `Backtest_proofs`, for `TrialRuns` - a held row runs or is cancelled (`RowHeld`), a step that
  acts on a cancel comes after one (`CancelKnown`), and the pump is never alive (`Silent`),
  without which a progress write would be heard as a cancel. Percentages stay in range by
  arithmetic on `\div` (`PercentRange`, `BoundaryRange`).
* `Backtest_proofs`, for `BacktestAccount` - the books (`AccountInv`: types, `CashExplained`,
  `MarginAdds`) are inductive as they stand, for any symbols, prices, multipliers, fees,
  slippage and ratios. Every fill, split, dividend and settlement changes one position and
  the cash; `AppliedEffect` says what a fill of each side moves, `SumsMove` that the sums
  move with it, `BooksMove` that what is neither cost nor profit lands in `flows`. Rounding
  does no harm because what a partial close leaves is the cost less what it took, whichever
  way the quotient rounds. `MarginAdds` is claimed of settled bars only, so a plain SELL of
  a future, which lets the margin lag, is harmless; a liquidation, between settled states,
  has to release what it closes, and does. `BooksBalance` and `CallStopsExposure` follow.
* `JobEvents_proofs` - nothing under way is newer than its row (`NothingFromTheFuture`), a
  stream waits on an event of its own job (`EventsFit`), and two streams inside their `try`
  blocks on one job are both in `shared` (`SharingKnown`). The last is what lets a clear by one
  stream be harmless to any stream `PushKept` speaks of.
* `MonthlyBackfill_proofs`, for `RiskImport` - `ImportedOnce` needs the lock (`WriterFits`: one
  process stands before its COMMIT, its run bound to nobody or to its own version) and what a
  process has on its hands (`ImportersFit`), from which `ReportsHonest` follows step by step.
  `InitFetchesOnce` rests on `RawFits`: journal entries name published observations, and a raw
  process past its fetch has one of its day.
* The same module, for `MonthlyBackfill` - captures, imports and bindings last (`RowsLast`), so
  what was audited stays true; the job under way is the first that is not complete
  (`JobUnderWay`), so only the day before has IPOs due; a stop that asks for a review is in the
  ledger (`StopsRecorded`). `CompleteIsImported`, `IposFollow` and `ReviewFirst` follow.
* `Data_proofs`, for `ConnectionPool` - what is marked in use is some thread's (`HandedOut`);
  counters follow the list by cardinality lemmas (`CountOut`, `CountIn`, `CountOne`).
* `Data_proofs`, for `Migrations` - a plan is a set of versions, of which the least is applied
  next. Of a file a run has yet to apply, every file before it is recorded, and of the file
  it is at, so many statements took effect (`PlanFits`); a run that was not overlapped is the
  only active one (`Alone`), and what it is through with is recorded as it found it
  (`DoneIsCurrent`). `LedgerIsSound` follows.
* `Data_proofs`, for `PickImport` - what an import's UPDATE holds stays active and is held by it
  alone (`Held`), so the INSERT that follows finds a day without a batch but those (`OneBatch`),
  and items are the active batches' (`RowsOfActive`): `PoolsIntact`. Of imports that ran alone,
  only pools imported meanwhile are of later days (`InOrder`), so the history their items
  were derived from is the one they join (`Prepares`): `PoolsExplained`. Imports that run at
  once are noted (`Noted`), and one that was not may replace what it will replace
  (`Permitted`): `ReplacedOnPurpose`. The three make `PicksAreSound`.
* `Data_proofs`, for `TradeBook` - the book after the n-th trade is a recursive function on
  positions in time. It exists, and it has whole numbers for its values, by the choice of a
  least position that has no book (`BooksExist`, `BookAtFits`); then no execution, import,
  repair or rollback leaves a row without its type (`TradeTypeCorrect`). The set of trades is
  finite, as a table is. `ProfitsAddUpHolds` needs more. The book at a position is the book
  before it and one trade (`BookAtStep`), so by the choice of a least position where it fails,
  its cumulative profit is the sum of what was realized up to it (`BooksAddUp`, with the sums
  of `SumTheorems`), provided no two rows share a position (`Placed`). And what a request
  updates is what is together when it commits: what it selected is the committed trades of
  now, less those beside it, and its own (`SeenBeside`).
* `Platform_proofs` - the run of section 6 begins as each component begins, and each of its
  steps is a step of each component or leaves it alone (`PlatformImplements`). So what is
  proved of a component holds of the run, `PlatformTypeOK` as the first of it.

Only model-checked:
* `QueuedJobsEnd` and `UpdatesShown`: liveness under fairness is beyond the prover.
* `CashAndCost`, the other half of `JournalExplained`: it is an equation only while average
  costs divide exactly. The run's prices are chosen so. For other prices the code's rounding
  makes it approximate, so as a theorem for all constants it would be false.
* The statements that the runs of section 3 and 4 refute, which no proof can save.

Nothing proved depends on the bounds of the runs: the constants of every theorem are any that
satisfy the named assumptions beside their declarations.

## 9. Mutants

Every property of a passing run has a mutant: a mapped definition replaced by the plausible
slip next to it (a dropped status test, `<=` for `<`, ORDER BY without its first key, the
order's word for a status in the subscription's UPDATE, a missing binding test). TLC finds
each property violated under the run's own configuration.

## 10. Plan

Done: the job queue, subscriptions, streams, trial runs, POSTs, account, migrations, pool,
trade journal, pick imports, risk import and backfill. What would add most next, in order:

1. **AdminImports** (`gr_api/services/admin_import.py`): preview and commit of an import job;
   `commit_import` reads the job's status and commits later without a lock.
2. **BacktestAccount** with sub-accounts, T+1 lots and execution lags above one bar; an
   abstract ledger that it refines.
3. `signal_writer.write_batch`, once it can run: it indexes dict rows by `row[0]`, its INSERT
   leaves out the NOT NULL column `market`, and its `ON CONFLICT (strategy_id, symbol,
   published_at)` has no unique index in the DDL.
4. Proofs: that `BacktestAccount` has no negative cash where the code tests for it, and that
   `CashAndCost` holds of `TradeBook` at any price up to a bound on the rounding.

## 11. What is not modelled, and why

* What a job computes: the payload, the metrics. The percentage of progress is modelled in
  `TrialRuns` and left out of the other modules.
* The job row's error columns, timestamps and references; `claim`'s order among rows with
  equal `next_retry_at` class (any is allowed).
* A worker's event loop that is blocked by its engine sends no heartbeats, so a run longer than
  `stale_seconds` counts as stale; that is `long_op` of `BacktestJobs`.
* Redis or PostgreSQL losing committed data; Celery's visibility timeout.
* Prices, order listings and access grants: the webhook inserts grants only for
  `strategy_payg` items, which nothing in the repository creates.
* Of the account: sub-accounts, T+1, several strategies, lots and partial fills. Its fills are
  whole, and `Decimal` is a whole number.
* Of the backfill: the audit's SQL and its report. `AuditPasses` has the facts they establish.
* Read services, formatting, statistics, option pricing, other data downloads, HTML and React
  (together most of the repository's lines): no state that several actors share, or numeric
  work that TLC cannot evaluate usefully.
