# db-qbs: TLA+ models, model checking and proofs

db-qbs imports the result of an Oracle query into a MySQL table. Three kinds of process
take part:

- the **source parent** (`crates/source/src/server.rs`, `http.rs`): a resident process with
  tasks, data sources, agents, schedules, run history, alerts and a web console;
- one **run child** per run (`crates/source/src/main.rs`, `transfer.rs`): reads the rows from
  Oracle, pushes them to the agent batch by batch, commits, reports on standard output;
- the **target agent** (`crates/sink`): a resident HTTP server next to MySQL that collects
  the rows in a staging table and swaps them into the target table in one transaction.

What the system promises is small and hard to keep: the target table receives the whole
result or nothing; two runs never overlap on a target table; what the history says happened to
the target table did happen; and a table that is still held is never shown as free. Calls get
lost, processes are killed at any point, and the agent forgets everything when it restarts.

## Inventory

| Part | State | Operations | Talks to |
|---|---|---|---|
| `SinkService` (`sink/src/service.rs`) | `active_runs`, `admitting`, `tombstones`, one mutex each | open (admission, precheck, staging), write_batch, commit, abort, get | MySQL; called over HTTP by children and the parent |
| `MysqlDestination` (`sink/src/mysql_destination.rs`) | staging and target tables in MySQL | create_staging, write_batch, atomic_swap, drop_staging | `RitualPool` |
| `RitualPool` (same file) | idle connections, `live`, a condition variable | with_conn, acquire, open_counted, release | MySQL server |
| precheck, target shape (`sink/src/precheck.rs`, `shared/src/target_shape.rs`) | none | column compatibility, range checks | `open` |
| listener, agent identity (`sink/src/http.rs`, `agent.rs`) | 8 worker threads, `instance_id` file | accept, route, answer | `SinkService` |
| run child (`source/src/transfer.rs`, `main.rs`) | stage, batch buffer, counters | run_transfer, fail_before_commit, diagnose_commit | Oracle, agent, parent (its log) |
| agent client (`source/src/protocol.rs`) | timeouts | open (two legs), push_batch, commit, get, abort | agent |
| Oracle source (`source/src/oracle_source.rs`) | cursor | next_row, range_check | Oracle |
| run control (`source/src/http.rs`) | `active_runs`, `live_histories`, `stuck_aborts` under one mutex | start, cancel, supervise, abort on behalf, release, reclaim after restart, shutdown, delete task | children (process, log), agent, history |
| run history (`source/src/run_history.rs`) | rows in SQLite | apply_log, mark_unknown, finalize, retention | run control, alerts |
| run log (`source/src/run_log_store.rs`) | numbered lines in SQLite | append, page, retention | run control |
| scheduler, cron (`source/src/scheduler.rs`, `cron.rs`) | next occurrences, queue | evaluate, drain | run control, history |
| alert outbox, e-mail (`source/src/alert_outbox/`, `email_alert.rs`, `smtp.rs`) | alerts, deliveries | insert with the history row, attempt, retry, expire, manual retry | history, SMTP |
| accounts (`source/src/auth.rs`), agents (`agent.rs`), tasks, data sources (`task_store.rs`, `datasource.rs`) | SQLite rows, sessions | login, register, probe, edit, delete | HTTP handlers |
| web console (`web/`) | none that runs depend on | - | parent's HTTP API |

Where it is hard:

- **interleaving in the agent.** Locks cover only map updates; every MySQL round trip of open,
  push and commit is outside them, while `abort` holds the lock across its `DROP TABLE`.
- **lost calls.** The child's calls have timeouts and are never repeated. A call whose answer is
  lost may have been served, may be served later, or may never arrive.
- **death.** The child has no signal handler. The parent reads its log to the end and decides
  from the last stage it saw whether to send an abort in its place.
- **forgetting.** The agent's maps and tombstones are in memory; staging tables and swaps are not.
- **the seal.** Between `sealed = true` and `finish_run` the run belongs to the agent alone: no
  push, abort or second commit may touch it.

What makes each part correct:

- *agent*: one run in flight per target table from admission on; never more runs than the quota;
  at most one swap per run, under its own hold; tombstones that tell the truth; sealed runs that end; seats given back;
- *child*: a whole import or none, a true `target_table_effect`, an end;
- *run control*: every run settled, every hold released or booked, no abort of a sealed run;
- *pool*: an exact count, no lost wakeup, no thread that waits for ever;
- *scheduler*: at most one occurrence per task pending, one late start after a stall and none after
  downtime, no occurrence without an answer, quota kept;
- *outbox*: every run that ends badly has its alert, whatever happens while it is closed; what the
  console says of the mails is so; a mail is repeated only where it must be; each delivery gets on;
- *history*: a finished row stays finished, retention removes rows with their logs and alerts;
- *catalogue*: the identity pinned to an agent is the one that answered at its address, no agent or
  data source goes from under what refers to it, a saved password stays;
- *run log*: no line is written over, and the screen that polls misses none;
- *rules*: what a cron expression fires at is what it says, and a run that is opened loses no digit.

## Modules

| Module | Models | Extends / instantiates |
|---|---|---|
| `SinkService` | the agent: threads, locks, MySQL steps, restart | instantiates `TargetHold` |
| `TargetHold` | what the agent promises: take a table, import once, leave | - |
| `Transfer` | the child and its calls over an unreliable network, composed with the agent | `SinkService` |
| `Supervisor` | the parent that starts, reaps and settles runs, composed with child and agent | `Transfer`, instantiates `TargetImport` |
| `TargetImport` | what the whole promises the person who starts a run: import it whole and once, say what is so | - |
| `RunControl` | the parent over several tasks and several lives: scheduler, starts, holds, shutdown, reclaim | - |
| `Registry` | agents, data sources and tasks under handlers, probes and the start-up migration | - |
| `RunLog` | numbering, retention, resuming and paging of log lines | - |
| `Cron` | parsing of expressions, the next moment, the preview | - |
| `ColumnRules` | column shapes, the suggested table, the precheck, the range check | - |
| `RitualPool` | the connection pool of one run | - |
| `AlertOutbox` | history rows as they are closed, alerts, deliveries, the mail worker, settings | - |
| `SinkServiceProofs`, `SinkCommitProofs` | theorems about `SinkService` | `SinkService`; the second extends the first |
| `SupervisorProofs` | theorems about parent, child, network and agent together | `Supervisor`, `SinkCommitProofs` |
| `RunControlProofs` | theorems about `RunControl` | `RunControl` |
| `RecordsProofs` | theorems about `Registry` and about `RunLog` | `Registry`, `RunLog` |
| `RitualPoolProofs` | theorems about `RitualPool` | `RitualPool` |
| `AlertOutboxProofs` | theorems about `AlertOutbox` | `AlertOutbox` |
| `RulesProofs` | theorems about `ColumnRules` and about `Cron` | `ColumnRules`, `Cron` |
| `MCSinkService`, `MCSupervisor`, `MCRitualPool`, `MCAlertOutbox`, `MCRunControl` | small instances | the module named |
| `MCRecords` | a small instance of four machines that share no state; its first step picks the one that moves | `Registry`, `RunLog`, `Cron`, `ColumnRules` |

### SinkService

A worker thread takes a request and handles it in steps: everything done under one lock, or
between two MySQL round trips, is one action. `call[w]` is the request of worker `w`; `active`,
`run`, `admitting` and `tombstones` are the maps of `SinkService`; `staging`, `landed` and `swaps`
are what is in MySQL.

- open: `Admit` / `RefuseBusyTable` / `RefuseOverQuota` (both maps locked), then `AskRangeCheck`,
  `OpenFails` or `CreateStaging`, `InsertActive`, `ReturnSeat`. Every exit gives the seat back
  (`LeaveSeat`, the guard's `drop`).
- write_batch: `ClaimBatch` (number claimed under the lock), `LandBatch` (MySQL, no lock),
  `AccountBatch` or `BatchFails` with `ReleaseSeq`.
- commit: `Seal`, `Verify` (the count inside the swap transaction), `SwapCommits` or `SwapFails`,
  `FinishRun` (tombstone and removal under the lock), `DropStaging` or `DropFails`.
- abort: one action, since the lock covers the drop. get: two, since it looks at the two maps one
  after the other.
- `Restart` empties the maps and forgets the requests under way; MySQL keeps what it committed.

MySQL is external. A staging table is a sequence of batch numbers, one row per batch; a target
table is the sequence of swap transactions committed on it, each with the staging rows it moved.
The count and the `INSERT ... SELECT` are separate steps and the second reads the rows as they are
by then. `AckLost` names the statements of MySQL (creating the staging table, a batch, the swap,
dropping the staging table) that may take effect and still be reported as an error.
`TrackAnswers` keeps an answer until it is delivered (`Reply`): the composition needs it, `SinkLive`
has it too, and `SinkSafety` does without it to reach further. `openLeg` is the source's side of the two-legged open: it has one leg of a run under way.
A request's rows, columns and types are abstracted to the outcomes they lead to (precheck issues,
range check wanted, write failed).

### Transfer

One process per run. `child[r].doing` is where `run_transfer` stands, `stage` the last
`stage_changed` line, `net` the requests under way, `heard` the answer a party has. `TransportError`
ends a call without an answer: its request is lost, remains as a stray that may be served later, or
is being served for nobody. `Killed` ends the child in a stage of `Mortal`. `history` is what the log
lines fold to (`diagnose_commit`, `finish_from_log`). Log lines written directly one after the other
are one step, except COMMITTING and the commit request, between which it matters whether the child
dies. Two strays that are equal are one element of `net`. An answer to open that the child cannot read, after which it
sends an abort (transfer.rs:323), is left out: the agent gives none.

### Supervisor

`watch[r]` is where `start_run` and `supervise_run` are, `stuck` the table `stuck_aborts`, `retrying`
the entries whose abort is being resent. The parent reads the child's log to its end before it
acts, so it sees the last stage the child wrote. The parent does not restart in this model and the
runs belong to different tasks; both are `RunControl`'s subject.

`TargetImport` is the same system seen by the person who starts a run: a run imports once and whole, a line
of its history says "untouched" or "imported" only when that is so, and its last line, of a success, says "imported".
A run called unknown may still import later, over or not: its commit may be on its way. `Promise` maps
`swaps` to the imports, and outcome and effect of the history to what is said; no agent, child, parent, call or
staging table is left.

### RunControl

`tasks` are the rows of the task store with their schedule, `entries` and `queue` what the scheduler
thread keeps (`ScheduleState`), `active` and `stuck` the maps of `RunState`, `row` the history row of a
run, `proc` the parent itself: down, up, stopping, or waiting for its runs.

- starting: `Register` makes the two checks of `register_active_run` and inserts, under one lock;
  `Launch` or `LaunchFails` is the rest of `start_run`. A manual start (`StartManual`), a dispatch
  (`StartScheduled`), a deletion in two steps (`AskDelete`, `DeleteTask`) and an edit meet here.
- supervising: `Hear` applies a log line and writes the row; `Reap` closes it, `AbortOnBehalf` and
  `Book` follow. `Release` and `SettleStuck` are the resending of a stuck abort.
- scheduling: `Evaluate` reads tasks and clock, moves the entries on, queues or skips what came due;
  a pass over the queue takes one occurrence at a time, whose quota check (`DrainMayStart`,
  `DrainWaits`) and registration (`StartScheduled`) are under different locks.
- the life of the process: `Crash`, `Stop`, `StopRuns`, `Shutdown`, and `Start`, which closes the rows
  left open and books the holds they may have left before the port opens (`reclaim_after_restart`).

The child is reduced to the stages it writes and the agent to the holds on its tables. Children end
with their parent, as the comment on `reclaim_after_restart` says they do: the packaged systemd unit ends
its whole control group. (Under the script for hosts without systemd a parent that is killed alone would
leave its child behind; that is not modelled.) PREPARING and STREAMING are one stage, since the parent
treats them alike. A cancel is one of the ways a child dies. An abort or
its answer may be lost; requests that arrive late are left to `Supervisor`. The tasks `evaluate`
collects are collected in one step: `Enqueue` appends what came due in the order of the tasks and `Dequeue`
leaves the rest of the queue in its order (`InOrder` is the one order-keeping numbering of a set of
places, in place of a recursive filter). The wall clock moves only forward between two passes, by any
amount, which is a stall when it passes over a minute that fires. `observe` then queues the one occurrence the
entry pointed at and reckons the next from now (the test `a_long_outage_yields_one_occurrence_not_a_burst`);
a task seen for the first time, or with a new expression, is owed nothing. `StartedOnce` says so of what joins the
queue. It rests on the forward clock: after an edit or a restart a clock that was set back would let a minute
come a second time. When the run ids of the instance are used up, a start fails.

### Registry

Each store has a lock of its own and a handler takes it once per statement, so a handler is a sequence
of steps between which others run: a save looks for the agent (`AskSave`), reads the stored row
(`ReadSource`) and writes (`CreateSource`, `WriteSource`); a deletion looks for references and deletes
afterwards; a probe reads the address, asks it, and records. `who` is what answers at an address, which
may change at any time (`Move`). `Migrate` and `Backfill` are the one-time migration of `sink_base_url`
before the port opens, a restart between them included. Ids of data sources and of tasks are disjoint, as `sound` is one set for both. `sound`, `lastSet`, `mixed` and `cut` are
history variables: what was saved with what it refers to, the password last saved, and which saves
overlapped.

### RunLog

A run has one pen (`RunLogWriter`), which counts before it stores and swallows a failure to store;
storing and clearing out are one transaction. A crash loses the pen; `Resume` takes it up again with
the last stored number, or with 0 if that cannot be read. `Poll` is a page of the screen that follows a run.

### Cron

Expressions are parsed into sets of values, with the wrap of `value += step` at the width of `u32`
(`StepWidth`); `NextAfter` goes day by day. `Fires` is the reference: what an expression means, field
by field. The calendar is a parameter, given by the days its months begin on, so that ends of months, leap
days, Sundays written either way and the end of the look-ahead all occur within a few days.
`CalendarAssumption` says what a calendar is, `LookaheadAssumption` that within the look-ahead every date of a year
comes again and every weekday in every month. The Gregorian calendar is 4800 such months; its longest wait
is the eight years from one 29th of February to the next around a year like 1900, less than
`MAX_LOOKAHEAD_DAYS` (366 * 9).

### ColumnRules

An Oracle type is described, given a shape (`Classify`), and judged twice: by the source, when it
suggests a table (`DdlTable`), and by the agent, as the set of rules the table breaks (`Issues`). A
value is the digits before and after its point. A column whose declaration bounds nothing makes the
first `Open` ask for a range check; `RangeCheck` answers from a connection of its own; the second
opening reads the table anew and judges (`OpenWithResults`). `Edit` and `Alter` are the rows and the
table changing in between. `RuleAssumption` gives the columns the types that Oracle and MySQL give
them (no precision or length below zero; a scale may be) and a selection at least one column.

### RitualPool

A thread's place in `with_conn` and `acquire`. The mutex is the grain: ping, connect and use are
outside it, and so is `notify_one`, which comes after the unlock. Wakeups may be spurious.

### AlertOutbox

Five parties share one SQLite file, each of whose transactions is a step: supervising threads
(`Accept`, `Save`, `Finish`), the scheduler (`RecordSkipped`), the parent's shutdown and next start
(`Stop`, `Seal`, `Sealed`, `Exit`, `Crash`), the administrator (`SaveSettings`, and a manual retry in
two steps, since `manual_retry` reads the settings before its transaction: `AskRetry`, `Retry`) and
the worker thread. A pass of the worker is `BeginPass` (`expire_overdue`, with the instant of the
whole pass), `ListDue`, and for each delivery `TakeNext` (settings read again), `Transport` and
`RecordAttempt`; an error while recording ends the pass (`RecordRefused`, `RecordUnwritten`).

`Finalize` is the transaction that closes a row: nothing if it is closed, else the row, the alert and
its deliveries (`WithDeliveries`, the two `INSERT OR IGNORE`), then retention (`CommitHistory`).
`Save` writes the outcome it knows without looking at the stored one, as the code does. A delivery is
an alert and a place in the recipient list, like `delivery_id`. Time is counted in units; a
transaction takes its instant as it commits. SMTP is external: a message may have been accepted
although an error is reported. A settings row that is enabled is complete, which `update` checks.

## Runs

| Run | Instance | Properties |
|---|---|---|
| `SinkSafety` | two runs of one table, two workers, two batches, one restart | `TypeOK`, `TargetExclusion`, `TombstonesTrue`, `RememberedSwap`, `SwapsUnderHold`, `HoldsImplemented` |
| `SinkLive` | two runs of different tables, quota one, one tombstone | `QuotaRespected`, `SealedRunEnds`, `SeatReturned` |
| `SinkAckLost` | one run, every acknowledgement may be lost | `TombstonesTrue` is **violated** |
| `SuperLive` | one run, up to three batches, lossy network, kills at any stage, restart, lost acknowledgements but the swap's | `SuperTypeOK`, `EffectTrue`, `WholeImport`, `StreamingHoldReported`, `NoHopelessRelease`, `PromiseKept`, `RunSettles` |
| `SuperHold` | one run, kills at any stage | `HoldReported` is **violated** |
| `SuperCommitting` | one run, kills at any stage | `CommitUnderway` is **violated** |
| `Pool` | four threads, cap two, two turns each | `LiveTrue`, `OneEach`, `NoLostWakeup`, `Served` |
| `Outbox` | one run, two recipients, an hour's window, retention, one restart or refused write | `OutboxTypeOK`, `FailureAlerted`, `SummaryTrue`, `MailsAccounted`, `FinalStays` |
| `OutboxSkips` | two runs of one task, one recipient | `SpacedSkips`, `DueServed` |
| `OutboxRetry` | one run, a retry window of 0 hours | `RetryIsTried` is **violated** |
| `Control` | two tasks on one table and one agent with a quota of one, two runs, two minutes, one edit, deletion, crash or stop | `ControlTypeOK`, `OneChildPerTask`, `HoldsBooked`, `StartedOnce`, `ScheduledWithinQuota` |
| `Records` | `Registry`: two agents, two addresses, one data source, one task, two callers, six calls. `RunLog`: two runs of one task, three lines each, two days, two faults. `Cron`: a day of four minutes, a week of three days, a year of two months. `ColumnRules`: a date and a column of any type with up to three digits | `PinTrue`, `RefersWell`, `SecretKept`; `LinesKept`, `NothingBehind`; `UpcomingTrue`; `OpenedSound`, `DdlPasses` |

**Bounds.** Two runs of one table are enough for every conflict on it: a third can only be refused
the same way; the theorems drop the bound. Two workers make two requests overlap at every step, and
three let a stray push or abort overlap a commit that overlaps a get. Two batches give a sequence
number that is handed back while its successor is out; three give a middle one. One restart makes
"before" and "after"; a second one starts from a state the first one already produces. A tombstone
limit of one or two makes eviction happen. A row per batch keeps the counts of the verdict apart
(received batches, staged rows) because a batch may land without being counted or be counted without
having landed. The pool's cap of two with four threads gives a waiter, a thief and a failing connect
at once. In the outbox one run shows every order of closing, sending, switching off and retrying of
its rows, two are needed only where alerts meet (`OutboxSkips`); an hour of two units and a first
delay of one give a retry inside the window, one at its edge and one past it; `MaxMishaps` is one for
the reason that restarts are. In `Control` two tasks that share a table and an agent meet in every
check a start makes; two minutes with an expression that fires in each give an occurrence that comes due while the
last one runs or waits, and a stall that misses both and starts one; one upset gives every life of the parent a next one. `Records` needs
two callers for two steps of handlers in any order and one data source and task for each reference; six
calls are enough to register, bind, read, replace, delete and restart around one another. A page of one
line, a retention of one run and one day make every clearing and every continuation happen; digits up
to three cover each side of a point and a scale beyond the precision or below zero. `CHECK_DEADLOCK FALSE` in each run: the bounds let every process come to its end.

**Fairness.** Worker threads keep running and MySQL calls return (`Fairness`), a running child runs,
a call ends in an answer or its timeout (all of `HttpSinkClient`'s calls have
one), the parent's supervising thread runs (`SuperFairness`), a thread in `with_conn` runs
(`PoolFairness`), the outbox worker loops every second and `send` has a timeout, and a parent that is
starting or stopping goes on (`OutboxFairness`). All of it is weak fairness. Nothing is assumed of kills, restarts, the range-check
answer, the person who presses the release button, new requests, settings, or spurious wakeups.

## What the violated runs show

- `SinkAckLost`: an error of the `COMMIT` of the swap transaction is handled as "not swapped". If
  MySQL had committed before the connection broke, the tombstone says `DISCARDED` and the answer
  says that the target was not touched. `EffectTrue` and `TombstonesTrue` are therefore checked
  with every other acknowledgement lost but not that one, and the theorems on them (`TombstonesTell`,
  `EffectsAreTrue`) have `"swap" \notin AckLost` as their one hypothesis. No other theorem needs it: the
  swap is exclusive, single, remembered and whole whichever acknowledgements are lost.
- `SuperHold`: a child killed in PREPARING while the agent is still opening its run. The parent's
  abort finds the run not active yet and is answered 200; the open completes; the table is held and
  nothing is booked. The same happens when the open times out at the child, which sends no abort.
- `SuperCommitting`: a child killed between its COMMITTING line and its commit request. The parent
  sends no abort because it takes the agent to be committing; the run stays at the agent.

- `OutboxRetry`: with `max_retry_hours = 0` a manual retry opens a window that ends at once. The next
  pass of the worker fails the delivery as overdue before it looks for due ones, so the retry that
  was acknowledged is never attempted. (A first attempt is safe: only rows with attempts expire.)

What the code does keep is stated next to them: `StreamingHoldReported` (a run that got as far as
streaming) and `NoHopelessRelease`.

## What the properties leave open

Some properties except cases in which the code does otherwise. The cases are in the models.

- *Outbox.* A supervising thread that persists progress while shutdown seals its row opens the row
  again, until the next start seals it; `FailureAlerted` therefore asks for an alert of each closed
  failure and not for a closed row of each alert. A manual retry that read the settings before mail was
  switched off leaves a pending delivery, which nothing sends while mail is off.
- *Holds* (`HoldsBooked`). A booked hold keeps every task off its table; a run in flight keeps off only those of
  its own task, and another task's run on the table is refused by the agent (`register_active_run`, http.rs:2539). A parent that restarts reclaims the rows that are open in its history. The
  hold of a run whose row was closed in an earlier life is forgotten (http.rs:2259), as it is when the
  parent dies before it read the first line of a run, or while a run is past its sealing point.
- *Quota* (`ScheduledWithinQuota`). Manual starts are not held back by the quota of an agent; the agent
  refuses the run one too many (`QuotaRespected`).
- *Schedules.* A stall is made up for by one occurrence, the first it missed, started late (scheduler.rs:125).
  Rule 3 of that file speaks of downtime only; a switch turned off and on, or an expression changed and changed
  back, between two looks is not noticed. The queue is not looked through when a task is switched off: an occurrence that waits is
  still dispatched (scheduler.rs:284), although rule 1 of that file speaks of a task that is on. A task
  deleted between the start's look at it and the registration has a run (http.rs:2741). The schedule of
  a deleted task leaves no row.
- *Cancels.* Two cancels of one run overlap: the one that fails takes back the mark of the other
  (http.rs:1388), and the end is told as a process that disappeared. The mark is about wording and not modelled.
- *Catalogue.* An update of a row that was deleted meanwhile is answered as done. Two saves of one data
  source that overlap may bring an earlier password back (`mixed`). A parent that dies between migration
  and backfill leaves data sources without an agent for good (`cut`), since it migrates only an empty
  table. A save and a deletion that overlap may leave a reference to nothing (`sound`), and a task may name
  a data source that never was.
- *Run log.* A pen taken up again without the last number starts at 1 and writes over lines (`blind`).
- *Cron.* A field that repeats an item is not modelled: `*,*` counts as restricted in the code (cron.rs:167),
  `*` does not. A step near 2^32 wraps: `1-5/4294967295` marks values outside its range (`Wraps`).
- *Columns.* Rows or a table that change while the range check is on its way are not seen
  (`altered`, `present`): the results carry no shape and come from another connection. A table whose name is too
  long is suggested by the source and refused by the agent. A unique key beside the task's lets an
  upsert merge rows by it, which the precheck does not look for.

`MAX_POOL_CONNECTIONS` is not an invariant of `RitualPool`: a thread that replaces a dead connection
takes its place back without looking at the cap, so a thread that reserved in between makes one more.
What holds is `OneEach`: never more connections than threads that use the pool.

## Proofs

All proofs are checked by TLAPS for every value of the constants: any number of runs, tables, tasks,
agents, workers, batches, recipients, callers and restarts, with and without lost acknowledgements. They
start from the named assumptions of the modules and nothing else:

- `RunAssumption`, `BoundAssumption` (`SinkService`): finitely many runs, each with a table; positive limits;
- `NetworkAssumption` (`Transfer`): answers are kept until delivered, so that a child can hear them;
- `ControlAssumption` (`RunControl`): the tasks have an order, a quota is positive, an expression fires in
  minutes after the start of the clock, "none" is no expression;
- `RegistryAssumption`, `RunLogAssumption`: "none" is no agent, source, instance or password; ids of data
  sources and tasks are disjoint; a page and a retention hold at least one;
- `PoolAssumption`, `OutboxAssumption`: finitely many users, runs and recipients, positive limits, and
  enabled mail settings name a recipient;
- `RuleAssumption` (`ColumnRules`): the types of Oracle's and MySQL's columns, and a selection that is not empty;
- `CalendarAssumption`, `LookaheadAssumption`, `ExpressionAssumption` (`Cron`): months of one day to `LongestMonth`,
  dates and weekdays that come again within the look-ahead, numbers written without a sign.

Three theorems have the further hypothesis that the acknowledgement of a swap is not lost
(`TombstonesTell`, `EffectsAreTrue`, `PromiseIsKept`); without it they are false, as `SinkAckLost` shows.

| Theorem | Module | States |
|---|---|---|
| `TypeCorrect` | `SinkServiceProofs` | `TypeOK` |
| `OneHolderPerTable` | `SinkServiceProofs` | `TargetExclusion` |
| `QuotaHolds` | `SinkServiceProofs` | `QuotaRespected` |
| `SwapsHeld` | `SinkCommitProofs` | `SwapsUnderHold` |
| `SwappedOnce` | `SinkCommitProofs` | `OneSwap` |
| `TombstonesTell` | `SinkCommitProofs` | `TombstonesTrue` |
| `SwapRemembered` | `SinkCommitProofs` | `RememberedSwap` |
| `AgentImplementsHold` | `SinkCommitProofs` | `HoldsImplemented` |
| `SuperTypes` | `SupervisorProofs` | `SuperTypeOK` |
| `AgentInContext` | `SupervisorProofs` | `SuperSpec => Spec` |
| `AgentKeepsItsWord` | `SupervisorProofs` | `HoldsImplemented`, `SwapsUnderHold`, `TargetExclusion`, `QuotaRespected`, `OneSwap`, `RememberedSwap` of the composition |
| `ReleasesAreHopeful` | `SupervisorProofs` | `NoHopelessRelease` |
| `StreamingHoldsReported` | `SupervisorProofs` | `StreamingHoldReported` |
| `EffectsAreTrue` | `SupervisorProofs` | `EffectTrue` |
| `ImportsAreWhole` | `SupervisorProofs` | `WholeImport` |
| `PromiseIsKept` | `SupervisorProofs` | `PromiseKept` |
| `ControlTypes` | `RunControlProofs` | `ControlTypeOK` |
| `OneChild` | `RunControlProofs` | `OneChildPerTask` |
| `HoldsAreBooked` | `RunControlProofs` | `HoldsBooked` |
| `OccurrencesStartOnce` | `RunControlProofs` | `StartedOnce` |
| `QuotaKeptByClock` | `RunControlProofs` | `ScheduledWithinQuota` |
| `IdentitiesTrue` | `RecordsProofs` | `PinTrue` |
| `ReferencesHold` | `RecordsProofs` | `RefersWell` |
| `PasswordsKept` | `RecordsProofs` | `SecretKept` |
| `ScreenMissesNothing` | `RecordsProofs` | `NothingBehind` |
| `LinesNotOverwritten` | `RecordsProofs` | `LinesKept` |
| `LiveIsTrue` | `RitualPoolProofs` | `LiveTrue` |
| `OneConnectionEach` | `RitualPoolProofs` | `OneEach` |
| `NoWakeupIsLost` | `RitualPoolProofs` | `NoLostWakeup` |
| `OutboxTyped` | `AlertOutboxProofs` | `OutboxTypeOK` |
| `NoSilentFailure` | `AlertOutboxProofs` | `FailureAlerted` |
| `EndedStays` | `AlertOutboxProofs` | `FinalStays` |
| `EveryMailAccounted` | `AlertOutboxProofs` | `MailsAccounted` |
| `SummaryHonest` | `AlertOutboxProofs` | `SummaryTrue` |
| `SkipsSpaced` | `AlertOutboxProofs` | `SpacedSkips` |
| `OpenedLosesNothing` | `RulesProofs` | `OpenedSound` |
| `SuggestedTablesPass` | `RulesProofs` | `DdlPasses` |
| `UpcomingMoments` | `RulesProofs` | `UpcomingTrue` |

### The agent

*Exclusion and quota.* `TargetExclusion` is not inductive: `InsertActive` adds a run to `active`
without looking at anybody else, and is safe only because the run is still seated. The invariant
`IInv` adds that every worker in an open past admission holds the seat of its run, and that the seat
has one owner; then the runs in flight only grow in `Admit`, which looks at both maps.

*Commit.* `CInv` adds three things: an active run can get no second entry (`OpenedInv`: no leg left,
no worker about to insert it); the commit of a run has one worker, and the run stays active and
sealed until that worker is done (`CommitInv`); and a run that was swapped has neither a leg, nor a
worker before its swap, nor an unsealed entry (`SwappedInv`). At `SwapCommits` the run is then
active, sealed and, by exclusion, alone on its table, and it has not been swapped before.

*Tombstones.* What a worker is about to write must be true already (`ToldInv`), and it must stay true:
a run with a tombstone cannot be opened, sealed or swapped again (`EndedInv`). `"discarded"` is reached
from `SwapFails`, where the lost acknowledgement would come in. `RememberedSwap` needs neither.

*Refinement.* `RInv` adds `SeatUsed`: a seat always has the worker that sits in it. Under it every
step of the agent maps to `Take` (`Admit`), `Import` (`SwapCommits`, or a `SwapFails` whose COMMIT
landed), `Leave` (when the last of seat and entry goes), `Forget` (`Restart`) or a stutter.

### Parent, child, network and agent together

`AgentInContext` comes first: each step of the composition is a step of the agent or leaves it alone,
so all that is proved of the agent holds here too (`AgentKeepsItsWord`). What is added, each part on top of the last:

- *types* need the phases of a run: which stages, exits and places of the supervising thread go together
  (`PhaseOf`), and that a party waits for an answer only where it asked for one (`WaitInv`);
- *seal against abort*: a commit is under way only for a run past its COMMITTING line (`SealInv`) and an
  abort only for one that will never get there (`AbortInv`), which is `NoHopelessRelease`. Calls that
  arrive after their caller has given up keep this, since the caller's phase does not go back;
- *one call per party in one place*: on its way, being served, answered or given up (`CallInv`), so an
  answer that is heard is the answer to the question asked;
- *release*: when a run has streamed, no open of it is left anywhere (`OpenInv`), so a run that is gone
  stays gone, and an answer that says "released" is true (`GoneInv`). `SettledInv` then gives
  `StreamingHoldReported`: a run is settled after such an answer, or it is booked. The open that is still
  on its way is what makes the stronger `HoldReported` false;
- *effect*: what an answer says of the swap is true when given and stays true until told (`SaysInv`,
  with `Doomed`: never swapped and never to be), so what the history folds from it is too (`ToldOf`);
- *wholeness*: outside a push the child waits for, none is left (`PushInv`), and the staging table holds
  the acknowledged batches in order, plus at most the one under way (`RowsInv`). The source is read to its end
  before the seal, so what is swapped under it is `First(size)`, every batch once;
- *the promise*: with effect and wholeness, all that the refinement of `TargetImport` still needs is the order of
  the lines (`LineInv`): a run is over only after its child, once, and before that only a diagnosis has spoken
  of the target. A swap is then `Import`: the agent has not swapped the run before, the rows are whole, and
  whatever had been said of the run would be false after it unless it was "unknown". `Diagnosed` is `Say`,
  `Finish` and `MarkUnknown` are `Close`, and every other step is a stutter.

### The parent over its lives

The invariant has one part for each structure, each needed by a neighbour: an entry in `active_runs` has a
task, a row and no rival of its task (`FlightInv`); where supervision is determines whether the child lives
(`ChildInv`), which gives `OneChildPerTask`; a held table was taken by a run that may still let it go, and
is in flight or booked (`HoldInv`, `BookedInv`); the scheduler's snapshot names a task once (`ViewInv`) and
nothing points ahead of the clock or behind its plan (`TimeInv`), so an occurrence in the queue has no row
but that of the run being started for it. `StartedOnce` is about steps: an entry points at the first minute after
the last look at which its expression fires (`EntryInv`), so what came due is the first of the missed minutes, and
what the scheduler looks at waits in the queue (`SeenInv`). For the quota, `QuotaInv` says that between the scheduler's look at
`active_runs` and its registration there is still room: others may register in between, but only by
hand, and those do not count against the clock's.

### Catalogue and run log

`PinTrue` needs the answer under way to have been given at the address it was asked at (`AnswersHeard`), and,
while a row is not pinned, that this is still the row's address (`FirstAnswer`). `RefersWell` needs
that nobody who is past the look for references is about to delete what a sound save refers to
(`SourcesRefer`, `TasksRefer`), and, over a migration cut short by a restart, that a parent that is up
has left no source unbound (`AllBound`). `SecretKept` needs the same of the password an update has read.

`LinesKept` needs the pen to be ahead of all lines of its run. `NothingBehind` is about what was cleared
out as well: the cursor of a screen stands at a line that is still there or whose whole run the clearing would take
(`Covered`), because the runs that make a run surplus are newer and survive longer than it does. That a
set of lines has a first one is proved from well-foundedness stated over sets, since the induction
theorems of the library cannot be used.

### Pool and outbox

*Pool.* The invariant counts the threads that account for a place; each action moves one thread
between the counted places and changes `live` by the same amount. For `NoLostWakeup`, as long as
anybody waits, the places open to take are at most as many as the threads that are about to look or to
notify (`Awaited`); threads replacing a dead connection count as taken.

*Outbox.* `FailureAlerted` speaks of closed rows only, and a row may be opened and closed again, so
`OInv` asks for the delivery of every alert that is meant for delivery, whatever its row's state
(`Delivered`). `WithDeliveriesKeeps` is the heart: the two `INSERT OR IGNORE` touch no existing row,
and with mail on, so with a recipient, leave the run at least one. `CommitKeeps` says that retention
takes row, alert and deliveries together. Each action then shows `Kept`, which holds the invariant of
the next state and what `EndedStays` asks of the step. The mails are counted against three things: recorded
attempts, the one attempt that is out and not recorded (`Unrecorded`), and the mishaps, one of which a
parent that is stopping has reserved (`Owed`); this gives `MailsAccounted`, and with what a row of each state
may have (`RunFacts`) the truth of the summary. `SpacedSkips` is inductive with `RunFacts`: the
suppression query sees every alert of a skip that is still stored, and none is dated ahead of the clock.

### Rules

*Columns.* `RuleInv` follows a run from the draft to the opening: what the first opening asked for is what it
would ask again as long as nobody alters the table (`AskedInv`), and the range check answers for the rows as they
are (`FitInv`). At the opening, each declared type whose column passed `Issues` holds every value the declaration
allows, digit for digit, and each undeclared one every value counted (`ArrivesWhole`). `DdlPasses` is shown shape by
shape: the column `DdlTable` makes of a type is one that `TypeHolds` accepts. Both rest on `Classify`
giving one shape to a type, on the source's side as on the agent's.

*Cron.* `ItemBitsAre` says where the loop of `parse_field` ends and what it has marked by then; from it a parsed
field holds what the expression says (`FieldBitsSay`), Sunday either way (`NormalWeekSays`), and a star everything
(`StarSays`), which is why `date_matches` may leave unrestricted fields out. `NextAfterIs` is the heart: the least day
and the least minute of it are the first moment (`MomentOrder`), and if no day of the look-ahead will do, none
ever will, since by the `LookaheadAssumption` the date of any later moment comes again among them
(`DateComesAgain`). The inductive invariant says more than `UpcomingTrue`, which TLC follows for one turn of
calendar and week: a list that ends early ends for ever (`EndInv`). The least elements come from
well-foundedness over sets, as in the run log.

### What stays with the model checker

- liveness (`SealedRunEnds`, `SeatReturned`, `RunSettles`, `Served`, `DueServed`): temporal reasoning under
  fairness and ENABLED are outside what the prover does;
- the four violated properties, which are false.

Every other property of the runs is stated by a theorem.

No module declares a recursive operator.

## Not modelled

- *Formats*: the preSQL grammar, SQL generation, wire encoding, the shortening of values in log lines,
  wording, the fields that only the console shows. Where a decision depends on one (a shape, a verdict, a
  page), the decision is modelled.
- *Drivers*: Oracle, SMTP and MySQL are behind one call each; how the source reads a value out of a row is left out.
- *Accounts and sessions* (`auth.rs`) decide who may call the API; no run, hold or record depends on them.
- *HTTP routing, static files, the web console* keep no state of that kind either.
- *Oracle data sources*, the migration of one from `source.toml`, connection tests and the encryption of
  stored passwords (`secret.rs`): a password in `Registry` is a value that is kept or replaced.
- *Liveness of the parent*: that every child ends and every run is settled is checked in `SuperLive`; the
  state space of `Control` is too large for liveness, so it checks safety alone.
- Of the outbox, the wording of mails, the e-mail log and the test mail.

## Limits

The plan of modules, runs and theorems is carried out. What is left is outside it:

- liveness has no proof, only runs, for the reason given above;
- `Supervisor` is not shown to refine `RunControl`. It does not, as the two stand: `RunControl` takes the abort of a
  hold as one step that succeeds or fails, while in `Supervisor` an abort may arrive after its caller has given up
  and booked the hold, which frees a table that the parent still believes held. `RunControl` would have to
  let held tables go by themselves; its properties do not depend on when they do.
