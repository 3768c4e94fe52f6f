------------------------------ MODULE RunControl ------------------------------
(***************************************************************************)
(* The resident source parent over several lives: the scheduler thread      *)
(* (scheduler.rs), manual starts, releases and deletions of tasks (http.rs), *)
(* the supervising thread of each run, the shutdown on SIGTERM (server.rs)   *)
(* and what the next start reclaims.                                         *)
(*                                                                           *)
(* The child is reduced to the stage lines it writes, the agent to the holds *)
(* on its tables: Transfer and Supervisor model both in full.  Times are     *)
(* minutes, the resolution of cron.                                          *)
(***************************************************************************)
EXTENDS Naturals, Sequences, FiniteSets

CONSTANTS
    Tasks,          \* task ids
    TaskOrder,      \* the order TaskStore::list returns them in
    TableOf,        \* TableOf[t]: the TargetTable a task writes
    AgentOf,        \* AgentOf[t]: the agent its data source is bound to
    Quota,          \* Quota[a]: max_concurrent_runs the agent reported, or 1
    Runs,           \* run record ids
    Crons,          \* schedule expressions
    Fires,          \* Fires[e]: the minutes at which e fires
    MaxNow,         \* bound: the last minute
    MaxUpsets,      \* bound: edits, deletions, crashes and stops, together
    NoRun, NoTask

ASSUME ControlAssumption ==
    /\ NoRun \notin Runs /\ NoTask \notin Tasks /\ "none" \notin Crons
    /\ TaskOrder \in Seq(Tasks) /\ \A t \in Tasks : \E i \in DOMAIN TaskOrder : TaskOrder[i] = t
    /\ \A i, j \in DOMAIN TaskOrder : TaskOrder[i] = TaskOrder[j] => i = j
    /\ Fires \in [Crons -> SUBSET (1..MaxNow)]
    /\ DOMAIN TableOf = Tasks /\ DOMAIN AgentOf = Tasks
    /\ \A t \in Tasks : Quota[AgentOf[t]] \in Nat \ {0}
    /\ MaxNow \in Nat /\ MaxUpsets \in Nat

VARIABLES
    now,            \* the time when the parent last looked at its clock
    tasks,          \* TaskStore: rows with their schedule
    deleting,       \* the task a handler has found deletable and not deleted yet
    entries,        \* ScheduleState::entries
    queue,          \* ScheduleState::queue
    sched,          \* where the scheduler thread is, and its snapshots
    active,         \* RunState::active_runs
    stuck,          \* RunState::stuck_aborts
    row,            \* the history row of a run
    old,            \* runs whose rows were closed before this life began
    kid,            \* the child process of a run
    holds,          \* at the agent: the run that holds a table
    sealed,         \* at the agent: runs whose commit is under way
    proc,           \* the parent process
    upsets          \* edits, deletions, crashes and stops so far, bounded

taskVars == <<tasks, deleting>>
schedVars == <<entries, queue, sched>>
runVars == <<active, stuck, row, old>>
farVars == <<kid, holds, sealed>>
procVars == <<proc, upsets>>
vars == <<now, taskVars, schedVars, runVars, farVars, procVars>>

Never == MaxNow + 1
\* RUNNING stands for PREPARING and STREAMING, which the parent treats alike.
Stages == {"BORN", "RUNNING", "COMMITTING", "OVER"}
NoKid == [alive |-> FALSE, stage |-> "BORN", left |-> FALSE]
Occurrences == [task : Tasks, due : 1..MaxNow]
Free == [at |-> "free", task |-> NoTask]
NotDue == 0
Asleep == [at |-> "asleep", tasks |-> {}, view |-> <<>>, run |-> NoRun]
NoEntry == [cron |-> "none", next |-> Never]

Upset == upsets < MaxUpsets /\ upsets' = upsets + 1
Elements(s) == {s[i] : i \in DOMAIN s}

\* The places ps of a sequence in their order: the set of the one way to count them.
InOrder(ps) ==
    LET n == Cardinality(ps)
    IN  {f \in [1..n -> ps] : \A i, j \in 1..n : i < j => f[i] < f[j]}

-----------------------------------------------------------------------------
(* RunState and start_run *)

\* RunStage::abort_allowed; until its first line is read nothing is known of a run.
AbortAllowed(stage) == stage = "RUNNING"

HasActiveRun(t) == \E r \in Runs : active[r].at # "free" /\ active[r].task = t
StuckOn(table) == {r \in Runs : stuck[r] # "none" /\ TableOf[row[r].task] = table}
InFlight(agent) == {r \in Runs : active[r].at # "free" /\ AgentOf[active[r].task] = agent}

\* register_active_run: the two checks and the insertion are under one lock.
Refused(t) == HasActiveRun(t) \/ StuckOn(TableOf[t]) # {}

SlipRegister(r, t, due) ==
    /\ row[r].at = "none"
    /\ StuckOn(TableOf[t]) = {}
    /\ row' = [row EXCEPT ![r].at = "asked", ![r].task = t, ![r].due = due]
    /\ active' = [active EXCEPT ![r] = [at |-> "registered", task |-> t]]

Register(r, t, due) ==
    /\ row[r].at = "none" /\ ~Refused(t)
    /\ row' = [row EXCEPT ![r].at = "asked", ![r].task = t, ![r].due = due]
    /\ active' = [active EXCEPT ![r] = [at |-> "registered", task |-> t]]

\* Bound: when the run ids are used up a start can only fail.
Exhausted == \A r \in Runs : row[r].at # "none"

\* The row is inserted and the child spawned, ...
Launch(r) ==
    /\ proc # "down" /\ active[r].at = "registered"
    /\ row' = [row EXCEPT ![r].at = "open"]
    /\ active' = [active EXCEPT ![r].at = "running"]
    /\ kid' = [kid EXCEPT ![r].alive = TRUE]
    /\ UNCHANGED <<now, taskVars, schedVars, stuck, old, holds, sealed, procVars>>

\* ... or SQLite refuses the row, or the child cannot be spawned and the row is closed.
LaunchFails(r) ==
    /\ proc # "down" /\ active[r].at = "registered"
    /\ row' = [row EXCEPT ![r].at = "closed"]
    /\ active' = [active EXCEPT ![r] = Free]
    /\ UNCHANGED <<now, taskVars, schedVars, stuck, old, farVars, procVars>>

\* handle_start_run
StartManual(r, t) ==
    /\ proc = "up" /\ tasks[t].there
    /\ Register(r, t, NotDue)
    /\ UNCHANGED <<now, taskVars, schedVars, stuck, old, farVars, procVars>>

-----------------------------------------------------------------------------
(* The child and the agent, as far as the parent depends on them *)

Writes(r, from, to) ==
    /\ kid[r].alive /\ kid[r].stage = from
    /\ kid' = [kid EXCEPT ![r].stage = to, ![r].alive = to # "OVER"]
    /\ UNCHANGED <<now, taskVars, schedVars, runVars, procVars>>

Holding(r) == holds[TableOf[row[r].task]] = r
LetGo(r) == holds' = IF Holding(r) THEN [holds EXCEPT ![TableOf[row[r].task]] = NoRun] ELSE holds

\* run_started
Begin(r) == Writes(r, "BORN", "RUNNING") /\ UNCHANGED <<holds, sealed>>

Open(r) ==
    /\ kid[r].alive /\ kid[r].stage = "RUNNING" /\ holds[TableOf[row[r].task]] = NoRun
    /\ holds' = [holds EXCEPT ![TableOf[row[r].task]] = r]
    /\ UNCHANGED <<now, taskVars, schedVars, runVars, kid, sealed, procVars>>

\* Oracle, the identity of the agent or the open is refused: no hold, no abort.
OpenRefused(r) == Writes(r, "RUNNING", "OVER") /\ ~Holding(r) /\ UNCHANGED <<holds, sealed>>

\* fail_before_commit: the child aborts, and ends.
Fail(r) == Writes(r, "RUNNING", "OVER") /\ Holding(r) /\ LetGo(r) /\ UNCHANGED sealed

\* Its abort fails; the abort_failed line says so before the run is over.
FailHeld(r) ==
    /\ kid[r].alive /\ kid[r].stage = "RUNNING" /\ Holding(r)
    /\ kid' = [kid EXCEPT ![r] = [alive |-> FALSE, stage |-> "OVER", left |-> TRUE]]
    /\ UNCHANGED <<now, taskVars, schedVars, runVars, procVars, holds, sealed>>

Committing(r) ==
    Writes(r, "RUNNING", "COMMITTING") /\ Holding(r) /\ UNCHANGED <<holds, sealed>>

\* The commit request reaches the agent, which seals the run.
Seal(r) ==
    /\ kid[r].alive /\ kid[r].stage = "COMMITTING" /\ Holding(r) /\ r \notin sealed
    /\ sealed' = sealed \cup {r}
    /\ UNCHANGED <<now, taskVars, schedVars, runVars, kid, holds, procVars>>

\* finish_run: on every exit of the swap, whoever still waits for the answer.
FinishRun(r) ==
    /\ r \in sealed
    /\ sealed' = sealed \ {r}
    /\ LetGo(r)
    /\ UNCHANGED <<now, taskVars, schedVars, runVars, kid, procVars>>

\* The answer to the commit, or its loss, ends the child.
End(r) ==
    /\ Writes(r, "COMMITTING", "OVER")
    /\ ~Holding(r) \/ r \in sealed
    /\ UNCHANGED <<holds, sealed>>

\* A child dies by itself or of the SIGTERM of handle_cancel_run.
Die(r) ==
    /\ kid[r].alive
    /\ kid' = [kid EXCEPT ![r].alive = FALSE]
    /\ UNCHANGED <<now, taskVars, schedVars, runVars, holds, sealed, procVars>>

\* release_target_hold: a sealed run refuses the abort; the call or its answer may be lost.
AbortSucceeds(r) == r \notin sealed /\ LetGo(r)
AbortFails(r) == (r \notin sealed /\ LetGo(r)) \/ UNCHANGED holds

-----------------------------------------------------------------------------
(* supervise_run: one thread per run, which ends only with the process *)

Supervising(r, at) == proc # "down" /\ active[r].at = at

\* apply_log_line and the write that follows; run_finished closes the row.
Hear(r) ==
    /\ Supervising(r, "running") /\ row[r].stage # kid[r].stage
    /\ row' = [row EXCEPT ![r].stage = kid[r].stage,
                          ![r].at = IF kid[r].stage = "OVER" THEN "closed" ELSE @]
    /\ UNCHANGED <<now, taskVars, schedVars, active, stuck, old, farVars, procVars>>

\* After the end of the log and child.wait: the row is closed, and then there may
\* be an abort to send or one to book.
Reap(r) ==
    /\ Supervising(r, "running") /\ ~kid[r].alive /\ row[r].stage = kid[r].stage
    /\ row' = [row EXCEPT ![r].at = "closed"]
    /\ active' = CASE kid[r].left -> [active EXCEPT ![r].at = "booking"]
                   [] AbortAllowed(row[r].stage) -> [active EXCEPT ![r].at = "aborting"]
                   [] OTHER -> [active EXCEPT ![r] = Free]
    /\ kid' = [kid EXCEPT ![r] = NoKid]
    /\ UNCHANGED <<now, taskVars, schedVars, stuck, old, holds, sealed, procVars>>

\* abort_on_behalf_of_child
AbortOnBehalf(r) ==
    /\ Supervising(r, "aborting")
    /\ \/ AbortSucceeds(r) /\ active' = [active EXCEPT ![r] = Free]
       \/ AbortFails(r) /\ active' = [active EXCEPT ![r].at = "booking"]
    /\ UNCHANGED <<now, taskVars, schedVars, stuck, row, old, kid, sealed, procVars>>

\* record_stuck_abort, remove_active_run
Book(r) ==
    /\ Supervising(r, "booking")
    /\ stuck' = [stuck EXCEPT ![r] = "held"]
    /\ active' = [active EXCEPT ![r] = Free]
    /\ UNCHANGED <<now, taskVars, schedVars, row, old, farVars, procVars>>

\* handle_release_target: of the holds booked for a table it takes any one.
Release(r) ==
    /\ proc = "up" /\ stuck[r] = "held"
    /\ stuck' = [stuck EXCEPT ![r] = "retrying"]
    /\ UNCHANGED <<now, taskVars, schedVars, active, row, old, farVars, procVars>>

\* settle_stuck_abort, of a worker or of the thread that reclaims.
SettleStuck(r) ==
    /\ proc # "down" /\ stuck[r] = "retrying"
    /\ \/ AbortSucceeds(r) /\ stuck' = [stuck EXCEPT ![r] = "none"]
       \/ AbortFails(r) /\ stuck' = [stuck EXCEPT ![r] = "held"]
    /\ UNCHANGED <<now, taskVars, schedVars, active, row, old, kid, sealed, procVars>>

-----------------------------------------------------------------------------
(* Tasks *)

\* handle_delete_task: what it looks at, and later the DELETE.
AskDelete(t) ==
    /\ proc = "up" /\ deleting = NoTask /\ tasks[t].there
    /\ ~HasActiveRun(t) /\ \A r \in Runs : stuck[r] # "none" => row[r].task # t
    /\ deleting' = t /\ Upset
    /\ UNCHANGED <<now, tasks, schedVars, runVars, farVars, proc>>

DeleteTask ==
    /\ proc # "down" /\ deleting # NoTask
    /\ tasks' = [tasks EXCEPT ![deleting].there = FALSE]
    /\ deleting' = NoTask
    /\ UNCHANGED <<now, schedVars, runVars, farVars, procVars>>

\* PUT /api/tasks: the switch, or the expression.
Edit(t) ==
    /\ proc = "up" /\ tasks[t].there /\ Upset
    /\ \E on \in BOOLEAN, e \in Crons : tasks' = [tasks EXCEPT ![t].on = on, ![t].cron = e]
    /\ UNCHANGED <<now, deleting, schedVars, runVars, farVars, proc>>

-----------------------------------------------------------------------------
(* The scheduler thread *)

\* CronSchedule::next_after
NextAfter(e, m) ==
    LET later == {f \in Fires[e] : f > m}
    IN  IF later = {} THEN Never ELSE CHOOSE f \in later : \A g \in later : f <= g

Scheduled(t) == tasks[t].there /\ tasks[t].on
Known(t) == Scheduled(t) /\ entries[t].cron = tasks[t].cron

SlipEntryAfter(t, m) ==
    CASE ~Scheduled(t) -> NoEntry
      [] Known(t) /\ entries[t].next > m -> entries[t]
      [] Known(t) /\ entries[t].next <= m ->
            [entries[t] EXCEPT !.next = NextAfter(entries[t].cron, entries[t].next)]
      [] OTHER -> [cron |-> tasks[t].cron, next |-> NextAfter(tasks[t].cron, m)]

\* ScheduleState::observe for one task at minute m: whatever changed, the next
\* time is reckoned from m; an entry does not outlive its switch.
EntryAfter(t, m) ==
    CASE ~Scheduled(t) -> NoEntry
      [] Known(t) /\ entries[t].next > m -> entries[t]
      [] OTHER -> [cron |-> tasks[t].cron, next |-> NextAfter(tasks[t].cron, m)]

CameDue(t, m) == Known(t) /\ entries[t].next <= m
Queued(t) == \E o \in Elements(queue) : o.task = t

SlipMayQueue(t) == ~HasActiveRun(t)

\* Not while the last run goes on, nor while the last occurrence waits: a row in
\* the history says that this one is skipped.
MayQueue(t) == ~HasActiveRun(t) /\ ~Queued(t)

OccurrenceOf(t) == [task |-> t, due |-> entries[t].next]

\* What came due at minute m and may be queued joins the queue, in the tasks' order.
Enqueue(m) ==
    LET places == {i \in DOMAIN TaskOrder : CameDue(TaskOrder[i], m) /\ MayQueue(TaskOrder[i])}
    IN  \E f \in InOrder(places) :
            queue' = queue \o [i \in 1..Cardinality(places) |-> OccurrenceOf(TaskOrder[f[i]])]

\* evaluate at minute m: read the tasks, observe, queue or skip what came due,
\* look at the queue.  The clock is read here only, so it may leap in between.
Evaluate(m) ==
    /\ proc = "up" /\ sched.at = "asleep" /\ m >= now
    /\ now' = m
    /\ entries' = [t \in Tasks |-> EntryAfter(t, m)]
    /\ Enqueue(m)
    /\ sched' = IF queue' = <<>> THEN Asleep
                ELSE [Asleep EXCEPT !.at = "draining", !.view = queue',
                                    !.tasks = {t \in Tasks : tasks[t].there}]
    /\ UNCHANGED <<taskVars, runVars, farVars, procVars>>

Draining == proc = "up" /\ sched.at = "draining"
Current == Head(sched.view)
GoOn == sched' = IF Len(sched.view) = 1 THEN Asleep
                 ELSE [sched EXCEPT !.at = "draining", !.view = Tail(@), !.run = NoRun]
Dequeue ==
    LET places == {i \in DOMAIN queue : queue[i].task # Current.task}
    IN  \E f \in InOrder(places) : queue' = [i \in 1..Cardinality(places) |-> queue[f[i]]]

\* A row in the history, or a run, answers an occurrence, and it leaves the queue.
Answered ==
    /\ Dequeue /\ GoOn
    /\ UNCHANGED <<now, taskVars, entries, runVars, farVars, procVars>>

\* The task was not in the list any more: no history row, by design.
DrainGone == Draining /\ Current.task \notin sched.tasks /\ Answered

\* Still running, or a data source or the agent cannot be reached.
DrainRefused == Draining /\ Current.task \in sched.tasks /\ Answered

\* dispatch_scheduled_run counts the runs in flight under one lock ...
SlipQuotaFree(t) == Cardinality(InFlight(AgentOf[t])) <= Quota[AgentOf[t]]
QuotaFree(t) == Cardinality(InFlight(AgentOf[t])) < Quota[AgentOf[t]]

DrainWaits ==
    /\ Draining /\ Current.task \in sched.tasks
    /\ ~HasActiveRun(Current.task) /\ ~QuotaFree(Current.task)
    /\ GoOn
    /\ UNCHANGED <<now, taskVars, entries, queue, runVars, farVars, procVars>>

DrainMayStart ==
    /\ Draining /\ Current.task \in sched.tasks
    /\ ~HasActiveRun(Current.task) /\ QuotaFree(Current.task)
    /\ sched' = [sched EXCEPT !.at = "starting"]
    /\ UNCHANGED <<now, taskVars, entries, queue, runVars, farVars, procVars>>

\* ... and registers the run under another.
StartScheduled(r) ==
    /\ proc # "down" /\ sched.at = "starting" /\ sched.run = NoRun
    /\ Register(r, Current.task, Current.due)
    /\ sched' = [sched EXCEPT !.run = r]
    /\ UNCHANGED <<now, taskVars, entries, queue, stuck, old, farVars, procVars>>

\* Refused by start_run, started, or failed to start: either way a row says so.
Dispatched ==
    /\ proc # "down" /\ sched.at = "starting"
    /\ IF sched.run = NoRun THEN Refused(Current.task) \/ Exhausted
       ELSE active[sched.run].at # "registered"
    /\ Answered

\* The stop is looked at between two occurrences.
LeaveDrain ==
    /\ proc = "stopping" /\ sched.at = "draining" /\ sched' = Asleep
    /\ UNCHANGED <<now, taskVars, entries, queue, runVars, farVars, procVars>>

-----------------------------------------------------------------------------
(* The life of the process *)

\* What is in memory only is gone, and the children go with their parent: systemd
\* ends the control group of the unit.
Gone ==
    /\ active' = [r \in Runs |-> Free]
    /\ stuck' = [r \in Runs |-> "none"]
    /\ entries' = [t \in Tasks |-> NoEntry] /\ queue' = <<>> /\ sched' = Asleep
    /\ deleting' = NoTask
    /\ kid' = [r \in Runs |-> NoKid]
    /\ proc' = "down"
    /\ UNCHANGED <<now, tasks, old, holds, sealed>>

Crash == proc # "down" /\ Upset /\ Gone /\ UNCHANGED row

RowsClosed == [r \in Runs |-> IF row[r].at = "open" THEN [row[r] EXCEPT !.at = "closed"] ELSE row[r]]

\* reclaim_after_restart: the rows that were open are closed, and the holds they
\* may have left are booked before the port opens.
SlipReclaimed == {r \in Runs : row[r].at = "open" /\ row[r].stage = "BORN"}
Reclaimed == {r \in Runs : row[r].at = "open" /\ AbortAllowed(row[r].stage)}

Start ==
    /\ proc = "down" /\ proc' = "up"
    /\ old' = {r \in Runs : row[r].at = "closed"}
    /\ row' = RowsClosed
    /\ stuck' = [r \in Runs |-> IF r \in Reclaimed THEN "retrying" ELSE "none"]
    /\ UNCHANGED <<now, taskVars, schedVars, active, farVars, upsets>>

\* SIGTERM: workers and scheduler finish what they are at and are joined.
Stop ==
    /\ proc = "up" /\ proc' = "stopping" /\ Upset
    /\ UNCHANGED <<now, taskVars, schedVars, runVars, farVars>>

\* stop_runs_for_shutdown: all but the runs past the sealing point are signalled.
StopRuns ==
    /\ proc = "stopping" /\ sched.at = "asleep" /\ deleting = NoTask
    /\ \A r \in Runs : active[r].at # "registered"
    /\ proc' = "waiting"
    /\ kid' = [r \in Runs |-> [kid[r] EXCEPT !.alive = @ /\ row[r].stage \in {"COMMITTING", "OVER"}]]
    /\ UNCHANGED <<now, taskVars, schedVars, runVars, holds, sealed, upsets>>

\* It waits until no run is in flight or the grace period is over; then the rows
\* that are still open are closed.
Shutdown == proc = "waiting" /\ Gone /\ row' = RowsClosed /\ UNCHANGED upsets

-----------------------------------------------------------------------------
Init ==
    /\ now = 0 /\ deleting = NoTask
    /\ tasks \in [Tasks -> [there : {TRUE}, on : {TRUE}, cron : Crons]]
    /\ entries = [t \in Tasks |-> NoEntry] /\ queue = <<>> /\ sched = Asleep
    /\ active = [r \in Runs |-> Free]
    /\ stuck = [r \in Runs |-> "none"]
    /\ row = [r \in Runs |-> [at |-> "none", task |-> NoTask, due |-> NotDue, stage |-> "BORN"]]
    /\ old = {}
    /\ kid = [r \in Runs |-> NoKid]
    /\ holds = [k \in {TableOf[t] : t \in Tasks} |-> NoRun]
    /\ sealed = {}
    /\ proc = "down" /\ upsets = 0

Child(r) ==
    \/ Begin(r) \/ Open(r) \/ OpenRefused(r) \/ Fail(r) \/ FailHeld(r)
    \/ Committing(r) \/ Seal(r) \/ FinishRun(r) \/ End(r)

Supervise(r) ==
    \/ Launch(r) \/ LaunchFails(r)
    \/ Hear(r) \/ Reap(r) \/ AbortOnBehalf(r) \/ Book(r)

Scheduler ==
    \/ \E m \in 0..MaxNow : Evaluate(m)
    \/ DrainGone \/ DrainRefused \/ DrainWaits \/ DrainMayStart
    \/ (\E r \in Runs : StartScheduled(r))
    \/ Dispatched \/ LeaveDrain

Next ==
    \/ \E r \in Runs : \/ Child(r) \/ Die(r) \/ Supervise(r)
                       \/ Release(r) \/ SettleStuck(r)
                       \/ \E t \in Tasks : StartManual(r, t)
    \/ \E t \in Tasks : AskDelete(t) \/ Edit(t)
    \/ DeleteTask \/ Scheduler
    \/ Crash \/ Start \/ Stop \/ StopRuns \/ Shutdown

ControlSpec == Init /\ [][Next]_vars

-----------------------------------------------------------------------------
(* Properties *)

ControlTypeOK ==
    /\ now \in 0..MaxNow /\ upsets \in 0..MaxUpsets
    /\ tasks \in [Tasks -> [there : BOOLEAN, on : BOOLEAN, cron : Crons]]
    /\ deleting \in Tasks \cup {NoTask}
    /\ entries \in [Tasks -> [cron : Crons \cup {"none"}, next : 1..Never]]
    /\ Elements(queue) \subseteq Occurrences
    /\ \A i, j \in DOMAIN queue : queue[i].task = queue[j].task => i = j
    /\ \A r \in Runs :
         /\ active[r].at \in {"free", "registered", "running", "aborting", "booking"}
         /\ stuck[r] \in {"none", "held", "retrying"}
         /\ row[r].at \in {"none", "asked", "open", "closed"} /\ row[r].stage \in Stages
         /\ active[r].at \in {"aborting", "booking"} => row[r].at = "closed"
         /\ stuck[r] # "none" => row[r].at = "closed"
    /\ \A k \in DOMAIN holds : holds[k] \in Runs \cup {NoRun}
    /\ proc \in {"down", "up", "stopping", "waiting"}

\* At most one child of a task is alive, and while it lives its run can be found
\* in active_runs, so that it can be stopped: whatever starts it, and whatever
\* deletions and restarts come in between.
OneChildPerTask ==
    \A r \in Runs : kid[r].alive =>
        /\ active[r].at = "running"
        /\ \A q \in Runs : kid[q].alive /\ row[q].task = row[r].task => q = r

\* A table that a run still holds at the agent is never forgotten: its run is in flight,
\* or the hold is booked as stuck, which keeps every other run off the table until it is
\* released (a run in flight keeps off those of its own task; another task's is refused
\* by the agent).  Excepted are runs past the sealing point, runs of which no line was
\* read, and runs whose row had been closed when this life of the parent began.
HoldsBooked ==
    proc = "up" =>
        \A k \in DOMAIN holds : \A r \in Runs \ old : holds[k] = r =>
            \/ active[r].at # "free" \/ stuck[r] # "none"
            \/ r \in sealed \/ row[r].stage \in {"COMMITTING", "BORN"}

\* Of the minutes at which t fires and that have come since the scheduler last looked at
\* its clock, the first.
Missed(t) == {f \in Fires[tasks[t].cron] : now < f /\ f <= now'}
FirstMissed(t) == {f \in Missed(t) : \A g \in Missed(t) : f <= g}

\* Rule 3: however long the scheduler looked away, of the minutes that a task missed the
\* first joins the queue, late, and no other; and none joins for a task that this life of
\* the parent has not looked at under its expression, so downtime and an edit of the
\* expression are not made up for.  A run is started for what waits in the queue only,
\* and once, neither a second look in its minute nor a restart within it starting another.
StartedOnce ==
    [][/\ \A o \in Elements(queue') \ Elements(queue) :
            Known(o.task) /\ MayQueue(o.task) /\ o.due \in FirstMissed(o.task)
       /\ \A t \in Tasks : \A f \in FirstMissed(t) :
            Known(t) /\ MayQueue(t) => [task |-> t, due |-> f] \in Elements(queue')
       /\ \A r \in Runs : row'[r].due # row[r].due =>
            /\ [task |-> row'[r].task, due |-> row'[r].due] \in Elements(queue)
            /\ \A q \in Runs : row[q].task = row'[r].task => row[q].due # row'[r].due]_vars

\* Rule 4: the scheduler's own runs never exceed the quota an agent reported,
\* although it counts and registers under different locks; manual starts may.
ScheduledWithinQuota ==
    \A a \in {AgentOf[t] : t \in Tasks} :
        Cardinality({r \in InFlight(a) : row[r].due # NotDue}) <= Quota[a]

=============================================================================
