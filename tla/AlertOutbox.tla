----------------------------- MODULE AlertOutbox -----------------------------
(***************************************************************************)
(* The alert outbox of the source parent (crates/source/src/alert_outbox,  *)
(* run_history.rs, email_alert.rs): a run that ends badly leaves an alert  *)
(* and one e-mail delivery per recipient in the transaction that closes    *)
(* its history row; one worker thread sends what is due and retries; an    *)
(* administrator changes the settings and retries what failed.  Everything *)
(* but the worker's list and the requests under way is in SQLite, where a  *)
(* transaction is one step.                                                *)
(***************************************************************************)
EXTENDS Integers, FiniteSets, Sequences

CONSTANTS
    Runs,          \* run_record_ids
    Recipients,    \* mail addresses
    TaskOf,        \* TaskOf[r]: the task of run r
    Menu,          \* the settings an administrator saves
    RetryBase,     \* RETRY_BASE_SECONDS, in units of the clock
    Hour,          \* one hour: RETRY_CAP_SECONDS and the suppression window
    Retention,     \* history_retention_days
    MaxList,       \* bound: addresses in the recipient list
    MaxClock,      \* bound: the last instant
    MaxAttempts,   \* bound: a delivery with so many attempts is not retried by hand
    MaxMishaps     \* bound: restarts, and results that could not be written

Slots == 1..MaxList
Settings == [enabled : BOOLEAN, recipients : Seq(Recipients), hours : Nat]

ASSUME OutboxAssumption ==
    /\ IsFiniteSet(Runs) /\ IsFiniteSet(Recipients)
    /\ Menu \subseteq Settings
    /\ \A s \in Menu : /\ Len(s.recipients) <= MaxList
                       /\ s.enabled => s.recipients # <<>>
    /\ RetryBase \in Nat \ {0} /\ Hour \in Nat \ {0} /\ Retention \in Nat
    /\ MaxList \in Nat /\ MaxClock \in Nat /\ MaxAttempts \in Nat /\ MaxMishaps \in Nat

VARIABLES
    clock,         \* clock.now()
    settings,      \* the row of email_alert_settings
    history,       \* history[r]: the row of run_history
    alerts,        \* alerts[r]: delivery_state of the row of alerts, "none" without a row
    deliveries,    \* deliveries[d]: the row of email_deliveries
    supervised,    \* runs with a thread in supervise_run
    phase,         \* of the parent: "starting", "up" or "stopping"
    toSeal,        \* what seal_incomplete has listed and not yet sealed
    worker,        \* the outbox worker's pass
    clerk,         \* the manual retry under way
    mails,         \* mails[d]: messages the SMTP server has accepted for d
    mishaps        \* restarts and lost writes so far

stored == <<history, alerts, deliveries>>
outboxVars == <<clock, settings, stored, supervised, phase, toSeal, worker, clerk, mails, mishaps>>

Outcomes == {"SUCCEEDED", "FAILED", "STOPPED_BY_USER", "PREVIOUS_RUN_ACTIVE"}
Rows == Runs \X Slots    \* a delivery_id is the alert and a place in the recipient list
Times == 0..MaxClock
Null == 0

History == [state : {"absent", "open", "closed", "gone"}, outcome : Outcomes \cup {"none"},
            startedAt : Times, failedAt : Times]
AlertStates == {"none", "DELIVER", "NOT_SENT", "SUPPRESSED"}
Delivery == [state : {"none", "PENDING", "SENT", "FAILED", "NOT_SENT", "SUPPRESSED"},
             recipient : Recipients \cup {<<>>}, attempts : Nat, since : Times, until : Nat, nextAt : Nat, lastAt : Times]

NoHistory == [state |-> "absent", outcome |-> "none", startedAt |-> Null, failedAt |-> Null]
NoDelivery == [state |-> "none", recipient |-> <<>>, attempts |-> 0, since |-> Null, until |-> Null,
               nextAt |-> Null, lastAt |-> Null]
Resting == [at |-> "idle", passAt |-> Null, due |-> {}, row |-> <<>>, sentAt |-> Null, ok |-> FALSE]
NoClerk == [row |-> <<>>, since |-> Null, until |-> Null]

OutboxTypeOK ==
    /\ clock \in Times
    /\ settings \in Menu
    /\ history \in [Runs -> History]
    /\ alerts \in [Runs -> AlertStates]
    /\ deliveries \in [Rows -> Delivery]
    /\ supervised \subseteq Runs /\ toSeal \subseteq Runs
    /\ phase \in {"starting", "up", "stopping"}
    /\ worker \in [at : {"idle", "listing", "next", "sending", "recording"}, passAt : Times,
                   due : SUBSET Rows, row : Rows \cup {<<>>}, sentAt : Times, ok : BOOLEAN]
    /\ worker.at \in {"sending", "recording"} => worker.row \in worker.due
    /\ clerk \in [row : Rows \cup {<<>>}, since : Times, until : Nat]
    /\ mails \in [Rows -> Nat]
    /\ mishaps \in 0..MaxMishaps

-----------------------------------------------------------------------------
(* What the transactions compute. *)

Alertable(outcome) == outcome \in {"FAILED", "PREVIOUS_RUN_ACTIVE"}

\* The delay doubles six times at most and is capped at an hour.
RetryDelay(n) ==
    LET doublings == <<1, 2, 4, 8, 16, 32, 64>>
        delay == RetryBase * doublings[IF n < 7 THEN n ELSE 7]
    IN  IF delay < Hour THEN delay ELSE Hour

Deadline(start, hours) == start + hours * Hour

SlipHasBusySkipCandidate(r, now) ==
    \E q \in Runs :
        /\ alerts[q] = "DELIVER"
        /\ TaskOf[q] = TaskOf[r] /\ history[q].outcome = "PREVIOUS_RUN_ACTIVE"
        /\ history[q].failedAt = now

\* A skip of the same task was queued for delivery less than an hour ago.
HasBusySkipCandidate(r, now) ==
    \E q \in Runs :
        /\ alerts[q] = "DELIVER"
        /\ TaskOf[q] = TaskOf[r] /\ history[q].outcome = "PREVIOUS_RUN_ACTIVE"
        /\ history[q].failedAt > now - Hour /\ history[q].failedAt <= now

NewAlert(r, outcome) ==
    IF ~settings.enabled THEN "NOT_SENT"
    ELSE IF outcome = "PREVIOUS_RUN_ACTIVE" /\ HasBusySkipCandidate(r, clock) THEN "SUPPRESSED"
    ELSE "DELIVER"

SlipNewDelivery(alert, recipient) ==
    [NoDelivery EXCEPT !.state = alert, !.recipient = recipient, !.since = clock,
                       !.until = Deadline(clock, settings.hours)]

NewDelivery(alert, recipient) ==
    [NoDelivery EXCEPT !.state = IF alert = "DELIVER" THEN "PENDING" ELSE alert,
                       !.recipient = recipient,
                       !.since = clock,
                       !.until = Deadline(clock, settings.hours),
                       !.nextAt = IF alert = "DELIVER" THEN clock ELSE Null]

\* Commit of a history transaction, whose last statements remove what is past retention.
CommitHistory(h, a, d) ==
    LET old == {r \in Runs : h[r].state \in {"open", "closed"} /\ h[r].startedAt < clock - Retention}
    IN  /\ history' = [r \in Runs |-> IF r \in old THEN [h[r] EXCEPT !.state = "gone"] ELSE h[r]]
        /\ alerts' = [r \in Runs |-> IF r \in old THEN "none" ELSE a[r]]
        /\ deliveries' = [row \in Rows |-> IF row[1] \in old THEN NoDelivery ELSE d[row]]

\* The deliveries of r after INSERT OR IGNORE: neither its place in the list nor its recipient
\* may have a row already.
WithDeliveries(r, alert) ==
    LET taken == {i \in Slots : deliveries[<<r, i>>].state # "none"}
        known == {deliveries[<<r, i>>].recipient : i \in taken}
        list == settings.recipients
    IN  [row \in Rows |->
            IF /\ row[1] = r /\ row[2] <= Len(list)
               /\ deliveries[row].state = "none" /\ list[row[2]] \notin known
            THEN NewDelivery(alert, list[row[2]])
            ELSE deliveries[row]]

SlipFinalize(r, outcome) ==
    IF history[r].state = "closed" THEN UNCHANGED stored
    ELSE CommitHistory(
             [history EXCEPT ![r] = [state |-> "closed", outcome |-> outcome,
                                     startedAt |-> clock, failedAt |-> clock]],
             [alerts EXCEPT ![r] = IF r \in supervised /\ Alertable(outcome)
                                   THEN NewAlert(r, outcome) ELSE @],
             deliveries)

\* A row that is already closed is left as it is.
Finalize(r, outcome) ==
    IF history[r].state = "closed" THEN UNCHANGED stored
    ELSE LET start == IF history[r].state = "absent" THEN clock ELSE history[r].startedAt
             closed == [history EXCEPT ![r] = [state |-> "closed", outcome |-> outcome,
                                               startedAt |-> start, failedAt |-> clock]]
             alert == NewAlert(r, outcome)
         IN  IF Alertable(outcome)
             THEN CommitHistory(closed,
                                [alerts EXCEPT ![r] = IF @ = "none" THEN alert ELSE @],
                                WithDeliveries(r, alert))
             ELSE CommitHistory(closed, alerts, deliveries)

-----------------------------------------------------------------------------
(* Runs and the parent that supervises them. *)

OutboxInit ==
    /\ clock = 0
    /\ settings \in Menu
    /\ history = [r \in Runs |-> NoHistory]
    /\ alerts = [r \in Runs |-> "none"]
    /\ deliveries = [row \in Rows |-> NoDelivery]
    /\ supervised = {} /\ toSeal = {}
    /\ phase = "up"
    /\ worker = Resting
    /\ clerk = NoClerk
    /\ mails = [row \in Rows |-> 0]
    /\ mishaps = 0

Tick ==
    /\ clock < MaxClock
    /\ clock' = clock + 1
    /\ UNCHANGED <<settings, stored, supervised, phase, toSeal, worker, clerk, mails, mishaps>>

Accept(r) ==
    /\ phase = "up" /\ history[r].state = "absent"
    /\ CommitHistory([history EXCEPT ![r].state = "open", ![r].startedAt = clock],
                     alerts, deliveries)
    /\ supervised' = supervised \cup {r}
    /\ UNCHANGED <<clock, settings, phase, toSeal, worker, clerk, mails, mishaps>>

\* supervise_run writes a stage or the counts, and the outcome as it knows it, which is none yet.
Save(r) ==
    /\ r \in supervised
    /\ CommitHistory([history EXCEPT ![r].state = IF @ = "closed" THEN "open" ELSE @,
                                     ![r].outcome = "none", ![r].failedAt = Null],
                     alerts, deliveries)
    /\ UNCHANGED <<clock, settings, supervised, phase, toSeal, worker, clerk, mails, mishaps>>

\* The terminal line, or the end of a child that left none.
Finish(r) ==
    /\ r \in supervised
    /\ \E outcome \in Outcomes \ {"PREVIOUS_RUN_ACTIVE"} : Finalize(r, outcome)
    /\ supervised' = supervised \ {r}
    /\ UNCHANGED <<clock, settings, phase, toSeal, worker, clerk, mails, mishaps>>

\* SQLite refuses the transaction: supervise_run goes on without it.
FinishUnwritten(r) ==
    /\ r \in supervised
    /\ supervised' = supervised \ {r}
    /\ UNCHANGED <<clock, settings, stored, phase, toSeal, worker, clerk, mails, mishaps>>

\* The scheduler records an occurrence it does not start.
RecordSkipped(r) ==
    /\ phase = "up" /\ history[r].state = "absent"
    /\ Finalize(r, "PREVIOUS_RUN_ACTIVE")
    /\ UNCHANGED <<clock, settings, supervised, phase, toSeal, worker, clerk, mails, mishaps>>

Incomplete == {r \in Runs : history[r].state = "open"}

\* The end of serve: listener and scheduler have joined, the other threads still run.
Stop ==
    /\ phase = "up" /\ clerk = NoClerk /\ mishaps < MaxMishaps
    /\ phase' = "stopping"
    /\ toSeal' = Incomplete
    /\ mishaps' = mishaps + 1
    /\ UNCHANGED <<clock, settings, stored, supervised, worker, clerk, mails>>

\* One turn of seal_incomplete.
Seal(r) ==
    /\ r \in toSeal
    /\ Finalize(r, "FAILED")
    /\ toSeal' = toSeal \ {r}
    /\ UNCHANGED <<clock, settings, supervised, phase, worker, clerk, mails, mishaps>>

Sealed ==
    /\ phase = "starting" /\ toSeal = {}
    /\ phase' = "up"
    /\ UNCHANGED <<clock, settings, stored, supervised, toSeal, worker, clerk, mails, mishaps>>

\* The process is gone; the next one lists what it finds open before anything else runs.
Reborn ==
    /\ phase' = "starting"
    /\ toSeal' = Incomplete
    /\ supervised' = {} /\ worker' = Resting /\ clerk' = NoClerk
    /\ UNCHANGED <<clock, settings, stored, mails>>

Exit == phase = "stopping" /\ toSeal = {} /\ Reborn /\ UNCHANGED mishaps
Crash == mishaps < MaxMishaps /\ mishaps' = mishaps + 1 /\ Reborn

-----------------------------------------------------------------------------
(* The administrator. *)

SaveSettings ==
    /\ phase = "up"
    /\ \E s \in Menu \ {settings} :
        /\ settings' = s
        /\ deliveries' = [row \in Rows |->
               IF settings.enabled /\ ~s.enabled /\ deliveries[row].state = "PENDING"
               THEN [deliveries[row] EXCEPT !.state = "NOT_SENT", !.nextAt = Null]
               ELSE deliveries[row]]
    /\ UNCHANGED <<clock, history, alerts, supervised, phase, toSeal, worker, clerk, mails, mishaps>>

\* manual_retry up to its transaction: what it judges by is read here.
AskRetry(row) ==
    /\ phase = "up" /\ clerk = NoClerk
    /\ deliveries[row].state = "FAILED" /\ settings.enabled
    /\ deliveries[row].attempts < MaxAttempts
    /\ clerk' = [row |-> row, since |-> clock, until |-> Deadline(clock, settings.hours)]
    /\ UNCHANGED <<clock, settings, stored, supervised, phase, toSeal, worker, mails, mishaps>>

\* The UPDATE, which finds no row that is not FAILED any more.
Retry ==
    /\ clerk # NoClerk
    /\ clerk' = NoClerk
    /\ deliveries' = IF deliveries[clerk.row].state # "FAILED" THEN deliveries
                     ELSE [deliveries EXCEPT ![clerk.row].state = "PENDING",
                                             ![clerk.row].nextAt = clerk.since,
                                             ![clerk.row].since = clerk.since,
                                             ![clerk.row].until = clerk.until]
    /\ UNCHANGED <<clock, settings, history, alerts, supervised, phase, toSeal, worker, mails, mishaps>>

-----------------------------------------------------------------------------
(* The worker: run_due_attempts over and over. *)

\* expire_overdue.  The instant is that of the whole pass.
BeginPass ==
    /\ worker.at = "idle" /\ phase = "up"
    /\ deliveries' = [row \in Rows |->
           IF deliveries[row].state = "PENDING" /\ deliveries[row].attempts > 0
              /\ deliveries[row].until < clock
           THEN [deliveries[row] EXCEPT !.state = "FAILED", !.nextAt = Null]
           ELSE deliveries[row]]
    /\ worker' = [worker EXCEPT !.at = "listing", !.passAt = clock]
    /\ UNCHANGED <<clock, settings, history, alerts, supervised, phase, toSeal, clerk, mails, mishaps>>

DueDelivery(row, now) ==
    /\ deliveries[row].state = "PENDING"
    /\ \/ deliveries[row].attempts = 0
       \/ deliveries[row].nextAt <= now /\ deliveries[row].until >= now

ListDue ==
    /\ worker.at = "listing"
    /\ worker' = [Resting EXCEPT !.at = "next",
                                 !.due = {row \in Rows : DueDelivery(row, worker.passAt)}]
    /\ UNCHANGED <<clock, settings, stored, supervised, phase, toSeal, clerk, mails, mishaps>>

\* The settings are read again for every delivery.  Any order stands for that of delivery_id.
TakeNext(row) ==
    /\ worker.at = "next" /\ row \in worker.due /\ settings.enabled
    /\ worker' = [worker EXCEPT !.at = "sending", !.row = row, !.sentAt = clock]
    /\ UNCHANGED <<clock, settings, stored, supervised, phase, toSeal, clerk, mails, mishaps>>

EndPass ==
    /\ worker.at = "next"
    /\ worker.due = {} \/ ~settings.enabled
    /\ worker' = Resting
    /\ UNCHANGED <<clock, settings, stored, supervised, phase, toSeal, clerk, mails, mishaps>>

\* transport.send: a message may have been accepted although an error is reported.
Transport ==
    /\ worker.at = "sending"
    /\ \E accepted, ok \in BOOLEAN :
        /\ ok => accepted
        /\ mails' = [mails EXCEPT ![worker.row] = IF accepted THEN @ + 1 ELSE @]
        /\ worker' = [worker EXCEPT !.at = "recording", !.ok = ok]
    /\ UNCHANGED <<clock, settings, stored, supervised, phase, toSeal, clerk, mishaps>>

SlipAttempted(delivery, at, ok) ==
    [delivery EXCEPT !.attempts = IF ok THEN @ + 1 ELSE @, !.lastAt = at,
                     !.state = IF ok THEN "SENT" ELSE "PENDING",
                     !.nextAt = IF ok THEN Null ELSE at + RetryBase]

\* What record_attempt makes of a PENDING row.
Attempted(delivery, at, ok) ==
    LET next == at + RetryDelay(delivery.attempts + 1)
        again == ~ok /\ next <= delivery.until
    IN  [delivery EXCEPT !.attempts = @ + 1, !.lastAt = at,
                         !.state = IF ok THEN "SENT" ELSE IF again THEN "PENDING" ELSE "FAILED",
                         !.nextAt = IF again THEN next ELSE Null]

SlipRecordAttempt ==
    /\ worker.at = "recording"
    /\ deliveries[worker.row].state # "none"
    /\ deliveries' = [deliveries EXCEPT ![worker.row] = Attempted(@, worker.sentAt, worker.ok)]
    /\ worker' = [Resting EXCEPT !.at = "next", !.due = worker.due \ {worker.row}]
    /\ UNCHANGED <<clock, settings, history, alerts, supervised, phase, toSeal, clerk, mails, mishaps>>

\* record_attempt.  Its SELECT and its UPDATE are one step: the UPDATE repeats the guard, and
\* no other transaction moves the window of a PENDING row.
RecordAttempt ==
    /\ worker.at = "recording"
    /\ deliveries[worker.row].state = "PENDING"
    /\ deliveries' = [deliveries EXCEPT ![worker.row] = Attempted(@, worker.sentAt, worker.ok)]
    /\ worker' = [Resting EXCEPT !.at = "next", !.due = worker.due \ {worker.row}]
    /\ UNCHANGED <<clock, settings, history, alerts, supervised, phase, toSeal, clerk, mails, mishaps>>

SlipRecordRefused ==
    /\ worker.at = "recording"
    /\ deliveries[worker.row].state # "PENDING"
    /\ UNCHANGED outboxVars

\* The row was ended or removed meanwhile: the error ends the pass.
RecordRefused ==
    /\ worker.at = "recording"
    /\ deliveries[worker.row].state # "PENDING"
    /\ worker' = Resting
    /\ UNCHANGED <<clock, settings, stored, supervised, phase, toSeal, clerk, mails, mishaps>>

\* SQLite refuses the statement: the error ends the pass too.
RecordUnwritten ==
    /\ worker.at = "recording" /\ mishaps < MaxMishaps
    /\ worker' = Resting
    /\ mishaps' = mishaps + 1
    /\ UNCHANGED <<clock, settings, stored, supervised, phase, toSeal, clerk, mails>>

-----------------------------------------------------------------------------
Worker ==
    \/ BeginPass \/ ListDue \/ (\E row \in Rows : TakeNext(row)) \/ EndPass
    \/ Transport \/ RecordAttempt \/ RecordRefused
Sealing == (\E r \in Runs : Seal(r)) \/ Sealed \/ Exit

OutboxNext ==
    \/ Tick
    \/ \E r \in Runs : Accept(r) \/ Save(r) \/ Finish(r) \/ FinishUnwritten(r) \/ RecordSkipped(r)
    \/ Stop \/ Crash \/ Sealing
    \/ SaveSettings \/ (\E row \in Rows : AskRetry(row)) \/ Retry
    \/ Worker \/ RecordUnwritten

OutboxSpec == OutboxInit /\ [][OutboxNext]_outboxVars

\* The worker thread runs, the SMTP call returns (it has a timeout), and a process that is
\* starting or stopping gets on with it.
OutboxFairness == WF_outboxVars(Worker) /\ WF_outboxVars(Sealing)
FairOutbox == OutboxSpec /\ OutboxFairness

-----------------------------------------------------------------------------
(* Properties. *)

\* No failure is silent: a closed row of an alertable outcome has its alert, and an alert that is
\* meant for delivery has a delivery, whatever shutdowns, crashes and late supervisors do.
FailureAlerted ==
    \A r \in Runs :
        history[r].state = "closed" /\ Alertable(history[r].outcome) =>
            /\ alerts[r] # "none"
            /\ alerts[r] = "DELIVER" => \E i \in Slots : deliveries[<<r, i>>].state # "none"

SlipSummary(r) ==
    LET states == {deliveries[<<r, i>>].state : i \in Slots} \ {"none"}
    IN  IF alerts[r] # "DELIVER" THEN alerts[r]
        ELSE IF "SENT" \in states THEN "SENT"
        ELSE IF "PENDING" \in states THEN "PENDING"
        ELSE IF "FAILED" \in states THEN "FAILED"
        ELSE "NOT_SENT"

\* aggregate_state, and the alert's own word before it.
Summary(r) ==
    LET states == {deliveries[<<r, i>>].state : i \in Slots} \ {"none"}
    IN  IF alerts[r] # "DELIVER" THEN alerts[r]
        ELSE IF states = {} THEN "NOT_SENT"
        ELSE IF "PENDING" \in states THEN "PENDING"
        ELSE IF states = {"SENT"} THEN "SENT"
        ELSE IF "SENT" \in states THEN "PARTIALLY_FAILED"
        ELSE IF "FAILED" \in states THEN "FAILED"
        ELSE IF "SUPPRESSED" \in states THEN "SUPPRESSED"
        ELSE "NOT_SENT"

\* What an operator sees of a run is so: SENT means that the mail of every recipient reached the
\* server, PARTIALLY_FAILED that one did and that another recipient was given up.
SummaryTrue ==
    \A r \in Runs :
        LET kept == {row \in Rows : row[1] = r /\ deliveries[row].state # "none"}
        IN  /\ Summary(r) = "SENT" => \A row \in kept : mails[row] > 0
            /\ Summary(r) = "PARTIALLY_FAILED" =>
                   /\ \E row \in kept : mails[row] > 0
                   /\ \E row \in kept : deliveries[row].state \in {"FAILED", "NOT_SENT"}

\* A delivery that is SENT was mailed at least once, and none is mailed more often than must
\* be: its messages are its recorded attempts, but for one that was under way when mail was
\* switched off or is not recorded yet, and one for each restart or failed write.
MailsAccounted ==
    \A row \in Rows :
        deliveries[row].state # "none" =>
            /\ deliveries[row].state = "SENT" => mails[row] > 0
            /\ mails[row] <= deliveries[row].attempts + mishaps
                + (IF \/ deliveries[row].state = "NOT_SENT"
                      \/ worker.at = "recording" /\ worker.row = row THEN 1 ELSE 0)

\* Of the skipped occurrences of a task, those that mail is sent for are an hour apart.
SpacedSkips ==
    \A q, r \in Runs :
        /\ q # r /\ TaskOf[q] = TaskOf[r]
        /\ alerts[q] = "DELIVER" /\ alerts[r] = "DELIVER"
        /\ history[q].outcome = "PREVIOUS_RUN_ACTIVE" /\ history[r].outcome = "PREVIOUS_RUN_ACTIVE"
        /\ history[q].failedAt <= history[r].failedAt
        => history[r].failedAt - history[q].failedAt >= Hour

\* SENT, NOT_SENT and SUPPRESSED are final until retention removes the row, also for a worker
\* or an administrator that saw the row before.
FinalStays ==
    [][\A row \in Rows :
          deliveries[row].state \in {"SENT", "NOT_SENT", "SUPPRESSED"} =>
              deliveries'[row].state \in {deliveries[row].state, "none"}]_outboxVars

\* A delivery whose time has come does not stay so: it is attempted or ended, or mail is off,
\* whatever happens to the deliveries before it in a pass.
DueServed ==
    \A row \in Rows :
        LET waiting == deliveries[row].state = "PENDING"
                       /\ (deliveries[row].attempts = 0 \/ deliveries[row].nextAt <= clock)
        IN  waiting ~> (~waiting \/ ~settings.enabled)

\* What the administrator is told of a manual retry (ADR 0002: a failed delivery is failed until
\* it is retried, and a window of 0 means the immediate attempt): it leads to an attempt before
\* the delivery is failed again.
RetryIsTried ==
    \A row \in Rows : deliveries[row].state = "FAILED" => deliveries[row].lastAt >= deliveries[row].since

=============================================================================
