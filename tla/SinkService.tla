---------------------------- MODULE SinkService ----------------------------
(***************************************************************************)
(* The target agent of db-qbs (crates/sink/src/service.rs): HTTP worker    *)
(* threads that open a run, take its batches into a staging table, swap    *)
(* the staging table into the target table and drop it.                    *)
(*                                                                         *)
(* What matters here is which steps happen under which lock: everything    *)
(* between two MySQL round trips is one action, and every MySQL round trip *)
(* made outside a lock is an action of its own.  The MySQL server is       *)
(* external and modelled by what the code relies on: a staging table is a  *)
(* sequence of batch numbers (one row per batch), a target table is the    *)
(* sequence of swap transactions committed on it.                          *)
(***************************************************************************)
EXTENDS Integers, Sequences, FiniteSets

CONSTANTS
    Runs,               \* run ids; an id names one execution and is never reused
    Tables,             \* target tables: classes of (database, lower-cased table name)
    TableOf,            \* [Runs -> Tables]: the target table a run asks for
    Upserts,            \* runs whose target has a primary key (WriteStatement::Upsert)
    Clears,             \* runs in CLEAR_THEN_INSERT mode
    PreSql,             \* runs with a preSQL statement
    Workers,            \* HTTP worker threads
    MaxConcurrentRuns,  \* max_concurrent_runs of sink.toml
    TombstoneLimit,     \* TOMBSTONE_LIMIT
    MaxBatches,         \* bound: batches a run may send
    MaxRestarts,        \* bound: restarts of the agent process
    AckLost,            \* statements of MySQL that may take effect and be reported as an error
    TrackAnswers,       \* TRUE: an answer is kept until it is delivered, for a composition
    NoRun               \* the run of an idle worker

ASSUME RunAssumption ==
    /\ IsFiniteSet(Runs)
    /\ NoRun \notin Runs
    /\ TableOf \in [Runs -> Tables]
    /\ Upserts \subseteq Runs /\ Clears \subseteq Runs /\ PreSql \subseteq Runs

ASSUME BoundAssumption ==
    /\ MaxConcurrentRuns \in Nat \ {0}    \* with_max_concurrent_runs turns 0 into 1
    /\ TombstoneLimit \in Nat \ {0}
    /\ MaxBatches \in Nat \ {0}
    /\ MaxRestarts \in Nat
    /\ AckLost \subseteq {"create", "push", "swap", "drop"} /\ TrackAnswers \in BOOLEAN

VARIABLES
    active,      \* active_runs: the runs with an entry
    run,         \* run[r]: the entry's counters, meaningful while r is in active
    admitting,   \* admitting: runs seated while their open is still under way
    tombstones,  \* tombstones: terminal records, oldest first
    call,        \* call[w]: the request worker w is handling
    openLeg,     \* openLeg[r]: what the source of r may still ask POST /v1/runs
    staging,     \* MySQL: the runs whose staging table exists
    landed,      \* MySQL: landed[r], the rows of r's staging table
    swaps,       \* MySQL: swaps[t], the swap transactions committed on t
    restarts     \* how often the process was restarted

sinkMaps == <<active, run, admitting, tombstones>>
mysqlVars == <<staging, landed, swaps>>
vars == <<active, run, admitting, tombstones, call, openLeg,
          staging, landed, swaps, restarts>>

-----------------------------------------------------------------------------
(* Types *)

Terminals == {"SWAPPED", "CLEANED_AND_SWAPPED", "REPLACED", "DISCARDED"}

Seqs == 1..(MaxBatches + 1)

\* Where a worker stands between two of its steps.
OpenPoints   == {"admitted", "created", "inserted"}
CommitPoints == {"sealed", "verified", "swapped", "discarded"}
Points == {"idle", "claimed", "landed", "dropping", "lookup", "reply"}
            \cup OpenPoints \cup CommitPoints

Answers == {"none", "OPENED", "RANGE_CHECK", "SINK_ENVIRONMENT", "TARGET_TABLE_BUSY",
            "RUN_QUOTA_EXCEEDED", "PRECHECK_FAILED", "STAGING_CREATE_FAILED",
            "WRITTEN", "RUN_UNKNOWN", "RUN_SEALED", "SEQ_MISMATCH", "WRITE_FAILED",
            "COMMITTED", "VERIFY_FAILED", "SWAP_FAILED",
            "DROPPED", "NOT_ACTIVE", "DROP_FAILED", "LIVE"} \cup Terminals

Entry == [nextSeq : Seqs, rowsWritten : Nat, sealed : BOOLEAN]
SlipFreshEntry == [nextSeq |-> 0, rowsWritten |-> 0, sealed |-> FALSE]
FreshEntry == [nextSeq |-> 1, rowsWritten |-> 0, sealed |-> FALSE]

Tombstone == [run : Runs, terminal : Terminals, sealed : BOOLEAN]

\* arg is the leg of an open, the seq of a push or the total_batches of a
\* commit; received and staged are what a commit read from the entry and from
\* the staging table.
Call == [at : Points, run : Runs \cup {NoRun}, arg : 0..(MaxBatches + 1),
         received : Nat, staged : Nat, answer : Answers]
IdleCall == [at |-> "idle", run |-> NoRun, arg |-> 0,
             received |-> 0, staged |-> 0, answer |-> "none"]

\* One swap transaction: the run and the staging rows it moved.
Swap == [run : Runs, rows : Seq(Seqs)]

TypeOK ==
    /\ active \subseteq Runs
    /\ run \in [Runs -> Entry]
    /\ admitting \subseteq Runs
    /\ tombstones \in Seq(Tombstone)
    /\ call \in [Workers -> Call]
    /\ openLeg \in [Runs -> {0, 1, 2}]
    /\ staging \subseteq Runs
    /\ landed \in [Runs -> Seq(Seqs)]
    /\ swaps \in [Tables -> Seq(Swap)]
    /\ restarts \in 0..MaxRestarts

-----------------------------------------------------------------------------
(* Helpers *)

\* What a worker that holds w's place goes on to.
Goto(w, point) == call' = [call EXCEPT ![w].at = point]
Answer(w, r, code) ==
    call' = [call EXCEPT ![w] =
        IF TrackAnswers THEN [IdleCall EXCEPT !.at = "reply", !.run = r, !.answer = code]
                        ELSE IdleCall]
Begin(w, r, point, arg) ==
    call' = [call EXCEPT ![w] = [IdleCall EXCEPT !.at = point, !.run = r, !.arg = arg]]

Idle(w) == call[w].at = "idle"
At(w, r, point) == call[w].at = point /\ call[w].run = r

\* The slips below are not the code: each is a near miss of the definition that
\* follows it, kept to show which property would notice.
InFlight == active \cup admitting
SlipOthersInFlight(r) == active \ {r}
OthersInFlight(r) == InFlight \ {r}

\* Runs other than r that hold r's target table, admitted or active.
SlipHolders(r) == {q \in active \ {r} : TableOf[q] = TableOf[r]}
Holders(r) == {q \in InFlight \ {r} : TableOf[q] = TableOf[r]}

SlipPushTombstone(r, terminal) ==
    LET kept == IF Len(tombstones) = TombstoneLimit - 1 THEN Tail(tombstones) ELSE tombstones
    IN  tombstones' = Append(kept, [run |-> r, terminal |-> terminal, sealed |-> run[r].sealed])

\* push_tombstone: at the limit the oldest record goes first.
PushTombstone(r, terminal) ==
    LET kept == IF Len(tombstones) = TombstoneLimit THEN Tail(tombstones) ELSE tombstones
    IN  tombstones' = Append(kept, [run |-> r, terminal |-> terminal, sealed |-> run[r].sealed])

TombstonesOf(r) == {i \in DOMAIN tombstones : tombstones[i].run = r}

\* inactive_run_error: only a sealed tombstone makes it RUN_SEALED.
InactiveRunError(r) ==
    IF \E i \in TombstonesOf(r) : tombstones[i].sealed THEN "RUN_SEALED" ELSE "RUN_UNKNOWN"

\* RowCounts::verdict().passed(); every batch carries one row.
VerdictPassed(total, received, staged) == received = total /\ staged = total

\* affected_rows of INSERT ... SELECT over n staged rows: 1 per inserted row,
\* 2 per updated one.
Affected(r, n) == IF r \in Upserts THEN n..(2 * n) ELSE {n}

SwapRowsConsistent(r, staged, affected) ==
    IF r \in Upserts THEN staged <= affected /\ affected <= 2 * staged
                     ELSE affected = staged

SwappedTerminal(r) ==
    IF r \in Clears THEN "REPLACED"
    ELSE IF r \in PreSql THEN "CLEANED_AND_SWAPPED" ELSE "SWAPPED"

HasSwapped(r) == \E i \in DOMAIN swaps[TableOf[r]] : swaps[TableOf[r]][i].run = r

-----------------------------------------------------------------------------
Init ==
    /\ active = {}
    /\ run = [r \in Runs |-> FreshEntry]
    /\ admitting = {}
    /\ tombstones = <<>>
    /\ call = [w \in Workers |-> IdleCall]
    /\ openLeg = [r \in Runs |-> 1]
    /\ staging = {}
    /\ landed = [r \in Runs |-> <<>>]
    /\ swaps = [t \in Tables |-> <<>>]
    /\ restarts = 0

-----------------------------------------------------------------------------
(* POST /v1/runs: SinkService::open.  The source of a run sends a first leg *)
(* and, when the agent asks for a range check, a second one; it never has   *)
(* two legs of one run under way.                                           *)

\* A leg reaches a worker; the leg is spent until the answer renews it.
TakeLeg(w, r) ==
    /\ Idle(w)
    /\ openLeg[r] > 0
    /\ openLeg' = [openLeg EXCEPT ![r] = 0]

\* The request is malformed or its MySQL server cannot be reached.
OpenUnreachable(w, r) ==
    /\ TakeLeg(w, r)
    /\ Answer(w, r, "SINK_ENVIRONMENT")
    /\ UNCHANGED <<sinkMaps, mysqlVars, restarts>>

\* admit: both maps are locked while the table and the quota are judged.
Admit(w, r) ==
    /\ TakeLeg(w, r)
    /\ Holders(r) = {}
    /\ Cardinality(OthersInFlight(r)) < MaxConcurrentRuns
    /\ admitting' = admitting \cup {r}
    /\ Begin(w, r, "admitted", openLeg[r])
    /\ UNCHANGED <<active, run, tombstones, mysqlVars, restarts>>

RefuseBusyTable(w, r) ==
    /\ TakeLeg(w, r)
    /\ Holders(r) # {}
    /\ Answer(w, r, "TARGET_TABLE_BUSY")
    /\ UNCHANGED <<sinkMaps, mysqlVars, restarts>>

RefuseOverQuota(w, r) ==
    /\ TakeLeg(w, r)
    /\ Holders(r) = {}
    /\ Cardinality(OthersInFlight(r)) >= MaxConcurrentRuns
    /\ Answer(w, r, "RUN_QUOTA_EXCEEDED")
    /\ UNCHANGED <<sinkMaps, mysqlVars, restarts>>

SlipLeaveSeat(w, r, code) ==
    /\ UNCHANGED admitting
    /\ Answer(w, r, code)

\* Every return of open past admit drops the AdmissionGuard.
LeaveSeat(w, r, code) ==
    /\ admitting' = admitting \ {r}
    /\ Answer(w, r, code)

\* The precheck needs value ranges only the source can count: nothing is kept.
AskRangeCheck(w, r) ==
    /\ At(w, r, "admitted")
    /\ call[w].arg = 1
    /\ LeaveSeat(w, r, "RANGE_CHECK")
    /\ openLeg' = [openLeg EXCEPT ![r] = 2]
    /\ UNCHANGED <<active, run, tombstones, mysqlVars, restarts>>

\* Metadata unreadable, precheck issues, or CREATE TABLE failed; with a lost
\* acknowledgement the table may have been created all the same.
OpenFails(w, r) ==
    /\ At(w, r, "admitted")
    /\ \/ LeaveSeat(w, r, "PRECHECK_FAILED") /\ UNCHANGED mysqlVars
       \/ LeaveSeat(w, r, "STAGING_CREATE_FAILED") /\ UNCHANGED mysqlVars
       \/ /\ "create" \in AckLost /\ r \notin staging
          /\ LeaveSeat(w, r, "STAGING_CREATE_FAILED")
          /\ staging' = staging \cup {r}
          /\ UNCHANGED <<landed, swaps>>
    /\ UNCHANGED <<active, run, tombstones, openLeg, restarts>>

SlipCreateStaging(w, r) ==
    /\ At(w, r, "admitted")
    /\ r \notin staging
    /\ staging' = staging \cup {r}
    /\ admitting' = admitting \ {r}
    /\ Goto(w, "created")
    /\ UNCHANGED <<active, run, tombstones, openLeg, landed, swaps, restarts>>

\* CREATE TABLE, never preceded by a DROP: an existing table is an error.
CreateStaging(w, r) ==
    /\ At(w, r, "admitted")
    /\ r \notin staging
    /\ staging' = staging \cup {r}
    /\ Goto(w, "created")
    /\ UNCHANGED <<sinkMaps, openLeg, landed, swaps, restarts>>

InsertActive(w, r) ==
    /\ At(w, r, "created")
    /\ active' = active \cup {r}
    /\ run' = [run EXCEPT ![r] = FreshEntry]
    /\ Goto(w, "inserted")
    /\ UNCHANGED <<admitting, tombstones, openLeg, mysqlVars, restarts>>

ReturnSeat(w, r) ==
    /\ At(w, r, "inserted")
    /\ LeaveSeat(w, r, "OPENED")
    /\ UNCHANGED <<active, run, tombstones, openLeg, mysqlVars, restarts>>

-----------------------------------------------------------------------------
(* POST /v1/runs/{}/batches: SinkService::write_batch.  The lock covers only *)
(* the claim of the sequence number and, after MySQL, the accounting.        *)

PushError(r, seq) ==
    IF r \notin active THEN InactiveRunError(r)
    ELSE IF run[r].sealed THEN "RUN_SEALED"
    ELSE IF seq # run[r].nextSeq THEN "SEQ_MISMATCH" ELSE "none"

RefuseBatch(w, r, seq) ==
    /\ Idle(w)
    /\ PushError(r, seq) # "none"
    /\ Answer(w, r, PushError(r, seq))
    /\ UNCHANGED <<sinkMaps, openLeg, mysqlVars, restarts>>

ClaimBatch(w, r, seq) ==
    /\ Idle(w)
    /\ PushError(r, seq) = "none"
    /\ run' = [run EXCEPT ![r].nextSeq = seq + 1]
    /\ Begin(w, r, "claimed", seq)
    /\ UNCHANGED <<active, admitting, tombstones, openLeg, mysqlVars, restarts>>

\* The transaction of the batch commits in MySQL, outside the lock.  Bound: with
\* lost acknowledgements a batch may land again, at most until MaxBatches + 1 rows are there.
LandBatch(w, r) ==
    /\ At(w, r, "claimed")
    /\ r \in staging
    /\ Len(landed[r]) <= MaxBatches
    /\ landed' = [landed EXCEPT ![r] = Append(@, call[w].arg)]
    /\ Goto(w, "landed")
    /\ UNCHANGED <<sinkMaps, openLeg, staging, swaps, restarts>>

\* release_seq: the number goes back only while it is still the last claimed.
ReleaseSeq(r, seq) ==
    run' = IF r \in active /\ run[r].nextSeq = seq + 1
           THEN [run EXCEPT ![r].nextSeq = seq] ELSE run

\* The write is rolled back or, its acknowledgement lost, landed and reported as an error.
BatchFails(w, r) ==
    /\ At(w, r, "claimed") \/ ("push" \in AckLost /\ At(w, r, "landed"))
    /\ ReleaseSeq(r, call[w].arg)
    /\ Answer(w, r, "WRITE_FAILED")
    /\ UNCHANGED <<active, admitting, tombstones, openLeg, mysqlVars, restarts>>

\* The run may have been aborted meanwhile: then there is no entry to account to.
AccountBatch(w, r) ==
    /\ At(w, r, "landed")
    /\ run' = IF r \in active THEN [run EXCEPT ![r].rowsWritten = @ + 1] ELSE run
    /\ Answer(w, r, "WRITTEN")
    /\ UNCHANGED <<active, admitting, tombstones, openLeg, mysqlVars, restarts>>

-----------------------------------------------------------------------------
(* POST /v1/runs/{}/commit: SinkService::commit, atomic_swap, finish_run and *)
(* the drop of the staging table.                                            *)

SlipCommitError(r) == IF r \notin active THEN InactiveRunError(r) ELSE "none"

CommitError(r) ==
    IF r \notin active THEN InactiveRunError(r)
    ELSE IF run[r].sealed THEN "RUN_SEALED" ELSE "none"

RefuseCommit(w, r) ==
    /\ Idle(w)
    /\ CommitError(r) # "none"
    /\ Answer(w, r, CommitError(r))
    /\ UNCHANGED <<sinkMaps, openLeg, mysqlVars, restarts>>

\* received_batches is read from the copy taken under the lock.
Seal(w, r, total) ==
    /\ Idle(w)
    /\ CommitError(r) = "none"
    /\ run' = [run EXCEPT ![r].sealed = TRUE]
    /\ call' = [call EXCEPT ![w] = [IdleCall EXCEPT !.at = "sealed", !.run = r, !.arg = total,
                                                    !.received = run[r].nextSeq - 1]]
    /\ UNCHANGED <<active, admitting, tombstones, openLeg, mysqlVars, restarts>>

\* The swap transaction counts the staging table and judges the counts.
Verify(w, r) ==
    /\ At(w, r, "sealed")
    /\ r \in staging
    /\ LET staged == Len(landed[r])
           passed == VerdictPassed(call[w].arg, call[w].received, staged)
       IN  call' = [call EXCEPT ![w].at = IF passed THEN "verified" ELSE "discarded",
                                ![w].staged = staged,
                                ![w].answer = IF passed THEN "none" ELSE "VERIFY_FAILED"]
    /\ UNCHANGED <<sinkMaps, openLeg, mysqlVars, restarts>>

\* INSERT ... SELECT of the staging rows as they are now.
MoveRows(r) ==
    swaps' = [swaps EXCEPT ![TableOf[r]] = Append(@, [run |-> r, rows |-> landed[r]])]

SwapCommits(w, r) ==
    /\ At(w, r, "verified")
    /\ r \in staging
    /\ \E affected \in Affected(r, Len(landed[r])) :
           SwapRowsConsistent(r, call[w].staged, affected)
    /\ MoveRows(r)
    /\ Goto(w, "swapped")
    /\ UNCHANGED <<sinkMaps, openLeg, staging, landed, restarts>>

\* TargetBusy or Other: an error, or affected_rows out of range, rolls the
\* transaction back; if its acknowledgement is lost the COMMIT landed.
SwapFails(w, r) ==
    /\ \/ At(w, r, "sealed") /\ UNCHANGED swaps
       \/ At(w, r, "verified") /\ UNCHANGED swaps
       \/ "swap" \in AckLost /\ At(w, r, "verified") /\ r \in staging /\ MoveRows(r)
    /\ call' = [call EXCEPT ![w].at = "discarded", ![w].answer = "SWAP_FAILED"]
    /\ UNCHANGED <<sinkMaps, openLeg, staging, landed, restarts>>

SlipFinishRun(w, r) ==
    /\ At(w, r, "swapped") \/ At(w, r, "discarded")
    /\ PushTombstone(r, IF At(w, r, "swapped") THEN SwappedTerminal(r) ELSE "DISCARDED")
    /\ active' = IF At(w, r, "swapped") THEN active \ {r} ELSE active
    /\ call' = [call EXCEPT ![w].at = "dropping",
                            ![w].answer = IF At(w, r, "swapped") THEN "COMMITTED" ELSE @]
    /\ UNCHANGED <<run, admitting, openLeg, mysqlVars, restarts>>

\* finish_run: the tombstone is written and the entry removed under one lock.
FinishRun(w, r) ==
    /\ At(w, r, "swapped") \/ At(w, r, "discarded")
    /\ PushTombstone(r, IF At(w, r, "swapped") THEN SwappedTerminal(r) ELSE "DISCARDED")
    /\ active' = active \ {r}
    /\ call' = [call EXCEPT ![w].at = "dropping",
                            ![w].answer = IF At(w, r, "swapped") THEN "COMMITTED" ELSE @]
    /\ UNCHANGED <<run, admitting, openLeg, mysqlVars, restarts>>

DropRows(r) ==
    /\ staging' = staging \ {r}
    /\ landed' = [landed EXCEPT ![r] = <<>>]

DropStaging(w, r) ==
    /\ At(w, r, "dropping")
    /\ DropRows(r)
    /\ Answer(w, r, call[w].answer)
    /\ UNCHANGED <<sinkMaps, openLeg, swaps, restarts>>

\* After a swap this is reported as SWAP_FAILED; after a discard it only adds
\* to the message of the error already decided.
DropFails(w, r) ==
    /\ At(w, r, "dropping")
    /\ ("drop" \in AckLost /\ DropRows(r)) \/ UNCHANGED <<staging, landed>>
    /\ Answer(w, r, IF call[w].answer = "COMMITTED" THEN "SWAP_FAILED" ELSE call[w].answer)
    /\ UNCHANGED <<sinkMaps, openLeg, swaps, restarts>>

-----------------------------------------------------------------------------
(* POST /v1/runs/{}/abort: SinkService::abort holds the lock throughout, the *)
(* DROP TABLE included.                                                      *)

SlipAbortError(r) == IF r \notin active THEN "NOT_ACTIVE" ELSE "none"

AbortError(r) ==
    IF r \notin active THEN "NOT_ACTIVE"
    ELSE IF run[r].sealed THEN "RUN_SEALED" ELSE "none"

RefuseAbort(w, r) ==
    /\ Idle(w)
    /\ AbortError(r) # "none"
    /\ Answer(w, r, AbortError(r))
    /\ UNCHANGED <<sinkMaps, openLeg, mysqlVars, restarts>>

Abort(w, r) ==
    /\ Idle(w)
    /\ AbortError(r) = "none"
    /\ DropRows(r)
    /\ PushTombstone(r, "DISCARDED")
    /\ active' = active \ {r}
    /\ Answer(w, r, "DROPPED")
    /\ UNCHANGED <<run, admitting, openLeg, swaps, restarts>>

AbortDropFails(w, r) ==
    /\ Idle(w)
    /\ AbortError(r) = "none"
    /\ ("drop" \in AckLost /\ DropRows(r)) \/ UNCHANGED <<staging, landed>>
    /\ Answer(w, r, "DROP_FAILED")
    /\ UNCHANGED <<sinkMaps, openLeg, swaps, restarts>>

-----------------------------------------------------------------------------
(* GET /v1/runs/{}: SinkService::get reads the two maps one after the other. *)

GetActive(w, r) ==
    /\ Idle(w)
    /\ IF r \in active THEN Answer(w, r, "LIVE") ELSE Begin(w, r, "lookup", 0)
    /\ UNCHANGED <<sinkMaps, openLeg, mysqlVars, restarts>>

GetTombstone(w, r) ==
    /\ At(w, r, "lookup")
    /\ \/ TombstonesOf(r) = {} /\ Answer(w, r, "RUN_UNKNOWN")
       \/ \E i \in TombstonesOf(r) : /\ \A j \in TombstonesOf(r) : i <= j
                                     /\ Answer(w, r, tombstones[i].terminal)
    /\ UNCHANGED <<sinkMaps, openLeg, mysqlVars, restarts>>

-----------------------------------------------------------------------------
\* The response leaves and the worker takes the next request.
Reply(w) ==
    /\ call[w].at = "reply"
    /\ call' = [call EXCEPT ![w] = IdleCall]
    /\ UNCHANGED <<sinkMaps, openLeg, mysqlVars, restarts>>

\* The process ends and a new one starts: the maps and the requests under way
\* are gone, MySQL rolls back what was not committed and keeps the rest.
Restart ==
    /\ restarts < MaxRestarts
    /\ active' = {}
    /\ admitting' = {}
    /\ tombstones' = <<>>
    /\ call' = [w \in Workers |-> IdleCall]
    /\ restarts' = restarts + 1
    /\ UNCHANGED <<run, openLeg, mysqlVars>>

\* A request reaches an idle worker.
Receive(w, r) ==
    \/ OpenUnreachable(w, r) \/ Admit(w, r) \/ RefuseBusyTable(w, r) \/ RefuseOverQuota(w, r)
    \/ \E seq \in 1..MaxBatches : RefuseBatch(w, r, seq) \/ ClaimBatch(w, r, seq)
    \/ RefuseCommit(w, r) \/ \E total \in 0..MaxBatches : Seal(w, r, total)
    \/ RefuseAbort(w, r) \/ Abort(w, r) \/ AbortDropFails(w, r)
    \/ GetActive(w, r)

\* A worker goes on with the request it has.
Continue(w, r) ==
    \/ AskRangeCheck(w, r) \/ OpenFails(w, r)
    \/ CreateStaging(w, r) \/ InsertActive(w, r) \/ ReturnSeat(w, r)
    \/ LandBatch(w, r) \/ BatchFails(w, r) \/ AccountBatch(w, r)
    \/ Verify(w, r) \/ SwapCommits(w, r) \/ SwapFails(w, r) \/ FinishRun(w, r)
    \/ DropStaging(w, r) \/ DropFails(w, r)
    \/ GetTombstone(w, r)

Next ==
    \/ \E w \in Workers, r \in Runs : Receive(w, r) \/ Continue(w, r)
    \/ \E w \in Workers : Reply(w)
    \/ Restart

Spec == Init /\ [][Next]_vars

\* Worker threads run, and the MySQL calls they make return.
Fairness ==
    \A w \in Workers : WF_vars(\E r \in Runs : Continue(w, r)) /\ WF_vars(Reply(w))

FairSpec == Spec /\ Fairness

-----------------------------------------------------------------------------
(* Properties *)

\* A target table is held by one run at a time, counted from the moment its
\* open is admitted and not from the moment it is in active_runs (admit).
TargetExclusion ==
    \A q, r \in InFlight : TableOf[q] = TableOf[r] => q = r

\* The agent never has more than max_concurrent_runs runs in flight, the ones
\* whose open is still talking to MySQL included (admit).
QuotaRespected == Cardinality(InFlight) <= MaxConcurrentRuns

\* A target table changes only under the sealed run that holds it, while nobody
\* else is in flight on it: another run's import is never silently overwritten
\* by one that overlaps it (admit, commit, finish_run).
SwapUnderHold ==
    \A t \in Tables : swaps'[t] # swaps[t] =>
        \E r \in active : TableOf[r] = t /\ run[r].sealed /\ Holders(r) = {}
SwapsUnderHold == [][SwapUnderHold]_vars

\* The rows of a run are imported at most once, however many commits, pushes
\* and aborts of it are under way (commit seals first).
OneSwap ==
    \A t \in Tables : \A i, j \in DOMAIN swaps[t] :
        swaps[t][i].run = swaps[t][j].run => i = j

\* What a tombstone says of the target is what happened to the target: the
\* answer a lost commit response is diagnosed from.  Needs "swap" \notin AckLost.
TombstonesTrue ==
    \A i \in DOMAIN tombstones :
        LET t == tombstones[i] IN (t.terminal = "DISCARDED") <=> ~HasSwapped(t.run)

\* A swap that reached MySQL stays visible to GET: the run is active or has a
\* tombstone until the tombstones are full or the process restarts.
RememberedSwap ==
    \A r \in Runs : HasSwapped(r) =>
        \/ r \in active
        \/ TombstonesOf(r) # {}
        \/ Len(tombstones) = TombstoneLimit
        \/ restarts > 0

\* The agent implements TargetHold, whose holders are the runs in flight: a table
\* is taken while its open is still talking to MySQL, nobody else's swap or drop
\* ends the hold, and only its holder imports, once (open, commit, abort).
Hold == INSTANCE TargetHold WITH
    holders <- InFlight,
    imports <- [t \in Tables |-> [i \in DOMAIN swaps[t] |-> swaps[t][i].run]]
HoldsImplemented == Hold!Spec

\* A sealed run ends: no outcome of the swap leaves it in active_runs, where
\* it could be neither committed nor aborted again (commit).
SealedRunEnds ==
    \A r \in Runs : (r \in active /\ run[r].sealed) ~> r \notin active

\* A seat is given back whichever way open returns (AdmissionGuard).
SeatReturned == \A r \in Runs : r \in admitting ~> r \notin admitting

=============================================================================
