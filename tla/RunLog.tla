-------------------------------- MODULE RunLog --------------------------------
(***************************************************************************)
(* The raw log lines of runs (crates/source/src/run_log_store.rs): every run  *)
(* has one pen, held by the thread that supervises it, which numbers its      *)
(* lines; writing a line and clearing out old runs are one transaction; a     *)
(* line that cannot be stored is skipped; a parent that restarts goes on with *)
(* the lines of an earlier life; and the screen polls with the number of the  *)
(* last line it has (http.rs, handle_run_logs).                              *)
(***************************************************************************)
EXTENDS Integers, FiniteSets

CONSTANTS
    RunIds,             \* run_record_ids, which are compared
    OwnerOf,            \* the task of a run
    RetentionDays,      \* RUN_LOG_RETENTION_DAYS
    RetentionRuns,      \* RUN_LOG_RETENTION_RUNS_PER_TASK
    PageLimit,          \* RUN_LOG_PAGE_LIMIT
    MaxDay,             \* bound: days
    MaxSaid,            \* bound: lines a run says
    MaxFaults           \* bound: failed statements and restarts

ASSUME RunLogAssumption ==
    /\ RunIds \subseteq Nat /\ RetentionDays \in Nat
    /\ {RetentionRuns, PageLimit} \subseteq Nat \ {0} /\ {MaxDay, MaxSaid, MaxFaults} \subseteq Nat

VARIABLES
    day,                \* the clock, in days
    startedOn,          \* the day a run started, or NotYet
    stored,             \* run_log_lines: <<run, seq, line>>
    pen,                \* RunLogWriter.seq, NoPen, or LostPen: it went with the process
    said,               \* how many lines a run has said; a line is its number
    cursor,             \* the screen: the last number it has of a run, ...
    shown,              \* ... and <<run, line>> for the lines it has shown
    faults,             \* failures so far
    blind               \* runs whose pen was taken up again without the last number

logRows == <<startedOn, stored>>
runLogVars == <<day, logRows, pen, said, cursor, shown, faults, blind>>

NotYet == -1
NoPen == -1
LostPen == -2
Writing(r) == pen[r] \notin {NoPen, LostPen}
Fault == faults < MaxFaults /\ faults' = faults + 1

LinesOf(r) == {l \in stored : l[1] = r}
SeqsOf(r) == {l[2] : l \in LinesOf(r)}

-----------------------------------------------------------------------------
(* Retention *)

\* ORDER BY started_at_ms DESC, run_record_id DESC
Newer(q, r) ==
    \/ startedOn[q] > startedOn[r]
    \/ startedOn[q] = startedOn[r] /\ q > r

Expired(r) == startedOn[r] < day - RetentionDays

\* Counted among the runs that have lines.
Surplus(r, lines) ==
    Cardinality({q \in {l[1] : l \in lines} : OwnerOf[q] = OwnerOf[r] /\ Newer(q, r)}) >= RetentionRuns

\* cleanup_transaction: the second DELETE sees what the first has left.
Cleaned(lines) ==
    LET recent == {l \in lines : ~Expired(l[1])}
    IN {l \in recent : ~Surplus(l[1], recent)}

-----------------------------------------------------------------------------
(* Writing *)

Start(r) ==
    /\ startedOn[r] = NotYet
    /\ startedOn' = [startedOn EXCEPT ![r] = day]
    /\ pen' = [pen EXCEPT ![r] = 0]
    /\ UNCHANGED <<day, stored, said, cursor, shown, faults, blind>>

\* INSERT OR REPLACE and the clean-up, in one transaction.
Appended(r, seq, line) ==
    Cleaned({l \in stored : <<l[1], l[2]>> # <<r, seq>>} \cup {<<r, seq, line>>})

\* RunLogWriter::write counts before it stores and swallows the failure.
Write(r) ==
    /\ Writing(r) /\ said[r] < MaxSaid
    /\ pen' = [pen EXCEPT ![r] = @ + 1]
    /\ said' = [said EXCEPT ![r] = @ + 1]
    /\ \/ stored' = Appended(r, pen[r] + 1, said[r] + 1) /\ UNCHANGED faults
       \/ Fault /\ UNCHANGED stored
    /\ UNCHANGED <<day, startedOn, cursor, shown, blind>>

\* The supervising thread ends.
PutDown(r) ==
    /\ Writing(r)
    /\ pen' = [pen EXCEPT ![r] = NoPen]
    /\ UNCHANGED <<day, logRows, said, cursor, shown, faults, blind>>

Crash ==
    /\ Fault /\ \E r \in RunIds : Writing(r)
    /\ pen' = [r \in RunIds |-> IF Writing(r) THEN LostPen ELSE pen[r]]
    /\ UNCHANGED <<day, logRows, said, cursor, shown, blind>>

SlipLastSeq(r) == Cardinality(SeqsOf(r))

\* last_seq, 0 of a run without lines.
LastSeq(r) == CHOOSE n \in SeqsOf(r) \cup {0} : \A m \in SeqsOf(r) : m <= n

\* For the last words on a run whose end the parent did not live to see:
\* RunLogWriter::resuming takes 0 for a number it cannot read.
Resume(r) ==
    /\ pen[r] = LostPen
    /\ \/ pen' = [pen EXCEPT ![r] = LastSeq(r)] /\ UNCHANGED <<faults, blind>>
       \/ /\ Fault
          /\ pen' = [pen EXCEPT ![r] = 0] /\ blind' = blind \cup {r}
    /\ UNCHANGED <<day, logRows, said, cursor, shown>>

NextDay ==
    /\ day < MaxDay /\ day' = day + 1
    /\ UNCHANGED <<logRows, pen, said, cursor, shown, faults, blind>>

-----------------------------------------------------------------------------
(* Reading *)

SlipPage(r, after) ==
    LET behind == {l \in LinesOf(r) : l[2] > after}
    IN {l \in behind : Cardinality({m \in behind : m[2] > l[2]}) < PageLimit}

\* lines_after: the first of the lines after the cursor.
Page(r, after) ==
    LET behind == {l \in LinesOf(r) : l[2] > after}
    IN {l \in behind : Cardinality({m \in behind : m[2] < l[2]}) < PageLimit}

\* handle_run_logs, and the screen that takes next_after for its cursor.
Poll(r) ==
    LET page == Page(r, cursor[r]) IN
    /\ page # {}
    /\ cursor' = [cursor EXCEPT ![r] = CHOOSE n \in {l[2] : l \in page} : \A l \in page : l[2] <= n]
    /\ shown' = shown \cup {<<r, l[3]>> : l \in page}
    /\ UNCHANGED <<day, logRows, pen, said, faults, blind>>

-----------------------------------------------------------------------------
RunLogInit ==
    /\ day = 0 /\ startedOn = [r \in RunIds |-> NotYet] /\ stored = {}
    /\ pen = [r \in RunIds |-> NoPen] /\ said = [r \in RunIds |-> 0]
    /\ cursor = [r \in RunIds |-> 0] /\ shown = {}
    /\ faults = 0 /\ blind = {}

RunLogNext ==
    \/ \E r \in RunIds : Start(r) \/ Write(r) \/ PutDown(r) \/ Resume(r) \/ Poll(r)
    \/ Crash \/ NextDay

RunLogSpec == RunLogInit /\ [][RunLogNext]_runLogVars

-----------------------------------------------------------------------------
(* Properties *)

\* A stored line is never written over, whatever was lost, restarted or cleared in
\* between: only a pen that could not read the last number writes over lines.
LinesKept ==
    [][\A l \in stored : l[1] \notin blind' =>
           \A k \in stored' : <<k[1], k[2]>> = <<l[1], l[2]>> => k = l]_runLogVars

\* The screen misses no stored line: whatever stands at or before its cursor it has
\* shown, pages and lost lines notwithstanding.
NothingBehind ==
    \A l \in stored : l[1] \notin blind /\ l[2] <= cursor[l[1]] => <<l[1], l[3]>> \in shown

=============================================================================
