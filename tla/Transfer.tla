------------------------------ MODULE Transfer ------------------------------
(***************************************************************************)
(* The run child of db-qbs (crates/source/src/transfer.rs, protocol.rs):   *)
(* one process per run that opens the run at the agent, pushes the rows    *)
(* of its query batch by batch, commits, and says in its log what became   *)
(* of the target table.  It calls the agent of SinkService over HTTP: one  *)
(* call at a time, each with a timeout, none of them repeated.             *)
(*                                                                         *)
(* A call that fails on the way may have reached the agent or may still    *)
(* reach it: its request then stays in net as a stray, or at the worker    *)
(* that has it, with nobody waiting for the answer.                        *)
(***************************************************************************)
EXTENDS SinkService

CONSTANTS
    Lossy,    \* TRUE: a call may end in a transport error (timeout, reset, refusal)
    Mortal    \* the stages in which the child may be killed from outside

Stages == {"PREPARING", "STREAMING", "COMMITTING", "SUCCEEDED", "FAILED"}

ASSUME NetworkAssumption ==
    /\ Lossy \in BOOLEAN
    /\ Mortal \subseteq Stages
    /\ TrackAnswers

VARIABLES
    child,     \* child[r]: the run's process
    net,       \* requests on their way to the agent
    party,     \* party[w]: who waits for the answer of worker w
    heard,     \* heard[r][p]: what party p of run r has got for its last call
    history    \* history[r]: outcome and target_table_effect folded from the log

sinkVars == vars
transferVars == <<child, net, party, heard, history>>
allVars == <<vars, transferVars>>

-----------------------------------------------------------------------------
(* Types *)

Parties == {"child", "parent"}      \* the parent's calls are those of Supervisor
Ops == {"open", "push", "commit", "abort", "get"}
Request == [party : Parties \cup {"nobody"}, op : Ops, run : Runs, arg : 0..MaxBatches]
Heard == Answers \cup {"quiet", "waiting", "TRANSPORT"}

\* What the child does between two calls; "drained" is past the COMMITTING line
\* of the log and before the commit request.
Doings == {"new", "opening", "fetching", "pushing", "drained", "committing",
           "diagnosing", "aborting", "closing", "ended", "dead"}

\* size is how many batches the result of the query fills, stage the last
\* stage_changed line, failedIn the stage a failure is reported in and code its
\* sink_code.
Child == [doing : Doings, stage : Stages, size : 0..MaxBatches, acked : 0..MaxBatches,
          failedIn : Stages, code : Heard, abortFailed : BOOLEAN]
NewChild == [doing |-> "new", stage |-> "PREPARING", size |-> 0, acked |-> 0,
             failedIn |-> "PREPARING", code |-> "quiet", abortFailed |-> FALSE]

Effects == Terminals \cup {"none", "UNKNOWN"}
History == [outcome : {"none", "SUCCEEDED", "FAILED"}, effect : Effects]

TransferTypeOK ==
    /\ child \in [Runs -> Child]
    /\ net \subseteq Request
    /\ party \in [Workers -> Parties \cup {"nobody"}]
    /\ heard \in [Runs -> [Parties -> Heard]]
    /\ history \in [Runs -> History]

-----------------------------------------------------------------------------
(* Calls *)

\* HttpSinkClient sends a request and waits for its answer.
Send(p, op, r, arg) ==
    /\ net' = net \cup {[party |-> p, op |-> op, run |-> r, arg |-> arg]}
    /\ heard' = [heard EXCEPT ![r][p] = "waiting"]
    /\ UNCHANGED party

\* The party has dealt with its answer.
Hush(p, r) ==
    /\ heard' = [heard EXCEPT ![r][p] = "quiet"]
    /\ UNCHANGED <<net, party>>

\* Party p of run r no longer waits: a request not yet taken is lost or becomes
\* a stray, one already taken is served for nobody.
Abandoned(p, r) == {m \in net : m.party = p /\ m.run = r}
Forget(p, r) ==
    /\ \/ net' = net \ Abandoned(p, r)
       \/ /\ Abandoned(p, r) # {}
          /\ net' = (net \ Abandoned(p, r)) \cup {[m EXCEPT !.party = "nobody"] : m \in Abandoned(p, r)}
    /\ party' = [w \in Workers |-> IF party[w] = p /\ call[w].run = r THEN "nobody" ELSE party[w]]

TransportError(p, r) ==
    /\ Lossy
    /\ heard[r][p] = "waiting"
    /\ Forget(p, r)
    /\ heard' = [heard EXCEPT ![r][p] = "TRANSPORT"]
    /\ UNCHANGED <<sinkVars, child, history>>

\* The handler of a request (handle_sink_request routes on method and path).
Handle(w, m) ==
    \/ m.op = "open" /\ \/ OpenUnreachable(w, m.run) \/ Admit(w, m.run)
                        \/ RefuseBusyTable(w, m.run) \/ RefuseOverQuota(w, m.run)
    \/ m.op = "push" /\ (RefuseBatch(w, m.run, m.arg) \/ ClaimBatch(w, m.run, m.arg))
    \/ m.op = "commit" /\ (RefuseCommit(w, m.run) \/ Seal(w, m.run, m.arg))
    \/ m.op = "abort" /\ (RefuseAbort(w, m.run) \/ Abort(w, m.run) \/ AbortDropFails(w, m.run))
    \/ m.op = "get" /\ GetActive(w, m.run)

Deliver(w, m) ==
    /\ m \in net
    /\ Handle(w, m)
    /\ net' = net \ {m}
    /\ party' = [party EXCEPT ![w] = m.party]
    /\ UNCHANGED <<child, heard, history>>

\* A worker makes a step of the request it has.
Serve(w) ==
    /\ \E r \in Runs : Continue(w, r)
    /\ UNCHANGED transferVars

DeliverAnswer(w) ==
    /\ Reply(w)
    /\ heard' = IF party[w] = "nobody" THEN heard
                ELSE [heard EXCEPT ![call[w].run][party[w]] = call[w].answer]
    /\ party' = [party EXCEPT ![w] = "nobody"]
    /\ UNCHANGED <<child, net, history>>

\* The connections of the requests the agent was serving are reset.
AgentRestart ==
    /\ Restart
    /\ heard' = [r \in Runs |-> [p \in Parties |->
          IF \E w \in Workers : party[w] = p /\ call[w].run = r THEN "TRANSPORT" ELSE heard[r][p]]]
    /\ party' = [w \in Workers |-> "nobody"]
    /\ UNCHANGED <<child, net, history>>

-----------------------------------------------------------------------------
(* run_transfer *)

Doing(r, doing) == child[r].doing = doing
Got(r) == heard[r]["child"]
HasAnswer(r) == Got(r) \notin {"quiet", "waiting"}

\* The child logs that it entered stage and goes on.
Enter(r, doing, stage) == child' = [child EXCEPT ![r].doing = doing, ![r].stage = stage]

\* The stage_changed line of a failure that belongs to stage failedIn.
Fail(r, failedIn) ==
    child' = [child EXCEPT ![r].doing = "closing", ![r].stage = "FAILED",
                           ![r].failedIn = failedIn, ![r].code = Got(r)]

\* main: the Oracle session, the agent's identity, the HTTP client.
FailBeforeOpen(r) ==
    /\ Doing(r, "new")
    /\ Fail(r, "PREPARING")
    /\ UNCHANGED <<sinkVars, net, party, heard, history>>

Open(r) ==
    /\ Doing(r, "new")
    /\ Enter(r, "opening", "PREPARING")
    /\ Send("child", "open", r, 0)
    /\ UNCHANGED <<sinkVars, history>>

\* The agent asks for a range check: the child counts and opens again.
RangeCheck(r) ==
    /\ Doing(r, "opening") /\ Got(r) = "RANGE_CHECK"
    /\ Send("child", "open", r, 0)
    /\ UNCHANGED <<sinkVars, child, history>>

Opened(r) ==
    /\ Doing(r, "opening") /\ Got(r) = "OPENED"
    /\ Enter(r, "fetching", "STREAMING")
    /\ Hush("child", r)
    /\ UNCHANGED <<sinkVars, history>>

\* A refusal, a transport error or a range check that fails: no abort is sent.  (An answer
\* that is none of the three, which leads to an abort, is one this agent never gives.)
OpenFailed(r) ==
    /\ Doing(r, "opening") /\ HasAnswer(r) /\ Got(r) # "OPENED"
    /\ Fail(r, "PREPARING")
    /\ Hush("child", r)
    /\ UNCHANGED <<sinkVars, history>>

\* Enough rows for a batch, or the last ones.
PushNext(r) ==
    /\ Doing(r, "fetching")
    /\ child[r].acked < child[r].size
    /\ child' = [child EXCEPT ![r].doing = "pushing"]
    /\ Send("child", "push", r, child[r].acked + 1)
    /\ UNCHANGED <<sinkVars, history>>

BatchAcked(r) ==
    /\ Doing(r, "pushing") /\ Got(r) = "WRITTEN"
    /\ child' = [child EXCEPT ![r].doing = "fetching", ![r].acked = @ + 1]
    /\ Hush("child", r)
    /\ UNCHANGED <<sinkVars, history>>

\* fail_before_commit: an error of the source or of a push, then the abort.
FailStreaming(r) ==
    /\ \/ Doing(r, "fetching")
       \/ Doing(r, "pushing") /\ HasAnswer(r) /\ Got(r) # "WRITTEN"
    /\ child' = [child EXCEPT ![r].doing = "aborting", ![r].code = Got(r)]
    /\ Send("child", "abort", r, 0)
    /\ UNCHANGED <<sinkVars, history>>

\* Runs that are not active are answered 200 too.
Released(answer) == answer \in {"DROPPED", "NOT_ACTIVE"}

\* abort_best_effort: tried once, a failure is only logged.
AbortAnswered(r) ==
    /\ Doing(r, "aborting") /\ HasAnswer(r)
    /\ child' = [child EXCEPT ![r].doing = "closing", ![r].stage = "FAILED",
                              ![r].failedIn = "STREAMING", ![r].abortFailed = ~Released(Got(r))]
    /\ Hush("child", r)
    /\ UNCHANGED <<sinkVars, history>>

SlipDrained(r) ==
    /\ Doing(r, "fetching")
    /\ Enter(r, "drained", "COMMITTING")
    /\ UNCHANGED <<sinkVars, net, party, heard, history>>

\* The query is exhausted: the COMMITTING line, then the commit request.
Drained(r) ==
    /\ Doing(r, "fetching")
    /\ child[r].acked = child[r].size
    /\ Enter(r, "drained", "COMMITTING")
    /\ UNCHANGED <<sinkVars, net, party, heard, history>>

Commit(r) ==
    /\ Doing(r, "drained")
    /\ child' = [child EXCEPT ![r].doing = "committing"]
    /\ Send("child", "commit", r, child[r].acked)
    /\ UNCHANGED <<sinkVars, history>>

Committed(r) ==
    /\ Doing(r, "committing") /\ Got(r) = "COMMITTED"
    /\ Enter(r, "closing", "SUCCEEDED")
    /\ Hush("child", r)
    /\ UNCHANGED <<sinkVars, history>>

\* The agent answered with an error: no diagnosis.
CommitRefused(r) ==
    /\ Doing(r, "committing") /\ HasAnswer(r) /\ Got(r) \notin {"COMMITTED", "TRANSPORT"}
    /\ Fail(r, "COMMITTING")
    /\ Hush("child", r)
    /\ UNCHANGED <<sinkVars, history>>

\* The answer is lost: one GET is all that is tried.
AskWhatHappened(r) ==
    /\ Doing(r, "committing") /\ Got(r) = "TRANSPORT"
    /\ child' = [child EXCEPT ![r].doing = "diagnosing", ![r].code = "TRANSPORT"]
    /\ Send("child", "get", r, 0)
    /\ UNCHANGED <<sinkVars, history>>

\* diagnose_commit: a run the agent still has, or no longer knows, says nothing.
Verdict(answer) == IF answer \in Terminals THEN answer ELSE "UNKNOWN"

Diagnosed(r) ==
    /\ Doing(r, "diagnosing") /\ HasAnswer(r)
    /\ history' = [history EXCEPT ![r].effect = Verdict(Got(r))]
    /\ child' = [child EXCEPT ![r].doing = "closing", ![r].stage = "FAILED",
                              ![r].failedIn = "COMMITTING"]
    /\ Hush("child", r)
    /\ UNCHANGED sinkVars

SlipFoldedEffect(r) ==
    IF child[r].stage = "SUCCEEDED" THEN SwappedTerminal(r)
    ELSE IF child[r].failedIn = "COMMITTING" /\ child[r].code = "TRANSPORT" THEN "UNKNOWN"
    ELSE "DISCARDED"

\* finish_from_log, when no commit_diagnosed line has set the effect.
FoldedEffect(r) ==
    IF child[r].stage = "SUCCEEDED" THEN SwappedTerminal(r)
    ELSE IF child[r].code = "VERIFY_FAILED" THEN "DISCARDED"
    ELSE IF child[r].failedIn = "COMMITTING" THEN "UNKNOWN"
    ELSE "DISCARDED"

\* The run_finished line.
Finish(r) ==
    /\ Doing(r, "closing")
    /\ child' = [child EXCEPT ![r].doing = "ended"]
    /\ history' = [history EXCEPT
          ![r].outcome = child[r].stage,
          ![r].effect = IF @ = "none" THEN FoldedEffect(r) ELSE @]
    /\ UNCHANGED <<sinkVars, net, party, heard>>

\* SIGTERM, the OOM killer or a crash: the child has no handler for it.
Killed(r) ==
    /\ child[r].doing \notin {"new", "ended", "dead"}
    /\ child[r].stage \in Mortal
    /\ child' = [child EXCEPT ![r].doing = "dead"]
    /\ Forget("child", r)
    /\ heard' = [heard EXCEPT ![r]["child"] = "quiet"]
    /\ UNCHANGED <<sinkVars, history>>

-----------------------------------------------------------------------------
TransferInit ==
    /\ Init
    /\ \E size \in [Runs -> 0..MaxBatches] :
           child = [r \in Runs |-> [NewChild EXCEPT !.size = size[r]]]
    /\ net = {}
    /\ party = [w \in Workers |-> "nobody"]
    /\ heard = [r \in Runs |-> [p \in Parties |-> "quiet"]]
    /\ history = [r \in Runs |-> [outcome |-> "none", effect |-> "none"]]

Agent ==
    \/ \E w \in Workers : Serve(w) \/ DeliverAnswer(w) \/ \E m \in net : Deliver(w, m)
    \/ AgentRestart

\* A step of the child once it has been started.
Step(r) ==
    \/ RangeCheck(r) \/ Opened(r) \/ OpenFailed(r)
    \/ PushNext(r) \/ BatchAcked(r) \/ FailStreaming(r) \/ AbortAnswered(r)
    \/ Drained(r) \/ Commit(r) \/ Committed(r) \/ CommitRefused(r)
    \/ AskWhatHappened(r) \/ Diagnosed(r) \/ Finish(r)

-----------------------------------------------------------------------------
(* Properties *)

\* Whatever becomes of the run, what a target table receives is the whole result
\* of the query, every batch once and in order: source errors, strays,
\* overlapping aborts and restarts never make half an import (run_transfer, commit).
WholeImport ==
    \A t \in Tables : \A i \in DOMAIN swaps[t] :
        swaps[t][i].rows = [n \in 1..child[swaps[t][i].run].size |-> n]

\* What the history says of the target table is and stays true: "DISCARDED" is
\* never said of a table that was or will be swapped, and a swap is never
\* claimed that did not happen (diagnose_commit, finish_from_log).  Needs "swap" \notin AckLost.
EffectTrue ==
    \A r \in Runs :
        /\ history[r].effect = "DISCARDED" => ~HasSwapped(r)
        /\ history[r].effect \in Terminals \ {"DISCARDED"} => HasSwapped(r)

=============================================================================
