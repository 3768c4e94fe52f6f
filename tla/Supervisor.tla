----------------------------- MODULE Supervisor -----------------------------
(***************************************************************************)
(* The resident parent of db-qbs (crates/source/src/http.rs): it starts a  *)
(* run child, reads its log to the end, and settles what the child left    *)
(* behind at the agent.  A child that ended without its run_finished line  *)
(* gets its abort sent by the parent; an abort that failed leaves the      *)
(* target table booked as held (stuck_aborts), until a person resends it.  *)
(* The parent itself does not die here; the runs are of different tasks.   *)
(***************************************************************************)
EXTENDS Transfer

VARIABLES
    watch,      \* watch[r]: where start_run and supervise_run are with run r
    stuck,      \* stuck_aborts: runs whose hold is known not to be released
    retrying    \* runs in stuck whose abort is being resent

parentVars == <<watch, stuck, retrying>>
superVars == <<allVars, parentVars>>

SuperTypeOK ==
    /\ TransferTypeOK
    /\ watch \in [Runs -> {"none", "supervising", "aborting", "done"}]
    /\ stuck \subseteq Runs
    /\ retrying \subseteq stuck

-----------------------------------------------------------------------------
ParentGot(r) == heard[r]["parent"]
ParentHasAnswer(r) == ParentGot(r) \notin {"quiet", "waiting"}

\* stuck_for_target
HeldTables == {TableOf[q] : q \in stuck}

\* start_run: register_active_run refuses a table whose hold is booked as stuck;
\* the run then stays in active_runs until supervise_run is done.
StartRun(r) ==
    /\ watch[r] = "none"
    /\ TableOf[r] \notin HeldTables
    /\ watch' = [watch EXCEPT ![r] = "supervising"]
    /\ Open(r) \/ FailBeforeOpen(r)
    /\ UNCHANGED <<stuck, retrying>>

\* handle_cancel_run's SIGTERM is one of the ways a child is killed.
ChildStep(r) ==
    /\ watch[r] = "supervising"
    /\ Step(r) \/ Killed(r)
    /\ UNCHANGED parentVars

\* The log ended with run_finished: a hold the child could not release is booked.
ReapEnded(r) ==
    /\ watch[r] = "supervising"
    /\ child[r].doing = "ended"
    /\ watch' = [watch EXCEPT ![r] = "done"]
    /\ stuck' = IF child[r].abortFailed THEN stuck \cup {r} ELSE stuck
    /\ UNCHANGED <<allVars, retrying>>

SlipMarkUnknown(r) == history' = [history EXCEPT ![r] = [outcome |-> "FAILED", effect |-> "DISCARDED"]]

\* mark_unknown
MarkUnknown(r) == history' = [history EXCEPT ![r] = [outcome |-> "FAILED", effect |-> "none"]]

SlipAbortAllowed(stage) == stage # "FAILED"
AbortAllowed(stage) == stage \in {"PREPARING", "STREAMING"}

\* The log ended without it: the parent aborts on behalf of the child, unless
\* the last stage it read is past the point of no return.
AbortOnBehalf(r) ==
    /\ watch[r] = "supervising"
    /\ child[r].doing = "dead"
    /\ AbortAllowed(child[r].stage)
    /\ MarkUnknown(r)
    /\ Send("parent", "abort", r, 0)
    /\ watch' = [watch EXCEPT ![r] = "aborting"]
    /\ UNCHANGED <<sinkVars, child, stuck, retrying>>

SlipReapPastSeal(r) ==
    /\ watch[r] = "supervising"
    /\ child[r].doing = "dead"
    /\ child[r].stage = "COMMITTING"
    /\ MarkUnknown(r)
    /\ watch' = [watch EXCEPT ![r] = "done"]
    /\ UNCHANGED <<sinkVars, child, net, party, heard, stuck, retrying>>

ReapPastSeal(r) ==
    /\ watch[r] = "supervising"
    /\ child[r].doing = "dead"
    /\ ~AbortAllowed(child[r].stage)
    /\ MarkUnknown(r)
    /\ watch' = [watch EXCEPT ![r] = "done"]
    /\ UNCHANGED <<sinkVars, child, net, party, heard, stuck, retrying>>

SlipOnBehalfAnswered(r) ==
    /\ watch[r] = "aborting"
    /\ ParentHasAnswer(r)
    /\ watch' = [watch EXCEPT ![r] = "done"]
    /\ Hush("parent", r)
    /\ UNCHANGED <<sinkVars, child, history, stuck, retrying>>

\* record_stuck_abort when the abort failed, then the run leaves active_runs.
OnBehalfAnswered(r) ==
    /\ watch[r] = "aborting"
    /\ ParentHasAnswer(r)
    /\ watch' = [watch EXCEPT ![r] = "done"]
    /\ stuck' = IF Released(ParentGot(r)) THEN stuck ELSE stuck \cup {r}
    /\ Hush("parent", r)
    /\ UNCHANGED <<sinkVars, child, history, retrying>>

\* handle_release_target: a person resends the abort, one at a time.
Release(r) ==
    /\ r \in stuck \ retrying
    /\ Send("parent", "abort", r, 0)
    /\ retrying' = retrying \cup {r}
    /\ UNCHANGED <<sinkVars, child, history, watch, stuck>>

SlipSettle(r) ==
    /\ r \in retrying
    /\ ParentHasAnswer(r)
    /\ stuck' = IF Released(ParentGot(r)) THEN stuck \ {r} ELSE stuck
    /\ retrying' = IF Released(ParentGot(r)) THEN retrying ELSE retrying \ {r}
    /\ Hush("parent", r)
    /\ UNCHANGED <<sinkVars, child, history, watch>>

\* settle_stuck_abort
Settle(r) ==
    /\ r \in retrying
    /\ ParentHasAnswer(r)
    /\ stuck' = IF Released(ParentGot(r)) THEN stuck \ {r} ELSE stuck
    /\ retrying' = retrying \ {r}
    /\ Hush("parent", r)
    /\ UNCHANGED <<sinkVars, child, history, watch>>

-----------------------------------------------------------------------------
SuperInit ==
    /\ TransferInit
    /\ watch = [r \in Runs |-> "none"]
    /\ stuck = {}
    /\ retrying = {}

ParentStep(r) ==
    \/ ReapEnded(r) \/ AbortOnBehalf(r) \/ ReapPastSeal(r) \/ OnBehalfAnswered(r) \/ Settle(r)

SuperNext ==
    \/ Agent /\ UNCHANGED parentVars
    \/ \E r \in Runs :
          \/ StartRun(r) \/ ChildStep(r) \/ ParentStep(r) \/ Release(r)
          \/ \E p \in Parties : TransportError(p, r) /\ UNCHANGED parentVars

SuperSpec == SuperInit /\ [][SuperNext]_superVars

\* The agent's threads, the parent's and a child that lives run; a call ends in an
\* answer or in its timeout.  Nobody has to press the button of Release.
SuperFairness ==
    /\ \A w \in Workers : /\ WF_superVars(Serve(w) /\ UNCHANGED parentVars)
                          /\ WF_superVars(DeliverAnswer(w) /\ UNCHANGED parentVars)
    /\ WF_superVars(\E w \in Workers, m \in net : Deliver(w, m) /\ UNCHANGED parentVars)
    /\ \A r \in Runs :
          /\ WF_superVars(watch[r] = "supervising" /\ Step(r) /\ UNCHANGED parentVars)
          /\ WF_superVars(ParentStep(r))
          /\ \A p \in Parties : WF_superVars(TransportError(p, r) /\ UNCHANGED parentVars)

FairSuper == SuperSpec /\ SuperFairness

-----------------------------------------------------------------------------
(* Properties *)

\* Where a run's table still looks taken on the source: the run is in
\* active_runs or its hold is booked as stuck.
Reported(r) == watch[r] \in {"supervising", "aborting"} \/ r \in stuck

\* CONTEXT.md, Target table hold: "Nothing may present a task as re-runnable
\* while its target table is still held".
HoldReported == \A r \in active : Reported(r)

\* The part of it the code keeps: a run that was streaming when it failed or
\* died is either released at the agent or booked, whichever calls were lost
\* and whoever sent the abort (supervise_run, abort_on_behalf_of_child).
StreamedTo(r) == \/ child[r].doing = "dead" /\ child[r].stage = "STREAMING"
                 \/ child[r].doing = "ended" /\ child[r].failedIn = "STREAMING"
StreamingHoldReported ==
    \A r \in InFlight : StreamedTo(r) => Reported(r)

\* What abort_on_behalf_of_child relies on when it sends no abort for a run that
\* is past the COMMITTING line: the agent's commit is running, or on its way.
CommitUnderway ==
    \A r \in active :
        watch[r] = "done" /\ child[r].doing = "dead" /\ child[r].stage = "COMMITTING" =>
            run[r].sealed \/ \E m \in net : m.run = r /\ m.op = "commit"

\* No abort is sent or offered for resending on a run the agent has sealed: the
\* booking would be a button that can never work (abort_on_behalf_of_child).
NoHopelessRelease ==
    \A r \in active : run[r].sealed =>
        /\ r \notin stuck
        /\ ~ \E m \in net : m.run = r /\ m.op = "abort"

\* Parent, child, network and agent together implement TargetImport: whatever fails, an import is whole
\* and happens once, a success is an import, and nothing the history says of the target is ever taken
\* back by a late commit or a later line (finish_from_log, mark_unknown).  Needs "swap" \notin AckLost.
VerdictOf(effect) == CASE effect = "DISCARDED" -> "untouched"
                       [] effect \in Terminals \ {"DISCARDED"} -> "imported"
                       [] OTHER -> "unknown"
Promise == INSTANCE TargetImport WITH
    size <- [r \in Runs |-> child[r].size],
    imports <- swaps,
    outcome <- [r \in Runs |-> history[r].outcome],
    verdict <- [r \in Runs |-> VerdictOf(history[r].effect)]
PromiseKept == Promise!Spec

\* Every run that was started is settled: its task can be run again or its table
\* is booked as held; nothing stays in active_runs for ever (supervise_run).
RunSettles == \A r \in Runs : watch[r] # "none" ~> watch[r] = "done"

=============================================================================
