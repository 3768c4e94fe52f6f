--------------------------- MODULE SupervisorProofs ---------------------------
(***************************************************************************)
(* Theorems about the composition of parent, run child and agent, for      *)
(* every set of runs, tables and workers, every bound, and every choice of *)
(* the calls that may fail and of the stages a child may be killed in.     *)
(***************************************************************************)
EXTENDS Supervisor, SinkCommitProofs

-----------------------------------------------------------------------------
(* The steps of the composition: the agent's, the network's, and those of a *)
(* child or a parent, which leave the agent alone.                          *)

AgentMoves == Agent /\ UNCHANGED parentVars
Errs(r) == \E p \in Parties : TransportError(p, r) /\ UNCHANGED parentVars
Calls(r) == StartRun(r) \/ ChildStep(r) \/ ParentStep(r) \/ Release(r) \/ Errs(r)

LEMMA SuperMoves == SuperNext => AgentMoves \/ \E r \in Runs : Calls(r)
BY DEF SuperNext, AgentMoves, Calls, Errs

LEMMA ChildStays ==
    ASSUME NEW r \in Runs, Step(r) \/ Killed(r) \/ Open(r) \/ FailBeforeOpen(r)
    PROVE  UNCHANGED sinkVars
<1>1. CASE Open(r) \/ FailBeforeOpen(r) \/ Killed(r)
  BY <1>1 DEF Open, FailBeforeOpen, Killed
<1>2. CASE RangeCheck(r) \/ Opened(r) \/ OpenFailed(r) \/ PushNext(r) \/ BatchAcked(r)
  BY <1>2 DEF RangeCheck, Opened, OpenFailed, PushNext, BatchAcked
<1>3. CASE FailStreaming(r) \/ AbortAnswered(r) \/ Drained(r) \/ Commit(r) \/ Committed(r)
  BY <1>3 DEF FailStreaming, AbortAnswered, Drained, Commit, Committed
<1>4. CASE CommitRefused(r) \/ AskWhatHappened(r) \/ Diagnosed(r) \/ Finish(r)
  BY <1>4 DEF CommitRefused, AskWhatHappened, Diagnosed, Finish
<1> QED BY <1>1, <1>2, <1>3, <1>4 DEF Step

LEMMA CallsLeaveAgent ==
    ASSUME NEW r \in Runs, Calls(r) PROVE UNCHANGED sinkVars
<1>1. CASE StartRun(r) \/ ChildStep(r)
  BY <1>1, ChildStays DEF StartRun, ChildStep
<1>2. CASE ParentStep(r)
  BY <1>2 DEF ParentStep, ReapEnded, AbortOnBehalf, ReapPastSeal, OnBehalfAnswered, Settle,
              allVars, sinkVars
<1>3. CASE Release(r) \/ Errs(r)
  BY <1>3 DEF Release, Errs, TransportError
<1> QED BY <1>1, <1>2, <1>3 DEF Calls

\* The requests on their way are such as the agent takes.
Askable == \A m \in net : /\ m \in Request
                          /\ m.op = "push" => m.arg \in 1..MaxBatches

\* Every step of the composition is a step of the agent alone, or leaves it alone.
LEMMA AgentStep ==
    ASSUME Askable, [SuperNext]_superVars PROVE [Next]_vars
<1>1. ASSUME NEW w \in Workers, NEW m \in net, Deliver(w, m) PROVE Next
  <2>1. m.run \in Runs /\ m.arg \in 0..MaxBatches /\ (m.op = "push" => m.arg \in 1..MaxBatches)
    BY DEF Askable, Request
  <2>2. Receive(w, m.run)
    <3>1. CASE m.op = "push"
      BY <1>1, <2>1, <3>1 DEF Deliver, Handle, Receive
    <3>2. CASE m.op # "push"
      BY <1>1, <2>1, <3>2 DEF Deliver, Handle, Receive
    <3> QED BY <3>1, <3>2
  <2> QED BY <2>1, <2>2 DEF Next
<1>2. ASSUME NEW w \in Workers, Serve(w) \/ DeliverAnswer(w) PROVE Next
  BY <1>2 DEF Serve, DeliverAnswer, Next
<1>3. CASE AgentRestart
  BY <1>3 DEF AgentRestart, Next
<1>4. CASE AgentMoves
  BY <1>1, <1>2, <1>3, <1>4 DEF AgentMoves, Agent
<1>5. CASE \E r \in Runs : Calls(r)
  BY <1>5, CallsLeaveAgent DEF sinkVars
<1>6. CASE UNCHANGED superVars
  BY <1>6 DEF superVars, allVars
<1> QED BY <1>4, <1>5, <1>6, SuperMoves

-----------------------------------------------------------------------------
(* The phases of a child.  Types and phases are kept together: that a batch  *)
(* is pushed only while one is left bounds what the child may ask for.       *)

\* The run is past its COMMITTING line; it was opened; its abort may be sent.
Sealing(r) == \/ child[r].stage \in {"COMMITTING", "SUCCEEDED"}
              \/ child[r].stage = "FAILED" /\ child[r].failedIn = "COMMITTING"
Streamed(r) == \/ child[r].stage \in {"STREAMING", "COMMITTING", "SUCCEEDED"}
               \/ child[r].stage = "FAILED" /\ child[r].failedIn # "PREPARING"
Aborted(r) == child[r].doing \in {"aborting", "closing", "ended", "dead"} /\ ~Sealing(r)

PhaseOf(c, seen) ==
    /\ c.acked <= c.size
    /\ c.doing = "pushing" => c.acked < c.size
    /\ c.doing \in {"new", "opening"} => c.stage = "PREPARING" /\ c.acked = 0
    /\ c.doing \in {"fetching", "pushing", "aborting"} => c.stage = "STREAMING"
    /\ c.doing \in {"drained", "committing", "diagnosing"} => c.stage = "COMMITTING"
    /\ c.doing \in {"closing", "ended"} => c.stage \in {"SUCCEEDED", "FAILED"}
    /\ c.stage # "FAILED" => c.failedIn = "PREPARING"
    /\ c.failedIn \in {"PREPARING", "STREAMING", "COMMITTING"}
    /\ c.stage \in {"COMMITTING", "SUCCEEDED"} \/ c.failedIn = "COMMITTING" => c.acked = c.size
    /\ c.abortFailed => c.failedIn = "STREAMING"
    /\ seen = "none" <=> c.doing = "new"
    /\ seen = "aborting" => c.doing = "dead" /\ AbortAllowed(c.stage)
    /\ seen = "done" => c.doing \in {"ended", "dead"}
PhaseInv == \A r \in Runs : PhaseOf(child[r], watch[r])

\* A party waits for an answer only where it asked for something.
WaitInv ==
    \A r \in Runs :
        /\ Got(r) = "waiting" =>
               child[r].doing \in {"opening", "pushing", "aborting", "committing", "diagnosing"}
        /\ ParentGot(r) = "waiting" => watch[r] = "aborting" \/ r \in retrying
        /\ r \in stuck => watch[r] = "done"

STInv == SuperTypeOK /\ Askable /\ PhaseInv /\ WaitInv

\* What a step leaves of the run's child, its parent's watch, and what the two have heard.
Becomes(r, new, seen) ==
    /\ child' = [child EXCEPT ![r] = new]
    /\ watch' = [watch EXCEPT ![r] = seen]
Same(r) == child' = child /\ watch' = watch

LEMMA BecomesPhase ==
    ASSUME STInv, NEW r \in Runs, NEW new \in Child,
           NEW seen \in {"none", "supervising", "aborting", "done"},
           PhaseOf(new, seen), Becomes(r, new, seen)
    PROVE  /\ child' \in [Runs -> Child]
           /\ watch' \in [Runs -> {"none", "supervising", "aborting", "done"}]
           /\ PhaseInv'
           /\ child'[r] = new /\ watch'[r] = seen
           /\ \A q \in Runs \ {r} : child'[q] = child[q] /\ watch'[q] = watch[q]
<1>1. child \in [Runs -> Child] /\ watch \in [Runs -> {"none", "supervising", "aborting", "done"}]
  BY DEF STInv, SuperTypeOK, TransferTypeOK
<1>2. child'[r] = new /\ watch'[r] = seen
  BY <1>1 DEF Becomes
<1>3. \A q \in Runs \ {r} : child'[q] = child[q] /\ watch'[q] = watch[q]
  BY <1>1 DEF Becomes
<1>4. \A q \in Runs : PhaseOf(child'[q], watch'[q])
  BY <1>2, <1>3 DEF STInv, PhaseInv
<1>5. child' \in [Runs -> Child] /\ watch' \in [Runs -> {"none", "supervising", "aborting", "done"}]
  BY <1>1 DEF Becomes
<1> QED BY <1>2, <1>3, <1>4, <1>5 DEF PhaseInv

NetTyped == /\ net' \subseteq Request /\ Askable'
            /\ party' \in [Workers -> Parties \cup {"nobody"}]
            /\ heard' \in [Runs -> [Parties -> Heard]]

\* Who hears what.
Hears(p, r, answer) == heard' = [heard EXCEPT ![r][p] = answer]

LEMMA HearsType ==
    ASSUME STInv, NEW p \in Parties, NEW r \in Runs, NEW answer \in Heard, Hears(p, r, answer)
    PROVE  /\ heard' \in [Runs -> [Parties -> Heard]] /\ heard'[r][p] = answer
           /\ \A q \in Runs, o \in Parties : q # r \/ o # p => heard'[q][o] = heard[q][o]
BY DEF STInv, SuperTypeOK, TransferTypeOK, Hears

LEMMA SendType ==
    ASSUME STInv, NEW p \in Parties, NEW op \in Ops, NEW r \in Runs, NEW arg \in 0..MaxBatches,
           op = "push" => arg \in 1..MaxBatches, Send(p, op, r, arg)
    PROVE  NetTyped /\ Hears(p, r, "waiting")
<1> DEFINE m == [party |-> p, op |-> op, run |-> r, arg |-> arg]
<1>1. m \in Request /\ (m.op = "push" => m.arg \in 1..MaxBatches)
  BY DEF Request
<1>2. net' = net \cup {m} /\ Hears(p, r, "waiting") /\ party' = party
  BY DEF Send, Hears
<1>3. "waiting" \in Heard
  BY DEF Heard
<1> HIDE DEF m
<1>4. heard' \in [Runs -> [Parties -> Heard]]
  BY <1>2, <1>3, HearsType
<1> QED BY <1>1, <1>2, <1>4 DEF NetTyped, STInv, SuperTypeOK, TransferTypeOK, Askable

LEMMA HushType ==
    ASSUME STInv, NEW p \in Parties, NEW r \in Runs, Hush(p, r)
    PROVE  NetTyped /\ Hears(p, r, "quiet")
<1>1. net' = net /\ party' = party /\ Hears(p, r, "quiet")
  BY DEF Hush, Hears
<1>2. "quiet" \in Heard
  BY DEF Heard
<1>3. heard' \in [Runs -> [Parties -> Heard]]
  BY <1>1, <1>2, HearsType
<1> QED BY <1>1, <1>3 DEF NetTyped, STInv, SuperTypeOK, TransferTypeOK, Askable

LEMMA ForgetType ==
    ASSUME STInv, NEW p \in Parties, NEW r \in Runs, NEW answer \in Heard,
           Forget(p, r), Hears(p, r, answer)
    PROVE  NetTyped
<1>1. net \subseteq Request /\ party \in [Workers -> Parties \cup {"nobody"}] /\ Askable
  BY DEF STInv, SuperTypeOK, TransferTypeOK
<1>2. ASSUME NEW m \in net' PROVE m \in Request /\ (m.op = "push" => m.arg \in 1..MaxBatches)
  <2>1. CASE m \in net
    BY <1>1, <2>1 DEF Askable
  <2>2. CASE m \notin net
    <3>1. PICK n \in net : m = [n EXCEPT !.party = "nobody"]
      BY <2>2 DEF Forget, Abandoned
    <3>2. n \in Request /\ (n.op = "push" => n.arg \in 1..MaxBatches)
      BY <1>1 DEF Askable
    <3>3. m \in Request
      BY <3>1, <3>2 DEF Request
    <3>4. m.op = n.op /\ m.arg = n.arg
      BY <3>1, <3>2 DEF Request
    <3> QED BY <3>2, <3>3, <3>4
  <2> QED BY <2>1, <2>2
<1>4. net' \subseteq Request /\ Askable'
  BY <1>2 DEF Askable
<1>5. party' \in [Workers -> Parties \cup {"nobody"}]
  BY <1>1 DEF Forget
<1>6. heard' \in [Runs -> [Parties -> Heard]]
  BY HearsType
<1> QED BY <1>4, <1>5, <1>6 DEF NetTyped

-----------------------------------------------------------------------------
(* Types and phases hold after each step of a child and of a parent. *)

Waits == {"opening", "pushing", "aborting", "committing", "diagnosing"}

\* A step of a run's child or the start of one.
LEMMA ChildTypes ==
    ASSUME STInv, NEW r \in Runs, watch[r] \in {"none", "supervising"}, NEW new \in Child,
           PhaseOf(new, "supervising"), Becomes(r, new, "supervising"), NetTyped,
           NEW answer \in Heard, Hears("child", r, answer),
           answer = "waiting" => new.doing \in Waits,
           history' \in [Runs -> History], UNCHANGED <<stuck, retrying>>
    PROVE  STInv'
<1>1. /\ child' \in [Runs -> Child] /\ child'[r] = new
      /\ watch' \in [Runs -> {"none", "supervising", "aborting", "done"}] /\ PhaseInv'
      /\ watch'[r] = "supervising"
      /\ \A q \in Runs \ {r} : child'[q] = child[q] /\ watch'[q] = watch[q]
  BY BecomesPhase
<1>2. /\ heard'[r]["child"] = answer
      /\ \A q \in Runs \ {r} : heard'[q]["child"] = heard[q]["child"]
      /\ \A q \in Runs : heard'[q]["parent"] = heard[q]["parent"]
  BY HearsType DEF Parties
<1>3. r \notin stuck /\ r \notin retrying /\ heard[r]["parent"] # "waiting"
  BY DEF STInv, WaitInv, ParentGot, SuperTypeOK
<1>4. WaitInv'
  <2> SUFFICES ASSUME NEW q \in Runs
               PROVE  /\ Got(q)' = "waiting" => child'[q].doing \in Waits
                      /\ ParentGot(q)' = "waiting" => watch'[q] = "aborting" \/ q \in retrying'
                      /\ q \in stuck' => watch'[q] = "done"
    BY DEF WaitInv, Waits
  <2>1. CASE q = r
    BY <1>1, <1>2, <1>3, <2>1 DEF Got, ParentGot
  <2>2. CASE q # r
    BY <1>1, <1>2, <2>2 DEF Got, ParentGot, STInv, WaitInv, Waits
  <2> QED BY <2>1, <2>2
<1> QED BY <1>1, <1>4 DEF STInv, SuperTypeOK, TransferTypeOK, NetTyped

\* The child of a run that has one, as a record and with its phase.
LEMMA ChildIs ==
    ASSUME STInv, NEW r \in Runs
    PROVE  child[r] \in Child /\ PhaseOf(child[r], watch[r]) /\ heard[r]["child"] \in Heard
           /\ heard[r]["parent"] \in Heard /\ history[r] \in History
BY DEF STInv, SuperTypeOK, TransferTypeOK, PhaseInv, Parties

\* What a child's step makes of it, and what it hears then.
Turns(r, new, answer) ==
    /\ new \in Child /\ PhaseOf(new, "supervising")
    /\ child' = [child EXCEPT ![r] = new]
    /\ NetTyped /\ answer \in Heard /\ Hears("child", r, answer)
    /\ answer = "waiting" => new.doing \in Waits
    /\ history' \in [Runs -> History]

Turned(r) == \E new \in Child, answer \in Heard : Turns(r, new, answer)

LEMMA Unheard ==
    ASSUME STInv, NEW r \in Runs, UNCHANGED <<net, party, heard>>
    PROVE  NetTyped /\ Hears("child", r, Got(r)) /\ Got(r) \in Heard
BY DEF NetTyped, Hears, Got, STInv, SuperTypeOK, TransferTypeOK, Askable, Parties

LEMMA OpenTurns ==
    ASSUME STInv, NEW r \in Runs, Open(r) PROVE Turned(r)
<1> DEFINE new == [child[r] EXCEPT !.doing = "opening", !.stage = "PREPARING"]
<1>1. child[r] \in Child /\ PhaseOf(child[r], watch[r]) /\ Got(r) \in Heard /\ child[r].doing = "new"
  BY ChildIs DEF Open, Doing, Got
<1>2. new \in Child
  BY <1>1 DEF Child, Doings, Stages, Parties
<1>3. PhaseOf(new, "supervising")
  BY <1>1 DEF Child, PhaseOf
<1>4. child' = [child EXCEPT ![r] = new] /\ Send("child", "open", r, 0) /\ history' = history
  BY DEF Open, Enter
<1>5. NetTyped /\ Hears("child", r, "waiting")
  BY <1>1, <1>4, SendType, BoundAssumption DEF Parties, Ops, Child, PhaseOf
<1>6. new.doing \in Waits /\ "waiting" \in Heard
  BY <1>1 DEF Waits, Heard, Child
<1> HIDE DEF new
<1>7. Turns(r, new, "waiting")
  BY <1>2, <1>3, <1>4, <1>5, <1>6 DEF Turns, STInv, SuperTypeOK, TransferTypeOK
<1> QED BY <1>1, <1>2, <1>5, <1>6, <1>7 DEF Turned

LEMMA FailBeforeOpenTurns ==
    ASSUME STInv, NEW r \in Runs, FailBeforeOpen(r) PROVE Turned(r)
<1> DEFINE new == [child[r] EXCEPT !.doing = "closing", !.stage = "FAILED", !.failedIn = "PREPARING", !.code = Got(r)]
<1>1. child[r] \in Child /\ PhaseOf(child[r], watch[r]) /\ Got(r) \in Heard /\ child[r].doing = "new"
  BY ChildIs DEF FailBeforeOpen, Doing, Got
<1>2. new \in Child
  BY <1>1 DEF Child, Doings, Stages, Parties
<1>3. PhaseOf(new, "supervising")
  BY <1>1 DEF Child, PhaseOf
<1>4. child' = [child EXCEPT ![r] = new] /\ history' = history
  BY DEF FailBeforeOpen, Enter, Fail, Got
<1>5. NetTyped /\ Hears("child", r, Got(r)) /\ Got(r) \in Heard /\ Got(r) # "waiting"
  BY Unheard DEF FailBeforeOpen, STInv, WaitInv, Doing
<1> HIDE DEF new
<1>7. Turns(r, new, Got(r))
  BY <1>2, <1>3, <1>4, <1>5 DEF Turns, STInv, SuperTypeOK, TransferTypeOK
<1> QED BY <1>1, <1>2, <1>5, <1>7 DEF Turned

LEMMA OpenedTurns ==
    ASSUME STInv, NEW r \in Runs, Opened(r) PROVE Turned(r)
<1> DEFINE new == [child[r] EXCEPT !.doing = "fetching", !.stage = "STREAMING"]
<1>1. child[r] \in Child /\ PhaseOf(child[r], watch[r]) /\ Got(r) \in Heard /\ child[r].doing = "opening"
  BY ChildIs DEF Opened, Doing, Got
<1>2. new \in Child
  BY <1>1 DEF Child, Doings, Stages, Parties
<1>3. PhaseOf(new, "supervising")
  BY <1>1 DEF Child, PhaseOf
<1>4. child' = [child EXCEPT ![r] = new] /\ Hush("child", r) /\ history' = history
  BY DEF Opened, Enter, Fail, Got
<1>5. NetTyped /\ Hears("child", r, "quiet")
  BY <1>4, HushType DEF Parties
<1>6. "quiet" \in Heard
  BY DEF Heard
<1> HIDE DEF new
<1>7. Turns(r, new, "quiet")
  BY <1>2, <1>3, <1>4, <1>5, <1>6 DEF Turns, STInv, SuperTypeOK, TransferTypeOK
<1> QED BY <1>1, <1>2, <1>5, <1>6, <1>7 DEF Turned

LEMMA OpenFailedTurns ==
    ASSUME STInv, NEW r \in Runs, OpenFailed(r) PROVE Turned(r)
<1> DEFINE new == [child[r] EXCEPT !.doing = "closing", !.stage = "FAILED", !.failedIn = "PREPARING", !.code = Got(r)]
<1>1. child[r] \in Child /\ PhaseOf(child[r], watch[r]) /\ Got(r) \in Heard /\ child[r].doing = "opening"
  BY ChildIs DEF OpenFailed, Doing, Got
<1>2. new \in Child
  BY <1>1 DEF Child, Doings, Stages, Parties
<1>3. PhaseOf(new, "supervising")
  BY <1>1 DEF Child, PhaseOf
<1>4. child' = [child EXCEPT ![r] = new] /\ Hush("child", r) /\ history' = history
  BY DEF OpenFailed, Enter, Fail, Got
<1>5. NetTyped /\ Hears("child", r, "quiet")
  BY <1>4, HushType DEF Parties
<1>6. "quiet" \in Heard
  BY DEF Heard
<1> HIDE DEF new
<1>7. Turns(r, new, "quiet")
  BY <1>2, <1>3, <1>4, <1>5, <1>6 DEF Turns, STInv, SuperTypeOK, TransferTypeOK
<1> QED BY <1>1, <1>2, <1>5, <1>6, <1>7 DEF Turned

LEMMA PushNextTurns ==
    ASSUME STInv, NEW r \in Runs, PushNext(r) PROVE Turned(r)
<1> DEFINE new == [child[r] EXCEPT !.doing = "pushing"]
<1>1. child[r] \in Child /\ PhaseOf(child[r], watch[r]) /\ Got(r) \in Heard
      /\ child[r].doing = "fetching" /\ child[r].acked < child[r].size
  BY ChildIs DEF PushNext, Doing, Got
<1>2. new \in Child
  BY <1>1 DEF Child, Doings, Stages, Parties
<1>3. PhaseOf(new, "supervising")
  BY <1>1 DEF Child, PhaseOf
<1>4. child' = [child EXCEPT ![r] = new] /\ Send("child", "push", r, child[r].acked + 1) /\ history' = history
  BY DEF PushNext, Enter
<1>5. NetTyped /\ Hears("child", r, "waiting")
  BY <1>1, <1>4, SendType, BoundAssumption DEF Parties, Ops, Child, PhaseOf
<1>6. new.doing \in Waits /\ "waiting" \in Heard
  BY <1>1 DEF Waits, Heard, Child
<1> HIDE DEF new
<1>7. Turns(r, new, "waiting")
  BY <1>2, <1>3, <1>4, <1>5, <1>6 DEF Turns, STInv, SuperTypeOK, TransferTypeOK
<1> QED BY <1>1, <1>2, <1>5, <1>6, <1>7 DEF Turned

LEMMA BatchAckedTurns ==
    ASSUME STInv, NEW r \in Runs, BatchAcked(r) PROVE Turned(r)
<1> DEFINE new == [child[r] EXCEPT !.doing = "fetching", !.acked = child[r].acked + 1]
<1>1. child[r] \in Child /\ PhaseOf(child[r], watch[r]) /\ Got(r) \in Heard /\ child[r].doing = "pushing"
  BY ChildIs DEF BatchAcked, Doing, Got
<1>0. child[r].acked + 1 \in 0..MaxBatches
  BY <1>1, BoundAssumption DEF PhaseOf, Child
<1>2. new \in Child
  BY <1>1, <1>0 DEF Child, Doings, Stages, Parties
<1>3. PhaseOf(new, "supervising")
  BY <1>1 DEF Child, PhaseOf
<1>4. child' = [child EXCEPT ![r] = new] /\ Hush("child", r) /\ history' = history
  BY DEF BatchAcked, Enter, Fail, Got
<1>5. NetTyped /\ Hears("child", r, "quiet")
  BY <1>4, HushType DEF Parties
<1>6. "quiet" \in Heard
  BY DEF Heard
<1> HIDE DEF new
<1>7. Turns(r, new, "quiet")
  BY <1>2, <1>3, <1>4, <1>5, <1>6 DEF Turns, STInv, SuperTypeOK, TransferTypeOK
<1> QED BY <1>1, <1>2, <1>5, <1>6, <1>7 DEF Turned

LEMMA AbortAnsweredTurns ==
    ASSUME STInv, NEW r \in Runs, AbortAnswered(r) PROVE Turned(r)
<1> DEFINE new == [child[r] EXCEPT !.doing = "closing", !.stage = "FAILED", !.failedIn = "STREAMING", !.abortFailed = ~Released(Got(r))]
<1>1. child[r] \in Child /\ PhaseOf(child[r], watch[r]) /\ Got(r) \in Heard /\ child[r].doing = "aborting"
  BY ChildIs DEF AbortAnswered, Doing, Got
<1>2. new \in Child
  BY <1>1 DEF Child, Doings, Stages, Parties
<1>3. PhaseOf(new, "supervising")
  BY <1>1 DEF Child, PhaseOf
<1>4. child' = [child EXCEPT ![r] = new] /\ Hush("child", r) /\ history' = history
  BY DEF AbortAnswered, Enter, Fail, Got
<1>5. NetTyped /\ Hears("child", r, "quiet")
  BY <1>4, HushType DEF Parties
<1>6. "quiet" \in Heard
  BY DEF Heard
<1> HIDE DEF new
<1>7. Turns(r, new, "quiet")
  BY <1>2, <1>3, <1>4, <1>5, <1>6 DEF Turns, STInv, SuperTypeOK, TransferTypeOK
<1> QED BY <1>1, <1>2, <1>5, <1>6, <1>7 DEF Turned

LEMMA DrainedTurns ==
    ASSUME STInv, NEW r \in Runs, Drained(r) PROVE Turned(r)
<1> DEFINE new == [child[r] EXCEPT !.doing = "drained", !.stage = "COMMITTING"]
<1>1. child[r] \in Child /\ PhaseOf(child[r], watch[r]) /\ Got(r) \in Heard
      /\ child[r].doing = "fetching" /\ child[r].acked = child[r].size
  BY ChildIs DEF Drained, Doing, Got
<1>2. new \in Child
  BY <1>1 DEF Child, Doings, Stages, Parties
<1>3. PhaseOf(new, "supervising")
  BY <1>1 DEF Child, PhaseOf
<1>4. child' = [child EXCEPT ![r] = new] /\ history' = history
  BY DEF Drained, Enter, Fail, Got
<1>5. NetTyped /\ Hears("child", r, Got(r)) /\ Got(r) \in Heard /\ Got(r) # "waiting"
  BY Unheard DEF Drained, STInv, WaitInv, Doing
<1> HIDE DEF new
<1>7. Turns(r, new, Got(r))
  BY <1>2, <1>3, <1>4, <1>5 DEF Turns, STInv, SuperTypeOK, TransferTypeOK
<1> QED BY <1>1, <1>2, <1>5, <1>7 DEF Turned

LEMMA CommitTurns ==
    ASSUME STInv, NEW r \in Runs, Commit(r) PROVE Turned(r)
<1> DEFINE new == [child[r] EXCEPT !.doing = "committing"]
<1>1. child[r] \in Child /\ PhaseOf(child[r], watch[r]) /\ Got(r) \in Heard /\ child[r].doing = "drained"
  BY ChildIs DEF Commit, Doing, Got
<1>2. new \in Child
  BY <1>1 DEF Child, Doings, Stages, Parties
<1>3. PhaseOf(new, "supervising")
  BY <1>1 DEF Child, PhaseOf
<1>4. child' = [child EXCEPT ![r] = new] /\ Send("child", "commit", r, child[r].acked) /\ history' = history
  BY DEF Commit, Enter
<1>5. NetTyped /\ Hears("child", r, "waiting")
  BY <1>1, <1>4, SendType, BoundAssumption DEF Parties, Ops, Child, PhaseOf
<1>6. new.doing \in Waits /\ "waiting" \in Heard
  BY <1>1 DEF Waits, Heard, Child
<1> HIDE DEF new
<1>7. Turns(r, new, "waiting")
  BY <1>2, <1>3, <1>4, <1>5, <1>6 DEF Turns, STInv, SuperTypeOK, TransferTypeOK
<1> QED BY <1>1, <1>2, <1>5, <1>6, <1>7 DEF Turned

LEMMA CommittedTurns ==
    ASSUME STInv, NEW r \in Runs, Committed(r) PROVE Turned(r)
<1> DEFINE new == [child[r] EXCEPT !.doing = "closing", !.stage = "SUCCEEDED"]
<1>1. child[r] \in Child /\ PhaseOf(child[r], watch[r]) /\ Got(r) \in Heard /\ child[r].doing = "committing"
  BY ChildIs DEF Committed, Doing, Got
<1>2. new \in Child
  BY <1>1 DEF Child, Doings, Stages, Parties
<1>3. PhaseOf(new, "supervising")
  BY <1>1 DEF Child, PhaseOf
<1>4. child' = [child EXCEPT ![r] = new] /\ Hush("child", r) /\ history' = history
  BY DEF Committed, Enter, Fail, Got
<1>5. NetTyped /\ Hears("child", r, "quiet")
  BY <1>4, HushType DEF Parties
<1>6. "quiet" \in Heard
  BY DEF Heard
<1> HIDE DEF new
<1>7. Turns(r, new, "quiet")
  BY <1>2, <1>3, <1>4, <1>5, <1>6 DEF Turns, STInv, SuperTypeOK, TransferTypeOK
<1> QED BY <1>1, <1>2, <1>5, <1>6, <1>7 DEF Turned

LEMMA CommitRefusedTurns ==
    ASSUME STInv, NEW r \in Runs, CommitRefused(r) PROVE Turned(r)
<1> DEFINE new == [child[r] EXCEPT !.doing = "closing", !.stage = "FAILED", !.failedIn = "COMMITTING", !.code = Got(r)]
<1>1. child[r] \in Child /\ PhaseOf(child[r], watch[r]) /\ Got(r) \in Heard /\ child[r].doing = "committing"
  BY ChildIs DEF CommitRefused, Doing, Got
<1>2. new \in Child
  BY <1>1 DEF Child, Doings, Stages, Parties
<1>3. PhaseOf(new, "supervising")
  BY <1>1 DEF Child, PhaseOf
<1>4. child' = [child EXCEPT ![r] = new] /\ Hush("child", r) /\ history' = history
  BY DEF CommitRefused, Enter, Fail, Got
<1>5. NetTyped /\ Hears("child", r, "quiet")
  BY <1>4, HushType DEF Parties
<1>6. "quiet" \in Heard
  BY DEF Heard
<1> HIDE DEF new
<1>7. Turns(r, new, "quiet")
  BY <1>2, <1>3, <1>4, <1>5, <1>6 DEF Turns, STInv, SuperTypeOK, TransferTypeOK
<1> QED BY <1>1, <1>2, <1>5, <1>6, <1>7 DEF Turned

LEMMA AskWhatHappenedTurns ==
    ASSUME STInv, NEW r \in Runs, AskWhatHappened(r) PROVE Turned(r)
<1> DEFINE new == [child[r] EXCEPT !.doing = "diagnosing", !.code = "TRANSPORT"]
<1>1. child[r] \in Child /\ PhaseOf(child[r], watch[r]) /\ Got(r) \in Heard /\ child[r].doing = "committing"
  BY ChildIs DEF AskWhatHappened, Doing, Got
<1>2. new \in Child
  BY <1>1 DEF Child, Doings, Stages, Parties, Heard
<1>3. PhaseOf(new, "supervising")
  BY <1>1 DEF Child, PhaseOf
<1>4. child' = [child EXCEPT ![r] = new] /\ Send("child", "get", r, 0) /\ history' = history
  BY DEF AskWhatHappened, Enter
<1>5. NetTyped /\ Hears("child", r, "waiting")
  BY <1>1, <1>4, SendType, BoundAssumption DEF Parties, Ops, Child, PhaseOf
<1>6. new.doing \in Waits /\ "waiting" \in Heard
  BY <1>1 DEF Waits, Heard, Child
<1> HIDE DEF new
<1>7. Turns(r, new, "waiting")
  BY <1>2, <1>3, <1>4, <1>5, <1>6 DEF Turns, STInv, SuperTypeOK, TransferTypeOK
<1> QED BY <1>1, <1>2, <1>5, <1>6, <1>7 DEF Turned

LEMMA RangeCheckTurns ==
    ASSUME STInv, NEW r \in Runs, RangeCheck(r), watch[r] = "supervising" PROVE Turned(r)
<1>1. child[r] \in Child /\ PhaseOf(child[r], watch[r]) /\ child[r].doing = "opening"
  BY ChildIs DEF RangeCheck, Doing
<1>2. /\ child' = child /\ history' = history /\ Send("child", "open", r, 0)
      /\ child \in [Runs -> Child]
  BY DEF RangeCheck, STInv, SuperTypeOK, TransferTypeOK
<1>3. child' = [child EXCEPT ![r] = child[r]]
  BY <1>2
<1>4. NetTyped /\ Hears("child", r, "waiting") /\ "waiting" \in Heard
  BY <1>2, SendType, BoundAssumption DEF Parties, Ops, Heard
<1>5. Turns(r, child[r], "waiting")
  BY <1>1, <1>2, <1>3, <1>4 DEF Turns, STInv, SuperTypeOK, TransferTypeOK, Waits
<1> QED BY <1>1, <1>4, <1>5 DEF Turned

LEMMA FailStreamingTurns ==
    ASSUME STInv, NEW r \in Runs, FailStreaming(r) PROVE Turned(r)
<1> DEFINE new == [child[r] EXCEPT !.doing = "aborting", !.code = Got(r)]
<1>1. child[r] \in Child /\ PhaseOf(child[r], watch[r]) /\ Got(r) \in Heard
      /\ child[r].doing \in {"fetching", "pushing"}
  BY ChildIs DEF FailStreaming, Doing, Got
<1>2. new \in Child
  BY <1>1 DEF Child, Doings, Stages, Parties
<1>3. PhaseOf(new, "supervising")
  BY <1>1 DEF Child, PhaseOf
<1>4. child' = [child EXCEPT ![r] = new] /\ Send("child", "abort", r, 0) /\ history' = history
  BY DEF FailStreaming, Got
<1>5. NetTyped /\ Hears("child", r, "waiting")
  BY <1>1, <1>4, SendType, BoundAssumption DEF Parties, Ops
<1>6. new.doing \in Waits /\ "waiting" \in Heard
  BY <1>1 DEF Waits, Heard, Child
<1> HIDE DEF new
<1>7. Turns(r, new, "waiting")
  BY <1>2, <1>3, <1>4, <1>5, <1>6 DEF Turns, STInv, SuperTypeOK, TransferTypeOK
<1> QED BY <1>1, <1>2, <1>5, <1>6, <1>7 DEF Turned

LEMMA DiagnosedTurns ==
    ASSUME STInv, NEW r \in Runs, Diagnosed(r) PROVE Turned(r)
<1> DEFINE new == [child[r] EXCEPT !.doing = "closing", !.stage = "FAILED", !.failedIn = "COMMITTING"]
           told == [history[r] EXCEPT !.effect = Verdict(Got(r))]
<1>1. child[r] \in Child /\ PhaseOf(child[r], watch[r]) /\ history[r] \in History
      /\ child[r].doing = "diagnosing"
  BY ChildIs DEF Diagnosed, Doing
<1>2. new \in Child
  BY <1>1 DEF Child, Doings, Stages
<1>3. PhaseOf(new, "supervising")
  BY <1>1 DEF Child, PhaseOf
<1>4. /\ child' = [child EXCEPT ![r] = new] /\ Hush("child", r)
      /\ history' = [history EXCEPT ![r] = told]
  BY DEF Diagnosed
<1>5. told \in History
  BY <1>1 DEF History, Effects, Verdict
<1>6. NetTyped /\ Hears("child", r, "quiet") /\ "quiet" \in Heard
  BY <1>4, HushType DEF Parties, Heard
<1> HIDE DEF new, told
<1>7. history' \in [Runs -> History]
  BY <1>4, <1>5 DEF STInv, SuperTypeOK, TransferTypeOK
<1>8. Turns(r, new, "quiet")
  BY <1>2, <1>3, <1>4, <1>6, <1>7 DEF Turns
<1> QED BY <1>2, <1>6, <1>8 DEF Turned

LEMMA FoldedEffects == ASSUME NEW r \in Runs PROVE FoldedEffect(r) \in Effects
BY DEF FoldedEffect, Effects, SwappedTerminal, Terminals

LEMMA FinishTurns ==
    ASSUME STInv, NEW r \in Runs, Finish(r) PROVE Turned(r)
<1> DEFINE new == [child[r] EXCEPT !.doing = "ended"]
           told == [history[r] EXCEPT !.outcome = child[r].stage,
                                      !.effect = IF @ = "none" THEN FoldedEffect(r) ELSE @]
<1>1. child[r] \in Child /\ PhaseOf(child[r], watch[r]) /\ history[r] \in History
      /\ child[r].doing = "closing"
  BY ChildIs DEF Finish, Doing
<1>2. new \in Child
  BY <1>1 DEF Child, Doings, Stages
<1>3. PhaseOf(new, "supervising")
  BY <1>1 DEF Child, PhaseOf
<1>4. /\ child' = [child EXCEPT ![r] = new] /\ UNCHANGED <<net, party, heard>>
      /\ history' = [history EXCEPT ![r] = told]
  BY DEF Finish
<1>5. told \in History
  BY <1>1, FoldedEffects DEF History, PhaseOf, Child
<1>6. NetTyped /\ Hears("child", r, Got(r)) /\ Got(r) \in Heard
  BY <1>4, Unheard
<1>7. Got(r) # "waiting"
  BY <1>1 DEF STInv, WaitInv
<1> HIDE DEF new, told
<1>8. history' \in [Runs -> History]
  BY <1>4, <1>5 DEF STInv, SuperTypeOK, TransferTypeOK
<1>9. Turns(r, new, Got(r))
  BY <1>2, <1>3, <1>4, <1>6, <1>7, <1>8 DEF Turns
<1> QED BY <1>2, <1>6, <1>9 DEF Turned

LEMMA KilledTurns ==
    ASSUME STInv, NEW r \in Runs, Killed(r), watch[r] = "supervising" PROVE Turned(r)
<1> DEFINE new == [child[r] EXCEPT !.doing = "dead"]
<1>1. child[r] \in Child /\ PhaseOf(child[r], watch[r]) /\ child[r].doing \notin {"new", "ended", "dead"}
  BY ChildIs DEF Killed
<1>2. new \in Child
  BY <1>1 DEF Child, Doings
<1>3. PhaseOf(new, "supervising")
  BY <1>1 DEF Child, PhaseOf
<1>4. /\ child' = [child EXCEPT ![r] = new] /\ Forget("child", r) /\ Hears("child", r, "quiet")
      /\ history' = history /\ "quiet" \in Heard
  BY DEF Killed, Hears, Heard
<1>5. NetTyped
  BY <1>4, ForgetType DEF Parties
<1> HIDE DEF new
<1>6. Turns(r, new, "quiet")
  BY <1>2, <1>3, <1>4, <1>5 DEF Turns, STInv, SuperTypeOK, TransferTypeOK
<1> QED BY <1>2, <1>4, <1>6 DEF Turned

LEMMA ChildStepTypes ==
    ASSUME STInv, NEW r \in Runs, StartRun(r) \/ ChildStep(r)
    PROVE  STInv'
<1>1. watch \in [Runs -> {"none", "supervising", "aborting", "done"}]
  BY DEF STInv, SuperTypeOK
<1>2. /\ watch[r] \in {"none", "supervising"} /\ UNCHANGED <<stuck, retrying>>
      /\ watch' = [watch EXCEPT ![r] = "supervising"]
  BY <1>1 DEF StartRun, ChildStep, parentVars
<1>3. Turned(r)
  <2>1. CASE StartRun(r)
    BY <2>1, OpenTurns, FailBeforeOpenTurns DEF StartRun
  <2>2. CASE ChildStep(r)
    <3>1. watch[r] = "supervising" /\ (Step(r) \/ Killed(r))
      BY <2>2 DEF ChildStep
    <3>2. CASE RangeCheck(r) \/ Killed(r)
      BY <3>1, <3>2, RangeCheckTurns, KilledTurns
    <3>3. CASE Opened(r) \/ OpenFailed(r) \/ PushNext(r) \/ BatchAcked(r)
      BY <3>3, OpenedTurns, OpenFailedTurns, PushNextTurns, BatchAckedTurns
    <3>4. CASE FailStreaming(r) \/ AbortAnswered(r) \/ Drained(r) \/ Commit(r)
      BY <3>4, FailStreamingTurns, AbortAnsweredTurns, DrainedTurns, CommitTurns
    <3>5. CASE Committed(r) \/ CommitRefused(r) \/ AskWhatHappened(r)
      BY <3>5, CommittedTurns, CommitRefusedTurns, AskWhatHappenedTurns
    <3>6. CASE Diagnosed(r) \/ Finish(r)
      BY <3>6, DiagnosedTurns, FinishTurns
    <3> QED BY <3>1, <3>2, <3>3, <3>4, <3>5, <3>6 DEF Step
  <2> QED BY <2>1, <2>2
<1>4. PICK new \in Child, answer \in Heard : Turns(r, new, answer)
  BY <1>3 DEF Turned
<1>5. Becomes(r, new, "supervising")
  BY <1>2, <1>4 DEF Turns, Becomes
<1> QED BY <1>2, <1>4, <1>5, ChildTypes DEF Turns

\* A step of a run's parent.
LEMMA ParentTypes ==
    ASSUME STInv, NEW r \in Runs, NetTyped,
           NEW seen \in {"none", "supervising", "aborting", "done"},
           watch' = [watch EXCEPT ![r] = seen], child' = child, PhaseOf(child[r], seen),
           NEW answer \in Heard, Hears("parent", r, answer),
           answer = "waiting" => seen = "aborting" \/ r \in retrying',
           history' \in [Runs -> History], stuck' \subseteq Runs, retrying' \subseteq stuck',
           \A q \in Runs \ {r} : /\ q \in stuck' => q \in stuck
                                 /\ q \in retrying => q \in retrying',
           r \in stuck' => seen = "done"
    PROVE  STInv'
<1>1. /\ child \in [Runs -> Child]
      /\ watch \in [Runs -> {"none", "supervising", "aborting", "done"}]
  BY DEF STInv, SuperTypeOK, TransferTypeOK
<1>2. /\ watch' \in [Runs -> {"none", "supervising", "aborting", "done"}] /\ watch'[r] = seen
      /\ \A q \in Runs \ {r} : watch'[q] = watch[q]
  BY <1>1
<1>3. /\ heard'[r]["parent"] = answer
      /\ \A q \in Runs \ {r} : heard'[q]["parent"] = heard[q]["parent"]
      /\ \A q \in Runs : heard'[q]["child"] = heard[q]["child"]
  BY HearsType DEF Parties
<1>4. PhaseInv'
  BY <1>2 DEF STInv, PhaseInv
<1>5. WaitInv'
  <2> SUFFICES ASSUME NEW q \in Runs
               PROVE  /\ Got(q)' = "waiting" => child'[q].doing \in Waits
                      /\ ParentGot(q)' = "waiting" => watch'[q] = "aborting" \/ q \in retrying'
                      /\ q \in stuck' => watch'[q] = "done"
    BY DEF WaitInv, Waits
  <2>1. CASE q = r
    BY <1>2, <1>3, <2>1 DEF Got, ParentGot, STInv, WaitInv, Waits
  <2>2. CASE q # r
    BY <1>2, <1>3, <2>2 DEF Got, ParentGot, STInv, WaitInv, Waits
  <2> QED BY <2>1, <2>2
<1> QED BY <1>1, <1>2, <1>4, <1>5 DEF STInv, SuperTypeOK, TransferTypeOK, NetTyped

LEMMA ParentStepTypes ==
    ASSUME STInv, NEW r \in Runs, ParentStep(r) \/ Release(r)
    PROVE  STInv'
<1>0. /\ stuck \subseteq Runs /\ retrying \subseteq stuck
      /\ child \in [Runs -> Child] /\ history \in [Runs -> History]
      /\ watch \in [Runs -> {"none", "supervising", "aborting", "done"}]
      /\ heard \in [Runs -> [Parties -> Heard]]
  BY DEF STInv, SuperTypeOK, TransferTypeOK
<1>1. /\ child[r] \in Child /\ PhaseOf(child[r], watch[r]) /\ heard[r]["parent"] \in Heard
      /\ heard[r]["parent"] = "waiting" => watch[r] = "aborting" \/ r \in retrying
      /\ r \in stuck => watch[r] = "done"
  BY ChildIs DEF STInv, WaitInv, ParentGot
<1>2. "waiting" \in Heard /\ "quiet" \in Heard /\ "parent" \in Parties /\ "abort" \in Ops
      /\ 0 \in 0..MaxBatches
  BY BoundAssumption DEF Heard, Parties, Ops
<1>3. MarkUnknown(r) => history' \in [Runs -> History]
  BY <1>0 DEF MarkUnknown, History, Effects
<1>4. CASE ReapEnded(r)
  <2>1. NetTyped /\ Hears("parent", r, heard[r]["parent"])
    BY <1>0, <1>1, <1>4 DEF ReapEnded, allVars, transferVars, NetTyped, Hears, STInv, SuperTypeOK,
       TransferTypeOK, Askable
  <2>2. PhaseOf(child[r], "done") /\ heard[r]["parent"] # "waiting" /\ retrying' = retrying
    BY <1>0, <1>1, <1>4 DEF ReapEnded, PhaseOf
  <2>3. /\ child' = child /\ history' = history /\ watch' = [watch EXCEPT ![r] = "done"]
        /\ stuck' = stuck \/ stuck' = stuck \cup {r}
    BY <1>4 DEF ReapEnded, allVars, transferVars
  <2> QED BY <1>0, <1>1, <2>1, <2>2, <2>3, ParentTypes
<1>5. CASE AbortOnBehalf(r)
  <2>1. NetTyped /\ Hears("parent", r, "waiting")
    BY <1>2, <1>5, SendType DEF AbortOnBehalf
  <2>2. PhaseOf(child[r], "aborting")
    BY <1>1, <1>5 DEF AbortOnBehalf, PhaseOf
  <2>3. /\ watch' = [watch EXCEPT ![r] = "aborting"] /\ UNCHANGED <<child, stuck, retrying>>
        /\ history' \in [Runs -> History] /\ r \notin stuck
    BY <1>1, <1>3, <1>5 DEF AbortOnBehalf
  <2> QED BY <1>0, <1>1, <1>2, <2>1, <2>2, <2>3, ParentTypes
<1>6. CASE ReapPastSeal(r)
  <2>1. NetTyped /\ Hears("parent", r, heard[r]["parent"])
    BY <1>0, <1>1, <1>6 DEF ReapPastSeal, NetTyped, Hears, STInv, SuperTypeOK, TransferTypeOK, Askable
  <2>2. PhaseOf(child[r], "done") /\ heard[r]["parent"] # "waiting"
    BY <1>0, <1>1, <1>6 DEF ReapPastSeal, PhaseOf
  <2>3. /\ watch' = [watch EXCEPT ![r] = "done"] /\ UNCHANGED <<child, stuck, retrying>>
        /\ history' \in [Runs -> History]
    BY <1>3, <1>6 DEF ReapPastSeal
  <2> QED BY <1>0, <1>1, <2>1, <2>2, <2>3, ParentTypes
<1>7. CASE OnBehalfAnswered(r)
  <2>1. NetTyped /\ Hears("parent", r, "quiet")
    BY <1>2, <1>7, HushType DEF OnBehalfAnswered
  <2>2. PhaseOf(child[r], "done")
    BY <1>1, <1>7 DEF OnBehalfAnswered, PhaseOf
  <2>3. /\ watch' = [watch EXCEPT ![r] = "done"] /\ UNCHANGED <<child, history, retrying>>
        /\ stuck' = stuck \/ stuck' = stuck \cup {r}
    BY <1>7 DEF OnBehalfAnswered
  <2> QED BY <1>0, <1>1, <1>2, <2>1, <2>2, <2>3, ParentTypes
<1>8. CASE Settle(r)
  <2>1. NetTyped /\ Hears("parent", r, "quiet")
    BY <1>2, <1>8, HushType DEF Settle
  <2>2. /\ watch' = [watch EXCEPT ![r] = watch[r]] /\ UNCHANGED <<child, history>>
        /\ retrying' = retrying \ {r} /\ (stuck' = stuck \/ stuck' = stuck \ {r})
    BY <1>0, <1>8 DEF Settle
  <2> QED BY <1>0, <1>1, <1>2, <2>1, <2>2, ParentTypes
<1>9. CASE Release(r)
  <2>1. NetTyped /\ Hears("parent", r, "waiting")
    BY <1>2, <1>9, SendType DEF Release
  <2>2. /\ watch' = [watch EXCEPT ![r] = watch[r]] /\ UNCHANGED <<child, history, stuck>>
        /\ retrying' = retrying \cup {r} /\ r \in stuck
    BY <1>0, <1>9 DEF Release
  <2> QED BY <1>0, <1>1, <1>2, <2>1, <2>2, ParentTypes
<1> QED BY <1>4, <1>5, <1>6, <1>7, <1>8, <1>9 DEF ParentStep

\* Steps in which a party at most hears something, and is not made to wait.
LEMMA HearingTypes ==
    ASSUME STInv, NetTyped, UNCHANGED <<child, history, watch, stuck, retrying>>,
           \A r \in Runs, p \in Parties : heard'[r][p] = "waiting" => heard[r][p] = "waiting"
    PROVE  STInv'
<1>1. PhaseInv'
  BY DEF STInv, PhaseInv
<1>2. WaitInv'
  BY DEF STInv, WaitInv, Got, ParentGot, Parties
<1> QED BY <1>1, <1>2 DEF STInv, SuperTypeOK, TransferTypeOK, NetTyped

LEMMA ErrsTypes ==
    ASSUME STInv, NEW r \in Runs, Errs(r) PROVE STInv'
<1>1. PICK p \in Parties : TransportError(p, r) /\ UNCHANGED parentVars
  BY DEF Errs
<1>2. Forget(p, r) /\ Hears(p, r, "TRANSPORT") /\ "TRANSPORT" \in Heard
  BY <1>1 DEF TransportError, Hears, Heard
<1>3. NetTyped
  BY <1>2, ForgetType
<1>4. \A q \in Runs, o \in Parties : heard'[q][o] = "waiting" => heard[q][o] = "waiting"
  BY <1>2, HearsType
<1> QED BY <1>1, <1>3, <1>4, HearingTypes DEF TransportError, parentVars

LEMMA AgentMovesTypes ==
    ASSUME STInv, TypeOK, AgentMoves PROVE STInv'
<1>0. /\ net \subseteq Request /\ party \in [Workers -> Parties \cup {"nobody"}]
      /\ heard \in [Runs -> [Parties -> Heard]] /\ call \in [Workers -> Call]
  BY DEF STInv, SuperTypeOK, TransferTypeOK, TypeOK
<1>1. UNCHANGED <<child, history, watch, stuck, retrying>>
  BY DEF AgentMoves, Agent, Deliver, Serve, DeliverAnswer, AgentRestart, parentVars, transferVars
<1>2. ASSUME NEW w \in Workers, NEW m \in net, Deliver(w, m) PROVE STInv'
  <2>1. /\ heard' = heard /\ net' \subseteq net
        /\ party' = [party EXCEPT ![w] = m.party] /\ m.party \in Parties \cup {"nobody"}
    BY <1>0, <1>2 DEF Deliver, Request
  <2>2. NetTyped
    BY <1>0, <2>1 DEF NetTyped, STInv, Askable
  <2> QED BY <1>1, <2>1, <2>2, HearingTypes
<1>3. ASSUME NEW w \in Workers, Serve(w) PROVE STInv'
  <2>1. NetTyped /\ heard' = heard
    BY <1>0, <1>3 DEF Serve, transferVars, NetTyped, STInv, Askable
  <2> QED BY <1>1, <2>1, HearingTypes
<1>4. ASSUME NEW w \in Workers, DeliverAnswer(w) PROVE STInv'
  <2>1. /\ net' = net /\ party' = [party EXCEPT ![w] = "nobody"]
        /\ call[w].answer \in Answers /\ call[w].run \in Runs \cup {NoRun} /\ NoRun \notin Runs
    BY <1>0, <1>4, RunAssumption DEF DeliverAnswer, Call
  <2>2. call[w].answer \in Heard /\ call[w].answer # "waiting"
    BY <2>1 DEF Heard, Answers, Terminals
  <2>3. CASE party[w] = "nobody" \/ call[w].run = NoRun
    <3>1. heard' = heard
      BY <1>0, <1>4, <2>1, <2>3 DEF DeliverAnswer
    <3>2. NetTyped
      BY <1>0, <2>1, <3>1 DEF NetTyped, STInv, Askable
    <3> QED BY <1>1, <3>1, <3>2, HearingTypes
  <2>4. CASE party[w] \in Parties /\ call[w].run \in Runs
    <3>1. Hears(party[w], call[w].run, call[w].answer)
      BY <1>4, <2>4 DEF DeliverAnswer, Hears, Parties
    <3>2. /\ heard' \in [Runs -> [Parties -> Heard]]
          /\ \A q \in Runs, o \in Parties : heard'[q][o] = "waiting" => heard[q][o] = "waiting"
      BY <2>2, <2>4, <3>1, HearsType
    <3>3. NetTyped
      BY <1>0, <2>1, <3>2 DEF NetTyped, STInv, Askable
    <3> QED BY <1>1, <3>2, <3>3, HearingTypes
  <2> QED BY <1>0, <2>1, <2>3, <2>4
<1>5. CASE AgentRestart
  <2>1. net' = net /\ party' = [w \in Workers |-> "nobody"] /\ "TRANSPORT" \in Heard
    BY <1>5 DEF AgentRestart, Heard
  <2>2. \A r \in Runs, p \in Parties : heard'[r][p] \in {heard[r][p], "TRANSPORT"}
    BY <1>5 DEF AgentRestart
  <2>3. heard' \in [Runs -> [Parties -> Heard]]
    BY <1>0, <1>5, <2>1 DEF AgentRestart
  <2>4. NetTyped
    BY <2>1, <2>3 DEF NetTyped, STInv, SuperTypeOK, TransferTypeOK, Askable
  <2> QED BY <1>1, <2>2, <2>4, HearingTypes
<1> QED BY <1>2, <1>3, <1>4, <1>5 DEF AgentMoves, Agent

LEMMA SuperTypeStep ==
    ASSUME STInv, TypeOK, [SuperNext]_superVars PROVE STInv'
<1>1. CASE AgentMoves
  BY <1>1, AgentMovesTypes
<1>2. ASSUME NEW r \in Runs, Calls(r) PROVE STInv'
  BY <1>2, ChildStepTypes, ParentStepTypes, ErrsTypes DEF Calls
<1>3. CASE UNCHANGED superVars
  BY <1>3 DEF superVars, allVars, transferVars, parentVars, STInv, SuperTypeOK, TransferTypeOK,
     Askable, PhaseInv, WaitInv, Got, ParentGot
<1> QED BY <1>1, <1>2, <1>3, SuperMoves

LEMMA SuperTypeInit ==
    ASSUME SuperInit PROVE STInv
<1>1. PICK size \in [Runs -> 0..MaxBatches] :
          child = [r \in Runs |-> [NewChild EXCEPT !.size = size[r]]]
  BY DEF SuperInit, TransferInit
<1>2. ASSUME NEW r \in Runs
      PROVE  child[r] \in Child /\ PhaseOf(child[r], watch[r])
  <2>1. size[r] \in 0..MaxBatches /\ child[r] = [NewChild EXCEPT !.size = size[r]]
    BY <1>1
  <2>2. watch[r] = "none"
    BY DEF SuperInit
  <2>3. NewChild \in Child
    BY BoundAssumption DEF NewChild, Child, Doings, Stages, Heard
  <2>4. child[r] \in Child
    BY <2>1, <2>3 DEF Child
  <2>5. /\ child[r].doing = "new" /\ child[r].stage = "PREPARING" /\ child[r].acked = 0
        /\ child[r].failedIn = "PREPARING" /\ child[r].abortFailed = FALSE
        /\ child[r].size \in 0..MaxBatches
    BY <2>1 DEF NewChild
  <2> QED BY <2>2, <2>4, <2>5, BoundAssumption DEF PhaseOf
<1>3. child \in [Runs -> Child] /\ PhaseInv
  BY <1>1, <1>2 DEF PhaseInv
<1>4. /\ net = {} /\ party \in [Workers -> Parties \cup {"nobody"}]
      /\ heard = [r \in Runs |-> [p \in Parties |-> "quiet"]]
      /\ history \in [Runs -> History]
      /\ watch \in [Runs -> {"none", "supervising", "aborting", "done"}]
      /\ stuck = {} /\ retrying = {}
  BY DEF SuperInit, TransferInit, History, Effects
<1>5. WaitInv
  BY <1>4 DEF WaitInv, Got, ParentGot, Parties
<1> QED BY <1>3, <1>4, <1>5 DEF STInv, SuperTypeOK, TransferTypeOK, Askable, Heard

\* What the agent is and remembers when it is composed with children and a parent.
AgentInv == RInv /\ STInv

LEMMA AgentInvStep ==
    ASSUME AgentInv, [SuperNext]_superVars PROVE AgentInv' /\ [Next]_vars
<1>1. TypeOK /\ RInv /\ STInv
  BY DEF AgentInv, RInv, CInv, IInv, HInv, TInv
<1>2. [Next]_vars
  BY <1>1, AgentStep DEF STInv
<1>3. STInv'
  BY <1>1, SuperTypeStep
<1>4. RInv'
  BY <1>1, <1>2, CommitStep, SeatUsedStep DEF RInv
<1> QED BY <1>2, <1>3, <1>4 DEF AgentInv

LEMMA AgentInvInit == SuperInit => AgentInv
<1> SUFFICES ASSUME SuperInit PROVE AgentInv
  OBVIOUS
<1>1. Init
  BY DEF SuperInit, TransferInit
<1>2. RInv
  BY <1>1, CommitInit DEF RInv, SeatUsed, Init
<1> QED BY <1>2, SuperTypeInit DEF AgentInv

\* Every reachable state of parent, child and agent is well typed: in particular the child never
\* counts past the batches of its result, and what the parent resends is booked as held.
THEOREM SuperTypes == SuperSpec => []SuperTypeOK
<1>1. AgentInv => SuperTypeOK
  BY DEF AgentInv, STInv
<1>2. AgentInv /\ [SuperNext]_superVars => AgentInv'
  BY AgentInvStep
<1> QED BY AgentInvInit, <1>1, <1>2, PTL DEF SuperSpec

\* Composed with a parent, children and a network that loses calls and leaves strays, the agent is
\* still the agent of SinkService: what is proved of it there holds here.
THEOREM AgentInContext == SuperSpec => Spec
<1>1. SuperInit => Init
  BY DEF SuperInit, TransferInit
<1>2. AgentInv /\ [SuperNext]_superVars => AgentInv'
  BY AgentInvStep
<1>3. AgentInv /\ [SuperNext]_superVars => [Next]_vars
  BY AgentInvStep
<1> QED BY AgentInvInit, <1>1, <1>2, <1>3, PTL DEF SuperSpec, Spec

\* So whatever parents and children ask of it, and however late, twice or not at all their calls
\* arrive, the agent gives a table to one run at a time, lets nobody else end that hold, swaps a run
\* once, under its hold, and remembers that it did.
THEOREM AgentKeepsItsWord ==
    SuperSpec => /\ HoldsImplemented /\ SwapsUnderHold
                 /\ []TargetExclusion /\ []QuotaRespected /\ []OneSwap /\ []RememberedSwap
BY AgentInContext, AgentImplementsHold, SwapsHeld, OneHolderPerTable, QuotaHolds, SwappedOnce,
   SwapRemembered

-----------------------------------------------------------------------------
(* What an agent's step does, as far as the composition sees it. *)

\* How worker w begins with request m.
Begun(c, m) == \/ c.at = "reply"
               \/ m.op = "open" /\ c.at = "admitted"
               \/ m.op = "push" /\ c.at = "claimed" /\ c.arg = m.arg
               \/ m.op = "commit" /\ c.at = "sealed" /\ c.arg = m.arg
               \/ m.op = "get" /\ c.at = "lookup"
Others(w) == \A x \in Workers \ {w} : call'[x] = call[x]

Takes(w, m) ==
    /\ net' = net \ {m} /\ party' = [party EXCEPT ![w] = m.party] /\ heard' = heard
    /\ call[w].at = "idle" /\ Others(w) /\ call'[w].run = m.run /\ Begun(call'[w], m)
    /\ swaps' = swaps /\ active' \subseteq active
    /\ \A q \in active' : run'[q].sealed => run[q].sealed \/ (q = m.run /\ m.op = "commit")

\* How a worker goes on.
GoesOn(c, d) == \/ c.at \in OpenPoints /\ d.at \in OpenPoints
                \/ c.at = "claimed" /\ d.at = "landed" /\ d.arg = c.arg
                \/ c.at \in CommitPoints /\ d.at \in CommitPoints \cup {"dropping"}
                \/ c.at \notin {"idle", "reply"} /\ d.at = "reply"
Works(w) ==
    /\ UNCHANGED <<net, party, heard>>
    /\ Others(w) /\ call'[w].run = call[w].run /\ GoesOn(call[w], call'[w])
    /\ \A q \in Runs : HasSwapped(q)' => \/ HasSwapped(q)
                                         \/ call[w].at \in {"sealed", "verified"} /\ call[w].run = q
    /\ \A q \in active' : /\ q \in active \/ (call[w].at = "created" /\ call[w].run = q)
                          /\ run'[q].sealed => q \in active /\ run[q].sealed

\* The answer of worker w leaves.
Tells(w) ==
    /\ net' = net /\ party' = [party EXCEPT ![w] = "nobody"]
    /\ call[w].at = "reply" /\ call' = [call EXCEPT ![w] = IdleCall]
    /\ UNCHANGED <<active, run, swaps, landed>>
    /\ \/ party[w] = "nobody" /\ heard' = heard
       \/ party[w] # "nobody" /\ Hears(party[w], call[w].run, call[w].answer)

LEMMA AnswerIs ==
    ASSUME TypeOK, NEW w \in Workers, NEW r, NEW code, Answer(w, r, code)
    PROVE  /\ Others(w) /\ call'[w].at = "reply" /\ call'[w].run = r /\ call'[w].answer = code
<1> DEFINE new == [IdleCall EXCEPT !.at = "reply", !.run = r, !.answer = code]
<1>1. call' = [call EXCEPT ![w] = new] /\ call \in [Workers -> Call]
  BY NetworkAssumption DEF Answer, TypeOK
<1>2. new.at = "reply" /\ new.run = r /\ new.answer = code
  BY DEF IdleCall
<1> HIDE DEF new
<1> QED BY <1>1, <1>2 DEF Others

LEMMA BeginIs ==
    ASSUME TypeOK, NEW w \in Workers, NEW r, NEW point, NEW arg, Begin(w, r, point, arg)
    PROVE  Others(w) /\ call'[w].at = point /\ call'[w].run = r /\ call'[w].arg = arg
BY DEF Begin, TypeOK, IdleCall, Others

LEMMA GotoIs ==
    ASSUME TypeOK, NEW w \in Workers, NEW point, Goto(w, point)
    PROVE  Others(w) /\ call'[w].at = point /\ call'[w].run = call[w].run /\ call'[w].arg = call[w].arg
BY DEF Goto, TypeOK, Call, Others

LEMMA DeliverTakes ==
    ASSUME STInv, TypeOK, NEW w \in Workers, NEW m \in net, Deliver(w, m) PROVE Takes(w, m)
<1> USE DEF sinkMaps, mysqlVars
<1>0. /\ net' = net \ {m} /\ party' = [party EXCEPT ![w] = m.party] /\ heard' = heard
      /\ m \in Request /\ m.run \in Runs /\ run \in [Runs -> Entry] /\ active \subseteq Runs
  BY DEF Deliver, STInv, Askable, Request, TypeOK
<1>1. CASE \/ OpenUnreachable(w, m.run) \/ RefuseBusyTable(w, m.run) \/ RefuseOverQuota(w, m.run)
           \/ RefuseBatch(w, m.run, m.arg) \/ RefuseCommit(w, m.run) \/ RefuseAbort(w, m.run)
           \/ AbortDropFails(w, m.run)
  <2>1. PICK code : Answer(w, m.run, code)
    BY <1>1 DEF OpenUnreachable, RefuseBusyTable, RefuseOverQuota, RefuseBatch, RefuseCommit,
                RefuseAbort, AbortDropFails
  <2>2. call[w].at = "idle" /\ UNCHANGED <<active, run, swaps>>
    BY <1>1 DEF OpenUnreachable, RefuseBusyTable, RefuseOverQuota, RefuseBatch, RefuseCommit,
                RefuseAbort, AbortDropFails, TakeLeg, Idle
  <2> QED BY <1>0, <2>1, <2>2, AnswerIs DEF Takes, Begun
<1>2. CASE m.op = "open" /\ Admit(w, m.run)
  <2>1. Begin(w, m.run, "admitted", openLeg[m.run]) /\ call[w].at = "idle"
        /\ UNCHANGED <<active, run, swaps>>
    BY <1>2 DEF Admit, TakeLeg, Idle
  <2> QED BY <1>0, <1>2, <2>1, BeginIs DEF Takes, Begun
<1>3. CASE m.op = "push" /\ ClaimBatch(w, m.run, m.arg)
  <2>1. Begin(w, m.run, "claimed", m.arg) /\ call[w].at = "idle" /\ UNCHANGED <<active, swaps>>
        /\ run' = [run EXCEPT ![m.run].nextSeq = m.arg + 1]
    BY <1>3 DEF ClaimBatch, Idle
  <2>2. \A q \in active : run'[q].sealed = run[q].sealed
    BY <1>0, <2>1 DEF Entry
  <2> QED BY <1>0, <1>3, <2>1, <2>2, BeginIs DEF Takes, Begun
<1>4. CASE m.op = "commit" /\ Seal(w, m.run, m.arg)
  <2>1. call[w].at = "idle" /\ UNCHANGED <<active, swaps>> /\ run' = [run EXCEPT ![m.run].sealed = TRUE]
    BY <1>4 DEF Seal, Idle
  <2>2. \A q \in active : q # m.run => run'[q] = run[q]
    BY <1>0, <2>1
  <2>3. /\ Others(w) /\ call'[w].run = m.run /\ call'[w].at = "sealed" /\ call'[w].arg = m.arg
    BY <1>4 DEF Seal, TypeOK, IdleCall, Others
  <2> QED BY <1>0, <1>4, <2>1, <2>2, <2>3 DEF Takes, Begun
<1>5. CASE Abort(w, m.run)
  BY <1>0, <1>5, AnswerIs DEF Abort, Takes, Begun, Idle, DropRows
<1>6. CASE m.op = "get" /\ GetActive(w, m.run)
  BY <1>0, <1>6, AnswerIs, BeginIs DEF GetActive, Takes, Begun, Idle
<1> QED BY <1>1, <1>2, <1>3, <1>4, <1>5, <1>6 DEF Deliver, Handle

LEMMA ServeWorks ==
    ASSUME AgentInv, NEW w \in Workers, Serve(w) PROVE Works(w)
<1> USE DEF sinkMaps, mysqlVars
<1>0. /\ TypeOK /\ CInv /\ run \in [Runs -> Entry] /\ active \subseteq Runs /\ call \in [Workers -> Call]
      /\ UNCHANGED <<net, party, heard>>
  BY DEF AgentInv, RInv, CInv, IInv, HInv, TInv, TypeOK, Serve, transferVars
<1>s. swaps' = swaps => \A q \in Runs : HasSwapped(q)' => HasSwapped(q)
  BY DEF HasSwapped
<1> PICK r \in Runs : Continue(w, r)
  BY DEF Serve
<1>1. CASE \/ AskRangeCheck(w, r) \/ OpenFails(w, r) \/ ReturnSeat(w, r)
           \/ BatchFails(w, r) \/ AccountBatch(w, r)
           \/ DropStaging(w, r) \/ DropFails(w, r) \/ GetTombstone(w, r)
  <2>1. PICK code : Answer(w, r, code)
    BY <1>1 DEF AskRangeCheck, OpenFails, ReturnSeat, LeaveSeat, BatchFails, AccountBatch,
                DropStaging, DropFails, GetTombstone
  <2>2. call[w].at \notin {"idle", "reply"} /\ call[w].run = r /\ UNCHANGED <<active, swaps>>
    BY <1>1 DEF AskRangeCheck, OpenFails, ReturnSeat, BatchFails, AccountBatch,
                DropStaging, DropFails, GetTombstone, At, DropRows
  <2>3. \A q \in active : run'[q].sealed = run[q].sealed
    BY <1>0, <1>1 DEF AskRangeCheck, OpenFails, ReturnSeat, BatchFails, AccountBatch, ReleaseSeq,
                DropStaging, DropFails, GetTombstone, Entry
  <2> QED BY <1>0, <1>s, <2>1, <2>2, <2>3, AnswerIs DEF Works, GoesOn
<1>2. CASE CreateStaging(w, r)
  BY <1>0, <1>s, <1>2, GotoIs DEF CreateStaging, At, Works, GoesOn, OpenPoints
<1>3. CASE InsertActive(w, r)
  <2>1. active' = active \cup {r} /\ run'[r].sealed = FALSE /\ \A q \in Runs \ {r} : run'[q] = run[q]
    BY <1>0, <1>3 DEF InsertActive, FreshEntry
  <2>2. call[w].at = "created" /\ call[w].run = r /\ call'[w].at = "inserted" /\ call'[w].run = r
        /\ Others(w) /\ swaps' = swaps
    BY <1>0, <1>3, GotoIs DEF InsertActive, At
  <2> QED BY <1>0, <1>s, <2>1, <2>2 DEF Works, GoesOn, OpenPoints
<1>4. CASE LandBatch(w, r)
  BY <1>0, <1>s, <1>4, GotoIs DEF LandBatch, At, Works, GoesOn
<1>5. CASE Verify(w, r)
  <2>1. call'[w].at \in {"verified", "discarded"} /\ call'[w].run = call[w].run /\ Others(w)
    BY <1>0, <1>5 DEF Verify, Call, Others
  <2>2. call[w].at = "sealed" /\ UNCHANGED <<active, run, swaps>>
    BY <1>5 DEF Verify, At
  <2> QED BY <1>0, <1>s, <2>1, <2>2 DEF Works, GoesOn, CommitPoints
<1>6. CASE SwapCommits(w, r) \/ SwapFails(w, r)
  <2>1. call'[w].at \in {"swapped", "discarded"} /\ call'[w].run = call[w].run /\ Others(w)
    BY <1>0, <1>6, GotoIs DEF SwapCommits, SwapFails, Call, Others
  <2>2. call[w].at \in {"sealed", "verified"} /\ call[w].run = r /\ UNCHANGED <<active, run>>
    BY <1>6 DEF SwapCommits, SwapFails, At
  <2>3. swaps' = swaps \/ MoveRows(r)
    BY <1>6 DEF SwapCommits, SwapFails
  <2>4. \A q \in Runs : HasSwapped(q)' => HasSwapped(q) \/ q = r
    BY <1>0, <1>s, <2>3, SwapSeen
  <2> QED BY <1>0, <2>1, <2>2, <2>4 DEF Works, GoesOn, CommitPoints
<1>7. CASE FinishRun(w, r)
  <2>1. call'[w].at = "dropping" /\ call'[w].run = call[w].run /\ Others(w)
    BY <1>0, <1>7 DEF FinishRun, Call, Others
  <2>2. call[w].at \in {"swapped", "discarded"} /\ active' = active \ {r} /\ UNCHANGED <<run, swaps>>
    BY <1>7 DEF FinishRun, At
  <2> QED BY <1>0, <1>s, <2>1, <2>2 DEF Works, GoesOn, CommitPoints
<1> QED BY <1>1, <1>2, <1>3, <1>4, <1>5, <1>6, <1>7 DEF Continue

LEMMA AnswerTells ==
    ASSUME NEW w \in Workers, DeliverAnswer(w) PROVE Tells(w)
BY DEF DeliverAnswer, Reply, Tells, Hears, sinkMaps, mysqlVars

LEMMA AgentSummary ==
    ASSUME AgentInv, AgentMoves
    PROVE  /\ UNCHANGED <<child, history, parentVars>>
           /\ \/ \E w \in Workers : \E m \in net : Takes(w, m)
              \/ \E w \in Workers : Works(w) \/ Tells(w)
              \/ AgentRestart
<1>1. UNCHANGED <<child, history, parentVars>>
  BY DEF AgentMoves, Agent, Deliver, Serve, DeliverAnswer, AgentRestart, transferVars
<1>2. STInv /\ TypeOK
  BY DEF AgentInv, RInv, CInv, IInv, HInv, TInv
<1> QED BY <1>1, <1>2, DeliverTakes, ServeWorks, AnswerTells DEF AgentMoves, Agent

-----------------------------------------------------------------------------
(* The commit and the abort of one run exclude each other. *)

\* No step turns a run back: it stays past its COMMITTING line, opened, aborted.
Fated(r) ==
    /\ \A q \in Runs \ {r} : child'[q] = child[q]
    /\ Sealing(r) => Sealing(r)'
    /\ Streamed(r) => Streamed(r)'
    /\ Aborted(r) => Aborted(r)'
    /\ Aborted(r) /\ Streamed(r)' => Streamed(r)

LEMMA ChildFate == ASSUME STInv, NEW r \in Runs, Calls(r) PROVE Fated(r)
<1> USE DEF Sealing, Streamed, Aborted, Fated, Doing
<1>1. /\ child \in [Runs -> Child] /\ child[r] \in Child /\ PhaseOf(child[r], watch[r])
  BY ChildIs DEF STInv, SuperTypeOK, TransferTypeOK
<1>2. CASE Open(r) \/ FailBeforeOpen(r)
  BY <1>1, <1>2 DEF Open, FailBeforeOpen, Enter, Fail, Child, PhaseOf
<1>3. CASE RangeCheck(r) \/ Finish(r)
  BY <1>1, <1>3 DEF RangeCheck, Finish, Child
<1>4. CASE Opened(r) \/ OpenFailed(r)
  BY <1>1, <1>4 DEF Opened, OpenFailed, Enter, Fail, Child, PhaseOf
<1>5. CASE PushNext(r) \/ BatchAcked(r)
  BY <1>1, <1>5 DEF PushNext, BatchAcked, Child, PhaseOf
<1>6. CASE FailStreaming(r)
  BY <1>1, <1>6 DEF FailStreaming, Child, PhaseOf
<1>7. CASE AbortAnswered(r)
  BY <1>1, <1>7 DEF AbortAnswered, Child, PhaseOf
<1>8. CASE Drained(r) \/ Commit(r)
  BY <1>1, <1>8 DEF Drained, Commit, Enter, Child, PhaseOf
<1>9. CASE Committed(r) \/ CommitRefused(r)
  BY <1>1, <1>9 DEF Committed, CommitRefused, Enter, Fail, Child, PhaseOf
<1>10. CASE AskWhatHappened(r) \/ Diagnosed(r)
  BY <1>1, <1>10 DEF AskWhatHappened, Diagnosed, Child, PhaseOf
<1>11. CASE Killed(r)
  BY <1>1, <1>11 DEF Killed, Child, PhaseOf
<1>12. CASE ParentStep(r) \/ Release(r) \/ Errs(r)
  <2>1. child' = child
    BY <1>12 DEF ParentStep, ReapEnded, AbortOnBehalf, ReapPastSeal, OnBehalfAnswered, Settle, Release,
                 Errs, TransportError, allVars, transferVars
  <2> QED BY <2>1
<1> QED BY <1>2, <1>3, <1>4, <1>5, <1>6, <1>7, <1>8, <1>9, <1>10, <1>11, <1>12
        DEF Calls, StartRun, ChildStep, Step

Requested(op, r) == \E m \in net : m.op = op /\ m.run = r
Working(points, r) == \E w \in Workers : call[w].at \in points /\ call[w].run = r

\* Only a run past its COMMITTING line is committed, only one before it is aborted.
EndPoints == CommitPoints \cup {"dropping"}
SealInv ==
    /\ \A r \in Runs : Requested("commit", r) \/ Working(EndPoints, r) => Sealing(r)
    /\ \A r \in active : run[r].sealed => Sealing(r)
    /\ \A r \in Runs : HasSwapped(r) => Sealing(r)
AbortInv ==
    \A r \in Runs : Requested("abort", r) \/ r \in stuck \/ watch[r] = "aborting" => Aborted(r)

\* What a step of a run's child or parent leaves on its way to the agent: nothing new,
\* or the one request it sends.
Kept(m) == \E n \in net : n.op = m.op /\ n.run = m.run /\ n.arg = m.arg

LEMMA SendKeeps ==
    ASSUME NEW p, NEW op, NEW r, NEW arg, Send(p, op, r, arg)
    PROVE  \A m \in net' : m \in net \/ (m.party = p /\ m.op = op /\ m.run = r /\ m.arg = arg)
BY DEF Send

LEMMA ForgetKeeps ==
    ASSUME STInv, NEW p, NEW r, Forget(p, r)
    PROVE  \A m \in net' : Kept(m) /\ (m \in net \/ m.party = "nobody")
<1> SUFFICES ASSUME NEW m \in net' PROVE Kept(m) /\ (m \in net \/ m.party = "nobody")
  OBVIOUS
<1>1. CASE m \in net
  BY <1>1 DEF Kept
<1>2. CASE m \notin net
  <2>1. PICK n \in net : m = [n EXCEPT !.party = "nobody"]
    BY <1>2 DEF Forget, Abandoned
  <2>2. n \in Request
    BY DEF STInv, Askable
  <2> QED BY <2>1, <2>2 DEF Kept, Request
<1> QED BY <1>1, <1>2

Ends(m, r) == \/ Kept(m)
              \/ /\ m.run = r
                 /\ m.op = "commit" => Sealing(r)'
                 /\ m.op = "abort" => Aborted(r)'

LEMMA CallsAsk ==
    ASSUME STInv, AbortInv, NEW r \in Runs, Calls(r) PROVE \A m \in net' : Ends(m, r)
<1>1. child \in [Runs -> Child] /\ child[r] \in Child /\ PhaseOf(child[r], watch[r])
  BY ChildIs DEF STInv, SuperTypeOK, TransferTypeOK
<1>2. CASE Open(r) \/ RangeCheck(r) \/ PushNext(r) \/ AskWhatHappened(r)
  <2>1. PICK op \in {"open", "push", "get"}, arg \in Int : Send("child", op, r, arg)
    BY <1>1, <1>2, BoundAssumption DEF Open, RangeCheck, PushNext, AskWhatHappened, Child
  <2> QED BY <2>1, SendKeeps DEF Ends, Kept
<1>3. CASE FailStreaming(r)
  <2>1. Send("child", "abort", r, 0)
    BY <1>3 DEF FailStreaming
  <2>2. Aborted(r)'
    BY <1>1, <1>3 DEF FailStreaming, Aborted, Sealing, Doing, Child, PhaseOf
  <2> QED BY <2>1, <2>2, SendKeeps DEF Ends, Kept
<1>4. CASE Commit(r)
  <2>1. Send("child", "commit", r, child[r].acked)
    BY <1>4 DEF Commit
  <2>2. Sealing(r)'
    BY <1>1, <1>4 DEF Commit, Sealing, Doing, Child, PhaseOf
  <2> QED BY <2>1, <2>2, SendKeeps DEF Ends, Kept
<1>5. CASE AbortOnBehalf(r)
  <2>1. Send("parent", "abort", r, 0) /\ child' = child
    BY <1>5 DEF AbortOnBehalf
  <2>2. Aborted(r)'
    BY <1>1, <1>5, <2>1 DEF AbortOnBehalf, AbortAllowed, Aborted, Sealing
  <2> QED BY <2>1, <2>2, SendKeeps DEF Ends, Kept
<1>6. CASE Release(r)
  <2>1. Send("parent", "abort", r, 0) /\ child' = child
    BY <1>6 DEF Release
  <2>2. Aborted(r)'
    BY <1>6, <2>1 DEF Release, AbortInv, Aborted, Sealing
  <2> QED BY <2>1, <2>2, SendKeeps DEF Ends, Kept
<1>7. CASE Killed(r) \/ Errs(r)
  BY <1>7, ForgetKeeps DEF Killed, Errs, TransportError, Ends
<1>8. CASE \/ Opened(r) \/ OpenFailed(r) \/ BatchAcked(r) \/ AbortAnswered(r) \/ Committed(r)
           \/ CommitRefused(r) \/ Diagnosed(r)
  BY <1>8 DEF Opened, OpenFailed, BatchAcked, AbortAnswered, Committed, CommitRefused, Diagnosed, Hush,
              Ends, Kept
<1>9. CASE FailBeforeOpen(r) \/ Drained(r) \/ Finish(r) \/ ReapEnded(r) \/ ReapPastSeal(r)
  BY <1>9 DEF FailBeforeOpen, Drained, Finish, ReapEnded, ReapPastSeal, Ends, Kept, allVars, transferVars
<1>10. CASE OnBehalfAnswered(r) \/ Settle(r)
  BY <1>10 DEF OnBehalfAnswered, Settle, Hush, Ends, Kept
<1> QED BY <1>2, <1>3, <1>4, <1>5, <1>6, <1>7, <1>8, <1>9, <1>10
        DEF Calls, StartRun, ChildStep, Step, ParentStep

\* A hold is booked, and an abort sent by the parent, of an aborted run only.
LEMMA Books ==
    ASSUME STInv, AbortInv, NEW r \in Runs, Calls(r)
    PROVE  \A q \in Runs : q \in stuck' \/ watch'[q] = "aborting" =>
               \/ q \in stuck \/ watch[q] = "aborting"
               \/ q = r /\ Aborted(r)'
<1>1. /\ child \in [Runs -> Child] /\ child[r] \in Child /\ PhaseOf(child[r], watch[r])
      /\ watch \in [Runs -> {"none", "supervising", "aborting", "done"}]
  BY ChildIs DEF STInv, SuperTypeOK, TransferTypeOK
<1>2. CASE StartRun(r)
  BY <1>1, <1>2 DEF StartRun
<1>3. CASE ChildStep(r) \/ Errs(r)
  BY <1>3 DEF ChildStep, Errs, parentVars
<1>4. CASE ReapEnded(r)
  BY <1>1, <1>4 DEF ReapEnded, allVars, transferVars, Aborted, Sealing, PhaseOf
<1>5. CASE AbortOnBehalf(r)
  BY <1>1, <1>5 DEF AbortOnBehalf, AbortAllowed, Aborted, Sealing
<1>6. CASE ReapPastSeal(r) \/ Release(r)
  BY <1>1, <1>6 DEF ReapPastSeal, Release
<1>7. CASE OnBehalfAnswered(r)
  BY <1>1, <1>7 DEF OnBehalfAnswered
<1>8. CASE Settle(r)
  BY <1>1, <1>8 DEF Settle
<1> QED BY <1>2, <1>3, <1>4, <1>5, <1>6, <1>7, <1>8 DEF Calls, ParentStep

LEMMA EndsCalls ==
    ASSUME STInv, TypeOK, SealInv, AbortInv, NEW r \in Runs, Calls(r) PROVE SealInv' /\ AbortInv'
<1>1. Fated(r) /\ (\A m \in net' : Ends(m, r)) /\ UNCHANGED sinkVars
  BY ChildFate, CallsAsk, CallsLeaveAgent
<1>2. \A q \in Runs : q # r => child'[q] = child[q]
  BY <1>1 DEF Fated
<1>3. \A q \in Runs : (Sealing(q) => Sealing(q)') /\ (Aborted(q) => Aborted(q)')
  <2> TAKE q \in Runs
  <2>1. CASE q = r
    BY <1>1, <2>1 DEF Fated
  <2>2. CASE q # r
    BY <1>2, <2>2 DEF Sealing, Aborted
  <2> QED BY <2>1, <2>2
<1>4. UNCHANGED <<active, run, call, swaps>>
  BY <1>1 DEF sinkVars, vars
<1>5. ASSUME NEW q \in Runs, Requested("commit", q)' PROVE Sealing(q)'
  <2>1. PICK m \in net' : m.op = "commit" /\ m.run = q
    BY <1>5 DEF Requested
  <2>2. CASE Kept(m)
    BY <1>3, <2>1, <2>2 DEF Kept, SealInv, Requested
  <2>3. CASE ~Kept(m)
    BY <1>1, <2>1, <2>3 DEF Ends
  <2> QED BY <2>2, <2>3
<1>6. ASSUME NEW q \in Runs, Requested("abort", q)' PROVE Aborted(q)'
  <2>1. PICK m \in net' : m.op = "abort" /\ m.run = q
    BY <1>6 DEF Requested
  <2>2. CASE Kept(m)
    BY <1>3, <2>1, <2>2 DEF Kept, AbortInv, Requested
  <2>3. CASE ~Kept(m)
    BY <1>1, <2>1, <2>3 DEF Ends
  <2> QED BY <2>2, <2>3
<1>7. \A q \in Runs : (Working(EndPoints, q)' => Working(EndPoints, q))
                      /\ (HasSwapped(q)' => HasSwapped(q))
  BY <1>4 DEF Working, HasSwapped
<1>8. SealInv'
  BY <1>3, <1>4, <1>5, <1>7 DEF SealInv, TypeOK
<1>9. ASSUME NEW q \in Runs, q \in stuck' \/ watch'[q] = "aborting" PROVE Aborted(q)'
  BY <1>3, <1>9, Books DEF AbortInv
<1> QED BY <1>6, <1>8, <1>9 DEF AbortInv

LEMMA EndsAgent ==
    ASSUME AgentInv, SealInv, AbortInv, AgentMoves PROVE SealInv' /\ AbortInv'
<1>1. UNCHANGED <<child, watch, stuck, retrying>> /\ active \subseteq Runs /\ net \subseteq Request
      /\ call \in [Workers -> Call]
  BY AgentSummary DEF parentVars, AgentInv, STInv, SuperTypeOK, TransferTypeOK, RInv, CInv, IInv, HInv,
                      TInv, TypeOK
<1>2. \A q \in Runs : (Sealing(q)' <=> Sealing(q)) /\ (Aborted(q)' <=> Aborted(q))
  BY <1>1 DEF Sealing, Aborted
<1>3. net' \subseteq net => AbortInv'
  BY <1>1, <1>2 DEF AbortInv, Requested
<1>4. ASSUME NEW w \in Workers, NEW m \in net, Takes(w, m) PROVE SealInv' /\ AbortInv'
  <2>1. net' \subseteq net /\ Others(w) /\ call'[w].run = m.run /\ m.run \in Runs
        /\ (call'[w].at \in EndPoints => m.op = "commit")
    BY <1>1, <1>4 DEF Takes, Begun, EndPoints, CommitPoints, Request
  <2>2. m.op = "commit" => Sealing(m.run)
    BY <2>1 DEF SealInv, Requested
  <2>3. \A q \in Runs : Requested("commit", q)' => Sealing(q)
    BY <2>1 DEF SealInv, Requested
  <2>4. \A q \in Runs : Working(EndPoints, q)' => Sealing(q)
    BY <2>1, <2>2 DEF SealInv, Working, Others
  <2>5. \A q \in active' : run'[q].sealed => Sealing(q)
    BY <1>4, <2>2 DEF Takes, SealInv
  <2>6. \A q \in Runs : HasSwapped(q)' => Sealing(q)
    BY <1>4 DEF Takes, SealInv, HasSwapped
  <2>7. active' \subseteq Runs
    BY <1>1, <1>4 DEF Takes
  <2> QED BY <1>2, <1>3, <2>1, <2>3, <2>4, <2>5, <2>6, <2>7 DEF SealInv
<1>5. ASSUME NEW w \in Workers, Works(w) PROVE SealInv' /\ AbortInv'
  <2>1. net' = net /\ Others(w) /\ call'[w].run = call[w].run
        /\ (call'[w].at \in EndPoints => call[w].at \in EndPoints)
    BY <1>5 DEF Works, GoesOn, EndPoints, CommitPoints, OpenPoints
  <2>2. \A q \in Runs : Requested("commit", q)' => Sealing(q)
    BY <2>1 DEF SealInv, Requested
  <2>3. \A q \in Runs : Working(EndPoints, q)' => Sealing(q)
    BY <2>1 DEF SealInv, Working, Others
  <2>4. \A q \in active' : run'[q].sealed => Sealing(q)
    BY <1>5 DEF Works, SealInv
  <2>5. ASSUME NEW q \in Runs, HasSwapped(q)' PROVE Sealing(q)
    <3>1. HasSwapped(q) \/ Working(EndPoints, q)
      BY <1>5, <2>5 DEF Works, Working, EndPoints, CommitPoints
    <3> QED BY <3>1 DEF SealInv
  <2>6. active' \subseteq Runs
    BY AgentInvStep, SuperMoves DEF AgentInv, RInv, CInv, IInv, HInv, TInv, TypeOK, SuperNext, AgentMoves
  <2> QED BY <1>2, <1>3, <2>1, <2>2, <2>3, <2>4, <2>5, <2>6 DEF SealInv
<1>6. ASSUME NEW w \in Workers, Tells(w) PROVE SealInv' /\ AbortInv'
  <2>1. net' = net /\ Others(w) /\ call'[w].at \notin EndPoints /\ UNCHANGED <<active, run, swaps>>
    BY <1>1, <1>6 DEF Tells, Others, IdleCall, EndPoints, CommitPoints
  <2>2. \A q \in Runs : Requested("commit", q)' => Sealing(q)
    BY <2>1 DEF SealInv, Requested
  <2>3. \A q \in Runs : Working(EndPoints, q)' => Sealing(q)
    BY <2>1 DEF SealInv, Working, Others
  <2>4. \A q \in Runs : HasSwapped(q)' => Sealing(q)
    BY <2>1 DEF SealInv, HasSwapped
  <2>5. \A q \in active' : run'[q].sealed => Sealing(q)
    BY <2>1 DEF SealInv
  <2> QED BY <1>1, <1>2, <1>3, <2>1, <2>2, <2>3, <2>4, <2>5 DEF SealInv
<1>7. CASE AgentRestart
  <2>1. net' = net /\ active' = {} /\ swaps' = swaps /\ \A w \in Workers : call'[w].at = "idle"
    BY <1>7 DEF AgentRestart, Restart, IdleCall, mysqlVars
  <2>2. \A q \in Runs : Requested("commit", q)' => Sealing(q)
    BY <2>1 DEF SealInv, Requested
  <2>3. \A q \in Runs : ~Working(EndPoints, q)'
    BY <2>1 DEF Working, EndPoints, CommitPoints
  <2>4. \A q \in Runs : HasSwapped(q)' => Sealing(q)
    BY <2>1 DEF SealInv, HasSwapped
  <2> QED BY <1>2, <1>3, <2>1, <2>2, <2>3, <2>4 DEF SealInv
<1> QED BY <1>4, <1>5, <1>6, <1>7, AgentSummary

EInv == AgentInv /\ SealInv /\ AbortInv

LEMMA EndsStep == EInv /\ [SuperNext]_superVars => EInv'
<1> SUFFICES ASSUME EInv, [SuperNext]_superVars PROVE EInv'
  OBVIOUS
<1>1. AgentInv' /\ STInv /\ TypeOK
  BY AgentInvStep DEF EInv, AgentInv, RInv, CInv, IInv, HInv, TInv
<1>2. CASE AgentMoves
  BY <1>1, <1>2, EndsAgent DEF EInv
<1>3. ASSUME NEW r \in Runs, Calls(r) PROVE EInv'
  BY <1>1, <1>3, EndsCalls DEF EInv
<1>4. CASE UNCHANGED superVars
  BY <1>1, <1>4 DEF EInv, SealInv, AbortInv, superVars, allVars, vars, transferVars, parentVars,
     Requested, Working, Sealing, Aborted, HasSwapped
<1> QED BY <1>2, <1>3, <1>4, SuperMoves

LEMMA EndsInit == SuperInit => EInv
<1> SUFFICES ASSUME SuperInit PROVE EInv
  OBVIOUS
<1>1. AgentInv /\ CInv
  BY AgentInvInit DEF AgentInv, RInv
<1>2. net = {} /\ active = {} /\ stuck = {} /\ (\A r \in Runs : watch[r] = "none")
      /\ (\A w \in Workers : call[w].at = "idle") /\ (\A t \in Tables : swaps[t] = <<>>)
  BY DEF SuperInit, TransferInit, Init, IdleCall
<1>3. \A r \in Runs : ~HasSwapped(r)
  BY <1>2, RunAssumption DEF HasSwapped
<1> QED BY <1>1, <1>2, <1>3 DEF EInv, SealInv, AbortInv, Requested, Working, EndPoints, CommitPoints

\* No abort is sent, and none offered for resending, on a run the agent has sealed, whichever calls
\* are lost or late, whoever dies and however often the agent restarts.
THEOREM ReleasesAreHopeful == SuperSpec => []NoHopelessRelease
<1>1. EInv => NoHopelessRelease
  <2> SUFFICES ASSUME EInv, NEW r \in active, run[r].sealed
               PROVE  r \notin stuck /\ ~ \E m \in net : m.run = r /\ m.op = "abort"
    BY DEF NoHopelessRelease
  <2>1. r \in Runs /\ Sealing(r)
    BY DEF EInv, SealInv, AgentInv, RInv, CInv, IInv, HInv, TInv, TypeOK
  <2> QED BY <2>1 DEF EInv, AbortInv, Requested, Aborted
<1> QED BY EndsInit, EndsStep, <1>1, PTL DEF SuperSpec

-----------------------------------------------------------------------------
(* Calls.  Each party waits for one call at a time, and the call is in one   *)
(* place: on its way to the agent or with one worker.                        *)

Carries(m, p, r) == m.party = p /\ m.run = r
Attends(w, p, r) == party[w] = p /\ call[w].run = r

CallOf(p, r) ==
    /\ heard[r][p] # "waiting" => /\ \A m \in net : ~Carries(m, p, r)
                                  /\ \A w \in Workers : ~Attends(w, p, r)
    /\ \A m \in net, w \in Workers : ~(Carries(m, p, r) /\ Attends(w, p, r))
    /\ \A m, n \in net : Carries(m, p, r) /\ Carries(n, p, r) => m = n
    /\ \A w, x \in Workers : Attends(w, p, r) /\ Attends(x, p, r) => w = x
CallInv ==
    /\ \A r \in Runs, p \in Parties : CallOf(p, r)
    /\ \A w \in Workers : party[w] # "nobody" => call[w].at # "idle"

\* What a step of a run's child or parent does to its calls.
Shape(p, r) ==
    \/ heard[r][p] # "waiting" /\ \E op \in Ops, arg \in 0..MaxBatches : Send(p, op, r, arg)
    \/ heard[r][p] # "waiting" /\ Hush(p, r)
    \/ Forget(p, r) /\ \E answer \in Heard \ {"waiting"} : Hears(p, r, answer)
    \/ UNCHANGED <<net, party, heard>>

LEMMA SendShape ==
    ASSUME NEW p, NEW r, heard[r][p] # "waiting", NEW op \in Ops, NEW arg \in 0..MaxBatches,
           Send(p, op, r, arg)
    PROVE  Shape(p, r)
BY DEF Shape

LEMMA CallShape ==
    ASSUME STInv, NEW r \in Runs, Calls(r) PROVE \E p \in Parties : Shape(p, r)
<1>1. /\ child[r] \in Child /\ PhaseOf(child[r], watch[r])
      /\ child[r].doing \notin Waits => heard[r]["child"] # "waiting"
      /\ heard[r]["parent"] = "waiting" => watch[r] = "aborting" \/ r \in retrying
      /\ r \in stuck => watch[r] = "done"
      /\ retrying \subseteq stuck
  BY ChildIs DEF STInv, WaitInv, Got, ParentGot, Waits, SuperTypeOK
<1>2. /\ "child" \in Parties /\ "parent" \in Parties /\ 0 \in 0..MaxBatches
      /\ "open" \in Ops /\ "push" \in Ops /\ "commit" \in Ops /\ "abort" \in Ops /\ "get" \in Ops
      /\ child[r].acked \in 0..MaxBatches
      /\ child[r].acked < child[r].size => child[r].acked + 1 \in 0..MaxBatches
  BY <1>1, BoundAssumption DEF Parties, Ops, Child
<1>3. ASSUME Open(r) \/ RangeCheck(r) PROVE Shape("child", r)
  <2>1. heard[r]["child"] # "waiting" /\ Send("child", "open", r, 0)
    BY <1>1, <1>3 DEF Open, RangeCheck, Doing, Got, Waits
  <2> QED BY <1>2, <2>1, SendShape
<1>4. ASSUME PushNext(r) PROVE Shape("child", r)
  <2>1. heard[r]["child"] # "waiting" /\ Send("child", "push", r, child[r].acked + 1)
    BY <1>1, <1>4 DEF PushNext, Doing, Waits
  <2>2. child[r].acked + 1 \in 0..MaxBatches
    BY <1>2, <1>4 DEF PushNext
  <2> QED BY <1>2, <2>1, <2>2, SendShape
<1>5. ASSUME FailStreaming(r) PROVE Shape("child", r)
  <2>1. heard[r]["child"] # "waiting"
    BY <1>1, <1>5 DEF FailStreaming, Doing, Got, HasAnswer, Waits
  <2>2. Send("child", "abort", r, 0)
    BY <1>5 DEF FailStreaming
  <2> QED BY <1>2, <2>1, <2>2, SendShape
<1>6. ASSUME Commit(r) \/ AskWhatHappened(r) PROVE Shape("child", r)
  <2>1. heard[r]["child"] # "waiting"
    BY <1>1, <1>6 DEF Commit, AskWhatHappened, Doing, Got, Waits
  <2>2. Send("child", "commit", r, child[r].acked) \/ Send("child", "get", r, 0)
    BY <1>6 DEF Commit, AskWhatHappened
  <2> QED BY <1>2, <2>1, <2>2, SendShape
<1>7. ASSUME \/ Opened(r) \/ OpenFailed(r) \/ BatchAcked(r) \/ AbortAnswered(r) \/ Committed(r)
             \/ CommitRefused(r) \/ Diagnosed(r)
      PROVE  Shape("child", r)
  BY <1>7 DEF Opened, OpenFailed, BatchAcked, AbortAnswered, Committed, CommitRefused, Diagnosed,
              Got, HasAnswer, Shape
<1>8. ASSUME FailBeforeOpen(r) \/ Drained(r) \/ Finish(r) \/ ReapEnded(r) \/ ReapPastSeal(r)
      PROVE  Shape("child", r)
  BY <1>8 DEF FailBeforeOpen, Drained, Finish, ReapEnded, ReapPastSeal, Shape, allVars, transferVars
<1>9. ASSUME Killed(r) PROVE Shape("child", r)
  <2>1. "quiet" \in Heard \ {"waiting"}
    BY DEF Heard
  <2> QED BY <1>9, <2>1 DEF Killed, Shape, Hears
<1>10. ASSUME AbortOnBehalf(r) \/ Release(r) PROVE Shape("parent", r)
  <2>1. heard[r]["parent"] # "waiting"
    BY <1>1, <1>10 DEF AbortOnBehalf, Release
  <2>2. Send("parent", "abort", r, 0)
    BY <1>10 DEF AbortOnBehalf, Release
  <2> QED BY <1>2, <2>1, <2>2, SendShape
<1>11. ASSUME OnBehalfAnswered(r) \/ Settle(r) PROVE Shape("parent", r)
  BY <1>11 DEF OnBehalfAnswered, Settle, ParentHasAnswer, ParentGot, Shape
<1>12. ASSUME NEW p \in Parties, TransportError(p, r) PROVE Shape(p, r)
  <2>1. "TRANSPORT" \in Heard \ {"waiting"}
    BY DEF Heard
  <2> QED BY <1>12, <2>1 DEF TransportError, Shape, Hears
<1>13. CASE StartRun(r) \/ ChildStep(r)
  BY <1>2, <1>3, <1>4, <1>5, <1>6, <1>7, <1>8, <1>9, <1>13 DEF StartRun, ChildStep, Step
<1>14. CASE ParentStep(r) \/ Release(r)
  BY <1>2, <1>8, <1>10, <1>11, <1>14 DEF ParentStep
<1>15. CASE Errs(r)
  BY <1>12, <1>15 DEF Errs
<1> QED BY <1>13, <1>14, <1>15 DEF Calls

\* A step concerns the calls of its own party and run alone.
LEMMA ShapeFar ==
    ASSUME STInv, NEW r \in Runs, NEW p \in Parties, Shape(p, r), NEW q \in Runs, NEW o \in Parties,
           q # r \/ o # p
    PROVE  /\ heard'[q][o] = heard[q][o]
           /\ \A m : Carries(m, o, q) => (m \in net' <=> m \in net)
           /\ \A w \in Workers : call[w].run = q => (party'[w] = o <=> party[w] = o)
<1>0. /\ heard \in [Runs -> [Parties -> Heard]] /\ net \subseteq Request
      /\ party \in [Workers -> Parties \cup {"nobody"}] /\ o # "nobody"
  BY DEF STInv, SuperTypeOK, TransferTypeOK, Parties
<1>1. ASSUME NEW op \in Ops, NEW arg \in 0..MaxBatches, Send(p, op, r, arg)
      PROVE  /\ heard'[q][o] = heard[q][o]
             /\ \A m : Carries(m, o, q) => (m \in net' <=> m \in net)
             /\ \A w \in Workers : call[w].run = q => (party'[w] = o <=> party[w] = o)
  BY <1>0, <1>1 DEF Send, Carries
<1>2. ASSUME NEW answer \in Heard, Forget(p, r), Hears(p, r, answer)
      PROVE  /\ heard'[q][o] = heard[q][o]
             /\ \A m : Carries(m, o, q) => (m \in net' <=> m \in net)
             /\ \A w \in Workers : call[w].run = q => (party'[w] = o <=> party[w] = o)
  <2>1. heard'[q][o] = heard[q][o]
    BY <1>0, <1>2 DEF Hears
  <2>2. \A w \in Workers : call[w].run = q => (party'[w] = o <=> party[w] = o)
    BY <1>0, <1>2 DEF Forget
  <2>3. ASSUME NEW m, Carries(m, o, q) PROVE m \in net' <=> m \in net
    <3>1. m \notin Abandoned(p, r)
      BY <2>3 DEF Abandoned, Carries
    <3>2. ASSUME NEW n \in Abandoned(p, r) PROVE m # [n EXCEPT !.party = "nobody"]
      <4>1. [n EXCEPT !.party = "nobody"].party = "nobody"
        BY <1>0 DEF Abandoned, Request
      <4> QED BY <1>0, <2>3, <4>1 DEF Carries
    <3> QED BY <1>2, <3>1, <3>2 DEF Forget
  <2> QED BY <2>1, <2>2, <2>3
<1>3. CASE Hush(p, r) \/ UNCHANGED <<net, party, heard>>
  BY <1>0, <1>3 DEF Hush
<1> QED BY <1>1, <1>2, <1>3 DEF Shape

LEMMA CallsPlaced ==
    ASSUME STInv, TypeOK, CallInv, NEW r \in Runs, Calls(r) PROVE CallInv'
<1>0. /\ heard \in [Runs -> [Parties -> Heard]] /\ net \subseteq Request
      /\ party \in [Workers -> Parties \cup {"nobody"}] /\ UNCHANGED call
      /\ "nobody" \notin Parties
  BY CallsLeaveAgent DEF STInv, SuperTypeOK, TransferTypeOK, Parties, sinkVars, vars
<1> PICK p \in Parties : Shape(p, r)
  BY CallShape
<1>1. ASSUME NEW q \in Runs, NEW o \in Parties, q # r \/ o # p PROVE CallOf(o, q)'
  <2>1. /\ heard'[q][o] = heard[q][o]
        /\ \A m : Carries(m, o, q) => (m \in net' <=> m \in net)
        /\ \A w \in Workers : call[w].run = q => (party'[w] = o <=> party[w] = o)
    BY <1>1, ShapeFar
  <2>2. CallOf(o, q)
    BY DEF CallInv
  <2>3. \A m \in net' : Carries(m, o, q) => m \in net
    BY <2>1
  <2>4. \A w \in Workers : Attends(w, o, q)' <=> Attends(w, o, q)
    BY <1>0, <2>1 DEF Attends
  <2> QED BY <2>1, <2>2, <2>3, <2>4 DEF CallOf, Carries
<1>2. CallOf(p, r)
  BY DEF CallInv
<1>3. ASSUME heard[r][p] # "waiting", NEW op \in Ops, NEW arg \in 0..MaxBatches, Send(p, op, r, arg)
      PROVE  CallOf(p, r)'
  <2>1. /\ \A m \in net' : Carries(m, p, r) => m = [party |-> p, op |-> op, run |-> r, arg |-> arg]
        /\ heard'[r][p] = "waiting" /\ \A w \in Workers : ~Attends(w, p, r)'
    BY <1>0, <1>2, <1>3 DEF Send, CallOf, Attends
  <2> QED BY <2>1 DEF CallOf, Carries
<1>4. ASSUME heard[r][p] # "waiting", Hush(p, r) PROVE CallOf(p, r)'
  <2>1. UNCHANGED <<net, party, call>>
    BY <1>0, <1>4 DEF Hush
  <2> QED BY <1>2, <1>4, <2>1 DEF CallOf, Carries, Attends
<1>5. ASSUME Forget(p, r) PROVE CallOf(p, r)'
  <2>1. ASSUME NEW m \in net' PROVE ~Carries(m, p, r)
    <3>1. CASE m \in net \ Abandoned(p, r)
      BY <3>1 DEF Abandoned, Carries
    <3>2. CASE m \notin net \ Abandoned(p, r)
      <4>1. PICK n \in net : m = [n EXCEPT !.party = "nobody"]
        BY <1>5, <3>2 DEF Forget, Abandoned
      <4>2. m.party = "nobody"
        BY <1>0, <4>1 DEF Request
      <4> QED BY <1>0, <4>2 DEF Carries
    <3> QED BY <3>1, <3>2
  <2>2. \A w \in Workers : ~Attends(w, p, r)'
    BY <1>0, <1>5 DEF Forget, Attends
  <2> QED BY <2>1, <2>2 DEF CallOf, Carries
<1>6. ASSUME UNCHANGED <<net, party, heard>> PROVE CallOf(p, r)'
  BY <1>0, <1>2, <1>6 DEF CallOf, Carries, Attends
<1>7. CallOf(p, r)'
  BY <1>3, <1>4, <1>5, <1>6 DEF Shape
<1>8. \A w \in Workers : party'[w] # "nobody" => call'[w].at # "idle"
  <2>1. \A w \in Workers : party'[w] \in {party[w], "nobody"}
    BY <1>0 DEF Shape, Send, Hush, Forget
  <2> QED BY <1>0, <2>1 DEF CallInv
<1>9. \A q \in Runs, o \in Parties : CallOf(o, q)'
  BY <1>1, <1>7
<1> QED BY <1>8, <1>9 DEF CallInv

LEMMA AgentPlaced ==
    ASSUME STInv, TypeOK, CallInv, AgentInv, AgentMoves PROVE CallInv'
<1>0. /\ heard \in [Runs -> [Parties -> Heard]] /\ net \subseteq Request
      /\ party \in [Workers -> Parties \cup {"nobody"}] /\ call \in [Workers -> Call]
      /\ "nobody" \notin Parties
  BY DEF STInv, SuperTypeOK, TransferTypeOK, Parties, TypeOK
<1>1. \A o \in Parties, q \in Runs : CallOf(o, q)
  BY DEF CallInv
<1>2. ASSUME NEW w \in Workers, NEW m \in net, Takes(w, m) PROVE CallInv'
  <2>1. /\ net' = net \ {m} /\ party' = [party EXCEPT ![w] = m.party] /\ heard' = heard
        /\ call'[w].run = m.run /\ call'[w].at # "idle" /\ call[w].at = "idle"
        /\ \A x \in Workers \ {w} : call'[x] = call[x] /\ party'[x] = party[x]
        /\ party'[w] = m.party
    BY <1>0, <1>2 DEF Takes, Begun, Others
  <2>2. party[w] = "nobody"
    BY <1>0, <2>1 DEF CallInv
  <2>3. ASSUME NEW q \in Runs, NEW o \in Parties PROVE CallOf(o, q)'
    <3>1. CallOf(o, q)
      BY <1>1
    <3>2. \A x \in Workers \ {w} : Attends(x, o, q)' <=> Attends(x, o, q)
      BY <2>1 DEF Attends
    <3>3. Attends(w, o, q)' <=> Carries(m, o, q)
      BY <2>1 DEF Attends, Carries
    <3>4. \A n \in net' : n \in net /\ n # m
      BY <2>1
    <3>5. CASE Carries(m, o, q)
      <4>1. \A n \in net' : ~Carries(n, o, q)
        BY <3>1, <3>4, <3>5 DEF CallOf
      <4>2. \A x \in Workers \ {w} : ~Attends(x, o, q)'
        BY <3>1, <3>2, <3>5 DEF CallOf
      <4>3. heard'[q][o] = "waiting"
        BY <2>1, <3>1, <3>5 DEF CallOf
      <4> QED BY <4>1, <4>2, <4>3 DEF CallOf, Carries
    <3>6. CASE ~Carries(m, o, q)
      <4>1. \A x \in Workers : Attends(x, o, q)' => x # w /\ Attends(x, o, q)
        BY <3>2, <3>3, <3>6
      <4> QED BY <2>1, <3>1, <3>4, <4>1 DEF CallOf, Carries
    <3> QED BY <3>5, <3>6
  <2>4. \A x \in Workers : party'[x] # "nobody" => call'[x].at # "idle"
    BY <2>1 DEF CallInv
  <2> QED BY <2>3, <2>4 DEF CallInv
<1>3. ASSUME NEW w \in Workers, Works(w) PROVE CallInv'
  <2>1. /\ net' = net /\ party' = party /\ heard' = heard
        /\ \A x \in Workers : call'[x].run = call[x].run
        /\ \A x \in Workers : call[x].at # "idle" => call'[x].at # "idle"
    BY <1>3 DEF Works, Others, GoesOn, OpenPoints, CommitPoints
  <2>2. ASSUME NEW q \in Runs, NEW o \in Parties PROVE CallOf(o, q)'
    <3>1. \A x \in Workers : Attends(x, o, q)' <=> Attends(x, o, q)
      BY <2>1 DEF Attends
    <3> QED BY <1>1, <2>1, <3>1 DEF CallOf, Carries
  <2> QED BY <2>1, <2>2 DEF CallInv
<1>4. ASSUME NEW w \in Workers, Tells(w) PROVE CallInv'
  <2>1. /\ net' = net /\ party'[w] = "nobody"
        /\ \A x \in Workers \ {w} : call'[x] = call[x] /\ party'[x] = party[x]
    BY <1>0, <1>4 DEF Tells
  <2>2. ASSUME NEW q \in Runs, NEW o \in Parties PROVE CallOf(o, q)'
    <3>1. CallOf(o, q)
      BY <1>1
    <3>2. \A x \in Workers : Attends(x, o, q)' => x # w /\ Attends(x, o, q)
      BY <1>0, <2>1 DEF Attends
    <3>3. CASE Attends(w, o, q)
      <4>1. \A n \in net' : ~Carries(n, o, q)
        BY <2>1, <3>1, <3>3 DEF CallOf
      <4>2. \A x \in Workers : ~Attends(x, o, q)'
        BY <3>1, <3>2, <3>3 DEF CallOf
      <4> QED BY <4>1, <4>2 DEF CallOf, Carries
    <3>4. CASE ~Attends(w, o, q)
      <4>1. heard'[q][o] = heard[q][o]
        BY <1>0, <1>4, <3>4 DEF Tells, Attends, Hears
      <4> QED BY <2>1, <3>1, <3>2, <4>1 DEF CallOf, Carries
    <3> QED BY <3>3, <3>4
  <2>3. \A x \in Workers : party'[x] # "nobody" => call'[x].at # "idle"
    BY <2>1 DEF CallInv
  <2> QED BY <2>2, <2>3 DEF CallInv
<1>5. CASE AgentRestart
  <2>1. net' = net /\ \A x \in Workers : party'[x] = "nobody"
    BY <1>5 DEF AgentRestart
  <2>2. ASSUME NEW q \in Runs, NEW o \in Parties PROVE CallOf(o, q)'
    <3>1. heard'[q][o] # heard[q][o] => \E x \in Workers : Attends(x, o, q)
      BY <1>5 DEF AgentRestart, Attends
    <3>2. \A x \in Workers : ~Attends(x, o, q)'
      BY <1>0, <2>1 DEF Attends
    <3>3. CallOf(o, q)
      BY <1>1
    <3>4. heard'[q][o] # "waiting" => \A n \in net' : ~Carries(n, o, q)
      BY <2>1, <3>1, <3>3 DEF CallOf
    <3> QED BY <2>1, <3>2, <3>3, <3>4 DEF CallOf, Carries
  <2> QED BY <2>1, <2>2 DEF CallInv
<1> QED BY <1>2, <1>3, <1>4, <1>5, AgentSummary

-----------------------------------------------------------------------------
(* Opens: none is left once the run is opened. *)

OpenLeft(r) == Requested("open", r) \/ Working(OpenPoints, r)
OpenOf(r) ==
    /\ Doing(r, "new") \/ Streamed(r) => ~OpenLeft(r)
    /\ Doing(r, "opening") /\ Got(r) # "TRANSPORT" =>
           /\ \A m \in net : m.op = "open" /\ m.run = r => m.party = "child"
           /\ \A w \in Workers : call[w].at \in OpenPoints /\ call[w].run = r => party[w] = "child"
OpenInv == \A r \in Runs : OpenOf(r)

\* Other runs' calls are not concerned.
Aloof(r) ==
    \A q \in Runs \ {r} :
        /\ heard'[q] = heard[q]
        /\ \A m \in net' : m.run = q => m \in net
        /\ \A w \in Workers : call[w].run = q => party'[w] = party[w]

LEMMA CallsAloof == ASSUME STInv, NEW r \in Runs, Calls(r) PROVE Aloof(r)
<1>0. /\ heard \in [Runs -> [Parties -> Heard]] /\ net \subseteq Request
      /\ party \in [Workers -> Parties \cup {"nobody"}]
  BY DEF STInv, SuperTypeOK, TransferTypeOK
<1> PICK p \in Parties : Shape(p, r)
  BY CallShape
<1>1. ASSUME NEW op \in Ops, NEW arg \in 0..MaxBatches, Send(p, op, r, arg) PROVE Aloof(r)
  BY <1>0, <1>1 DEF Send, Aloof
<1>2. ASSUME NEW answer \in Heard, Forget(p, r), Hears(p, r, answer) PROVE Aloof(r)
  <2>1. ASSUME NEW m \in net', m.run # r PROVE m \in net
    <3>1. CASE m \in net
      BY <3>1
    <3>2. CASE m \notin net
      <4>1. PICK n \in net : n.run = r /\ m = [n EXCEPT !.party = "nobody"]
        BY <1>2, <3>2 DEF Forget, Abandoned
      <4>2. m.run = r
        BY <1>0, <4>1 DEF Request
      <4> QED BY <2>1, <4>2
    <3> QED BY <3>1, <3>2
  <2>2. \A w \in Workers : call[w].run # r => party'[w] = party[w]
    BY <1>0, <1>2 DEF Forget
  <2>3. \A q \in Runs \ {r} : heard'[q] = heard[q]
    BY <1>0, <1>2 DEF Hears
  <2> QED BY <2>1, <2>2, <2>3 DEF Aloof
<1>3. ASSUME Hush(p, r) \/ UNCHANGED <<net, party, heard>> PROVE Aloof(r)
  BY <1>0, <1>3 DEF Hush, Aloof
<1> QED BY <1>1, <1>2, <1>3 DEF Shape

\* An answer that was heard leaves nothing of its call.
LEMMA NothingLeft ==
    ASSUME CallInv, NEW r \in Runs, Doing(r, "opening"), OpenOf(r), HasAnswer(r), Got(r) # "TRANSPORT"
    PROVE  ~OpenLeft(r)
<1>1. CallOf("child", r) /\ heard[r]["child"] # "waiting" /\ "child" \in Parties
  BY DEF CallInv, HasAnswer, Got, Parties
<1>2. /\ \A m \in net : m.op = "open" /\ m.run = r => m.party = "child"
      /\ \A w \in Workers : call[w].at \in OpenPoints /\ call[w].run = r => party[w] = "child"
  BY DEF OpenOf
<1>3. (\A m \in net : ~Carries(m, "child", r)) /\ (\A w \in Workers : ~Attends(w, "child", r))
  BY <1>1 DEF CallOf
<1> QED BY <1>2, <1>3 DEF OpenLeft, Requested, Working, Carries, Attends

LEMMA OpensCalls ==
    ASSUME STInv, TypeOK, CallInv, OpenInv, NEW r \in Runs, Calls(r) PROVE OpenInv'
<1>0. /\ child \in [Runs -> Child] /\ child[r] \in Child /\ PhaseOf(child[r], watch[r])
      /\ heard \in [Runs -> [Parties -> Heard]] /\ net \subseteq Request
      /\ UNCHANGED <<call, active>> /\ party \in [Workers -> Parties \cup {"nobody"}]
      /\ OpenOf(r)
  BY ChildIs, CallsLeaveAgent DEF STInv, SuperTypeOK, TransferTypeOK, sinkVars, vars, OpenInv
<1>1. ASSUME NEW q \in Runs, q # r PROVE OpenOf(q)'
  <2>1. child'[q] = child[q] /\ OpenOf(q)
    BY <1>1, ChildFate DEF Fated, OpenInv
  <2>2. /\ heard'[q] = heard[q] /\ (\A m \in net' : m.run = q => m \in net)
        /\ \A w \in Workers : call[w].run = q => party'[w] = party[w]
    BY <1>1, CallsAloof DEF Aloof
  <2>3. (Doing(q, "new") \/ Streamed(q))' => Doing(q, "new") \/ Streamed(q)
    BY <2>1 DEF Doing, Streamed
  <2>4. OpenLeft(q)' => OpenLeft(q)
    BY <1>0, <2>2 DEF OpenLeft, Requested, Working
  <2> QED BY <1>0, <2>1, <2>2, <2>3, <2>4 DEF OpenOf, Doing, Got
<1>2. ASSUME net' \subseteq net \/ \A m \in net' : m.op = "open" => Kept(m) PROVE OpenLeft(r)' => OpenLeft(r)
  BY <1>0, <1>2 DEF OpenLeft, Requested, Working, Kept
<1>3. ASSUME Open(r) \/ RangeCheck(r) PROVE OpenOf(r)'
  <2>1. ~OpenLeft(r)
    <3>1. CASE Open(r)
      BY <1>0, <3>1 DEF Open, OpenOf
    <3>2. CASE RangeCheck(r)
      BY <1>0, <3>2, NothingLeft DEF RangeCheck, HasAnswer
    <3> QED BY <1>3, <3>1, <3>2
  <2>2. child'[r].doing = "opening" /\ child'[r].stage = "PREPARING" /\ Send("child", "open", r, 0)
    BY <1>0, <1>3 DEF Open, RangeCheck, Enter, Doing, Child, PhaseOf
  <2>3. ~Streamed(r)' /\ ~Doing(r, "new")'
    BY <2>2 DEF Streamed, Doing
  <2>4. \A m \in net' : m.op = "open" /\ m.run = r => m.party = "child"
    BY <2>1, <2>2, SendKeeps DEF OpenLeft, Requested
  <2>5. \A w \in Workers : ~(call'[w].at \in OpenPoints /\ call'[w].run = r)
    BY <1>0, <2>1 DEF OpenLeft, Working
  <2> QED BY <2>3, <2>4, <2>5 DEF OpenOf
<1>4. ASSUME Opened(r) PROVE OpenOf(r)'
  <2>1. ~OpenLeft(r)
    BY <1>0, <1>4, NothingLeft DEF Opened, HasAnswer
  <2>2. net' = net /\ child'[r].doing = "fetching"
    BY <1>0, <1>4 DEF Opened, Hush, Enter, Child
  <2> QED BY <1>2, <2>1, <2>2 DEF OpenOf, Doing
<1>5. ASSUME FailBeforeOpen(r) \/ OpenFailed(r) PROVE OpenOf(r)'
  <2>1. child'[r].doing = "closing" /\ child'[r].stage = "FAILED" /\ child'[r].failedIn = "PREPARING"
    BY <1>0, <1>5 DEF FailBeforeOpen, OpenFailed, Fail, Child
  <2> QED BY <2>1 DEF OpenOf, Doing, Streamed
<1>6. ASSUME \/ PushNext(r) \/ BatchAcked(r) \/ FailStreaming(r) \/ AbortAnswered(r)
             \/ Drained(r) \/ Commit(r) \/ Committed(r) \/ CommitRefused(r)
             \/ AskWhatHappened(r) \/ Diagnosed(r) \/ Finish(r) \/ Killed(r)
      PROVE  OpenOf(r)'
  <2>1. child'[r].doing \notin {"new", "opening"}
    BY <1>0, <1>6 DEF PushNext, BatchAcked, FailStreaming, AbortAnswered, Drained, Commit, Committed,
       CommitRefused, AskWhatHappened, Diagnosed, Finish, Killed, Enter, Fail, Child
  <2>2. OpenLeft(r)' => OpenLeft(r)
    <3>1. CASE PushNext(r) \/ FailStreaming(r) \/ Commit(r) \/ AskWhatHappened(r)
      <4>1. PICK op \in {"push", "abort", "commit", "get"}, arg \in Int : Send("child", op, r, arg)
        BY <1>0, <3>1, BoundAssumption DEF PushNext, FailStreaming, Commit, AskWhatHappened, Child
      <4> QED BY <1>2, <4>1, SendKeeps DEF Kept
    <3>2. CASE BatchAcked(r) \/ AbortAnswered(r) \/ Committed(r) \/ CommitRefused(r) \/ Diagnosed(r)
      BY <1>2, <3>2 DEF BatchAcked, AbortAnswered, Committed, CommitRefused, Diagnosed, Hush
    <3>3. CASE Drained(r) \/ Finish(r)
      BY <1>2, <3>3 DEF Drained, Finish
    <3>4. CASE Killed(r)
      BY <1>2, <3>4, ForgetKeeps DEF Killed
    <3> QED BY <1>6, <3>1, <3>2, <3>3, <3>4
  <2>3. Streamed(r)' => Streamed(r) \/ Doing(r, "opening")
    BY <1>0, <1>6 DEF PushNext, BatchAcked, FailStreaming, AbortAnswered, Drained, Commit, Committed,
       CommitRefused, AskWhatHappened, Diagnosed, Finish, Killed, Enter, Fail, Child, PhaseOf, Streamed, Doing
  <2>4. ASSUME Doing(r, "opening") PROVE ~Streamed(r)'
    <3>1. child'[r] = [child[r] EXCEPT !.doing = "dead"] /\ child[r].stage = "PREPARING"
      BY <1>0, <1>6, <2>4 DEF PushNext, BatchAcked, FailStreaming, AbortAnswered, Drained, Commit, Committed,
         CommitRefused, AskWhatHappened, Diagnosed, Finish, Killed, PhaseOf, Doing
    <3>2. child'[r].stage = "PREPARING"
      BY <1>0, <3>1 DEF Child
    <3> QED BY <3>2 DEF Streamed
  <2> QED BY <1>0, <2>1, <2>2, <2>3, <2>4 DEF OpenOf, Doing
<1>7. ASSUME child' = child, Doing(r, "opening") /\ Got(r)' # "TRANSPORT" => Got(r) # "TRANSPORT",
             \A m \in net' : m.op = "open" => Kept(m),
             Doing(r, "opening") /\ Got(r)' # "TRANSPORT" =>
                 /\ \A m \in net' : m.op = "open" /\ m.run = r => m \in net \/ m.party = "child"
                 /\ \A w \in Workers : party[w] = "child" => party'[w] = "child"
      PROVE  OpenOf(r)'
  <2>1. OpenLeft(r)' => OpenLeft(r)
    BY <1>2, <1>7
  <2> QED BY <1>0, <1>7, <2>1 DEF OpenOf, Doing, Streamed
<1>8. ASSUME ParentStep(r) \/ Release(r) PROVE OpenOf(r)'
  <2>1. child' = child /\ Got(r)' = Got(r) /\ party' = party
    <3>1. CASE ReapEnded(r) \/ ReapPastSeal(r)
      BY <3>1 DEF ReapEnded, ReapPastSeal, allVars, transferVars, Got
    <3>2. CASE AbortOnBehalf(r) \/ Release(r)
      BY <1>0, <3>2 DEF AbortOnBehalf, Release, Send, Got, Parties
    <3>3. CASE OnBehalfAnswered(r) \/ Settle(r)
      BY <1>0, <3>3 DEF OnBehalfAnswered, Settle, Hush, Got, Parties
    <3> QED BY <1>8, <3>1, <3>2, <3>3 DEF ParentStep
  <2>2. \A m \in net' : m.op = "open" => m \in net
    BY <1>8 DEF ParentStep, ReapEnded, AbortOnBehalf, ReapPastSeal, OnBehalfAnswered, Settle, Release,
       allVars, transferVars, Send, Hush
  <2> QED BY <1>7, <2>1, <2>2 DEF Kept
<1>9. ASSUME Errs(r) PROVE OpenOf(r)'
  <2>1. PICK p \in Parties : TransportError(p, r)
    BY <1>9 DEF Errs
  <2>2. child' = child /\ Forget(p, r) /\ Hears(p, r, "TRANSPORT") /\ (\A m \in net' : Kept(m))
    BY <2>1, ForgetKeeps DEF TransportError, Hears
  <2>3. CASE p = "child"
    <3>1. Got(r)' = "TRANSPORT"
      BY <1>0, <2>2, <2>3 DEF Hears, Got
    <3> QED BY <1>7, <2>2, <3>1
  <2>4. CASE p = "parent"
    <3>1. Got(r)' = Got(r)
      BY <1>0, <2>2, <2>4 DEF Hears, Got
    <3>2. \A w \in Workers : party[w] = "child" => party'[w] = "child"
      BY <1>0, <2>2, <2>4 DEF Forget
    <3>3. ASSUME Doing(r, "opening"), Got(r) # "TRANSPORT", NEW m \in net', m.op = "open", m.run = r
          PROVE  m \in net
      <4> SUFFICES ASSUME m \notin net PROVE FALSE
        OBVIOUS
      <4>1. PICK n \in net : n.party = "parent" /\ n.run = r /\ m = [n EXCEPT !.party = "nobody"]
        BY <2>2, <2>4 DEF Forget, Abandoned
      <4>2. n.op = "open"
        BY <1>0, <3>3, <4>1 DEF Request
      <4> QED BY <1>0, <3>3, <4>1, <4>2 DEF OpenOf
    <3> QED BY <1>7, <2>2, <3>1, <3>2, <3>3
  <2> QED BY <2>3, <2>4 DEF Parties
<1>10. OpenOf(r)'
  <2>1. CASE StartRun(r) \/ ChildStep(r)
    BY <1>3, <1>4, <1>5, <1>6, <2>1 DEF StartRun, ChildStep, Step
  <2>2. CASE ParentStep(r) \/ Release(r) \/ Errs(r)
    BY <1>8, <1>9, <2>2
  <2> QED BY <2>1, <2>2 DEF Calls
<1>11. \A q \in Runs : OpenOf(q)'
  BY <1>1, <1>10
<1> QED BY <1>11 DEF OpenInv

LEMMA OpensAgent ==
    ASSUME AgentInv, CallInv, OpenInv, AgentMoves PROVE OpenInv'
<1>0. /\ child' = child /\ heard \in [Runs -> [Parties -> Heard]] /\ net \subseteq Request
      /\ party \in [Workers -> Parties \cup {"nobody"}] /\ call \in [Workers -> Call]
  BY AgentSummary DEF AgentInv, STInv, SuperTypeOK, TransferTypeOK, RInv, CInv, IInv, HInv, TInv, TypeOK
<1> SUFFICES ASSUME NEW r \in Runs PROVE OpenOf(r)'
  BY DEF OpenInv
<1>1. OpenOf(r)
  BY DEF OpenInv
<1>2. ASSUME NEW w \in Workers, NEW m \in net, Takes(w, m) PROVE OpenOf(r)'
  <2>1. /\ net' \subseteq net /\ party'[w] = m.party /\ heard' = heard
        /\ call'[w].run = m.run /\ (call'[w].at \in OpenPoints => m.op = "open")
        /\ \A x \in Workers \ {w} : call'[x] = call[x] /\ party'[x] = party[x]
    BY <1>0, <1>2 DEF Takes, Begun, Others, OpenPoints
  <2>2. OpenLeft(r)' => OpenLeft(r)
    BY <2>1 DEF OpenLeft, Requested, Working
  <2>3. ASSUME Doing(r, "opening"), Got(r) # "TRANSPORT", NEW x \in Workers,
               call'[x].at \in OpenPoints, call'[x].run = r
        PROVE  party'[x] = "child"
    <3>1. CASE x = w
      BY <1>1, <2>1, <2>3, <3>1 DEF OpenOf
    <3>2. CASE x # w
      BY <1>1, <2>1, <2>3, <3>2 DEF OpenOf
    <3> QED BY <3>1, <3>2
  <2> QED BY <1>0, <1>1, <2>1, <2>2, <2>3 DEF OpenOf, Doing, Streamed, Got
<1>3. ASSUME NEW w \in Workers, Works(w) PROVE OpenOf(r)'
  <2>1. /\ net' = net /\ party' = party /\ heard' = heard
        /\ \A x \in Workers : call'[x].run = call[x].run
        /\ \A x \in Workers : call'[x].at \in OpenPoints => call[x].at \in OpenPoints
    BY <1>3 DEF Works, Others, GoesOn, OpenPoints, CommitPoints
  <2>2. OpenLeft(r)' => OpenLeft(r)
    BY <2>1 DEF OpenLeft, Requested, Working
  <2> QED BY <1>0, <1>1, <2>1, <2>2 DEF OpenOf, Doing, Streamed, Got
<1>4. ASSUME NEW w \in Workers, Tells(w) PROVE OpenOf(r)'
  <2>1. /\ net' = net /\ call'[w].at \notin OpenPoints
        /\ \A x \in Workers \ {w} : call'[x] = call[x] /\ party'[x] = party[x]
    BY <1>0, <1>4 DEF Tells, IdleCall, OpenPoints
  <2>2. OpenLeft(r)' => OpenLeft(r)
    BY <2>1 DEF OpenLeft, Requested, Working
  <2>3. Got(r)' = Got(r) \/ Got(r) # "TRANSPORT"
    <3>1. CASE Attends(w, "child", r)
      <4>1. CallOf("child", r)
        BY DEF CallInv, Parties
      <4> QED BY <3>1, <4>1 DEF CallOf, Got
    <3>2. CASE ~Attends(w, "child", r)
      BY <1>0, <1>4, <3>2 DEF Tells, Attends, Hears, Got, Parties
    <3> QED BY <3>1, <3>2
  <2> QED BY <1>0, <1>1, <2>1, <2>2, <2>3 DEF OpenOf, Doing, Streamed
<1>5. CASE AgentRestart
  <2>1. net' = net /\ \A w \in Workers : call'[w].at \notin OpenPoints
    BY <1>5 DEF AgentRestart, Restart, IdleCall, OpenPoints
  <2>2. OpenLeft(r)' => OpenLeft(r)
    BY <2>1 DEF OpenLeft, Requested, Working
  <2>3. Got(r)' # "TRANSPORT" => Got(r)' = Got(r)
    BY <1>5 DEF AgentRestart, Got, Parties
  <2> QED BY <1>0, <1>1, <2>1, <2>2, <2>3 DEF OpenOf, Doing, Streamed
<1> QED BY <1>2, <1>3, <1>4, <1>5, AgentSummary

-----------------------------------------------------------------------------
(* What the agent's answers say. *)

\* The answers nothing follows from here.
Vague == Answers \ (Terminals \cup {"DROPPED", "NOT_ACTIVE", "COMMITTED", "VERIFY_FAILED", "WRITTEN"})

\* What is decided about a commit is kept to its answer.
Decided ==
    \A w \in Workers :
        /\ call[w].at = "discarded" => call[w].answer \in {"VERIFY_FAILED", "SWAP_FAILED"}
        /\ call[w].at = "dropping" => call[w].answer \in {"VERIFY_FAILED", "SWAP_FAILED", "COMMITTED"}

TakenAnswer(w, m) ==
    /\ call'[w].at = "reply" => \/ call'[w].answer \in Vague
                                \/ /\ m.op = "abort" /\ m.run \notin active'
                                   /\ Released(call'[w].answer)
    /\ call'[w].at \notin {"discarded", "dropping"}
WorkAnswer(w) ==
    /\ call'[w].at = "discarded" => call'[w].answer \in {"VERIFY_FAILED", "SWAP_FAILED"}
    /\ call'[w].at = "dropping" => \/ call[w].at = "swapped" /\ call'[w].answer = "COMMITTED"
                                   \/ call[w].at = "discarded" /\ call'[w].answer = call[w].answer
    /\ call'[w].at = "dropping" => call[w].run \notin active'
    /\ call'[w].at = "reply" =>
          \/ call'[w].answer \in Vague
          \/ call[w].at = "landed" /\ call'[w].answer = "WRITTEN"
          \/ call[w].at = "dropping" /\ call'[w].answer = call[w].answer
          \/ /\ call[w].at = "lookup"
             /\ \E i \in DOMAIN tombstones : /\ tombstones[i].run = call[w].run
                                             /\ call'[w].answer = tombstones[i].terminal

LEMMA DeliverAnswers ==
    ASSUME STInv, TypeOK, NEW w \in Workers, NEW m \in net, Deliver(w, m) PROVE TakenAnswer(w, m)
<1> USE DEF TakenAnswer
<1>1. ASSUME OpenUnreachable(w, m.run) \/ RefuseBusyTable(w, m.run) \/ RefuseOverQuota(w, m.run)
      PROVE  TakenAnswer(w, m)
  <2>1. PICK code \in Vague : Answer(w, m.run, code)
    BY <1>1 DEF OpenUnreachable, RefuseBusyTable, RefuseOverQuota, Vague, Answers, Terminals
  <2> QED BY <2>1, AnswerIs
<1>2. ASSUME RefuseBatch(w, m.run, m.arg) \/ RefuseCommit(w, m.run) \/ AbortDropFails(w, m.run)
      PROVE  TakenAnswer(w, m)
  <2>1. PICK code \in Vague : Answer(w, m.run, code)
    BY <1>2 DEF RefuseBatch, RefuseCommit, AbortDropFails, PushError, CommitError, InactiveRunError,
                Vague, Answers, Terminals
  <2> QED BY <2>1, AnswerIs
<1>3. ASSUME m.op = "abort" /\ RefuseAbort(w, m.run) PROVE TakenAnswer(w, m)
  <2>1. Answer(w, m.run, AbortError(m.run)) /\ active' = active
        /\ (m.run \in active => AbortError(m.run) \in Vague)
        /\ (m.run \notin active => Released(AbortError(m.run)))
    BY <1>3 DEF RefuseAbort, AbortError, sinkMaps, Vague, Answers, Terminals, Released
  <2> QED BY <1>3, <2>1, AnswerIs
<1>4. ASSUME m.op = "abort" /\ Abort(w, m.run) PROVE TakenAnswer(w, m)
  BY <1>4, AnswerIs DEF Abort, Released
<1>5. ASSUME Admit(w, m.run) \/ ClaimBatch(w, m.run, m.arg) PROVE TakenAnswer(w, m)
  BY <1>5, BeginIs DEF Admit, ClaimBatch
<1>6. ASSUME Seal(w, m.run, m.arg) PROVE TakenAnswer(w, m)
  BY <1>6 DEF Seal, TypeOK, IdleCall
<1>7. ASSUME GetActive(w, m.run) PROVE TakenAnswer(w, m)
  BY <1>7, AnswerIs, BeginIs DEF GetActive, Vague, Answers, Terminals
<1> QED BY <1>1, <1>2, <1>3, <1>4, <1>5, <1>6, <1>7 DEF Deliver, Handle

LEMMA ServeAnswers ==
    ASSUME TypeOK, Decided, NEW w \in Workers, Serve(w) PROVE WorkAnswer(w)
<1>0. call[w] \in Call
  BY DEF TypeOK
<1> PICK r \in Runs : Continue(w, r)
  BY DEF Serve
<1>1. ASSUME AskRangeCheck(w, r) \/ OpenFails(w, r) \/ ReturnSeat(w, r) \/ BatchFails(w, r)
      PROVE  WorkAnswer(w)
  <2>1. PICK code \in Vague : Answer(w, r, code)
    BY <1>1 DEF AskRangeCheck, OpenFails, ReturnSeat, LeaveSeat, BatchFails, Vague, Answers, Terminals
  <2> QED BY <2>1, AnswerIs DEF WorkAnswer
<1>2. ASSUME AccountBatch(w, r) PROVE WorkAnswer(w)
  BY <1>2, AnswerIs DEF AccountBatch, At, WorkAnswer
<1>3. ASSUME DropStaging(w, r) PROVE WorkAnswer(w)
  BY <1>3, AnswerIs DEF DropStaging, At, WorkAnswer
<1>4. ASSUME DropFails(w, r) PROVE WorkAnswer(w)
  <2>1. call[w].at = "dropping" /\ "SWAP_FAILED" \in Vague
        /\ (Answer(w, r, "SWAP_FAILED") \/ Answer(w, r, call[w].answer))
    BY <1>4 DEF DropFails, At, Vague, Answers, Terminals
  <2> QED BY <2>1, AnswerIs DEF WorkAnswer
<1>5. ASSUME GetTombstone(w, r) PROVE WorkAnswer(w)
  <2>1. call[w].at = "lookup" /\ call[w].run = r /\ "RUN_UNKNOWN" \in Vague
    BY <1>5 DEF GetTombstone, At, Vague, Answers, Terminals
  <2>2. CASE Answer(w, r, "RUN_UNKNOWN")
    BY <2>1, <2>2, AnswerIs DEF WorkAnswer
  <2>3. ASSUME NEW i \in TombstonesOf(r), Answer(w, r, tombstones[i].terminal) PROVE WorkAnswer(w)
    <3>1. i \in DOMAIN tombstones /\ tombstones[i].run = r
      BY DEF TombstonesOf
    <3> QED BY <2>1, <2>3, <3>1, AnswerIs DEF WorkAnswer
  <2> QED BY <1>5, <2>2, <2>3 DEF GetTombstone
<1>6. ASSUME CreateStaging(w, r) \/ InsertActive(w, r) \/ LandBatch(w, r) \/ SwapCommits(w, r)
      PROVE  WorkAnswer(w)
  <2>1. PICK point \in {"created", "inserted", "landed", "swapped"} : Goto(w, point)
    BY <1>6 DEF CreateStaging, InsertActive, LandBatch, SwapCommits
  <2> QED BY <2>1, GotoIs DEF WorkAnswer
<1>7. ASSUME Verify(w, r) PROVE WorkAnswer(w)
  <2>1. call'[w].at = "verified" \/ (call'[w].at = "discarded" /\ call'[w].answer = "VERIFY_FAILED")
    BY <1>0, <1>7 DEF Verify, TypeOK, Call
  <2> QED BY <2>1 DEF WorkAnswer
<1>8. ASSUME SwapFails(w, r) PROVE WorkAnswer(w)
  <2>1. call'[w].at = "discarded" /\ call'[w].answer = "SWAP_FAILED"
    BY <1>0, <1>8 DEF SwapFails, TypeOK, Call
  <2> QED BY <2>1 DEF WorkAnswer
<1>9. ASSUME FinishRun(w, r) PROVE WorkAnswer(w)
  <2>1. call[w].at \in {"swapped", "discarded"} /\ call[w].run = r /\ r \notin active'
    BY <1>9 DEF FinishRun, At
  <2>2. call'[w].at = "dropping"
        /\ call'[w].answer = IF call[w].at = "swapped" THEN "COMMITTED" ELSE call[w].answer
    BY <1>0, <1>9, <2>1 DEF FinishRun, At, TypeOK, Call
  <2> QED BY <2>1, <2>2 DEF WorkAnswer
<1> QED BY <1>1, <1>2, <1>3, <1>4, <1>5, <1>6, <1>7, <1>8, <1>9 DEF Continue

\* An agent's step with the answers it gives.
LEMMA AgentAnswers ==
    ASSUME AgentInv, Decided, AgentMoves
    PROVE  /\ \/ \E w \in Workers : \E m \in net : Takes(w, m) /\ TakenAnswer(w, m)
              \/ \E w \in Workers : Works(w) /\ WorkAnswer(w)
              \/ \E w \in Workers : Tells(w)
              \/ AgentRestart
           /\ Decided'
<1>1. STInv /\ TypeOK
  BY DEF AgentInv, RInv, CInv, IInv, HInv, TInv
<1>2. ASSUME NEW w \in Workers, NEW m \in net, Takes(w, m), TakenAnswer(w, m) PROVE Decided'
  BY <1>2 DEF Takes, Others, TakenAnswer, Decided
<1>3. ASSUME NEW w \in Workers, Works(w), WorkAnswer(w) PROVE Decided'
  BY <1>3 DEF Works, Others, WorkAnswer, Decided
<1>4. ASSUME NEW w \in Workers, Tells(w) PROVE Decided'
  BY <1>1, <1>4 DEF Tells, IdleCall, Decided, TypeOK
<1>5. ASSUME AgentRestart PROVE Decided'
  BY <1>5 DEF AgentRestart, Restart, IdleCall, Decided
<1>6. \/ \E w \in Workers : \E m \in net : Takes(w, m) /\ TakenAnswer(w, m)
      \/ \E w \in Workers : Works(w) /\ WorkAnswer(w)
      \/ \E w \in Workers : Tells(w)
      \/ AgentRestart
  BY <1>1, DeliverTakes, DeliverAnswers, ServeWorks, ServeAnswers, AnswerTells DEF AgentMoves, Agent
<1> QED BY <1>2, <1>3, <1>4, <1>5, <1>6

-----------------------------------------------------------------------------
(* A run whose abort was answered with a success is gone for good, and what  *)
(* was streaming when it ended is gone or booked.                            *)

Gone(r) == Aborted(r) /\ (Streamed(r) => r \notin active)

GoneInv ==
    /\ \A w \in Workers, r \in Runs :
           call[w].at = "reply" /\ call[w].run = r /\ Released(call[w].answer) => Gone(r)
    /\ \A r \in Runs, p \in Parties : Released(heard[r][p]) => Gone(r)
SettledInv ==
    \A r \in Runs :
        /\ child[r].failedIn = "STREAMING" /\ ~child[r].abortFailed => r \notin active
        /\ watch[r] = "done" /\ StreamedTo(r) /\ r \notin stuck => r \notin active

\* Nothing becomes active again once it has streamed.
LEMMA GoneStays ==
    ASSUME AgentInv, OpenInv, NEW r \in Runs, AgentMoves
    PROVE  /\ UNCHANGED <<child, watch, stuck>>
           /\ Streamed(r) /\ r \notin active => r \notin active'
           /\ Gone(r) => Gone(r)'
<1>1. UNCHANGED <<child, watch, stuck>>
  BY AgentSummary DEF parentVars
<1>2. ASSUME Streamed(r), r \notin active PROVE r \notin active'
  <2>1. ~Working(OpenPoints, r)
    BY <1>2 DEF OpenInv, OpenOf, OpenLeft
  <2>2. \A w \in Workers : call[w].at = "created" => call[w].run # r
    BY <2>1 DEF Working, OpenPoints
  <2> QED BY <1>2, <2>2, AgentSummary DEF Takes, Works, Tells, AgentRestart, Restart
<1> QED BY <1>1, <1>2 DEF Gone, Aborted, Sealing, Streamed

LEMMA GoneAgent ==
    ASSUME AgentInv, OpenInv, AbortInv, Decided, GoneInv, SettledInv, AgentMoves
    PROVE  GoneInv' /\ SettledInv'
<1>0. /\ UNCHANGED <<child, watch, stuck>> /\ heard \in [Runs -> [Parties -> Heard]]
      /\ net \subseteq Request /\ party \in [Workers -> Parties \cup {"nobody"}]
      /\ call \in [Workers -> Call]
  BY AgentSummary DEF parentVars, AgentInv, STInv, SuperTypeOK, TransferTypeOK, RInv, CInv, IInv, HInv,
                      TInv, TypeOK
<1>1. \A r \in Runs : /\ Gone(r) => Gone(r)'
                      /\ Streamed(r) /\ r \notin active => r \notin active'
  BY GoneStays
<1>2. SettledInv'
  <2> SUFFICES ASSUME NEW r \in Runs
               PROVE  /\ child[r].failedIn = "STREAMING" /\ ~child[r].abortFailed => r \notin active'
                      /\ watch[r] = "done" /\ StreamedTo(r) /\ r \notin stuck => r \notin active'
    BY <1>0 DEF SettledInv, StreamedTo
  <2>1. PhaseOf(child[r], watch[r])
    BY DEF AgentInv, STInv, PhaseInv
  <2>2. child[r].failedIn = "STREAMING" \/ StreamedTo(r) => Streamed(r)
    BY <2>1 DEF StreamedTo, Streamed, PhaseOf
  <2> QED BY <1>1, <2>2 DEF SettledInv
<1>3. ASSUME NEW w \in Workers, NEW m \in net, Takes(w, m), TakenAnswer(w, m) PROVE GoneInv'
  <2>1. /\ heard' = heard /\ call'[w].run = m.run /\ m.run \in Runs
        /\ \A x \in Workers \ {w} : call'[x] = call[x]
    BY <1>0, <1>3 DEF Takes, Others, Request
  <2>2. ASSUME call'[w].at = "reply", Released(call'[w].answer) PROVE Gone(m.run)'
    <3>1. m.op = "abort" /\ m.run \notin active'
      BY <1>3, <2>2 DEF TakenAnswer, Vague, Released
    <3>2. Aborted(m.run)
      BY <2>1, <3>1 DEF AbortInv, Requested
    <3> QED BY <1>0, <3>1, <3>2 DEF Gone, Aborted, Sealing
  <2>3. \A x \in Workers, r \in Runs :
            call'[x].at = "reply" /\ call'[x].run = r /\ Released(call'[x].answer) => Gone(r)'
    BY <1>1, <2>1, <2>2 DEF GoneInv
  <2> QED BY <1>1, <2>1, <2>3 DEF GoneInv
<1>4. ASSUME NEW w \in Workers, Works(w), WorkAnswer(w) PROVE GoneInv'
  <2>1. heard' = heard /\ \A x \in Workers \ {w} : call'[x] = call[x]
    BY <1>4 DEF Works, Others
  <2>2. ASSUME call'[w].at = "reply" PROVE ~Released(call'[w].answer)
    <3>0. tombstones \in Seq(Tombstone)
      BY DEF AgentInv, RInv, CInv, IInv, HInv, TInv, TypeOK
    <3>1. \A i \in DOMAIN tombstones : tombstones[i].terminal \in Terminals
      <4> TAKE i \in DOMAIN tombstones
      <4>1. tombstones[i] \in Tombstone
        BY <3>0
      <4> QED BY <4>1 DEF Tombstone
    <3> QED BY <1>4, <2>2, <3>1 DEF WorkAnswer, Vague, Released, Decided, Terminals
  <2>3. \A x \in Workers, r \in Runs :
            call'[x].at = "reply" /\ call'[x].run = r /\ Released(call'[x].answer) => Gone(r)'
    BY <1>1, <2>1, <2>2 DEF GoneInv
  <2> QED BY <1>1, <2>1, <2>3 DEF GoneInv
<1>5. ASSUME NEW w \in Workers, Tells(w) PROVE GoneInv'
  <2>1. /\ call[w].at = "reply" /\ call'[w].at = "idle"
        /\ \A x \in Workers \ {w} : call'[x] = call[x]
    BY <1>0, <1>5 DEF Tells, IdleCall
  <2>2. \A x \in Workers, r \in Runs :
            call'[x].at = "reply" /\ call'[x].run = r /\ Released(call'[x].answer) => Gone(r)'
    BY <1>1, <2>1 DEF GoneInv
  <2>3. ASSUME NEW r \in Runs, NEW p \in Parties, Released(heard'[r][p]) PROVE Gone(r)'
    <3>1. CASE heard'[r][p] = heard[r][p]
      BY <1>1, <2>3, <3>1 DEF GoneInv
    <3>2. CASE heard'[r][p] # heard[r][p]
      <4>1. call[w].run = r /\ heard'[r][p] = call[w].answer
        BY <1>0, <1>5, <3>2 DEF Tells, Hears
      <4> QED BY <1>1, <2>1, <2>3, <4>1 DEF GoneInv
    <3> QED BY <3>1, <3>2
  <2> QED BY <2>2, <2>3 DEF GoneInv
<1>6. ASSUME AgentRestart PROVE GoneInv'
  <2>1. \A w \in Workers : call'[w].at = "idle"
    BY <1>6 DEF AgentRestart, Restart, IdleCall
  <2>2. \A r \in Runs, p \in Parties : heard'[r][p] \in {heard[r][p], "TRANSPORT"}
    BY <1>6 DEF AgentRestart
  <2>3. \A r \in Runs, p \in Parties : Released(heard'[r][p]) => heard'[r][p] = heard[r][p]
    BY <2>2 DEF Released
  <2> QED BY <1>1, <2>1, <2>3 DEF GoneInv
<1> QED BY <1>2, <1>3, <1>4, <1>5, <1>6, AgentAnswers

\* What a party hears without the agent releases nothing.
LEMMA CallsHear ==
    ASSUME STInv, NEW r \in Runs, Calls(r), NEW q \in Runs, NEW o \in Parties
    PROVE  heard'[q][o] = heard[q][o] \/ heard'[q][o] \in {"quiet", "waiting", "TRANSPORT"}
<1>0. heard \in [Runs -> [Parties -> Heard]]
  BY DEF STInv, SuperTypeOK, TransferTypeOK
<1>1. CASE Killed(r) \/ Errs(r)
  BY <1>0, <1>1 DEF Killed, Errs, TransportError
<1>2. CASE ~(Killed(r) \/ Errs(r))
  <2>1. \/ UNCHANGED heard
        \/ \E p \in Parties, op \in Ops, arg \in Int : Send(p, op, r, arg)
        \/ \E p \in Parties : Hush(p, r)
    <3>0. "child" \in Parties /\ "parent" \in Parties /\ 0 \in Int /\ child[r].acked \in Int
          /\ child[r].acked + 1 \in Int
          /\ "open" \in Ops /\ "push" \in Ops /\ "commit" \in Ops /\ "abort" \in Ops /\ "get" \in Ops
      BY ChildIs, BoundAssumption DEF Parties, Ops, Child
    <3>1. CASE Open(r) \/ RangeCheck(r) \/ PushNext(r) \/ FailStreaming(r) \/ Commit(r) \/ AskWhatHappened(r)
      BY <3>0, <3>1 DEF Open, RangeCheck, PushNext, FailStreaming, Commit, AskWhatHappened
    <3>2. CASE AbortOnBehalf(r) \/ Release(r)
      BY <3>0, <3>2 DEF AbortOnBehalf, Release
    <3>3. CASE \/ Opened(r) \/ OpenFailed(r) \/ BatchAcked(r) \/ AbortAnswered(r) \/ Committed(r)
               \/ CommitRefused(r) \/ Diagnosed(r) \/ OnBehalfAnswered(r) \/ Settle(r)
      BY <3>0, <3>3 DEF Opened, OpenFailed, BatchAcked, AbortAnswered, Committed, CommitRefused, Diagnosed,
                        OnBehalfAnswered, Settle
    <3>4. CASE FailBeforeOpen(r) \/ Drained(r) \/ Finish(r) \/ ReapEnded(r) \/ ReapPastSeal(r)
      BY <3>4 DEF FailBeforeOpen, Drained, Finish, ReapEnded, ReapPastSeal, allVars, transferVars
    <3> QED BY <1>2, <3>1, <3>2, <3>3, <3>4 DEF Calls, StartRun, ChildStep, Step, ParentStep
  <2> QED BY <1>0, <2>1 DEF Send, Hush
<1> QED BY <1>1, <1>2

LEMMA GoneCalls ==
    ASSUME STInv, GoneInv, SettledInv, NEW r \in Runs, Calls(r) PROVE GoneInv' /\ SettledInv'
<1>0. /\ child \in [Runs -> Child] /\ child[r] \in Child /\ PhaseOf(child[r], watch[r])
      /\ watch \in [Runs -> {"none", "supervising", "aborting", "done"}] /\ stuck \subseteq Runs
      /\ UNCHANGED <<call, active>> /\ Fated(r)
  BY ChildIs, CallsLeaveAgent, ChildFate DEF STInv, SuperTypeOK, TransferTypeOK, sinkVars, vars
<1>1. \A q \in Runs \ {r} : child'[q] = child[q] /\ watch'[q] = watch[q] /\ (q \in stuck' <=> q \in stuck)
  <2>1. CASE StartRun(r) \/ ChildStep(r) \/ Errs(r) \/ Release(r)
    BY <1>0, <2>1 DEF StartRun, ChildStep, Errs, Release, parentVars, Fated
  <2>2. CASE ParentStep(r)
    BY <1>0, <2>2 DEF ParentStep, ReapEnded, AbortOnBehalf, ReapPastSeal, OnBehalfAnswered, Settle, Fated
  <2> QED BY <2>1, <2>2 DEF Calls
<1>2. \A q \in Runs : Gone(q) => Gone(q)'
  <2> TAKE q \in Runs
  <2>1. CASE q = r
    BY <1>0, <2>1 DEF Fated, Gone
  <2>2. CASE q # r
    BY <1>0, <1>1, <2>2 DEF Gone, Aborted, Sealing, Streamed
  <2> QED BY <2>1, <2>2
<1>3. GoneInv'
  <2>1. \A q \in Runs, p \in Parties : Released(heard'[q][p]) => Released(heard[q][p])
    BY CallsHear DEF Released
  <2> QED BY <1>0, <1>2, <2>1 DEF GoneInv
<1>4. ASSUME Released(ParentGot(r)) \/ Released(Got(r)), Streamed(r) PROVE r \notin active
  BY <1>4 DEF GoneInv, Gone, ParentGot, Got, Parties
<1>5. child'[r].failedIn = "STREAMING" /\ ~child'[r].abortFailed => r \notin active
  <2>1. CASE child'[r].failedIn = child[r].failedIn /\ child'[r].abortFailed = child[r].abortFailed
    BY <2>1 DEF SettledInv
  <2>2. CASE AbortAnswered(r)
    <3>1. child'[r].abortFailed = ~Released(Got(r)) /\ Streamed(r)
      BY <1>0, <2>2 DEF AbortAnswered, Child, PhaseOf, Doing, Streamed
    <3> QED BY <1>4, <3>1
  <2>3. CASE FailBeforeOpen(r) \/ OpenFailed(r) \/ CommitRefused(r) \/ Diagnosed(r)
    <3>1. child'[r].failedIn \in {"PREPARING", "COMMITTING"}
      BY <1>0, <2>3 DEF FailBeforeOpen, OpenFailed, CommitRefused, Diagnosed, Fail, Child
    <3> QED BY <3>1
  <2>4. CASE \/ Open(r) \/ RangeCheck(r) \/ Opened(r) \/ PushNext(r) \/ BatchAcked(r) \/ FailStreaming(r)
             \/ Drained(r) \/ Commit(r) \/ Committed(r) \/ AskWhatHappened(r) \/ Finish(r) \/ Killed(r)
    BY <1>0, <2>1, <2>4 DEF Open, RangeCheck, Opened, PushNext, BatchAcked, FailStreaming, Drained, Commit,
       Committed, AskWhatHappened, Finish, Killed, Enter, Child
  <2>5. CASE ParentStep(r) \/ Release(r) \/ Errs(r)
    BY <2>1, <2>5 DEF ParentStep, ReapEnded, AbortOnBehalf, ReapPastSeal, OnBehalfAnswered, Settle, Release,
       Errs, TransportError, allVars, transferVars
  <2> QED BY <2>2, <2>3, <2>4, <2>5 DEF Calls, StartRun, ChildStep, Step
<1>6. watch'[r] = "done" /\ StreamedTo(r)' /\ r \notin stuck' => r \notin active
  <2>1. CASE StartRun(r) \/ ChildStep(r)
    <3>1. watch'[r] = "supervising"
      BY <1>0, <2>1 DEF StartRun, ChildStep, parentVars
    <3> QED BY <3>1
  <2>2. CASE ReapEnded(r)
    BY <1>0, <2>2 DEF ReapEnded, allVars, transferVars, StreamedTo, SettledInv
  <2>3. CASE AbortOnBehalf(r) \/ ReapPastSeal(r)
    BY <1>0, <2>3 DEF AbortOnBehalf, ReapPastSeal, AbortAllowed, StreamedTo
  <2>4. CASE OnBehalfAnswered(r)
    <3>1. child' = child /\ (r \notin stuck' => Released(ParentGot(r)))
      BY <2>4 DEF OnBehalfAnswered
    <3>2. StreamedTo(r) => Streamed(r)
      BY <1>0 DEF StreamedTo, Streamed, PhaseOf
    <3> QED BY <1>4, <3>1, <3>2 DEF StreamedTo
  <2>5. CASE Settle(r)
    <3>1. child' = child /\ (r \notin stuck' => r \notin stuck \/ Released(ParentGot(r))) /\ watch' = watch
      BY <2>5 DEF Settle
    <3>2. StreamedTo(r) => Streamed(r)
      BY <1>0 DEF StreamedTo, Streamed, PhaseOf
    <3> QED BY <1>4, <3>1, <3>2 DEF StreamedTo, SettledInv
  <2>6. CASE Release(r) \/ Errs(r)
    BY <2>6 DEF Release, Errs, TransportError, parentVars, StreamedTo, SettledInv
  <2> QED BY <2>1, <2>2, <2>3, <2>4, <2>5, <2>6 DEF Calls, ParentStep
<1>7. SettledInv'
  <2> SUFFICES ASSUME NEW q \in Runs
               PROVE  /\ child'[q].failedIn = "STREAMING" /\ ~child'[q].abortFailed => q \notin active'
                      /\ watch'[q] = "done" /\ StreamedTo(q)' /\ q \notin stuck' => q \notin active'
    BY DEF SettledInv
  <2>1. CASE q = r
    BY <1>0, <1>5, <1>6, <2>1
  <2>2. CASE q # r
    BY <1>0, <1>1, <2>2 DEF SettledInv, StreamedTo
  <2> QED BY <2>1, <2>2
<1> QED BY <1>3, <1>7

GInv == EInv /\ CallInv /\ OpenInv /\ Decided /\ GoneInv /\ SettledInv

LEMMA GoneStep == GInv /\ [SuperNext]_superVars => GInv'
<1> SUFFICES ASSUME GInv, [SuperNext]_superVars PROVE GInv'
  OBVIOUS
<1>1. EInv' /\ AgentInv /\ STInv /\ TypeOK
  BY EndsStep DEF GInv, EInv, AgentInv, RInv, CInv, IInv, HInv, TInv
<1>2. CASE AgentMoves
  BY <1>1, <1>2, AgentPlaced, OpensAgent, AgentAnswers, GoneAgent DEF GInv, EInv
<1>3. ASSUME NEW r \in Runs, Calls(r) PROVE GInv'
  <2>1. call' = call
    BY <1>3, CallsLeaveAgent DEF sinkVars, vars
  <2>2. Decided'
    BY <2>1 DEF GInv, Decided
  <2> QED BY <1>1, <1>3, <2>2, CallsPlaced, OpensCalls, GoneCalls DEF GInv
<1>4. CASE UNCHANGED superVars
  <2>1. UNCHANGED <<call, active, child, net, party, heard, watch, stuck>>
    BY <1>4 DEF superVars, allVars, vars, transferVars, parentVars
  <2>2. CallInv' /\ OpenInv'
    BY <2>1 DEF GInv, CallInv, CallOf, Carries, Attends, OpenInv, OpenOf, OpenLeft, Requested, Working,
       Doing, Got, Streamed
  <2>3. Decided' /\ GoneInv' /\ SettledInv'
    BY <2>1 DEF GInv, Decided, GoneInv, SettledInv, Gone, Aborted, Sealing, Streamed, StreamedTo
  <2> QED BY <1>1, <2>2, <2>3 DEF GInv
<1> QED BY <1>2, <1>3, <1>4, SuperMoves

LEMMA GoneInit == SuperInit => GInv
<1> SUFFICES ASSUME SuperInit PROVE GInv
  OBVIOUS
<1>1. EInv /\ STInv
  BY EndsInit DEF EInv, AgentInv
<1>2. /\ net = {} /\ stuck = {} /\ active = {} /\ \A r \in Runs : watch[r] = "none"
      /\ \A w \in Workers : call[w].at = "idle" /\ party[w] = "nobody"
      /\ \A r \in Runs, p \in Parties : heard[r][p] = "quiet"
  BY DEF SuperInit, TransferInit, Init, IdleCall
<1>3. \A r \in Runs : child[r].doing = "new"
  BY <1>1, <1>2 DEF STInv, PhaseInv, PhaseOf
<1>4. CallInv
  BY <1>2 DEF CallInv, CallOf, Attends, Parties
<1>5. OpenInv
  BY <1>2, <1>3 DEF OpenInv, OpenOf, OpenLeft, Requested, Working, OpenPoints, Doing
<1>6. Decided /\ GoneInv /\ SettledInv
  BY <1>2 DEF Decided, GoneInv, SettledInv, Released
<1> QED BY <1>1, <1>4, <1>5, <1>6 DEF GInv

\* A run that was streaming when it failed or died is released at the agent or booked as stuck,
\* whichever calls were lost or late, whoever sent its abort, and across restarts of the agent.
THEOREM StreamingHoldsReported == SuperSpec => []StreamingHoldReported
<1>1. GInv => StreamingHoldReported
  <2> SUFFICES ASSUME GInv, NEW r \in InFlight, StreamedTo(r) PROVE Reported(r)
    BY DEF StreamingHoldReported
  <2>1. /\ r \in Runs /\ PhaseOf(child[r], watch[r]) /\ SeatUsed
        /\ watch[r] \in {"none", "supervising", "aborting", "done"}
    BY DEF GInv, EInv, AgentInv, RInv, CInv, IInv, HInv, TInv, TypeOK, InFlight, STInv, PhaseInv, SuperTypeOK
  <2>2. Streamed(r) /\ watch[r] # "none"
    BY <2>1 DEF PhaseOf, Streamed, StreamedTo
  <2>3. ~Working(OpenPoints, r)
    BY <2>1, <2>2 DEF GInv, OpenInv, OpenOf, OpenLeft
  <2>4. r \in active
    BY <2>1, <2>3 DEF InFlight, SeatUsed, Working
  <2> QED BY <2>1, <2>2, <2>4 DEF GInv, SettledInv, Reported
<1> QED BY GoneInit, GoneStep, <1>1, PTL DEF SuperSpec

-----------------------------------------------------------------------------
(* What the answers and the history say of the target table.  All of it      *)
(* rests on the tombstones being true: the acknowledgement of a swap arrives. *)

Doomed(r) == /\ r \notin active /\ openLeg[r] = 0 /\ ~HasSwapped(r)
             /\ \A w \in Workers : call[w].run = r => call[w].at \notin {"admitted", "created"}
Dooms == {r \in Runs : Doomed(r)}

Says(answer, r, dooms, moved) ==
    /\ answer \in {"VERIFY_FAILED", "DISCARDED"} => r \in dooms
    /\ answer \in {"SWAPPED", "CLEANED_AND_SWAPPED", "REPLACED", "COMMITTED"} => r \in moved

SaysInv ==
    /\ \A w \in Workers, r \in Runs :
           call[w].at \in {"dropping", "reply"} /\ call[w].run = r => Says(call[w].answer, r, Dooms, Moved)
    /\ \A r \in Runs, p \in Parties : Says(heard[r][p], r, Dooms, Moved)
ToldOf(r) ==
    /\ child[r].code = "VERIFY_FAILED" => Doomed(r)
    /\ child[r].stage = "SUCCEEDED" => HasSwapped(r)
    /\ history[r].effect = "DISCARDED" => Doomed(r) \/ Aborted(r)
    /\ history[r].effect \in {"SWAPPED", "CLEANED_AND_SWAPPED", "REPLACED"} => HasSwapped(r)

LEMMA MInvStep ==
    ASSUME "swap" \notin AckLost, MInv, [Next]_vars PROVE MInv'
BY CommitStep, EndedStep, ToldStep, TombstonesStep DEF MInv

LEMMA FatesStay ==
    ASSUME CInv, [Next]_vars, NEW r \in Runs
    PROVE  (Doomed(r) => Doomed(r)') /\ (HasSwapped(r) => HasSwapped(r)')
<1>1. CASE swaps' = swaps
  <2>1. HasSwapped(r)' <=> HasSwapped(r)
    BY <1>1 DEF HasSwapped
  <2> QED BY <2>1, OpensStep DEF Doomed
<1>2. ASSUME NEW q \in active, MoveRows(q)
      PROVE  (Doomed(r) => Doomed(r)') /\ (HasSwapped(r) => HasSwapped(r)')
  <2>1. q \in Runs
    BY DEF CInv, IInv, HInv, TInv, TypeOK
  <2>2. Moved' = Moved \cup {q}
    BY <1>2, <2>1, SwapsGrow
  <2>3. HasSwapped(r) => HasSwapped(r)'
    BY <2>2 DEF Moved
  <2>4. HasSwapped(r)' => HasSwapped(r) \/ r = q
    BY <1>2, <2>1, SwapSeen
  <2> QED BY <2>3, <2>4, OpensStep DEF Doomed
<1> QED BY <1>1, <1>2, OnlySwaps

LEMMA FatesGrow == ASSUME CInv, [Next]_vars PROVE Dooms \subseteq Dooms' /\ Moved \subseteq Moved'
BY FatesStay DEF Dooms, Moved

LEMMA SaysStays ==
    ASSUME NEW r, NEW answer, Says(answer, r, Dooms, Moved), Dooms \subseteq Dooms', Moved \subseteq Moved'
    PROVE  Says(answer, r, Dooms', Moved')
BY DEF Says

\* What is said of no swap.
LEMMA SaysNothing ==
    ASSUME NEW r, NEW answer, answer \in Vague \/ Released(answer) \/ answer = "WRITTEN"
                              \/ answer \in {"quiet", "waiting", "TRANSPORT"}
    PROVE  Says(answer, r, Dooms', Moved')
BY DEF Says, Vague, Answers, Terminals, Released

LEMMA SaysAgent ==
    ASSUME "swap" \notin AckLost, AgentInv, MInv, Decided, SaysInv, AgentMoves PROVE SaysInv'
<1>0. /\ heard \in [Runs -> [Parties -> Heard]] /\ [Next]_vars /\ CInv /\ MInv'
      /\ call \in [Workers -> Call] /\ net \subseteq Request
      /\ tombstones \in Seq(Tombstone)
  BY AgentInvStep, MInvStep, SuperMoves DEF AgentInv, STInv, SuperTypeOK, TransferTypeOK, RInv, CInv, IInv,
     HInv, TInv, TypeOK, SuperNext, AgentMoves
<1>1. Dooms \subseteq Dooms' /\ Moved \subseteq Moved'
  BY <1>0, FatesGrow
<1>2. ASSUME NEW w \in Workers, Others(w), heard' = heard,
             \A r \in Runs : call'[w].at \in {"dropping", "reply"} /\ call'[w].run = r =>
                                 Says(call'[w].answer, r, Dooms', Moved')
      PROVE  SaysInv'
  <2>1. \A x \in Workers, r \in Runs :
            call'[x].at \in {"dropping", "reply"} /\ call'[x].run = r => Says(call'[x].answer, r, Dooms', Moved')
    <3> TAKE x \in Workers, r \in Runs
    <3>1. CASE x = w
      BY <1>2, <3>1
    <3>2. CASE x # w
      BY <1>1, <1>2, <3>2, SaysStays DEF Others, SaysInv
    <3> QED BY <3>1, <3>2
  <2> QED BY <1>1, <1>2, <2>1, SaysStays DEF SaysInv
<1>3. ASSUME NEW w \in Workers, NEW m \in net, Takes(w, m), TakenAnswer(w, m) PROVE SaysInv'
  <2>1. \A r \in Runs : call'[w].at \in {"dropping", "reply"} => Says(call'[w].answer, r, Dooms', Moved')
    BY <1>3, SaysNothing DEF TakenAnswer
  <2> QED BY <1>2, <1>3, <2>1 DEF Takes
<1>4. ASSUME NEW w \in Workers, Works(w), WorkAnswer(w) PROVE SaysInv'
  <2>1. SUFFICES ASSUME NEW r \in Runs, call'[w].at \in {"dropping", "reply"}, call[w].run = r
                 PROVE  Says(call'[w].answer, r, Dooms', Moved')
    BY <1>2, <1>4, <2>1 DEF Works
  <2>2. CASE call[w].at = "swapped" /\ call'[w].answer = "COMMITTED"
    <3>1. HasSwapped(r)
      BY <2>1, <2>2 DEF MInv, ToldInv, Moved
    <3> QED BY <1>1, <2>2, <3>1 DEF Says, Moved
  <2>3. CASE call'[w].at = "dropping" /\ call[w].at = "discarded" /\ call'[w].answer = call[w].answer
    <3>1. r \in active /\ ~HasSwapped(r)
      BY <1>0, <2>1, <2>3 DEF MInv, ToldInv, Moved, CInv, CommitInv, CommitPoints
    <3>2. openLeg'[r] = 0 /\ \A x \in Workers : call'[x].run = r => call'[x].at \notin {"admitted", "created"}
      BY <1>0, <3>1, OpensStep DEF CInv, OpenedInv
    <3>3. ~HasSwapped(r)' /\ r \notin active'
      BY <1>4, <2>1, <2>3, <3>1 DEF Works, WorkAnswer
    <3>4. call'[w].answer \in {"VERIFY_FAILED", "SWAP_FAILED"}
      BY <2>3 DEF Decided
    <3>5. Doomed(r)'
      BY <3>2, <3>3 DEF Doomed
    <3> QED BY <3>4, <3>5 DEF Says, Dooms
  <2>4. CASE call'[w].answer \in Vague \/ call'[w].answer = "WRITTEN"
    BY <2>4, SaysNothing
  <2>5. CASE call[w].at = "dropping" /\ call'[w].answer = call[w].answer
    BY <1>1, <2>1, <2>5, SaysStays DEF SaysInv
  <2>6. ASSUME NEW i \in DOMAIN tombstones, tombstones[i].run = r, call'[w].answer = tombstones[i].terminal
        PROVE  Says(call'[w].answer, r, Dooms', Moved')
    <3>1. TombstonesOf(r) # {} /\ tombstones[i].terminal \in Terminals
      <4>1. tombstones[i] \in Tombstone
        BY <1>0
      <4> QED BY <2>6, <4>1 DEF TombstonesOf, Tombstone
    <3>2. tombstones[i].terminal = "DISCARDED" <=> ~HasSwapped(r)
      BY <2>6 DEF MInv, ToldTrue, Moved
    <3>3. HasSwapped(r) \/ Doomed(r)
      BY <3>1 DEF MInv, EndedInv, Doomed
    <3>4. Says(tombstones[i].terminal, r, Dooms, Moved)
      BY <3>1, <3>2, <3>3 DEF Says, Terminals, Dooms, Moved
    <3> QED BY <1>1, <2>6, <3>4, SaysStays
  <2> QED BY <1>4, <2>1, <2>2, <2>3, <2>4, <2>5, <2>6 DEF WorkAnswer
<1>5. ASSUME NEW w \in Workers, Tells(w) PROVE SaysInv'
  <2>1. /\ call[w].at = "reply" /\ call'[w].at = "idle"
        /\ \A x \in Workers \ {w} : call'[x] = call[x]
    BY <1>0, <1>5 DEF Tells, IdleCall
  <2>2. \A x \in Workers, r \in Runs :
            call'[x].at \in {"dropping", "reply"} /\ call'[x].run = r => Says(call'[x].answer, r, Dooms', Moved')
    BY <1>1, <2>1, SaysStays DEF SaysInv
  <2>3. ASSUME NEW r \in Runs, NEW p \in Parties PROVE Says(heard'[r][p], r, Dooms', Moved')
    <3>1. CASE heard'[r][p] = heard[r][p]
      BY <1>1, <3>1, SaysStays DEF SaysInv
    <3>2. CASE heard'[r][p] # heard[r][p]
      <4>1. call[w].run = r /\ heard'[r][p] = call[w].answer
        BY <1>0, <1>5, <3>2 DEF Tells, Hears
      <4> QED BY <1>1, <2>1, <4>1, SaysStays DEF SaysInv
    <3> QED BY <3>1, <3>2
  <2> QED BY <2>2, <2>3 DEF SaysInv
<1>6. ASSUME AgentRestart PROVE SaysInv'
  <2>1. \A w \in Workers : call'[w].at = "idle"
    BY <1>6 DEF AgentRestart, Restart, IdleCall
  <2>2. ASSUME NEW r \in Runs, NEW p \in Parties PROVE Says(heard'[r][p], r, Dooms', Moved')
    <3>1. heard'[r][p] \in {heard[r][p], "TRANSPORT"}
      BY <1>6 DEF AgentRestart
    <3> QED BY <1>1, <3>1, SaysNothing, SaysStays DEF SaysInv
  <2> QED BY <2>1, <2>2 DEF SaysInv
<1> QED BY <1>3, <1>4, <1>5, <1>6, AgentAnswers

LEMMA SaysCalls ==
    ASSUME STInv, SaysInv, NEW r \in Runs, Calls(r)
    PROVE  /\ UNCHANGED sinkVars /\ Dooms' = Dooms /\ Moved' = Moved /\ SaysInv'
           /\ \A q \in Runs : (Doomed(q)' <=> Doomed(q)) /\ (HasSwapped(q)' <=> HasSwapped(q))
<1>1. UNCHANGED <<active, openLeg, swaps, call>> /\ UNCHANGED sinkVars
  BY CallsLeaveAgent DEF sinkVars, vars
<1>2. \A q \in Runs : (Doomed(q)' <=> Doomed(q)) /\ (HasSwapped(q)' <=> HasSwapped(q))
  BY <1>1 DEF Doomed, HasSwapped
<1>3. Dooms' = Dooms /\ Moved' = Moved
  BY <1>2 DEF Dooms, Moved
<1>4. ASSUME NEW q \in Runs, NEW p \in Parties PROVE Says(heard'[q][p], q, Dooms', Moved')
  <2>1. heard'[q][p] = heard[q][p] \/ heard'[q][p] \in {"quiet", "waiting", "TRANSPORT"}
    BY CallsHear
  <2> QED BY <1>3, <2>1, SaysNothing DEF SaysInv
<1>5. SaysInv'
  BY <1>1, <1>3, <1>4 DEF SaysInv
<1> QED BY <1>1, <1>2, <1>3, <1>5

LEMMA ToldCalls ==
    ASSUME STInv, SaysInv, NEW r \in Runs, ToldOf(r), Calls(r) PROVE ToldOf(r)'
<1>0. /\ child \in [Runs -> Child] /\ child[r] \in Child /\ PhaseOf(child[r], watch[r])
      /\ history \in [Runs -> History] /\ history[r] \in History
      /\ (Doomed(r)' <=> Doomed(r)) /\ (HasSwapped(r)' <=> HasSwapped(r)) /\ (Aborted(r) => Aborted(r)')
  BY ChildIs, SaysCalls, ChildFate DEF STInv, SuperTypeOK, TransferTypeOK, Fated
<1>1. Says(Got(r), r, Dooms, Moved)
  BY DEF SaysInv, Got, Parties
<1>2. ASSUME child'[r].code \in {child[r].code, Got(r), "TRANSPORT"},
             child'[r].stage = "SUCCEEDED" => child[r].stage = "SUCCEEDED" \/ Got(r) = "COMMITTED",
             history'[r].effect \in {history[r].effect, "none"}
      PROVE  ToldOf(r)'
  BY <1>0, <1>1, <1>2 DEF ToldOf, Says, Dooms, Moved
<1>3. CASE FailBeforeOpen(r) \/ OpenFailed(r) \/ CommitRefused(r)
  <2>1. /\ child'[r].code = Got(r) /\ child'[r].stage = "FAILED" /\ history' = history
    BY <1>0, <1>3 DEF FailBeforeOpen, OpenFailed, CommitRefused, Fail, Child
  <2> QED BY <1>2, <2>1
<1>4. CASE Open(r) \/ RangeCheck(r) \/ Opened(r) \/ PushNext(r) \/ BatchAcked(r) \/ Drained(r) \/ Commit(r)
           \/ Killed(r)
  <2>1. /\ child'[r].code = child[r].code /\ history' = history
        /\ child'[r].stage = "SUCCEEDED" => child[r].stage = "SUCCEEDED"
    BY <1>0, <1>4 DEF Open, RangeCheck, Opened, PushNext, BatchAcked, Drained, Commit, Killed, Enter, Child
  <2> QED BY <1>2, <2>1
<1>5. CASE FailStreaming(r) \/ AskWhatHappened(r)
  <2>1. /\ child'[r].code \in {Got(r), "TRANSPORT"} /\ history' = history
        /\ child'[r].stage = child[r].stage
    BY <1>0, <1>5 DEF FailStreaming, AskWhatHappened, Child
  <2> QED BY <1>2, <2>1
<1>6. CASE AbortAnswered(r) \/ Committed(r)
  <2>1. /\ child'[r].code = child[r].code /\ history' = history
        /\ child'[r].stage = "FAILED" \/ Got(r) = "COMMITTED"
    BY <1>0, <1>6 DEF AbortAnswered, Committed, Enter, Child
  <2> QED BY <1>2, <2>1
<1>7. CASE Diagnosed(r)
  <2>1. /\ child'[r].code = child[r].code /\ child'[r].stage = "FAILED"
        /\ history'[r].effect = Verdict(Got(r))
    BY <1>0, <1>7 DEF Diagnosed, Child, History
  <2>2. Verdict(Got(r)) \in {Got(r), "UNKNOWN"}
    BY DEF Verdict
  <2> QED BY <1>0, <1>1, <2>1, <2>2 DEF ToldOf, Says, Dooms, Moved
<1>8. CASE Finish(r)
  <2>1. /\ child'[r].code = child[r].code /\ child'[r].stage = child[r].stage
        /\ history'[r].effect = IF history[r].effect = "none" THEN FoldedEffect(r) ELSE history[r].effect
        /\ child[r].doing = "closing"
    BY <1>0, <1>8 DEF Finish, Child, History, Doing
  <2>2. ASSUME history'[r].effect = FoldedEffect(r) PROVE ToldOf(r)'
    <3>1. CASE child[r].stage = "SUCCEEDED"
      <4>1. FoldedEffect(r) \in {"SWAPPED", "CLEANED_AND_SWAPPED", "REPLACED"} /\ HasSwapped(r)
        BY <3>1 DEF FoldedEffect, SwappedTerminal, ToldOf
      <4> QED BY <1>0, <2>1, <2>2, <3>1, <4>1 DEF ToldOf
    <3>2. CASE child[r].stage # "SUCCEEDED" /\ child[r].code = "VERIFY_FAILED"
      <4>1. FoldedEffect(r) = "DISCARDED" /\ Doomed(r)
        BY <3>2 DEF FoldedEffect, ToldOf
      <4> QED BY <1>0, <2>1, <2>2, <3>2, <4>1 DEF ToldOf
    <3>3. CASE child[r].stage # "SUCCEEDED" /\ child[r].code # "VERIFY_FAILED"
      <4>1. FoldedEffect(r) = "UNKNOWN" \/ (FoldedEffect(r) = "DISCARDED" /\ child[r].failedIn # "COMMITTING")
        BY <3>3 DEF FoldedEffect
      <4>2. child[r].stage = "FAILED"
        BY <1>0, <2>1, <3>3 DEF PhaseOf
      <4>3. child[r].failedIn # "COMMITTING" => Aborted(r)
        BY <2>1, <4>2 DEF Aborted, Sealing
      <4> QED BY <1>0, <2>1, <2>2, <3>3, <4>1, <4>3 DEF ToldOf
    <3> QED BY <3>1, <3>2, <3>3
  <2> QED BY <1>2, <2>1, <2>2
<1>9. CASE ParentStep(r) \/ Release(r) \/ Errs(r)
  <2>1. child' = child
    BY <1>9 DEF ParentStep, ReapEnded, AbortOnBehalf, ReapPastSeal, OnBehalfAnswered, Settle, Release,
       Errs, TransportError, allVars, transferVars
  <2>2. history'[r].effect \in {history[r].effect, "none"}
    BY <1>0, <1>9 DEF ParentStep, ReapEnded, AbortOnBehalf, ReapPastSeal, OnBehalfAnswered, Settle, Release,
       Errs, TransportError, allVars, transferVars, MarkUnknown
  <2> QED BY <1>2, <2>1, <2>2
<1> QED BY <1>3, <1>4, <1>5, <1>6, <1>7, <1>8, <1>9 DEF Calls, StartRun, ChildStep, Step

LEMMA OthersTold ==
    ASSUME STInv, SaysInv, NEW r \in Runs, NEW q \in Runs \ {r}, ToldOf(q), Calls(r) PROVE ToldOf(q)'
<1>1. history'[q] = history[q]
  <2>0. history \in [Runs -> History]
    BY DEF STInv, SuperTypeOK, TransferTypeOK
  <2>1. CASE Diagnosed(r) \/ Finish(r)
    BY <2>0, <2>1 DEF Diagnosed, Finish
  <2>2. CASE ParentStep(r) \/ Release(r) \/ Errs(r)
    BY <2>0, <2>2 DEF ParentStep, ReapEnded, AbortOnBehalf, ReapPastSeal, OnBehalfAnswered, Settle, Release,
       Errs, TransportError, allVars, transferVars, MarkUnknown
  <2>3. CASE \/ FailBeforeOpen(r) \/ Open(r) \/ RangeCheck(r) \/ Opened(r) \/ OpenFailed(r) \/ PushNext(r)
             \/ BatchAcked(r) \/ FailStreaming(r) \/ AbortAnswered(r) \/ Drained(r) \/ Commit(r)
             \/ Committed(r) \/ CommitRefused(r) \/ AskWhatHappened(r) \/ Killed(r)
    BY <2>3 DEF FailBeforeOpen, Open, RangeCheck, Opened, OpenFailed, PushNext, BatchAcked, FailStreaming,
       AbortAnswered, Drained, Commit, Committed, CommitRefused, AskWhatHappened, Killed
  <2> QED BY <2>1, <2>2, <2>3 DEF Calls, StartRun, ChildStep, Step
<1>2. child'[q] = child[q] /\ (Doomed(q)' <=> Doomed(q)) /\ (HasSwapped(q)' <=> HasSwapped(q))
  BY ChildFate, SaysCalls DEF Fated
<1>3. Aborted(q) => Aborted(q)'
  BY <1>2 DEF Aborted, Sealing
<1> QED BY <1>1, <1>2, <1>3 DEF ToldOf

FInv == EInv /\ MInv /\ Decided /\ SaysInv /\ \A r \in Runs : ToldOf(r)

LEMMA EffectsStep ==
    ASSUME "swap" \notin AckLost PROVE FInv /\ [SuperNext]_superVars => FInv'
<1> SUFFICES ASSUME FInv, [SuperNext]_superVars PROVE FInv'
  OBVIOUS
<1>1. EInv' /\ AgentInv /\ STInv /\ [Next]_vars /\ MInv' /\ CInv
  BY EndsStep, AgentInvStep, MInvStep DEF FInv, EInv, AgentInv, MInv
<1>2. CASE AgentMoves
  <2>1. SaysInv' /\ Decided'
    BY <1>1, <1>2, SaysAgent, AgentAnswers DEF FInv
  <2>2. UNCHANGED <<child, history>>
    BY <1>1, <1>2, AgentSummary
  <2>3. ASSUME NEW r \in Runs PROVE ToldOf(r)'
    <3>1. (Doomed(r) => Doomed(r)') /\ (HasSwapped(r) => HasSwapped(r)')
      BY <1>1, FatesStay
    <3>2. Aborted(r) => Aborted(r)'
      BY <2>2 DEF Aborted, Sealing
    <3> QED BY <2>2, <3>1, <3>2 DEF FInv, ToldOf
  <2> QED BY <1>1, <2>1, <2>3 DEF FInv
<1>3. ASSUME NEW r \in Runs, Calls(r) PROVE FInv'
  <2>1. SaysInv' /\ UNCHANGED sinkVars
    BY <1>1, <1>3, SaysCalls DEF FInv
  <2>2. Decided'
    BY <2>1 DEF FInv, Decided, sinkVars, vars
  <2>3. \A q \in Runs : ToldOf(q)'
    BY <1>1, <1>3, ToldCalls, OthersTold DEF FInv
  <2> QED BY <1>1, <2>1, <2>2, <2>3 DEF FInv
<1>4. CASE UNCHANGED superVars
  <2>1. UNCHANGED <<active, openLeg, swaps, call, child, heard, history>>
    BY <1>4 DEF superVars, allVars, vars, transferVars
  <2>2. \A q \in Runs : (Doomed(q)' <=> Doomed(q)) /\ (HasSwapped(q)' <=> HasSwapped(q))
                        /\ (Aborted(q)' <=> Aborted(q))
    BY <2>1 DEF Doomed, HasSwapped, Aborted, Sealing
  <2>3. Dooms' = Dooms /\ Moved' = Moved
    BY <2>2 DEF Dooms, Moved
  <2>4. SaysInv' /\ Decided'
    BY <2>1, <2>3 DEF FInv, SaysInv, Decided
  <2>5. \A q \in Runs : ToldOf(q)'
    BY <2>1, <2>2 DEF FInv, ToldOf
  <2> QED BY <1>1, <2>4, <2>5 DEF FInv
<1> QED BY <1>2, <1>3, <1>4, SuperMoves

LEMMA EffectsInit == SuperInit => FInv
<1> SUFFICES ASSUME SuperInit PROVE FInv
  OBVIOUS
<1>1. EInv /\ MInv
  BY EndsInit, MInvInit DEF SuperInit, TransferInit
<1>2. /\ \A w \in Workers : call[w].at = "idle"
      /\ \A r \in Runs, p \in Parties : heard[r][p] = "quiet"
      /\ \A r \in Runs : history[r].effect = "none"
  BY DEF SuperInit, TransferInit, Init, IdleCall
<1>3. \A r \in Runs : child[r].code = "quiet" /\ child[r].stage = "PREPARING"
  BY DEF SuperInit, TransferInit, NewChild
<1> QED BY <1>1, <1>2, <1>3 DEF FInv, Decided, SaysInv, Says, ToldOf

LEMMA EffectsTell == FInv => EffectTrue
<1> SUFFICES ASSUME FInv, NEW r \in Runs
             PROVE  /\ history[r].effect = "DISCARDED" => ~HasSwapped(r)
                    /\ history[r].effect \in Terminals \ {"DISCARDED"} => HasSwapped(r)
  BY DEF EffectTrue
<1>1. Aborted(r) => ~HasSwapped(r)
  BY DEF FInv, EInv, SealInv, Aborted
<1> QED BY <1>1 DEF FInv, ToldOf, Doomed, Terminals

\* The history never claims a swap that did not happen, and never says DISCARDED of a target that was
\* or will be swapped, whichever calls are lost, whoever dies and however often the agent restarts,
\* as long as the acknowledgement of the swap itself reaches the agent.
THEOREM EffectsAreTrue ==
    ASSUME "swap" \notin AckLost PROVE SuperSpec => []EffectTrue
<1>1. FInv /\ [SuperNext]_superVars => FInv'
  BY EffectsStep
<1> QED BY EffectsInit, EffectsTell, <1>1, PTL DEF SuperSpec

-----------------------------------------------------------------------------
(* Pushes: nothing but the batch the child waits for is under way until it   *)
(* fails, and nothing at all before it fetches on or commits.                *)

PushPoints == {"claimed", "landed"}
PushLeft(r) == Requested("push", r) \/ Working(PushPoints, r)
Quiet(r) == child[r].doing \in {"new", "opening", "fetching"} \/ Sealing(r)
PushOf(r) ==
    /\ Quiet(r) => ~PushLeft(r)
    /\ Doing(r, "pushing") /\ Got(r) # "TRANSPORT" =>
           /\ \A m \in net : m.op = "push" /\ m.run = r => m.party = "child" /\ m.arg = child[r].acked + 1
           /\ \A w \in Workers : call[w].at \in PushPoints /\ call[w].run = r =>
                  party[w] = "child" /\ call[w].arg = child[r].acked + 1
PushInv == \A r \in Runs : PushOf(r)

\* The answer to a push leaves nothing of it.
LEMMA NothingPushed ==
    ASSUME CallInv, NEW r \in Runs, Doing(r, "pushing"), PushOf(r), HasAnswer(r), Got(r) # "TRANSPORT"
    PROVE  ~PushLeft(r)
<1>1. CallOf("child", r) /\ heard[r]["child"] # "waiting" /\ "child" \in Parties
  BY DEF CallInv, HasAnswer, Got, Parties
<1>2. /\ \A m \in net : m.op = "push" /\ m.run = r => m.party = "child"
      /\ \A w \in Workers : call[w].at \in PushPoints /\ call[w].run = r => party[w] = "child"
  BY DEF PushOf
<1>3. (\A m \in net : ~Carries(m, "child", r)) /\ (\A w \in Workers : ~Attends(w, "child", r))
  BY <1>1 DEF CallOf
<1> QED BY <1>2, <1>3 DEF PushLeft, Requested, Working, Carries, Attends

LEMMA PushesCalls ==
    ASSUME STInv, TypeOK, CallInv, PushInv, NEW r \in Runs, Calls(r) PROVE PushInv'
<1>0. /\ child \in [Runs -> Child] /\ child[r] \in Child /\ PhaseOf(child[r], watch[r])
      /\ heard \in [Runs -> [Parties -> Heard]] /\ net \subseteq Request
      /\ UNCHANGED call /\ party \in [Workers -> Parties \cup {"nobody"}]
      /\ PushOf(r)
  BY ChildIs, CallsLeaveAgent DEF STInv, SuperTypeOK, TransferTypeOK, sinkVars, vars, PushInv
<1>1. ASSUME NEW q \in Runs, q # r PROVE PushOf(q)'
  <2>1. child'[q] = child[q] /\ PushOf(q)
    BY <1>1, ChildFate DEF Fated, PushInv
  <2>2. /\ heard'[q] = heard[q] /\ (\A m \in net' : m.run = q => m \in net)
        /\ \A w \in Workers : call[w].run = q => party'[w] = party[w]
    BY <1>1, CallsAloof DEF Aloof
  <2>3. Quiet(q)' => Quiet(q)
    BY <2>1 DEF Quiet, Sealing
  <2>4. PushLeft(q)' => PushLeft(q)
    BY <1>0, <2>2 DEF PushLeft, Requested, Working
  <2> QED BY <1>0, <2>1, <2>2, <2>3, <2>4 DEF PushOf, Doing, Got
<1>2. ASSUME \A m \in net' : m.op = "push" => Kept(m) PROVE PushLeft(r)' => PushLeft(r)
  BY <1>0, <1>2 DEF PushLeft, Requested, Working, Kept
<1>3. ASSUME PushNext(r) PROVE PushOf(r)'
  <2>1. ~PushLeft(r)
    BY <1>0, <1>3 DEF PushNext, PushOf, Quiet, Doing
  <2>2. /\ child'[r].doing = "pushing" /\ child'[r].stage = "STREAMING" /\ child'[r].acked = child[r].acked
        /\ Send("child", "push", r, child[r].acked + 1)
    BY <1>0, <1>3 DEF PushNext, Doing, Child, PhaseOf
  <2>3. ~Quiet(r)'
    BY <2>2 DEF Quiet, Sealing
  <2>4. \A m \in net' : m.op = "push" /\ m.run = r => m.party = "child" /\ m.arg = child'[r].acked + 1
    BY <2>1, <2>2, SendKeeps DEF PushLeft, Requested
  <2>5. \A w \in Workers : ~(call'[w].at \in PushPoints /\ call'[w].run = r)
    BY <1>0, <2>1 DEF PushLeft, Working
  <2> QED BY <2>3, <2>4, <2>5 DEF PushOf
<1>4. ASSUME BatchAcked(r) PROVE PushOf(r)'
  <2>1. ~PushLeft(r)
    BY <1>0, <1>4, NothingPushed DEF BatchAcked, HasAnswer
  <2>2. net' = net /\ child'[r].doing = "fetching"
    BY <1>0, <1>4 DEF BatchAcked, Hush, Child
  <2> QED BY <1>2, <2>1, <2>2 DEF PushOf, Doing, Kept
<1>5. ASSUME \/ FailBeforeOpen(r) \/ Open(r) \/ RangeCheck(r) \/ Opened(r) \/ OpenFailed(r)
             \/ FailStreaming(r) \/ AbortAnswered(r) \/ Drained(r) \/ Commit(r) \/ Committed(r)
             \/ CommitRefused(r) \/ AskWhatHappened(r) \/ Diagnosed(r) \/ Finish(r) \/ Killed(r)
      PROVE  PushOf(r)'
  <2>1. child'[r].doing # "pushing"
    BY <1>0, <1>5 DEF FailBeforeOpen, Open, RangeCheck, Opened, OpenFailed, FailStreaming, AbortAnswered,
       Drained, Commit, Committed, CommitRefused, AskWhatHappened, Diagnosed, Finish, Killed, Enter, Fail,
       Doing, Child
  <2>2. \A m \in net' : m.op = "push" => Kept(m)
    <3>1. CASE Open(r) \/ RangeCheck(r) \/ FailStreaming(r) \/ Commit(r) \/ AskWhatHappened(r)
      <4>1. PICK op \in {"open", "abort", "commit", "get"}, arg \in Int : Send("child", op, r, arg)
        BY <1>0, <3>1, BoundAssumption DEF Open, RangeCheck, FailStreaming, Commit, AskWhatHappened, Child
      <4> QED BY <4>1, SendKeeps DEF Kept
    <3>2. CASE Opened(r) \/ OpenFailed(r) \/ AbortAnswered(r) \/ Committed(r) \/ CommitRefused(r) \/ Diagnosed(r)
      BY <3>2 DEF Opened, OpenFailed, AbortAnswered, Committed, CommitRefused, Diagnosed, Hush, Kept
    <3>3. CASE FailBeforeOpen(r) \/ Drained(r) \/ Finish(r)
      BY <3>3 DEF FailBeforeOpen, Drained, Finish, Kept
    <3>4. CASE Killed(r)
      BY <3>4, ForgetKeeps DEF Killed
    <3> QED BY <1>5, <3>1, <3>2, <3>3, <3>4
  <2>3. Quiet(r)' => Quiet(r)
    <3>1. CASE FailBeforeOpen(r) \/ Open(r) \/ RangeCheck(r) \/ Opened(r) \/ OpenFailed(r) \/ Drained(r)
      BY <3>1 DEF FailBeforeOpen, Open, RangeCheck, Opened, OpenFailed, Drained, Doing, Quiet
    <3>2. CASE FailStreaming(r) \/ AbortAnswered(r)
      BY <1>0, <3>2 DEF FailStreaming, AbortAnswered, Doing, Quiet, Sealing, Child, PhaseOf
    <3>3. CASE Commit(r) \/ Committed(r) \/ CommitRefused(r) \/ AskWhatHappened(r) \/ Diagnosed(r)
      BY <1>0, <3>3 DEF Commit, Committed, CommitRefused, AskWhatHappened, Diagnosed, Doing, Quiet, Sealing,
         PhaseOf
    <3>4. CASE Finish(r) \/ Killed(r)
      BY <1>0, <3>4 DEF Finish, Killed, Doing, Quiet, Sealing, Child
    <3> QED BY <1>5, <3>1, <3>2, <3>3, <3>4
  <2> QED BY <1>0, <1>2, <2>1, <2>2, <2>3 DEF PushOf, Doing
<1>6. ASSUME child' = child, Doing(r, "pushing") /\ Got(r)' # "TRANSPORT" => Got(r) # "TRANSPORT",
             \A m \in net' : m.op = "push" => Kept(m),
             Doing(r, "pushing") /\ Got(r)' # "TRANSPORT" =>
                 /\ \A m \in net' : m.op = "push" /\ m.run = r => m \in net
                 /\ \A w \in Workers : party[w] = "child" => party'[w] = "child"
      PROVE  PushOf(r)'
  <2>1. PushLeft(r)' => PushLeft(r)
    BY <1>2, <1>6
  <2>2. Quiet(r)' => Quiet(r)
    BY <1>6 DEF Quiet, Sealing
  <2> QED BY <1>0, <1>6, <2>1, <2>2 DEF PushOf, Doing
<1>7. ASSUME ParentStep(r) \/ Release(r) PROVE PushOf(r)'
  <2>1. child' = child /\ Got(r)' = Got(r) /\ party' = party
    <3>1. CASE ReapEnded(r) \/ ReapPastSeal(r)
      BY <3>1 DEF ReapEnded, ReapPastSeal, allVars, transferVars, Got
    <3>2. CASE AbortOnBehalf(r) \/ Release(r)
      BY <1>0, <3>2 DEF AbortOnBehalf, Release, Send, Got, Parties
    <3>3. CASE OnBehalfAnswered(r) \/ Settle(r)
      BY <1>0, <3>3 DEF OnBehalfAnswered, Settle, Hush, Got, Parties
    <3> QED BY <1>7, <3>1, <3>2, <3>3 DEF ParentStep
  <2>2. \A m \in net' : m.op = "push" => m \in net
    BY <1>7 DEF ParentStep, ReapEnded, AbortOnBehalf, ReapPastSeal, OnBehalfAnswered, Settle, Release,
       allVars, transferVars, Send, Hush
  <2> QED BY <1>6, <2>1, <2>2 DEF Kept
<1>8. ASSUME Errs(r) PROVE PushOf(r)'
  <2>1. PICK p \in Parties : TransportError(p, r)
    BY <1>8 DEF Errs
  <2>2. child' = child /\ Forget(p, r) /\ Hears(p, r, "TRANSPORT") /\ (\A m \in net' : Kept(m))
    BY <2>1, ForgetKeeps DEF TransportError, Hears
  <2>3. CASE p = "child"
    <3>1. Got(r)' = "TRANSPORT"
      BY <1>0, <2>2, <2>3 DEF Hears, Got
    <3> QED BY <1>6, <2>2, <3>1
  <2>4. CASE p = "parent"
    <3>1. Got(r)' = Got(r)
      BY <1>0, <2>2, <2>4 DEF Hears, Got
    <3>2. \A w \in Workers : party[w] = "child" => party'[w] = "child"
      BY <1>0, <2>2, <2>4 DEF Forget
    <3>3. ASSUME Doing(r, "pushing"), Got(r) # "TRANSPORT", NEW m \in net', m.op = "push", m.run = r
          PROVE  m \in net
      <4> SUFFICES ASSUME m \notin net PROVE FALSE
        OBVIOUS
      <4>1. PICK n \in net : n.party = "parent" /\ n.run = r /\ m = [n EXCEPT !.party = "nobody"]
        BY <2>2, <2>4 DEF Forget, Abandoned
      <4>2. n.op = "push"
        BY <1>0, <3>3, <4>1 DEF Request
      <4> QED BY <1>0, <3>3, <4>1, <4>2 DEF PushOf
    <3> QED BY <1>6, <2>2, <3>1, <3>2, <3>3
  <2> QED BY <2>3, <2>4 DEF Parties
<1>9. PushOf(r)'
  <2>1. CASE StartRun(r) \/ ChildStep(r)
    BY <1>3, <1>4, <1>5, <2>1 DEF StartRun, ChildStep, Step
  <2>2. CASE ParentStep(r) \/ Release(r) \/ Errs(r)
    BY <1>7, <1>8, <2>2
  <2> QED BY <2>1, <2>2 DEF Calls
<1> QED BY <1>1, <1>9 DEF PushInv

LEMMA PushesAgent ==
    ASSUME AgentInv, CallInv, PushInv, AgentMoves PROVE PushInv'
<1>0. /\ child' = child /\ heard \in [Runs -> [Parties -> Heard]] /\ net \subseteq Request
      /\ party \in [Workers -> Parties \cup {"nobody"}] /\ call \in [Workers -> Call]
  BY AgentSummary DEF AgentInv, STInv, SuperTypeOK, TransferTypeOK, RInv, CInv, IInv, HInv, TInv, TypeOK
<1> SUFFICES ASSUME NEW r \in Runs PROVE PushOf(r)'
  BY DEF PushInv
<1>1. PushOf(r) /\ (Quiet(r)' <=> Quiet(r))
  BY <1>0 DEF PushInv, Quiet, Sealing
<1>2. ASSUME NEW w \in Workers, NEW m \in net, Takes(w, m) PROVE PushOf(r)'
  <2>1. /\ net' \subseteq net /\ party'[w] = m.party /\ heard' = heard
        /\ call'[w].run = m.run /\ (call'[w].at \in PushPoints => m.op = "push" /\ call'[w].arg = m.arg)
        /\ \A x \in Workers \ {w} : call'[x] = call[x] /\ party'[x] = party[x]
    BY <1>0, <1>2 DEF Takes, Begun, Others, PushPoints
  <2>2. PushLeft(r)' => PushLeft(r)
    BY <2>1 DEF PushLeft, Requested, Working
  <2>3. ASSUME Doing(r, "pushing"), Got(r) # "TRANSPORT", NEW x \in Workers,
               call'[x].at \in PushPoints, call'[x].run = r
        PROVE  party'[x] = "child" /\ call'[x].arg = child[r].acked + 1
    <3>1. CASE x = w
      BY <1>1, <2>1, <2>3, <3>1 DEF PushOf
    <3>2. CASE x # w
      BY <1>1, <2>1, <2>3, <3>2 DEF PushOf
    <3> QED BY <3>1, <3>2
  <2> QED BY <1>0, <1>1, <2>1, <2>2, <2>3 DEF PushOf, Doing, Got
<1>3. ASSUME NEW w \in Workers, Works(w) PROVE PushOf(r)'
  <2>1. /\ net' = net /\ party' = party /\ heard' = heard
        /\ \A x \in Workers : call'[x].run = call[x].run
        /\ \A x \in Workers : call'[x].at \in PushPoints =>
                                  call[x].at \in PushPoints /\ call'[x].arg = call[x].arg
    BY <1>3 DEF Works, Others, GoesOn, OpenPoints, CommitPoints, PushPoints
  <2>2. PushLeft(r)' => PushLeft(r)
    BY <2>1 DEF PushLeft, Requested, Working
  <2> QED BY <1>0, <1>1, <2>1, <2>2 DEF PushOf, Doing, Got
<1>4. ASSUME NEW w \in Workers, Tells(w) PROVE PushOf(r)'
  <2>1. /\ net' = net /\ call'[w].at \notin PushPoints
        /\ \A x \in Workers \ {w} : call'[x] = call[x] /\ party'[x] = party[x]
    BY <1>0, <1>4 DEF Tells, IdleCall, PushPoints
  <2>2. PushLeft(r)' => PushLeft(r)
    BY <2>1 DEF PushLeft, Requested, Working
  <2>3. Got(r)' = Got(r) \/ Got(r) # "TRANSPORT"
    <3>1. CASE Attends(w, "child", r)
      <4>1. CallOf("child", r)
        BY DEF CallInv, Parties
      <4> QED BY <3>1, <4>1 DEF CallOf, Got
    <3>2. CASE ~Attends(w, "child", r)
      BY <1>0, <1>4, <3>2 DEF Tells, Attends, Hears, Got, Parties
    <3> QED BY <3>1, <3>2
  <2> QED BY <1>0, <1>1, <2>1, <2>2, <2>3 DEF PushOf, Doing
<1>5. CASE AgentRestart
  <2>1. net' = net /\ \A w \in Workers : call'[w].at \notin PushPoints
    BY <1>5 DEF AgentRestart, Restart, IdleCall, PushPoints
  <2>2. PushLeft(r)' => PushLeft(r)
    BY <2>1 DEF PushLeft, Requested, Working
  <2>3. Got(r)' # "TRANSPORT" => Got(r)' = Got(r)
    BY <1>5 DEF AgentRestart, Got, Parties
  <2> QED BY <1>0, <1>1, <2>1, <2>2, <2>3 DEF PushOf, Doing
<1> QED BY <1>2, <1>3, <1>4, <1>5, AgentSummary

-----------------------------------------------------------------------------
(* Rows: the staging table holds the batches that were acknowledged, and the *)
(* one whose answer the child has not dealt with yet.                        *)

First(n) == [i \in 1..n |-> i]

\* The worker has the child's batch in the staging table.
HasLanded(c) == c.at = "landed" \/ (c.at = "reply" /\ c.answer = "WRITTEN")
Rests(r) == child[r].doing \in {"new", "opening", "fetching"} \/ (Sealing(r) /\ r \in active)
RowsOf(r) ==
    /\ Rests(r) => landed[r] = First(child[r].acked)
    /\ Doing(r, "pushing") =>
           /\ (\E m \in net : Carries(m, "child", r)) => landed[r] = First(child[r].acked)
           /\ \A w \in Workers : Attends(w, "child", r) =>
                  /\ call[w].at = "claimed" => landed[r] = First(child[r].acked)
                  /\ HasLanded(call[w]) => landed[r] = First(child[r].acked + 1)
           /\ Got(r) = "WRITTEN" => landed[r] = First(child[r].acked + 1)
RowsInv == \A r \in Runs : RowsOf(r)

\* The table of an active run is not about to be dropped.
DropInv == \A r \in active : ~Working({"dropping"}, r)

LEMMA FirstGrows ==
    ASSUME NEW n \in Nat PROVE Append(First(n), n + 1) = First(n + 1)
<1>1. First(n) \in Seq(Nat) /\ Len(First(n)) = n
  BY DEF First
<1>2. Append(First(n), n + 1) \in Seq(Nat) /\ First(n + 1) \in Seq(Nat)
  BY <1>1 DEF First
<1>3. Len(Append(First(n), n + 1)) = n + 1 /\ Len(First(n + 1)) = n + 1
  BY <1>1 DEF First
<1>4. ASSUME NEW i \in 1..(n + 1) PROVE Append(First(n), n + 1)[i] = First(n + 1)[i]
  BY <1>1 DEF First
<1> QED BY <1>2, <1>3, <1>4

\* What the steps of the agent do to the staging tables.
TakenRows(w, m) == \A r \in Runs : landed'[r] = landed[r] \/ (m.op = "abort" /\ m.run = r)
Lands(w, r) == call[w].at = "claimed" /\ call'[w].at = "landed" /\ call[w].run = r
WorkRows(w) ==
    \A r \in Runs :
        IF Lands(w, r) THEN landed'[r] = Append(landed[r], call[w].arg)
        ELSE landed'[r] = landed[r] \/ (call[w].at = "dropping" /\ call[w].run = r)

LEMMA AgentRows ==
    ASSUME AgentInv, Decided, AgentMoves
    PROVE  \/ \E w \in Workers : \E m \in net : Takes(w, m) /\ TakenAnswer(w, m) /\ TakenRows(w, m)
           \/ \E w \in Workers : Works(w) /\ WorkAnswer(w) /\ WorkRows(w)
           \/ \E w \in Workers : Tells(w)
           \/ AgentRestart
<1>0. STInv /\ TypeOK /\ landed \in [Runs -> Seq(Seqs)] /\ call \in [Workers -> Call]
  BY DEF AgentInv, RInv, CInv, IInv, HInv, TInv, TypeOK
<1>1. ASSUME NEW w \in Workers, NEW m \in net, Deliver(w, m) PROVE TakenRows(w, m)
  <2>1. CASE m.op = "abort"
    BY <1>0, <1>1, <2>1 DEF Deliver, Handle, RefuseAbort, Abort, AbortDropFails, DropRows, TakenRows, mysqlVars
  <2>2. CASE m.op # "abort"
    <3>1. landed' = landed
      BY <1>1, <2>2 DEF Deliver, Handle, OpenUnreachable, Admit, RefuseBusyTable, RefuseOverQuota,
         RefuseBatch, ClaimBatch, RefuseCommit, Seal, GetActive, mysqlVars
    <3> QED BY <3>1 DEF TakenRows
  <2> QED BY <2>1, <2>2
<1>2. ASSUME NEW w \in Workers, Serve(w) PROVE WorkRows(w)
  <2> PICK r \in Runs : Continue(w, r)
    BY <1>2 DEF Serve
  <2>1. CASE LandBatch(w, r)
    <3>1. call[w].at = "claimed" /\ call[w].run = r /\ call'[w].at = "landed"
      BY <1>0, <2>1, GotoIs DEF LandBatch, At
    <3>2. landed'[r] = Append(landed[r], call[w].arg) /\ \A q \in Runs \ {r} : landed'[q] = landed[q]
      BY <1>0, <2>1 DEF LandBatch
    <3> QED BY <3>1, <3>2 DEF WorkRows, Lands
  <2>2. CASE DropStaging(w, r) \/ DropFails(w, r)
    <3>1. call[w].at = "dropping" /\ call[w].run = r /\ \A q \in Runs \ {r} : landed'[q] = landed[q]
      BY <1>0, <2>2 DEF DropStaging, DropFails, At, DropRows
    <3> QED BY <3>1 DEF WorkRows, Lands
  <2>3. CASE ~(LandBatch(w, r) \/ DropStaging(w, r) \/ DropFails(w, r))
    <3>1. landed' = landed
      BY <2>3 DEF Continue, AskRangeCheck, OpenFails, CreateStaging, InsertActive, ReturnSeat, BatchFails,
         AccountBatch, Verify, SwapCommits, SwapFails, FinishRun, GetTombstone, mysqlVars
    <3>2. call[w].at = "claimed" => call'[w].at # "landed"
      <4>1. ASSUME call[w].at = "claimed" PROVE BatchFails(w, r)
        BY <2>3, <4>1 DEF Continue, AskRangeCheck, OpenFails, CreateStaging, InsertActive, ReturnSeat,
           AccountBatch, Verify, SwapCommits, SwapFails, FinishRun, GetTombstone, At
      <4> QED BY <1>0, <4>1, AnswerIs DEF BatchFails
    <3> QED BY <3>1, <3>2 DEF WorkRows, Lands
  <2> QED BY <2>1, <2>2, <2>3
<1> QED BY <1>0, <1>1, <1>2, DeliverTakes, DeliverAnswers, ServeWorks, ServeAnswers, AnswerTells
        DEF AgentMoves, Agent

LEMMA RowsCalls ==
    ASSUME STInv, TypeOK, CallInv, RowsInv, NEW r \in Runs, Calls(r) PROVE RowsInv'
<1>0. /\ child \in [Runs -> Child] /\ child[r] \in Child /\ PhaseOf(child[r], watch[r])
      /\ heard \in [Runs -> [Parties -> Heard]] /\ net \subseteq Request
      /\ UNCHANGED <<call, active, landed>> /\ party \in [Workers -> Parties \cup {"nobody"}]
      /\ RowsOf(r) /\ WaitInv
  BY ChildIs, CallsLeaveAgent DEF STInv, SuperTypeOK, TransferTypeOK, sinkVars, vars, mysqlVars, RowsInv
<1>1. ASSUME NEW q \in Runs, q # r PROVE RowsOf(q)'
  <2>1. child'[q] = child[q] /\ RowsOf(q)
    BY <1>1, ChildFate DEF Fated, RowsInv
  <2>2. /\ heard'[q] = heard[q] /\ (\A m \in net' : m.run = q => m \in net)
        /\ \A w \in Workers : call[w].run = q => party'[w] = party[w]
    BY <1>1, CallsAloof DEF Aloof
  <2>3. Rests(q)' => Rests(q)
    BY <1>0, <2>1 DEF Rests, Sealing
  <2>4. (\E m \in net' : Carries(m, "child", q)) => \E m \in net : Carries(m, "child", q)
    BY <2>2 DEF Carries
  <2>5. \A w \in Workers : Attends(w, "child", q)' => Attends(w, "child", q)
    BY <1>0, <2>2 DEF Attends
  <2> QED BY <1>0, <2>1, <2>2, <2>3, <2>4, <2>5 DEF RowsOf, Doing, Got
<1>2. ASSUME PushNext(r) PROVE RowsOf(r)'
  <2>1. landed[r] = First(child[r].acked)
    BY <1>0, <1>2 DEF PushNext, RowsOf, Rests, Doing
  <2>2. heard[r]["child"] # "waiting" /\ CallOf("child", r)
    BY <1>0, <1>2 DEF PushNext, WaitInv, Doing, Got, CallInv, Parties
  <2>3. /\ child'[r].doing = "pushing" /\ child'[r].stage = "STREAMING" /\ child'[r].acked = child[r].acked
        /\ Send("child", "push", r, child[r].acked + 1)
    BY <1>0, <1>2 DEF PushNext, Doing, Child, PhaseOf
  <2>4. \A w \in Workers : ~Attends(w, "child", r)'
    BY <1>0, <2>2, <2>3 DEF CallOf, Attends, Send
  <2>5. Got(r)' = "waiting"
    BY <1>0, <2>3 DEF Send, Got, Parties
  <2>6. ~Rests(r)'
    BY <2>3 DEF Rests, Sealing
  <2> QED BY <1>0, <2>1, <2>3, <2>4, <2>5, <2>6 DEF RowsOf
<1>3. ASSUME BatchAcked(r) PROVE RowsOf(r)'
  <2>1. landed[r] = First(child[r].acked + 1)
    BY <1>0, <1>3 DEF BatchAcked, RowsOf
  <2>2. child'[r].doing = "fetching" /\ child'[r].acked = child[r].acked + 1
    BY <1>0, <1>3 DEF BatchAcked, Child
  <2> QED BY <1>0, <2>1, <2>2 DEF RowsOf, Doing
<1>4. ASSUME \/ FailBeforeOpen(r) \/ Open(r) \/ RangeCheck(r) \/ Opened(r) \/ OpenFailed(r)
             \/ FailStreaming(r) \/ AbortAnswered(r) \/ Drained(r) \/ Commit(r) \/ Committed(r)
             \/ CommitRefused(r) \/ AskWhatHappened(r) \/ Diagnosed(r) \/ Finish(r) \/ Killed(r)
      PROVE  RowsOf(r)'
  <2>1. child'[r].doing # "pushing" /\ child'[r].acked = child[r].acked
    BY <1>0, <1>4 DEF FailBeforeOpen, Open, RangeCheck, Opened, OpenFailed, FailStreaming, AbortAnswered,
       Drained, Commit, Committed, CommitRefused, AskWhatHappened, Diagnosed, Finish, Killed, Enter, Fail,
       Doing, Child
  <2>2. Rests(r)' => Rests(r)
    <3>1. CASE FailBeforeOpen(r) \/ Open(r) \/ RangeCheck(r) \/ Opened(r) \/ OpenFailed(r) \/ Drained(r)
      BY <3>1 DEF FailBeforeOpen, Open, RangeCheck, Opened, OpenFailed, Drained, Doing, Rests
    <3>2. CASE FailStreaming(r) \/ AbortAnswered(r)
      BY <1>0, <3>2 DEF FailStreaming, AbortAnswered, Doing, Rests, Sealing, Child, PhaseOf
    <3>3. CASE Commit(r) \/ Committed(r) \/ CommitRefused(r) \/ AskWhatHappened(r) \/ Diagnosed(r)
      <4>1. Sealing(r) /\ child'[r].doing \notin {"new", "opening", "fetching"}
        BY <1>0, <3>3 DEF Commit, Committed, CommitRefused, AskWhatHappened, Diagnosed, Enter, Fail, Doing,
           Sealing, Child, PhaseOf
      <4> QED BY <1>0, <4>1 DEF Rests
    <3>4. CASE Finish(r) \/ Killed(r)
      BY <1>0, <3>4 DEF Finish, Killed, Doing, Rests, Sealing, Child
    <3> QED BY <1>4, <3>1, <3>2, <3>3, <3>4
  <2> QED BY <1>0, <2>1, <2>2 DEF RowsOf, Doing
<1>5. ASSUME ParentStep(r) \/ Release(r) \/ Errs(r) PROVE RowsOf(r)'
  <2>1. child' = child
    BY <1>5 DEF ParentStep, ReapEnded, AbortOnBehalf, ReapPastSeal, OnBehalfAnswered, Settle, Release,
       Errs, TransportError, allVars, transferVars
  <2>2. Got(r)' = "WRITTEN" => Got(r) = "WRITTEN"
    BY CallsHear DEF Got, Parties
  <2>3. /\ \A m \in net' : m.party = "child" => m \in net
        /\ \A w \in Workers : party'[w] = "child" => party[w] = "child"
    <3>1. CASE Errs(r)
      <4>1. PICK p \in Parties : Forget(p, r)
        BY <3>1 DEF Errs, TransportError
      <4>2. \A m \in net' : m.party = "child" => m \in net
        BY <4>1, ForgetKeeps
      <4>3. \A w \in Workers : party'[w] = "child" => party[w] = "child"
        BY <1>0, <4>1 DEF Forget
      <4> QED BY <4>2, <4>3
    <3>2. CASE AbortOnBehalf(r) \/ Release(r)
      <4>1. Send("parent", "abort", r, 0)
        BY <3>2 DEF AbortOnBehalf, Release
      <4>2. \A m \in net' : m.party = "child" => m \in net
        BY <4>1, SendKeeps
      <4> QED BY <4>1, <4>2 DEF Send
    <3>3. CASE ReapEnded(r) \/ ReapPastSeal(r) \/ OnBehalfAnswered(r) \/ Settle(r)
      BY <3>3 DEF ReapEnded, ReapPastSeal, OnBehalfAnswered, Settle, Hush, allVars, transferVars
    <3> QED BY <1>5, <3>1, <3>2, <3>3 DEF ParentStep
  <2>4. (\E m \in net' : Carries(m, "child", r)) => \E m \in net : Carries(m, "child", r)
    BY <2>3 DEF Carries
  <2>5. \A w \in Workers : Attends(w, "child", r)' => Attends(w, "child", r)
    BY <1>0, <2>3 DEF Attends
  <2>6. Rests(r)' => Rests(r)
    BY <1>0, <2>1 DEF Rests, Sealing
  <2> QED BY <1>0, <2>1, <2>2, <2>4, <2>5, <2>6 DEF RowsOf, Doing
<1>6. RowsOf(r)'
  <2>1. CASE StartRun(r) \/ ChildStep(r)
    BY <1>2, <1>3, <1>4, <2>1 DEF StartRun, ChildStep, Step
  <2>2. CASE ParentStep(r) \/ Release(r) \/ Errs(r)
    BY <1>5, <2>2
  <2> QED BY <2>1, <2>2 DEF Calls
<1> QED BY <1>1, <1>6 DEF RowsInv

\* What is being dropped has streamed, and nothing that has streamed becomes active again.
LEMMA DropsAgent ==
    ASSUME AgentInv, SealInv, OpenInv, Decided, DropInv, AgentMoves PROVE DropInv'
<1>0. active \subseteq Runs /\ active' \subseteq Runs
  BY AgentInvStep, SuperMoves DEF AgentInv, RInv, CInv, IInv, HInv, TInv, TypeOK, SuperNext, AgentMoves
<1>1. ASSUME NEW r \in active', Working({"dropping"}, r), r \notin active PROVE FALSE
  <2>1. Sealing(r)
    BY <1>0, <1>1 DEF SealInv, Working, EndPoints
  <2>2. Streamed(r)
    BY <2>1 DEF Sealing, Streamed
  <2> QED BY <1>0, <1>1, <2>2, GoneStays
<1>2. ASSUME NEW w \in Workers, NEW m \in net, Takes(w, m), TakenAnswer(w, m) PROVE DropInv'
  BY <1>2 DEF Takes, Others, TakenAnswer, DropInv, Working
<1>3. ASSUME NEW w \in Workers, Works(w), WorkAnswer(w) PROVE DropInv'
  <2>1. SUFFICES ASSUME NEW r \in active', NEW x \in Workers, call'[x].at = "dropping", call'[x].run = r
                 PROVE  FALSE
    BY DEF DropInv, Working
  <2>2. CASE x = w
    BY <1>3, <2>1, <2>2 DEF Works, WorkAnswer
  <2>3. CASE x # w
    <3>1. Working({"dropping"}, r)
      BY <1>3, <2>1, <2>3 DEF Works, Others, Working
    <3> QED BY <1>1, <3>1 DEF DropInv
  <2> QED BY <2>2, <2>3
<1>4. ASSUME NEW w \in Workers, Tells(w) PROVE DropInv'
  <2>1. active' = active /\ \A x \in Workers : call'[x].at = "dropping" => call'[x] = call[x]
    <3>1. call \in [Workers -> Call]
      BY DEF AgentInv, RInv, CInv, IInv, HInv, TInv, TypeOK
    <3> QED BY <1>4, <3>1 DEF Tells, IdleCall
  <2> QED BY <2>1 DEF DropInv, Working
<1>5. CASE AgentRestart
  BY <1>5 DEF AgentRestart, Restart, DropInv
<1> QED BY <1>2, <1>3, <1>4, <1>5, AgentAnswers

LEMMA RowsAgent ==
    ASSUME AgentInv, SealInv, AbortInv, CallInv, OpenInv, PushInv, Decided, DropInv, RowsInv, AgentMoves
    PROVE  RowsInv'
<1>0. /\ child' = child /\ heard \in [Runs -> [Parties -> Heard]] /\ net \subseteq Request
      /\ party \in [Workers -> Parties \cup {"nobody"}] /\ call \in [Workers -> Call]
      /\ child \in [Runs -> Child] /\ PhaseInv
  BY AgentSummary DEF AgentInv, STInv, SuperTypeOK, TransferTypeOK, RInv, CInv, IInv, HInv, TInv, TypeOK
<1> SUFFICES ASSUME NEW r \in Runs PROVE RowsOf(r)'
  BY DEF RowsInv
<1>1. /\ RowsOf(r) /\ CallOf("child", r) /\ PhaseOf(child[r], watch[r])
      /\ child[r].acked \in Nat
  BY <1>0, BoundAssumption DEF RowsInv, CallInv, Parties, PhaseInv, Child
<1>2. Rests(r)' => Rests(r)
  <2>1. Sealing(r) /\ r \notin active => r \notin active'
    BY GoneStays DEF Sealing, Streamed
  <2> QED BY <1>0, <2>1 DEF Rests, Sealing
\* The staging table does not change.
<1>3. ASSUME landed'[r] = landed[r],
             (\E m \in net' : Carries(m, "child", r)) => \E m \in net : Carries(m, "child", r),
             Doing(r, "pushing") =>
                 \A w \in Workers : Attends(w, "child", r)' =>
                     /\ call'[w].at = "claimed" => landed[r] = First(child[r].acked)
                     /\ HasLanded(call'[w]) => landed[r] = First(child[r].acked + 1),
             Doing(r, "pushing") /\ Got(r)' = "WRITTEN" => landed[r] = First(child[r].acked + 1)
      PROVE  RowsOf(r)'
  BY <1>0, <1>1, <1>2, <1>3 DEF RowsOf, Doing
\* The child is past minding: what it pushed is dropped or will be.
<1>4. ASSUME ~Doing(r, "pushing"), ~Rests(r)' PROVE RowsOf(r)'
  BY <1>0, <1>4 DEF RowsOf, Doing
<1>5. ASSUME NEW w \in Workers, NEW m \in net, Takes(w, m), TakenAnswer(w, m), TakenRows(w, m)
      PROVE  RowsOf(r)'
  <2>1. /\ net' \subseteq net /\ party'[w] = m.party /\ heard' = heard /\ call'[w].run = m.run
        /\ \A x \in Workers \ {w} : call'[x] = call[x] /\ party'[x] = party[x]
        /\ ~HasLanded(call'[w])
    BY <1>0, <1>5 DEF Takes, Begun, Others, TakenAnswer, HasLanded, Vague, Released, Answers
  <2>2. CASE landed'[r] = landed[r]
    <3>1. ASSUME Doing(r, "pushing"), NEW x \in Workers, Attends(x, "child", r)'
          PROVE  /\ call'[x].at = "claimed" => landed[r] = First(child[r].acked)
                 /\ HasLanded(call'[x]) => landed[r] = First(child[r].acked + 1)
      <4>1. CASE x = w
        <5>1. Carries(m, "child", r)
          BY <2>1, <3>1, <4>1 DEF Attends, Carries
        <5> QED BY <1>1, <2>1, <3>1, <4>1, <5>1 DEF RowsOf
      <4>2. CASE x # w
        BY <1>1, <2>1, <3>1, <4>2 DEF RowsOf, Attends
      <4> QED BY <4>1, <4>2
    <3>2. Doing(r, "pushing") /\ Got(r)' = "WRITTEN" => landed[r] = First(child[r].acked + 1)
      BY <1>1, <2>1 DEF RowsOf, Got
    <3>3. (\E n \in net' : Carries(n, "child", r)) => \E n \in net : Carries(n, "child", r)
      BY <2>1
    <3> QED BY <1>3, <2>2, <3>1, <3>2, <3>3
  <2>3. CASE landed'[r] # landed[r]
    <3>1. Aborted(r)
      BY <1>5, <2>3 DEF TakenRows, AbortInv, Requested
    <3>2. ~Doing(r, "pushing") /\ ~Rests(r)
      BY <3>1 DEF Aborted, Doing, Rests
    <3> QED BY <1>2, <1>4, <3>2
  <2> QED BY <2>2, <2>3
<1>6. ASSUME NEW w \in Workers, Works(w), WorkAnswer(w), WorkRows(w) PROVE RowsOf(r)'
  <2>1. /\ net' = net /\ party' = party /\ heard' = heard
        /\ \A x \in Workers : call'[x].run = call[x].run
        /\ \A x \in Workers \ {w} : call'[x] = call[x]
        /\ call'[w].at # "claimed" /\ (call'[w].at = "landed" => call[w].at = "claimed")
    BY <1>6 DEF Works, Others, GoesOn, OpenPoints, CommitPoints
  <2>2. call'[w].at = "reply" /\ call'[w].answer = "WRITTEN" => call[w].at = "landed"
    <3>0. tombstones \in Seq(Tombstone)
      BY DEF AgentInv, RInv, CInv, IInv, HInv, TInv, TypeOK
    <3>1. \A i \in DOMAIN tombstones : tombstones[i].terminal # "WRITTEN"
      <4> TAKE i \in DOMAIN tombstones
      <4>1. tombstones[i] \in Tombstone
        BY <3>0
      <4> QED BY <4>1 DEF Tombstone, Terminals
    <3> QED BY <1>6, <3>1 DEF WorkAnswer, Vague, Decided
  <2>3. Got(r)' = Got(r)
    BY <2>1 DEF Got
  <2>4. \A x \in Workers : Attends(x, "child", r)' <=> Attends(x, "child", r)
    BY <2>1 DEF Attends
  <2>5. CASE Lands(w, r)
    <3>1. landed'[r] = Append(landed[r], call[w].arg)
      BY <1>6, <2>5 DEF WorkRows
    <3>2. ~Quiet(r) /\ PushOf(r)
      BY <2>5 DEF Lands, PushInv, PushOf, PushLeft, Working, PushPoints
    <3>3. ~Rests(r)
      BY <3>2 DEF Quiet, Rests
    <3>4. CASE ~Doing(r, "pushing")
      BY <1>2, <1>4, <3>3, <3>4
    <3>5. CASE Doing(r, "pushing") /\ Got(r) = "TRANSPORT"
      <4>1. /\ \A m \in net : ~Carries(m, "child", r)
            /\ \A x \in Workers : ~Attends(x, "child", r)
        BY <1>1, <3>5 DEF CallOf, Got
      <4>2. /\ \A m \in net' : ~Carries(m, "child", r)
            /\ \A x \in Workers : ~Attends(x, "child", r)'
            /\ Got(r)' # "WRITTEN"
        BY <2>1, <2>3, <2>4, <3>5, <4>1
      <4> QED BY <1>2, <3>3, <4>2 DEF RowsOf
    <3>6. CASE Doing(r, "pushing") /\ Got(r) # "TRANSPORT"
      <4>1. party[w] = "child" /\ call[w].arg = child[r].acked + 1 /\ call[w].run = r /\ call[w].at = "claimed"
        BY <2>5, <3>2, <3>6 DEF PushOf, Lands, PushPoints
      <4>2. Attends(w, "child", r)
        BY <4>1 DEF Attends
      <4>3. landed[r] = First(child[r].acked)
        BY <1>1, <3>6, <4>1, <4>2 DEF RowsOf
      <4>4. landed'[r] = First(child[r].acked + 1)
        BY <1>1, <3>1, <4>1, <4>3, FirstGrows
      <4>5. /\ \A m \in net : ~Carries(m, "child", r)
            /\ \A x \in Workers : Attends(x, "child", r) => x = w
            /\ Got(r) = "waiting"
        BY <1>1, <4>2 DEF CallOf, Got
      <4>6. /\ \A m \in net' : ~Carries(m, "child", r)
            /\ \A x \in Workers : Attends(x, "child", r)' => x = w
            /\ Got(r)' # "WRITTEN"
        BY <2>1, <2>3, <2>4, <4>5
      <4> QED BY <1>0, <1>2, <2>1, <3>3, <4>4, <4>6 DEF RowsOf
    <3> QED BY <3>4, <3>5, <3>6
  <2>6. CASE ~Lands(w, r) /\ landed'[r] = landed[r]
    <3>1. ASSUME Doing(r, "pushing"), NEW x \in Workers, Attends(x, "child", r)'
          PROVE  /\ call'[x].at = "claimed" => landed[r] = First(child[r].acked)
                 /\ HasLanded(call'[x]) => landed[r] = First(child[r].acked + 1)
      <4>1. CASE x = w
        <5>1. call[w].run = r /\ Attends(w, "child", r)
          BY <2>4, <3>1, <4>1 DEF Attends
        <5>2. HasLanded(call'[w]) => HasLanded(call[w])
          BY <2>1, <2>2, <2>6, <5>1 DEF HasLanded, Lands
        <5> QED BY <1>1, <2>1, <3>1, <4>1, <5>1, <5>2 DEF RowsOf
      <4>2. CASE x # w
        BY <1>1, <2>1, <2>4, <3>1, <4>2 DEF RowsOf
      <4> QED BY <4>1, <4>2
    <3>2. Doing(r, "pushing") /\ Got(r)' = "WRITTEN" => landed[r] = First(child[r].acked + 1)
      BY <1>1, <2>3 DEF RowsOf
    <3> QED BY <1>3, <2>1, <2>6, <3>1, <3>2
  <2>7. CASE ~Lands(w, r) /\ landed'[r] # landed[r]
    <3>1. call[w].at = "dropping" /\ call[w].run = r
      BY <1>6, <2>7 DEF WorkRows
    <3>2. Sealing(r) /\ r \notin active
      BY <3>1 DEF SealInv, EndPoints, Working, DropInv
    <3>3. ~Doing(r, "pushing") /\ ~Rests(r)
      BY <1>1, <3>2 DEF Sealing, Doing, Rests, PhaseOf
    <3> QED BY <1>2, <1>4, <3>3
  <2> QED BY <2>5, <2>6, <2>7
<1>7. ASSUME NEW w \in Workers, Tells(w) PROVE RowsOf(r)'
  <2>1. /\ net' = net /\ landed' = landed /\ party'[w] = "nobody" /\ call[w].at = "reply"
        /\ \A x \in Workers \ {w} : call'[x] = call[x] /\ party'[x] = party[x]
    BY <1>0, <1>7 DEF Tells
  <2>2. \A x \in Workers : Attends(x, "child", r)' => Attends(x, "child", r) /\ call'[x] = call[x]
    BY <2>1 DEF Attends
  <2>3. ASSUME Doing(r, "pushing"), Got(r)' = "WRITTEN" PROVE landed[r] = First(child[r].acked + 1)
    <3>1. CASE Got(r)' = Got(r)
      BY <1>1, <2>3, <3>1 DEF RowsOf
    <3>2. CASE Got(r)' # Got(r)
      <4>1. Attends(w, "child", r) /\ Got(r)' = call[w].answer
        BY <1>0, <1>7, <3>2 DEF Tells, Attends, Hears, Got, Parties
      <4> QED BY <1>1, <2>1, <2>3, <4>1 DEF RowsOf, HasLanded
    <3> QED BY <3>1, <3>2
  <2> QED BY <1>1, <1>3, <2>1, <2>2, <2>3 DEF RowsOf
<1>8. CASE AgentRestart
  <2>1. net' = net /\ landed' = landed /\ \A w \in Workers : party'[w] = "nobody"
    BY <1>8 DEF AgentRestart, Restart, mysqlVars
  <2>2. Got(r)' = "WRITTEN" => Got(r)' = Got(r)
    BY <1>8 DEF AgentRestart, Got, Parties
  <2>3. \A w \in Workers : ~Attends(w, "child", r)'
    BY <2>1 DEF Attends
  <2> QED BY <1>1, <1>3, <2>1, <2>2, <2>3 DEF RowsOf
<1> QED BY <1>5, <1>6, <1>7, <1>8, AgentRows

\* What was swapped, and what will be, is the whole result.
LEMMA SizesStay ==
    ASSUME STInv, NEW r \in Runs, Calls(r) PROVE \A q \in Runs : child'[q].size = child[q].size
<1>0. /\ child \in [Runs -> Child] /\ child[r] \in Child /\ \A q \in Runs \ {r} : child'[q] = child[q]
  BY ChildIs, ChildFate DEF STInv, SuperTypeOK, TransferTypeOK, Fated
<1>1. child'[r].size = child[r].size
  <2>1. CASE \/ FailBeforeOpen(r) \/ Open(r) \/ RangeCheck(r) \/ Opened(r) \/ OpenFailed(r)
             \/ Drained(r) \/ Committed(r) \/ CommitRefused(r)
    BY <1>0, <2>1 DEF FailBeforeOpen, Open, RangeCheck, Opened, OpenFailed, Drained, Committed, CommitRefused,
       Enter, Fail, Child
  <2>2. CASE \/ PushNext(r) \/ BatchAcked(r) \/ FailStreaming(r) \/ AbortAnswered(r) \/ Commit(r)
             \/ AskWhatHappened(r) \/ Diagnosed(r) \/ Finish(r) \/ Killed(r)
    BY <1>0, <2>2 DEF PushNext, BatchAcked, FailStreaming, AbortAnswered, Commit, AskWhatHappened, Diagnosed,
       Finish, Killed, Child
  <2>3. CASE ParentStep(r) \/ Release(r) \/ Errs(r)
    BY <2>3 DEF ParentStep, ReapEnded, AbortOnBehalf, ReapPastSeal, OnBehalfAnswered, Settle, Release,
       Errs, TransportError, allVars, transferVars
  <2> QED BY <2>1, <2>2, <2>3 DEF Calls, StartRun, ChildStep, Step
<1> QED BY <1>0, <1>1

Wholly(t) == \A i \in DOMAIN swaps[t] : swaps[t][i].rows = First(child[swaps[t][i].run].size)

LEMMA WholeSwap ==
    ASSUME AgentInv, SealInv, RowsInv, NEW q \in active, run[q].sealed PROVE landed[q] = First(child[q].size)
<1>1. q \in Runs /\ Sealing(q)
  BY DEF SealInv, AgentInv, RInv, CInv, IInv, HInv, TInv, TypeOK
<1>2. landed[q] = First(child[q].acked)
  BY <1>1 DEF RowsInv, RowsOf, Rests
<1>3. child[q].acked = child[q].size
  BY <1>1 DEF AgentInv, STInv, PhaseInv, PhaseOf, Sealing
<1> QED BY <1>2, <1>3

LEMMA WholesStay ==
    ASSUME AgentInv, SealInv, RowsInv, \A t \in Tables : Wholly(t), [SuperNext]_superVars,
           \A q \in Runs : child'[q].size = child[q].size
    PROVE  \A t \in Tables : Wholly(t)'
<1>0. [Next]_vars /\ CInv /\ swaps \in [Tables -> Seq(Swap)] /\ TableOf \in [Runs -> Tables]
      /\ active \subseteq Runs
  BY AgentInvStep, RunAssumption DEF AgentInv, RInv, CInv, IInv, HInv, TInv, TypeOK
<1> TAKE t \in Tables
<1>1. swaps[t] \in Seq(Swap) /\ Wholly(t)
  BY <1>0
<1>2. ASSUME NEW i \in DOMAIN swaps[t] PROVE swaps[t][i].rows = First(child'[swaps[t][i].run].size)
  <2>1. swaps[t][i] \in Swap
    BY <1>1
  <2>2. swaps[t][i].run \in Runs
    BY <2>1 DEF Swap
  <2> QED BY <1>1, <2>2 DEF Wholly
<1>3. CASE swaps'[t] = swaps[t]
  BY <1>2, <1>3 DEF Wholly
<1>4. CASE swaps'[t] # swaps[t]
  <2>1. PICK q \in active : run[q].sealed /\ MoveRows(q)
    BY <1>0, <1>4, OnlySwaps
  <2>2. q \in Runs /\ landed[q] = First(child[q].size)
    BY <1>0, <2>1, WholeSwap
  <2> DEFINE new == [run |-> q, rows |-> landed[q]]
  <2>3. swaps'[t] = Append(swaps[t], new)
    BY <1>0, <1>4, <2>1, <2>2 DEF MoveRows
  <2>4. new.rows = First(child'[new.run].size)
    BY <2>2
  <2> HIDE DEF new
  <2>5. ASSUME NEW i \in DOMAIN swaps'[t]
        PROVE  swaps'[t][i] = new \/ (i \in DOMAIN swaps[t] /\ swaps'[t][i] = swaps[t][i])
    BY <1>1, <2>3, <2>5
  <2> QED BY <1>2, <2>4, <2>5 DEF Wholly
<1> QED BY <1>3, <1>4

WholeInv == GInv /\ PushInv /\ DropInv /\ RowsInv /\ \A t \in Tables : Wholly(t)

LEMMA WholeStep == WholeInv /\ [SuperNext]_superVars => WholeInv'
<1> SUFFICES ASSUME WholeInv, [SuperNext]_superVars PROVE WholeInv'
  OBVIOUS
<1>1. GInv' /\ AgentInv /\ STInv /\ TypeOK /\ SealInv
  BY GoneStep DEF WholeInv, GInv, EInv, AgentInv, RInv, CInv, IInv, HInv, TInv
<1>2. CASE AgentMoves
  <2>1. PushInv' /\ DropInv' /\ RowsInv'
    BY <1>1, <1>2, PushesAgent, DropsAgent, RowsAgent DEF WholeInv, GInv, EInv
  <2>2. child' = child
    BY <1>1, <1>2, AgentSummary
  <2>3. \A t \in Tables : Wholly(t)'
    BY <1>1, <2>2, WholesStay DEF WholeInv
  <2> QED BY <1>1, <2>1, <2>3 DEF WholeInv
<1>3. ASSUME NEW r \in Runs, Calls(r) PROVE WholeInv'
  <2>1. PushInv' /\ RowsInv'
    BY <1>1, <1>3, PushesCalls, RowsCalls DEF WholeInv, GInv
  <2>2. DropInv'
    BY <1>3, CallsLeaveAgent DEF WholeInv, DropInv, Working, sinkVars, vars
  <2>3. \A t \in Tables : Wholly(t)'
    BY <1>1, <1>3, SizesStay, WholesStay DEF WholeInv
  <2> QED BY <1>1, <2>1, <2>2, <2>3 DEF WholeInv
<1>4. CASE UNCHANGED superVars
  <2>1. UNCHANGED <<call, active, child, net, party, heard, landed, swaps>>
    BY <1>4 DEF superVars, allVars, vars, transferVars, mysqlVars
  <2>2. PushInv' /\ DropInv'
    BY <2>1 DEF WholeInv, PushInv, PushOf, PushLeft, Quiet, Requested, Working, Sealing, Doing, Got, DropInv
  <2>3. RowsInv'
    BY <2>1 DEF WholeInv, RowsInv, RowsOf, Rests, Sealing, Doing, Got, Carries, Attends
  <2>4. \A t \in Tables : Wholly(t)'
    BY <2>1 DEF WholeInv, Wholly
  <2> QED BY <1>1, <2>2, <2>3, <2>4 DEF WholeInv
<1> QED BY <1>2, <1>3, <1>4, SuperMoves

LEMMA WholeInit == SuperInit => WholeInv
<1> SUFFICES ASSUME SuperInit PROVE WholeInv
  OBVIOUS
<1>1. GInv /\ STInv
  BY GoneInit DEF GInv, EInv, AgentInv
<1>2. /\ net = {} /\ active = {}
      /\ \A w \in Workers : call[w].at = "idle"
      /\ \A r \in Runs : landed[r] = <<>> /\ watch[r] = "none"
      /\ \A t \in Tables : swaps[t] = <<>>
  BY DEF SuperInit, TransferInit, Init, IdleCall
<1>3. \A r \in Runs : child[r].doing = "new" /\ child[r].acked = 0
  BY <1>1, <1>2 DEF STInv, PhaseInv, PhaseOf
<1>4. First(0) = <<>>
  BY DEF First
<1>5. PushInv /\ DropInv
  BY <1>2, <1>3 DEF PushInv, PushOf, PushLeft, Requested, Working, PushPoints, Doing, DropInv
<1>6. RowsInv
  BY <1>2, <1>3, <1>4 DEF RowsInv, RowsOf, Doing
<1>7. \A t \in Tables : Wholly(t)
  BY <1>2 DEF Wholly
<1> QED BY <1>1, <1>5, <1>6, <1>7 DEF WholeInv

\* Every import a target table ever receives is the whole result of its query, every batch once and in
\* order: whatever fails at the source or on the way, strays, overlapping aborts, killed children and
\* restarts of the agent never make half an import.
THEOREM ImportsAreWhole == SuperSpec => []WholeImport
<1>1. WholeInv => WholeImport
  BY DEF WholeInv, Wholly, First, WholeImport
<1> QED BY WholeInit, WholeStep, <1>1, PTL DEF SuperSpec

-----------------------------------------------------------------------------
(* The promise: the composition implements TargetImport. *)

LEMMA VerdictIs ==
    ASSUME NEW effect \in Effects
    PROVE  /\ effect = "DISCARDED" => VerdictOf(effect) = "untouched"
           /\ effect \in {"SWAPPED", "CLEANED_AND_SWAPPED", "REPLACED"} => VerdictOf(effect) = "imported"
           /\ effect \in {"none", "UNKNOWN"} => VerdictOf(effect) = "unknown"
           /\ VerdictOf(effect) \in Promise!Verdicts
BY DEF VerdictOf, Effects, Terminals, Promise!Verdicts

\* What a step of a run's child or parent writes into its history.
Writes(r) ==
    \/ history' = history
    \/ /\ Doing(r, "diagnosing")
       /\ history' = [history EXCEPT ![r].effect = Verdict(Got(r))]
    \/ /\ Doing(r, "closing")
       /\ history' = [history EXCEPT ![r].outcome = child[r].stage,
                                     ![r].effect = IF @ = "none" THEN FoldedEffect(r) ELSE @]
    \/ /\ Doing(r, "dead") /\ watch[r] = "supervising"
       /\ MarkUnknown(r)

LEMMA CallsWrite == ASSUME STInv, NEW r \in Runs, Calls(r) PROVE Writes(r)
<1>1. CASE Diagnosed(r) \/ Finish(r)
  BY <1>1 DEF Diagnosed, Finish, Writes
<1>2. CASE AbortOnBehalf(r) \/ ReapPastSeal(r)
  BY <1>2 DEF AbortOnBehalf, ReapPastSeal, Writes, Doing
<1>3. CASE ReapEnded(r) \/ OnBehalfAnswered(r) \/ Settle(r) \/ Release(r) \/ Errs(r)
  BY <1>3 DEF ReapEnded, OnBehalfAnswered, Settle, Release, Errs, TransportError, allVars, transferVars, Writes
<1>4. CASE \/ FailBeforeOpen(r) \/ Open(r) \/ RangeCheck(r) \/ Opened(r) \/ OpenFailed(r) \/ PushNext(r)
           \/ BatchAcked(r) \/ FailStreaming(r) \/ AbortAnswered(r) \/ Drained(r) \/ Commit(r)
           \/ Committed(r) \/ CommitRefused(r) \/ AskWhatHappened(r) \/ Killed(r)
  BY <1>4 DEF FailBeforeOpen, Open, RangeCheck, Opened, OpenFailed, PushNext, BatchAcked, FailStreaming,
     AbortAnswered, Drained, Commit, Committed, CommitRefused, AskWhatHappened, Killed, Writes
<1> QED BY <1>1, <1>2, <1>3, <1>4 DEF Calls, StartRun, ChildStep, Step, ParentStep

\* A run is over only after its child, and before that nothing but a diagnosis speaks of the target.
LineOf(r) ==
    /\ history[r].outcome # "none" =>
           child[r].doing = "ended" \/ (child[r].doing = "dead" /\ watch[r] # "supervising")
    /\ history[r].outcome = "none" /\ history[r].effect # "none" => child[r].stage = "FAILED"
LineInv == \A r \in Runs : LineOf(r)

LEMMA LinesCalls ==
    ASSUME STInv, NEW r \in Runs, LineOf(r), Calls(r) PROVE LineOf(r)'
<1>0. /\ child \in [Runs -> Child] /\ child[r] \in Child /\ PhaseOf(child[r], watch[r])
      /\ history \in [Runs -> History] /\ history[r] \in History
      /\ watch \in [Runs -> {"none", "supervising", "aborting", "done"}]
  BY ChildIs DEF STInv, SuperTypeOK, TransferTypeOK
<1>1. CASE FailBeforeOpen(r) \/ OpenFailed(r) \/ CommitRefused(r)
  BY <1>0, <1>1 DEF FailBeforeOpen, OpenFailed, CommitRefused, Fail, Child, LineOf, Doing
<1>2. CASE Open(r) \/ RangeCheck(r) \/ Opened(r) \/ PushNext(r) \/ BatchAcked(r) \/ Drained(r) \/ Commit(r)
  BY <1>0, <1>2 DEF Open, RangeCheck, Opened, PushNext, BatchAcked, Drained, Commit, Enter, Child, LineOf,
     Doing, PhaseOf
<1>3. CASE FailStreaming(r) \/ AskWhatHappened(r)
  BY <1>0, <1>3 DEF FailStreaming, AskWhatHappened, Child, LineOf, Doing, PhaseOf
<1>4. CASE AbortAnswered(r) \/ Committed(r)
  BY <1>0, <1>4 DEF AbortAnswered, Committed, Enter, Child, LineOf, Doing, PhaseOf
<1>5. CASE Killed(r) /\ watch[r] = "supervising" /\ watch' = watch
  BY <1>0, <1>5 DEF Killed, Child, LineOf
<1>6. CASE Diagnosed(r)
  BY <1>0, <1>6 DEF Diagnosed, Child, History, LineOf, Doing
<1>7. CASE Finish(r)
  BY <1>0, <1>7 DEF Finish, Child, History, LineOf, Doing, PhaseOf
<1>8. CASE AbortOnBehalf(r) \/ ReapPastSeal(r)
  BY <1>0, <1>8 DEF AbortOnBehalf, ReapPastSeal, MarkUnknown, LineOf
<1>9. CASE ReapEnded(r) \/ OnBehalfAnswered(r)
  BY <1>0, <1>9 DEF ReapEnded, OnBehalfAnswered, allVars, transferVars, LineOf
<1>10. CASE Settle(r) \/ Release(r) \/ Errs(r)
  BY <1>0, <1>10 DEF Settle, Release, Errs, TransportError, parentVars, LineOf
<1> QED BY <1>1, <1>2, <1>3, <1>4, <1>5, <1>6, <1>7, <1>8, <1>9, <1>10
        DEF Calls, StartRun, ChildStep, Step, ParentStep, parentVars

LEMMA LinesOthers ==
    ASSUME STInv, NEW r \in Runs, NEW q \in Runs \ {r}, LineOf(q), Calls(r) PROVE LineOf(q)'
<1>1. history'[q] = history[q]
  <2>1. history \in [Runs -> History]
    BY DEF STInv, SuperTypeOK, TransferTypeOK
  <2> QED BY <2>1, CallsWrite DEF Writes, MarkUnknown
<1>2. child'[q] = child[q]
  BY ChildFate DEF Fated
<1>3. watch'[q] = watch[q]
  <2>1. watch' = watch \/ \E v : watch' = [watch EXCEPT ![r] = v]
    BY DEF Calls, StartRun, ChildStep, ParentStep, ReapEnded, AbortOnBehalf, ReapPastSeal, OnBehalfAnswered,
       Settle, Release, Errs, parentVars
  <2>2. watch \in [Runs -> {"none", "supervising", "aborting", "done"}]
    BY DEF STInv, SuperTypeOK
  <2> QED BY <2>1, <2>2
<1> QED BY <1>1, <1>2, <1>3 DEF LineOf

\* The invariant of the refinement: the history is true, imports are whole, the lines are in order.
PInv == FInv /\ WholeInv /\ LineInv

LEMMA PromiseInv ==
    ASSUME "swap" \notin AckLost PROVE PInv /\ [SuperNext]_superVars => PInv'
<1> SUFFICES ASSUME PInv, [SuperNext]_superVars PROVE PInv'
  OBVIOUS
<1>1. FInv' /\ WholeInv' /\ AgentInv /\ STInv
  BY EffectsStep, WholeStep DEF PInv, WholeInv, GInv, EInv, AgentInv
<1>2. CASE AgentMoves
  <2>1. UNCHANGED <<child, history, watch>>
    BY <1>1, <1>2, AgentSummary DEF parentVars
  <2> QED BY <1>1, <2>1 DEF PInv, LineInv, LineOf
<1>3. ASSUME NEW r \in Runs, Calls(r) PROVE PInv'
  BY <1>1, <1>3, LinesCalls, LinesOthers DEF PInv, LineInv
<1>4. CASE UNCHANGED superVars
  <2>1. UNCHANGED <<child, history, watch>>
    BY <1>4 DEF superVars, allVars, transferVars, parentVars
  <2> QED BY <1>1, <2>1 DEF PInv, LineInv, LineOf
<1> QED BY <1>2, <1>3, <1>4, SuperMoves

\* The abstract state, as the composition has it.
Sizes == [r \in Runs |-> child[r].size]
Endings == [r \in Runs |-> history[r].outcome]
Said == [r \in Runs |-> VerdictOf(history[r].effect)]

LEMMA ImportedIs == ASSUME NEW r \in Runs PROVE Promise!Imported(r) <=> HasSwapped(r)
BY DEF Promise!Imported, HasSwapped

LEMMA PromiseInit == SuperInit => PInv /\ Promise!Init
<1> SUFFICES ASSUME SuperInit PROVE PInv /\ Promise!Init
  OBVIOUS
<1>1. FInv /\ WholeInv
  BY EffectsInit, WholeInit
<1>2. history = [r \in Runs |-> [outcome |-> "none", effect |-> "none"]]
  BY DEF SuperInit, TransferInit
<1>3. LineInv
  BY <1>2 DEF LineInv, LineOf
<1>4. /\ Endings = [r \in Runs |-> "none"]
      /\ Said = [r \in Runs |-> "unknown"]
  BY <1>2, VerdictIs DEF Endings, Said, Effects
<1>5. Sizes \in [Runs -> 0..MaxBatches]
  <2>1. PICK size \in [Runs -> 0..MaxBatches] : child = [r \in Runs |-> [NewChild EXCEPT !.size = size[r]]]
    BY DEF SuperInit, TransferInit
  <2> QED BY <2>1 DEF Sizes, NewChild
<1>6. swaps = [t \in Tables |-> <<>>]
  BY DEF SuperInit, TransferInit, Init
<1> QED BY <1>1, <1>3, <1>4, <1>5, <1>6 DEF PInv, Promise!Init, Sizes, Endings, Said

\* The agent imports: the run has not been imported, and nothing has been said of it.
LEMMA AgentImports ==
    ASSUME PInv, PInv', [SuperNext]_superVars, AgentMoves
    PROVE  [Promise!Next]_(Promise!importVars)
<1>0. EffectTrue'
  <2>1. FInv'
    BY DEF PInv
  <2>2. FInv' => EffectTrue'
    BY EffectsTell, PTL
  <2> QED BY <2>1, <2>2
<1>1. /\ AgentInv /\ STInv /\ SealInv /\ RowsInv /\ CInv /\ [Next]_vars /\ EffectTrue'
      /\ active \subseteq Runs /\ history \in [Runs -> History]
  <2>1. AgentInv /\ SealInv /\ RowsInv
    BY DEF PInv, WholeInv, GInv, EInv
  <2>2. STInv /\ CInv /\ active \subseteq Runs
    BY <2>1 DEF AgentInv, RInv, CInv, IInv, HInv, TInv, TypeOK
  <2>3. [Next]_vars
    BY <2>1, AgentInvStep
  <2> QED BY <1>0, <2>1, <2>2, <2>3 DEF STInv, SuperTypeOK, TransferTypeOK
<1>2. UNCHANGED <<child, history>>
  BY <1>1, AgentSummary
<1>3. UNCHANGED <<Sizes, Endings, Said>>
  BY <1>2 DEF Sizes, Endings, Said
<1>4. CASE swaps' = swaps
  BY <1>3, <1>4 DEF Promise!importVars, Sizes, Endings, Said
<1>5. ASSUME NEW q \in active, run[q].sealed, ~HasSwapped(q), MoveRows(q)
      PROVE  Promise!Import(q)
  <2>1. q \in Runs /\ landed[q] = First(child[q].size)
    BY <1>1, <1>5, WholeSwap
  <2>2. Promise!Whole(q) = landed[q]
    BY <2>1 DEF Promise!Whole, First
  <2>3. HasSwapped(q)'
    BY <1>1, <1>5, <2>1, SwapRecorded
  <2>4. history[q].effect \in Effects /\ EffectTrue /\ history' = history
    BY <1>1, <1>2, <2>1, EffectsTell DEF History, PInv
  <2>5. history[q].effect \in {"none", "UNKNOWN"}
    BY <1>1, <1>5, <2>1, <2>3, <2>4 DEF EffectTrue, Effects, Terminals
  <2>6. Said[q] = "unknown" /\ ~Promise!Imported(q)
    BY <1>5, <2>1, <2>4, <2>5, VerdictIs, ImportedIs DEF Said
  <2>7. swaps' = [swaps EXCEPT ![TableOf[q]] = Append(@, [run |-> q, rows |-> Promise!Whole(q)])]
    BY <1>5, <2>2 DEF MoveRows
  <2> QED BY <1>3, <2>6, <2>7 DEF Promise!Import, Sizes, Endings, Said
<1> QED BY <1>1, <1>4, <1>5, OnlySwaps DEF Promise!Next

\* The child's diagnosis and its last line, and the parent's mark, say nothing that is not so.
LEMMA CallsSay ==
    ASSUME PInv, PInv', NEW r \in Runs, Calls(r)
    PROVE  [Promise!Next]_(Promise!importVars)
<1>0. /\ STInv /\ FInv' /\ history \in [Runs -> History] /\ history[r] \in History /\ child[r] \in Child
      /\ PhaseOf(child[r], watch[r]) /\ LineOf(r) /\ Writes(r)
  <2>1. STInv /\ FInv' /\ LineOf(r)
    BY DEF PInv, FInv, EInv, AgentInv, LineInv
  <2> QED BY <2>1, CallsWrite DEF STInv, SuperTypeOK, TransferTypeOK, PhaseInv
<1>1. EffectTrue'
  <2>1. FInv' => EffectTrue'
    BY EffectsTell, PTL
  <2> QED BY <1>0, <2>1
<1>2. swaps' = swaps /\ Sizes' = Sizes
  <2>1. swaps' = swaps
    BY CallsLeaveAgent DEF sinkVars, vars
  <2>2. Sizes' = Sizes
    BY <1>0, SizesStay DEF Sizes
  <2> QED BY <2>1, <2>2
<1>3. history'[r].effect \in Effects /\ history' \in [Runs -> History]
  BY <1>0, FoldedEffects DEF Writes, MarkUnknown, History, Child, Verdict, Effects, PhaseOf, Doing
<1> DEFINE v == VerdictOf(history'[r].effect)
           o == history'[r].outcome
<1>4. /\ v \in Promise!Verdicts
      /\ v = "untouched" => ~Promise!Imported(r)
      /\ v = "imported" => Promise!Imported(r)
  <2>1. HasSwapped(r)' <=> HasSwapped(r)
    BY <1>2 DEF HasSwapped
  <2> QED BY <1>1, <1>3, <2>1, VerdictIs, ImportedIs DEF EffectTrue, Effects, Terminals
<1>5. Said' = [Said EXCEPT ![r] = v] /\ Endings' = [Endings EXCEPT ![r] = o]
  BY <1>0, <1>3 DEF Said, Endings, Writes, MarkUnknown
<1>6. history[r].outcome = "none" => Promise!Say(r, v)
  BY <1>0, <1>2, <1>4, <1>5 DEF Promise!Say, Sizes, Endings, Said
<1>7. CASE history' = history
  BY <1>2, <1>7 DEF Promise!importVars, Sizes
<1>8. CASE Doing(r, "diagnosing") /\ history' = [history EXCEPT ![r].effect = Verdict(Got(r))]
  <2>1. history[r].outcome = "none" /\ history'[r].outcome = history[r].outcome
    BY <1>0, <1>8 DEF LineOf, Doing, History
  <2>2. Endings' = Endings
    BY <1>0, <1>5, <2>1 DEF Endings
  <2> QED BY <1>4, <1>6, <2>1, <2>2 DEF Promise!Next, Endings
<1>9. CASE /\ Doing(r, "closing")
           /\ history' = [history EXCEPT ![r].outcome = child[r].stage,
                                         ![r].effect = IF @ = "none" THEN FoldedEffect(r) ELSE @]
  <2>1. history[r].outcome = "none" /\ o = child[r].stage /\ o \in {"SUCCEEDED", "FAILED"}
    BY <1>0, <1>9 DEF LineOf, Doing, History, PhaseOf
  <2>2. o = "SUCCEEDED" => v = "imported"
    <3>1. o = "SUCCEEDED" => history'[r].effect = SwappedTerminal(r)
      BY <1>0, <1>9, <2>1 DEF LineOf, FoldedEffect, History
    <3>2. SwappedTerminal(r) \in {"SWAPPED", "CLEANED_AND_SWAPPED", "REPLACED"}
      BY DEF SwappedTerminal
    <3> QED BY <1>3, <3>1, <3>2, VerdictIs
  <2> QED BY <1>4, <1>5, <1>6, <2>1, <2>2 DEF Promise!Next, Promise!Close, Promise!Outcomes, Endings
<1>10. CASE Doing(r, "dead") /\ watch[r] = "supervising" /\ MarkUnknown(r)
  <2>1. history[r].outcome = "none" /\ o = "FAILED"
    BY <1>0, <1>10 DEF LineOf, Doing, History, MarkUnknown
  <2> QED BY <1>4, <1>5, <1>6, <2>1 DEF Promise!Next, Promise!Close, Promise!Outcomes, Endings
<1> QED BY <1>0, <1>7, <1>8, <1>9, <1>10 DEF Writes

LEMMA PromiseStep ==
    ASSUME PInv, PInv', [SuperNext]_superVars PROVE [Promise!Next]_(Promise!importVars)
<1>1. CASE AgentMoves
  BY <1>1, AgentImports
<1>2. ASSUME NEW r \in Runs, Calls(r) PROVE [Promise!Next]_(Promise!importVars)
  BY <1>2, CallsSay
<1>3. CASE UNCHANGED superVars
  <2>1. UNCHANGED <<child, history, swaps>>
    BY <1>3 DEF superVars, allVars, transferVars, vars, mysqlVars
  <2> QED BY <2>1 DEF Promise!importVars
<1> QED BY <1>1, <1>2, <1>3, SuperMoves

\* The system keeps its promise: every step of parents, children, network and agent is a step of
\* TargetImport or a stutter.  An import is whole and happens once, a run closed as a success was
\* imported, and a table once called untouched or imported is that for good, for any number of runs,
\* lost and late calls, kills and restarts, as long as the acknowledgement of the swap arrives.
THEOREM PromiseIsKept ==
    ASSUME "swap" \notin AckLost PROVE SuperSpec => PromiseKept
<1>1. PInv /\ [SuperNext]_superVars => PInv'
  BY PromiseInv
<1>2. PInv /\ PInv' /\ [SuperNext]_superVars => [Promise!Next]_(Promise!importVars)
  BY PromiseStep
<1> QED BY PromiseInit, <1>1, <1>2, PTL DEF SuperSpec, PromiseKept, Promise!Spec

=============================================================================
