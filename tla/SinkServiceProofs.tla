------------------------- MODULE SinkServiceProofs -------------------------
(***************************************************************************)
(* Theorems about SinkService, for every set of runs, tables and workers   *)
(* and every value of the bounds.                                          *)
(***************************************************************************)
EXTENDS SinkService, FiniteSetTheorems, TLAPS

-----------------------------------------------------------------------------
(* Type correctness.  TypeOK is not inductive alone: a sequence number that *)
(* is given back must be one that was claimed.                              *)

ClaimArgs ==
    \A w \in Workers : call[w].at \in {"claimed", "landed"} => call[w].arg \in 1..MaxBatches

TInv == TypeOK /\ ClaimArgs

LEMMA CallUpdate ==
    ASSUME TInv, NEW w \in Workers, NEW new \in Call,
           new.at \in {"claimed", "landed"} => new.arg \in 1..MaxBatches,
           call' = [call EXCEPT ![w] = new]
    PROVE  call' \in [Workers -> Call] /\ ClaimArgs'
BY DEF TInv, TypeOK, ClaimArgs

LEMMA AnswerType ==
    ASSUME TInv, NEW w \in Workers, NEW r \in Runs, NEW code \in Answers, Answer(w, r, code)
    PROVE  call' \in [Workers -> Call] /\ ClaimArgs'
<1> DEFINE new == IF TrackAnswers
                  THEN [IdleCall EXCEPT !.at = "reply", !.run = r, !.answer = code]
                  ELSE IdleCall
<1>1. new \in Call
  <2>1. IdleCall \in Call
    BY BoundAssumption DEF Call, IdleCall, Points, Answers
  <2>2. [IdleCall EXCEPT !.at = "reply", !.run = r, !.answer = code] \in Call
    BY <2>1 DEF Call, Points
  <2>3. QED
    BY <2>1, <2>2
<1>2. new.at \notin {"claimed", "landed"}
  BY DEF IdleCall
<1>3. call' = [call EXCEPT ![w] = new]
  BY DEF Answer
<1> HIDE DEF new
<1>4. QED
  BY <1>1, <1>2, <1>3, CallUpdate

LEMMA BeginType ==
    ASSUME TInv, NEW w \in Workers, NEW r \in Runs, NEW point \in Points,
           NEW arg \in 0..(MaxBatches + 1),
           point \in {"claimed", "landed"} => arg \in 1..MaxBatches,
           Begin(w, r, point, arg)
    PROVE  call' \in [Workers -> Call] /\ ClaimArgs'
<1> DEFINE new == [IdleCall EXCEPT !.at = point, !.run = r, !.arg = arg]
<1>1. new \in Call
  BY DEF Call, IdleCall, Answers
<1>2. new.at = point /\ new.arg = arg
  BY DEF IdleCall
<1>3. call' = [call EXCEPT ![w] = new]
  BY DEF Begin
<1> HIDE DEF new
<1>4. QED
  BY <1>1, <1>2, <1>3, CallUpdate

LEMMA GotoType ==
    ASSUME TInv, NEW w \in Workers, NEW point \in Points,
           point # "claimed", point = "landed" => call[w].at = "claimed",
           Goto(w, point)
    PROVE  call' \in [Workers -> Call] /\ ClaimArgs'
<1> DEFINE new == [call[w] EXCEPT !.at = point]
<1>1. new \in Call
  BY DEF Call, TInv, TypeOK
<1>2. new.at = point /\ new.arg = call[w].arg
  BY DEF TInv, TypeOK, Call
<1>3. call' = [call EXCEPT ![w] = new]
  BY DEF Goto
<1>4. new.at = "landed" => new.arg \in 1..MaxBatches
  BY <1>2 DEF TInv, ClaimArgs
<1> HIDE DEF new
<1>5. QED
  BY <1>1, <1>2, <1>3, <1>4, CallUpdate

\* The refusals of a request are answers.
LEMMA RefusalCodes ==
    ASSUME NEW r, NEW seq
    PROVE  PushError(r, seq) \in Answers /\ CommitError(r) \in Answers /\ AbortError(r) \in Answers
BY DEF PushError, CommitError, AbortError, InactiveRunError, Answers

LEMMA TombstoneType ==
    ASSUME TInv, NEW r \in Runs, NEW terminal \in Terminals, PushTombstone(r, terminal)
    PROVE  tombstones' \in Seq(Tombstone)
<1> DEFINE new == [run |-> r, terminal |-> terminal, sealed |-> run[r].sealed]
           kept == IF Len(tombstones) = TombstoneLimit THEN Tail(tombstones) ELSE tombstones
<1>1. new \in Tombstone
  BY DEF TInv, TypeOK, Entry, Tombstone
<1>2. kept \in Seq(Tombstone)
  <2>1. tombstones \in Seq(Tombstone) /\ TombstoneLimit > 0
    BY BoundAssumption DEF TInv, TypeOK
  <2>2. QED
    BY <2>1
<1>3. tombstones' = Append(kept, new)
  BY DEF PushTombstone
<1> HIDE DEF new, kept
<1>4. QED
  BY <1>1, <1>2, <1>3

LEMMA MoveRowsType ==
    ASSUME TInv, NEW r \in Runs, MoveRows(r)
    PROVE  swaps' \in [Tables -> Seq(Swap)]
<1> DEFINE new == [run |-> r, rows |-> landed[r]]
<1>1. new \in Swap
  BY DEF TInv, TypeOK, Swap
<1>2. swaps[TableOf[r]] \in Seq(Swap) /\ TableOf[r] \in Tables
  BY RunAssumption DEF TInv, TypeOK
<1>3. Append(swaps[TableOf[r]], new) \in Seq(Swap)
  BY <1>1, <1>2
<1>4. swaps' = [swaps EXCEPT ![TableOf[r]] = Append(swaps[TableOf[r]], new)]
  BY DEF MoveRows
<1> HIDE DEF new
<1>5. QED
  BY <1>3, <1>4 DEF TInv, TypeOK

LEMMA DropRowsType ==
    ASSUME TInv, NEW r \in Runs, DropRows(r)
    PROVE  staging' \subseteq Runs /\ landed' \in [Runs -> Seq(Seqs)]
BY DEF TInv, TypeOK, DropRows

LEMMA ReleaseType ==
    ASSUME TInv, NEW w \in Workers, NEW r \in Runs, ReleaseSeq(r, call[w].arg),
           call[w].at \in {"claimed", "landed"}
    PROVE  run' \in [Runs -> Entry]
<1>1. call[w].arg \in Seqs
  BY BoundAssumption DEF TInv, ClaimArgs, Seqs
<1>2. [run[r] EXCEPT !.nextSeq = call[w].arg] \in Entry
  BY <1>1 DEF TInv, TypeOK, Entry
<1>3. QED
  BY <1>2 DEF TInv, TypeOK, ReleaseSeq

LEMMA OpenType ==
    ASSUME TInv, NEW w \in Workers, NEW r \in Runs,
           \/ OpenUnreachable(w, r) \/ Admit(w, r) \/ RefuseBusyTable(w, r) \/ RefuseOverQuota(w, r)
           \/ AskRangeCheck(w, r) \/ OpenFails(w, r)
           \/ CreateStaging(w, r) \/ InsertActive(w, r) \/ ReturnSeat(w, r)
    PROVE  TInv'
<1> USE DEF sinkMaps, mysqlVars
<1>1. CASE OpenUnreachable(w, r) \/ RefuseBusyTable(w, r) \/ RefuseOverQuota(w, r)
  <2>1. PICK code \in Answers : Answer(w, r, code)
    BY <1>1 DEF OpenUnreachable, RefuseBusyTable, RefuseOverQuota, Answers
  <2>2. QED
    BY <1>1, <2>1, AnswerType
       DEF TInv, TypeOK, OpenUnreachable, RefuseBusyTable, RefuseOverQuota, TakeLeg
<1>2. CASE Admit(w, r)
  <2>1. openLeg[r] \in 0..(MaxBatches + 1)
    <3>1. openLeg[r] \in {0, 1, 2}
      BY DEF TInv, TypeOK
    <3>2. MaxBatches \in Nat /\ MaxBatches >= 1
      BY BoundAssumption
    <3>3. QED
      BY <3>1, <3>2
  <2>2. Begin(w, r, "admitted", openLeg[r]) /\ "admitted" \in Points
    BY <1>2 DEF Admit, Points, OpenPoints
  <2>3. call' \in [Workers -> Call] /\ ClaimArgs'
    BY <2>1, <2>2, BeginType
  <2>4. QED
    BY <1>2, <2>3 DEF TInv, TypeOK, Admit, TakeLeg
<1>3. CASE AskRangeCheck(w, r) \/ OpenFails(w, r) \/ ReturnSeat(w, r)
  <2>1. PICK code \in Answers : LeaveSeat(w, r, code)
    BY <1>3 DEF AskRangeCheck, OpenFails, ReturnSeat, Answers
  <2>2. call' \in [Workers -> Call] /\ ClaimArgs' /\ admitting' \subseteq Runs
    BY <2>1, AnswerType DEF LeaveSeat, TInv, TypeOK
  <2>3. QED
    BY <1>3, <2>2 DEF TInv, TypeOK, AskRangeCheck, OpenFails, ReturnSeat
<1>4. CASE CreateStaging(w, r)
  <2>1. call' \in [Workers -> Call] /\ ClaimArgs'
    BY <1>4, GotoType DEF CreateStaging, Points, OpenPoints
  <2>2. QED
    BY <1>4, <2>1 DEF TInv, TypeOK, CreateStaging
<1>5. CASE InsertActive(w, r)
  <2>1. call' \in [Workers -> Call] /\ ClaimArgs'
    BY <1>5, GotoType DEF InsertActive, Points, OpenPoints
  <2>2. FreshEntry \in Entry
    BY BoundAssumption DEF FreshEntry, Entry, Seqs
  <2>3. QED
    BY <1>5, <2>1, <2>2 DEF TInv, TypeOK, InsertActive
<1>6. QED
  BY <1>1, <1>2, <1>3, <1>4, <1>5

LEMMA PushType ==
    ASSUME TInv, NEW w \in Workers, NEW r \in Runs,
           \/ \E seq \in 1..MaxBatches : RefuseBatch(w, r, seq) \/ ClaimBatch(w, r, seq)
           \/ LandBatch(w, r) \/ BatchFails(w, r) \/ AccountBatch(w, r)
    PROVE  TInv'
<1> USE DEF sinkMaps, mysqlVars
<1>1. ASSUME NEW seq \in 1..MaxBatches, RefuseBatch(w, r, seq)
      PROVE  TInv'
  <2>1. call' \in [Workers -> Call] /\ ClaimArgs'
    BY <1>1, RefusalCodes, AnswerType DEF RefuseBatch
  <2>2. QED
    BY <1>1, <2>1 DEF TInv, TypeOK, RefuseBatch
<1>2. ASSUME NEW seq \in 1..MaxBatches, ClaimBatch(w, r, seq)
      PROVE  TInv'
  <2>1. seq \in 0..(MaxBatches + 1) /\ seq + 1 \in Seqs
    BY BoundAssumption DEF Seqs
  <2>2. call' \in [Workers -> Call] /\ ClaimArgs'
    BY <1>2, <2>1, BeginType DEF ClaimBatch, Points
  <2>3. [run[r] EXCEPT !.nextSeq = seq + 1] \in Entry
    BY <2>1 DEF TInv, TypeOK, Entry
  <2>4. QED
    BY <1>2, <2>2, <2>3 DEF TInv, TypeOK, ClaimBatch
<1>3. CASE LandBatch(w, r)
  <2>1. call[w].at = "claimed" /\ Goto(w, "landed")
    BY <1>3 DEF LandBatch, At
  <2>2. call' \in [Workers -> Call] /\ ClaimArgs'
    BY <2>1, GotoType DEF Points
  <2>3. call[w].arg \in Seqs
    BY <2>1, BoundAssumption DEF TInv, ClaimArgs, Seqs
  <2>4. Append(landed[r], call[w].arg) \in Seq(Seqs)
    BY <2>3 DEF TInv, TypeOK
  <2>5. QED
    BY <1>3, <2>2, <2>4 DEF TInv, TypeOK, LandBatch
<1>4. CASE BatchFails(w, r)
  <2>1. call' \in [Workers -> Call] /\ ClaimArgs'
    BY <1>4, AnswerType DEF BatchFails, Answers
  <2>2. run' \in [Runs -> Entry]
    BY <1>4, ReleaseType DEF BatchFails, At
  <2>3. QED
    BY <1>4, <2>1, <2>2 DEF TInv, TypeOK, BatchFails
<1>5. CASE AccountBatch(w, r)
  <2>1. call' \in [Workers -> Call] /\ ClaimArgs'
    BY <1>5, AnswerType DEF AccountBatch, Answers
  <2>2. [run[r] EXCEPT !.rowsWritten = run[r].rowsWritten + 1] \in Entry
    <3>1. run[r] \in Entry
      BY DEF TInv, TypeOK
    <3>2. run[r].rowsWritten + 1 \in Nat
      BY <3>1 DEF Entry
    <3>3. QED
      BY <3>1, <3>2 DEF Entry
  <2>3. run' \in [Runs -> Entry]
    BY <1>5, <2>2 DEF TInv, TypeOK, AccountBatch
  <2>4. QED
    BY <1>5, <2>1, <2>3 DEF TInv, TypeOK, AccountBatch
<1>6. QED
  BY <1>1, <1>2, <1>3, <1>4, <1>5

LEMMA CommitType ==
    ASSUME TInv, NEW w \in Workers, NEW r \in Runs,
           \/ RefuseCommit(w, r) \/ \E total \in 0..MaxBatches : Seal(w, r, total)
           \/ Verify(w, r) \/ SwapCommits(w, r) \/ SwapFails(w, r) \/ FinishRun(w, r)
           \/ DropStaging(w, r) \/ DropFails(w, r)
    PROVE  TInv'
<1> USE DEF sinkMaps, mysqlVars
<1>0. call[w] \in Call /\ call[w].answer \in Answers
  BY DEF TInv, TypeOK, Call
<1>1. CASE RefuseCommit(w, r)
  <2>1. call' \in [Workers -> Call] /\ ClaimArgs'
    BY <1>1, RefusalCodes, AnswerType DEF RefuseCommit
  <2>2. QED
    BY <1>1, <2>1 DEF TInv, TypeOK, RefuseCommit
<1>2. ASSUME NEW total \in 0..MaxBatches, Seal(w, r, total)
      PROVE  TInv'
  <2> DEFINE new == [IdleCall EXCEPT !.at = "sealed", !.run = r, !.arg = total,
                                     !.received = run[r].nextSeq - 1]
  <2>1. run[r] \in Entry /\ run[r].nextSeq - 1 \in Nat
    BY BoundAssumption DEF TInv, TypeOK, Entry, Seqs
  <2>2. total \in 0..(MaxBatches + 1)
    BY BoundAssumption
  <2>3. new \in Call /\ new.at = "sealed"
    BY <2>1, <2>2 DEF Call, IdleCall, Points, CommitPoints, Answers
  <2>4. call' = [call EXCEPT ![w] = new]
    BY <1>2 DEF Seal
  <2> HIDE DEF new
  <2>5. call' \in [Workers -> Call] /\ ClaimArgs'
    BY <2>3, <2>4, CallUpdate
  <2>6. [run[r] EXCEPT !.sealed = TRUE] \in Entry
    BY <2>1 DEF Entry
  <2>7. QED
    BY <1>2, <2>5, <2>6 DEF TInv, TypeOK, Seal
<1>3. CASE Verify(w, r) \/ SwapFails(w, r) \/ FinishRun(w, r)
  <2>1. \E point \in CommitPoints \cup {"dropping"}, staged \in Nat, answer \in Answers :
            call' = [call EXCEPT ![w] = [call[w] EXCEPT !.at = point, !.staged = staged,
                                                        !.answer = answer]]
    <3>1. call[w].staged \in Nat /\ Len(landed[r]) \in Nat
      BY <1>0 DEF Call, TInv, TypeOK
    <3>2. CASE Verify(w, r)
      <4> DEFINE passed == VerdictPassed(call[w].arg, call[w].received, Len(landed[r]))
                 point == IF passed THEN "verified" ELSE "discarded"
                 answer == IF passed THEN "none" ELSE "VERIFY_FAILED"
      <4>1. point \in CommitPoints /\ answer \in Answers
        BY DEF CommitPoints, Answers
      <4>2. call' = [call EXCEPT ![w] = [call[w] EXCEPT !.at = point, !.staged = Len(landed[r]),
                                                        !.answer = answer]]
        BY <3>2, <1>0 DEF Verify, TInv, TypeOK, Call
      <4> HIDE DEF point, answer
      <4>3. QED
        BY <3>1, <4>1, <4>2
    <3>3. CASE SwapFails(w, r)
      <4>1. call' = [call EXCEPT ![w] = [call[w] EXCEPT !.at = "discarded",
                                            !.staged = call[w].staged, !.answer = "SWAP_FAILED"]]
        BY <3>3, <1>0 DEF SwapFails, TInv, TypeOK, Call
      <4>2. QED
        BY <3>1, <4>1 DEF CommitPoints, Answers
    <3>4. CASE FinishRun(w, r)
      <4> DEFINE answer == IF At(w, r, "swapped") THEN "COMMITTED" ELSE call[w].answer
      <4>1. answer \in Answers
        BY <1>0 DEF Answers
      <4>2. call' = [call EXCEPT ![w] = [call[w] EXCEPT !.at = "dropping",
                                            !.staged = call[w].staged, !.answer = answer]]
        BY <3>4, <1>0 DEF FinishRun, TInv, TypeOK, Call
      <4> HIDE DEF answer
      <4>3. QED
        BY <3>1, <4>1, <4>2
    <3>5. QED
      BY <1>3, <3>2, <3>3, <3>4
  <2>2. PICK point \in CommitPoints \cup {"dropping"}, staged \in Nat, answer \in Answers :
            call' = [call EXCEPT ![w] = [call[w] EXCEPT !.at = point, !.staged = staged,
                                                        !.answer = answer]]
    BY <2>1
  <2> DEFINE new == [call[w] EXCEPT !.at = point, !.staged = staged, !.answer = answer]
  <2>3. new \in Call /\ new.at \notin {"claimed", "landed"}
    BY <1>0 DEF Call, Points, CommitPoints
  <2> HIDE DEF new
  <2>4. call' \in [Workers -> Call] /\ ClaimArgs'
    BY <2>2, <2>3, CallUpdate DEF new
  <2>5. CASE Verify(w, r)
    BY <2>5, <2>4 DEF TInv, TypeOK, Verify
  <2>6. CASE SwapFails(w, r)
    <3>1. swaps' \in [Tables -> Seq(Swap)]
      BY <2>6, MoveRowsType DEF SwapFails, TInv, TypeOK
    <3>2. QED
      BY <2>6, <2>4, <3>1 DEF TInv, TypeOK, SwapFails
  <2>7. CASE FinishRun(w, r)
    <3>1. tombstones' \in Seq(Tombstone)
      BY <2>7, TombstoneType DEF FinishRun, SwappedTerminal, Terminals
    <3>2. QED
      BY <2>7, <2>4, <3>1 DEF TInv, TypeOK, FinishRun
  <2>8. QED
    BY <1>3, <2>5, <2>6, <2>7
<1>4. CASE SwapCommits(w, r)
  <2>1. call' \in [Workers -> Call] /\ ClaimArgs'
    BY <1>4, GotoType DEF SwapCommits, Points, CommitPoints
  <2>2. swaps' \in [Tables -> Seq(Swap)]
    BY <1>4, MoveRowsType DEF SwapCommits
  <2>3. QED
    BY <1>4, <2>1, <2>2 DEF TInv, TypeOK, SwapCommits
<1>5. CASE DropStaging(w, r) \/ DropFails(w, r)
  <2>1. PICK code \in Answers : Answer(w, r, code)
    BY <1>0, <1>5 DEF DropStaging, DropFails, Answers
  <2>2. call' \in [Workers -> Call] /\ ClaimArgs'
    BY <2>1, AnswerType
  <2>3. staging' \subseteq Runs /\ landed' \in [Runs -> Seq(Seqs)]
    BY <1>5, DropRowsType DEF DropStaging, DropFails, TInv, TypeOK
  <2>4. QED
    BY <1>5, <2>2, <2>3 DEF TInv, TypeOK, DropStaging, DropFails
<1>6. QED
  BY <1>1, <1>2, <1>3, <1>4, <1>5

LEMMA AbortType ==
    ASSUME TInv, NEW w \in Workers, NEW r \in Runs,
           RefuseAbort(w, r) \/ Abort(w, r) \/ AbortDropFails(w, r)
    PROVE  TInv'
<1> USE DEF sinkMaps, mysqlVars
<1>1. PICK code \in Answers : Answer(w, r, code)
  BY RefusalCodes DEF RefuseAbort, Abort, AbortDropFails, Answers
<1>2. call' \in [Workers -> Call] /\ ClaimArgs'
  BY <1>1, AnswerType
<1>3. staging' \subseteq Runs /\ landed' \in [Runs -> Seq(Seqs)]
  BY DropRowsType DEF RefuseAbort, Abort, AbortDropFails, TInv, TypeOK
<1>4. tombstones' \in Seq(Tombstone)
  BY TombstoneType DEF RefuseAbort, Abort, AbortDropFails, TInv, TypeOK, Terminals
<1>5. QED
  BY <1>2, <1>3, <1>4 DEF TInv, TypeOK, RefuseAbort, Abort, AbortDropFails

LEMMA GetType ==
    ASSUME TInv, NEW w \in Workers, NEW r \in Runs, GetActive(w, r) \/ GetTombstone(w, r)
    PROVE  TInv'
<1> USE DEF sinkMaps, mysqlVars
<1>1. CASE GetActive(w, r)
  <2>1. call' \in [Workers -> Call] /\ ClaimArgs'
    <3>1. CASE r \in active
      BY <1>1, <3>1, AnswerType DEF GetActive, Answers
    <3>2. CASE r \notin active
      BY <1>1, <3>2, BeginType, BoundAssumption DEF GetActive, Points
    <3>3. QED
      BY <3>1, <3>2
  <2>2. QED
    BY <1>1, <2>1 DEF TInv, TypeOK, GetActive
<1>2. CASE GetTombstone(w, r)
  <2>1. \A i \in DOMAIN tombstones : tombstones[i].terminal \in Answers
    <3>1. \A i \in DOMAIN tombstones : tombstones[i] \in Tombstone
      BY DEF TInv, TypeOK
    <3>2. QED
      BY <3>1 DEF Tombstone, Answers
  <2>2. call' \in [Workers -> Call] /\ ClaimArgs'
    BY <1>2, <2>1, AnswerType DEF GetTombstone, TombstonesOf, Answers
  <2>3. QED
    BY <1>2, <2>2 DEF TInv, TypeOK, GetTombstone
<1>3. QED
  BY <1>1, <1>2

LEMMA IdleCallType == IdleCall \in Call
BY BoundAssumption DEF IdleCall, Call, Points, Answers

LEMMA TypeStep == TInv /\ [Next]_vars => TInv'
<1> SUFFICES ASSUME TInv, [Next]_vars PROVE TInv'
  OBVIOUS
<1>1. ASSUME NEW w \in Workers, NEW r \in Runs, Receive(w, r) \/ Continue(w, r)
      PROVE  TInv'
  BY <1>1, OpenType, PushType, CommitType, AbortType, GetType DEF Receive, Continue
<1>2. ASSUME NEW w \in Workers, Reply(w)
      PROVE  TInv'
  <2>1. IdleCall.at \notin {"claimed", "landed"}
    BY DEF IdleCall
  <2>2. call' \in [Workers -> Call] /\ ClaimArgs'
    BY <1>2, <2>1, IdleCallType, CallUpdate DEF Reply
  <2>3. QED
    BY <1>2, <2>2 DEF TInv, TypeOK, Reply, sinkMaps, mysqlVars
<1>3. CASE Restart
  BY <1>3, IdleCallType, BoundAssumption
     DEF TInv, TypeOK, ClaimArgs, Restart, mysqlVars, IdleCall
<1>4. CASE UNCHANGED vars
  BY <1>4 DEF TInv, TypeOK, ClaimArgs, vars
<1>5. QED
  BY <1>1, <1>2, <1>3, <1>4 DEF Next

LEMMA TypeInit == Init => TInv
BY IdleCallType, BoundAssumption
   DEF Init, TInv, TypeOK, ClaimArgs, IdleCall, FreshEntry, Entry, Seqs

\* Every reachable state is well typed: in particular no sequence number leaves
\* 1..MaxBatches+1 however pushes, failures and aborts interleave.
THEOREM TypeCorrect == Spec => []TypeOK
<1>1. TInv => TypeOK
  BY DEF TInv
<1>2. QED
  BY TypeInit, TypeStep, <1>1, PTL DEF Spec

-----------------------------------------------------------------------------
(* Exclusion on the target table and the quota.  The step from admitting to  *)
(* active adds nobody only because the open that takes it still has its      *)
(* seat, and a seat is given back by nobody else: one leg of a run at a time.*)

SeatInv ==
    /\ \A w \in Workers : call[w].at \in OpenPoints =>
           call[w].run \in admitting /\ openLeg[call[w].run] = 0
    /\ \A w, x \in Workers :
           /\ call[w].at \in OpenPoints /\ call[x].at \in OpenPoints
           /\ call[w].run = call[x].run
           => w = x

HInv == TInv /\ SeatInv

LEMMA SeatKept ==
    ASSUME HInv, NEW w \in Workers, NEW new, new.at \notin OpenPoints,
           call' = [call EXCEPT ![w] = new], admitting' = admitting,
           \A q \in Runs : openLeg'[q] \in {openLeg[q], 0}
    PROVE  SeatInv'
<1>1. \A x \in Workers : call'[x].at \in OpenPoints => x # w /\ call'[x] = call[x]
  BY DEF HInv, TInv, TypeOK
<1>2. \A x \in Workers : call[x].at \in OpenPoints => call[x].run \in Runs
  BY DEF HInv, SeatInv, TInv, TypeOK
<1>3. QED
  BY <1>1, <1>2 DEF HInv, SeatInv

LEMMA SeatLeft ==
    ASSUME HInv, NEW w \in Workers, NEW r \in Runs, NEW code,
           call[w].at \in OpenPoints, call[w].run = r, LeaveSeat(w, r, code),
           \A q \in Runs \ {r} : openLeg'[q] = openLeg[q]
    PROVE  SeatInv'
<1> DEFINE new == IF TrackAnswers
                  THEN [IdleCall EXCEPT !.at = "reply", !.run = r, !.answer = code]
                  ELSE IdleCall
<1>1. new.at \notin OpenPoints
  BY DEF IdleCall, OpenPoints
<1>2. call' = [call EXCEPT ![w] = new]
  BY DEF LeaveSeat, Answer
<1> HIDE DEF new
<1>3. \A x \in Workers : call'[x].at \in OpenPoints => x # w /\ call'[x] = call[x]
  BY <1>1, <1>2 DEF HInv, TInv, TypeOK
<1>4. \A x \in Workers : call'[x].at \in OpenPoints => call[x].run \in Runs \ {r}
  BY <1>3 DEF HInv, SeatInv, TInv, TypeOK
<1>5. QED
  BY <1>3, <1>4 DEF HInv, SeatInv, LeaveSeat

LEMMA AnswerSeatKept ==
    ASSUME HInv, NEW w \in Workers, NEW r, NEW code, Answer(w, r, code),
           admitting' = admitting, \A q \in Runs : openLeg'[q] \in {openLeg[q], 0}
    PROVE  SeatInv'
<1> DEFINE new == IF TrackAnswers
                  THEN [IdleCall EXCEPT !.at = "reply", !.run = r, !.answer = code]
                  ELSE IdleCall
<1>1. new.at \notin OpenPoints
  BY DEF IdleCall, OpenPoints
<1>2. call' = [call EXCEPT ![w] = new]
  BY DEF Answer
<1> HIDE DEF new
<1>3. QED
  BY <1>1, <1>2, SeatKept

LEMMA SeatStep == HInv /\ [Next]_vars => SeatInv'
<1> SUFFICES ASSUME HInv, [Next]_vars PROVE SeatInv'
  OBVIOUS
<1> USE DEF sinkMaps, mysqlVars
<1>1. ASSUME NEW w \in Workers, NEW r \in Runs,
             OpenUnreachable(w, r) \/ RefuseBusyTable(w, r) \/ RefuseOverQuota(w, r)
      PROVE  SeatInv'
  <2>1. PICK code : Answer(w, r, code)
    BY <1>1 DEF OpenUnreachable, RefuseBusyTable, RefuseOverQuota
  <2>2. admitting' = admitting /\ openLeg' = [openLeg EXCEPT ![r] = 0]
    BY <1>1 DEF OpenUnreachable, RefuseBusyTable, RefuseOverQuota, TakeLeg
  <2>3. \A q \in Runs : openLeg'[q] \in {openLeg[q], 0}
    BY <2>2 DEF HInv, TInv, TypeOK
  <2>4. QED
    BY <2>1, <2>2, <2>3, AnswerSeatKept
<1>2. ASSUME NEW w \in Workers, NEW r \in Runs, Admit(w, r)
      PROVE  SeatInv'
  <2>1. \A x \in Workers : call[x].at \in OpenPoints => call[x].run # r
    BY <1>2 DEF Admit, TakeLeg, HInv, SeatInv
  <2>2. call'[w].run = r /\ \A x \in Workers \ {w} : call'[x] = call[x]
    BY <1>2 DEF Admit, Begin, IdleCall, HInv, TInv, TypeOK
  <2>3. \A x \in Workers : call'[x].at \in OpenPoints =>
            \/ x = w
            \/ x # w /\ call'[x] = call[x] /\ call[x].run \in admitting \ {r}
                     /\ openLeg[call[x].run] = 0
    BY <2>1, <2>2 DEF HInv, SeatInv
  <2>4. admitting' = admitting \cup {r} /\ openLeg' = [openLeg EXCEPT ![r] = 0]
    BY <1>2 DEF Admit, TakeLeg
  <2>5. openLeg'[r] = 0 /\ \A q \in Runs \ {r} : openLeg'[q] = openLeg[q]
    BY <2>4 DEF HInv, TInv, TypeOK
  <2>6. admitting \subseteq Runs
    BY DEF HInv, TInv, TypeOK
  <2>7. QED
    BY <2>2, <2>3, <2>4, <2>5, <2>6 DEF HInv, SeatInv
<1>3. ASSUME NEW w \in Workers, NEW r \in Runs,
             AskRangeCheck(w, r) \/ OpenFails(w, r) \/ ReturnSeat(w, r)
      PROVE  SeatInv'
  <2>1. PICK code : LeaveSeat(w, r, code)
    BY <1>3 DEF AskRangeCheck, OpenFails, ReturnSeat
  <2>2. call[w].at \in OpenPoints /\ call[w].run = r
    BY <1>3 DEF AskRangeCheck, OpenFails, ReturnSeat, At, OpenPoints
  <2>3. \A q \in Runs \ {r} : openLeg'[q] = openLeg[q]
    BY <1>3 DEF AskRangeCheck, OpenFails, ReturnSeat, HInv, TInv, TypeOK
  <2>4. QED
    BY <2>1, <2>2, <2>3, SeatLeft
<1>4. ASSUME NEW w \in Workers, NEW r \in Runs, CreateStaging(w, r) \/ InsertActive(w, r)
      PROVE  SeatInv'
  <2>1. PICK point \in OpenPoints : Goto(w, point)
    BY <1>4 DEF CreateStaging, InsertActive, OpenPoints
  <2>2. call[w].at \in OpenPoints /\ admitting' = admitting /\ openLeg' = openLeg
    BY <1>4 DEF CreateStaging, InsertActive, At, OpenPoints
  <2>3. \A x \in Workers : call'[x].run = call[x].run /\ (x # w => call'[x] = call[x])
    BY <2>1 DEF Goto, HInv, TInv, TypeOK, Call
  <2>4. \A x \in Workers : call'[x].at \in OpenPoints => call[x].at \in OpenPoints
    BY <2>2, <2>3
  <2>5. QED
    BY <2>2, <2>3, <2>4 DEF HInv, SeatInv
<1>5. ASSUME NEW w \in Workers, NEW r \in Runs,
             \/ \E seq \in 1..MaxBatches : RefuseBatch(w, r, seq) \/ ClaimBatch(w, r, seq)
             \/ LandBatch(w, r) \/ BatchFails(w, r) \/ AccountBatch(w, r)
             \/ RefuseCommit(w, r) \/ \E total \in 0..MaxBatches : Seal(w, r, total)
             \/ Verify(w, r) \/ SwapCommits(w, r) \/ SwapFails(w, r) \/ FinishRun(w, r)
             \/ DropStaging(w, r) \/ DropFails(w, r)
             \/ RefuseAbort(w, r) \/ Abort(w, r) \/ AbortDropFails(w, r)
             \/ GetActive(w, r) \/ GetTombstone(w, r)
      PROVE  SeatInv'
  <2>1. admitting' = admitting /\ openLeg' = openLeg
    BY <1>5 DEF RefuseBatch, ClaimBatch, LandBatch, BatchFails, AccountBatch, RefuseCommit, Seal,
                Verify, SwapCommits, SwapFails, FinishRun, DropStaging, DropFails, RefuseAbort,
                Abort, AbortDropFails, GetActive, GetTombstone
  <2>2. \A x \in Workers : call'[x].at \in OpenPoints => call'[x] = call[x]
    <3>1. call \in [Workers -> Call]
      BY DEF HInv, TInv, TypeOK
    <3>2. \A x \in Workers \ {w} : call'[x] = call[x]
      BY <1>5, <3>1
         DEF RefuseBatch, ClaimBatch, LandBatch, BatchFails, AccountBatch, RefuseCommit, Seal,
             Verify, SwapCommits, SwapFails, FinishRun, DropStaging, DropFails, RefuseAbort,
             Abort, AbortDropFails, GetActive, GetTombstone, Answer, Begin, Goto
    <3>3. \E new : new.at \notin OpenPoints /\ call' = [call EXCEPT ![w] = new]
      BY <1>5, <3>1, ZenonT(60)
         DEF RefuseBatch, ClaimBatch, LandBatch, BatchFails, AccountBatch, RefuseCommit, Seal,
             Verify, SwapCommits, SwapFails, FinishRun, DropStaging, DropFails, RefuseAbort,
             Abort, AbortDropFails, GetActive, GetTombstone, Answer, Begin, Goto, Call, IdleCall,
             OpenPoints
    <3>4. QED
      BY <3>1, <3>2, <3>3
  <2>3. QED
    BY <2>1, <2>2 DEF HInv, SeatInv
<1>6. ASSUME NEW w \in Workers, Reply(w)
      PROVE  SeatInv'
  <2>1. IdleCall.at \notin OpenPoints
    BY DEF IdleCall, OpenPoints
  <2>2. QED
    BY <1>6, <2>1, SeatKept DEF Reply
<1>7. CASE Restart
  BY <1>7 DEF Restart, SeatInv, IdleCall, OpenPoints
<1>8. CASE UNCHANGED vars
  BY <1>8 DEF vars, HInv, SeatInv
<1>9. QED
  BY <1>1, <1>2, <1>3, <1>4, <1>5, <1>6, <1>7, <1>8 DEF Next, Receive, Continue

\* The only step that adds a run to the ones in flight is admit, which has
\* judged the table and the quota.
LEMMA InFlightStep ==
    ASSUME HInv, [Next]_vars
    PROVE  \/ InFlight' \subseteq InFlight
           \/ \E r \in Runs : /\ Holders(r) = {}
                              /\ Cardinality(OthersInFlight(r)) < MaxConcurrentRuns
                              /\ InFlight' = InFlight \cup {r}
<1> USE DEF sinkMaps, InFlight
<1>1. ASSUME NEW w \in Workers, NEW r \in Runs, Admit(w, r)
      PROVE  /\ Holders(r) = {}
             /\ Cardinality(OthersInFlight(r)) < MaxConcurrentRuns
             /\ InFlight' = InFlight \cup {r}
  BY <1>1 DEF Admit
<1>2. ASSUME NEW w \in Workers, NEW r \in Runs, InsertActive(w, r)
      PROVE  InFlight' \subseteq InFlight
  <2>1. r \in admitting
    BY <1>2 DEF InsertActive, At, OpenPoints, HInv, SeatInv
  <2>2. QED
    BY <1>2, <2>1 DEF InsertActive
<1>3. ASSUME NEW w \in Workers, NEW r \in Runs, Receive(w, r), ~Admit(w, r)
      PROVE  InFlight' \subseteq InFlight
  BY <1>3 DEF Receive, OpenUnreachable, RefuseBusyTable, RefuseOverQuota, RefuseBatch, ClaimBatch,
              RefuseCommit, Seal, RefuseAbort, Abort, AbortDropFails, GetActive
<1>4. ASSUME NEW w \in Workers, NEW r \in Runs, Continue(w, r), ~InsertActive(w, r)
      PROVE  InFlight' \subseteq InFlight
  BY <1>4 DEF Continue, AskRangeCheck, OpenFails, LeaveSeat, CreateStaging, ReturnSeat, LandBatch,
              BatchFails, AccountBatch, Verify, SwapCommits, SwapFails, FinishRun, DropStaging,
              DropFails, GetTombstone
<1>5. CASE \E w \in Workers : Reply(w)
  BY <1>5 DEF Reply
<1>6. CASE Restart
  BY <1>6 DEF Restart
<1>7. CASE UNCHANGED vars
  BY <1>7 DEF vars
<1>8. QED
  BY <1>1, <1>2, <1>3, <1>4, <1>5, <1>6, <1>7 DEF Next

IInv == HInv /\ TargetExclusion /\ QuotaRespected

LEMMA HeldInit == Init => IInv
<1> SUFFICES ASSUME Init PROVE IInv
  OBVIOUS
<1>1. SeatInv
  BY DEF Init, SeatInv, IdleCall, OpenPoints
<1>2. InFlight = {}
  BY DEF Init, InFlight
<1>3. Cardinality(InFlight) = 0
  BY <1>2, FS_EmptySet
<1>4. QED
  BY <1>1, <1>2, <1>3, TypeInit, BoundAssumption
     DEF IInv, HInv, TargetExclusion, QuotaRespected

LEMMA ExclusionStep == IInv /\ [Next]_vars => TargetExclusion'
<1> SUFFICES ASSUME IInv, [Next]_vars PROVE TargetExclusion'
  OBVIOUS
<1>1. CASE InFlight' \subseteq InFlight
  BY <1>1 DEF IInv, TargetExclusion
<1>2. ASSUME NEW r \in Runs, Holders(r) = {}, InFlight' = InFlight \cup {r}
      PROVE  TargetExclusion'
  <2>1. \A q \in InFlight : q # r => TableOf[q] # TableOf[r]
    BY <1>2 DEF Holders
  <2>2. QED
    BY <1>2, <2>1 DEF IInv, TargetExclusion
<1>3. QED
  BY <1>1, <1>2, InFlightStep DEF IInv

LEMMA QuotaStep == IInv /\ [Next]_vars => QuotaRespected'
<1> SUFFICES ASSUME IInv, [Next]_vars PROVE QuotaRespected'
  OBVIOUS
<1>1. IsFiniteSet(InFlight) /\ Cardinality(InFlight) <= MaxConcurrentRuns
  <2>1. InFlight \subseteq Runs
    BY DEF IInv, HInv, TInv, TypeOK, InFlight
  <2>2. QED
    BY <2>1, RunAssumption, FS_Subset DEF IInv, QuotaRespected
<1>2. CASE InFlight' \subseteq InFlight
  <2>1. Cardinality(InFlight') <= Cardinality(InFlight)
    BY <1>1, <1>2, FS_Subset
  <2>2. IsFiniteSet(InFlight')
    BY <1>1, <1>2, FS_Subset
  <2>3. Cardinality(InFlight') \in Nat /\ Cardinality(InFlight) \in Nat
    BY <1>1, <2>2, FS_CardinalityType
  <2>4. QED
    BY <1>1, <2>1, <2>3, BoundAssumption DEF QuotaRespected
<1>3. ASSUME NEW r \in Runs, Cardinality(OthersInFlight(r)) < MaxConcurrentRuns,
             InFlight' = InFlight \cup {r}
      PROVE  QuotaRespected'
  <2> DEFINE others == InFlight \ {r}
  <2>1. IsFiniteSet(others)
    BY <1>1, FS_Subset
  <2>2. Cardinality(others \cup {r}) = Cardinality(others) + 1
    BY <2>1, FS_AddElement
  <2>3. InFlight' = others \cup {r}
    BY <1>3
  <2>4. Cardinality(others) \in Nat /\ Cardinality(others) < MaxConcurrentRuns
    BY <1>3, <2>1, FS_CardinalityType DEF OthersInFlight
  <2> HIDE DEF others
  <2>5. Cardinality(InFlight') <= MaxConcurrentRuns
    BY <2>2, <2>3, <2>4, BoundAssumption
  <2>6. QED
    BY <2>5 DEF QuotaRespected
<1>4. QED
  BY <1>2, <1>3, InFlightStep DEF IInv

LEMMA HeldStep == IInv /\ [Next]_vars => IInv'
BY TypeStep, SeatStep, ExclusionStep, QuotaStep DEF IInv, HInv

LEMMA Held == Spec => []IInv
BY HeldInit, HeldStep, PTL DEF Spec

\* One run at a time holds a target table, its open included, for any number of
\* runs, tables and workers and across restarts.
THEOREM OneHolderPerTable == Spec => []TargetExclusion
<1>1. IInv => TargetExclusion
  BY DEF IInv
<1>2. QED
  BY <1>1, Held, PTL

\* The concurrency quota is never exceeded, whatever opens race each other.
THEOREM QuotaHolds == Spec => []QuotaRespected
<1>1. IInv => QuotaRespected
  BY DEF IInv
<1>2. QED
  BY <1>1, Held, PTL

=============================================================================
