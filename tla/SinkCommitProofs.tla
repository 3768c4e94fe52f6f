-------------------------- MODULE SinkCommitProofs --------------------------
(***************************************************************************)
(* Theorems about the swap in SinkService: who may change a target table,  *)
(* how often, what tombstones and answers say of it afterwards, and that   *)
(* the agent implements TargetHold.                                        *)
(***************************************************************************)
EXTENDS SinkServiceProofs

-----------------------------------------------------------------------------
(* Between its seal and finish_run a run is active, sealed, and in the hands *)
(* of one worker; an active run is never opened again.                       *)

OpenedInv ==
    \A r \in active : /\ openLeg[r] = 0
                      /\ \A w \in Workers :
                             call[w].run = r => call[w].at \notin {"admitted", "created"}

CommitInv ==
    /\ \A w \in Workers : call[w].at \in CommitPoints =>
           call[w].run \in active /\ run[call[w].run].sealed
    /\ \A w, x \in Workers :
           /\ call[w].at \in CommitPoints /\ call[x].at \in CommitPoints
           /\ call[w].run = call[x].run
           => w = x

\* What a swap leaves behind for good.
SwappedInv ==
    \A r \in Runs : HasSwapped(r) =>
        /\ openLeg[r] = 0
        /\ r \in active => run[r].sealed
        /\ \A w \in Workers :
               call[w].run = r => call[w].at \notin {"admitted", "created", "sealed", "verified"}

CInv == IInv /\ OpenedInv /\ CommitInv /\ SwappedInv

-----------------------------------------------------------------------------
(* How one worker's step changes the calls. *)

Passive == {"idle", "claimed", "landed", "dropping", "lookup", "reply"}

LEMMA AnswerMove ==
    ASSUME TypeOK, NEW w \in Workers, NEW r, NEW code, Answer(w, r, code)
    PROVE  call'[w].at \in Passive /\ \A x \in Workers \ {w} : call'[x] = call[x]
BY DEF Answer, TypeOK, Passive, IdleCall

LEMMA BeginMove ==
    ASSUME TypeOK, NEW w \in Workers, NEW r, NEW point, NEW arg, Begin(w, r, point, arg)
    PROVE  /\ call'[w].at = point /\ call'[w].run = r
           /\ \A x \in Workers \ {w} : call'[x] = call[x]
BY DEF Begin, TypeOK, IdleCall

LEMMA GotoMove ==
    ASSUME TypeOK, NEW w \in Workers, NEW point, Goto(w, point)
    PROVE  /\ call'[w].at = point /\ call'[w].run = call[w].run
           /\ \A x \in Workers \ {w} : call'[x] = call[x]
BY DEF Goto, TypeOK, Call

\* Steps that open nothing, seal nothing and swap nothing: a worker ends up in a
\* passive place, or where it was, and no run becomes active or loses its seal.
LEMMA QuietStep ==
    ASSUME CInv, NEW w \in Workers,
           call'[w].at \in Passive,
           \A x \in Workers \ {w} : call'[x] = call[x],
           swaps' = swaps,
           \A q \in Runs : openLeg'[q] \in {openLeg[q], 0},
           active' \subseteq active,
           \A q \in active' : run[q].sealed => run'[q].sealed,
           \A x \in Workers \ {w} : call[x].at \in CommitPoints => call[x].run \in active'
    PROVE  OpenedInv' /\ CommitInv' /\ SwappedInv'
<1>0. TypeOK /\ OpenedInv /\ CommitInv /\ SwappedInv /\ active \subseteq Runs
  BY DEF CInv, IInv, HInv, TInv, TypeOK
<1>1. OpenedInv'
  BY <1>0 DEF OpenedInv, Passive
<1>2. \A x \in Workers : call'[x].at \in CommitPoints => x # w /\ call'[x] = call[x]
  BY DEF Passive, CommitPoints
<1>3. CommitInv'
  <2>1. \A x \in Workers : call'[x].at \in CommitPoints =>
            call'[x].run \in active' /\ run'[call'[x].run].sealed
    BY <1>0, <1>2 DEF CommitInv
  <2>2. QED
    BY <1>0, <1>2, <2>1 DEF CommitInv
<1>4. SwappedInv'
  <2>1. \A q \in Runs : HasSwapped(q)' <=> HasSwapped(q)
    BY DEF HasSwapped
  <2>2. QED
    BY <1>0, <2>1 DEF SwappedInv, Passive
<1>5. QED
  BY <1>1, <1>3, <1>4


\* The refusals, pushes, aborts, queries and drops are such steps, and so is the
\* end of a commit, which only its own worker can bring about.
LEMMA AnswerQuiet ==
    ASSUME CInv, NEW w \in Workers, NEW r \in Runs, NEW code, Answer(w, r, code),
           active' = active, swaps' = swaps,
           \A q \in Runs : openLeg'[q] \in {openLeg[q], 0},
           \A q \in active : run[q].sealed => run'[q].sealed
    PROVE  OpenedInv' /\ CommitInv' /\ SwappedInv'
<1>1. TypeOK /\ CommitInv
  BY DEF CInv, IInv, HInv, TInv
<1>2. call'[w].at \in Passive /\ \A x \in Workers \ {w} : call'[x] = call[x]
  BY <1>1, AnswerMove
<1>3. \A x \in Workers \ {w} : call[x].at \in CommitPoints => call[x].run \in active'
  BY <1>1 DEF CommitInv
<1>4. QED
  BY <1>2, <1>3, QuietStep

LEMMA OpenAnswered ==
    ASSUME CInv, NEW w \in Workers, NEW r \in Runs,
           \/ OpenUnreachable(w, r) \/ RefuseBusyTable(w, r) \/ RefuseOverQuota(w, r)
           \/ OpenFails(w, r) \/ ReturnSeat(w, r)
    PROVE  OpenedInv' /\ CommitInv' /\ SwappedInv'
<1> USE DEF sinkMaps, mysqlVars
<1>1. PICK code : Answer(w, r, code)
  BY DEF OpenUnreachable, RefuseBusyTable, RefuseOverQuota, OpenFails, ReturnSeat, LeaveSeat
<1>2. active' = active /\ run' = run /\ swaps' = swaps
  BY DEF OpenUnreachable, RefuseBusyTable, RefuseOverQuota, OpenFails, ReturnSeat
<1>3. openLeg' = openLeg \/ openLeg' = [openLeg EXCEPT ![r] = 0]
  BY DEF OpenUnreachable, RefuseBusyTable, RefuseOverQuota, OpenFails, ReturnSeat, TakeLeg
<1>4. \A q \in Runs : openLeg'[q] \in {openLeg[q], 0}
  BY <1>3 DEF CInv, IInv, HInv, TInv, TypeOK
<1>5. QED
  BY <1>1, <1>2, <1>4, AnswerQuiet

LEMMA RequestAnswered ==
    ASSUME CInv, NEW w \in Workers, NEW r \in Runs,
           \/ \E seq \in 1..MaxBatches : RefuseBatch(w, r, seq)
           \/ BatchFails(w, r) \/ AccountBatch(w, r)
           \/ RefuseCommit(w, r) \/ RefuseAbort(w, r) \/ AbortDropFails(w, r)
           \/ GetTombstone(w, r) \/ DropStaging(w, r) \/ DropFails(w, r)
    PROVE  OpenedInv' /\ CommitInv' /\ SwappedInv'
<1> USE DEF sinkMaps, mysqlVars
<1>1. PICK code : Answer(w, r, code)
  BY DEF RefuseBatch, BatchFails, AccountBatch, RefuseCommit, RefuseAbort, AbortDropFails,
         GetTombstone, DropStaging, DropFails
<1>2. active' = active /\ openLeg' = openLeg /\ swaps' = swaps
  BY DEF RefuseBatch, BatchFails, AccountBatch, RefuseCommit, RefuseAbort, AbortDropFails,
         GetTombstone, DropStaging, DropFails
<1>3. \A q \in active : run'[q].sealed = run[q].sealed
  <2>1. run \in [Runs -> Entry] /\ active \subseteq Runs
    BY DEF CInv, IInv, HInv, TInv, TypeOK
  <2>2. CASE BatchFails(w, r)
    BY <2>1, <2>2 DEF BatchFails, ReleaseSeq, Entry
  <2>3. CASE AccountBatch(w, r)
    BY <2>1, <2>3 DEF AccountBatch, Entry
  <2>4. CASE run' = run
    BY <2>4
  <2>5. QED
    BY <2>2, <2>3, <2>4 DEF RefuseBatch, RefuseCommit, RefuseAbort, AbortDropFails,
       GetTombstone, DropStaging, DropFails
<1>4. QED
  BY <1>1, <1>2, <1>3, AnswerQuiet

LEMMA GoesOnQuietly ==
    ASSUME CInv, NEW w \in Workers, NEW r \in Runs,
           \/ \E seq \in 1..MaxBatches : ClaimBatch(w, r, seq)
           \/ LandBatch(w, r) \/ GetActive(w, r)
    PROVE  OpenedInv' /\ CommitInv' /\ SwappedInv'
<1> USE DEF sinkMaps, mysqlVars
<1>1. TypeOK /\ CommitInv /\ run \in [Runs -> Entry] /\ active \subseteq Runs
  BY DEF CInv, IInv, HInv, TInv, TypeOK
<1>2. call'[w].at \in Passive /\ \A x \in Workers \ {w} : call'[x] = call[x]
  <2>1. CASE \E seq \in 1..MaxBatches : ClaimBatch(w, r, seq)
    BY <2>1, <1>1, BeginMove DEF ClaimBatch, Passive
  <2>2. CASE LandBatch(w, r)
    BY <2>2, <1>1, GotoMove DEF LandBatch, Passive
  <2>3. CASE GetActive(w, r)
    BY <2>3, <1>1, BeginMove, AnswerMove DEF GetActive, Passive
  <2>4. QED
    BY <2>1, <2>2, <2>3
<1>3. active' = active /\ openLeg' = openLeg /\ swaps' = swaps
  BY DEF ClaimBatch, LandBatch, GetActive
<1>4. \A q \in active : run'[q].sealed = run[q].sealed
  BY <1>1 DEF ClaimBatch, LandBatch, GetActive, Entry
<1>5. \A x \in Workers \ {w} : call[x].at \in CommitPoints => call[x].run \in active'
  BY <1>1, <1>3 DEF CommitInv
<1>6. QED
  BY <1>2, <1>3, <1>4, <1>5, QuietStep

LEMMA RunLeaves ==
    ASSUME CInv, NEW w \in Workers, NEW r \in Runs, Abort(w, r) \/ FinishRun(w, r)
    PROVE  OpenedInv' /\ CommitInv' /\ SwappedInv'
<1> USE DEF sinkMaps, mysqlVars
<1>1. TypeOK /\ CommitInv /\ call \in [Workers -> Call]
  BY DEF CInv, IInv, HInv, TInv, TypeOK
<1>2. call'[w].at \in Passive /\ \A x \in Workers \ {w} : call'[x] = call[x]
  <2>1. CASE Abort(w, r)
    BY <2>1, <1>1, AnswerMove DEF Abort
  <2>2. CASE FinishRun(w, r)
    BY <2>2, <1>1 DEF FinishRun, Passive, Call
  <2>3. QED
    BY <2>1, <2>2
<1>3. active' = active \ {r} /\ openLeg' = openLeg /\ swaps' = swaps /\ run' = run
  BY DEF Abort, FinishRun
<1>4. \A x \in Workers \ {w} : call[x].at \in CommitPoints => call[x].run \in active'
  <2>1. CASE Abort(w, r)
    BY <2>1, <1>1, <1>3 DEF Abort, AbortError, CommitInv
  <2>2. CASE FinishRun(w, r)
    <3>1. call[w].at \in CommitPoints /\ call[w].run = r
      BY <2>2 DEF FinishRun, At, CommitPoints
    <3>2. QED
      BY <3>1, <1>1, <1>3 DEF CommitInv
  <2>3. QED
    BY <2>1, <2>2
<1>5. QED
  BY <1>2, <1>3, <1>4, QuietStep

-----------------------------------------------------------------------------
(* The steps of an open. *)

\* A run whose open is under way, or may still be sent, is not active and was
\* never swapped.
LEMMA Fresh ==
    ASSUME CInv, NEW r \in Runs,
           \/ openLeg[r] > 0
           \/ \E w \in Workers : At(w, r, "admitted") \/ At(w, r, "created")
    PROVE  r \notin active /\ ~HasSwapped(r)
BY DEF CInv, OpenedInv, SwappedInv, At

LEMMA AdmitStep ==
    ASSUME CInv, NEW w \in Workers, NEW r \in Runs, Admit(w, r)
    PROVE  OpenedInv' /\ CommitInv' /\ SwappedInv'
<1> USE DEF sinkMaps, mysqlVars
<1>1. TypeOK /\ OpenedInv /\ CommitInv /\ SwappedInv /\ active \subseteq Runs
  BY DEF CInv, IInv, HInv, TInv, TypeOK
<1>2. /\ call'[w].at = "admitted" /\ call'[w].run = r
      /\ \A x \in Workers \ {w} : call'[x] = call[x]
  BY <1>1, BeginMove DEF Admit
<1>3. r \notin active /\ ~HasSwapped(r)
  BY Fresh DEF Admit, TakeLeg
<1>4. active' = active /\ run' = run /\ swaps' = swaps
  BY DEF Admit
<1>5. \A q \in Runs : openLeg'[q] \in {openLeg[q], 0}
  BY <1>1 DEF Admit, TakeLeg, TypeOK
<1>6. OpenedInv'
  BY <1>1, <1>2, <1>3, <1>4, <1>5 DEF OpenedInv
<1>7. \A x \in Workers : call'[x].at \in CommitPoints => x # w /\ call'[x] = call[x]
  BY <1>2 DEF CommitPoints
<1>8. CommitInv'
  BY <1>1, <1>4, <1>7 DEF CommitInv
<1>9. \A q \in Runs : HasSwapped(q)' <=> HasSwapped(q)
  BY <1>4 DEF HasSwapped
<1>10. SwappedInv'
  BY <1>1, <1>2, <1>3, <1>4, <1>5, <1>9 DEF SwappedInv
<1>11. QED
  BY <1>6, <1>8, <1>10

LEMMA AskRangeCheckStep ==
    ASSUME CInv, NEW w \in Workers, NEW r \in Runs, AskRangeCheck(w, r)
    PROVE  OpenedInv' /\ CommitInv' /\ SwappedInv'
<1> USE DEF sinkMaps, mysqlVars
<1>1. TypeOK /\ OpenedInv /\ CommitInv /\ SwappedInv /\ active \subseteq Runs
  BY DEF CInv, IInv, HInv, TInv, TypeOK
<1>2. call'[w].at \in Passive /\ \A x \in Workers \ {w} : call'[x] = call[x]
  BY <1>1, AnswerMove DEF AskRangeCheck, LeaveSeat
<1>3. r \notin active /\ ~HasSwapped(r)
  BY Fresh DEF AskRangeCheck
<1>4. active' = active /\ run' = run /\ swaps' = swaps
  BY DEF AskRangeCheck
<1>5. \A q \in Runs \ {r} : openLeg'[q] = openLeg[q]
  BY <1>1 DEF AskRangeCheck, TypeOK
<1>6. OpenedInv'
  BY <1>1, <1>2, <1>3, <1>4, <1>5 DEF OpenedInv, Passive
<1>7. \A x \in Workers : call'[x].at \in CommitPoints => x # w /\ call'[x] = call[x]
  BY <1>2 DEF CommitPoints, Passive
<1>8. CommitInv'
  BY <1>1, <1>4, <1>7 DEF CommitInv
<1>9. \A q \in Runs : HasSwapped(q)' <=> HasSwapped(q)
  BY <1>4 DEF HasSwapped
<1>10. SwappedInv'
  BY <1>1, <1>2, <1>3, <1>4, <1>5, <1>9 DEF SwappedInv, Passive
<1>11. QED
  BY <1>6, <1>8, <1>10

LEMMA CreateStagingStep ==
    ASSUME CInv, NEW w \in Workers, NEW r \in Runs, CreateStaging(w, r)
    PROVE  OpenedInv' /\ CommitInv' /\ SwappedInv'
<1> USE DEF sinkMaps, mysqlVars
<1>1. TypeOK /\ OpenedInv /\ CommitInv /\ SwappedInv /\ active \subseteq Runs
  BY DEF CInv, IInv, HInv, TInv, TypeOK
<1>2. /\ call'[w].at = "created" /\ call'[w].run = call[w].run /\ call[w].at = "admitted"
      /\ \A x \in Workers \ {w} : call'[x] = call[x]
  BY <1>1, GotoMove DEF CreateStaging, At
<1>3. active' = active /\ run' = run /\ swaps' = swaps /\ openLeg' = openLeg
  BY DEF CreateStaging
<1>4. OpenedInv'
  BY <1>1, <1>2, <1>3 DEF OpenedInv
<1>5. \A x \in Workers : call'[x].at \in CommitPoints => x # w /\ call'[x] = call[x]
  BY <1>2 DEF CommitPoints
<1>6. CommitInv'
  BY <1>1, <1>3, <1>5 DEF CommitInv
<1>7. \A q \in Runs : HasSwapped(q)' <=> HasSwapped(q)
  BY <1>3 DEF HasSwapped
<1>8. SwappedInv'
  BY <1>1, <1>2, <1>3, <1>7 DEF SwappedInv
<1>9. QED
  BY <1>4, <1>6, <1>8

LEMMA InsertActiveStep ==
    ASSUME CInv, NEW w \in Workers, NEW r \in Runs, InsertActive(w, r)
    PROVE  OpenedInv' /\ CommitInv' /\ SwappedInv'
<1> USE DEF sinkMaps, mysqlVars
<1>1. TypeOK /\ SeatInv /\ OpenedInv /\ CommitInv /\ SwappedInv /\ active \subseteq Runs
  BY DEF CInv, IInv, HInv, TInv, TypeOK
<1>2. /\ call[w].at = "created" /\ call[w].run = r
      /\ call'[w].at = "inserted" /\ call'[w].run = r
      /\ \A x \in Workers \ {w} : call'[x] = call[x]
  BY <1>1, GotoMove DEF InsertActive, At
<1>3. r \notin active /\ ~HasSwapped(r)
  BY Fresh DEF InsertActive
<1>4. /\ active' = active \cup {r} /\ swaps' = swaps /\ openLeg' = openLeg
      /\ \A q \in active : run'[q] = run[q]
  BY <1>1, <1>3 DEF InsertActive, TypeOK
<1>5. openLeg[r] = 0
  BY <1>1, <1>2 DEF SeatInv, OpenPoints
<1>6. \A x \in Workers \ {w} : call[x].run = r => call[x].at \notin {"admitted", "created"}
  BY <1>1, <1>2 DEF SeatInv, OpenPoints
<1>7. OpenedInv'
  <2>1. \A x \in Workers : call'[x].run = r => call'[x].at \notin {"admitted", "created"}
    BY <1>2, <1>6
  <2>2. \A q \in active, x \in Workers :
            call'[x].run = q => call'[x].at \notin {"admitted", "created"}
    BY <1>1, <1>2, <1>3 DEF OpenedInv
  <2>3. \A q \in active' : openLeg'[q] = 0
    BY <1>1, <1>4, <1>5 DEF OpenedInv
  <2>4. QED
    BY <1>4, <2>1, <2>2, <2>3 DEF OpenedInv
<1>8. \A x \in Workers : call'[x].at \in CommitPoints => x # w /\ call'[x] = call[x]
  BY <1>2 DEF CommitPoints
<1>9. CommitInv'
  BY <1>1, <1>4, <1>8 DEF CommitInv
<1>10. \A q \in Runs : HasSwapped(q)' <=> HasSwapped(q)
  BY <1>4 DEF HasSwapped
<1>11. SwappedInv'
  BY <1>1, <1>2, <1>3, <1>4, <1>10 DEF SwappedInv
<1>12. QED
  BY <1>7, <1>9, <1>11

-----------------------------------------------------------------------------
(* The steps of a commit. *)

LEMMA SealStep ==
    ASSUME CInv, NEW w \in Workers, NEW r \in Runs, NEW total, Seal(w, r, total)
    PROVE  OpenedInv' /\ CommitInv' /\ SwappedInv'
<1> USE DEF sinkMaps, mysqlVars
<1>1. TypeOK /\ OpenedInv /\ CommitInv /\ SwappedInv /\ active \subseteq Runs
  BY DEF CInv, IInv, HInv, TInv, TypeOK
<1>2. /\ call'[w].at = "sealed" /\ call'[w].run = r
      /\ \A x \in Workers \ {w} : call'[x] = call[x]
  BY <1>1 DEF Seal, TypeOK, IdleCall
<1>3. r \in active /\ ~run[r].sealed
  BY DEF Seal, CommitError, InactiveRunError
<1>4. /\ active' = active /\ swaps' = swaps /\ openLeg' = openLeg
      /\ run'[r].sealed /\ \A q \in active \ {r} : run'[q] = run[q]
  BY <1>1, <1>3 DEF Seal, TypeOK, Entry
<1>5. OpenedInv'
  BY <1>1, <1>2, <1>4 DEF OpenedInv
<1>6. \A x \in Workers \ {w} : call'[x].at \in CommitPoints =>
          call[x].run \in active \ {r} /\ run[call[x].run].sealed
  BY <1>1, <1>2, <1>3 DEF CommitInv
<1>7. CommitInv'
  <2>1. \A x \in Workers : call'[x].at \in CommitPoints =>
            call'[x].run \in active' /\ run'[call'[x].run].sealed
    BY <1>2, <1>3, <1>4, <1>6
  <2>2. \A x, y \in Workers :
            /\ call'[x].at \in CommitPoints /\ call'[y].at \in CommitPoints
            /\ call'[x].run = call'[y].run
            => x = y
    BY <1>1, <1>2, <1>6 DEF CommitInv
  <2>3. QED
    BY <2>1, <2>2 DEF CommitInv
<1>8. \A q \in Runs : HasSwapped(q)' <=> HasSwapped(q)
  BY <1>4 DEF HasSwapped
<1>9. ~HasSwapped(r)
  BY <1>1, <1>3 DEF SwappedInv
<1>10. SwappedInv'
  BY <1>1, <1>2, <1>4, <1>8, <1>9 DEF SwappedInv
<1>11. QED
  BY <1>5, <1>7, <1>10

\* A commit goes on: its run stays active, sealed and its worker's alone.
LEMMA CommitGoesOn ==
    ASSUME CInv, NEW w \in Workers, NEW r \in Runs, NEW point \in {"verified", "swapped", "discarded"},
           call[w].at \in CommitPoints, call[w].run = r,
           call'[w].at = point, call'[w].run = r,
           \A x \in Workers \ {w} : call'[x] = call[x],
           active' = active, run' = run, openLeg' = openLeg
    PROVE  OpenedInv' /\ CommitInv'
<1>1. OpenedInv /\ CommitInv
  BY DEF CInv
<1>2. OpenedInv'
  BY <1>1 DEF OpenedInv
<1>3. CommitInv'
  BY <1>1 DEF CommitInv, CommitPoints
<1>4. QED
  BY <1>2, <1>3

LEMMA SwapSeen ==
    ASSUME CInv, NEW r \in Runs, MoveRows(r)
    PROVE  \A q \in Runs : HasSwapped(q)' => HasSwapped(q) \/ q = r
<1> DEFINE t == TableOf[r]
           new == [run |-> r, rows |-> landed[r]]
<1>1. swaps \in [Tables -> Seq(Swap)] /\ t \in Tables
  BY RunAssumption DEF CInv, IInv, HInv, TInv, TypeOK
<1>2. swaps'[t] = Append(swaps[t], new) /\ \A u \in Tables \ {t} : swaps'[u] = swaps[u]
  BY <1>1 DEF MoveRows
<1>3. new.run = r
  OBVIOUS
<1> HIDE DEF new, t
<1>4. swaps[t] \in Seq(Swap)
  BY <1>1
<1>5. \A i \in DOMAIN swaps'[t] : \/ i \in DOMAIN swaps[t] /\ swaps'[t][i] = swaps[t][i]
                                  \/ swaps'[t][i] = new
  BY <1>2, <1>4
<1>6. TableOf \in [Runs -> Tables]
  BY RunAssumption
<1>7. ASSUME NEW q \in Runs, HasSwapped(q)', q # r
      PROVE  HasSwapped(q)
  <2>1. PICK i \in DOMAIN swaps'[TableOf[q]] : swaps'[TableOf[q]][i].run = q
    BY <1>7 DEF HasSwapped
  <2>2. CASE TableOf[q] = t
    BY <1>3, <1>5, <1>7, <2>1, <2>2 DEF HasSwapped
  <2>3. CASE TableOf[q] # t
    BY <1>2, <1>6, <2>1, <2>3 DEF HasSwapped
  <2>4. QED
    BY <2>2, <2>3
<1>8. QED
  BY <1>7

LEMMA VerifyStep ==
    ASSUME CInv, NEW w \in Workers, NEW r \in Runs, Verify(w, r)
    PROVE  OpenedInv' /\ CommitInv' /\ SwappedInv'
<1> USE DEF sinkMaps, mysqlVars
<1>1. TypeOK /\ SwappedInv /\ call \in [Workers -> Call]
  BY DEF CInv, IInv, HInv, TInv, TypeOK
<1>2. call[w].at = "sealed" /\ call[w].run = r
  BY DEF Verify, At
<1>3. /\ call'[w].at \in {"verified", "discarded"} /\ call'[w].run = r
      /\ \A x \in Workers \ {w} : call'[x] = call[x]
  BY <1>1, <1>2 DEF Verify, Call
<1>4. active' = active /\ run' = run /\ openLeg' = openLeg /\ swaps' = swaps
  BY DEF Verify
<1>5. OpenedInv' /\ CommitInv'
  BY <1>2, <1>3, <1>4, CommitGoesOn DEF CommitPoints
<1>6. \A q \in Runs : HasSwapped(q)' <=> HasSwapped(q)
  BY <1>4 DEF HasSwapped
<1>7. SwappedInv'
  BY <1>1, <1>2, <1>3, <1>4, <1>6 DEF SwappedInv
<1>8. QED
  BY <1>5, <1>7

LEMMA SwapStep ==
    ASSUME CInv, NEW w \in Workers, NEW r \in Runs, SwapCommits(w, r) \/ SwapFails(w, r)
    PROVE  OpenedInv' /\ CommitInv' /\ SwappedInv'
<1> USE DEF sinkMaps, mysqlVars
<1>1. /\ TypeOK /\ OpenedInv /\ CommitInv /\ SwappedInv
      /\ call \in [Workers -> Call] /\ active \subseteq Runs
  BY DEF CInv, IInv, HInv, TInv, TypeOK
<1>2. call[w].at \in {"sealed", "verified"} /\ call[w].run = r
  BY DEF SwapCommits, SwapFails, At
<1>3. /\ call'[w].at \in {"swapped", "discarded"} /\ call'[w].run = r
      /\ \A x \in Workers \ {w} : call'[x] = call[x]
  BY <1>1, <1>2 DEF SwapCommits, SwapFails, Goto, Call
<1>4. active' = active /\ run' = run /\ openLeg' = openLeg
  BY DEF SwapCommits, SwapFails
<1>5. OpenedInv' /\ CommitInv'
  BY <1>2, <1>3, <1>4, CommitGoesOn DEF CommitPoints
<1>6. \A q \in Runs : HasSwapped(q)' => HasSwapped(q) \/ q = r
  <2>1. CASE UNCHANGED swaps
    BY <2>1 DEF HasSwapped
  <2>2. CASE MoveRows(r)
    BY <2>2, SwapSeen
  <2>3. QED
    BY <2>1, <2>2 DEF SwapCommits, SwapFails
<1>7. r \in active /\ run[r].sealed /\ openLeg[r] = 0
  BY <1>1, <1>2 DEF CommitInv, OpenedInv, CommitPoints
<1>8. \A x \in Workers \ {w} :
          call[x].run = r => call[x].at \notin {"admitted", "created", "sealed", "verified"}
  BY <1>1, <1>2, <1>7 DEF CommitInv, OpenedInv, CommitPoints
<1>9. ASSUME NEW q \in Runs, HasSwapped(q)'
      PROVE  /\ openLeg[q] = 0
             /\ q \in active => run[q].sealed
             /\ \A x \in Workers : call'[x].run = q =>
                    call'[x].at \notin {"admitted", "created", "sealed", "verified"}
  <2>1. CASE q = r
    BY <2>1, <1>3, <1>7, <1>8
  <2>2. CASE q # r
    BY <2>2, <1>1, <1>3, <1>6, <1>9 DEF SwappedInv
  <2>3. QED
    BY <2>1, <2>2
<1>10. SwappedInv'
  BY <1>4, <1>9 DEF SwappedInv
<1>11. QED
  BY <1>5, <1>10

-----------------------------------------------------------------------------
(* The invariant. *)

LEMMA CommitInit == Init => CInv
<1> SUFFICES ASSUME Init PROVE CInv
  OBVIOUS
<1>1. \A w \in Workers : call[w].at = "idle"
  BY DEF Init, IdleCall
<1>2. \A r \in Runs : ~HasSwapped(r)
  <2>1. \A t \in Tables : swaps[t] = <<>>
    BY DEF Init
  <2>2. QED
    BY <2>1, RunAssumption DEF HasSwapped
<1>3. OpenedInv /\ CommitInv /\ SwappedInv
  BY <1>1, <1>2 DEF Init, OpenedInv, CommitInv, SwappedInv, CommitPoints
<1>4. QED
  BY <1>3, HeldInit DEF CInv

LEMMA CommitStep == CInv /\ [Next]_vars => CInv'
<1> SUFFICES ASSUME CInv, [Next]_vars PROVE CInv'
  OBVIOUS
<1>1. IInv'
  BY HeldStep DEF CInv
<1>2. ASSUME NEW w \in Workers, NEW r \in Runs, Receive(w, r)
      PROVE  OpenedInv' /\ CommitInv' /\ SwappedInv'
  BY <1>2, AdmitStep, SealStep, OpenAnswered, RequestAnswered, GoesOnQuietly, RunLeaves DEF Receive
<1>3. ASSUME NEW w \in Workers, NEW r \in Runs, Continue(w, r)
      PROVE  OpenedInv' /\ CommitInv' /\ SwappedInv'
  BY <1>3, AskRangeCheckStep, CreateStagingStep, InsertActiveStep, VerifyStep, SwapStep,
     OpenAnswered, RequestAnswered, GoesOnQuietly, RunLeaves DEF Continue
<1>4. ASSUME NEW w \in Workers, Reply(w)
      PROVE  OpenedInv' /\ CommitInv' /\ SwappedInv'
  <2>1. TypeOK /\ CommitInv
    BY DEF CInv, IInv, HInv, TInv
  <2>2. call'[w].at = "idle" /\ \A x \in Workers \ {w} : call'[x] = call[x]
    BY <1>4, <2>1 DEF Reply, IdleCall, TypeOK
  <2>3. active' = active /\ run' = run /\ openLeg' = openLeg /\ swaps' = swaps
    BY <1>4 DEF Reply, sinkMaps, mysqlVars
  <2>4. \A x \in Workers \ {w} : call[x].at \in CommitPoints => call[x].run \in active'
    BY <2>1, <2>3 DEF CommitInv
  <2>5. QED
    BY <2>2, <2>3, <2>4, QuietStep DEF Passive
<1>5. CASE Restart
  <2>1. active' = {} /\ \A w \in Workers : call'[w].at = "idle"
    BY <1>5 DEF Restart, IdleCall
  <2>2. openLeg' = openLeg /\ swaps' = swaps
    BY <1>5 DEF Restart, mysqlVars
  <2>3. \A q \in Runs : HasSwapped(q)' => HasSwapped(q)
    BY <2>2 DEF HasSwapped
  <2>4. OpenedInv' /\ CommitInv'
    BY <2>1 DEF OpenedInv, CommitInv, CommitPoints
  <2>5. SwappedInv'
    BY <2>1, <2>2, <2>3 DEF SwappedInv, CInv
  <2>6. QED
    BY <1>1, <2>4, <2>5 DEF CInv
<1>6. CASE UNCHANGED vars
  <2>1. \A q \in Runs : HasSwapped(q)' => HasSwapped(q)
    BY <1>6 DEF vars, HasSwapped
  <2>2. OpenedInv' /\ CommitInv'
    BY <1>6 DEF vars, CInv, OpenedInv, CommitInv
  <2>3. SwappedInv'
    BY <1>6, <2>1 DEF vars, CInv, SwappedInv
  <2>4. QED
    BY <1>1, <2>2, <2>3 DEF CInv
<1>7. QED
  BY <1>1, <1>2, <1>3, <1>4, <1>5, <1>6 DEF CInv, Next

LEMMA CommitsHeld == Spec => []CInv
BY CommitInit, CommitStep, PTL DEF Spec

-----------------------------------------------------------------------------
(* What follows for the target tables. *)

\* A target table changes only by the swap of a sealed run that was never
\* swapped before.
LEMMA OnlySwaps ==
    ASSUME CInv, [Next]_vars
    PROVE  \/ swaps' = swaps
           \/ \E r \in active : /\ run[r].sealed /\ ~HasSwapped(r)
                                /\ InFlight' = InFlight
                                /\ MoveRows(r)
<1> USE DEF sinkMaps, mysqlVars
<1>1. ASSUME NEW w \in Workers, NEW r \in Runs, SwapCommits(w, r) \/ SwapFails(w, r), MoveRows(r)
      PROVE  r \in active /\ run[r].sealed /\ ~HasSwapped(r) /\ InFlight' = InFlight
  <2>1. call[w].at = "verified" \/ call[w].at = "sealed"
    BY <1>1 DEF SwapCommits, SwapFails, At
  <2>2. call[w].run = r /\ UNCHANGED <<active, admitting>>
    BY <1>1 DEF SwapCommits, SwapFails, At
  <2>3. QED
    BY <2>1, <2>2 DEF CInv, CommitInv, SwappedInv, CommitPoints, InFlight
<1>2. ASSUME NEW w \in Workers, NEW r \in Runs, SwapCommits(w, r) \/ SwapFails(w, r)
      PROVE  swaps' = swaps \/ MoveRows(r)
  BY <1>2 DEF SwapCommits, SwapFails
<1>3. ASSUME NEW w \in Workers, NEW r \in Runs, Receive(w, r)
      PROVE  swaps' = swaps
  BY <1>3 DEF Receive, OpenUnreachable, Admit, RefuseBusyTable, RefuseOverQuota, RefuseBatch,
              ClaimBatch, RefuseCommit, Seal, RefuseAbort, Abort, AbortDropFails, GetActive
<1>4. ASSUME NEW w \in Workers, NEW r \in Runs, Continue(w, r),
             ~(SwapCommits(w, r) \/ SwapFails(w, r))
      PROVE  swaps' = swaps
  BY <1>4 DEF Continue, AskRangeCheck, OpenFails, CreateStaging, InsertActive, ReturnSeat,
              LandBatch, BatchFails, AccountBatch, Verify, FinishRun, DropStaging, DropFails,
              GetTombstone
<1>5. CASE (\E w \in Workers : Reply(w)) \/ Restart \/ UNCHANGED vars
  BY <1>5 DEF Reply, Restart, vars
<1>6. QED
  BY <1>1, <1>2, <1>3, <1>4, <1>5 DEF Next

\* A target table changes only under the sealed run that holds it, with nobody
\* else in flight on it, for any number of runs, tables and workers.
THEOREM SwapsHeld == Spec => SwapsUnderHold
<1>1. CInv /\ [Next]_vars => [SwapUnderHold]_vars
  <2> SUFFICES ASSUME CInv, [Next]_vars PROVE [SwapUnderHold]_vars
    OBVIOUS
  <2>1. CASE swaps' = swaps
    BY <2>1 DEF SwapUnderHold
  <2>2. ASSUME NEW r \in active, run[r].sealed, MoveRows(r)
        PROVE  SwapUnderHold
    <3>1. swaps \in [Tables -> Seq(Swap)]
      BY DEF CInv, IInv, HInv, TInv, TypeOK
    <3>2. \A t \in Tables \ {TableOf[r]} : swaps'[t] = swaps[t]
      BY <2>2, <3>1 DEF MoveRows
    <3>3. Holders(r) = {}
      BY DEF CInv, IInv, TargetExclusion, Holders, InFlight
    <3>4. QED
      BY <2>2, <3>2, <3>3 DEF SwapUnderHold
  <2>3. QED
    BY <2>1, <2>2, OnlySwaps
<1>2. QED
  BY <1>1, CommitsHeld, PTL DEF Spec, SwapsUnderHold

LEMMA OneSwapStep ==
    ASSUME CInv, OneSwap, [Next]_vars
    PROVE  OneSwap'
<1>1. CASE swaps' = swaps
  BY <1>1 DEF OneSwap
<1>2. ASSUME NEW r \in active, ~HasSwapped(r), MoveRows(r)
      PROVE  OneSwap'
  <2> DEFINE u == TableOf[r]
             new == [run |-> r, rows |-> landed[r]]
  <2>1. swaps \in [Tables -> Seq(Swap)] /\ u \in Tables
    BY RunAssumption DEF CInv, IInv, HInv, TInv, TypeOK
  <2>2. swaps'[u] = Append(swaps[u], new) /\ \A t \in Tables \ {u} : swaps'[t] = swaps[t]
    BY <1>2, <2>1 DEF MoveRows
  <2>3. new.run = r /\ \A i \in DOMAIN swaps[u] : swaps[u][i].run # r
    BY <1>2 DEF HasSwapped
  <2> HIDE DEF new, u
  <2>4. swaps[u] \in Seq(Swap)
    BY <2>1
  <2>5. DOMAIN swaps'[u] = 1..(Len(swaps[u]) + 1) /\ DOMAIN swaps[u] = 1..Len(swaps[u])
    BY <2>2, <2>4
  <2>6. \A i \in DOMAIN swaps'[u] :
            \/ i \in DOMAIN swaps[u] /\ swaps'[u][i] = swaps[u][i]
            \/ i = Len(swaps[u]) + 1 /\ swaps'[u][i] = new
    BY <2>2, <2>4, <2>5
  <2>7. \A i, j \in DOMAIN swaps'[u] : swaps'[u][i].run = swaps'[u][j].run => i = j
    BY <2>1, <2>3, <2>6 DEF OneSwap
  <2>8. QED
    BY <2>2, <2>7 DEF OneSwap
<1>3. QED
  BY <1>1, <1>2, OnlySwaps

\* The rows of a run are imported at most once, however many commits, aborts
\* and restarts the agent sees, and even if MySQL loses acknowledgements.
THEOREM SwappedOnce == Spec => []OneSwap
<1>1. Init => OneSwap
  BY DEF Init, OneSwap
<1>2. CInv /\ OneSwap /\ [Next]_vars => OneSwap'
  BY OneSwapStep
<1>3. QED
  BY <1>1, <1>2, CommitsHeld, PTL DEF Spec

-----------------------------------------------------------------------------
(* What the agent remembers of a run that has ended.  A run with a tombstone *)
(* can neither be active again nor be opened again, so what the tombstone    *)
(* says when it is written stays so.                                         *)

Moved == {r \in Runs : HasSwapped(r)}

\* A finish is about to say what happened to the target, and a tombstone has said it.
ToldInv ==
    \A w \in Workers : /\ call[w].at = "swapped" => call[w].run \in Moved
                       /\ call[w].at = "discarded" => call[w].run \notin Moved
ToldTrue ==
    \A i \in DOMAIN tombstones :
        tombstones[i].terminal = "DISCARDED" <=> tombstones[i].run \notin Moved

EndedInv ==
    \A r \in Runs : TombstonesOf(r) # {} =>
        /\ r \notin active /\ openLeg[r] = 0
        /\ \A w \in Workers : call[w].run = r => call[w].at \notin {"admitted", "created"}

MInv == CInv /\ ToldInv /\ EndedInv /\ ToldTrue

LEMMA SwapRecorded ==
    ASSUME CInv, NEW r \in Runs, MoveRows(r) PROVE HasSwapped(r)'
<1> DEFINE t == TableOf[r]
           new == [run |-> r, rows |-> landed[r]]
<1>1. swaps \in [Tables -> Seq(Swap)] /\ t \in Tables
  BY RunAssumption DEF CInv, IInv, HInv, TInv, TypeOK
<1>2. swaps'[t] = Append(swaps[t], new) /\ new.run = r
  BY <1>1 DEF MoveRows
<1> HIDE DEF new
<1>3. swaps[t] \in Seq(Swap)
  BY <1>1
<1>4. Len(swaps[t]) + 1 \in DOMAIN swaps'[t] /\ swaps'[t][Len(swaps[t]) + 1] = new
  <2> HIDE DEF t
  <2> QED BY <1>2, <1>3
<1> QED BY <1>2, <1>4 DEF HasSwapped

\* Who has been swapped after a swap.
LEMMA SwapsGrow ==
    ASSUME CInv, NEW r \in Runs, MoveRows(r)
    PROVE  Moved' = Moved \cup {r}
<1>1. swaps \in [Tables -> Seq(Swap)] /\ TableOf \in [Runs -> Tables]
  BY RunAssumption DEF CInv, IInv, HInv, TInv, TypeOK
<1>2. HasSwapped(r)' /\ \A q \in Runs : HasSwapped(q)' => HasSwapped(q) \/ q = r
  BY SwapRecorded, SwapSeen
<1>3. ASSUME NEW q \in Runs, HasSwapped(q) PROVE HasSwapped(q)'
  <2>1. PICK i \in DOMAIN swaps[TableOf[q]] : swaps[TableOf[q]][i].run = q
    BY <1>3 DEF HasSwapped
  <2>2. CASE TableOf[q] # TableOf[r]
    BY <1>1, <2>1, <2>2 DEF MoveRows, HasSwapped
  <2>3. CASE TableOf[q] = TableOf[r]
    <3> DEFINE new == [run |-> r, rows |-> landed[r]]
    <3>1. swaps'[TableOf[q]] = Append(swaps[TableOf[q]], new)
      BY <1>1, <2>3 DEF MoveRows
    <3>2. swaps[TableOf[q]] \in Seq(Swap)
      BY <1>1
    <3> HIDE DEF new
    <3>3. i \in DOMAIN swaps'[TableOf[q]] /\ swaps'[TableOf[q]][i] = swaps[TableOf[q]][i]
      BY <2>1, <3>1, <3>2
    <3> QED BY <2>1, <3>3 DEF HasSwapped
  <2> QED BY <2>2, <2>3
<1> QED BY <1>2, <1>3 DEF Moved

LEMMA SwapsRest ==
    ASSUME swaps' = swaps PROVE Moved' = Moved
BY DEF Moved, HasSwapped

\* What a push makes of the tombstones.
LEMMA Pushed ==
    ASSUME TInv, NEW r \in Runs, NEW terminal \in Terminals, PushTombstone(r, terminal)
    PROVE  /\ \A i \in DOMAIN tombstones' :
                 \/ \E j \in DOMAIN tombstones : tombstones'[i] = tombstones[j]
                 \/ tombstones'[i].run = r /\ tombstones'[i].terminal = terminal
           /\ Len(tombstones) # TombstoneLimit =>
                 \A j \in DOMAIN tombstones : j \in DOMAIN tombstones' /\ tombstones'[j] = tombstones[j]
           /\ Len(tombstones) = TombstoneLimit => Len(tombstones') = TombstoneLimit
           /\ \E i \in DOMAIN tombstones' : tombstones'[i].run = r
<1> DEFINE new == [run |-> r, terminal |-> terminal, sealed |-> run[r].sealed]
           kept == IF Len(tombstones) = TombstoneLimit THEN Tail(tombstones) ELSE tombstones
<1>1. tombstones' = Append(kept, new)
  BY DEF PushTombstone
<1>2. new.run = r /\ new.terminal = terminal
  OBVIOUS
<1>3. tombstones \in Seq(Tombstone) /\ TombstoneLimit \in Nat \ {0}
  BY BoundAssumption DEF TInv, TypeOK
<1>4. CASE Len(tombstones) = TombstoneLimit
  <2>1. kept = Tail(tombstones) /\ kept \in Seq(Tombstone) /\ Len(kept) = TombstoneLimit - 1
    BY <1>3, <1>4
  <2>2. \A i \in DOMAIN kept : i + 1 \in DOMAIN tombstones /\ kept[i] = tombstones[i + 1]
    BY <1>3, <1>4, <2>1
  <2> HIDE DEF kept, new
  <2>3. \A i \in DOMAIN tombstones' : (i \in DOMAIN kept /\ tombstones'[i] = kept[i]) \/ tombstones'[i] = new
    BY <1>1, <2>1
  <2>4. Len(tombstones') = TombstoneLimit
    BY <1>1, <1>3, <2>1
  <2>5. TombstoneLimit \in DOMAIN tombstones' /\ tombstones'[TombstoneLimit] = new
    BY <1>1, <1>3, <2>1
  <2> QED BY <1>2, <1>4, <2>2, <2>3, <2>4, <2>5
<1>5. CASE Len(tombstones) # TombstoneLimit
  <2>1. kept = tombstones
    BY <1>5
  <2> HIDE DEF kept, new
  <2>2. \A i \in DOMAIN tombstones' :
            (i \in DOMAIN tombstones /\ tombstones'[i] = tombstones[i]) \/ tombstones'[i] = new
    BY <1>1, <1>3, <2>1
  <2>3. \A j \in DOMAIN tombstones : j \in DOMAIN tombstones' /\ tombstones'[j] = tombstones[j]
    BY <1>1, <1>3, <2>1
  <2>4. Len(tombstones) + 1 \in DOMAIN tombstones' /\ tombstones'[Len(tombstones) + 1] = new
    BY <1>1, <1>3, <2>1
  <2> QED BY <1>2, <1>5, <2>2, <2>3, <2>4
<1> QED BY <1>4, <1>5

\* How a step treats the runs it ends.
RunEnds(r, terminal) ==
    /\ PushTombstone(r, terminal)
    /\ active' = active \ {r}
    /\ UNCHANGED <<swaps, openLeg>>

LEMMA EndStep ==
    ASSUME CInv, [Next]_vars
    PROVE  \/ tombstones' = tombstones /\ active \subseteq active'
           \/ tombstones' = <<>> /\ active' = {} /\ restarts' > 0 /\ UNCHANGED <<swaps, openLeg>>
           \/ \E r \in active : \E terminal \in Terminals :
                /\ RunEnds(r, terminal)
                /\ \/ terminal = "DISCARDED" /\ ~run[r].sealed
                   \/ \E w \in Workers : /\ terminal = "DISCARDED" <=> call[w].at = "discarded"
                                         /\ call[w].at \in {"swapped", "discarded"} /\ call[w].run = r
<1> USE DEF sinkMaps, mysqlVars
<1>1. ASSUME NEW w \in Workers, NEW r \in Runs, Abort(w, r)
      PROVE  RunEnds(r, "DISCARDED") /\ r \in active /\ ~run[r].sealed /\ "DISCARDED" \in Terminals
  BY <1>1 DEF Abort, AbortError, RunEnds, Terminals
<1>2. ASSUME NEW w \in Workers, NEW r \in Runs, FinishRun(w, r)
      PROVE  /\ r \in active /\ call[w].at \in {"swapped", "discarded"} /\ call[w].run = r
             /\ \E terminal \in Terminals :
                  RunEnds(r, terminal) /\ (terminal = "DISCARDED" <=> call[w].at = "discarded")
  <2>1. call[w].at \in {"swapped", "discarded"} /\ call[w].run = r
    BY <1>2 DEF FinishRun, At
  <2>2. r \in active
    BY <2>1 DEF CInv, CommitInv, CommitPoints
  <2> DEFINE terminal == IF At(w, r, "swapped") THEN SwappedTerminal(r) ELSE "DISCARDED"
  <2>3. terminal \in Terminals /\ (terminal = "DISCARDED" <=> call[w].at = "discarded")
    BY <2>1 DEF At, SwappedTerminal, Terminals
  <2>4. RunEnds(r, terminal)
    BY <1>2 DEF FinishRun, RunEnds
  <2> HIDE DEF terminal
  <2> QED BY <2>1, <2>2, <2>3, <2>4
<1>3. ASSUME NEW w \in Workers, NEW r \in Runs, Receive(w, r), ~Abort(w, r)
      PROVE  tombstones' = tombstones /\ active \subseteq active'
  BY <1>3 DEF Receive, OpenUnreachable, Admit, RefuseBusyTable, RefuseOverQuota, RefuseBatch,
              ClaimBatch, RefuseCommit, Seal, RefuseAbort, AbortDropFails, GetActive
<1>4. ASSUME NEW w \in Workers, NEW r \in Runs, Continue(w, r), ~FinishRun(w, r)
      PROVE  tombstones' = tombstones /\ active \subseteq active'
  BY <1>4 DEF Continue, AskRangeCheck, OpenFails, LeaveSeat, CreateStaging, InsertActive, ReturnSeat,
              LandBatch, BatchFails, AccountBatch, Verify, SwapCommits, SwapFails, DropStaging,
              DropFails, GetTombstone
<1>5. CASE Restart
  <2>1. restarts \in Nat
    BY BoundAssumption DEF CInv, IInv, HInv, TInv, TypeOK
  <2> QED BY <1>5, <2>1 DEF Restart
<1>6. CASE (\E w \in Workers : Reply(w)) \/ UNCHANGED vars
  BY <1>6 DEF Reply, vars
<1> QED BY <1>1, <1>2, <1>3, <1>4, <1>5, <1>6 DEF Next

\* Before a worker opens a run, its leg was to be had or the open was under way.
LEMMA OpensStep ==
    ASSUME CInv, [Next]_vars, NEW r \in Runs, openLeg[r] = 0,
           \A w \in Workers : call[w].run = r => call[w].at \notin {"admitted", "created"}
    PROVE  /\ openLeg'[r] = 0 /\ (r \in active' => r \in active)
           /\ \A w \in Workers : call'[w].run = r => call'[w].at \notin {"admitted", "created"}
<1> USE DEF sinkMaps, mysqlVars
<1>1. /\ TypeOK /\ call \in [Workers -> Call] /\ active \subseteq Runs
      /\ openLeg \in [Runs -> {0, 1, 2}]
  BY DEF CInv, IInv, HInv, TInv, TypeOK
<1>2. ASSUME NEW w \in Workers, NEW q \in Runs, Receive(w, q) \/ Continue(w, q)
      PROVE  /\ openLeg'[r] = 0 /\ (r \in active' => r \in active)
             /\ \A x \in Workers : call'[x].run = r => call'[x].at \notin {"admitted", "created"}
  <2>1. CASE OpenUnreachable(w, q) \/ RefuseBusyTable(w, q) \/ RefuseOverQuota(w, q)
    <3>1. PICK code : Answer(w, q, code)
      BY <2>1 DEF OpenUnreachable, RefuseBusyTable, RefuseOverQuota
    <3>2. call'[w].at \in Passive /\ \A x \in Workers \ {w} : call'[x] = call[x]
      BY <1>1, <3>1, AnswerMove
    <3>3. active' = active /\ openLeg'[r] = 0
      BY <1>1, <2>1 DEF OpenUnreachable, RefuseBusyTable, RefuseOverQuota, TakeLeg
    <3> QED BY <3>2, <3>3 DEF Passive
  <2>2. CASE Admit(w, q)
    <3>1. q # r /\ openLeg'[r] = 0 /\ active' = active
      BY <1>1, <2>2 DEF Admit, TakeLeg
    <3>2. call'[w].run = q /\ \A x \in Workers \ {w} : call'[x] = call[x]
      BY <1>1, <2>2, BeginMove DEF Admit
    <3> QED BY <3>1, <3>2
  <2>3. CASE AskRangeCheck(w, q)
    <3>1. q # r /\ active' = active
      BY <2>3 DEF AskRangeCheck, At
    <3>2. openLeg'[r] = 0
      BY <1>1, <2>3, <3>1 DEF AskRangeCheck
    <3>3. call'[w].at \in Passive /\ \A x \in Workers \ {w} : call'[x] = call[x]
      BY <1>1, <2>3, AnswerMove DEF AskRangeCheck, LeaveSeat
    <3> QED BY <3>1, <3>2, <3>3 DEF Passive
  <2>4. CASE CreateStaging(w, q) \/ InsertActive(w, q)
    <3>1. call[w].run = q /\ call[w].at \in {"admitted", "created"}
      BY <2>4 DEF CreateStaging, InsertActive, At
    <3>2. q # r
      BY <3>1
    <3>3. (r \in active' => r \in active) /\ openLeg' = openLeg
      BY <2>4, <3>2 DEF CreateStaging, InsertActive
    <3>4. call'[w].run = q /\ \A x \in Workers \ {w} : call'[x] = call[x]
      BY <1>1, <2>4, <3>1, GotoMove DEF CreateStaging, InsertActive
    <3> QED BY <3>2, <3>3, <3>4
  <2>5. CASE \/ OpenFails(w, q) \/ ReturnSeat(w, q)
             \/ \E seq \in 1..MaxBatches : RefuseBatch(w, q, seq)
             \/ BatchFails(w, q) \/ AccountBatch(w, q)
             \/ RefuseCommit(w, q) \/ RefuseAbort(w, q) \/ AbortDropFails(w, q) \/ Abort(w, q)
             \/ GetTombstone(w, q) \/ DropStaging(w, q) \/ DropFails(w, q)
    <3>1. PICK code : Answer(w, q, code)
      BY <2>5 DEF OpenFails, ReturnSeat, LeaveSeat, RefuseBatch, BatchFails, AccountBatch,
         RefuseCommit, RefuseAbort, AbortDropFails, Abort, GetTombstone, DropStaging, DropFails
    <3>2. call'[w].at \in Passive /\ \A x \in Workers \ {w} : call'[x] = call[x]
      BY <1>1, <3>1, AnswerMove
    <3>3. active' \subseteq active /\ openLeg' = openLeg
      BY <2>5 DEF OpenFails, ReturnSeat, LeaveSeat, RefuseBatch, BatchFails, AccountBatch,
         RefuseCommit, RefuseAbort, AbortDropFails, Abort, GetTombstone, DropStaging, DropFails
    <3> QED BY <3>2, <3>3 DEF Passive
  <2>6. CASE (\E seq \in 1..MaxBatches : ClaimBatch(w, q, seq)) \/ LandBatch(w, q) \/ GetActive(w, q)
    <3>1. call'[w].at \in Passive /\ \A x \in Workers \ {w} : call'[x] = call[x]
      BY <1>1, <2>6, BeginMove, GotoMove, AnswerMove DEF ClaimBatch, LandBatch, GetActive, Passive
    <3>2. active' = active /\ openLeg' = openLeg
      BY <2>6 DEF ClaimBatch, LandBatch, GetActive
    <3> QED BY <3>1, <3>2 DEF Passive
  <2>7. CASE \/ \E total \in 0..MaxBatches : Seal(w, q, total)
             \/ Verify(w, q) \/ SwapCommits(w, q) \/ SwapFails(w, q) \/ FinishRun(w, q)
    <3>1. active' \subseteq active /\ openLeg' = openLeg
      BY <2>7 DEF Seal, Verify, SwapCommits, SwapFails, FinishRun
    <3>2. /\ call'[w].at \in {"sealed", "verified", "swapped", "discarded", "dropping"}
          /\ \A x \in Workers \ {w} : call'[x] = call[x]
      <4>1. CASE \E total \in 0..MaxBatches : Seal(w, q, total)
        BY <1>1, <4>1 DEF Seal, IdleCall
      <4>2. CASE Verify(w, q)
        BY <1>1, <4>2 DEF Verify, Call
      <4>3. CASE SwapCommits(w, q)
        BY <1>1, <4>3, GotoMove DEF SwapCommits
      <4>4. CASE SwapFails(w, q)
        BY <1>1, <4>4 DEF SwapFails, Call
      <4>5. CASE FinishRun(w, q)
        BY <1>1, <4>5 DEF FinishRun, Call
      <4> QED BY <2>7, <4>1, <4>2, <4>3, <4>4, <4>5
    <3> QED BY <3>1, <3>2
  <2> QED BY <1>2, <2>1, <2>2, <2>3, <2>4, <2>5, <2>6, <2>7 DEF Receive, Continue
<1>3. ASSUME NEW w \in Workers, Reply(w)
      PROVE  /\ openLeg'[r] = 0 /\ (r \in active' => r \in active)
             /\ \A x \in Workers : call'[x].run = r => call'[x].at \notin {"admitted", "created"}
  BY <1>1, <1>3 DEF Reply, IdleCall
<1>4. CASE Restart
  BY <1>4 DEF Restart, IdleCall
<1>5. CASE UNCHANGED vars
  BY <1>5 DEF vars
<1> QED BY <1>2, <1>3, <1>4, <1>5 DEF Next

LEMMA EndedStep ==
    ASSUME CInv, EndedInv, [Next]_vars PROVE EndedInv'
<1> SUFFICES ASSUME NEW r \in Runs, TombstonesOf(r)' # {}
             PROVE  /\ r \notin active' /\ openLeg'[r] = 0
                    /\ \A w \in Workers : call'[w].run = r => call'[w].at \notin {"admitted", "created"}
  BY DEF EndedInv
<1>1. TInv /\ OpenedInv /\ active \subseteq Runs
  BY DEF CInv, IInv, HInv, TInv, TypeOK
<1>2. PICK i \in DOMAIN tombstones' : tombstones'[i].run = r
  BY DEF TombstonesOf
<1>3. CASE TombstonesOf(r) # {}
  BY <1>3, OpensStep DEF EndedInv
<1>4. CASE TombstonesOf(r) = {}
  <2>1. \A j \in DOMAIN tombstones : tombstones[j].run # r
    BY <1>4 DEF TombstonesOf
  <2>2. tombstones' # tombstones /\ tombstones' # <<>>
    BY <1>2, <2>1
  <2>3. PICK q \in active : \E terminal \in Terminals : RunEnds(q, terminal)
    BY <2>2, EndStep
  <2>4. q = r
    BY <1>1, <1>2, <2>1, <2>3, Pushed DEF RunEnds
  <2>5. /\ openLeg[r] = 0
        /\ \A x \in Workers : call[x].run = r => call[x].at \notin {"admitted", "created"}
    BY <1>1, <2>3, <2>4 DEF OpenedInv
  <2>6. r \notin active'
    BY <2>3, <2>4 DEF RunEnds
  <2> QED BY <2>5, <2>6, OpensStep
<1> QED BY <1>3, <1>4

\* Steps other than a commit's verdict, swap and end.
LEMMA TellsNothing ==
    ASSUME CInv, NEW w \in Workers, NEW r \in Runs, Receive(w, r) \/ Continue(w, r),
           ~(Verify(w, r) \/ SwapCommits(w, r) \/ SwapFails(w, r))
    PROVE  /\ swaps' = swaps /\ call'[w].at \notin {"swapped", "discarded"}
           /\ \A x \in Workers \ {w} : call'[x] = call[x]
<1> USE DEF sinkMaps, mysqlVars
<1>1. TypeOK /\ call \in [Workers -> Call]
  BY DEF CInv, IInv, HInv, TInv, TypeOK
<1>2. CASE \/ OpenUnreachable(w, r) \/ RefuseBusyTable(w, r) \/ RefuseOverQuota(w, r)
           \/ AskRangeCheck(w, r) \/ OpenFails(w, r) \/ ReturnSeat(w, r)
           \/ \E seq \in 1..MaxBatches : RefuseBatch(w, r, seq)
           \/ BatchFails(w, r) \/ AccountBatch(w, r)
           \/ RefuseCommit(w, r) \/ RefuseAbort(w, r) \/ AbortDropFails(w, r) \/ Abort(w, r)
           \/ GetTombstone(w, r) \/ DropStaging(w, r) \/ DropFails(w, r)
  <2>1. PICK code : Answer(w, r, code)
    BY <1>2 DEF OpenUnreachable, RefuseBusyTable, RefuseOverQuota, AskRangeCheck, OpenFails, ReturnSeat,
       LeaveSeat, RefuseBatch, BatchFails, AccountBatch, RefuseCommit, RefuseAbort, AbortDropFails, Abort,
       GetTombstone, DropStaging, DropFails
  <2>2. swaps' = swaps
    BY <1>2 DEF OpenUnreachable, RefuseBusyTable, RefuseOverQuota, AskRangeCheck, OpenFails, ReturnSeat,
       LeaveSeat, RefuseBatch, BatchFails, AccountBatch, RefuseCommit, RefuseAbort, AbortDropFails, Abort,
       GetTombstone, DropStaging, DropFails
  <2> QED BY <1>1, <2>1, <2>2, AnswerMove DEF Passive
<1>3. CASE \/ Admit(w, r) \/ CreateStaging(w, r) \/ InsertActive(w, r)
           \/ (\E seq \in 1..MaxBatches : ClaimBatch(w, r, seq)) \/ LandBatch(w, r) \/ GetActive(w, r)
  <2>1. swaps' = swaps
    BY <1>3 DEF Admit, CreateStaging, InsertActive, ClaimBatch, LandBatch, GetActive
  <2>2. /\ call'[w].at \in Passive \cup OpenPoints
        /\ \A x \in Workers \ {w} : call'[x] = call[x]
    BY <1>1, <1>3, BeginMove, GotoMove, AnswerMove
       DEF Admit, CreateStaging, InsertActive, ClaimBatch, LandBatch, GetActive, Passive, OpenPoints
  <2> QED BY <2>1, <2>2 DEF Passive, OpenPoints
<1>4. CASE \E total \in 0..MaxBatches : Seal(w, r, total)
  BY <1>1, <1>4 DEF Seal, IdleCall
<1>5. CASE FinishRun(w, r)
  BY <1>1, <1>5 DEF FinishRun, Call
<1> QED BY <1>2, <1>3, <1>4, <1>5 DEF Receive, Continue

LEMMA ToldStep ==
    ASSUME "swap" \notin AckLost, CInv, ToldInv, [Next]_vars PROVE ToldInv'
<1> USE DEF sinkMaps, mysqlVars
<1>1. /\ TypeOK /\ CommitInv /\ SwappedInv /\ call \in [Workers -> Call] /\ active \subseteq Runs
  BY DEF CInv, IInv, HInv, TInv, TypeOK
<1>2. ASSUME NEW w \in Workers, NEW r \in Runs, Verify(w, r) \/ SwapFails(w, r)
      PROVE  ToldInv'
  <2>1. call[w].at \in {"sealed", "verified"} /\ call[w].run = r
    BY <1>2 DEF Verify, SwapFails, At
  <2>2. /\ call'[w].at \in {"verified", "discarded"} /\ call'[w].run = r
        /\ \A x \in Workers \ {w} : call'[x] = call[x]
    BY <1>1, <1>2, <2>1 DEF Verify, SwapFails, Call
  <2>3. Moved' = Moved
    BY <1>2, SwapsRest DEF Verify, SwapFails
  <2>4. r \notin Moved
    BY <1>1, <2>1 DEF SwappedInv, Moved
  <2> QED BY <2>2, <2>3, <2>4 DEF ToldInv
<1>3. ASSUME NEW w \in Workers, NEW r \in Runs, SwapCommits(w, r)
      PROVE  ToldInv'
  <2>1. call[w].at = "verified" /\ call[w].run = r /\ MoveRows(r)
    BY <1>3 DEF SwapCommits, At
  <2>2. /\ call'[w].at = "swapped" /\ call'[w].run = r
        /\ \A x \in Workers \ {w} : call'[x] = call[x]
    BY <1>1, <1>3, <2>1, GotoMove DEF SwapCommits
  <2>3. Moved' = Moved \cup {r}
    BY <2>1, SwapsGrow
  <2>4. \A x \in Workers \ {w} : call[x].at \in {"swapped", "discarded"} => call[x].run # r
    BY <1>1, <2>1 DEF CommitInv, CommitPoints
  <2> QED BY <2>2, <2>3, <2>4 DEF ToldInv
<1>4. ASSUME swaps' = swaps,
             \A x \in Workers : call'[x].at \in {"swapped", "discarded"} => call'[x] = call[x]
      PROVE  ToldInv'
  BY <1>4, SwapsRest DEF ToldInv
<1>5. ASSUME NEW w \in Workers, NEW r \in Runs, Receive(w, r) \/ Continue(w, r),
             ~(Verify(w, r) \/ SwapCommits(w, r) \/ SwapFails(w, r))
      PROVE  ToldInv'
  BY <1>4, <1>5, TellsNothing
<1>6. CASE \E w \in Workers : Reply(w)
  <2>1. PICK w \in Workers : Reply(w)
    BY <1>6
  <2>2. swaps' = swaps /\ call'[w].at = "idle" /\ \A x \in Workers \ {w} : call'[x] = call[x]
    BY <1>1, <2>1 DEF Reply, IdleCall
  <2> QED BY <1>4, <2>2
<1>7. CASE Restart
  BY <1>7 DEF Restart, IdleCall, ToldInv
<1>8. CASE UNCHANGED vars
  BY <1>4, <1>8 DEF vars
<1> QED BY <1>2, <1>3, <1>5, <1>6, <1>7, <1>8 DEF Next

LEMMA TombstonesStep ==
    ASSUME MInv, [Next]_vars PROVE ToldTrue'
<1>1. /\ CInv /\ TInv /\ SwappedInv /\ ToldInv /\ EndedInv /\ ToldTrue /\ active \subseteq Runs
      /\ tombstones \in Seq(Tombstone)
  BY DEF MInv, CInv, IInv, HInv, TInv, TypeOK
<1>2. ASSUME NEW i \in DOMAIN tombstones
      PROVE  tombstones[i].terminal = "DISCARDED" <=> tombstones[i].run \notin Moved'
  <2>1. tombstones[i].run \in Runs
    <3>1. tombstones[i] \in Tombstone
      BY <1>1
    <3> QED BY <3>1 DEF Tombstone
  <2>2. tombstones[i].run \notin active
    BY <1>1, <2>1 DEF EndedInv, TombstonesOf
  <2>3. CASE swaps' = swaps
    BY <1>1, <2>3, SwapsRest DEF ToldTrue
  <2>4. CASE \E q \in active : MoveRows(q)
    <3>1. PICK q \in active : MoveRows(q)
      BY <2>4
    <3>2. Moved' = Moved \cup {q}
      BY <1>1, <3>1, SwapsGrow
    <3> QED BY <1>1, <2>2, <3>2 DEF ToldTrue
  <2> QED BY <1>1, <2>3, <2>4, OnlySwaps
<1>3. CASE tombstones' = tombstones
  BY <1>2, <1>3 DEF ToldTrue
<1>4. CASE tombstones' = <<>>
  BY <1>4 DEF ToldTrue
<1>5. ASSUME NEW r \in active, NEW terminal \in Terminals, RunEnds(r, terminal),
             \/ terminal = "DISCARDED" /\ ~run[r].sealed
             \/ \E w \in Workers : /\ terminal = "DISCARDED" <=> call[w].at = "discarded"
                                   /\ call[w].at \in {"swapped", "discarded"} /\ call[w].run = r
      PROVE  ToldTrue'
  <2>1. Moved' = Moved /\ PushTombstone(r, terminal)
    BY <1>5, SwapsRest DEF RunEnds
  <2>2. terminal = "DISCARDED" <=> r \notin Moved
    BY <1>1, <1>5 DEF SwappedInv, ToldInv, Moved
  <2>3. ASSUME NEW i \in DOMAIN tombstones'
        PROVE  tombstones'[i].terminal = "DISCARDED" <=> tombstones'[i].run \notin Moved'
    <3>1. \/ \E j \in DOMAIN tombstones : tombstones'[i] = tombstones[j]
          \/ tombstones'[i].run = r /\ tombstones'[i].terminal = terminal
      BY <1>1, <2>1, Pushed
    <3> QED BY <1>2, <2>1, <2>2, <3>1
  <2> QED BY <2>3 DEF ToldTrue
<1> QED BY <1>1, <1>3, <1>4, <1>5, EndStep

LEMMA MInvInit == Init => MInv
<1> SUFFICES ASSUME Init PROVE MInv
  OBVIOUS
<1>1. tombstones = <<>> /\ \A w \in Workers : call[w].at = "idle"
  BY DEF Init, IdleCall
<1>2. ToldInv /\ EndedInv /\ ToldTrue
  BY <1>1 DEF ToldInv, EndedInv, TombstonesOf, ToldTrue
<1> QED BY <1>2, CommitInit DEF MInv

\* A tombstone tells the truth: DISCARDED says that the target was not touched, any other terminal
\* that it was, however the commits, aborts, queries and evictions of all runs interleave.  It needs
\* every acknowledgement of the swap to arrive: the code answers SWAP_FAILED and writes DISCARDED
\* when only the acknowledgement was lost, which the run on lost acknowledgements shows.
THEOREM TombstonesTell ==
    ASSUME "swap" \notin AckLost PROVE Spec => []TombstonesTrue
<1>1. MInv /\ [Next]_vars => MInv'
  BY CommitStep, EndedStep, ToldStep, TombstonesStep DEF MInv
<1>2. MInv => TombstonesTrue
  <2> SUFFICES ASSUME MInv, NEW i \in DOMAIN tombstones
               PROVE  (tombstones[i].terminal = "DISCARDED") <=> ~HasSwapped(tombstones[i].run)
    BY DEF TombstonesTrue
  <2>1. tombstones[i] \in Tombstone
    BY DEF MInv, CInv, IInv, HInv, TInv, TypeOK
  <2>2. tombstones[i].run \in Runs
    BY <2>1 DEF Tombstone
  <2> QED BY <2>2 DEF MInv, ToldTrue, Moved
<1> QED BY MInvInit, <1>1, <1>2, PTL DEF Spec

LEMMA RestartsStep ==
    ASSUME [Next]_vars PROVE restarts' = restarts \/ restarts' = restarts + 1
<1>1. ASSUME NEW w \in Workers, NEW r \in Runs, Receive(w, r) PROVE restarts' = restarts
  BY <1>1 DEF Receive, OpenUnreachable, Admit, RefuseBusyTable, RefuseOverQuota, RefuseBatch,
         ClaimBatch, RefuseCommit, Seal, RefuseAbort, Abort, AbortDropFails, GetActive
<1>2. ASSUME NEW w \in Workers, NEW r \in Runs, Continue(w, r) PROVE restarts' = restarts
  BY <1>2 DEF Continue, AskRangeCheck, OpenFails, CreateStaging, InsertActive, ReturnSeat, LandBatch,
         BatchFails, AccountBatch, Verify, SwapCommits, SwapFails, FinishRun, DropStaging, DropFails,
         GetTombstone
<1> QED BY <1>1, <1>2 DEF Next, Reply, Restart, vars

LEMMA RememberedStep ==
    ASSUME CInv, RememberedSwap, [Next]_vars PROVE RememberedSwap'
<1> DEFINE Known(r) == \/ r \in active \/ TombstonesOf(r) # {}
                       \/ Len(tombstones) = TombstoneLimit \/ restarts > 0
<1>1. TInv /\ active \subseteq Runs /\ restarts \in Nat
  BY BoundAssumption DEF CInv, IInv, HInv, TInv, TypeOK
<1>2. \A r \in Moved' : Known(r)
  <2>1. \A r \in Moved : Known(r)
    BY DEF RememberedSwap, Moved
  <2>2. CASE swaps' = swaps
    BY <2>1, <2>2, SwapsRest
  <2>3. CASE \E q \in active : MoveRows(q)
    <3>1. PICK q \in active : MoveRows(q)
      BY <2>3
    <3>2. Moved' = Moved \cup {q}
      BY <1>1, <3>1, SwapsGrow
    <3> QED BY <2>1, <3>2
  <2> QED BY <2>2, <2>3, OnlySwaps
<1>3. SUFFICES ASSUME NEW r \in Moved'
               PROVE  \/ r \in active' \/ TombstonesOf(r)' # {}
                      \/ Len(tombstones') = TombstoneLimit \/ restarts' > 0
  BY <1>3 DEF RememberedSwap, Moved
<1>4. restarts > 0 => restarts' > 0
  BY <1>1, RestartsStep
<1>5. CASE tombstones' = tombstones /\ active \subseteq active'
  BY <1>2, <1>3, <1>4, <1>5 DEF TombstonesOf
<1>6. CASE restarts' > 0
  BY <1>6
<1>7. ASSUME NEW q \in active, NEW terminal \in Terminals, RunEnds(q, terminal)
      PROVE  r \in active' \/ TombstonesOf(r)' # {} \/ Len(tombstones') = TombstoneLimit \/ restarts' > 0
  <2>1. /\ \E i \in DOMAIN tombstones' : tombstones'[i].run = q
        /\ Len(tombstones) = TombstoneLimit => Len(tombstones') = TombstoneLimit
        /\ Len(tombstones) # TombstoneLimit =>
             \A j \in DOMAIN tombstones : j \in DOMAIN tombstones' /\ tombstones'[j] = tombstones[j]
    BY <1>1, <1>7, Pushed DEF RunEnds
  <2>2. active' = active \ {q}
    BY <1>7 DEF RunEnds
  <2>3. CASE Len(tombstones) = TombstoneLimit \/ restarts > 0
    BY <1>4, <2>1, <2>3
  <2>4. CASE r \in active
    BY <2>1, <2>2, <2>4 DEF TombstonesOf
  <2>5. CASE TombstonesOf(r) # {} /\ Len(tombstones) # TombstoneLimit
    BY <2>1, <2>5 DEF TombstonesOf
  <2> QED BY <1>2, <1>3, <2>3, <2>4, <2>5
<1> QED BY <1>5, <1>6, <1>7, EndStep

\* A swap that reached MySQL stays visible to GET until TOMBSTONE_LIMIT other runs have ended or the
\* agent restarts: finish_run leaves no gap between the entry and the tombstone.
THEOREM SwapRemembered == Spec => []RememberedSwap
<1>1. Init => RememberedSwap
  <2> SUFFICES ASSUME Init, NEW r \in Runs PROVE ~HasSwapped(r)
    BY DEF RememberedSwap
  <2>1. swaps[TableOf[r]] = <<>>
    BY RunAssumption DEF Init
  <2> QED BY <2>1 DEF HasSwapped
<1>2. CInv /\ RememberedSwap /\ [Next]_vars => RememberedSwap'
  BY RememberedStep
<1> QED BY <1>1, <1>2, CommitsHeld, PTL DEF Spec

-----------------------------------------------------------------------------
(* The agent implements TargetHold: every step of SinkService is a step of *)
(* the holders and imports it stands for, or leaves both alone.            *)

\* A seat is taken by an open that is under way, so a run that may be opened is
\* not in flight.
SeatUsed ==
    \A r \in admitting : \E w \in Workers : call[w].at \in OpenPoints /\ call[w].run = r

RInv == CInv /\ SeatUsed

\* Steps that leave the open of every seated run where it is.
LEMMA SeatStillUsed ==
    ASSUME SeatUsed, admitting' \subseteq admitting,
           \A x \in Workers : call[x].at \in OpenPoints /\ call[x].run \in admitting' =>
               call'[x].at \in OpenPoints /\ call'[x].run = call[x].run
    PROVE  SeatUsed'
BY DEF SeatUsed

LEMMA SeatUsedStep == RInv /\ [Next]_vars => SeatUsed'
<1> SUFFICES ASSUME RInv, [Next]_vars PROVE SeatUsed'
  OBVIOUS
<1> USE DEF sinkMaps, mysqlVars
<1>0. SeatUsed /\ TypeOK /\ SeatInv /\ call \in [Workers -> Call]
  BY DEF RInv, CInv, IInv, HInv, TInv, TypeOK
<1>1. ASSUME NEW w \in Workers, NEW r \in Runs, Admit(w, r)
      PROVE  SeatUsed'
  <2>1. /\ call'[w].at = "admitted" /\ call'[w].run = r /\ call[w].at = "idle"
        /\ \A x \in Workers \ {w} : call'[x] = call[x]
    BY <1>0, <1>1, BeginMove DEF Admit, TakeLeg, Idle
  <2>2. admitting' = admitting \cup {r}
    BY <1>1 DEF Admit
  <2>3. \A x \in Workers : call[x].at \in OpenPoints => x # w
    BY <2>1 DEF OpenPoints
  <2>4. \A q \in admitting : \E x \in Workers : call'[x].at \in OpenPoints /\ call'[x].run = q
    BY <1>0, <2>1, <2>3 DEF SeatUsed
  <2>5. QED
    BY <2>1, <2>2, <2>4 DEF SeatUsed, OpenPoints
<1>2. ASSUME NEW w \in Workers, NEW r \in Runs,
             AskRangeCheck(w, r) \/ OpenFails(w, r) \/ ReturnSeat(w, r)
      PROVE  SeatUsed'
  <2>1. PICK code : LeaveSeat(w, r, code)
    BY <1>2 DEF AskRangeCheck, OpenFails, ReturnSeat
  <2>2. call[w].run = r /\ admitting' = admitting \ {r}
    BY <1>2, <2>1 DEF AskRangeCheck, OpenFails, ReturnSeat, At, LeaveSeat
  <2>3. \A x \in Workers \ {w} : call'[x] = call[x]
    BY <1>0, <2>1, AnswerMove DEF LeaveSeat
  <2>4. QED
    BY <1>0, <2>2, <2>3, SeatStillUsed
<1>3. ASSUME NEW w \in Workers, NEW r \in Runs, CreateStaging(w, r) \/ InsertActive(w, r)
      PROVE  SeatUsed'
  <2>1. PICK point \in OpenPoints : Goto(w, point)
    BY <1>3 DEF CreateStaging, InsertActive, OpenPoints
  <2>2. /\ call'[w].at \in OpenPoints /\ call'[w].run = call[w].run
        /\ \A x \in Workers \ {w} : call'[x] = call[x]
    BY <1>0, <2>1, GotoMove
  <2>3. admitting' = admitting
    BY <1>3 DEF CreateStaging, InsertActive
  <2>4. QED
    BY <1>0, <2>2, <2>3, SeatStillUsed
<1>4. ASSUME NEW w \in Workers, call[w].at \notin OpenPoints, admitting' = admitting,
             \A x \in Workers \ {w} : call'[x] = call[x]
      PROVE  SeatUsed'
  BY <1>0, <1>4, SeatStillUsed
<1>5. ASSUME NEW w \in Workers, NEW r \in Runs, Receive(w, r), ~Admit(w, r)
      PROVE  SeatUsed'
  <2>1. call[w].at \notin OpenPoints /\ admitting' = admitting
    BY <1>5 DEF Receive, OpenUnreachable, RefuseBusyTable, RefuseOverQuota, RefuseBatch, ClaimBatch,
                RefuseCommit, Seal, RefuseAbort, Abort, AbortDropFails, GetActive, TakeLeg, Idle,
                OpenPoints
  <2>2. \A x \in Workers \ {w} : call'[x] = call[x]
    BY <1>0, <1>5
       DEF Receive, OpenUnreachable, RefuseBusyTable, RefuseOverQuota, RefuseBatch, ClaimBatch,
           RefuseCommit, Seal, RefuseAbort, Abort, AbortDropFails, GetActive, Answer, Begin
  <2>3. QED
    BY <1>4, <2>1, <2>2
<1>6. ASSUME NEW w \in Workers, NEW r \in Runs,
             \/ LandBatch(w, r) \/ BatchFails(w, r) \/ AccountBatch(w, r)
             \/ Verify(w, r) \/ SwapCommits(w, r) \/ SwapFails(w, r) \/ FinishRun(w, r)
             \/ DropStaging(w, r) \/ DropFails(w, r) \/ GetTombstone(w, r)
      PROVE  SeatUsed'
  <2>1. call[w].at \notin OpenPoints /\ admitting' = admitting
    BY <1>6 DEF LandBatch, BatchFails, AccountBatch, Verify, SwapCommits, SwapFails, FinishRun,
                DropStaging, DropFails, GetTombstone, At, OpenPoints
  <2>2. \A x \in Workers \ {w} : call'[x] = call[x]
    BY <1>0, <1>6
       DEF LandBatch, BatchFails, AccountBatch, Verify, SwapCommits, SwapFails, FinishRun,
           DropStaging, DropFails, GetTombstone, Answer, Goto
  <2>3. QED
    BY <1>4, <2>1, <2>2
<1>7. ASSUME NEW w \in Workers, Reply(w)
      PROVE  SeatUsed'
  <2>1. call[w].at \notin OpenPoints /\ admitting' = admitting
    BY <1>7 DEF Reply, OpenPoints
  <2>2. \A x \in Workers \ {w} : call'[x] = call[x]
    BY <1>0, <1>7 DEF Reply
  <2>3. QED
    BY <1>4, <2>1, <2>2
<1>8. CASE Restart
  BY <1>8 DEF Restart, SeatUsed
<1>9. CASE UNCHANGED vars
  BY <1>0, <1>9 DEF vars, SeatUsed
<1>10. QED
  BY <1>1, <1>2, <1>3, <1>5, <1>6, <1>7, <1>8, <1>9 DEF Next, Continue

LEMMA SeatsUsed == Spec => []RInv
<1>1. Init => RInv
  BY CommitInit DEF RInv, SeatUsed, Init
<1>2. RInv /\ [Next]_vars => RInv'
  BY CommitStep, SeatUsedStep DEF RInv
<1>3. QED
  BY <1>1, <1>2, PTL DEF Spec

-----------------------------------------------------------------------------
(* The steps of SinkService as steps of TargetHold. *)

Imports == [t \in Tables |-> [i \in DOMAIN swaps[t] |-> swaps[t][i].run]]

LEMMA ImportsAppend ==
    ASSUME RInv, NEW r \in Runs, MoveRows(r)
    PROVE  Imports' = [Imports EXCEPT ![TableOf[r]] = Append(@, r)]
<1> DEFINE u == TableOf[r]
           new == [run |-> r, rows |-> landed[r]]
<1>1. swaps \in [Tables -> Seq(Swap)] /\ u \in Tables
  BY RunAssumption DEF RInv, CInv, IInv, HInv, TInv, TypeOK
<1>2. swaps' = [swaps EXCEPT ![u] = Append(swaps[u], new)]
  BY DEF MoveRows
<1>3. new.run = r
  OBVIOUS
<1> HIDE DEF new, u
<1> DEFINE s == swaps[u]
           before == [i \in DOMAIN s |-> s[i].run]
<1>4. s \in Seq(Swap) /\ DOMAIN s = 1..Len(s) /\ Len(s) \in Nat
  BY <1>1
<1>5. before \in Seq(Runs) /\ Len(before) = Len(s)
  <2>1. \A i \in 1..Len(s) : s[i] \in Swap
    BY <1>4
  <2>2. before \in [1..Len(s) -> Runs]
    BY <1>4, <2>1 DEF Swap
  <2> HIDE DEF s, before
  <2>3. QED
    BY <1>4, <2>2
<1>6. DOMAIN Append(s, new) = 1..(Len(s) + 1)
  BY <1>4
<1>7. \A i \in 1..(Len(s) + 1) :
          Append(s, new)[i].run = IF i = Len(s) + 1 THEN r ELSE s[i].run
  BY <1>3, <1>4
<1>8. \A i \in 1..(Len(s) + 1) :
          Append(before, r)[i] = IF i = Len(s) + 1 THEN r ELSE s[i].run
  BY <1>4, <1>5
<1>9. DOMAIN Append(before, r) = 1..(Len(s) + 1) /\ Append(before, r) \in Seq(Runs)
  BY <1>5
<1>10. [i \in DOMAIN Append(s, new) |-> Append(s, new)[i].run] = Append(before, r)
  BY <1>6, <1>7, <1>8, <1>9
<1>11. Imports[u] = before /\ DOMAIN Imports = Tables
  BY <1>1 DEF Imports
<1>12. swaps'[u] = Append(s, new) /\ \A t \in Tables \ {u} : swaps'[t] = swaps[t]
  BY <1>1, <1>2
<1> HIDE DEF s, before
<1>13. Imports'[u] = Append(Imports[u], r) /\ \A t \in Tables \ {u} : Imports'[t] = Imports[t]
  BY <1>1, <1>10, <1>11, <1>12 DEF Imports
<1>14. Imports' = [t \in Tables |-> [i \in DOMAIN swaps'[t] |-> swaps'[t][i].run]]
  BY DEF Imports
<1>15. Imports' = [Imports EXCEPT ![u] = Append(Imports[u], r)]
  BY <1>1, <1>11, <1>13, <1>14
<1>16. QED
  BY <1>15 DEF u

LEMMA NotImported ==
    ASSUME RInv, NEW r \in Runs, ~HasSwapped(r)
    PROVE  ~ \E i \in DOMAIN Imports[TableOf[r]] : Imports[TableOf[r]][i] = r
<1>1. TableOf[r] \in Tables
  BY RunAssumption
<1>2. QED
  BY <1>1 DEF Imports, HasSwapped

\* Admission is the step that takes the table.
LEMMA AdmitTakes ==
    ASSUME RInv, NEW w \in Workers, NEW r \in Runs, Admit(w, r)
    PROVE  /\ \A q \in InFlight : TableOf[q] # TableOf[r]
           /\ Cardinality(InFlight) < MaxConcurrentRuns
           /\ InFlight' = InFlight \cup {r}
           /\ Imports' = Imports
<1> USE DEF mysqlVars
<1>1. r \notin active
  BY Fresh DEF RInv, Admit, TakeLeg
<1>2. openLeg[r] > 0
  BY DEF Admit, TakeLeg
<1>3. r \notin admitting
  BY <1>2 DEF RInv, SeatUsed, CInv, IInv, HInv, SeatInv
<1>4. r \notin InFlight
  BY <1>1, <1>3 DEF InFlight
<1>5. OthersInFlight(r) = InFlight
  BY <1>4 DEF OthersInFlight
<1>6. Holders(r) = {q \in InFlight : TableOf[q] = TableOf[r]}
  BY <1>4 DEF Holders
<1>7. QED
  BY <1>5, <1>6 DEF Admit, InFlight, Imports

\* The steps that end a hold: the guard of an open is dropped, or the run leaves
\* active_runs.  A run may still be in the other of the two.
LEMMA SeatOrRunGoes ==
    ASSUME RInv, NEW w \in Workers, NEW r \in Runs,
           \/ AskRangeCheck(w, r) \/ OpenFails(w, r) \/ ReturnSeat(w, r)
           \/ Abort(w, r) \/ FinishRun(w, r)
    PROVE  /\ r \in InFlight
           /\ InFlight' = InFlight \/ InFlight' = InFlight \ {r}
           /\ Imports' = Imports
<1> USE DEF mysqlVars, InFlight
<1>1. CASE AskRangeCheck(w, r) \/ OpenFails(w, r) \/ ReturnSeat(w, r)
  <2>1. r \in admitting
    BY <1>1 DEF AskRangeCheck, OpenFails, ReturnSeat, At, OpenPoints,
                RInv, CInv, IInv, HInv, SeatInv
  <2>2. admitting' = admitting \ {r} /\ active' = active /\ swaps' = swaps
    BY <1>1 DEF AskRangeCheck, OpenFails, ReturnSeat, LeaveSeat
  <2>3. QED
    BY <2>1, <2>2 DEF Imports
<1>2. CASE Abort(w, r) \/ FinishRun(w, r)
  <2>1. r \in active
    <3>1. CASE Abort(w, r)
      BY <3>1 DEF Abort, AbortError
    <3>2. CASE FinishRun(w, r)
      BY <3>2 DEF FinishRun, At, CommitPoints, RInv, CInv, CommitInv
    <3>3. QED
      BY <1>2, <3>1, <3>2
  <2>2. active' = active \ {r} /\ admitting' = admitting /\ swaps' = swaps
    BY <1>2 DEF Abort, FinishRun
  <2>3. QED
    BY <2>1, <2>2 DEF Imports
<1>3. QED
  BY <1>1, <1>2

LEMMA HoldStep == RInv /\ [Next]_vars => [Hold!Next]_(Hold!holdVars)
<1> SUFFICES ASSUME RInv, [Next]_vars PROVE [Hold!Next]_(Hold!holdVars)
  OBVIOUS
<1>0. active \subseteq Runs
  BY DEF RInv, CInv, IInv, HInv, TInv, TypeOK
<1>1. ASSUME NEW w \in Workers, NEW r \in Runs, Admit(w, r)
      PROVE  Hold!Take(r)
  <2>1. Hold!Cardinality(InFlight) = Cardinality(InFlight)
    BY DEF Hold!Cardinality, Cardinality
  <2>2. QED
    BY <1>1, <2>1, AdmitTakes DEF Hold!Take, Imports
<1>2. ASSUME NEW w \in Workers, NEW r \in Runs,
             \/ AskRangeCheck(w, r) \/ OpenFails(w, r) \/ ReturnSeat(w, r)
             \/ Abort(w, r) \/ FinishRun(w, r)
      PROVE  Hold!Leave(r) \/ UNCHANGED Hold!holdVars
  BY <1>2, SeatOrRunGoes DEF Hold!Leave, Hold!holdVars, Imports
<1>3. ASSUME NEW r \in active, ~HasSwapped(r), InFlight' = InFlight, MoveRows(r)
      PROVE  Hold!Import(r)
  <2>1. r \in Runs /\ r \in InFlight
    BY <1>0 DEF InFlight
  <2>2. Imports' = [Imports EXCEPT ![TableOf[r]] = Append(@, r)]
    BY <1>3, <2>1, ImportsAppend
  <2>3. ~Hold!Imported(r)
    BY <1>3, <2>1, NotImported DEF Hold!Imported, Imports
  <2>4. QED
    BY <1>3, <2>1, <2>2, <2>3 DEF Hold!Import, Imports
<1>4. CASE Restart
  BY <1>4 DEF Restart, mysqlVars, InFlight, Hold!Forget, Hold!Next
<1>5. ASSUME NEW w \in Workers, NEW r \in Runs, Receive(w, r), ~Admit(w, r), ~Abort(w, r)
      PROVE  InFlight' = InFlight /\ swaps' = swaps
  BY <1>5 DEF Receive, OpenUnreachable, RefuseBusyTable, RefuseOverQuota, RefuseBatch, ClaimBatch,
              RefuseCommit, Seal, RefuseAbort, AbortDropFails, GetActive, sinkMaps, mysqlVars,
              InFlight
<1>6. ASSUME NEW w \in Workers, NEW r \in Runs,
             \/ CreateStaging(w, r) \/ InsertActive(w, r)
             \/ LandBatch(w, r) \/ BatchFails(w, r) \/ AccountBatch(w, r)
             \/ Verify(w, r) \/ DropStaging(w, r) \/ DropFails(w, r) \/ GetTombstone(w, r)
      PROVE  InFlight' = InFlight /\ swaps' = swaps
  <2>1. CASE InsertActive(w, r)
    <3>1. r \in admitting
      BY <2>1 DEF InsertActive, At, OpenPoints, RInv, CInv, IInv, HInv, SeatInv
    <3>2. QED
      BY <2>1, <3>1 DEF InsertActive, InFlight, mysqlVars
  <2>2. CASE ~InsertActive(w, r)
    BY <1>6, <2>2 DEF CreateStaging, LandBatch, BatchFails, AccountBatch, Verify, DropStaging,
                      DropFails, GetTombstone, sinkMaps, mysqlVars, InFlight
  <2>3. QED
    BY <2>1, <2>2
<1>7. ASSUME InFlight' = InFlight, swaps' = swaps
      PROVE  UNCHANGED Hold!holdVars
  BY <1>7 DEF Hold!holdVars
<1>8. ASSUME NEW w \in Workers, NEW r \in Runs, SwapCommits(w, r) \/ SwapFails(w, r)
      PROVE  InFlight' = InFlight
  BY <1>8 DEF SwapCommits, SwapFails, sinkMaps, InFlight
<1>9. CASE (\E w \in Workers : Reply(w)) \/ UNCHANGED vars
  BY <1>7, <1>9 DEF Reply, sinkMaps, mysqlVars, vars, InFlight
<1>10. swaps' = swaps \/ \E r \in active : Hold!Import(r)
  BY <1>3, OnlySwaps DEF RInv
<1>11. \A r \in active : Hold!Import(r) => Hold!Next
  BY <1>0 DEF Hold!Next
<1>12. ASSUME NEW w \in Workers, NEW r \in Runs, Receive(w, r)
       PROVE  [Hold!Next]_(Hold!holdVars)
  BY <1>1, <1>2, <1>5, <1>7, <1>12 DEF Hold!Next
<1>13. ASSUME NEW w \in Workers, NEW r \in Runs, Continue(w, r)
       PROVE  [Hold!Next]_(Hold!holdVars)
  <2>1. CASE SwapCommits(w, r) \/ SwapFails(w, r)
    BY <1>7, <1>8, <1>10, <1>11, <2>1
  <2>2. CASE ~(SwapCommits(w, r) \/ SwapFails(w, r))
    BY <1>2, <1>6, <1>7, <1>13, <2>2 DEF Continue, Hold!Next
  <2>3. QED
    BY <2>1, <2>2
<1>14. QED
  BY <1>4, <1>9, <1>12, <1>13 DEF Next

\* The agent keeps the promise of TargetHold for any number of runs, tables and
\* workers: the hold begins at admission and ends with the last of the seat and
\* the entry, and imports happen once, under it.
THEOREM AgentImplementsHold == Spec => HoldsImplemented
<1>1. Init => Hold!Init
  BY DEF Init, Hold!Init, InFlight
<1>2. RInv /\ [Next]_vars => [Hold!Next]_(Hold!holdVars)
  BY HoldStep
<1>3. QED
  BY <1>1, <1>2, SeatsUsed, PTL DEF Spec, HoldsImplemented, Hold!Spec

=============================================================================
