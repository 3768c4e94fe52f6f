--------------------------- MODULE RunControlProofs ---------------------------
(***************************************************************************)
(* Theorems about RunControl, for any tasks, tables, agents, quotas, runs    *)
(* and schedules, and for any number of lives of the parent.                 *)
(***************************************************************************)
EXTENDS RunControl, FiniteSetTheorems, SequenceTheorems, WellFoundedInduction, TLAPS

Agents == {AgentOf[t] : t \in Tasks}
Tables == {TableOf[t] : t \in Tasks}
AnyTask == Tasks \cup {NoTask}

TaskRow == [there : BOOLEAN, on : BOOLEAN, cron : Crons]
Entry == [cron : Crons \cup {"none"}, next : 1..Never]
Look == [at : {"asleep", "draining", "starting"}, tasks : SUBSET Tasks,
         view : Seq(Occurrences), run : Runs \cup {NoRun}]
Flight == [at : {"free", "registered", "running", "aborting", "booking"}, task : AnyTask]
Row == [at : {"none", "asked", "open", "closed"}, task : AnyTask, due : 0..MaxNow, stage : Stages]
Kid == [alive : BOOLEAN, stage : Stages, left : BOOLEAN]

TInv ==
    /\ now \in 0..MaxNow /\ upsets \in 0..MaxUpsets
    /\ tasks \in [Tasks -> TaskRow] /\ deleting \in AnyTask
    /\ entries \in [Tasks -> Entry] /\ queue \in Seq(Occurrences) /\ sched \in Look
    /\ active \in [Runs -> Flight] /\ stuck \in [Runs -> {"none", "held", "retrying"}]
    /\ row \in [Runs -> Row]
    /\ kid \in [Runs -> Kid]
    /\ holds \in [Tables -> Runs \cup {NoRun}]
    /\ proc \in {"down", "up", "stopping", "waiting"}

\* A run in flight is a run of its row's task; a task has one at most.
FlightInv ==
    /\ \A r \in Runs : active[r].at # "free" =>
         /\ active[r].task \in Tasks /\ row[r].task = active[r].task
         /\ row[r].at # "none"
    /\ \A q, r \in Runs :
         active[q].at # "free" /\ active[r].at # "free" /\ active[q].task = active[r].task => q = r
    /\ proc = "down" => active = [r \in Runs |-> Free]

\* How far a run and its child can be.
ChildOf(r) ==
    /\ active[r].at # "running" => kid[r] = NoKid
    /\ active[r].at = "registered" => row[r].at = "asked"
    /\ active[r].at \in {"aborting", "booking"} => row[r].at = "closed"
    /\ stuck[r] # "none" => row[r].at = "closed"
    /\ row[r].at \in {"none", "asked"} => row[r].stage = "BORN" /\ kid[r] = NoKid
    /\ row[r].at = "none" => row[r].due = NotDue
    /\ row[r].at = "open" => row[r].stage # "OVER"
    /\ kid[r].alive => kid[r].stage # "OVER" /\ ~kid[r].left
    /\ kid[r].left => kid[r].stage = "OVER"

ChildInv == \A r \in Runs : ChildOf(r)

\* A table is held by a run that was started on it; a child that ended without
\* leaving its hold behind let it go or left it to the commit.
HoldInv ==
    /\ \A k \in Tables, r \in Runs : holds[k] = r =>
         /\ row[r].task \in Tasks /\ TableOf[row[r].task] = k
         /\ row[r].at \in {"open", "closed"}
         /\ kid[r].stage = "OVER" /\ ~kid[r].left => r \in sealed
    /\ \A r \in sealed : r \in Runs /\ row[r].at \in {"open", "closed"}

\* What HoldsBooked says of a run that holds a table, while the parent is not down.
Booked(r) ==
    \/ active[r].at # "free" \/ stuck[r] # "none"
    \/ r \in sealed \/ row[r].stage \in {"COMMITTING", "BORN"}
BookedInv ==
    proc # "down" => \A k \in Tables : \A r \in Runs \ old : holds[k] = r => Booked(r)

\* Where the scheduler thread is and what it looked at.
ViewInv ==
    /\ sched.at = "asleep" => sched = Asleep
    /\ sched.at # "asleep" => sched.view # <<>>
    /\ sched.at = "draining" => sched.run = NoRun
    /\ \A i, j \in DOMAIN sched.view : sched.view[i].task = sched.view[j].task => i = j
    /\ \A i, j \in DOMAIN queue : queue[i].task = queue[j].task => i = j

\* Nothing points ahead of the clock, nothing planned points behind it, and what
\* waits has not been started, but for the occurrence that is just being started.
TimeInv ==
    /\ \A t \in Tasks : entries[t] # NoEntry => entries[t].next > now
    /\ \A r \in Runs : row[r].due <= now
    /\ \A i \in DOMAIN queue : queue[i].due <= now
    /\ \A i \in DOMAIN sched.view : sched.view[i].due <= now
    /\ \A i \in DOMAIN queue, r \in Runs :
         row[r].task = queue[i].task /\ row[r].due = queue[i].due =>
            sched.run = r /\ queue[i].task = Current.task
    /\ \A i \in DOMAIN sched.view, r \in Runs :
         row[r].task = sched.view[i].task /\ row[r].due = sched.view[i].due =>
            sched.run = r /\ i = 1

\* An entry points at the first minute of its expression that was not looked at yet.
EntryInv ==
    \A t \in Tasks : entries[t] # NoEntry =>
        entries[t].cron \in Crons /\ entries[t].next = NextAfter(entries[t].cron, now)

\* What the scheduler is about to look at waits in the queue.
SeenInv == \A i \in DOMAIN sched.view : \E j \in DOMAIN queue : queue[j] = sched.view[i]

Started ==
    \A q, r \in Runs :
        q # r /\ row[r].due # NotDue => row[q].task # row[r].task \/ row[q].due # row[r].due

Flying == {r \in Runs : active[r].at # "free"}
ByClock(a) == {r \in InFlight(a) : row[r].due # NotDue}

QuotaInv ==
    /\ IsFiniteSet(Flying)
    /\ \A a \in Agents : Cardinality(ByClock(a)) <= Quota[a]
    /\ sched.at = "starting" /\ sched.run = NoRun =>
         \A a \in Agents : a = AgentOf[Current.task] => Cardinality(ByClock(a)) < Quota[a]

IInv ==
    /\ TInv /\ FlightInv /\ ChildInv /\ HoldInv /\ BookedInv
    /\ ViewInv /\ SeenInv /\ TimeInv /\ EntryInv /\ Started /\ QuotaInv

-----------------------------------------------------------------------------
(* Helpers: the least of a set of numbers, and places of a sequence in order. *)

LEMMA LessWellFounded ==
    \E R : IsWellFoundedOn(R, Nat) /\ \A x, y \in Nat : <<y, x>> \in R <=> y < x
<1>1. IsWellFoundedOn(OpToRel(<, Nat), Nat)
  BY NatLessThanWellFounded, Zenon
<1>2. \A x, y \in Nat : <<y, x>> \in OpToRel(<, Nat) <=> y < x
  BY Zenon DEF OpToRel
<1>3. QED
  BY <1>1, <1>2, Zenon

LEMMA LeastOf ==
    ASSUME NEW T \in SUBSET Nat, T # {}
    PROVE  \E x \in T : \A y \in T : x <= y
<1>1. ASSUME NEW R, IsWellFoundedOn(R, Nat), \A x, y \in Nat : <<y, x>> \in R <=> y < x
      PROVE  \E x \in T : \A y \in T : ~(y < x)
  <2>1. \E x \in T : \A y \in T : <<y, x>> \notin R
    BY <1>1, WFMin, Zenon
  <2>2. QED
    BY <1>1, <2>1, Zenon
<1>2. \E x \in T : \A y \in T : ~(y < x)
  BY <1>1, LessWellFounded, Zenon
<1>3. QED
  BY <1>2

LEMMA InOrderCounts ==
    ASSUME NEW n \in Nat, NEW ps \in SUBSET (1..n), NEW f \in InOrder(ps)
    PROVE  /\ Cardinality(ps) \in Nat
           /\ f \in [1..Cardinality(ps) -> ps]
           /\ \A i, j \in 1..Cardinality(ps) : f[i] = f[j] => i = j
<1>0. IsFiniteSet(1..n) /\ \A x \in ps : x \in Nat
  BY FS_Interval
<1>1. IsFiniteSet(ps)
  BY <1>0, FS_Subset, Zenon
<1>2. Cardinality(ps) \in Nat
  BY <1>1, FS_CardinalityType
<1>3. f \in [1..Cardinality(ps) -> ps]
  BY DEF InOrder
<1>4. \A i, j \in 1..Cardinality(ps) : i < j => f[i] < f[j]
  BY DEF InOrder
<1>5. ASSUME NEW i \in 1..Cardinality(ps), NEW j \in 1..Cardinality(ps), f[i] = f[j]
      PROVE  i = j
  <2>1. f[i] \in Nat /\ f[j] \in Nat
    BY <1>0, <1>3
  <2>2. ~(i < j) /\ ~(j < i)
    BY <1>4, <1>5, <2>1
  <2>3. QED
    BY <1>2, <2>2
<1>6. QED
  BY <1>2, <1>3, <1>5

LEMMA InOrderTakesAll ==
    ASSUME NEW n \in Nat, NEW ps \in SUBSET (1..n), NEW f \in InOrder(ps)
    PROVE  \A p \in ps : \E i \in 1..Cardinality(ps) : f[i] = p
<1>1. IsFiniteSet(ps)
  <2>1. IsFiniteSet(1..n)
    BY FS_Interval
  <2>2. QED
    BY <2>1, FS_Subset, Zenon
<1>2. /\ Cardinality(ps) \in Nat /\ f \in [1..Cardinality(ps) -> ps]
      /\ \A i, j \in 1..Cardinality(ps) : f[i] = f[j] => i = j
  BY InOrderCounts, Zenon
<1>3. f \in Injection(1..Cardinality(ps), ps)
  BY <1>2 DEF Injection, IsInjective
<1>4. Cardinality(1..Cardinality(ps)) = Cardinality(ps)
  BY <1>2, FS_Interval
<1>5. f \in Surjection(1..Cardinality(ps), ps)
  BY <1>1, <1>3, <1>4, FS_Injection, Zenon
<1>6. QED
  BY <1>5 DEF Surjection

\* CronSchedule::next_after: the first minute later than the one it is asked for.
LEMMA NextIsFirst ==
    ASSUME NEW e \in Crons, NEW m \in 0..MaxNow
    PROVE  /\ NextAfter(e, m) \in 1..Never /\ NextAfter(e, m) > m
           /\ NextAfter(e, m) = Never \/ NextAfter(e, m) \in Fires[e]
           /\ \A f \in Fires[e] : f > m => NextAfter(e, m) <= f
<1> DEFINE later == {f \in Fires[e] : f > m}
<1>1. MaxNow \in Nat /\ Never = MaxNow + 1 /\ Fires[e] \subseteq 1..MaxNow
  BY ControlAssumption DEF ControlAssumption, Never
<1>2. CASE later = {}
  BY <1>1, <1>2 DEF NextAfter
<1>3. CASE later # {}
  <2>1. later \in SUBSET Nat
    BY <1>1
  <2>2. \E x \in later : \A y \in later : x <= y
    BY <1>3, <2>1, LeastOf
  <2>3. NextAfter(e, m) = CHOOSE f \in later : \A g \in later : f <= g
    BY <1>3 DEF NextAfter
  <2>4. NextAfter(e, m) \in later /\ \A g \in later : NextAfter(e, m) <= g
    BY <2>2, <2>3
  <2>5. QED
    BY <1>1, <2>4
<1>4. QED
  BY <1>2, <1>3

LEMMA NextIsLater ==
    ASSUME NEW e \in Crons, NEW m \in 0..MaxNow
    PROVE  NextAfter(e, m) \in 1..Never /\ NextAfter(e, m) > m
BY NextIsFirst

\* Until it has come, the next minute is the next minute.
LEMMA NextStays ==
    ASSUME NEW e \in Crons, NEW n \in 0..MaxNow, NEW m \in 0..MaxNow,
           n <= m, NextAfter(e, n) > m
    PROVE  NextAfter(e, m) = NextAfter(e, n)
<1>1. MaxNow \in Nat /\ Never = MaxNow + 1 /\ Fires[e] \subseteq 1..MaxNow
  BY ControlAssumption DEF ControlAssumption, Never
<1> DEFINE x == NextAfter(e, n)
           y == NextAfter(e, m)
<1>2. /\ x \in 1..Never /\ (x = Never \/ x \in Fires[e])
      /\ \A f \in Fires[e] : f > n => x <= f
  BY NextIsFirst
<1>3. /\ y \in 1..Never /\ y > m /\ (y = Never \/ y \in Fires[e])
      /\ \A f \in Fires[e] : f > m => y <= f
  BY NextIsFirst
<1> HIDE DEF x, y
<1>4. x <= y
  BY <1>1, <1>2, <1>3
<1>5. y <= x
  <2>1. x > m
    BY DEF x
  <2>2. QED
    BY <1>1, <1>2, <1>3, <2>1
<1>6. x = y
  BY <1>1, <1>2, <1>3, <1>4, <1>5
<1>7. QED
  BY <1>6 DEF x, y

-----------------------------------------------------------------------------
(* What joins the queue and what stays in it. *)

LEMMA EnqueuedOnes ==
    ASSUME TInv, NEW m \in 0..MaxNow, Enqueue(m)
    PROVE  \E n \in Nat : \E g \in [1..n -> Tasks] :
             /\ \A i, j \in 1..n : g[i] = g[j] => i = j
             /\ \A i \in 1..n : CameDue(g[i], m) /\ MayQueue(g[i])
             /\ \A t \in Tasks : CameDue(t, m) /\ MayQueue(t) => \E i \in 1..n : g[i] = t
             /\ \A i \in 1..n : OccurrenceOf(g[i]) \in Occurrences
             /\ queue' = queue \o [i \in 1..n |-> OccurrenceOf(g[i])]
<1> DEFINE places == {i \in DOMAIN TaskOrder : CameDue(TaskOrder[i], m) /\ MayQueue(TaskOrder[i])}
           n == Cardinality(places)
<1>1. PICK f \in InOrder(places) :
          queue' = queue \o [i \in 1..n |-> OccurrenceOf(TaskOrder[f[i]])]
  BY DEF Enqueue
<1>2. Len(TaskOrder) \in Nat /\ DOMAIN TaskOrder = 1..Len(TaskOrder)
      /\ \A i \in DOMAIN TaskOrder : TaskOrder[i] \in Tasks
  BY ControlAssumption DEF ControlAssumption
<1>3. places \in SUBSET (1..Len(TaskOrder))
  BY <1>2
<1>4. /\ n \in Nat /\ f \in [1..n -> places]
      /\ \A i, j \in 1..n : f[i] = f[j] => i = j
      /\ \A p \in places : \E i \in 1..n : f[i] = p
  <2>1. n = Cardinality(places) /\ f \in InOrder(places)
    BY <1>1
  <2> HIDE DEF n, places
  <2>2. /\ Cardinality(places) \in Nat /\ f \in [1..Cardinality(places) -> places]
        /\ \A i, j \in 1..Cardinality(places) : f[i] = f[j] => i = j
    BY <1>2, <1>3, <2>1, InOrderCounts, Zenon
  <2>3. \A p \in places : \E i \in 1..Cardinality(places) : f[i] = p
    BY <1>2, <1>3, <2>1, InOrderTakesAll, Zenon
  <2>4. QED
    BY <2>1, <2>2, <2>3, Zenon
<1> HIDE DEF n
<1>5. \A i \in 1..n : /\ f[i] \in DOMAIN TaskOrder /\ TaskOrder[f[i]] \in Tasks
                      /\ CameDue(TaskOrder[f[i]], m) /\ MayQueue(TaskOrder[f[i]])
  BY <1>2, <1>4
<1>6. ASSUME NEW t \in Tasks, CameDue(t, m), MayQueue(t)
       PROVE  \E i \in 1..n : TaskOrder[f[i]] = t
  <2>1. PICK p \in DOMAIN TaskOrder : TaskOrder[p] = t
    BY ControlAssumption DEF ControlAssumption
  <2>2. p \in places
    BY <1>6, <2>1
  <2>3. QED
    BY <1>4, <2>1, <2>2
<1> HIDE DEF places
<1> DEFINE g == [i \in 1..n |-> TaskOrder[f[i]]]
<1>7. g \in [1..n -> Tasks]
  BY <1>5
<1>8. \A i, j \in 1..n : g[i] = g[j] => i = j
  BY <1>4, <1>5, ControlAssumption DEF ControlAssumption
<1>9. \A i \in 1..n : CameDue(g[i], m) /\ MayQueue(g[i])
  BY <1>5
<1>10. ASSUME NEW i \in 1..n PROVE OccurrenceOf(g[i]) \in Occurrences
  <2>1. g[i] \in Tasks /\ entries[g[i]].next \in 1..Never /\ entries[g[i]].next <= m
    BY <1>7, <1>9 DEF TInv, CameDue, Entry
  <2>2. entries[g[i]].next \in 1..MaxNow
    BY <2>1, ControlAssumption DEF Never, ControlAssumption
  <2>3. QED
    BY <2>1, <2>2 DEF OccurrenceOf, Occurrences
<1>11. queue' = queue \o [i \in 1..n |-> OccurrenceOf(g[i])]
  BY <1>1
<1>12. \A t \in Tasks : CameDue(t, m) /\ MayQueue(t) => \E i \in 1..n : g[i] = t
  BY <1>6
<1> HIDE DEF g
<1>13. n \in Nat
  BY <1>4
<1>14. QED
  BY <1>7, <1>8, <1>9, <1>10, <1>11, <1>12, <1>13

LEMMA DequeuedOnes ==
    ASSUME TInv, Dequeue
    PROVE  \E n \in Nat : \E g \in [1..n -> DOMAIN queue] :
             /\ \A i, j \in 1..n : g[i] = g[j] => i = j
             /\ \A i \in 1..n : queue[g[i]].task # Current.task
             /\ \A j \in DOMAIN queue : queue[j].task # Current.task => \E i \in 1..n : g[i] = j
             /\ queue' = [i \in 1..n |-> queue[g[i]]]
<1> DEFINE places == {i \in DOMAIN queue : queue[i].task # Current.task}
           n == Cardinality(places)
<1>1. PICK f \in InOrder(places) : queue' = [i \in 1..n |-> queue[f[i]]]
  BY DEF Dequeue
<1>2. Len(queue) \in Nat /\ DOMAIN queue = 1..Len(queue)
  BY DEF TInv
<1>3. places \in SUBSET (1..Len(queue))
  BY <1>2
<1>4. /\ n \in Nat /\ f \in [1..n -> places]
      /\ \A i, j \in 1..n : f[i] = f[j] => i = j
      /\ \A p \in places : \E i \in 1..n : f[i] = p
  <2>1. n = Cardinality(places) /\ f \in InOrder(places)
    BY <1>1
  <2> HIDE DEF n, places
  <2>2. /\ Cardinality(places) \in Nat /\ f \in [1..Cardinality(places) -> places]
        /\ \A i, j \in 1..Cardinality(places) : f[i] = f[j] => i = j
    BY <1>2, <1>3, <2>1, InOrderCounts, Zenon
  <2>3. \A p \in places : \E i \in 1..Cardinality(places) : f[i] = p
    BY <1>2, <1>3, <2>1, InOrderTakesAll, Zenon
  <2>4. QED
    BY <2>1, <2>2, <2>3, Zenon
<1> HIDE DEF n
<1>5. /\ f \in [1..n -> DOMAIN queue]
      /\ \A i \in 1..n : queue[f[i]].task # Current.task
      /\ \A j \in DOMAIN queue : queue[j].task # Current.task => \E i \in 1..n : f[i] = j
  BY <1>4
<1>6. QED
  BY <1>1, <1>4, <1>5

-----------------------------------------------------------------------------
(* Types *)

LEMMA LetGoTyped ==
    ASSUME TInv, NEW r \in Runs, LetGo(r)
    PROVE  holds' \in [Tables -> Runs \cup {NoRun}]
BY DEF TInv, LetGo

LEMMA QueueTyped ==
    ASSUME TInv
    PROVE  /\ \A m \in 0..MaxNow : Enqueue(m) => queue' \in Seq(Occurrences)
           /\ Dequeue => queue' \in Seq(Occurrences)
<1>1. ASSUME NEW m \in 0..MaxNow, Enqueue(m) PROVE queue' \in Seq(Occurrences)
  <2>1. PICK n \in Nat : \E g \in [1..n -> Tasks] :
            /\ \A i \in 1..n : OccurrenceOf(g[i]) \in Occurrences
            /\ queue' = queue \o [i \in 1..n |-> OccurrenceOf(g[i])]
    BY <1>1, EnqueuedOnes
  <2>2. PICK g \in [1..n -> Tasks] :
            /\ \A i \in 1..n : OccurrenceOf(g[i]) \in Occurrences
            /\ queue' = queue \o [i \in 1..n |-> OccurrenceOf(g[i])]
    BY <2>1
  <2>3. [i \in 1..n |-> OccurrenceOf(g[i])] \in Seq(Occurrences)
    BY <2>2
  <2>4. QED
    BY <2>2, <2>3 DEF TInv
<1>2. ASSUME Dequeue PROVE queue' \in Seq(Occurrences)
  <2>1. PICK n \in Nat : \E g \in [1..n -> DOMAIN queue] : queue' = [i \in 1..n |-> queue[g[i]]]
    BY <1>2, DequeuedOnes
  <2>2. QED
    BY <2>1 DEF TInv
<1>3. QED
  BY <1>1, <1>2

LEMMA EntryTyped ==
    ASSUME TInv, NEW t \in Tasks, NEW m \in 0..MaxNow
    PROVE  /\ EntryAfter(t, m) \in Entry
           /\ EntryAfter(t, m) # NoEntry => EntryAfter(t, m).next > m
<1>1. tasks[t].cron \in Crons /\ entries[t] \in Entry
  BY DEF TInv, TaskRow
<1>2. NextAfter(tasks[t].cron, m) \in 1..Never /\ NextAfter(tasks[t].cron, m) > m
  BY <1>1, NextIsLater
<1>3. NoEntry \in Entry
  BY ControlAssumption DEF NoEntry, Never, ControlAssumption, Entry
<1>4. CASE ~Scheduled(t)
  BY <1>3, <1>4 DEF EntryAfter, Known
<1>5. CASE Scheduled(t) /\ Known(t) /\ entries[t].next > m
  BY <1>1, <1>5 DEF EntryAfter, Entry
<1>6. CASE Scheduled(t) /\ ~(Known(t) /\ entries[t].next > m)
  BY <1>1, <1>2, <1>6 DEF EntryAfter, Entry
<1>7. QED
  BY <1>4, <1>5, <1>6

LEMMA GoOnTyped ==
    ASSUME TInv, GoOn, sched.view # <<>>
    PROVE  sched' \in Look
<1>1. sched \in Look /\ Tail(sched.view) \in Seq(Occurrences)
  BY DEF TInv, Look
<1>2. CASE Len(sched.view) = 1
  BY <1>2 DEF GoOn, Asleep, Look
<1>3. CASE Len(sched.view) # 1
  <2>1. sched' = [sched EXCEPT !.at = "draining", !.view = Tail(sched.view), !.run = NoRun]
    BY <1>3 DEF GoOn
  <2>2. QED
    BY <1>1, <2>1 DEF Look
<1>4. QED
  BY <1>2, <1>3

LEMMA KidTyped ==
    ASSUME TInv, NEW r \in Runs, NEW x \in Kid
    PROVE  [kid EXCEPT ![r] = x] \in [Runs -> Kid]
BY DEF TInv

LEMMA RowTyped ==
    ASSUME TInv, NEW r \in Runs, NEW x \in Row
    PROVE  [row EXCEPT ![r] = x] \in [Runs -> Row]
BY DEF TInv

LEMMA RegisterTyped ==
    ASSUME TInv, NEW r \in Runs, NEW t \in AnyTask, NEW due \in 0..MaxNow, Register(r, t, due)
    PROVE  row' \in [Runs -> Row] /\ active' \in [Runs -> Flight]
<1>1. row[r] \in Row
  BY DEF TInv
<1>2. [row[r] EXCEPT !.at = "asked", !.task = t, !.due = due] \in Row
  BY <1>1 DEF Row
<1>3. row' = [row EXCEPT ![r] = [row[r] EXCEPT !.at = "asked", !.task = t, !.due = due]]
  BY DEF Register
<1>4. active' \in [Runs -> Flight]
  BY DEF Register, TInv, Flight
<1>5. QED
  BY <1>2, <1>3, <1>4, RowTyped

LEMMA GoneTyped ==
    ASSUME TInv, Gone
    PROVE  /\ active' \in [Runs -> Flight] /\ kid' \in [Runs -> Kid] /\ sched' \in Look
           /\ entries' \in [Tasks -> Entry] /\ stuck' \in [Runs -> {"none", "held", "retrying"}]
           /\ queue' \in Seq(Occurrences)
<1>1. Free \in Flight /\ NoKid \in Kid /\ Asleep \in Look
  BY DEF Free, Flight, NoKid, Kid, Asleep, Look, AnyTask, Stages
<1>2. NoEntry \in Entry
  BY ControlAssumption DEF ControlAssumption, NoEntry, Entry, Never
<1>3. QED
  BY <1>1, <1>2 DEF Gone

LEMMA RowsClosedTyped == ASSUME TInv PROVE RowsClosed \in [Runs -> Row]
<1>1. ASSUME NEW r \in Runs PROVE row[r] \in Row /\ [row[r] EXCEPT !.at = "closed"] \in Row
  BY DEF TInv, Row
<1>2. QED
  BY <1>1 DEF RowsClosed

LEMMA TypeInit == Init => TInv
<1> SUFFICES ASSUME Init PROVE TInv
  OBVIOUS
<1>0. MaxNow \in Nat /\ Never = MaxNow + 1 /\ NotDue = 0 /\ MaxUpsets \in Nat
  BY ControlAssumption DEF ControlAssumption, Never, NotDue
<1>1. tasks \in [Tasks -> TaskRow]
  BY DEF Init, TaskRow
<1>2. entries \in [Tasks -> Entry] /\ sched \in Look
  BY <1>0 DEF Init, NoEntry, Entry, Asleep, Look
<1>3. active \in [Runs -> Flight] /\ row \in [Runs -> Row] /\ kid \in [Runs -> Kid]
  BY <1>0 DEF Init, Free, Flight, Row, NoKid, Kid, Stages, AnyTask
<1>4. holds \in [Tables -> Runs \cup {NoRun}]
  BY DEF Init, Tables
<1>5. QED
  BY <1>0, <1>1, <1>2, <1>3, <1>4 DEF Init, TInv, AnyTask

LEMMA TypeStep == ASSUME TInv, ViewInv, [Next]_vars PROVE TInv'
<1>0. MaxNow \in Nat /\ Never = MaxNow + 1 /\ NotDue = 0 /\ MaxUpsets \in Nat
  BY ControlAssumption DEF ControlAssumption, Never, NotDue
<1>1. ASSUME NEW r \in Runs, Child(r) \/ Die(r)
      PROVE  TInv'
  <2>1. holds' \in [Tables -> Runs \cup {NoRun}]
    BY <1>1, LetGoTyped DEF TInv, Child, Begin, Writes, Open, OpenRefused, Fail, FailHeld,
       Committing, Seal, FinishRun, End, Die
  <2>2. \/ kid' = kid
        \/ \E x \in Stages, y \in BOOLEAN : kid' = [kid EXCEPT ![r].stage = x, ![r].alive = y]
        \/ kid' = [kid EXCEPT ![r] = [alive |-> FALSE, stage |-> "OVER", left |-> TRUE]]
        \/ kid' = [kid EXCEPT ![r].alive = FALSE]
    BY <1>1 DEF Child, Begin, Writes, Open, OpenRefused, Fail, FailHeld,
       Committing, Seal, FinishRun, End, Die, Stages
  <2>3. kid' \in [Runs -> Kid]
    <3>1. kid[r] \in Kid /\ kid \in [Runs -> Kid]
      BY DEF TInv
    <3>2. \A x \in Stages, y \in BOOLEAN : [kid[r] EXCEPT !.stage = x, !.alive = y] \in Kid
      BY <3>1 DEF Kid
    <3>3. [kid[r] EXCEPT !.alive = FALSE] \in Kid
      BY <3>1 DEF Kid
    <3>4. [alive |-> FALSE, stage |-> "OVER", left |-> TRUE] \in Kid
      BY DEF Kid, Stages
    <3>5. \A x \in Stages, y \in BOOLEAN :
            [kid EXCEPT ![r].stage = x, ![r].alive = y]
                = [kid EXCEPT ![r] = [kid[r] EXCEPT !.stage = x, !.alive = y]]
      BY <3>1 DEF Kid
    <3>6. [kid EXCEPT ![r].alive = FALSE] = [kid EXCEPT ![r] = [kid[r] EXCEPT !.alive = FALSE]]
      OBVIOUS
    <3>7. ASSUME NEW x \in Stages, NEW y \in BOOLEAN,
                 kid' = [kid EXCEPT ![r].stage = x, ![r].alive = y]
          PROVE  kid' \in [Runs -> Kid]
      <4>1. kid' = [kid EXCEPT ![r] = [kid[r] EXCEPT !.stage = x, !.alive = y]]
        BY <3>5, <3>7
      <4>2. QED
        BY <3>2, <4>1, KidTyped
    <3>8. kid' = [kid EXCEPT ![r].alive = FALSE] => kid' \in [Runs -> Kid]
      BY <3>3, <3>6, KidTyped
    <3>9. kid' = [kid EXCEPT ![r] = [alive |-> FALSE, stage |-> "OVER", left |-> TRUE]]
            => kid' \in [Runs -> Kid]
      BY <3>4, KidTyped
    <3>10. QED
      BY <2>2, <3>1, <3>7, <3>8, <3>9
  <2>4. UNCHANGED <<now, taskVars, schedVars, runVars, procVars>>
    BY <1>1 DEF Child, Begin, Writes, Open, OpenRefused, Fail, FailHeld,
       Committing, Seal, FinishRun, End, Die
  <2>5. QED
    BY <2>1, <2>3, <2>4 DEF TInv, taskVars, schedVars, runVars, procVars
<1>2. ASSUME NEW r \in Runs, Launch(r)
      PROVE  TInv'
  <2>1. row' \in [Runs -> Row]
    BY <1>2 DEF TInv, Launch, Row
  <2>2. active' \in [Runs -> Flight]
    BY <1>2 DEF TInv, Launch, Flight
  <2>3. kid' \in [Runs -> Kid]
    BY <1>2 DEF TInv, Launch, Kid
  <2>4. QED
    BY <1>2, <2>1, <2>2, <2>3 DEF TInv, Launch, taskVars, schedVars, procVars
<1>3. ASSUME NEW r \in Runs, LaunchFails(r)
      PROVE  TInv'
  <2>1. row' \in [Runs -> Row]
    BY <1>3 DEF TInv, LaunchFails, Row
  <2>2. active' \in [Runs -> Flight]
    BY <1>3 DEF TInv, LaunchFails, Free, AnyTask, Flight
  <2>3. QED
    BY <1>3, <2>1, <2>2 DEF TInv, LaunchFails, taskVars, schedVars, farVars, procVars
<1>4. ASSUME NEW r \in Runs, Hear(r)
      PROVE  TInv'
  <2>1. row' \in [Runs -> Row]
    <3> DEFINE x == [row[r] EXCEPT !.stage = kid[r].stage,
                                   !.at = IF kid[r].stage = "OVER" THEN "closed" ELSE @]
    <3>1. row[r] \in Row /\ kid[r].stage \in Stages
      BY DEF TInv, Kid
    <3>2. x \in Row
      BY <3>1 DEF Row
    <3>3. row' = [row EXCEPT ![r] = x]
      BY <1>4 DEF Hear
    <3>4. QED
      BY <3>2, <3>3, RowTyped
  <2>2. QED
    BY <1>4, <2>1 DEF TInv, Hear, taskVars, schedVars, farVars, procVars
<1>5. ASSUME NEW r \in Runs, Reap(r)
      PROVE  TInv'
  <2>1. row' \in [Runs -> Row]
    BY <1>5 DEF TInv, Reap, Row
  <2>2. active' \in [Runs -> Flight]
    <3>1. active \in [Runs -> Flight]
      BY DEF TInv
    <3>2. Free \in Flight /\ [active[r] EXCEPT !.at = "booking"] \in Flight
          /\ [active[r] EXCEPT !.at = "aborting"] \in Flight
      BY <3>1 DEF Free, AnyTask, Flight
    <3>3. \/ active' = [active EXCEPT ![r] = Free]
          \/ active' = [active EXCEPT ![r] = [active[r] EXCEPT !.at = "booking"]]
          \/ active' = [active EXCEPT ![r] = [active[r] EXCEPT !.at = "aborting"]]
      BY <1>5 DEF Reap
    <3> QED BY <3>1, <3>2, <3>3
  <2>3. kid' \in [Runs -> Kid]
    BY <1>5 DEF TInv, Reap, NoKid, Stages, Kid
  <2>4. QED
    BY <1>5, <2>1, <2>2, <2>3 DEF TInv, Reap, taskVars, schedVars, procVars
<1>6. ASSUME NEW r \in Runs, AbortOnBehalf(r)
      PROVE  TInv'
  <2>1. active' \in [Runs -> Flight]
    <3>1. active' = [active EXCEPT ![r] = Free] \/ active' = [active EXCEPT ![r].at = "booking"]
      BY <1>6 DEF AbortOnBehalf
    <3>2. Free \in Flight /\ active[r] \in Flight
      BY DEF TInv, Free, AnyTask, Flight
    <3>3. [active[r] EXCEPT !.at = "booking"] \in Flight
      BY <3>2 DEF Flight
    <3>4. QED
      BY <3>1, <3>2, <3>3 DEF TInv
  <2>2. holds' \in [Tables -> Runs \cup {NoRun}]
    BY <1>6, LetGoTyped DEF TInv, AbortOnBehalf, AbortSucceeds, AbortFails
  <2>3. QED
    BY <1>6, <2>1, <2>2 DEF TInv, AbortOnBehalf, taskVars, schedVars, procVars
<1>7. ASSUME NEW r \in Runs, Book(r)
      PROVE  TInv'
  <2>1. active' \in [Runs -> Flight]
    BY <1>7 DEF TInv, Book, Free, AnyTask, Flight
  <2>2. stuck' \in [Runs -> {"none", "held", "retrying"}]
    BY <1>7 DEF TInv, Book
  <2>3. QED
    BY <1>7, <2>1, <2>2 DEF TInv, Book, taskVars, schedVars, farVars, procVars
<1>8. ASSUME NEW r \in Runs, Release(r)
      PROVE  TInv'
  <2>1. stuck' \in [Runs -> {"none", "held", "retrying"}]
    BY <1>8 DEF TInv, Release
  <2>2. QED
    BY <1>8, <2>1 DEF TInv, Release, taskVars, schedVars, farVars, procVars
<1>9. ASSUME NEW r \in Runs, SettleStuck(r)
      PROVE  TInv'
  <2>1. stuck' \in [Runs -> {"none", "held", "retrying"}]
    BY <1>9 DEF TInv, SettleStuck
  <2>2. holds' \in [Tables -> Runs \cup {NoRun}]
    BY <1>9, LetGoTyped DEF TInv, SettleStuck, AbortSucceeds, AbortFails
  <2>3. QED
    BY <1>9, <2>1, <2>2 DEF TInv, SettleStuck, taskVars, schedVars, procVars
<1>10. ASSUME NEW r \in Runs, NEW t \in Tasks, StartManual(r, t)
      PROVE  TInv'
  <2>1. row' \in [Runs -> Row] /\ active' \in [Runs -> Flight]
    BY <1>0, <1>10, RegisterTyped DEF StartManual, AnyTask
  <2>2. QED
    BY <1>10, <2>1 DEF TInv, StartManual, taskVars, schedVars, farVars, procVars
<1>11. ASSUME NEW t \in Tasks, AskDelete(t)
      PROVE  TInv'
  <2>1. deleting' \in AnyTask
    BY <1>11 DEF TInv, AskDelete, AnyTask
  <2>2. upsets' \in 0..MaxUpsets
    BY <1>11, <1>0 DEF TInv, AskDelete, Upset
  <2>3. QED
    BY <1>11, <2>1, <2>2 DEF TInv, AskDelete, schedVars, runVars, farVars
<1>12. CASE DeleteTask
  <2>1. tasks' \in [Tasks -> TaskRow]
    BY <1>12 DEF TInv, DeleteTask, AnyTask, TaskRow
  <2>2. deleting' \in AnyTask
    BY <1>12 DEF TInv, DeleteTask, AnyTask
  <2>3. QED
    BY <1>12, <2>1, <2>2 DEF TInv, DeleteTask, schedVars, runVars, farVars, procVars
<1>13. ASSUME NEW t \in Tasks, Edit(t)
      PROVE  TInv'
  <2>1. tasks' \in [Tasks -> TaskRow]
    <3>1. PICK on \in BOOLEAN, e \in Crons : tasks' = [tasks EXCEPT ![t].on = on, ![t].cron = e]
      BY <1>13 DEF Edit
    <3>2. tasks[t] \in TaskRow /\ tasks \in [Tasks -> TaskRow]
      BY <1>13 DEF TInv
    <3>3. [tasks[t] EXCEPT !.on = on, !.cron = e] \in TaskRow
      BY <3>2 DEF TaskRow
    <3>4. tasks' = [tasks EXCEPT ![t] = [tasks[t] EXCEPT !.on = on, !.cron = e]]
      BY <3>1
    <3>5. QED
      BY <3>2, <3>3, <3>4
  <2>2. upsets' \in 0..MaxUpsets
    BY <1>13, <1>0 DEF TInv, Edit, Upset
  <2>3. QED
    BY <1>13, <2>1, <2>2 DEF TInv, Edit, schedVars, runVars, farVars
<1>14. ASSUME NEW m \in 0..MaxNow, Evaluate(m)
      PROVE  TInv'
  <2>1. entries' \in [Tasks -> Entry]
    BY <1>14, EntryTyped DEF TInv, Evaluate, Entry
  <2>2. queue' \in Seq(Occurrences)
    BY <1>14, QueueTyped DEF TInv, Evaluate
  <2>3. sched' \in Look
    BY <1>14, <2>2 DEF TInv, Evaluate, Asleep, Look
  <2>4. QED
    BY <1>14, <2>1, <2>2, <2>3 DEF TInv, Evaluate, taskVars, runVars, farVars, procVars
<1>15. CASE Crash \/ Shutdown
  <2>1. row' \in [Runs -> Row]
    BY <1>15, RowsClosedTyped DEF TInv, Crash, Shutdown
  <2>2. upsets' \in 0..MaxUpsets
    BY <1>15, <1>0 DEF TInv, Crash, Shutdown, Upset
  <2>3. Gone
    BY <1>15 DEF Crash, Shutdown
  <2>4. QED
    BY <2>1, <2>2, <2>3, GoneTyped DEF TInv, Gone, AnyTask
<1>16. CASE Start
  <2>1. row' \in [Runs -> Row]
    BY <1>16, ZenonT(60) DEF TInv, Start, RowsClosed, Row
  <2>2. stuck' \in [Runs -> {"none", "held", "retrying"}]
    BY <1>16 DEF TInv, Start
  <2>3. QED
    BY <1>16, <2>1, <2>2 DEF TInv, Start, taskVars, schedVars, farVars
<1>17. CASE Stop
  <2>1. upsets' \in 0..MaxUpsets
    BY <1>17, <1>0 DEF TInv, Stop, Upset
  <2>2. QED
    BY <1>17, <2>1 DEF TInv, Stop, taskVars, schedVars, runVars, farVars
<1>18. CASE StopRuns
  <2>1. kid' \in [Runs -> Kid]
    BY <1>18 DEF TInv, StopRuns, Kid
  <2>2. QED
    BY <1>18, <2>1 DEF TInv, StopRuns, taskVars, schedVars, runVars, farVars
<1>19. CASE DrainGone \/ DrainRefused \/ Dispatched
  <2>1. Dequeue /\ GoOn /\ sched.view # <<>>
    BY <1>19 DEF DrainGone, DrainRefused, Dispatched, Draining, Answered, ViewInv
  <2>2. UNCHANGED <<now, taskVars, entries, runVars, farVars, procVars>>
    BY <1>19 DEF DrainGone, DrainRefused, Dispatched, Answered
  <2>3. QED
    BY <2>1, <2>2, QueueTyped, GoOnTyped DEF TInv, taskVars, runVars, farVars, procVars
<1>20. CASE DrainWaits \/ DrainMayStart \/ LeaveDrain
  <2>1. DrainWaits => sched' \in Look
    BY GoOnTyped DEF DrainWaits, Draining, ViewInv
  <2>2. DrainMayStart \/ LeaveDrain => sched' \in Look
    <3>1. sched \in Look /\ Asleep \in Look
      BY DEF TInv, Asleep, Look
    <3>2. [sched EXCEPT !.at = "starting"] \in Look
      BY <3>1 DEF Look
    <3>3. QED
      BY <3>1, <3>2 DEF DrainMayStart, LeaveDrain
  <2>3. UNCHANGED <<now, taskVars, entries, queue, runVars, farVars, procVars>>
    BY <1>20 DEF DrainWaits, DrainMayStart, LeaveDrain
  <2>4. QED
    BY <1>20, <2>1, <2>2, <2>3 DEF TInv, taskVars, runVars, farVars, procVars
<1>21. ASSUME NEW r \in Runs, StartScheduled(r)
      PROVE  TInv'
  <2>1. sched.view \in Seq(Occurrences) /\ sched.view # <<>>
    BY <1>21 DEF StartScheduled, ViewInv, TInv, Look
  <2>2. Current \in Occurrences
    BY <2>1 DEF Current
  <2>3. Current.task \in AnyTask /\ Current.due \in 0..MaxNow
    BY <1>0, <2>2 DEF Occurrences, AnyTask
  <2>4. row' \in [Runs -> Row] /\ active' \in [Runs -> Flight]
    BY <1>21, <2>3, RegisterTyped DEF StartScheduled
  <2>5. sched' \in Look
    BY <1>21 DEF TInv, StartScheduled, Look
  <2>6. QED
    BY <1>21, <2>4, <2>5 DEF TInv, StartScheduled, taskVars, farVars, procVars
<1>22. CASE UNCHANGED vars
  BY <1>22 DEF TInv, vars, taskVars, schedVars, runVars, farVars, procVars
<1>23. QED
  BY <1>1, <1>2, <1>3, <1>4, <1>5, <1>6, <1>7, <1>8, <1>9, <1>10, <1>11, <1>12, <1>13, <1>14, <1>15, <1>16, <1>17, <1>18, <1>19, <1>20, <1>21, <1>22
     DEF Next, Supervise, Scheduler

-----------------------------------------------------------------------------
(* Runs in flight *)

\* What register_active_run is asked for: a task that no run in flight has.
LEMMA FlightRegistered ==
    ASSUME TInv, FlightInv, NEW r \in Runs, NEW t \in Tasks, NEW due, Register(r, t, due),
           proc' # "down"
    PROVE  FlightInv'
<1>1. /\ row[r].at = "none" /\ \A q \in Runs : active[q].at # "free" => active[q].task # t
  BY DEF Register, Refused, HasActiveRun
<1>2. \A q \in Runs : q # r => row'[q] = row[q] /\ active'[q] = active[q]
  BY DEF Register, TInv
<1>3. row'[r].task = t /\ row'[r].at = "asked" /\ active'[r].task = t /\ active'[r].at = "registered"
  BY DEF Register, TInv, Row, Flight
<1>4. QED
  BY <1>1, <1>2, <1>3 DEF FlightInv

LEMMA FlightKept ==
    ASSUME FlightInv, proc' # "down",
           \A q \in Runs : active'[q].at # "free" =>
               active[q].at # "free" /\ active'[q].task = active[q].task,
           \A q \in Runs : /\ row'[q].task = row[q].task
                           /\ row[q].at # "none" => row'[q].at # "none"
    PROVE  FlightInv'
BY DEF FlightInv

LEMMA FlightInit == Init => FlightInv
BY DEF Init, FlightInv, Free

LEMMA FlightStep == ASSUME TInv, FlightInv, ViewInv, [Next]_vars PROVE FlightInv'
<1>1. ASSUME NEW r \in Runs, Launch(r) \/ LaunchFails(r) \/ Reap(r) \/ AbortOnBehalf(r) \/ Book(r) \/ Hear(r)
      PROVE  FlightInv'
  <2>1. proc' # "down"
    BY <1>1 DEF Launch, LaunchFails, Reap, AbortOnBehalf, Book, Hear, Supervising, procVars
  <2>2. \A q \in Runs : active'[q].at # "free" =>
            active[q].at # "free" /\ active'[q].task = active[q].task
    BY <1>1 DEF TInv, Flight, Free, Launch, LaunchFails, Reap, AbortOnBehalf, Book, Hear, Supervising
  <2>3. \A q \in Runs : /\ row'[q].task = row[q].task
                        /\ row[q].at # "none" => row'[q].at # "none"
    BY <1>1 DEF TInv, Row, Launch, LaunchFails, Reap, AbortOnBehalf, Book, Hear, Supervising
  <2>4. QED
    BY <2>1, <2>2, <2>3, FlightKept
<1>2. ASSUME NEW r \in Runs, NEW t \in Tasks, StartManual(r, t)
      PROVE  FlightInv'
  BY <1>2, FlightRegistered DEF StartManual, procVars
<1>3. ASSUME NEW r \in Runs, StartScheduled(r)
      PROVE  FlightInv'
  <2>1. Current \in Occurrences
    BY <1>3 DEF StartScheduled, ViewInv, TInv, Look, Current
  <2>2. Current.task \in Tasks
    BY <2>1 DEF Occurrences
  <2>3. QED
    BY <1>3, <2>2, FlightRegistered DEF StartScheduled, procVars
<1>4. CASE Crash \/ Shutdown
  BY <1>4 DEF Crash, Shutdown, Gone, FlightInv, Free
<1>5. CASE Start
  <2>1. \A q \in Runs : row'[q].task = row[q].task /\ (row[q].at # "none" => row'[q].at # "none")
    BY <1>5 DEF Start, RowsClosed, TInv, Row
  <2>2. proc' # "down" /\ active' = active
    BY <1>5 DEF Start
  <2>3. QED
    BY <2>1, <2>2, FlightKept
<1>6. CASE \/ \E r \in Runs : Child(r) \/ Die(r) \/ Release(r) \/ SettleStuck(r)
           \/ \E t \in Tasks : AskDelete(t) \/ Edit(t)
           \/ DeleteTask \/ UNCHANGED vars
           \/ \E m \in 0..MaxNow : Evaluate(m)
           \/ DrainGone \/ DrainRefused \/ DrainWaits \/ DrainMayStart \/ Dispatched \/ LeaveDrain
  <2>1. UNCHANGED <<active, row, proc>>
    BY <1>6 DEF Child, Begin, Writes, Open, OpenRefused, Fail, FailHeld, Committing, Seal,
       FinishRun, End, Die, Release, SettleStuck, AskDelete, Edit, DeleteTask, Evaluate, DrainGone,
       DrainRefused, DrainWaits, DrainMayStart, Dispatched, LeaveDrain, Answered,
       vars, runVars, procVars
  <2>2. QED
    BY <2>1 DEF FlightInv
<1>7. CASE Stop \/ StopRuns
  BY <1>7 DEF Stop, StopRuns, runVars, FlightInv
<1>8. QED
  BY <1>1, <1>2, <1>3, <1>4, <1>5, <1>6, <1>7 DEF Next, Supervise, Scheduler

-----------------------------------------------------------------------------
(* A run and its child *)

\* A step of one run leaves the others alone.
LEMMA ChildKept ==
    ASSUME ChildInv, NEW r \in Runs, ChildOf(r)',
           \A q \in Runs : q # r => /\ active'[q] = active[q] /\ stuck'[q] = stuck[q]
                                    /\ row'[q] = row[q] /\ kid'[q] = kid[q]
    PROVE  ChildInv'
BY DEF ChildInv, ChildOf

LEMMA ChildInit == Init => ChildInv
BY DEF Init, ChildInv, ChildOf, Free, NoKid, NotDue

\* What the steps of a child do to its state.
LEMMA ChildMoves ==
    ASSUME TInv, ChildInv, NEW r \in Runs, Child(r) \/ Die(r)
    PROVE  /\ \A q \in Runs : q # r => kid'[q] = kid[q]
           /\ \/ kid'[r] = kid[r]
              \/ /\ kid[r].alive
                 /\ kid'[r].alive => kid'[r].stage # "OVER" /\ ~kid'[r].left
                 /\ kid'[r].left => kid'[r].stage = "OVER"
           /\ UNCHANGED <<now, taskVars, schedVars, runVars, procVars>>
<1>1. kid[r] \in Kid /\ (kid[r].alive => ~kid[r].left)
  BY DEF TInv, ChildInv, ChildOf
<1>2. ASSUME NEW x \in Stages, NEW y \in Stages, Writes(r, x, y)
      PROVE  /\ \A q \in Runs : q # r => kid'[q] = kid[q]
             /\ kid[r].alive /\ kid'[r].alive = (y # "OVER") /\ kid'[r].stage = y /\ ~kid'[r].left
             /\ UNCHANGED <<now, taskVars, schedVars, runVars, procVars>>
  BY <1>1, <1>2 DEF Writes, TInv, Kid
<1>3. CASE Begin(r) \/ OpenRefused(r) \/ Fail(r) \/ Committing(r) \/ End(r)
  <2>1. \E x, y \in Stages : Writes(r, x, y)
    BY <1>3 DEF Begin, OpenRefused, Fail, Committing, End, Stages
  <2>2. QED
    BY <1>2, <2>1
<1>4. CASE Open(r) \/ Seal(r) \/ FinishRun(r)
  BY <1>4 DEF Open, Seal, FinishRun
<1>5. CASE FailHeld(r)
  BY <1>5 DEF FailHeld, TInv
<1>6. CASE Die(r)
  BY <1>1, <1>6 DEF Die, TInv, Kid
<1>7. QED
  BY <1>3, <1>4, <1>5, <1>6 DEF Child

LEMMA ChildStep == ASSUME TInv, FlightInv, ChildInv, [Next]_vars PROVE ChildInv'
<1>1. ASSUME NEW r \in Runs, Child(r) \/ Die(r)
      PROVE  ChildInv'
  <2>1. UNCHANGED runVars /\ ChildOf(r)
    BY <1>1, ChildMoves DEF ChildInv, ChildOf
  <2>2. ChildOf(r)'
    BY <1>1, <2>1, ChildMoves DEF ChildOf, runVars, NoKid
  <2>3. QED
    BY <1>1, <2>1, <2>2, ChildMoves, ChildKept DEF runVars
<1>2. ASSUME NEW r \in Runs, Launch(r) \/ LaunchFails(r) \/ Hear(r) \/ Reap(r) \/ AbortOnBehalf(r)
                             \/ Book(r) \/ Release(r) \/ SettleStuck(r)
      PROVE  ChildInv'
  <2>1. /\ ChildOf(r) /\ row[r] \in Row /\ active[r] \in Flight /\ kid[r] \in Kid
        /\ active[r].at # "free" => row[r].at # "none"
    BY DEF ChildInv, ChildOf, FlightInv, TInv
  <2>2. \A q \in Runs : q # r => /\ active'[q] = active[q] /\ stuck'[q] = stuck[q]
                                 /\ row'[q] = row[q] /\ kid'[q] = kid[q]
    BY <1>2 DEF TInv, Launch, LaunchFails, Hear, Reap, AbortOnBehalf, Book, Release, SettleStuck,
       farVars
  <2>3. Launch(r) => ChildOf(r)'
    BY <2>1 DEF TInv, Launch, ChildOf, NoKid, Row, Flight, Kid
  <2>4. LaunchFails(r) => ChildOf(r)'
    BY <2>1 DEF TInv, LaunchFails, ChildOf, NoKid, Row, Flight, Free, farVars
  <2>5. Hear(r) => ChildOf(r)'
    <3> SUFFICES ASSUME Hear(r) PROVE ChildOf(r)'
      OBVIOUS
    <3>1. row'[r] = [row[r] EXCEPT !.stage = kid[r].stage,
                                   !.at = IF kid[r].stage = "OVER" THEN "closed" ELSE @]
      BY DEF Hear, TInv
    <3>2. /\ row'[r].stage = kid[r].stage /\ row'[r].due = row[r].due
          /\ row'[r].at = IF kid[r].stage = "OVER" THEN "closed" ELSE row[r].at
      BY <2>1, <3>1 DEF Row
    <3>3. active[r].at = "running" /\ row[r].stage # kid[r].stage /\ UNCHANGED <<active, stuck, kid>>
      BY DEF Hear, Supervising, farVars
    <3>4. QED
      BY <2>1, <3>2, <3>3 DEF ChildOf, NoKid
  <2>6. Reap(r) => ChildOf(r)'
    BY <2>1 DEF TInv, Reap, Supervising, ChildOf, Row, Flight, Kid, Free, NoKid
  <2>7. AbortOnBehalf(r) => ChildOf(r)'
    BY <2>1 DEF TInv, AbortOnBehalf, Supervising, ChildOf, Flight, Free
  <2>8. Book(r) => ChildOf(r)'
    BY <2>1 DEF TInv, Book, Supervising, ChildOf, Flight, Free, farVars
  <2>9. (Release(r) \/ SettleStuck(r)) => ChildOf(r)'
    BY <2>1 DEF TInv, Release, SettleStuck, ChildOf, farVars
  <2>10. QED
    BY <1>2, <2>2, <2>3, <2>4, <2>5, <2>6, <2>7, <2>8, <2>9, ChildKept
<1>3. ASSUME NEW r \in Runs, NEW t, NEW due, Register(r, t, due), UNCHANGED <<stuck, kid>>
      PROVE  ChildInv'
  <2>1. ChildOf(r) /\ row[r] \in Row /\ active[r] \in Flight
    BY DEF ChildInv, ChildOf, TInv
  <2>2. ChildOf(r)'
    BY <1>3, <2>1 DEF TInv, Register, ChildOf, Row, Flight
  <2>3. \A q \in Runs : q # r => active'[q] = active[q] /\ row'[q] = row[q]
    BY <1>3 DEF TInv, Register
  <2>4. QED
    BY <1>3, <2>2, <2>3, ChildKept
<1>4. CASE \E r \in Runs : StartScheduled(r) \/ \E t \in Tasks : StartManual(r, t)
  BY <1>3, <1>4 DEF StartScheduled, StartManual, farVars
<1>5. CASE Crash \/ Shutdown
  <2>1. ASSUME NEW r \in Runs PROVE ChildOf(r)'
    <3>1. active'[r] = Free /\ stuck'[r] = "none" /\ kid'[r] = NoKid
      BY <1>5 DEF Crash, Shutdown, Gone
    <3>2. row'[r] = row[r] \/ (row[r].at = "open" /\ row'[r] = [row[r] EXCEPT !.at = "closed"])
      BY <1>5 DEF Crash, Shutdown, RowsClosed
    <3>3. row[r] \in Row /\ ChildOf(r)
      BY DEF ChildInv, ChildOf, TInv
    <3>4. QED
      BY <3>1, <3>2, <3>3 DEF ChildOf, Row, Free, NoKid
  <2>2. QED
    BY <2>1 DEF ChildInv, ChildOf
<1>6. CASE Start
  <2>1. ASSUME NEW r \in Runs PROVE ChildOf(r)'
    <3>1. active'[r] = Free /\ kid'[r] = kid[r] /\ active[r] = Free
      BY <1>6 DEF Start, FlightInv, farVars
    <3>2. \/ row'[r] = row[r] /\ row[r].at # "open"
          \/ row[r].at = "open" /\ row'[r] = [row[r] EXCEPT !.at = "closed"]
      BY <1>6 DEF Start, RowsClosed
    <3>3. stuck'[r] = "none" \/ row[r].at = "open"
      BY <1>6 DEF Start, Reclaimed
    <3>4. row[r] \in Row /\ ChildOf(r)
      BY DEF ChildInv, ChildOf, TInv
    <3>5. QED
      BY <3>1, <3>2, <3>3, <3>4 DEF ChildOf, Row, Free, NoKid
  <2>2. QED
    BY <2>1 DEF ChildInv, ChildOf
<1>7. CASE StopRuns
  <2>1. ASSUME NEW r \in Runs PROVE ChildOf(r)'
    <3>1. kid'[r] = [kid[r] EXCEPT !.alive = @ /\ row[r].stage \in {"COMMITTING", "OVER"}]
      BY <1>7 DEF StopRuns
    <3>2. UNCHANGED runVars /\ kid[r] \in Kid /\ ChildOf(r)
      BY <1>7 DEF StopRuns, TInv, ChildInv, ChildOf
    <3>3. /\ kid'[r].stage = kid[r].stage /\ kid'[r].left = kid[r].left
          /\ kid'[r].alive => kid[r].alive
          /\ kid[r] = NoKid => kid'[r] = NoKid
      BY <3>1, <3>2 DEF Kid, NoKid
    <3>4. QED
      BY <3>2, <3>3 DEF ChildOf, runVars
  <2>2. QED
    BY <2>1 DEF ChildInv, ChildOf
<1>8. CASE \/ \E t \in Tasks : AskDelete(t) \/ Edit(t)
           \/ DeleteTask \/ Stop \/ UNCHANGED vars
           \/ \E m \in 0..MaxNow : Evaluate(m)
           \/ DrainGone \/ DrainRefused \/ DrainWaits \/ DrainMayStart \/ Dispatched \/ LeaveDrain
  <2>1. UNCHANGED <<active, stuck, row, kid>>
    BY <1>8 DEF AskDelete, Edit, DeleteTask, Stop, Evaluate, DrainGone, DrainRefused, DrainWaits,
       DrainMayStart, Dispatched, LeaveDrain, Answered, vars, runVars, farVars
  <2>2. QED
    BY <2>1 DEF ChildInv, ChildOf
<1>9. QED
  BY <1>1, <1>2, <1>4, <1>5, <1>6, <1>7, <1>8 DEF Next, Supervise, Scheduler

-----------------------------------------------------------------------------
(* Holds at the agent *)

LEMMA HoldKept ==
    ASSUME HoldInv,
           \A k \in Tables, q \in Runs : holds'[k] = q =>
               holds[k] = q /\ (kid'[q].stage = "OVER" /\ ~kid'[q].left => q \in sealed'),
           \A q \in Runs : row[q].at \in {"open", "closed"} =>
               row'[q].task = row[q].task /\ row'[q].at \in {"open", "closed"},
           sealed' \subseteq sealed
    PROVE  HoldInv'
BY DEF HoldInv

LEMMA LetGoLeaves ==
    ASSUME TInv, HoldInv, NEW r \in Runs, LetGo(r)
    PROVE  \A k \in Tables, q \in Runs : holds'[k] = q => holds[k] = q /\ q # r
<1>1. NoRun \notin Runs
  BY ControlAssumption DEF ControlAssumption
<1>2. \A k \in Tables : holds[k] = r => k = TableOf[row[r].task]
  BY DEF HoldInv
<1>3. QED
  BY <1>1, <1>2 DEF LetGo, Holding, TInv

\* A live child belongs to a run in flight, whose row is there.
LEMMA AliveHas ==
    ASSUME TInv, FlightInv, ChildInv, NEW r \in Runs, kid[r].alive
    PROVE  /\ active[r].at = "running" /\ row[r].task \in Tasks
           /\ row[r].at \in {"open", "closed"}
BY DEF TInv, FlightInv, ChildInv, ChildOf, Row, NoKid

LEMMA HoldInit == Init => HoldInv
<1>1. NoRun \notin Runs
  BY ControlAssumption DEF ControlAssumption
<1>2. QED
  BY <1>1 DEF Init, HoldInv, Tables

LEMMA HoldByChild ==
    ASSUME TInv, FlightInv, ChildInv, HoldInv, NEW r \in Runs, Child(r) \/ Die(r)
    PROVE  HoldInv'
<1>0. /\ UNCHANGED row
      /\ kid[r] \in Kid
      /\ \A k \in Tables, q \in Runs : holds[k] = q =>
             k = TableOf[row[q].task] /\ (kid[q].stage = "OVER" /\ ~kid[q].left => q \in sealed)
      /\ \A q \in Runs : q # r => kid'[q] = kid[q]
  BY ChildMoves DEF runVars, HoldInv, TInv
<1>1. ASSUME NEW x \in Stages, NEW y \in Stages, Writes(r, x, y), y # "OVER", UNCHANGED <<holds, sealed>>
      PROVE  HoldInv'
  <2>1. kid'[r].stage # "OVER"
    BY <1>1, <1>0 DEF Writes, TInv, Kid
  <2>2. QED
    BY <1>0, <1>1, <2>1, HoldKept
<1>2. CASE Begin(r) \/ Committing(r)
  BY <1>1, <1>2 DEF Begin, Committing, Stages
<1>3. CASE OpenRefused(r) \/ End(r)
  <2>1. ~Holding(r) \/ r \in sealed
    BY <1>3 DEF OpenRefused, End
  <2>2. UNCHANGED <<holds, sealed>>
    BY <1>3 DEF OpenRefused, End
  <2>3. \A k \in Tables : holds[k] = r => r \in sealed
    BY <1>0, <2>1 DEF Holding
  <2>4. QED
    BY <1>0, <2>2, <2>3, HoldKept
<1>4. CASE Fail(r)
  <2>1. LetGo(r) /\ UNCHANGED sealed
    BY <1>4 DEF Fail
  <2>2. QED
    BY <1>0, <2>1, LetGoLeaves, HoldKept
<1>5. CASE FinishRun(r)
  <2>1. LetGo(r) /\ sealed' = sealed \ {r} /\ UNCHANGED kid
    BY <1>5 DEF FinishRun
  <2>2. QED
    BY <1>0, <2>1, LetGoLeaves, HoldKept
<1>6. CASE FailHeld(r) \/ Die(r)
  <2>1. /\ UNCHANGED <<holds, sealed>>
        /\ kid'[r].left \/ (kid'[r].stage = kid[r].stage /\ kid'[r].left = kid[r].left)
    BY <1>0, <1>6 DEF FailHeld, Die, TInv, Kid
  <2>2. QED
    BY <1>0, <2>1, HoldKept
<1>7. CASE Open(r)
  <2>1. row[r].task \in Tasks /\ row[r].at \in {"open", "closed"}
    BY <1>7, AliveHas DEF Open
  <2>2. \A k \in Tables : holds'[k] = holds[k] \/ (k = TableOf[row[r].task] /\ holds'[k] = r)
    BY <1>7 DEF Open, TInv
  <2>3. kid[r].stage # "OVER" /\ UNCHANGED <<kid, row, sealed>>
    BY <1>7 DEF Open, runVars
  <2>4. QED
    BY <2>1, <2>2, <2>3 DEF HoldInv
<1>8. CASE Seal(r)
  <2>1. row[r].at \in {"open", "closed"}
    BY <1>8, AliveHas DEF Seal
  <2>2. sealed' = sealed \cup {r} /\ UNCHANGED <<kid, row, holds>>
    BY <1>8 DEF Seal, runVars
  <2>3. QED
    BY <2>1, <2>2 DEF HoldInv
<1>9. QED
  BY <1>2, <1>3, <1>4, <1>5, <1>6, <1>7, <1>8 DEF Child

LEMMA HoldStep ==
    ASSUME TInv, FlightInv, ChildInv, HoldInv, [Next]_vars
    PROVE  HoldInv'
<1>0. /\ \A k \in Tables, q \in Runs : holds[k] = q =>
             row[q].at \in {"open", "closed"} /\ (kid[q].stage = "OVER" /\ ~kid[q].left => q \in sealed)
      /\ \A q \in Runs : row[q] \in Row /\ kid[q] \in Kid
  BY DEF HoldInv, TInv
<1>1. CASE \E r \in Runs : Child(r) \/ Die(r)
  BY <1>1, HoldByChild
<1>2. ASSUME NEW r \in Runs, AbortOnBehalf(r) \/ SettleStuck(r)
      PROVE  HoldInv'
  <2>1. LetGo(r) \/ UNCHANGED holds
    BY <1>2 DEF AbortOnBehalf, SettleStuck, AbortSucceeds, AbortFails
  <2>2. UNCHANGED <<row, kid, sealed>>
    BY <1>2 DEF AbortOnBehalf, SettleStuck
  <2>3. \A k \in Tables, q \in Runs : holds'[k] = q => holds[k] = q
    BY <2>1, LetGoLeaves
  <2>4. QED
    BY <1>0, <2>2, <2>3, HoldKept
<1>3. ASSUME NEW r \in Runs, Launch(r) \/ LaunchFails(r) \/ Hear(r) \/ Reap(r)
      PROVE  HoldInv'
  <2>1. UNCHANGED <<holds, sealed>>
    BY <1>3 DEF Launch, LaunchFails, Hear, Reap, farVars
  <2>2. \A q \in Runs : kid'[q].stage = "OVER" /\ ~kid'[q].left => kid[q].stage = "OVER" /\ ~kid[q].left
    <3>1. \/ kid' = kid \/ kid' = [kid EXCEPT ![r].alive = TRUE]
          \/ kid' = [kid EXCEPT ![r] = NoKid]
      BY <1>3 DEF Launch, LaunchFails, Hear, Reap, farVars
    <3>2. kid \in [Runs -> Kid] /\ NoKid.stage # "OVER"
      BY DEF TInv, NoKid
    <3>3. QED
      BY <3>1, <3>2 DEF Kid
  <2>3. \A q \in Runs : row[q].at \in {"open", "closed"} =>
           row'[q].task = row[q].task /\ row'[q].at \in {"open", "closed"}
    <3>1. \E x \in {"open", "closed"} :
             \/ row' = [row EXCEPT ![r].at = x]
             \/ row' = [row EXCEPT ![r].stage = kid[r].stage, ![r].at = IF kid[r].stage = "OVER" THEN x ELSE @]
      BY <1>3 DEF Launch, LaunchFails, Hear, Reap
    <3>2. row \in [Runs -> Row]
      BY DEF TInv
    <3>3. QED
      BY <3>1, <3>2 DEF Row
  <2>4. QED
    BY <1>0, <2>1, <2>2, <2>3, HoldKept
<1>4. ASSUME NEW r \in Runs, NEW t, NEW due, Register(r, t, due), UNCHANGED farVars
      PROVE  HoldInv'
  <2>1. row[r].at = "none" /\ \A q \in Runs : q # r => row'[q] = row[q]
    BY <1>4 DEF Register, TInv
  <2>2. UNCHANGED <<kid, holds, sealed>>
    BY <1>4 DEF farVars
  <2>3. \A q \in Runs : row[q].at \in {"open", "closed"} => row'[q] = row[q]
    BY <2>1
  <2>4. QED
    BY <1>0, <2>2, <2>3, HoldKept
<1>5. CASE \E r \in Runs : StartScheduled(r) \/ \E t \in Tasks : StartManual(r, t)
  BY <1>4, <1>5 DEF StartScheduled, StartManual
<1>6. CASE Crash \/ Shutdown \/ Start
  <2>1. UNCHANGED <<holds, sealed>>
    BY <1>6 DEF Crash, Shutdown, Gone, Start, farVars
  <2>2. \A q \in Runs : kid'[q] = NoKid \/ kid'[q] = kid[q]
    BY <1>6 DEF Crash, Shutdown, Gone, Start, farVars
  <2>3. \A q \in Runs : row[q].at \in {"open", "closed"} =>
           row'[q].task = row[q].task /\ row'[q].at \in {"open", "closed"}
    BY <1>0, <1>6 DEF Crash, Shutdown, Start, RowsClosed, Row
  <2>4. QED
    BY <1>0, <2>1, <2>2, <2>3, HoldKept DEF NoKid
<1>7. CASE StopRuns
  <2>1. \A q \in Runs : kid'[q].stage = kid[q].stage /\ kid'[q].left = kid[q].left
    BY <1>0, <1>7 DEF StopRuns, Kid
  <2>2. UNCHANGED <<row, holds, sealed>>
    BY <1>7 DEF StopRuns, runVars
  <2>3. QED
    BY <1>0, <2>1, <2>2, HoldKept
<1>8. CASE \/ \E r \in Runs : Book(r) \/ Release(r)
           \/ \E t \in Tasks : AskDelete(t) \/ Edit(t)
           \/ DeleteTask \/ Stop \/ UNCHANGED vars
           \/ \E m \in 0..MaxNow : Evaluate(m)
           \/ DrainGone \/ DrainRefused \/ DrainWaits \/ DrainMayStart \/ Dispatched \/ LeaveDrain
  <2>1. UNCHANGED <<row, kid, holds, sealed>>
    BY <1>8 DEF Book, Release, AskDelete, Edit, DeleteTask, Stop, Evaluate, DrainGone, DrainRefused,
       DrainWaits, DrainMayStart, Dispatched, LeaveDrain, Answered, vars, runVars, farVars
  <2>2. QED
    BY <2>1 DEF HoldInv
<1>9. QED
  BY <1>1, <1>2, <1>3, <1>5, <1>6, <1>7, <1>8 DEF Next, Supervise, Scheduler

-----------------------------------------------------------------------------
(* Every hold is guarded or booked *)

\* A step of run r: the others keep what guards them, and r, if it still holds, is guarded.
LEMMA BookedKept ==
    ASSUME TInv, BookedInv, proc # "down", UNCHANGED old, NEW r \in Runs,
           \A k \in Tables : holds'[k] = r => Booked(r)',
           \A k \in Tables, q \in Runs : q # r /\ holds'[k] = q => holds[k] = q,
           \A q \in Runs : q # r =>
               /\ active'[q] = active[q] /\ stuck'[q] = stuck[q]
               /\ row'[q] = row[q] /\ (q \in sealed => q \in sealed')
    PROVE  BookedInv'
BY DEF BookedInv, Booked

LEMMA BookedInit == Init => BookedInv
BY DEF Init, BookedInv

LEMMA BookedByChild ==
    ASSUME TInv, FlightInv, ChildInv, HoldInv, BookedInv, NEW r \in Runs, Child(r)
    PROVE  BookedInv'
<1>1. /\ UNCHANGED <<active, stuck, row, old, proc>>
      /\ \A k \in Tables : holds[k] = r => k = TableOf[row[r].task]
  BY ChildMoves DEF runVars, procVars, HoldInv
<1>2. CASE kid[r].alive /\ ~FinishRun(r)
  <2>1. Booked(r)' /\ proc # "down"
    BY <1>1, <1>2, AliveHas DEF Booked, FlightInv, Free
  <2>2. \A k \in Tables, q \in Runs : q # r /\ holds'[k] = q => holds[k] = q
    <3>1. holds' = holds \/ LetGo(r) \/ Open(r)
      BY <1>2 DEF Child, Begin, OpenRefused, Fail, FailHeld, Committing, Seal, End
    <3>2. Open(r) => \A k \in Tables : holds'[k] = holds[k] \/ holds'[k] = r
      BY DEF Open, TInv
    <3>3. QED
      BY <3>1, <3>2, LetGoLeaves
  <2>3. sealed \subseteq sealed'
    BY <1>2 DEF Child, Begin, Open, OpenRefused, Fail, FailHeld, Committing, Seal, End
  <2>4. QED
    BY <1>1, <2>1, <2>2, <2>3, BookedKept
<1>3. CASE FinishRun(r)
  <2>1. LetGo(r) /\ sealed' = sealed \ {r}
    BY <1>3 DEF FinishRun
  <2>2. \A k \in Tables, q \in Runs : holds'[k] = q => holds[k] = q /\ q # r
    BY <2>1, LetGoLeaves
  <2>3. QED
    BY <1>1, <2>1, <2>2, BookedKept DEF BookedInv
<1>4. QED
  BY <1>2, <1>3 DEF Child, Begin, Writes, Open, OpenRefused, Fail, FailHeld, Committing, Seal, End

LEMMA BookedByParent ==
    ASSUME TInv, FlightInv, ChildInv, HoldInv, BookedInv, NEW r \in Runs,
           \/ Launch(r) \/ LaunchFails(r) \/ Hear(r) \/ Reap(r) \/ AbortOnBehalf(r)
           \/ Book(r) \/ Release(r) \/ SettleStuck(r)
    PROVE  BookedInv'
<1>0. /\ proc # "down" /\ UNCHANGED <<old, sealed>>
      /\ \A q \in Runs : q # r => active'[q] = active[q] /\ stuck'[q] = stuck[q] /\ row'[q] = row[q]
      /\ active[r] \in Flight /\ row[r] \in Row
  BY DEF TInv, Launch, LaunchFails, Hear, Reap, AbortOnBehalf, Book, Release, SettleStuck,
     Supervising, farVars
<1>1. CASE Launch(r) \/ Hear(r)
  <2>1. Booked(r)' /\ UNCHANGED holds
    BY <1>0, <1>1 DEF Launch, Hear, Supervising, farVars, Booked, TInv, Flight
  <2>2. QED
    BY <1>0, <2>1, BookedKept
<1>2. CASE LaunchFails(r)
  <2>1. \A k \in Tables : holds[k] # r
    BY <1>2 DEF LaunchFails, HoldInv, ChildInv, ChildOf
  <2>2. UNCHANGED holds
    BY <1>2 DEF LaunchFails, farVars
  <2>3. QED
    BY <1>0, <2>1, <2>2, BookedKept
<1>3. CASE Reap(r)
  <2>1. UNCHANGED <<holds, sealed, stuck>> /\ row'[r].stage = row[r].stage /\ row[r].stage = kid[r].stage
    BY <1>0, <1>3 DEF Reap, TInv, Row
  <2>2. CASE kid[r].left \/ AbortAllowed(row[r].stage)
    <3>1. active'[r].at # "free"
      BY <1>0, <1>3, <2>2 DEF Reap, TInv, Flight
    <3>2. QED
      BY <1>0, <2>1, <3>1, BookedKept DEF Booked
  <2>3. CASE ~kid[r].left /\ kid[r].stage \in {"BORN", "COMMITTING"}
    BY <1>0, <2>1, <2>3, BookedKept DEF Booked
  <2>4. CASE ~kid[r].left /\ kid[r].stage = "OVER"
    <3>1. \A k \in Tables : holds[k] = r => r \in sealed
      BY <2>4 DEF HoldInv
    <3>2. QED
      BY <1>0, <2>1, <3>1, BookedKept DEF Booked
  <2>5. QED
    BY <1>0, <2>1, <2>2, <2>3, <2>4 DEF AbortAllowed, Row, Stages
<1>4. CASE AbortOnBehalf(r)
  <2>1. CASE LetGo(r)
    BY <1>0, <1>4, <2>1, LetGoLeaves, BookedKept DEF AbortOnBehalf
  <2>2. CASE ~LetGo(r)
    <3>1. UNCHANGED holds /\ active'[r].at = "booking"
      BY <1>0, <1>4, <2>2 DEF AbortOnBehalf, AbortSucceeds, AbortFails, TInv, Flight
    <3>2. QED
      BY <1>0, <3>1, BookedKept DEF Booked
  <2>3. QED
    BY <2>1, <2>2
<1>5. CASE Book(r) \/ Release(r)
  <2>1. stuck'[r] # "none" /\ UNCHANGED holds
    BY <1>5 DEF Book, Release, TInv, farVars
  <2>2. QED
    BY <1>0, <2>1, BookedKept DEF Booked
<1>6. CASE SettleStuck(r)
  <2>1. CASE LetGo(r)
    BY <1>0, <1>6, <2>1, LetGoLeaves, BookedKept DEF SettleStuck
  <2>2. CASE ~LetGo(r)
    <3>1. UNCHANGED holds /\ stuck'[r] = "held"
      BY <1>0, <1>6, <2>2 DEF SettleStuck, AbortSucceeds, AbortFails, TInv
    <3>2. QED
      BY <1>0, <3>1, BookedKept DEF Booked
  <2>3. QED
    BY <2>1, <2>2
<1>7. QED
  BY <1>1, <1>2, <1>3, <1>4, <1>5, <1>6

LEMMA BookedStep ==
    ASSUME TInv, FlightInv, ChildInv, HoldInv, BookedInv, [Next]_vars
    PROVE  BookedInv'
<1>1. CASE \E r \in Runs : Child(r) \/ Supervise(r) \/ Release(r) \/ SettleStuck(r)
  BY <1>1, BookedByChild, BookedByParent DEF Supervise
<1>2. ASSUME NEW r \in Runs, NEW t, NEW due, Register(r, t, due), UNCHANGED <<stuck, old, farVars, procVars>>
      PROVE  BookedInv'
  <2>1. /\ active'[r].at = "registered" /\ row[r].at = "none"
        /\ \A q \in Runs : q # r => active'[q] = active[q] /\ row'[q] = row[q]
    BY <1>2 DEF Register, TInv, Flight
  <2>2. UNCHANGED <<stuck, old, holds, sealed, proc>>
    BY <1>2 DEF farVars, procVars
  <2>3. QED
    BY <2>1, <2>2, BookedKept DEF Booked, BookedInv
<1>3. CASE \E r \in Runs : StartScheduled(r) \/ \E t \in Tasks : StartManual(r, t)
  BY <1>2, <1>3 DEF StartScheduled, StartManual
<1>4. CASE Crash \/ Shutdown
  BY <1>4 DEF Crash, Shutdown, Gone, BookedInv
<1>5. CASE Start
  <2>1. ASSUME NEW k \in Tables, NEW r \in Runs \ old', holds'[k] = r
        PROVE  Booked(r)'
    <3>1. row[r].at = "open" /\ row[r] \in Row /\ row[r].stage # "OVER"
      BY <1>5, <2>1 DEF Start, HoldInv, farVars, ChildInv, ChildOf, TInv
    <3>2. row'[r].stage = row[r].stage /\ stuck'[r] = IF r \in Reclaimed THEN "retrying" ELSE "none"
      BY <1>5, <3>1 DEF Start, RowsClosed, Row
    <3>3. QED
      BY <3>1, <3>2 DEF Booked, Reclaimed, AbortAllowed, Row, Stages
  <2>2. QED
    BY <2>1 DEF BookedInv
<1>6. CASE \/ \E r \in Runs : Die(r)
           \/ \E t \in Tasks : AskDelete(t) \/ Edit(t)
           \/ DeleteTask \/ Stop \/ StopRuns \/ UNCHANGED vars
           \/ \E m \in 0..MaxNow : Evaluate(m)
           \/ DrainGone \/ DrainRefused \/ DrainWaits \/ DrainMayStart \/ Dispatched \/ LeaveDrain
  <2>1. UNCHANGED <<active, stuck, row, old, holds, sealed>> /\ (proc' # "down" => proc # "down")
    BY <1>6 DEF Die, AskDelete, Edit, DeleteTask, Stop, StopRuns, Evaluate, DrainGone, DrainRefused,
       DrainWaits, DrainMayStart, Dispatched, LeaveDrain, Answered, vars, runVars, farVars, procVars
  <2>2. QED
    BY <2>1 DEF BookedInv, Booked
<1>7. QED
  BY <1>1, <1>3, <1>4, <1>5, <1>6 DEF Next, Scheduler

-----------------------------------------------------------------------------
(* The scheduler's queue and its look at it *)

LEMMA GoOnView ==
    ASSUME TInv, GoOn, sched.view # <<>>
    PROVE  \/ sched' = Asleep
           \/ /\ sched' = [sched EXCEPT !.at = "draining", !.view = Tail(sched.view), !.run = NoRun]
              /\ sched'.at = "draining" /\ sched'.run = NoRun /\ sched'.view = Tail(sched.view)
              /\ Len(sched.view) > 1 /\ Tail(sched.view) # <<>>
              /\ sched.view \in Seq(Occurrences)
<1>1. sched \in Look /\ sched.view \in Seq(Occurrences) /\ Len(sched.view) \in Nat
  BY DEF TInv, Look
<1>2. ASSUME Len(sched.view) # 1 PROVE Len(sched.view) > 1 /\ Tail(sched.view) # <<>>
  <2> DEFINE v == sched.view
  <2>1. v \in Seq(Occurrences) /\ v # <<>> /\ Len(v) # 1 /\ Len(v) \in Nat
    BY <1>1, <1>2
  <2> HIDE DEF v
  <2>2. Len(v) # 0
    BY <2>1, EmptySeq, Zenon
  <2>3. Len(Tail(v)) = Len(v) - 1
    BY <2>1
  <2>4. Len(v) > 1 /\ Len(Tail(v)) # 0
    BY <2>1, <2>2, <2>3
  <2>5. Tail(v) # <<>>
    BY <2>4, EmptySeq, Zenon
  <2>6. QED
    BY <2>4, <2>5 DEF v
<1>3. Len(sched.view) # 1 =>
        sched' = [sched EXCEPT !.at = "draining", !.view = Tail(sched.view), !.run = NoRun]
  BY DEF GoOn
<1>4. QED
  BY <1>1, <1>2, <1>3 DEF GoOn, Look

Distinct(s) == \A i, j \in DOMAIN s : s[i].task = s[j].task => i = j

LEMMA QueueDistinct ==
    ASSUME TInv, Distinct(queue)
    PROVE  /\ \A m \in 0..MaxNow : Enqueue(m) => Distinct(queue)'
           /\ Dequeue => Distinct(queue)'
<1>1. ASSUME NEW m \in 0..MaxNow, Enqueue(m) PROVE Distinct(queue)'
  <2>1. PICK n \in Nat : \E g \in [1..n -> Tasks] :
             /\ \A i, j \in 1..n : g[i] = g[j] => i = j
             /\ \A i \in 1..n : CameDue(g[i], m) /\ MayQueue(g[i])
             /\ \A t \in Tasks : CameDue(t, m) /\ MayQueue(t) => \E i \in 1..n : g[i] = t
             /\ \A i \in 1..n : OccurrenceOf(g[i]) \in Occurrences
             /\ queue' = queue \o [i \in 1..n |-> OccurrenceOf(g[i])]
    BY <1>1, EnqueuedOnes
  <2>2. PICK g \in [1..n -> Tasks] :
             /\ \A i, j \in 1..n : g[i] = g[j] => i = j
             /\ \A i \in 1..n : MayQueue(g[i])
             /\ \A i \in 1..n : OccurrenceOf(g[i]) \in Occurrences
             /\ queue' = queue \o [i \in 1..n |-> OccurrenceOf(g[i])]
    BY <2>1
  <2>3. \A i \in 1..n : \A j \in DOMAIN queue : queue[j].task # g[i]
    BY <2>2 DEF MayQueue, Queued, Elements
  <2>4. queue \in Seq(Occurrences) /\ [i \in 1..n |-> OccurrenceOf(g[i])] \in Seq(Occurrences)
    BY <2>2 DEF TInv
  <2>5. /\ DOMAIN queue' = 1..(Len(queue) + n) /\ Len(queue) \in Nat /\ DOMAIN queue = 1..Len(queue)
        /\ \A i \in 1..Len(queue) : queue'[i].task = queue[i].task
        /\ \A i \in 1..(Len(queue) + n) : i > Len(queue) =>
              i - Len(queue) \in 1..n /\ queue'[i].task = g[i - Len(queue)]
    BY <2>2, <2>4 DEF OccurrenceOf
  <2>6. ASSUME NEW i \in DOMAIN queue', NEW j \in DOMAIN queue', queue'[i].task = queue'[j].task, i < j
        PROVE  FALSE
    <3>1. i \in 1..(Len(queue) + n) /\ j \in 1..(Len(queue) + n)
      BY <2>5, <2>6
    <3>2. j \in 1..Len(queue) => FALSE
      <4>1. ASSUME j \in 1..Len(queue) PROVE FALSE
        <5>1. i \in DOMAIN queue /\ j \in DOMAIN queue /\ queue[i].task = queue[j].task
          BY <2>5, <2>6, <3>1, <4>1
        <5>2. QED
          BY <2>6, <3>1, <5>1 DEF Distinct
      <4>2. QED
        BY <4>1
    <3>3. i \in 1..Len(queue) /\ j > Len(queue) => FALSE
      BY <2>3, <2>5, <2>6, <3>1
    <3>4. i > Len(queue) /\ j > Len(queue) => FALSE
      <4>1. ASSUME i > Len(queue), j > Len(queue) PROVE FALSE
        <5>1. i - Len(queue) \in 1..n /\ j - Len(queue) \in 1..n
              /\ g[i - Len(queue)] = g[j - Len(queue)]
          BY <2>5, <2>6, <3>1, <4>1
        <5>2. i - Len(queue) = j - Len(queue)
          BY <2>2, <5>1
        <5>3. QED
          BY <2>5, <2>6, <3>1, <5>2
      <4>2. QED
        BY <4>1
    <3>5. QED
      BY <2>5, <3>1, <3>2, <3>3, <3>4
  <2>7. \A i, j \in DOMAIN queue' : queue'[i].task = queue'[j].task => ~(i < j) /\ ~(j < i)
    BY <2>6
  <2>8. QED
    BY <2>5, <2>7 DEF Distinct
<1>2. ASSUME Dequeue PROVE Distinct(queue)'
  <2>1. PICK n \in Nat : \E g \in [1..n -> DOMAIN queue] :
             /\ \A i, j \in 1..n : g[i] = g[j] => i = j
             /\ queue' = [i \in 1..n |-> queue[g[i]]]
    BY <1>2, DequeuedOnes
  <2>2. QED
    BY <2>1 DEF Distinct
<1>3. QED
  BY <1>1, <1>2

LEMMA ViewInit == Init => ViewInv
BY DEF Init, ViewInv, Asleep

LEMMA ViewStep == ASSUME TInv, ViewInv, [Next]_vars PROVE ViewInv'
<1>0. /\ sched \in Look /\ sched.view \in Seq(Occurrences) /\ Len(sched.view) \in Nat
      /\ DOMAIN sched.view = 1..Len(sched.view)
      /\ Asleep.at = "asleep" /\ Asleep.view = <<>> /\ Asleep.run = NoRun
      /\ Distinct(queue) /\ Distinct(sched.view)
  BY DEF TInv, Look, Asleep, ViewInv, Distinct
<1>1. ASSUME NEW m \in 0..MaxNow, Evaluate(m)
      PROVE  ViewInv'
  <2>1. Distinct(queue)'
    BY <1>0, <1>1, QueueDistinct DEF Evaluate
  <2>2. CASE queue' = <<>>
    BY <1>0, <1>1, <2>1, <2>2 DEF Evaluate, ViewInv, Distinct
  <2>3. CASE queue' # <<>>
    <3>1. /\ sched'.at = "draining" /\ sched'.view = queue' /\ sched'.run = NoRun
      BY <1>1, <2>3 DEF Evaluate, Asleep
    <3>2. QED
      BY <2>1, <2>3, <3>1 DEF ViewInv, Distinct
  <2>4. QED
    BY <2>2, <2>3
<1>2. ASSUME GoOn, sched.view # <<>>, Distinct(queue)'
      PROVE  ViewInv'
  <2>1. CASE sched' = Asleep
    BY <1>0, <1>2, <2>1 DEF ViewInv, Distinct
  <2>2. CASE /\ sched'.at = "draining" /\ sched'.run = NoRun /\ sched'.view = Tail(sched.view)
             /\ Len(sched.view) > 1 /\ Tail(sched.view) # <<>>
    <3>1. /\ DOMAIN sched'.view = 1..(Len(sched.view) - 1)
          /\ \A i \in 1..(Len(sched.view) - 1) : sched'.view[i] = sched.view[i + 1]
      BY <1>0, <2>2
    <3>2. ASSUME NEW i \in DOMAIN sched'.view, NEW j \in DOMAIN sched'.view,
                 sched'.view[i].task = sched'.view[j].task
          PROVE  i = j
      <4>0. DOMAIN sched.view = 1..Len(sched.view) /\ Len(sched.view) \in Nat
        BY <1>0
      <4>1. i \in 1..(Len(sched.view) - 1) /\ j \in 1..(Len(sched.view) - 1)
        BY <3>1, <3>2
      <4>2. i + 1 \in DOMAIN sched.view /\ j + 1 \in DOMAIN sched.view
        BY <4>0, <4>1
      <4>3. sched.view[i + 1].task = sched.view[j + 1].task
        <5>1. sched'.view[i] = sched.view[i + 1] /\ sched'.view[j] = sched.view[j + 1]
          BY <3>1, <4>1
        <5> QED BY <3>2, <5>1
      <4>4. i + 1 = j + 1
        BY <1>0, <4>2, <4>3 DEF Distinct
      <4> QED BY <4>1, <4>4
    <3>3. QED
      BY <1>2, <2>2, <3>2 DEF ViewInv, Distinct
  <2>3. QED
    BY <1>2, <2>1, <2>2, GoOnView
<1>3. CASE DrainGone \/ DrainRefused \/ Dispatched
  <2>1. Dequeue /\ GoOn /\ sched.view # <<>>
    BY <1>3 DEF DrainGone, DrainRefused, Dispatched, Draining, Answered, ViewInv
  <2>2. QED
    BY <1>0, <1>2, <2>1, QueueDistinct
<1>4. CASE DrainWaits
  BY <1>0, <1>2, <1>4 DEF DrainWaits, Draining, ViewInv, Distinct
<1>5. CASE DrainMayStart \/ \E r \in Runs : StartScheduled(r)
  <2>1. \/ /\ sched' = [sched EXCEPT !.at = "starting"] /\ sched.at = "draining"
        \/ \E r \in Runs : sched' = [sched EXCEPT !.run = r] /\ sched.at = "starting"
    BY <1>5 DEF DrainMayStart, Draining, StartScheduled
  <2>2. sched'.at = "starting" /\ sched'.view = sched.view /\ sched.view # <<>>
    BY <1>0, <2>1 DEF Look, ViewInv
  <2>3. UNCHANGED queue
    BY <1>5 DEF DrainMayStart, StartScheduled
  <2>4. QED
    BY <1>0, <2>2, <2>3 DEF ViewInv, Distinct
<1>6. CASE LeaveDrain \/ Crash \/ Shutdown
  <2>1. sched' = Asleep /\ (queue' = queue \/ queue' = <<>>)
    BY <1>6 DEF LeaveDrain, Crash, Shutdown, Gone
  <2>2. QED
    BY <1>0, <2>1 DEF ViewInv, Distinct
<1>7. CASE \/ \E r \in Runs : \/ Child(r) \/ Die(r) \/ Supervise(r) \/ Release(r) \/ SettleStuck(r)
                              \/ \E t \in Tasks : StartManual(r, t)
           \/ \E t \in Tasks : AskDelete(t) \/ Edit(t)
           \/ DeleteTask \/ Start \/ Stop \/ StopRuns \/ UNCHANGED vars
  <2>1. UNCHANGED schedVars
    BY <1>7 DEF Child, Begin, Writes, Open, OpenRefused, Fail, FailHeld, Committing,
       Seal, FinishRun, End, Die, Supervise, Launch, LaunchFails, Hear, Reap, AbortOnBehalf, Book,
       Release, SettleStuck, StartManual, AskDelete, Edit, DeleteTask, Start, Stop, StopRuns, vars
  <2>2. QED
    BY <2>1 DEF schedVars, ViewInv
<1>8. QED
  BY <1>1, <1>3, <1>4, <1>5, <1>6, <1>7 DEF Next, Scheduler

-----------------------------------------------------------------------------
(* Minutes: what was looked at, what is planned and what was started *)

\* What a run was started for is settled when it is registered.
RowsKeep == \A r \in Runs : row'[r].task = row[r].task /\ row'[r].due = row[r].due

LEMMA RowsMove ==
    ASSUME TInv, [Next]_vars
    PROVE  RowsKeep \/ \E r \in Runs : StartScheduled(r) \/ \E t \in Tasks : StartManual(r, t)
<1>0. row \in [Runs -> Row]
  BY DEF TInv
<1>1. ASSUME NEW r \in Runs, Launch(r) \/ LaunchFails(r) \/ Hear(r) \/ Reap(r)
      PROVE  RowsKeep
  <2>1. \E at : row' = [row EXCEPT ![r].at = at] \/ row' = [row EXCEPT ![r].stage = kid[r].stage, ![r].at = at]
    BY <1>1 DEF Launch, LaunchFails, Hear, Reap
  <2>2. QED
    BY <1>0, <2>1 DEF RowsKeep, Row
<1>2. CASE Crash \/ Shutdown \/ Start
  BY <1>0, <1>2 DEF Crash, Shutdown, Start, RowsClosed, Row, RowsKeep
<1>3. CASE \/ \E r \in Runs : \/ Child(r) \/ Die(r) \/ Release(r) \/ SettleStuck(r)
                              \/ AbortOnBehalf(r) \/ Book(r)
           \/ \E t \in Tasks : AskDelete(t) \/ Edit(t)
           \/ \E m \in 0..MaxNow : Evaluate(m)
           \/ DrainGone \/ DrainRefused \/ DrainWaits \/ DrainMayStart \/ Dispatched \/ LeaveDrain
           \/ DeleteTask \/ Stop \/ StopRuns \/ UNCHANGED vars
  <2>1. (\E r \in Runs : Child(r)) => UNCHANGED row
    BY DEF Child, Begin, Writes, Open, OpenRefused, Fail, FailHeld, Committing, Seal, FinishRun,
       End, runVars
  <2>2. UNCHANGED row
    BY <1>3, <2>1 DEF Die, AbortOnBehalf, Book, Release, SettleStuck, AskDelete, Edit,
       Evaluate, DrainGone, DrainRefused, DrainWaits, DrainMayStart, Dispatched, LeaveDrain, Answered,
       DeleteTask, Stop, StopRuns, vars, runVars
  <2>3. QED
    BY <2>2 DEF RowsKeep
<1>4. QED
  BY <1>1, <1>2, <1>3 DEF Next, Supervise, Scheduler

\* No run was started for what waits, or for what the scheduler is about to look at.
Unstarted(s) ==
    \A i \in DOMAIN s, r \in Runs : row[r].task = s[i].task => row[r].due # s[i].due

LEMMA IdleUnstarted ==
    ASSUME TimeInv, sched.run = NoRun
    PROVE  Unstarted(queue) /\ Unstarted(sched.view)
<1>1. NoRun \notin Runs
  BY ControlAssumption DEF ControlAssumption
<1>2. QED
  BY <1>1 DEF TimeInv, Unstarted

LEMMA TimeFromUnstarted ==
    ASSUME \A t \in Tasks : entries'[t] # NoEntry => entries'[t].next > now',
           \A r \in Runs : row'[r].due <= now',
           \A i \in DOMAIN queue' : queue'[i].due <= now',
           \A i \in DOMAIN sched'.view : sched'.view[i].due <= now',
           Unstarted(queue)', Unstarted(sched.view)'
    PROVE  TimeInv'
BY DEF TimeInv, Unstarted

LEMMA TimeInit == Init => TimeInv
<1> SUFFICES ASSUME Init PROVE TimeInv
  OBVIOUS
<1>1. /\ \A t \in Tasks : entries[t] = NoEntry
      /\ \A r \in Runs : row[r].due = 0 /\ now = 0
      /\ queue = <<>> /\ sched.view = <<>>
  BY DEF Init, Asleep, NotDue
<1>2. QED
  BY <1>1 DEF TimeInv

LEMMA TimeLooked ==
    ASSUME TInv, FlightInv, ViewInv, TimeInv, NEW m \in 0..MaxNow, Evaluate(m)
    PROVE  TimeInv'
<1>0. /\ now \in Nat /\ m \in Nat /\ MaxNow \in Nat /\ now <= m /\ now' = m /\ row' = row
      /\ queue \in Seq(Occurrences) /\ Len(queue) \in Nat /\ DOMAIN queue = 1..Len(queue)
  BY ControlAssumption DEF ControlAssumption, Evaluate, TInv, runVars
<1>1. sched.run = NoRun
  BY DEF Evaluate, ViewInv, Asleep
<1>2. Unstarted(queue)
  BY <1>1, IdleUnstarted
<1>3. \A t \in Tasks : entries'[t] # NoEntry => entries'[t].next > now'
  BY <1>0, EntryTyped DEF Evaluate
<1>4. ASSUME NEW r \in Runs PROVE row'[r].due \in Nat /\ row'[r].due <= now /\ row'[r].due <= now'
  BY <1>0 DEF TInv, Row, TimeInv
<1>5. PICK n \in Nat : \E g \in [1..n -> Tasks] :
          /\ \A i \in 1..n : CameDue(g[i], m)
          /\ \A i \in 1..n : OccurrenceOf(g[i]) \in Occurrences
          /\ queue' = queue \o [i \in 1..n |-> OccurrenceOf(g[i])]
  BY EnqueuedOnes DEF Evaluate
<1>6. PICK g \in [1..n -> Tasks] :
          /\ \A i \in 1..n : CameDue(g[i], m)
          /\ \A i \in 1..n : OccurrenceOf(g[i]) \in Occurrences
          /\ queue' = queue \o [i \in 1..n |-> OccurrenceOf(g[i])]
  BY <1>5
<1>7. ASSUME NEW i \in 1..n
      PROVE  now < OccurrenceOf(g[i]).due /\ OccurrenceOf(g[i]).due <= m
  <2>1. g[i] \in Tasks /\ entries[g[i]].next <= m /\ entries[g[i]] # NoEntry
    <3>1. g[i] \in Tasks /\ entries[g[i]].next <= m
      BY <1>6 DEF CameDue
    <3>2. NoEntry.next = MaxNow + 1
      BY DEF NoEntry, Never
    <3>3. QED
      BY <1>0, <3>1, <3>2
  <2>2. QED
    BY <2>1 DEF OccurrenceOf, TimeInv
<1>8. [i \in 1..n |-> OccurrenceOf(g[i])] \in Seq(Occurrences)
  BY <1>6
<1>9. /\ DOMAIN queue' = 1..(Len(queue) + n)
      /\ \A i \in 1..Len(queue) : queue'[i] = queue[i]
      /\ \A i \in 1..(Len(queue) + n) : i > Len(queue) =>
            i - Len(queue) \in 1..n /\ queue'[i] = OccurrenceOf(g[i - Len(queue)])
  BY <1>0, <1>6, <1>8
<1>10. ASSUME NEW i \in DOMAIN queue'
       PROVE  /\ queue'[i].due <= now'
              /\ \A r \in Runs : row'[r].task = queue'[i].task => row'[r].due # queue'[i].due
  <2>1. CASE i \in DOMAIN queue
    <3>1. queue'[i] = queue[i] /\ queue[i].due \in Nat /\ queue[i].due <= now
      <4>1. queue[i] \in Occurrences /\ queue'[i] = queue[i]
        BY <1>0, <1>9, <2>1
      <4>2. queue[i].due \in Nat
        BY <1>0, <4>1 DEF Occurrences
      <4>3. QED
        BY <2>1, <4>1, <4>2 DEF TimeInv
    <3>2. QED
      BY <1>0, <1>2, <2>1, <3>1 DEF Unstarted
  <2>2. CASE i \notin DOMAIN queue
    <3>1. i - Len(queue) \in 1..n /\ queue'[i] = OccurrenceOf(g[i - Len(queue)])
      BY <1>0, <1>9, <2>2
    <3>2. now < queue'[i].due /\ queue'[i].due <= m /\ queue'[i].due \in Nat
      BY <1>6, <1>7, <3>1 DEF Occurrences
    <3>3. QED
      BY <1>0, <1>4, <3>2
  <2>3. QED
    BY <2>1, <2>2
<1>11. sched'.view = queue' \/ sched'.view = <<>>
  BY DEF Evaluate, Asleep
<1>12. Unstarted(queue)' /\ Unstarted(sched.view)'
  BY <1>10, <1>11 DEF Unstarted
<1>13. \A i \in DOMAIN sched'.view : sched'.view[i].due <= now'
  BY <1>10, <1>11
<1>14. QED
  BY <1>3, <1>4, <1>10, <1>12, <1>13, TimeFromUnstarted

LEMMA TailOnes ==
    ASSUME TInv, GoOn, sched.view # <<>>
    PROVE  \A i \in DOMAIN sched'.view :
             /\ i + 1 \in DOMAIN sched.view /\ i + 1 # 1 /\ sched'.view[i] = sched.view[i + 1]
<1>0. sched.view \in Seq(Occurrences) /\ Asleep.view = <<>>
  BY DEF TInv, Look, Asleep
<1>1. sched' = Asleep \/ (sched'.view = Tail(sched.view) /\ Len(sched.view) > 1)
  BY GoOnView
<1>2. ASSUME NEW i \in DOMAIN sched'.view
      PROVE  /\ i + 1 \in DOMAIN sched.view /\ i + 1 # 1 /\ sched'.view[i] = sched.view[i + 1]
  <2>1. sched'.view = Tail(sched.view) /\ Len(sched.view) > 1 /\ Len(sched.view) \in Nat
    BY <1>0, <1>1, <1>2
  <2>2. i \in 1..(Len(sched.view) - 1) /\ DOMAIN sched.view = 1..Len(sched.view)
    BY <1>0, <2>1
  <2>3. QED
    BY <1>0, <2>1, <2>2
<1>3. QED
  BY <1>2

LEMMA TimeAnswered ==
    ASSUME TInv, ViewInv, TimeInv, Answered, sched.view # <<>>
    PROVE  TimeInv'
<1>0. UNCHANGED <<now, entries, row>>
  BY DEF Answered, runVars
<1>1. PICK n \in Nat : \E g \in [1..n -> DOMAIN queue] :
          /\ \A i \in 1..n : queue[g[i]].task # Current.task
          /\ queue' = [i \in 1..n |-> queue[g[i]]]
  BY DequeuedOnes DEF Answered
<1>2. PICK g \in [1..n -> DOMAIN queue] :
          /\ \A i \in 1..n : queue[g[i]].task # Current.task
          /\ queue' = [i \in 1..n |-> queue[g[i]]]
  BY <1>1
<1>3. Unstarted(queue)' /\ \A i \in DOMAIN queue' : queue'[i].due <= now'
  BY <1>0, <1>2 DEF Unstarted, TimeInv
<1>4. Unstarted(sched.view)' /\ \A i \in DOMAIN sched'.view : sched'.view[i].due <= now'
  BY <1>0, TailOnes DEF Answered, Unstarted, TimeInv
<1>5. QED
  BY <1>0, <1>3, <1>4, TimeFromUnstarted DEF TimeInv

LEMMA TimeStarted ==
    ASSUME TInv, ViewInv, TimeInv, NEW r \in Runs, StartScheduled(r)
    PROVE  TimeInv' /\ Unstarted(sched.view)
<1>0. /\ UNCHANGED <<now, entries, queue>>
      /\ sched'.view = sched.view /\ sched'.run = r /\ sched.run = NoRun
      /\ sched.view \in Seq(Occurrences) /\ sched.view # <<>>
  BY DEF StartScheduled, TInv, Look, ViewInv
<1>1. Unstarted(queue) /\ Unstarted(sched.view)
  BY <1>0, IdleUnstarted
<1>2. 1 \in DOMAIN sched.view /\ Current = sched.view[1] /\ Current' = Current
  BY <1>0 DEF Current
<1>3. /\ row'[r].task = Current.task /\ row'[r].due = Current.due
      /\ \A q \in Runs : q # r => row'[q] = row[q]
  BY DEF StartScheduled, Register, TInv, Row
<1>4. \A q \in Runs : row'[q].due <= now'
  BY <1>0, <1>2, <1>3 DEF TimeInv
<1>5. \A i \in DOMAIN queue, q \in Runs :
        row'[q].task = queue[i].task /\ row'[q].due = queue[i].due =>
            q = r /\ queue[i].task = Current.task
  BY <1>1, <1>3 DEF Unstarted
<1>6. \A i \in DOMAIN sched.view, q \in Runs :
        row'[q].task = sched.view[i].task /\ row'[q].due = sched.view[i].due => q = r /\ i = 1
  BY <1>1, <1>2, <1>3 DEF Unstarted, ViewInv
<1>7. QED
  BY <1>0, <1>1, <1>2, <1>4, <1>5, <1>6 DEF TimeInv

\* A start by hand is for no minute, and no occurrence is due at none.
LEMMA TimeByHand ==
    ASSUME TInv, TimeInv, NEW r \in Runs, NEW t \in Tasks, StartManual(r, t)
    PROVE  TimeInv'
<1>0. /\ UNCHANGED <<now, entries, queue, sched>> /\ now \in Nat
      /\ queue \in Seq(Occurrences) /\ sched.view \in Seq(Occurrences)
  BY DEF StartManual, schedVars, TInv, Look
<1>1. /\ row'[r].task = t /\ row'[r].due = 0 /\ \A q \in Runs : q # r => row'[q] = row[q]
  BY DEF StartManual, Register, NotDue, TInv, Row
<1>2. ASSUME NEW s \in Seq(Occurrences), NEW i \in DOMAIN s PROVE s[i].due # 0
  <2>1. s[i] \in Occurrences
    OBVIOUS
  <2>2. s[i].due \in 1..MaxNow /\ MaxNow \in Nat
    BY <2>1, ControlAssumption DEF Occurrences, ControlAssumption
  <2>3. QED
    BY <2>2
<1>3. \A i \in DOMAIN queue : queue[i].due # 0
  BY <1>0, <1>2
<1>4. \A i \in DOMAIN sched.view : sched.view[i].due # 0
  BY <1>0, <1>2
<1>5. QED
  BY <1>0, <1>1, <1>3, <1>4 DEF TimeInv, Current

LEMMA TimeStep == ASSUME TInv, FlightInv, ViewInv, TimeInv, [Next]_vars PROVE TimeInv'
<1>1. CASE \E m \in 0..MaxNow : Evaluate(m)
  BY <1>1, TimeLooked
<1>2. CASE DrainGone \/ DrainRefused \/ Dispatched
  <2>1. Answered /\ sched.view # <<>>
    BY <1>2 DEF DrainGone, DrainRefused, Dispatched, Draining, ViewInv
  <2>2. QED
    BY <2>1, TimeAnswered
<1>3. CASE \E r \in Runs : StartScheduled(r) \/ \E t \in Tasks : StartManual(r, t)
  BY <1>3, TimeStarted, TimeByHand
<1>4. CASE DrainWaits \/ LeaveDrain
  <2>1. /\ UNCHANGED <<now, entries, queue, row>>
        /\ sched.run = NoRun /\ (sched' = Asleep \/ (GoOn /\ sched.view # <<>>))
    BY <1>4 DEF DrainWaits, LeaveDrain, Draining, ViewInv, runVars
  <2>2. Unstarted(queue) /\ Unstarted(sched.view) /\ Asleep.view = <<>>
    BY <2>1, IdleUnstarted DEF Asleep
  <2>3. Unstarted(sched.view)' /\ \A i \in DOMAIN sched'.view : sched'.view[i].due <= now'
    BY <2>1, <2>2, TailOnes DEF Unstarted, TimeInv
  <2>4. Unstarted(queue)'
    BY <2>1, <2>2 DEF Unstarted
  <2>5. QED
    BY <2>1, <2>3, <2>4, TimeFromUnstarted DEF TimeInv
<1>5. CASE Crash \/ Shutdown
  <2>1. /\ now' = now /\ queue' = <<>> /\ sched'.view = <<>>
        /\ \A t \in Tasks : entries'[t] = NoEntry
    BY <1>5 DEF Crash, Shutdown, Gone, Asleep
  <2>2. RowsKeep
    BY <1>5, RowsMove DEF Crash, Shutdown, Gone, StartScheduled, StartManual, procVars
  <2>3. QED
    BY <2>1, <2>2 DEF TimeInv, RowsKeep
<1>6. CASE /\ UNCHANGED <<now, schedVars>> \/ (UNCHANGED <<now, entries, queue>> /\ DrainMayStart)
           /\ RowsKeep
  <2>1. UNCHANGED <<now, entries, queue>> /\ sched'.view = sched.view /\ sched'.run = sched.run
    BY <1>6 DEF schedVars, DrainMayStart, TInv, Look
  <2>2. QED
    BY <1>6, <2>1 DEF TimeInv, RowsKeep, Current
<1>7. CASE \/ \E r \in Runs : Child(r) \/ Die(r) \/ Supervise(r) \/ Release(r) \/ SettleStuck(r)
           \/ \E t \in Tasks : AskDelete(t) \/ Edit(t)
           \/ DeleteTask \/ Start \/ Stop \/ StopRuns \/ UNCHANGED vars
  <2>1. UNCHANGED <<now, schedVars>>
    BY <1>7 DEF Child, Begin, Writes, Open, OpenRefused, Fail, FailHeld, Committing,
       Seal, FinishRun, End, Die, Supervise, Launch, LaunchFails, Hear, Reap, AbortOnBehalf, Book,
       Release, SettleStuck, AskDelete, Edit, DeleteTask, Start, Stop, StopRuns, vars
  <2>2. QED
    BY <1>3, <1>6, <2>1, RowsMove
<1>8. QED
  BY <1>1, <1>2, <1>3, <1>4, <1>5, <1>6, <1>7, RowsMove DEF Next, Scheduler, DrainMayStart

-----------------------------------------------------------------------------
(* What the entries point at *)

\* Clock, entries and queue move when the scheduler looks; otherwise occurrences leave
\* the queue, or all of it goes with the process.
LEMMA LooksOnly ==
    ASSUME TInv, ViewInv, [Next]_vars
    PROVE  \/ \E m \in 0..MaxNow : Evaluate(m)
           \/ /\ UNCHANGED <<now, entries>>
              /\ \/ Answered /\ sched.view # <<>>
                 \/ /\ UNCHANGED queue
                    /\ (GoOn /\ sched.view # <<>>) \/ sched' = Asleep \/ sched'.view = sched.view
           \/ /\ now' = now /\ entries' = [t \in Tasks |-> NoEntry]
              /\ queue' = <<>> /\ sched' = Asleep
<1>1. CASE \/ \E r \in Runs : \/ Child(r) \/ Die(r) \/ Supervise(r) \/ Release(r) \/ SettleStuck(r)
                              \/ \E t \in Tasks : StartManual(r, t)
           \/ \E t \in Tasks : AskDelete(t) \/ Edit(t)
           \/ DeleteTask \/ Start \/ Stop \/ StopRuns \/ UNCHANGED vars
  <2>1. UNCHANGED <<now, schedVars>>
    BY <1>1 DEF Child, Begin, Writes, Open, OpenRefused, Fail, FailHeld, Committing,
       Seal, FinishRun, End, Die, Supervise, Launch, LaunchFails, Hear, Reap, AbortOnBehalf, Book,
       Release, SettleStuck, StartManual, AskDelete, Edit, DeleteTask, Start, Stop, StopRuns, vars
  <2>2. QED
    BY <2>1 DEF schedVars
<1>2. CASE DrainGone \/ DrainRefused \/ Dispatched
  BY <1>2 DEF DrainGone, DrainRefused, Dispatched, Draining, Answered, ViewInv
<1>3. CASE DrainWaits \/ LeaveDrain
  BY <1>3 DEF DrainWaits, LeaveDrain, Draining, ViewInv
<1>4. CASE DrainMayStart \/ \E r \in Runs : StartScheduled(r)
  BY <1>4 DEF DrainMayStart, StartScheduled, TInv, Look
<1>5. CASE Crash \/ Shutdown
  BY <1>5 DEF Crash, Shutdown, Gone
<1>6. QED
  BY <1>1, <1>2, <1>3, <1>4, <1>5 DEF Next, Scheduler

LEMMA SeenInit == Init => SeenInv
BY DEF Init, Asleep, SeenInv

LEMMA SeenStep == ASSUME TInv, ViewInv, SeenInv, [Next]_vars PROVE SeenInv'
<1>0. Asleep.view = <<>>
  BY DEF Asleep
<1>1. CASE \E m \in 0..MaxNow : Evaluate(m)
  BY <1>1 DEF Evaluate, Asleep, SeenInv
<1>2. CASE Answered /\ sched.view # <<>>
  <2>0. sched.view \in Seq(Occurrences) /\ sched.view # <<>>
    BY <1>2 DEF TInv, Look
  <2>1. 1 \in DOMAIN sched.view /\ Current = sched.view[1]
    BY <2>0 DEF Current
  <2>2. PICK n \in Nat : \E g \in [1..n -> DOMAIN queue] :
            /\ \A j \in DOMAIN queue : queue[j].task # Current.task => \E i \in 1..n : g[i] = j
            /\ queue' = [i \in 1..n |-> queue[g[i]]]
    BY <1>2, DequeuedOnes DEF Answered
  <2>3. PICK g \in [1..n -> DOMAIN queue] :
            /\ \A j \in DOMAIN queue : queue[j].task # Current.task => \E i \in 1..n : g[i] = j
            /\ queue' = [i \in 1..n |-> queue[g[i]]]
    BY <2>2
  <2>4. ASSUME NEW i \in DOMAIN sched'.view PROVE \E j \in DOMAIN queue' : queue'[j] = sched'.view[i]
    <3>1. i + 1 \in DOMAIN sched.view /\ i + 1 # 1 /\ sched'.view[i] = sched.view[i + 1]
      BY <1>2, <2>4, TailOnes DEF Answered
    <3>2. sched.view[i + 1].task # Current.task
      BY <2>1, <3>1 DEF ViewInv
    <3>3. PICK j \in DOMAIN queue : queue[j] = sched.view[i + 1]
      BY <3>1 DEF SeenInv
    <3>4. PICK k \in 1..n : g[k] = j
      BY <2>3, <3>2, <3>3
    <3>5. QED
      BY <2>3, <3>1, <3>3, <3>4
  <2>5. QED
    BY <2>4 DEF SeenInv
<1>3. CASE UNCHANGED queue /\ GoOn /\ sched.view # <<>>
  BY <1>3, TailOnes DEF SeenInv
<1>4. CASE sched' = Asleep
  BY <1>0, <1>4 DEF SeenInv
<1>5. CASE UNCHANGED queue /\ sched'.view = sched.view
  BY <1>5 DEF SeenInv
<1>6. QED
  BY <1>1, <1>2, <1>3, <1>4, <1>5, LooksOnly

LEMMA EntryInit == Init => EntryInv
BY DEF Init, EntryInv

LEMMA EntryStep == ASSUME TInv, ViewInv, EntryInv, [Next]_vars PROVE EntryInv'
<1>1. ASSUME NEW m \in 0..MaxNow, Evaluate(m), NEW t \in Tasks, entries'[t] # NoEntry
      PROVE  entries'[t].cron \in Crons /\ entries'[t].next = NextAfter(entries'[t].cron, now')
  <2>1. now' = m /\ now \in 0..MaxNow /\ now <= m /\ entries'[t] = EntryAfter(t, m)
    BY <1>1 DEF Evaluate, TInv
  <2>2. tasks[t].cron \in Crons
    BY DEF TInv, TaskRow
  <2>3. CASE entries'[t] = [cron |-> tasks[t].cron, next |-> NextAfter(tasks[t].cron, m)]
    BY <2>1, <2>2, <2>3
  <2>4. CASE entries'[t] = entries[t] /\ entries[t].next > m
    <3>1. entries[t].cron \in Crons /\ entries[t].next = NextAfter(entries[t].cron, now)
      BY <1>1, <2>4 DEF EntryInv
    <3>2. NextAfter(entries[t].cron, m) = NextAfter(entries[t].cron, now)
      BY <2>1, <2>4, <3>1, NextStays
    <3>3. QED
      BY <2>1, <2>4, <3>1, <3>2
  <2>5. QED
    BY <1>1, <2>1, <2>3, <2>4 DEF EntryAfter
<1>2. QED
  BY <1>1, LooksOnly DEF EntryInv

\* ScheduleState::observe: what a task is owed at minute m is the first minute that it
\* missed since the last look, if it missed one.
LEMMA DueIsFirst ==
    ASSUME TInv, EntryInv, NEW m \in 0..MaxNow, now <= m, now' = m, NEW t \in Tasks, Known(t)
    PROVE  /\ CameDue(t, m) => entries[t].next \in FirstMissed(t)
           /\ \A f \in FirstMissed(t) : CameDue(t, m) /\ f = entries[t].next
<1>1. /\ MaxNow \in Nat /\ Never = MaxNow + 1 /\ "none" \notin Crons
      /\ tasks[t].cron \in Crons /\ now \in 0..MaxNow
      /\ Fires[tasks[t].cron] \subseteq 1..MaxNow
  BY ControlAssumption DEF ControlAssumption, Never, TInv, TaskRow
<1>2. entries[t].cron = tasks[t].cron /\ entries[t] # NoEntry
  BY <1>1 DEF Known, NoEntry
<1> DEFINE x == NextAfter(tasks[t].cron, now)
<1>3. entries[t].next = x
  BY <1>2 DEF EntryInv
<1>4. /\ x \in 1..Never /\ x > now /\ (x = Never \/ x \in Fires[tasks[t].cron])
      /\ \A f \in Fires[tasks[t].cron] : f > now => x <= f
  BY <1>1, NextIsFirst
<1> HIDE DEF x
<1>5. CASE x <= m
  <2>1. x \in Fires[tasks[t].cron]
    BY <1>1, <1>4, <1>5
  <2>2. x \in Missed(t) /\ \A f \in Missed(t) : f \in Nat /\ x <= f
    BY <1>1, <1>4, <1>5, <2>1 DEF Missed
  <2>3. \A f \in FirstMissed(t) : f = x
    BY <2>2 DEF FirstMissed
  <2>4. QED
    BY <1>3, <1>5, <2>2, <2>3 DEF FirstMissed, CameDue
<1>6. CASE ~(x <= m)
  <2>1. Missed(t) = {}
    BY <1>1, <1>4, <1>6 DEF Missed
  <2>2. QED
    BY <1>3, <1>6, <2>1 DEF FirstMissed, CameDue
<1>7. QED
  BY <1>5, <1>6

-----------------------------------------------------------------------------
(* No occurrence is started twice *)

LEMMA StartedInit == Init => Started
BY DEF Init, Started

LEMMA StartedStep == ASSUME TInv, ViewInv, TimeInv, Started, [Next]_vars PROVE Started'
<1>1. CASE RowsKeep
  BY <1>1 DEF RowsKeep, Started
<1>2. ASSUME NEW r \in Runs, StartScheduled(r)
      PROVE  Started'
  <2>1. sched.view \in Seq(Occurrences) /\ sched.view # <<>>
    BY <1>2 DEF StartScheduled, TInv, Look, ViewInv
  <2>2. 1 \in DOMAIN sched.view /\ Current = sched.view[1]
    BY <2>1 DEF Current
  <2>3. /\ row'[r].task = Current.task /\ row'[r].due = Current.due
        /\ \A q \in Runs : q # r => row'[q] = row[q]
    BY <1>2 DEF StartScheduled, Register, TInv, Row
  <2>4. \A q \in Runs : row[q].task = Current.task => row[q].due # Current.due
    BY <1>2, <2>2, TimeStarted DEF Unstarted
  <2>5. QED
    BY <2>3, <2>4 DEF Started
<1>3. ASSUME NEW r \in Runs, NEW t \in Tasks, StartManual(r, t)
      PROVE  Started'
  <2>1. row'[r].due = NotDue /\ \A q \in Runs : q # r => row'[q] = row[q]
    BY <1>3 DEF StartManual, Register, TInv, Row
  <2>2. QED
    BY <2>1 DEF Started
<1>4. QED
  BY <1>1, <1>2, <1>3, RowsMove

-----------------------------------------------------------------------------
(* The scheduler keeps to the quotas *)

LEMMA QuotaNumbers == \A a \in Agents : Quota[a] \in Nat /\ Quota[a] > 0
BY ControlAssumption DEF ControlAssumption, Agents

LEMMA CurrentTyped ==
    ASSUME TInv, ViewInv, sched.at # "asleep"
    PROVE  Current \in Occurrences /\ Current.task \in Tasks /\ AgentOf[Current.task] \in Agents
<1>1. sched.view \in Seq(Occurrences) /\ sched.view # <<>>
  BY DEF TInv, Look, ViewInv
<1>2. Current \in Occurrences
  BY <1>1 DEF Current
<1>3. QED
  BY <1>2 DEF Occurrences, Agents

LEMMA ClockCounts ==
    ASSUME IsFiniteSet(Flying), NEW a
    PROVE  /\ IsFiniteSet(ByClock(a)) /\ Cardinality(ByClock(a)) \in Nat
           /\ Cardinality(InFlight(a)) \in Nat
           /\ Cardinality(ByClock(a)) <= Cardinality(InFlight(a))
<1>1. InFlight(a) \subseteq Flying /\ ByClock(a) \subseteq InFlight(a)
  BY DEF InFlight, ByClock, Flying
<1>2. IsFiniteSet(InFlight(a))
  BY <1>1, FS_Subset, Zenon
<1>3. IsFiniteSet(ByClock(a)) /\ Cardinality(ByClock(a)) <= Cardinality(InFlight(a))
  BY <1>1, <1>2, FS_Subset, Zenon
<1>4. QED
  BY <1>2, <1>3, FS_CardinalityType, Zenon

\* A step that starts no run by the clock: counts can only fall.
LEMMA QuotaKept ==
    ASSUME TInv, ViewInv, QuotaInv, IsFiniteSet(Flying)',
           \A r \in Runs : active'[r].at # "free" /\ row'[r].due # NotDue =>
               /\ active[r].at # "free" /\ active'[r].task = active[r].task
               /\ row'[r].due = row[r].due,
           sched'.at = "starting" /\ sched'.run = NoRun =>
               sched.at = "starting" /\ sched.run = NoRun /\ sched'.view = sched.view
    PROVE  QuotaInv'
<1>1. ASSUME NEW a \in Agents
      PROVE  /\ Cardinality(ByClock(a)') \in Nat /\ Cardinality(ByClock(a)) \in Nat
             /\ Cardinality(ByClock(a)') <= Cardinality(ByClock(a))
  <2>1. ByClock(a)' \subseteq ByClock(a)
    BY DEF ByClock, InFlight
  <2>2. IsFiniteSet(ByClock(a))
    BY ClockCounts, Zenon DEF QuotaInv
  <2>3. IsFiniteSet(ByClock(a)') /\ Cardinality(ByClock(a)') <= Cardinality(ByClock(a))
    BY <2>1, <2>2, FS_Subset, Zenon
  <2>4. QED
    BY <2>2, <2>3, FS_CardinalityType, Zenon
<1>2. \A a \in Agents : Cardinality(ByClock(a)') <= Quota[a]
  BY <1>1, QuotaNumbers DEF QuotaInv
<1>3. ASSUME sched'.at = "starting", sched'.run = NoRun, NEW a \in Agents, a = AgentOf[Current'.task]
      PROVE  Cardinality(ByClock(a)') < Quota[a]
  <2>1. Current' = Current /\ Cardinality(ByClock(a)) < Quota[a]
    BY <1>3 DEF Current, QuotaInv
  <2>2. QED
    BY <1>1, <1>3, <2>1, QuotaNumbers
<1>4. QED
  BY <1>2, <1>3 DEF QuotaInv, Agents

LEMMA QuotaStarted ==
    ASSUME TInv, FlightInv, ViewInv, QuotaInv, NEW r \in Runs, StartScheduled(r)
    PROVE  QuotaInv'
<1>0. sched'.run = r /\ r # NoRun /\ sched.run = NoRun /\ sched.at = "starting"
  BY ControlAssumption DEF ControlAssumption, StartScheduled, TInv, Look
<1>1. /\ active[r].at = "free" /\ active'[r].task = Current.task
      /\ \A q \in Runs : q # r => active'[q] = active[q] /\ row'[q] = row[q]
  BY DEF StartScheduled, Register, TInv, FlightInv
<1>2. IsFiniteSet(Flying)'
  <2>1. Flying' \subseteq Flying \cup {r}
    BY <1>1 DEF Flying
  <2>2. IsFiniteSet(Flying \cup {r})
    BY FS_AddElement DEF QuotaInv
  <2>3. QED
    BY <2>1, <2>2, FS_Subset, Zenon
<1>3. ASSUME NEW a \in Agents
      PROVE  Cardinality(ByClock(a)') <= Quota[a]
  <2>1. /\ IsFiniteSet(ByClock(a)) /\ Cardinality(ByClock(a)) \in Nat
        /\ Cardinality(ByClock(a)) <= Quota[a] /\ Quota[a] \in Nat
    BY ClockCounts, QuotaNumbers DEF QuotaInv
  <2>2. CASE a = AgentOf[Current.task]
    <3>1. ByClock(a)' \subseteq ByClock(a) \cup {r}
      BY <1>1 DEF ByClock, InFlight
    <3>2. r \notin ByClock(a)
      BY <1>1 DEF ByClock, InFlight
    <3>3. /\ IsFiniteSet(ByClock(a) \cup {r})
          /\ Cardinality(ByClock(a) \cup {r}) = Cardinality(ByClock(a)) + 1
      BY <2>1, <3>2, FS_AddElement
    <3>4. IsFiniteSet(ByClock(a)') /\ Cardinality(ByClock(a)') <= Cardinality(ByClock(a) \cup {r})
      BY <3>1, <3>3, FS_Subset, Zenon
    <3>5. Cardinality(ByClock(a)') \in Nat
      BY <3>4, FS_CardinalityType, Zenon
    <3>6. Cardinality(ByClock(a)) < Quota[a]
      BY <1>0, <2>2 DEF QuotaInv
    <3>7. QED
      BY <2>1, <3>3, <3>4, <3>5, <3>6
  <2>3. CASE a # AgentOf[Current.task]
    <3>1. ByClock(a)' \subseteq ByClock(a)
      BY <1>1, <2>3 DEF ByClock, InFlight
    <3>2. IsFiniteSet(ByClock(a)') /\ Cardinality(ByClock(a)') <= Cardinality(ByClock(a))
      BY <2>1, <3>1, FS_Subset, Zenon
    <3>3. Cardinality(ByClock(a)') \in Nat
      BY <3>2, FS_CardinalityType, Zenon
    <3>4. QED
      BY <2>1, <3>2, <3>3
  <2>4. QED
    BY <2>2, <2>3
<1>4. QED
  BY <1>0, <1>2, <1>3 DEF QuotaInv, Agents

LEMMA QuotaByHand ==
    ASSUME TInv, FlightInv, ViewInv, QuotaInv, NEW r \in Runs, NEW t \in Tasks, StartManual(r, t)
    PROVE  QuotaInv'
<1>1. /\ row'[r].due = NotDue /\ UNCHANGED sched
      /\ \A q \in Runs : q # r => active'[q] = active[q] /\ row'[q] = row[q]
  BY DEF StartManual, Register, TInv, Row, schedVars
<1>2. IsFiniteSet(Flying)'
  <2>1. Flying' \subseteq Flying \cup {r}
    BY <1>1 DEF Flying
  <2>2. IsFiniteSet(Flying \cup {r})
    BY FS_AddElement DEF QuotaInv
  <2>3. QED
    BY <2>1, <2>2, FS_Subset, Zenon
<1>3. QED
  BY <1>1, <1>2, QuotaKept

LEMMA QuotaInit == Init => QuotaInv
<1> SUFFICES ASSUME Init PROVE QuotaInv
  OBVIOUS
<1>1. Flying = {} /\ sched.at = "asleep"
  BY DEF Init, Flying, Free, Asleep
<1>2. \A a : ByClock(a) = {}
  BY DEF Init, ByClock, InFlight, Free
<1>3. QED
  BY <1>1, <1>2, FS_EmptySet, QuotaNumbers DEF QuotaInv

LEMMA FlyingShrinks ==
    ASSUME QuotaInv, \A r \in Runs : active'[r].at # "free" => active[r].at # "free"
    PROVE  IsFiniteSet(Flying)'
<1>1. Flying' \subseteq Flying
  BY DEF Flying
<1>2. QED
  BY <1>1, FS_Subset, Zenon DEF QuotaInv

LEMMA QuotaStep ==
    ASSUME TInv, FlightInv, ViewInv, QuotaInv, [Next]_vars
    PROVE  QuotaInv'
<1>1. CASE \E r \in Runs : StartScheduled(r) \/ \E t \in Tasks : StartManual(r, t)
  BY <1>1, QuotaStarted, QuotaByHand
<1>2. CASE DrainMayStart
  <2>1. /\ UNCHANGED <<active, row>> /\ sched.at = "draining" /\ Current.task \in Tasks
        /\ QuotaFree(Current.task) /\ Current' = Current
    BY <1>2, CurrentTyped DEF DrainMayStart, Draining, runVars, TInv, Look, Current
  <2>2. ASSUME NEW a \in Agents
        PROVE  /\ Cardinality(ByClock(a)') <= Quota[a]
               /\ a = AgentOf[Current'.task] => Cardinality(ByClock(a)') < Quota[a]
    <3>1. ByClock(a)' = ByClock(a)
      BY <2>1 DEF ByClock, InFlight
    <3>2. QED
      BY <2>1, <3>1, ClockCounts, QuotaNumbers DEF QuotaInv, QuotaFree
  <2>3. IsFiniteSet(Flying)'
    BY <2>1, FlyingShrinks
  <2>4. QED
    BY <2>2, <2>3 DEF QuotaInv, Agents
<1>3. CASE /\ \A r \in Runs : active'[r].at # "free" =>
                active[r].at # "free" /\ active'[r].task = active[r].task
           /\ RowsKeep
           /\ sched' = sched \/ sched'.at # "starting"
  BY <1>3, FlyingShrinks, QuotaKept DEF RowsKeep
<1>4. ASSUME NEW r \in Runs, Launch(r) \/ LaunchFails(r) \/ Hear(r) \/ Reap(r) \/ AbortOnBehalf(r) \/ Book(r)
      PROVE  /\ \A q \in Runs : active'[q].at # "free" =>
                   active[q].at # "free" /\ active'[q].task = active[q].task
             /\ UNCHANGED sched
  BY <1>4 DEF Launch, LaunchFails, Hear, Reap, AbortOnBehalf, Book, Supervising, TInv, Flight, Free,
     schedVars
<1>5. CASE Crash \/ Shutdown
  <2>1. \A r \in Runs : active'[r].at = "free"
    BY <1>5 DEF Crash, Shutdown, Gone, Free
  <2>2. sched'.at # "starting"
    BY <1>5 DEF Crash, Shutdown, Gone, Asleep
  <2>3. QED
    BY <1>1, <1>3, <2>1, <2>2, RowsMove
<1>6. ASSUME \/ \E r \in Runs : Child(r) \/ Die(r) \/ Release(r) \/ SettleStuck(r)
             \/ \E t \in Tasks : AskDelete(t) \/ Edit(t)
             \/ DeleteTask \/ Start \/ Stop \/ StopRuns \/ UNCHANGED vars
      PROVE  UNCHANGED <<active, sched>>
  BY <1>6 DEF Child, Begin, Writes, Open, OpenRefused, Fail, FailHeld, Committing,
     Seal, FinishRun, End, Die, Release, SettleStuck, AskDelete, Edit, DeleteTask, Start, Stop,
     StopRuns, vars, runVars, schedVars
<1>7. ASSUME \/ \E m \in 0..MaxNow : Evaluate(m)
             \/ DrainGone \/ DrainRefused \/ DrainWaits \/ Dispatched \/ LeaveDrain
      PROVE  UNCHANGED active /\ sched'.at # "starting"
  <2>1. UNCHANGED active
    BY <1>7 DEF Evaluate, DrainGone, DrainRefused, DrainWaits, Dispatched, LeaveDrain, Answered, runVars
  <2>2. DrainGone \/ DrainRefused \/ DrainWaits \/ Dispatched => GoOn /\ sched.view # <<>>
    BY DEF DrainGone, DrainRefused, DrainWaits, Dispatched, Draining, Answered, ViewInv
  <2>3. GoOn /\ sched.view # <<>> => sched'.at # "starting"
    BY GoOnView DEF Asleep
  <2>4. \A m \in 0..MaxNow : Evaluate(m) => sched'.at # "starting"
    BY DEF Evaluate, Asleep
  <2>5. LeaveDrain => sched'.at # "starting"
    BY DEF LeaveDrain, Asleep
  <2>6. QED
    BY <1>7, <2>1, <2>2, <2>3, <2>4, <2>5
<1>8. QED
  BY <1>1, <1>2, <1>3, <1>4, <1>5, <1>6, <1>7, RowsMove DEF Next, Supervise, Scheduler

-----------------------------------------------------------------------------
(* The invariant, and what it is for *)

LEMMA InvInit == Init => IInv
BY TypeInit, FlightInit, ChildInit, HoldInit, BookedInit, ViewInit, SeenInit, TimeInit, EntryInit, StartedInit, QuotaInit
   DEF IInv

LEMMA InvStep == IInv /\ [Next]_vars => IInv'
<1> SUFFICES ASSUME IInv, [Next]_vars PROVE IInv'
  OBVIOUS
<1>1. /\ TInv /\ FlightInv /\ ChildInv /\ HoldInv /\ BookedInv /\ ViewInv
      /\ SeenInv /\ TimeInv /\ EntryInv /\ Started /\ QuotaInv
  BY DEF IInv
<1>2. TInv' /\ ViewInv' /\ FlightInv'
  BY <1>1, TypeStep, ViewStep, FlightStep
<1>3. ChildInv' /\ HoldInv' /\ BookedInv'
  BY <1>1, ChildStep, HoldStep, BookedStep
<1>4. SeenInv' /\ TimeInv' /\ EntryInv' /\ Started' /\ QuotaInv'
  BY <1>1, SeenStep, TimeStep, EntryStep, StartedStep, QuotaStep
<1>5. QED
  BY <1>2, <1>3, <1>4 DEF IInv

\* The parts of the invariant hold in every state of every life of the parent.
THEOREM ControlInvariant == ControlSpec => []IInv
BY InvInit, InvStep, PTL DEF ControlSpec

\* Every variable keeps its type, no task waits twice in the queue, and a run whose
\* abort is owed or booked has its row closed.
THEOREM ControlTypes == ControlSpec => []ControlTypeOK
<1>1. ASSUME IInv PROVE ControlTypeOK
  <2>1. Elements(queue) \subseteq Occurrences
    BY <1>1 DEF IInv, TInv, Elements
  <2>2. \A r \in Runs : active[r] \in Flight /\ row[r] \in Row
    BY <1>1 DEF IInv, TInv
  <2>3. \A r \in Runs :
          /\ active[r].at \in {"free", "registered", "running", "aborting", "booking"}
          /\ row[r].at \in {"none", "asked", "open", "closed"} /\ row[r].stage \in Stages
    BY <2>2 DEF Flight, Row
  <2>4. QED
    BY <1>1, <2>1, <2>3 DEF ControlTypeOK, IInv, TInv, ChildInv, ChildOf, ViewInv, TaskRow, Entry, AnyTask, Tables
<1>2. QED
  BY <1>1, ControlInvariant, PTL

\* register_active_run and the supervising thread: at most one child of a task is
\* alive, and its run is among those in flight, so that it can be stopped.
THEOREM OneChild == ControlSpec => []OneChildPerTask
<1>1. IInv => OneChildPerTask
  BY DEF IInv, FlightInv, ChildInv, ChildOf, NoKid, OneChildPerTask
<1>2. QED
  BY <1>1, ControlInvariant, PTL

\* What the parent must not forget: while it is up, a table that a run of this life
\* still holds at the agent is guarded by the run, booked as stuck, or about to be
\* let go by the commit.
THEOREM HoldsAreBooked == ControlSpec => []HoldsBooked
<1>1. IInv => HoldsBooked
  BY DEF IInv, TInv, BookedInv, Booked, HoldsBooked
<1>2. QED
  BY <1>1, ControlInvariant, PTL

\* ScheduleState::observe and evaluate: of what a task missed between two looks the first
\* minute joins the queue, late, and nothing else ever does.
LEMMA FirstJoins ==
    ASSUME IInv, [Next]_vars
    PROVE  /\ \A o \in Elements(queue') \ Elements(queue) :
                Known(o.task) /\ MayQueue(o.task) /\ o.due \in FirstMissed(o.task)
           /\ \A t \in Tasks : \A f \in FirstMissed(t) :
                Known(t) /\ MayQueue(t) => [task |-> t, due |-> f] \in Elements(queue')
<1>0. TInv /\ EntryInv /\ ViewInv /\ queue \in Seq(Occurrences) /\ now \in 0..MaxNow
  BY DEF IInv, TInv
<1>1. ASSUME NEW m \in 0..MaxNow, Evaluate(m)
      PROVE  /\ \A o \in Elements(queue') \ Elements(queue) :
                  Known(o.task) /\ MayQueue(o.task) /\ o.due \in FirstMissed(o.task)
             /\ \A t \in Tasks : \A f \in FirstMissed(t) :
                  Known(t) /\ MayQueue(t) => [task |-> t, due |-> f] \in Elements(queue')
  <2>0. now <= m /\ now' = m
    BY <1>1 DEF Evaluate
  <2>1. PICK n \in Nat : \E g \in [1..n -> Tasks] :
            /\ \A i \in 1..n : CameDue(g[i], m) /\ MayQueue(g[i])
            /\ \A t \in Tasks : CameDue(t, m) /\ MayQueue(t) => \E i \in 1..n : g[i] = t
            /\ \A i \in 1..n : OccurrenceOf(g[i]) \in Occurrences
            /\ queue' = queue \o [i \in 1..n |-> OccurrenceOf(g[i])]
    BY <1>0, <1>1, EnqueuedOnes DEF Evaluate
  <2>2. PICK g \in [1..n -> Tasks] :
            /\ \A i \in 1..n : CameDue(g[i], m) /\ MayQueue(g[i])
            /\ \A t \in Tasks : CameDue(t, m) /\ MayQueue(t) => \E i \in 1..n : g[i] = t
            /\ \A i \in 1..n : OccurrenceOf(g[i]) \in Occurrences
            /\ queue' = queue \o [i \in 1..n |-> OccurrenceOf(g[i])]
    BY <2>1
  <2>3. [i \in 1..n |-> OccurrenceOf(g[i])] \in Seq(Occurrences)
    BY <2>2
  <2>4. /\ Len(queue) \in Nat
        /\ DOMAIN queue = 1..Len(queue) /\ DOMAIN queue' = 1..(Len(queue) + n)
        /\ \A i \in 1..Len(queue) : queue'[i] = queue[i]
        /\ \A i \in 1..(Len(queue) + n) : i > Len(queue) =>
              i - Len(queue) \in 1..n /\ queue'[i] = OccurrenceOf(g[i - Len(queue)])
        /\ \A i \in 1..n : /\ Len(queue) + i \in 1..(Len(queue) + n)
                           /\ queue'[Len(queue) + i] = OccurrenceOf(g[i])
    BY <1>0, <2>2, <2>3
  <2>5. ASSUME NEW o \in Elements(queue') \ Elements(queue)
        PROVE  Known(o.task) /\ MayQueue(o.task) /\ o.due \in FirstMissed(o.task)
    <3>1. PICK i \in DOMAIN queue' : o = queue'[i]
      BY DEF Elements
    <3>2. i \notin DOMAIN queue
      BY <2>4, <2>5, <3>1 DEF Elements
    <3>3. PICK k \in 1..n : o = OccurrenceOf(g[k])
      BY <2>4, <3>1, <3>2
    <3>4. g[k] \in Tasks /\ CameDue(g[k], m) /\ MayQueue(g[k]) /\ Known(g[k])
      BY <2>2 DEF CameDue
    <3>5. o.task = g[k] /\ o.due = entries[g[k]].next
      BY <3>3 DEF OccurrenceOf
    <3>6. QED
      BY <1>0, <2>0, <3>4, <3>5, DueIsFirst
  <2>6. ASSUME NEW t \in Tasks, NEW f \in FirstMissed(t), Known(t), MayQueue(t)
        PROVE  [task |-> t, due |-> f] \in Elements(queue')
    <3>1. CameDue(t, m) /\ f = entries[t].next
      BY <1>0, <2>0, <2>6, DueIsFirst
    <3>2. PICK i \in 1..n : g[i] = t
      BY <2>2, <2>6, <3>1
    <3>3. queue'[Len(queue) + i] = [task |-> t, due |-> f]
      BY <2>4, <3>1, <3>2 DEF OccurrenceOf
    <3>4. QED
      BY <2>4, <3>3 DEF Elements
  <2>7. QED
    BY <2>5, <2>6
<1>2. ASSUME now' = now, Elements(queue') \subseteq Elements(queue)
      PROVE  /\ Elements(queue') \ Elements(queue) = {}
             /\ \A t \in Tasks : FirstMissed(t) = {}
  <2>1. \A t \in Tasks : Missed(t) = {}
    <3>1. \A t \in Tasks : Fires[tasks[t].cron] \subseteq Nat
      BY <1>0, ControlAssumption DEF ControlAssumption, TInv, TaskRow
    <3>2. QED
      BY <1>0, <1>2, <3>1 DEF Missed
  <2>2. QED
    BY <1>2, <2>1 DEF FirstMissed
<1>3. CASE Answered
  <2>1. PICK n \in Nat : \E g \in [1..n -> DOMAIN queue] : queue' = [i \in 1..n |-> queue[g[i]]]
    BY <1>0, <1>3, DequeuedOnes DEF Answered
  <2>2. Elements(queue') \subseteq Elements(queue)
    BY <2>1 DEF Elements
  <2>3. QED
    BY <1>2, <1>3, <2>2 DEF Answered
<1>4. CASE now' = now /\ (queue' = queue \/ queue' = <<>>)
  BY <1>2, <1>4 DEF Elements
<1>5. QED
  BY <1>0, <1>1, <1>3, <1>4, LooksOnly

\* dispatch_scheduled_run: a run is started for an occurrence that waits, and for none
\* that a run was started for.
LEMMA StartsOnce ==
    ASSUME IInv, [Next]_vars, NEW r \in Runs, row'[r].due # row[r].due
    PROVE  /\ [task |-> row'[r].task, due |-> row'[r].due] \in Elements(queue)
           /\ \A q \in Runs : row[q].task = row'[r].task => row[q].due # row'[r].due
<1>0. TInv /\ ViewInv /\ TimeInv /\ SeenInv /\ ChildInv
  BY DEF IInv
<1>1. ASSUME NEW q \in Runs, NEW t \in Tasks, StartManual(q, t) PROVE FALSE
  <2>1. /\ row[q].due = NotDue /\ row'[q].due = NotDue
        /\ \A p \in Runs : p # q => row'[p] = row[p]
    BY <1>0, <1>1 DEF StartManual, Register, TInv, Row, ChildInv, ChildOf
  <2>2. QED
    BY <2>1
<1>2. PICK q \in Runs : StartScheduled(q)
  BY <1>0, <1>1, RowsMove DEF RowsKeep
<1>3. /\ row'[q].task = Current.task /\ row'[q].due = Current.due
      /\ \A p \in Runs : p # q => row'[p] = row[p]
  BY <1>0, <1>2 DEF StartScheduled, Register, TInv, Row
<1>4. sched.view \in Seq(Occurrences) /\ sched.view # <<>>
  BY <1>0, <1>2 DEF StartScheduled, TInv, Look, ViewInv
<1>5. 1 \in DOMAIN sched.view /\ Current = sched.view[1] /\ Current \in Occurrences
  BY <1>4 DEF Current
<1>6. Current \in Elements(queue)
  BY <1>0, <1>5 DEF SeenInv, Elements
<1>7. Current = [task |-> Current.task, due |-> Current.due]
  BY <1>5 DEF Occurrences
<1>8. \A p \in Runs : row[p].task = Current.task => row[p].due # Current.due
  BY <1>0, <1>2, <1>5, TimeStarted DEF Unstarted
<1>9. r = q
  BY <1>3
<1>10. QED
  BY <1>3, <1>6, <1>7, <1>8, <1>9

\* Rule 3 of the scheduler: however long it looked away, the first minute a task missed
\* is queued, late, and no other; nothing is made up for after downtime or a new
\* expression; and no occurrence is started twice.
THEOREM OccurrencesStartOnce == ControlSpec => StartedOnce
<1>1. ASSUME IInv, [Next]_vars
      PROVE  [/\ \A o \in Elements(queue') \ Elements(queue) :
                   Known(o.task) /\ MayQueue(o.task) /\ o.due \in FirstMissed(o.task)
              /\ \A t \in Tasks : \A f \in FirstMissed(t) :
                   Known(t) /\ MayQueue(t) => [task |-> t, due |-> f] \in Elements(queue')
              /\ \A r \in Runs : row'[r].due # row[r].due =>
                   /\ [task |-> row'[r].task, due |-> row'[r].due] \in Elements(queue)
                   /\ \A q \in Runs : row[q].task = row'[r].task => row[q].due # row'[r].due]_vars
  BY <1>1, FirstJoins, StartsOnce
<1>2. QED
  BY <1>1, ControlInvariant, PTL DEF ControlSpec, StartedOnce

\* dispatch_scheduled_run: the runs the clock started never exceed the quota of an
\* agent, though they are counted under one lock and registered under another.
THEOREM QuotaKeptByClock == ControlSpec => []ScheduledWithinQuota
<1>1. IInv => ScheduledWithinQuota
  BY DEF IInv, QuotaInv, Agents, ByClock, ScheduledWithinQuota
<1>2. QED
  BY <1>1, ControlInvariant, PTL

=============================================================================
