-------------------------- MODULE RitualPoolProofs --------------------------
(***************************************************************************)
(* Theorems about RitualPool, for any set of threads and any cap.          *)
(***************************************************************************)
EXTENDS RitualPool, FiniteSetTheorems, TLAPS

Busy == Counted \cup {"regaining"}

PInv == PoolTypeOK /\ LiveTrue

-----------------------------------------------------------------------------
(* How many threads are in some places, before and after one of them moves. *)

LEMMA InFinite ==
    ASSUME NEW S
    PROVE  IsFiniteSet(In(S)) /\ Cardinality(In(S)) \in Nat
<1>1. In(S) \subseteq Users
  BY DEF In
<1>2. IsFiniteSet(In(S))
  BY <1>1, PoolAssumption, FS_Subset
<1>3. QED
  BY <1>2, FS_CardinalityType

LEMMA MoveIn ==
    ASSUME PoolTypeOK, NEW u \in Users, NEW place, NEW S,
           GoTo(u, place), at[u] \notin S, place \in S
    PROVE  Cardinality(In(S)') = Cardinality(In(S)) + 1
<1>1. In(S)' = In(S) \cup {u} /\ u \notin In(S)
  BY DEF In, GoTo, PoolTypeOK
<1>2. QED
  BY <1>1, InFinite, FS_AddElement

LEMMA MoveOut ==
    ASSUME PoolTypeOK, NEW u \in Users, NEW place, NEW S,
           GoTo(u, place), at[u] \in S, place \notin S
    PROVE  Cardinality(In(S)') = Cardinality(In(S)) - 1
<1>1. In(S)' = In(S) \ {u} /\ u \in In(S)
  BY DEF In, GoTo, PoolTypeOK
<1>2. QED
  BY <1>1, InFinite, FS_RemoveElement

LEMMA MoveWithin ==
    ASSUME PoolTypeOK, NEW u \in Users, NEW place, NEW S,
           GoTo(u, place), at[u] \in S <=> place \in S
    PROVE  Cardinality(In(S)') = Cardinality(In(S))
<1>1. In(S)' = In(S)
  BY DEF In, GoTo, PoolTypeOK
<1>2. QED
  BY <1>1

\* notify_one moves up to two threads, neither of which has a connection.
LEMMA NotifyMove ==
    ASSUME PoolTypeOK, NEW u \in Users, Notify(u), NEW S,
           "notifying" \notin S, "out" \notin S, "waiting" \notin S, "looking" \notin S
    PROVE  Cardinality(In(S)') = Cardinality(In(S)) /\ at' \in [Users -> Places]
<1>1. CASE In({"waiting"}) = {}
  BY <1>1, MoveWithin DEF Notify, GoTo, PoolTypeOK, Places
<1>2. CASE In({"waiting"}) # {}
  <2>1. PICK v \in In({"waiting"}) : at' = [at EXCEPT ![u] = "out", ![v] = "looking"]
    BY <1>2 DEF Notify
  <2>2. v \in Users /\ at[v] = "waiting" /\ at[u] = "notifying"
    BY <2>1 DEF In, Notify
  <2>3. at' \in [Users -> Places]
    BY <2>1, <2>2 DEF PoolTypeOK, Places
  <2>4. \A x \in Users : at'[x] \in S <=> at[x] \in S
    BY <2>1, <2>2 DEF PoolTypeOK
  <2>5. In(S)' = In(S)
    BY <2>4 DEF In
  <2>6. QED
    BY <2>3, <2>5
<1>3. QED
  BY <1>1, <1>2

-----------------------------------------------------------------------------
(* The accounting: each step adds to live what it adds to the connections.  *)

LEMMA PoolInitInv == PoolInit => PInv
<1> SUFFICES ASSUME PoolInit PROVE PInv
  OBVIOUS
<1>1. In(Counted) = {}
  BY DEF PoolInit, In, Counted
<1>2. Cardinality(In(Counted)) = 0
  BY <1>1, FS_EmptySet
<1>3. QED
  BY <1>2, PoolAssumption DEF PoolInit, PInv, PoolTypeOK, LiveTrue, Places

LEMMA PoolStep == PInv /\ [PoolNext]_poolVars => PInv'
<1> SUFFICES ASSUME PInv, [PoolNext]_poolVars PROVE PInv'
  OBVIOUS
<1>0. PoolTypeOK /\ Cardinality(In(Counted)) \in Nat /\ live = idle + Cardinality(In(Counted))
  BY InFinite DEF PInv, LiveTrue
<1>1. ASSUME NEW u \in Users, Ask(u) \/ Wait(u) \/ WakeSpuriously(u)
      PROVE  PInv'
  <2>1. PICK place \in Places \ Counted : GoTo(u, place)
    BY <1>1 DEF Ask, Wait, WakeSpuriously, Places, Counted
  <2>2. at[u] \notin Counted /\ idle' = idle /\ live' = live
    BY <1>1 DEF Ask, Wait, WakeSpuriously, Counted
  <2>3. Cardinality(In(Counted)') = Cardinality(In(Counted))
    BY <1>0, <2>1, <2>2, MoveWithin
  <2>4. turns' \in [Users -> 0..Turns]
    BY <1>1, <1>0, PoolAssumption DEF Ask, Wait, WakeSpuriously, PoolTypeOK
  <2>5. at' \in [Users -> Places]
    BY <1>0, <2>1 DEF GoTo, PoolTypeOK
  <2>6. QED
    BY <1>0, <2>2, <2>3, <2>4, <2>5 DEF PInv, PoolTypeOK, LiveTrue
<1>2. ASSUME NEW u \in Users, Pop(u) \/ Reserve(u) \/ Regain(u)
      PROVE  PInv'
  <2>1. PICK place \in Places \cap Counted : GoTo(u, place)
    BY <1>2 DEF Pop, Reserve, Regain, Places, Counted
  <2>2. at[u] \notin Counted
    BY <1>2 DEF Pop, Reserve, Regain, Counted
  <2>3. Cardinality(In(Counted)') = Cardinality(In(Counted)) + 1
    BY <1>0, <2>1, <2>2, MoveIn
  <2>4. idle' \in Nat /\ live' \in Nat /\ live' - idle' = live - idle + 1
    BY <1>0, <1>2 DEF Pop, Reserve, Regain, PoolTypeOK
  <2>5. at' \in [Users -> Places] /\ turns' = turns
    BY <1>0, <1>2, <2>1 DEF GoTo, PoolTypeOK, Pop, Reserve, Regain
  <2>6. live' = idle' + Cardinality(In(Counted)')
    BY <1>0, <2>3, <2>4 DEF PoolTypeOK
  <2>7. QED
    BY <1>0, <2>4, <2>5, <2>6 DEF PInv, PoolTypeOK, LiveTrue
<1>3. ASSUME NEW u \in Users, PingOk(u) \/ Connected(u)
      PROVE  PInv'
  <2>1. GoTo(u, "using") /\ at[u] \in Counted
    BY <1>3 DEF PingOk, Connected, Counted
  <2>2. Cardinality(In(Counted)') = Cardinality(In(Counted))
    BY <1>0, <2>1, MoveWithin DEF Counted
  <2>3. at' \in [Users -> Places] /\ idle' = idle /\ live' = live /\ turns' = turns
    BY <1>0, <1>3, <2>1 DEF GoTo, PoolTypeOK, Places, PingOk, Connected
  <2>4. QED
    BY <1>0, <2>2, <2>3 DEF PInv, PoolTypeOK, LiveTrue
<1>4. ASSUME NEW u \in Users, PingDead(u) \/ ConnectFails(u) \/ Release(u)
      PROVE  PInv'
  <2>1. PICK place \in Places \ Counted : GoTo(u, place)
    BY <1>4 DEF PingDead, ConnectFails, Release, Places, Counted
  <2>2. at[u] \in Counted
    BY <1>4 DEF PingDead, ConnectFails, Release, Counted
  <2>3. Cardinality(In(Counted)') = Cardinality(In(Counted)) - 1
    BY <1>0, <2>1, <2>2, MoveOut
  <2>4. Cardinality(In(Counted)') \in Nat
    <3>1. In(Counted)' \subseteq Users
      BY DEF In
    <3>2. QED
      BY <3>1, PoolAssumption, FS_Subset, FS_CardinalityType
  <2>5. \/ idle' = idle /\ live' = live - 1
        \/ idle' = idle + 1 /\ live' = live
    BY <1>4 DEF PingDead, ConnectFails, Release
  <2>6. at' \in [Users -> Places] /\ turns' = turns
    BY <1>0, <1>4, <2>1 DEF GoTo, PoolTypeOK, PingDead, ConnectFails, Release
  <2>7. live' = idle' + Cardinality(In(Counted)') /\ idle' \in Nat /\ live' \in Nat
    BY <1>0, <2>3, <2>4, <2>5 DEF PoolTypeOK
  <2>8. QED
    BY <1>0, <2>6, <2>7 DEF PInv, PoolTypeOK, LiveTrue
<1>5. ASSUME NEW u \in Users, Notify(u)
      PROVE  PInv'
  <2>1. Cardinality(In(Counted)') = Cardinality(In(Counted)) /\ at' \in [Users -> Places]
    BY <1>0, <1>5, NotifyMove DEF Counted
  <2>2. QED
    BY <1>0, <1>5, <2>1 DEF Notify, PInv, PoolTypeOK, LiveTrue
<1>6. CASE UNCHANGED poolVars
  BY <1>6 DEF poolVars, PInv, PoolTypeOK, LiveTrue, In
<1>7. QED
  BY <1>1, <1>2, <1>3, <1>4, <1>5, <1>6 DEF PoolNext, Advance

LEMMA PoolAccounted == PoolSpec => []PInv
BY PoolInitInv, PoolStep, PTL DEF PoolSpec

\* live never drifts from the connections there are, whatever pings and
\* connects fail: a leaked place would shrink the pool for the rest of the run.
THEOREM LiveIsTrue == PoolSpec => []LiveTrue
<1>1. PInv => LiveTrue
  BY DEF PInv
<1>2. QED
  BY <1>1, PoolAccounted, PTL

-----------------------------------------------------------------------------
(* One connection per thread at most.  A place is added only when no         *)
(* connection is idle, by a thread that has none and replaces none; Regain   *)
(* only takes back what PingDead gave up.                                    *)

Replacing == {"regaining"}
OInv == PInv /\ (Users # {} => idle + Cardinality(In(Busy)) <= Cardinality(Users))

LEMMA BusySplit ==
    Cardinality(In(Busy)) = Cardinality(In(Counted)) + Cardinality(In(Replacing))
<1>1. In(Busy) = In(Counted) \cup In(Replacing) /\ In(Counted) \cap In(Replacing) = {}
  BY DEF In, Busy, Counted, Replacing
<1>2. IsFiniteSet(In(Counted)) /\ IsFiniteSet(In(Replacing))
  BY InFinite
<1>3. Cardinality(In(Counted)) \in Nat /\ Cardinality(In(Replacing)) \in Nat
  BY InFinite
<1>4. Cardinality(In(Counted) \cap In(Replacing)) = 0
  BY <1>1, FS_EmptySet
<1>5. Cardinality(In(Counted) \cup In(Replacing)) =
          Cardinality(In(Counted)) + Cardinality(In(Replacing))
          - Cardinality(In(Counted) \cap In(Replacing))
  BY <1>2, FS_Union
<1>6. QED
  BY <1>1, <1>3, <1>4, <1>5

LEMMA UsersCount == Users # {} => Cardinality(Users) \in Nat /\ Cardinality(Users) >= 1
<1>1. IsFiniteSet(Users) /\ Cardinality(Users) \in Nat
  BY PoolAssumption, FS_CardinalityType
<1>2. Cardinality(Users) = 0 <=> Users = {}
  BY <1>1, FS_EmptySet
<1>3. QED
  BY <1>1, <1>2

\* A thread that is not busy leaves room for one more.
LEMMA RoomForOne ==
    ASSUME NEW u \in Users, at[u] \notin Busy
    PROVE  Cardinality(In(Busy)) + 1 <= Cardinality(Users)
<1>1. In(Busy) \cup {u} \subseteq Users /\ u \notin In(Busy)
  BY DEF In
<1>2. Cardinality(In(Busy) \cup {u}) = Cardinality(In(Busy)) + 1
  BY <1>1, InFinite, FS_AddElement
<1>3. Cardinality(In(Busy) \cup {u}) <= Cardinality(Users)
  BY <1>1, PoolAssumption, FS_Subset
<1>4. QED
  BY <1>2, <1>3

LEMMA OneEachInit == PoolInit => OInv
<1> SUFFICES ASSUME PoolInit PROVE OInv
  OBVIOUS
<1>1. In(Busy) = {}
  BY DEF PoolInit, In, Busy, Counted
<1>2. Cardinality(In(Busy)) = 0
  BY <1>1, FS_EmptySet
<1>3. QED
  BY <1>2, PoolInitInv, UsersCount DEF OInv, PoolInit

LEMMA OneEachStep == OInv /\ [PoolNext]_poolVars => OInv'
<1> SUFFICES ASSUME OInv, [PoolNext]_poolVars PROVE OInv'
  OBVIOUS
<1>0. /\ PoolTypeOK /\ PInv' /\ idle \in Nat /\ Cardinality(In(Busy)) \in Nat
      /\ Users # {} => idle + Cardinality(In(Busy)) <= Cardinality(Users)
  BY PoolStep, InFinite DEF OInv, PInv, PoolTypeOK
<1>1. ASSUME NEW u \in Users, Advance(u) \/ Ask(u) \/ WakeSpuriously(u), ~Notify(u)
      PROVE  idle' + Cardinality(In(Busy)') <= Cardinality(Users)
  <2>0. /\ idle + Cardinality(In(Busy)) <= Cardinality(Users)
        /\ Cardinality(Users) \in Nat
    BY <1>0, UsersCount
  <2>1. CASE Ask(u) \/ Wait(u) \/ WakeSpuriously(u) \/ PingOk(u) \/ PingDead(u) \/ Regain(u)
             \/ Connected(u)
    <3>1. PICK place : GoTo(u, place) /\ (at[u] \in Busy <=> place \in Busy)
      BY <2>1 DEF Ask, Wait, WakeSpuriously, PingOk, PingDead, Regain, Connected, Busy, Counted
    <3>2. idle' = idle
      BY <2>1 DEF Ask, Wait, WakeSpuriously, PingOk, PingDead, Regain, Connected
    <3>3. QED
      BY <1>0, <2>0, <3>1, <3>2, MoveWithin
  <2>2. CASE Pop(u) \/ Reserve(u)
    <3>1. PICK place : GoTo(u, place) /\ at[u] \notin Busy /\ place \in Busy
      BY <2>2 DEF Pop, Reserve, Busy, Counted
    <3>2. Cardinality(In(Busy)') = Cardinality(In(Busy)) + 1
      BY <1>0, <3>1, MoveIn
    <3>3. idle' = idle - 1 \/ (idle = 0 /\ idle' = 0)
      BY <2>2 DEF Pop, Reserve
    <3>4. QED
      BY <1>0, <2>0, <3>1, <3>2, <3>3, RoomForOne
  <2>3. CASE ConnectFails(u) \/ Release(u)
    <3>1. PICK place : GoTo(u, place) /\ at[u] \in Busy /\ place \notin Busy
      BY <2>3 DEF ConnectFails, Release, Busy, Counted
    <3>2. Cardinality(In(Busy)') = Cardinality(In(Busy)) - 1
      BY <1>0, <3>1, MoveOut
    <3>3. idle' = idle \/ idle' = idle + 1
      BY <2>3 DEF ConnectFails, Release
    <3>4. QED
      BY <1>0, <2>0, <3>2, <3>3
  <2>4. QED
    BY <1>1, <2>1, <2>2, <2>3 DEF Advance
<1>2. ASSUME NEW u \in Users, Notify(u)
      PROVE  idle' + Cardinality(In(Busy)') = idle + Cardinality(In(Busy))
  <2>1. Cardinality(In(Busy)') = Cardinality(In(Busy))
    BY <1>0, <1>2, NotifyMove DEF Busy, Counted
  <2>2. QED
    BY <1>2, <2>1 DEF Notify
<1>3. CASE UNCHANGED poolVars
  BY <1>0, <1>3 DEF poolVars, OInv, In
<1>4. QED
  BY <1>0, <1>1, <1>2, <1>3 DEF PoolNext, OInv, Advance

\* A run never has more connections than threads that use it: the cap that
\* open_counted does not look at again is exceeded only beyond that many.
THEOREM OneConnectionEach == PoolSpec => []OneEach
<1>1. OInv => OneEach
  <2> SUFFICES ASSUME OInv, Users # {}
               PROVE  live + Cardinality(In(Replacing)) <= Cardinality(Users)
    BY FS_EmptySet DEF OneEach, Replacing
  <2>1. live = idle + Cardinality(In(Counted)) /\ idle \in Nat
    BY DEF OInv, PInv, LiveTrue, PoolTypeOK
  <2>2. QED
    BY <2>1, BusySplit, UsersCount, InFinite DEF OInv
<1>2. PoolSpec => []OInv
  BY OneEachInit, OneEachStep, PTL DEF PoolSpec
<1>3. QED
  BY <1>1, <1>2, PTL

-----------------------------------------------------------------------------
(* No wakeup is lost.  NoLostWakeup alone is not inductive: Regain may take a *)
(* place beyond the cap and stop counting as under way.  What a replacing     *)
(* thread will take back is therefore not counted as free to begin with.      *)

Coming == {"looking", "notifying"}
Taken == live + Cardinality(In(Replacing))
Open == idle + (IF Taken < MaxPool THEN MaxPool - Taken ELSE 0)
Awaited == In({"waiting"}) # {} => Open <= Cardinality(In(Coming))
WInv == PInv /\ Awaited

LEMMA NearSplit ==
    Cardinality(In({"looking", "notifying", "regaining"}))
        = Cardinality(In(Coming)) + Cardinality(In(Replacing))
<1>1. In({"looking", "notifying", "regaining"}) = In(Coming) \cup In(Replacing) /\ In(Coming) \cap In(Replacing) = {}
  BY DEF In, Coming, Replacing
<1>2. /\ IsFiniteSet(In(Coming)) /\ IsFiniteSet(In(Replacing))
      /\ Cardinality(In(Coming)) \in Nat /\ Cardinality(In(Replacing)) \in Nat
  BY InFinite
<1>3. Cardinality(In(Coming) \cap In(Replacing)) = 0
  BY <1>1, FS_EmptySet
<1>4. Cardinality(In(Coming) \cup In(Replacing)) =
          Cardinality(In(Coming)) + Cardinality(In(Replacing))
          - Cardinality(In(Coming) \cap In(Replacing))
  BY <1>2, FS_Union
<1>5. Cardinality(In(Coming) \cup In(Replacing)) =
          Cardinality(In(Coming)) + Cardinality(In(Replacing))
  BY <1>2, <1>3, <1>4
<1>6. QED
  BY <1>1, <1>5

\* Whoever waits after a step that moves u elsewhere waited before it.
LEMMA StillWaiting ==
    ASSUME PoolTypeOK, NEW u \in Users, NEW place, GoTo(u, place), place # "waiting",
           In({"waiting"})' # {}
    PROVE  In({"waiting"}) # {}
BY DEF In, GoTo, PoolTypeOK

LEMMA AwaitedStep == WInv /\ [PoolNext]_poolVars => WInv'
<1> SUFFICES ASSUME WInv, [PoolNext]_poolVars PROVE WInv'
  OBVIOUS
<1> DEFINE c == Cardinality(In(Coming))
           g == Cardinality(In(Replacing))
           waits == In({"waiting"}) # {}
<1>0. /\ PoolTypeOK /\ PInv' /\ idle \in Nat /\ live \in Nat /\ MaxPool \in Nat
      /\ c \in Nat /\ g \in Nat /\ (waits => Open <= c)
      /\ Open = idle + (IF live + g < MaxPool THEN MaxPool - (live + g) ELSE 0)
      /\ Open' = idle' + (IF live' + g' < MaxPool THEN MaxPool - (live' + g') ELSE 0)
  BY PoolStep, InFinite, PoolAssumption DEF WInv, PInv, PoolTypeOK, Awaited, Open, Taken
<1>1. ASSUME NEW u \in Users, Ask(u) \/ Pop(u) \/ Reserve(u) \/ WakeSpuriously(u)
      PROVE  waits' => Open' <= c'
  <2>1. PICK place : /\ GoTo(u, place) /\ place # "waiting"
                     /\ at[u] # "regaining" /\ place # "regaining"
                     /\ at[u] \in Coming <=> Pop(u) \/ Reserve(u)
                     /\ place \in Coming <=> Ask(u) \/ WakeSpuriously(u)
    BY <1>1 DEF Ask, Pop, Reserve, WakeSpuriously, Coming
  <2>2. g' = g /\ (waits' => waits)
    BY <1>0, <2>1, MoveWithin, StillWaiting DEF Replacing
  <2>3. CASE Ask(u) \/ WakeSpuriously(u)
    <3>1. c' = c + 1 /\ idle' = idle /\ live' = live
      BY <1>0, <2>1, <2>3, MoveIn DEF Ask, WakeSpuriously, Coming
    <3>2. QED
      BY <1>0, <2>2, <3>1
  <2>4. CASE Pop(u)
    <3>1. c' = c - 1 /\ idle' = idle - 1 /\ live' = live
      BY <1>0, <2>4, MoveOut DEF Pop, Coming
    <3>2. QED
      BY <1>0, <2>2, <3>1
  <2>5. CASE Reserve(u)
    <3>1. c' = c - 1 /\ c' \in Nat /\ idle = 0 /\ idle' = 0 /\ live' = live + 1
      <4>1. c' = c - 1 /\ idle = 0 /\ idle' = 0 /\ live' = live + 1
        BY <1>0, <2>5, MoveOut DEF Reserve, Coming
      <4>2. In(Coming)' \subseteq Users
        BY DEF In
      <4>3. QED
        BY <4>1, <4>2, PoolAssumption, FS_Subset, FS_CardinalityType
    <3>2. QED
      BY <1>0, <2>2, <3>1
  <2>6. QED
    BY <1>1, <2>3, <2>4, <2>5
<1>2. ASSUME NEW u \in Users, Wait(u)
      PROVE  waits' => Open' <= c'
  <2>1. g' = g /\ idle' = 0 /\ live' = live /\ live >= MaxPool
    BY <1>0, <1>2, MoveWithin DEF Wait, Replacing
  <2>2. c' \in Nat
    <3>1. In(Coming)' \subseteq Users
      BY DEF In
    <3>2. QED
      BY <3>1, PoolAssumption, FS_Subset, FS_CardinalityType
  <2>3. QED
    BY <1>0, <2>1, <2>2
<1>3. ASSUME NEW u \in Users, PingOk(u) \/ Connected(u) \/ PingDead(u) \/ Regain(u)
      PROVE  waits' => Open' <= c'
  <2>1. PICK place : /\ GoTo(u, place) /\ place # "waiting"
                     /\ at[u] \notin Coming /\ place \notin Coming
                     /\ at[u] = "regaining" <=> Regain(u)
                     /\ place = "regaining" <=> PingDead(u)
    BY <1>3 DEF PingOk, Connected, PingDead, Regain, Coming
  <2>2. c' = c /\ (waits' => waits) /\ idle' = idle
    BY <1>0, <1>3, <2>1, MoveWithin, StillWaiting DEF PingOk, Connected, PingDead, Regain
  <2>3. live' + g' = live + g
    <3>1. CASE PingOk(u) \/ Connected(u)
      BY <1>0, <2>1, <3>1, MoveWithin DEF PingOk, Connected, PingDead, Regain, Replacing
    <3>2. CASE PingDead(u)
      BY <1>0, <2>1, <3>2, MoveIn DEF PingDead, Regain, Replacing
    <3>3. CASE Regain(u)
      <4>1. GoTo(u, "connecting") /\ at[u] \in Replacing /\ "connecting" \notin Replacing
            /\ live' = live + 1
        BY <3>3 DEF Regain, Replacing
      <4>2. g' = g - 1
        BY <1>0, <4>1, MoveOut
      <4>3. QED
        BY <1>0, <4>1, <4>2
    <3>4. QED
      BY <1>3, <3>1, <3>2, <3>3
  <2>4. QED
    BY <1>0, <2>2, <2>3
<1>4. ASSUME NEW u \in Users, ConnectFails(u) \/ Release(u)
      PROVE  waits' => Open' <= c'
  <2>1. GoTo(u, "notifying") /\ at[u] \notin Coming /\ at[u] # "regaining"
    BY <1>4 DEF ConnectFails, Release, Coming
  <2>2. c' = c + 1 /\ g' = g /\ (waits' => waits)
    BY <1>0, <2>1, MoveIn, MoveWithin, StillWaiting DEF Coming, Replacing
  <2>3. (idle' = idle /\ live' = live - 1) \/ (idle' = idle + 1 /\ live' = live)
    BY <1>4 DEF ConnectFails, Release
  <2>4. live' \in Nat
    BY <1>0 DEF PInv, PoolTypeOK
  <2>5. QED
    BY <1>0, <2>2, <2>3, <2>4
<1>5. ASSUME NEW u \in Users, Notify(u)
      PROVE  waits' => Open' <= c'
  <2>1. g' = g /\ idle' = idle /\ live' = live
    BY <1>0, <1>5, NotifyMove DEF Replacing, Notify
  <2>2. CASE ~waits
    BY <1>0, <1>5, <2>2 DEF Notify, GoTo, In, PoolTypeOK
  <2>3. CASE waits
    <3>1. PICK v \in In({"waiting"}) : at' = [at EXCEPT ![u] = "out", ![v] = "looking"]
      BY <1>5, <2>3 DEF Notify
    <3>2. v \in Users /\ at[v] = "waiting" /\ at[u] = "notifying" /\ u # v
      BY <1>5, <3>1 DEF In, Notify
    <3>3. In(Coming)' = (In(Coming) \ {u}) \cup {v} /\ u \in In(Coming) /\ v \notin In(Coming)
      BY <1>0, <1>5, <3>1, <3>2 DEF In, Coming, PoolTypeOK
    <3>4. /\ Cardinality(In(Coming) \ {u}) = c - 1 /\ IsFiniteSet(In(Coming) \ {u})
      BY <3>3, InFinite, FS_RemoveElement
    <3>5. Cardinality((In(Coming) \ {u}) \cup {v}) = c - 1 + 1
      BY <3>3, <3>4, FS_AddElement
    <3>6. QED
      BY <1>0, <2>1, <2>3, <3>3, <3>5
  <2>4. QED
    BY <2>2, <2>3
<1>6. CASE UNCHANGED poolVars
  BY <1>0, <1>6 DEF poolVars, WInv, Awaited, Open, Taken, In
<1>7. \A u \in Users : Ask(u) \/ Advance(u) \/ WakeSpuriously(u) => (waits' => Open' <= c')
  BY <1>1, <1>2, <1>3, <1>4, <1>5 DEF Advance
<1>8. UNCHANGED poolVars \/ (waits' => Open' <= c')
  BY <1>7 DEF PoolNext
<1>9. (waits' => Open' <= c') => WInv'
  BY <1>0 DEF WInv, Awaited
<1>10. QED
  BY <1>6, <1>8, <1>9

\* acquire, open_counted and notify_one: as long as a thread waits, every idle
\* connection and every free place has a thread under way to it.
THEOREM NoWakeupIsLost == PoolSpec => []NoLostWakeup
<1>1. WInv => NoLostWakeup
  <2> SUFFICES ASSUME WInv, In({"waiting"}) # {}
               PROVE  Free <= Cardinality(In({"looking", "notifying", "regaining"}))
    BY DEF NoLostWakeup
  <2>1. Open <= Cardinality(In(Coming)) /\ idle \in Nat /\ live \in Nat /\ MaxPool \in Nat
    BY PoolAssumption DEF WInv, PInv, PoolTypeOK, Awaited
  <2>2. Cardinality(In(Coming)) \in Nat /\ Cardinality(In(Replacing)) \in Nat
    BY InFinite
  <2>3. QED
    BY <2>1, <2>2, NearSplit DEF Free, Open, Taken
<1>2. PoolInit => WInv
  BY PoolInitInv DEF WInv, Awaited, PoolInit, In
<1>3. QED
  BY <1>1, <1>2, AwaitedStep, PTL DEF PoolSpec

=============================================================================
