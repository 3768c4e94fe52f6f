----------------------------- MODULE RitualPool -----------------------------
(***************************************************************************)
(* The MySQL connection pool of one run (RitualPool in                     *)
(* crates/sink/src/mysql_destination.rs): worker threads borrow a          *)
(* connection each, reuse an idle one or open one, and wait on a condition *)
(* variable when the pool is full.  The mutex guards idle and live; the    *)
(* ping, the connecting and the use of a connection run outside it, and so *)
(* does notify_one, which comes after the unlock.                          *)
(***************************************************************************)
EXTENDS Integers, FiniteSets

CONSTANTS
    Users,      \* threads that use the pool of the run
    MaxPool,    \* MAX_POOL_CONNECTIONS
    Turns       \* bound: how often a thread borrows a connection

ASSUME PoolAssumption ==
    /\ IsFiniteSet(Users)
    /\ MaxPool \in Nat \ {0}
    /\ Turns \in Nat

VARIABLES
    idle,    \* number of connections in state.idle
    live,    \* state.live
    at,      \* at[u]: where thread u is in with_conn
    turns    \* turns[u]: connections u has asked for

poolVars == <<idle, live, at, turns>>

Places == {"out",           \* not in with_conn
           "pinging",       \* has popped an idle connection, lock released
           "regaining",     \* dropped a dead connection and its place, in open_counted
           "connecting",    \* has a place and opens a connection
           "using",         \* runs its operation
           "notifying",     \* has given back a connection or a place, about to notify
           "waiting",       \* in returned.wait
           "looking"}       \* about to look at idle and live, for the first time or again

\* The places in which a thread accounts for one of live.
Counted == {"pinging", "connecting", "using"}
In(places) == {u \in Users : at[u] \in places}

PoolTypeOK ==
    /\ idle \in Nat
    /\ live \in Nat
    /\ at \in [Users -> Places]
    /\ turns \in [Users -> 0..Turns]

PoolInit ==    \* new has opened the first connection
    /\ idle = 1
    /\ live = 1
    /\ at = [u \in Users |-> "out"]
    /\ turns = [u \in Users |-> 0]

GoTo(u, place) == at' = [at EXCEPT ![u] = place]

Ask(u) ==
    /\ at[u] = "out" /\ turns[u] < Turns
    /\ turns' = [turns EXCEPT ![u] = @ + 1]
    /\ GoTo(u, "looking")
    /\ UNCHANGED <<idle, live>>

\* One round of the loop of acquire, under the lock.
Pop(u) ==
    /\ at[u] = "looking"
    /\ idle > 0
    /\ idle' = idle - 1
    /\ GoTo(u, "pinging")
    /\ UNCHANGED <<live, turns>>

Reserve(u) ==
    /\ at[u] = "looking"
    /\ idle = 0 /\ live < MaxPool
    /\ live' = live + 1
    /\ GoTo(u, "connecting")
    /\ UNCHANGED <<idle, turns>>

Wait(u) ==
    /\ at[u] = "looking"
    /\ idle = 0 /\ live >= MaxPool
    /\ GoTo(u, "waiting")
    /\ UNCHANGED <<idle, live, turns>>

\* A condition variable may wake a thread without a notification.
WakeSpuriously(u) ==
    /\ at[u] = "waiting"
    /\ GoTo(u, "looking")
    /\ UNCHANGED <<idle, live, turns>>

PingOk(u) ==
    /\ at[u] = "pinging"
    /\ GoTo(u, "using")
    /\ UNCHANGED <<idle, live, turns>>

SlipPingDead(u) ==
    /\ at[u] = "pinging"
    /\ GoTo(u, "regaining")
    /\ UNCHANGED <<idle, live, turns>>

PingDead(u) ==
    /\ at[u] = "pinging"
    /\ live' = live - 1
    /\ GoTo(u, "regaining")
    /\ UNCHANGED <<idle, turns>>

SlipRegain(u) ==
    /\ at[u] = "regaining"
    /\ GoTo(u, "connecting")
    /\ UNCHANGED <<idle, live, turns>>

\* open_counted takes a place back without looking at the cap again.
Regain(u) ==
    /\ at[u] = "regaining"
    /\ live' = live + 1
    /\ GoTo(u, "connecting")
    /\ UNCHANGED <<idle, turns>>

\* Conn::new and the ritual succeed.
Connected(u) ==
    /\ at[u] = "connecting"
    /\ GoTo(u, "using")
    /\ UNCHANGED <<idle, live, turns>>

SlipConnectFails(u) ==
    /\ at[u] = "connecting"
    /\ live' = live - 1
    /\ GoTo(u, "out")
    /\ UNCHANGED <<idle, turns>>

\* They fail: with_conn returns the error once it has notified.
ConnectFails(u) ==
    /\ at[u] = "connecting"
    /\ live' = live - 1
    /\ GoTo(u, "notifying")
    /\ UNCHANGED <<idle, turns>>

\* The operation is over, with or without an error.
Release(u) ==
    /\ at[u] = "using"
    /\ idle' = idle + 1
    /\ GoTo(u, "notifying")
    /\ UNCHANGED <<live, turns>>

SlipNotify(u) ==
    /\ at[u] = "notifying"
    /\ GoTo(u, "out")
    /\ UNCHANGED <<idle, live, turns>>

Notify(u) ==
    /\ at[u] = "notifying"
    /\ IF In({"waiting"}) = {} THEN GoTo(u, "out")
       ELSE \E v \in In({"waiting"}) : at' = [at EXCEPT ![u] = "out", ![v] = "looking"]
    /\ UNCHANGED <<idle, live, turns>>

\* What a thread in with_conn does without being notified.
Advance(u) ==
    \/ Pop(u) \/ Reserve(u) \/ Wait(u)
    \/ PingOk(u) \/ PingDead(u) \/ Regain(u) \/ Connected(u) \/ ConnectFails(u)
    \/ Release(u) \/ Notify(u)

PoolNext == \E u \in Users : Ask(u) \/ Advance(u) \/ WakeSpuriously(u)

PoolSpec == PoolInit /\ [][PoolNext]_poolVars

\* Threads in with_conn run and MySQL answers; nothing has to wake spuriously.
PoolFairness == \A u \in Users : WF_poolVars(Advance(u))

FairPool == PoolSpec /\ PoolFairness

-----------------------------------------------------------------------------
(* Properties *)

\* live counts the connections there are and the places being connected, no
\* matter which step of acquire fails (open_counted_reserved, the dead ping).
LiveTrue == live = idle + Cardinality(In(Counted))

\* A run never has more connections than threads that use it, the ones whose dead
\* connection is being replaced included (acquire, open_counted).  MaxPool itself
\* is no bound: Regain takes a place without looking at it.
OneEach ==
    Cardinality(Users) > 0 => live + Cardinality(In({"regaining"})) <= Cardinality(Users)

\* While threads wait, every free connection and every free place has a thread
\* under way that will take it or wake one that does: no wakeup is lost between
\* unlock and notify_one, to a thief or to a failed connect.
Free == idle + (IF live < MaxPool THEN MaxPool - live ELSE 0)
NoLostWakeup ==
    In({"waiting"}) # {} => Free <= Cardinality(In({"looking", "notifying", "regaining"}))

\* A thread that waits for a connection is served (acquire); each thread asks a
\* bounded number of times, as the requests of a run do.
Served == \A u \in Users : at[u] = "waiting" ~> at[u] \in {"using", "out"}

=============================================================================
