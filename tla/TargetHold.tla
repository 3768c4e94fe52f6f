----------------------------- MODULE TargetHold -----------------------------
(***************************************************************************)
(* What the agent promises its sources, without workers, locks or staging  *)
(* tables: a run takes its target table, imports into it at most once, and *)
(* leaves it.  SinkService implements it.                                  *)
(***************************************************************************)
EXTENDS Integers, Sequences, FiniteSets

CONSTANTS Runs, Tables, TableOf, MaxConcurrentRuns

VARIABLES
    holders,    \* the runs that hold their target table
    imports     \* imports[t]: the runs imported into t, in order

holdVars == <<holders, imports>>

Imported(r) == \E i \in DOMAIN imports[TableOf[r]] : imports[TableOf[r]][i] = r

Init ==
    /\ holders = {}
    /\ imports = [t \in Tables |-> <<>>]

\* A table that is taken is refused, and so is one run too many.
Take(r) ==
    /\ \A q \in holders : TableOf[q] # TableOf[r]
    /\ Cardinality(holders) < MaxConcurrentRuns
    /\ holders' = holders \cup {r}
    /\ UNCHANGED imports

Import(r) ==
    /\ r \in holders
    /\ ~Imported(r)
    /\ imports' = [imports EXCEPT ![TableOf[r]] = Append(@, r)]
    /\ UNCHANGED holders

Leave(r) ==
    /\ r \in holders
    /\ holders' = holders \ {r}
    /\ UNCHANGED imports

\* A restart forgets who holds what, and nothing of what was imported.
Forget ==
    /\ holders' = {}
    /\ UNCHANGED imports

Next == (\E r \in Runs : Take(r) \/ Import(r) \/ Leave(r)) \/ Forget

Spec == Init /\ [][Next]_holdVars

=============================================================================
