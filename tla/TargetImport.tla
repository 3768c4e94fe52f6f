----------------------------- MODULE TargetImport -----------------------------
(***************************************************************************)
(* What db-qbs promises the person who starts a run, without processes,    *)
(* calls or locks: the whole result of the query arrives in the target     *)
(* table, once, or nothing does; and what the history says of the target   *)
(* is true and stays true.  Supervisor implements it.                      *)
(***************************************************************************)
EXTENDS Integers, Sequences

CONSTANTS Runs, Tables, TableOf, MaxBatches

VARIABLES
    size,       \* size[r]: how many batches the result of run r's query fills
    imports,    \* imports[t]: what was imported into t, in order
    outcome,    \* outcome[r]: "none" until the run is over
    verdict     \* verdict[r]: what is said of its target table

importVars == <<size, imports, outcome, verdict>>

Verdicts == {"unknown", "untouched", "imported"}
Outcomes == {"SUCCEEDED", "FAILED"}
Imported(r) == \E i \in DOMAIN imports[TableOf[r]] : imports[TableOf[r]][i].run = r
Whole(r) == [n \in 1..size[r] |-> n]

Init ==
    /\ size \in [Runs -> 0..MaxBatches]
    /\ imports = [t \in Tables |-> <<>>]
    /\ outcome = [r \in Runs |-> "none"]
    /\ verdict = [r \in Runs |-> "unknown"]

\* A run called unknown may still be imported, when it is over too: its commit was on its way.
Import(r) ==
    /\ ~Imported(r)
    /\ verdict[r] = "unknown"
    /\ imports' = [imports EXCEPT ![TableOf[r]] = Append(@, [run |-> r, rows |-> Whole(r)])]
    /\ UNCHANGED <<size, outcome, verdict>>

\* Nothing is said that is not so.
Say(r, v) ==
    /\ outcome[r] = "none"
    /\ v = "untouched" => ~Imported(r)
    /\ v = "imported" => Imported(r)
    /\ verdict' = [verdict EXCEPT ![r] = v]
    /\ UNCHANGED <<size, imports>>

\* The last word on a run: a success is an import.
Close(r, o) ==
    /\ \E v \in Verdicts : Say(r, v) /\ (o = "SUCCEEDED" => v = "imported")
    /\ outcome' = [outcome EXCEPT ![r] = o]

Next ==
    \E r \in Runs :
        \/ Import(r)
        \/ \E v \in Verdicts : Say(r, v) /\ UNCHANGED outcome
        \/ \E o \in Outcomes : Close(r, o)

Spec == Init /\ [][Next]_importVars

=============================================================================
