------------------------------ MODULE MCRunControl ------------------------------
(***************************************************************************)
(* Small instances of RunControl: two tasks that write one table through an  *)
(* agent with a quota of one.                                                *)
(***************************************************************************)
EXTENDS RunControl, TLC

CONSTANTS a, b, t1, t2, e, s, k

Order == <<t1, t2>>
OneTable == [t \in Tasks |-> s]
OneAgent == [t \in Tasks |-> k]
QuotaOne == [x \in {k} |-> 1]
Alike == Permutations(Runs)

EveryMinute == [x \in Crons |-> 1..MaxNow]

=============================================================================
