----------------------------- MODULE MCSupervisor -----------------------------
(***************************************************************************)
(* Small instances of Supervisor: one run, its child and the agent.          *)
(***************************************************************************)
EXTENDS Supervisor, TLC

CONSTANTS a, t1

OneTableOf == [r \in Runs |-> t1]
AllStages == Stages

WorkerSymmetry == Permutations(Workers)

=============================================================================
