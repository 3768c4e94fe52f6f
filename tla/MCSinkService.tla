---------------------------- MODULE MCSinkService ----------------------------
(***************************************************************************)
(* Small instances of SinkService: runs a and b want the same target table,*)
(* run c another one.                                                      *)
(***************************************************************************)
EXTENDS SinkService, TLC

CONSTANTS a, b, c, t1, t2

SharedTableOf == [r \in Runs |-> IF r = c THEN t2 ELSE t1]

WorkerSymmetry == Permutations(Workers)

=============================================================================
