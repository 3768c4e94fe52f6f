---------------------------- MODULE MCRitualPool ----------------------------
(* Small instances of RitualPool. *)
EXTENDS RitualPool, TLC

UserSymmetry == Permutations(Users)

=============================================================================
