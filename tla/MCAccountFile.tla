---------------------------- MODULE MCAccountFile ----------------------------
(* Small instances of AccountFile for TLC. *)
EXTENDS AccountFile, TLC

CONSTANTS a1, a2, t1, t2

Symmetry == Permutations(Accounts) \cup Permutations(Threads)
=============================================================================
