--------------------------- MODULE MCDivarClient ---------------------------
(* Small instances of DivarClient for TLC. *)
EXTENDS DivarClient, TLC

CONSTANTS t1, t2, a1, p1, p2

MCTransports == <<"requests", "urllib">>
MCCalls == t1 :> AllCalls @@ t2 :> {"confirm"}
Symmetry == Permutations(Phones)
=============================================================================
