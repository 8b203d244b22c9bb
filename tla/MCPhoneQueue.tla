---------------------------- MODULE MCPhoneQueue ----------------------------
(* Small instances of PhoneQueue for TLC. *)
EXTENDS PhoneQueue, TLC

CONSTANTS a1, a2, m1, m2, o1

OneLead == {1}
TwoLeads == {1, 2}
ThreeLeads == {1, 2, 3}

AccountSymmetry == Permutations(Accounts)
WorkerSymmetry == Permutations(Accounts) \cup Permutations(Monitors)
=============================================================================
