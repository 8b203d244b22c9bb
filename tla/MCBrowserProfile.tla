-------------------------- MODULE MCBrowserProfile --------------------------
(* Small instances of BrowserProfile for TLC. *)
EXTENDS BrowserProfile, TLC

CONSTANTS t1, t2

Symmetry == Permutations(Threads)
=============================================================================
