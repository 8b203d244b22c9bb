------------------------------ MODULE MCBrowser ------------------------------
(* Small instances of Browser for TLC. *)
EXTENDS Browser

CONSTANTS t1, i1, r1

\* After downloads have overlapped, what a death leaves behind is not looked at:
\* the invariants excuse the overlap.
OverlapOrDeath == together => crashes = 0
=============================================================================
