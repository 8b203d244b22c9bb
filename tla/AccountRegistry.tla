--------------------------- MODULE AccountRegistry ---------------------------
(***************************************************************************)
(* What the callers of AccountManager take state.json for: one status per  *)
(* account, and updates that are atomic, touch one account and are kept.   *)
(***************************************************************************)
CONSTANTS Accounts, Statuses

VARIABLE status     \* "unset" while there is no record

Init == status = [a \in Accounts |-> "unset"]

Update(a, s) == status' = [status EXCEPT ![a] = s]

Next == \E a \in Accounts, s \in Statuses \cup {"unset"} : Update(a, s)

Spec == Init /\ [][Next]_status
=============================================================================
