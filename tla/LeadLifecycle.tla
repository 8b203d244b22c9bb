---------------------------- MODULE LeadLifecycle ----------------------------
(***************************************************************************)
(* What the phone queue promises about one ad: it is queued once, resolved *)
(* only from the queue, and a number that was found is kept until the ad   *)
(* itself disappears.  phone_status as a user of the panel sees it, the    *)
(* claim of a worker left out.                                             *)
(***************************************************************************)
CONSTANT Leads

VARIABLE stage

Stages == {"absent", "queued", "retired", "found", "hidden", "removed"}

Init == stage = [l \in Leads |-> "absent"]

Move(ls, from, to) ==
    /\ \A l \in ls : stage[l] \in from
    /\ stage' = [l \in Leads |-> IF l \in ls THEN to ELSE stage[l]]

\* One page of search results enters the queue.
Discover(ls) == Move(ls, {"absent"}, "queued")

\* The contact of a queued ad is known: a number, chat only, or no ad any more.
Resolve(l, answer) == Move({l}, {"queued"}, answer)

\* The operator has chat-only ads tried again.
Retry(ls) == Move(ls, {"hidden"}, "queued")

\* A start for new ads only puts the whole queue aside for good.
Retire == Move({l \in Leads : stage[l] = "queued"}, {"queued"}, "retired")

\* The pages of these ads are gone.
Vanish(ls) == Move(ls, Stages \ {"absent"}, "removed")

Next ==
    \/ \E ls \in SUBSET Leads : Discover(ls) \/ Retry(ls) \/ Vanish(ls)
    \/ \E l \in Leads, answer \in {"found", "hidden", "removed"} :
            Resolve(l, answer)
    \/ Retire

Spec == Init /\ [][Next]_stage
=============================================================================
