------------------------------ MODULE MCInbox ------------------------------
(* Small instances of Inbox for TLC. *)
EXTENDS Inbox

CONSTANTS m1, m2, s1, s2, sold, hit

TwoAds == {1, 2}
TwoSellers == [a \in TwoAds |-> IF a = 1 THEN s1 ELSE s2]
OneSeller == [a \in TwoAds |-> s1]
\* The page of ad 1 bears the title of ad 2.
TitleOfOther == {<<1, 2>>}
SoldOrHit == [x \in {sold, hit} |-> IF x = sold THEN "gone" ELSE "defect_admit"]
=============================================================================
