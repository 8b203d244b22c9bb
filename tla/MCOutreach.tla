----------------------------- MODULE MCOutreach -----------------------------
(* Small instances of Outreach for TLC. *)
EXTENDS Outreach

CONSTANTS m1, o1

OneAd == {1}
TwoAds == {1, 2}
=============================================================================
