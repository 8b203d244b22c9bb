---------------------------- MODULE MCCollector ----------------------------
(* Small instances of Collector for TLC. *)
EXTENDS Collector

TwoLeads == {1, 2}
=============================================================================
