----------------------------- MODULE MCTracker -----------------------------
(* A beacon at a known position, a tag that moves, and one that is only     *)
(* heard; an aggregation time of two seconds, and three packets in two.     *)
EXTENDS Tracker
=============================================================================
