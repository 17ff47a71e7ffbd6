-------------------------- MODULE MCOutageTimeline --------------------------
(* A small instance of OutageTimeline: one dish cause, a clock of a few     *)
(* units of 30 s, closed outages remembered for the unit they end in.       *)
EXTENDS OutageTimeline
=============================================================================
