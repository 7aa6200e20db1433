------------------------------ MODULE MCSched -------------------------------
(* Instances of Sched for TLC.                                             *)
EXTENDS Registers

LoadFailures == LoadPoints
=============================================================================
