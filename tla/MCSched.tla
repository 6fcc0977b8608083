------------------------------ MODULE MCSched -------------------------------
(* Sched for TLC; the bounds are in the configurations. *)
EXTENDS Sched
=============================================================================
