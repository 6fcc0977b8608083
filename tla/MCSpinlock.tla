----------------------------- MODULE MCSpinlock -----------------------------
(* Spinlock for TLC: two CPUs, two nested locks. *)
EXTENDS Spinlock
=============================================================================
