------------------------------ MODULE MCVirtio ------------------------------
(* Virtio for TLC: the code's queue of 8, indices that wrap at 16. *)
EXTENDS Virtio

CONSTANTS t1, t2, t3

TwoThreads == {t1, t2}
ThreeThreads == {t1, t2, t3}
\* Two readers of the same block, and one of another.
MCBufOf == [t \in {t1, t2, t3} |-> IF t = t3 THEN "b2" ELSE "b1"]
=============================================================================
