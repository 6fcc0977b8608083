---------------------------- MODULE AbstractLock ----------------------------
(***************************************************************************)
(* What a spin lock of the kernel promises to its callers                  *)
(* (kernel/spinlock.c): each lock has at most one owner, an activity takes *)
(* a lock in one indivisible step when nobody has it, and only the owner   *)
(* gives it back.  Spinlock implements this specification; Sched and       *)
(* Virtio use the locks at this level of detail.                           *)
(***************************************************************************)
CONSTANTS
    Locks,      \* the locks
    Acts,       \* the activities that may hold one
    NoAct       \* the owner of a free lock; not in Acts

VARIABLE owner

Init == owner = [l \in Locks |-> NoAct]

Acquire(a, l) ==
    /\ owner[l] = NoAct
    /\ owner' = [owner EXCEPT ![l] = a]

Release(a, l) ==
    /\ owner[l] = a
    /\ owner' = [owner EXCEPT ![l] = NoAct]

Next == \E a \in Acts, l \in Locks : Acquire(a, l) \/ Release(a, l)

Spec == Init /\ [][Next]_owner
=============================================================================
