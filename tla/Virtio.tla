------------------------------- MODULE Virtio -------------------------------
(***************************************************************************)
(* The virtio block driver (kernel/driver/virtio.c): the descriptor table  *)
(* with its free list, the available and used rings with their wrapping    *)
(* indices, the operation of a caller, the interrupt handler, and a device *)
(* that finishes requests in any order.                                    *)
(*                                                                         *)
(* disk.lk is taken and released in one step each.  sleep() and wakeup()   *)
(* are the atomic pair that Sched shows them to be: sleep() gives the lock *)
(* back and goes to sleep in one step, and takes it again after wakeup().  *)
(***************************************************************************)
EXTENDS Integers, FiniteSets

CONSTANTS
    NQUEUE,     \* descriptors, and slots of each ring
    IdxMod,     \* the ring indices count modulo this: 2^16 in the code
    Threads,    \* the processes that use the disk
    BufOf       \* the buffer each one reads or writes

ASSUME NQUEUEAssumption == NQUEUE \in Nat \ {0}
ASSUME IdxModAssumption == IdxMod \in Nat \ {0} /\ IdxMod % NQUEUE = 0
ASSUME ThreadsAssumption == IsFiniteSet(Threads)
ASSUME NamesAssumption == "none" \notin Threads /\ "intr" \notin Threads

Desc == 0 .. NQUEUE - 1
Idx == 0 .. IdxMod - 1
NoOne == "none"
NoBuf == "null"
Bufs == {BufOf[t] : t \in Threads}

VARIABLES
    flags,          \* desc[].flags & VIRTQ_DESC_F_NEXT
    next,           \* desc[].next
    addr,           \* the caller whose header, buffer and status desc[] points to
    free_head, nfree,
    availRing, availIdx,
    usedRing, usedIdx,
    last_used_idx,
    done,           \* info[].done
    buf,            \* info[].buf
    seen,           \* device: how far it has read the available ring
    inflight,       \* device: chains it works on
    isr,            \* device: INTERRUPT_STATUS, the level of the interrupt line
    lk,             \* holder of disk.lk: a thread, the handler, or NoOne
    pc,             \* each thread
    d0,             \* its local d0
    hpc,            \* the interrupt handler
    served,         \* history: the device has finished the thread's request
    panic

desc == <<flags, next, addr, free_head, nfree>>
rings == <<availRing, availIdx, usedRing, usedIdx, last_used_idx>>
info == <<done, buf>>
device == <<seen, inflight, isr>>
vars == <<desc, rings, info, device, lk, pc, d0, hpc, served, panic>>

TypeOK ==
    /\ flags \in [Desc -> BOOLEAN]
    /\ next \in [Desc -> Desc]
    /\ addr \in [Desc -> Threads \cup {NoOne}]
    /\ free_head \in Desc
    /\ nfree \in 0 .. NQUEUE
    /\ availRing \in [Desc -> Desc]
    /\ usedRing \in [Desc -> Desc]
    /\ {availIdx, usedIdx, last_used_idx, seen} \subseteq Idx
    /\ done \in [Desc -> BOOLEAN]
    /\ buf \in [Desc -> Bufs \cup {NoBuf}]
    /\ inflight \subseteq Desc
    /\ isr \in BOOLEAN
    /\ lk \in Threads \cup {NoOne, "intr"}
    /\ pc \in [Threads -> {"idle", "publish", "notify", "check", "asleep", "awake"}]
    /\ d0 \in [Threads -> Desc]
    /\ hpc \in {"idle", "ack", "loop"}
    /\ served \in [Threads -> BOOLEAN]
    /\ panic \in BOOLEAN

\* virtq_init() and desc_init(): each descriptor but the last has F_NEXT.
Init ==
    /\ flags = [d \in Desc |-> d # NQUEUE - 1]
    /\ next = [d \in Desc |-> IF d # NQUEUE - 1 THEN d + 1 ELSE 0]
    /\ addr = [d \in Desc |-> NoOne]
    /\ free_head = 0
    /\ nfree = NQUEUE
    /\ availRing = [d \in Desc |-> 0]
    /\ availIdx = 0
    /\ usedRing = [d \in Desc |-> 0]
    /\ usedIdx = 0
    /\ last_used_idx = 0
    /\ done = [d \in Desc |-> FALSE]
    /\ buf = [d \in Desc |-> NoBuf]
    /\ seen = 0
    /\ inflight = {}
    /\ isr = FALSE
    /\ lk = NoOne
    /\ pc = [t \in Threads |-> "idle"]
    /\ d0 = [t \in Threads |-> 0]
    /\ hpc = "idle"
    /\ served = [t \in Threads |-> FALSE]
    /\ panic = FALSE

Goto(t, to) == pc' = [pc EXCEPT ![t] = to]

\* Mutant: an index that does not wrap.
IncNoWrap(i) == i + 1

\* idx++ on a u16.
Inc(i) == (i + 1) % IdxMod

-----------------------------------------------------------------------------
(* The descriptor table.                                                   *)

q == [flags |-> flags, next |-> next, head |-> free_head, nfree |-> nfree]

\* alloc_desc() when the free list is not empty.
alloc_desc(v) ==
    [v EXCEPT !.head = IF v.flags[@] THEN v.next[@] ELSE @, !.nfree = @ - 1]

\* The three descriptors of a request, linked as virtio_blk_op() links them.
AllocChain(v) ==
    LET a == v.head
        v1 == [alloc_desc(v) EXCEPT !.flags[a] = TRUE]
        b == v1.head
        v2 == [alloc_desc(v1) EXCEPT !.next[a] = b, !.flags[b] = TRUE]
        c == v2.head
    IN  [alloc_desc(v2) EXCEPT !.next[b] = c, !.flags[c] = FALSE, !.next[c] = 0]

\* The descriptors reached from n by i links.
Link(v, n) ==
    LET f[i \in 0 .. NQUEUE] == IF i = 0 THEN n ELSE v.next[f[i - 1]] IN f

\* The number of links with F_NEXT from n on.
Length(v, n) ==
    CHOOSE i \in 0 .. NQUEUE :
        /\ ~v.flags[Link(v, n)[i]]
        /\ \A j \in 0 .. i - 1 : v.flags[Link(v, n)[j]]
Chain(v, n) == {Link(v, n)[i] : i \in 0 .. Length(v, n)}

\* Mutant: the tail of the freed chain is not linked to the list.
free_desc_NoLink(v, n) ==
    LET k == Length(v, n)
        tail == Link(v, n)[k]
    IN  [v EXCEPT !.flags[tail] = TRUE, !.head = n, !.nfree = @ + k + 1]

\* free_desc(): the whole chain goes to the front of the free list; the old
\* list is linked behind it unless it was empty.
free_desc(v, n) ==
    LET k == Length(v, n)
        tail == Link(v, n)[k]
    IN  [v EXCEPT !.flags[tail] = TRUE,
                  !.next[tail] = IF v.nfree = 0 THEN @ ELSE v.head,
                  !.head = n,
                  !.nfree = @ + k + 1]

SetQueue(v) ==
    /\ flags' = v.flags
    /\ next' = v.next
    /\ free_head' = v.head
    /\ nfree' = v.nfree

-----------------------------------------------------------------------------
(* virtio_blk_op() by thread t.                                            *)

\* acquire(&disk.lk), three descriptors, the ring slot.
OpAlloc(t) ==
    /\ ~panic
    /\ pc[t] = "idle"
    /\ lk = NoOne
    /\ nfree >= 3
    /\ lk' = t
    /\ LET v == AllocChain(q) IN
          /\ SetQueue(v)
          /\ addr' = [d \in Desc |-> IF d \in Chain(v, free_head) THEN t ELSE addr[d]]
    /\ d0' = [d0 EXCEPT ![t] = free_head]
    /\ availRing' = [availRing EXCEPT ![availIdx % NQUEUE] = free_head]
    /\ Goto(t, "publish")
    /\ UNCHANGED <<availIdx, usedRing, usedIdx, last_used_idx, info, device,
                   hpc, served, panic>>

\* alloc_desc() with an empty free list: panic("virtq kokatu").
OpKokatu(t) ==
    /\ ~panic
    /\ pc[t] = "idle"
    /\ lk = NoOne
    /\ nfree < 3
    /\ panic' = TRUE
    /\ UNCHANGED <<desc, rings, info, device, lk, pc, d0, hpc, served>>

\* avail->idx++
OpPublish(t) ==
    /\ ~panic
    /\ pc[t] = "publish"
    /\ availIdx' = Inc(availIdx)
    /\ Goto(t, "notify")
    /\ UNCHANGED <<desc, availRing, usedRing, usedIdx, last_used_idx, info,
                   device, lk, d0, hpc, served, panic>>

\* info[d0].buf = buf, and the notification.
OpNotify(t) ==
    /\ ~panic
    /\ pc[t] = "notify"
    /\ buf' = [buf EXCEPT ![d0[t]] = BufOf[t]]
    /\ Goto(t, "check")
    /\ UNCHANGED <<desc, rings, done, device, lk, d0, hpc, served, panic>>

\* while(!info[d0].done) sleep(buf, &disk.lk);
OpSleep(t) ==
    /\ ~panic
    /\ pc[t] = "check"
    /\ ~done[d0[t]]
    /\ lk' = NoOne
    /\ Goto(t, "asleep")
    /\ UNCHANGED <<desc, rings, info, device, d0, hpc, served, panic>>

OpAwake(t) ==
    /\ ~panic
    /\ pc[t] = "awake"
    /\ lk = NoOne
    /\ lk' = t
    /\ Goto(t, "check")
    /\ UNCHANGED <<desc, rings, info, device, d0, hpc, served, panic>>

\* Mutant: done stays set.
OpReturnKeepsDone(t) ==
    /\ ~panic
    /\ pc[t] = "check"
    /\ done[d0[t]]
    /\ SetQueue(free_desc(q, d0[t]))
    /\ addr' = [d \in Desc |-> IF d \in Chain(q, d0[t]) THEN NoOne ELSE addr[d]]
    /\ d0' = [d0 EXCEPT ![t] = 0]
    /\ lk' = NoOne
    /\ Goto(t, "idle")
    /\ served' = [served EXCEPT ![t] = FALSE]
    /\ UNCHANGED <<rings, info, device, hpc, panic>>

\* info[d0].done = 0; free_desc(d0); release(&disk.lk).  (What a free descriptor
\* points to and the local d0 are dead from here on; the model clears them.)
OpReturn(t) ==
    /\ ~panic
    /\ pc[t] = "check"
    /\ done[d0[t]]
    /\ done' = [done EXCEPT ![d0[t]] = FALSE]
    /\ SetQueue(free_desc(q, d0[t]))
    /\ addr' = [d \in Desc |-> IF d \in Chain(q, d0[t]) THEN NoOne ELSE addr[d]]
    /\ d0' = [d0 EXCEPT ![t] = 0]
    /\ lk' = NoOne
    /\ Goto(t, "idle")
    /\ served' = [served EXCEPT ![t] = FALSE]
    /\ UNCHANGED <<rings, buf, device, hpc, panic>>

-----------------------------------------------------------------------------
(* The device.                                                             *)

\* (A ring slot is dead once it has been read; the model then zeroes it.)
DevFetch ==
    /\ ~panic
    /\ seen # availIdx
    /\ inflight' = inflight \cup {availRing[seen % NQUEUE]}
    /\ seen' = Inc(seen)
    /\ availRing' = [availRing EXCEPT ![seen % NQUEUE] = 0]
    /\ UNCHANGED <<desc, availIdx, usedRing, usedIdx, last_used_idx, info, isr,
                   lk, pc, d0, hpc, served, panic>>

\* Transfer, status byte (0: no disk error), used ring, interrupt.  The request that is served
\* is the one whose memory the chain points to.
DevFinish(d) ==
    /\ ~panic
    /\ d \in inflight
    /\ inflight' = inflight \ {d}
    /\ served' = [t \in Threads |->
                     served[t] \/ \A e \in Chain(q, d) : addr[e] = t]
    /\ usedRing' = [usedRing EXCEPT ![usedIdx % NQUEUE] = d]
    /\ usedIdx' = Inc(usedIdx)
    /\ isr' = TRUE
    /\ UNCHANGED <<desc, availRing, availIdx, last_used_idx, info, seen, lk, pc,
                   d0, hpc, panic>>

-----------------------------------------------------------------------------
(* virtio_blk_intr()                                                       *)

IntrEnter ==
    /\ ~panic
    /\ hpc = "idle"
    /\ isr
    /\ lk = NoOne
    /\ lk' = "intr"
    /\ hpc' = "ack"
    /\ UNCHANGED <<desc, rings, info, device, pc, d0, served, panic>>

\* INTERRUPT_ACK, before the used ring is read.
IntrAck ==
    /\ ~panic
    /\ hpc = "ack"
    /\ isr' = FALSE
    /\ hpc' = "loop"
    /\ UNCHANGED <<desc, rings, info, seen, inflight, lk, pc, d0, served, panic>>

\* Mutant: one entry per interrupt is taken to be enough.
IntrUsedSkips ==
    /\ ~panic
    /\ hpc = "loop"
    /\ last_used_idx # usedIdx
    /\ LET d == usedRing[last_used_idx % NQUEUE] IN
          /\ done' = [done EXCEPT ![d] = TRUE]
          /\ pc' = [t \in Threads |->
                       IF pc[t] = "asleep" /\ BufOf[t] = buf[d]
                       THEN "awake" ELSE pc[t]]
          /\ buf' = [buf EXCEPT ![d] = NoBuf]
    /\ last_used_idx' = usedIdx
    /\ usedRing' = [usedRing EXCEPT ![last_used_idx % NQUEUE] = 0]
    /\ UNCHANGED <<desc, availRing, availIdx, usedIdx, device, lk, d0, hpc,
                   served, panic>>

\* One round of the loop: done, wakeup(info[d].buf), buf = NULL.
IntrUsed ==
    /\ ~panic
    /\ hpc = "loop"
    /\ last_used_idx # usedIdx
    /\ LET d == usedRing[last_used_idx % NQUEUE] IN
          /\ done' = [done EXCEPT ![d] = TRUE]
          /\ pc' = [t \in Threads |->
                       IF pc[t] = "asleep" /\ BufOf[t] = buf[d]
                       THEN "awake" ELSE pc[t]]
          /\ buf' = [buf EXCEPT ![d] = NoBuf]
    /\ last_used_idx' = Inc(last_used_idx)
    /\ usedRing' = [usedRing EXCEPT ![last_used_idx % NQUEUE] = 0]
    /\ UNCHANGED <<desc, availRing, availIdx, usedIdx, device, lk, d0, hpc,
                   served, panic>>

IntrLeave ==
    /\ ~panic
    /\ hpc = "loop"
    /\ last_used_idx = usedIdx
    /\ lk' = NoOne
    /\ hpc' = "idle"
    /\ UNCHANGED <<desc, rings, info, device, pc, d0, served, panic>>

-----------------------------------------------------------------------------
OpStep(t) ==
    \/ OpPublish(t) \/ OpNotify(t) \/ OpSleep(t) \/ OpAwake(t) \/ OpReturn(t)
DevStep == DevFetch \/ \E d \in Desc : DevFinish(d)
IntrStep == IntrEnter \/ IntrAck \/ IntrUsed \/ IntrLeave

Next ==
    \/ \E t \in Threads : OpAlloc(t) \/ OpKokatu(t) \/ OpStep(t)
    \/ DevStep
    \/ IntrStep

\* Every process that is in the driver goes on and gets disk.lk in the end;
\* the device works through what it is given; a raised interrupt is taken.
Fairness ==
    /\ \A t \in Threads : SF_vars(OpStep(t))
    /\ WF_vars(DevFetch)
    /\ \A d \in Desc : WF_vars(DevFinish(d))
    /\ SF_vars(IntrStep)

Spec == Init /\ [][Next]_vars
FairSpec == Spec /\ Fairness

-----------------------------------------------------------------------------
(* Properties.                                                             *)

Busy == {t \in Threads : pc[t] # "idle"}
FreeSet == {Link(q, free_head)[i] : i \in 0 .. nfree - 1}

\* The free list and the chains in use share no descriptor and lose none:
\* following nfree links from free_head meets nfree different descriptors,
\* none of them in a chain, and every chain is three descriptors of its own.
FreeListSound ==
    /\ Cardinality(FreeSet) = nfree
    /\ \A t \in Busy :
          /\ Cardinality(Chain(q, d0[t])) = 3
          /\ Chain(q, d0[t]) \cap FreeSet = {}
          /\ \A u \in Busy \ {t} : Chain(q, d0[t]) \cap Chain(q, d0[u]) = {}
    /\ nfree + 3 * Cardinality(Busy) = NQUEUE

\* An operation returns only after the device has finished that very request,
\* whatever the order in which requests finish and descriptors are reused.
ReturnsServed == \A t \in Threads : pc[t] # "idle" /\ done[d0[t]] => served[t]

\* Every disk operation returns, unless a third one stops the kernel.
OpReturns == \A t \in Threads : pc[t] # "idle" ~> pc[t] = "idle" \/ panic
=============================================================================
