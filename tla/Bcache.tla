------------------------------- MODULE Bcache -------------------------------
(***************************************************************************)
(* The buffer cache (kernel/buf.c).  A user is one use of a buffer by      *)
(* ext2.c: bio_read(), any number of changes each followed by bio_write(), *)
(* bio_free().  A process that holds two buffers is two users.             *)
(*                                                                         *)
(* bcache.lk covers get_buf(), bio_dup() and bio_free(), which are one     *)
(* step each.  valid and data are read and written without it, and         *)
(* virtio_blk_op() sleeps, so the users of one buffer interleave there.    *)
(*                                                                         *)
(* The content of a block is its marker (b, 0) and the changes (b, n) made *)
(* to it; a buffer cleared by memset() holds none of them.  The transfer   *)
(* of a block is one step between the start and the end of virtio_blk_op().*)
(***************************************************************************)
EXTENDS Integers, FiniteSets, FiniteSetsExt

CONSTANTS
    NBUF,       \* buffers
    Blocks,     \* block numbers in use; block 0 is what a hole of a file reads
    Users,
    MaxChanges  \* bound on the changes made to all blocks together

ASSUME NBUFAssumption == NBUF \in Nat \ {0}
ASSUME BlocksAssumption == Blocks \subseteq Nat
ASSUME UsersAssumption == IsFiniteSet(Users)
ASSUME MaxChangesAssumption == MaxChanges \in Nat

Bufs == 0 .. NBUF - 1
NoBuf == -1
Content == SUBSET (Blocks \X (0 .. MaxChanges))

VARIABLES
    bno, ref, valid, data,  \* the fields of bcache.buf[]
    disk,                   \* the content of each block on the disk
    pc,                     \* where each user is
    b,                      \* its buffer
    want,                   \* the block it asked for
    changes,                \* how many changes were made so far
    panic                   \* panic("buf") was called

cache == <<bno, ref, valid, data>>
local == <<pc, b, want>>
vars == <<cache, disk, local, changes, panic>>

\* Users that hold a reference, and the ones that may look at the data.
Holds(u) == pc[u] # "idle"
Using(u) == pc[u] \in {"got", "changed", "writing", "written"}

TypeOK ==
    /\ bno \in [Bufs -> Blocks \cup {0}]
    /\ ref \in [Bufs -> 0 .. Cardinality(Users)]
    /\ valid \in [Bufs -> BOOLEAN]
    /\ data \in [Bufs -> Content]
    /\ disk \in [Blocks -> Content]
    /\ pc \in [Users -> {"idle", "check", "reading", "read",
                         "got", "changed", "writing", "written"}]
    /\ b \in [Users -> Bufs \cup {NoBuf}]
    /\ want \in [Users -> Blocks \cup {0}]
    /\ changes \in 0 .. MaxChanges
    /\ panic \in BOOLEAN
    /\ \A u \in Users : Holds(u) => b[u] \in Bufs /\ want[u] \in Blocks

\* buf_init()
Init ==
    /\ bno = [i \in Bufs |-> 0]
    /\ ref = [i \in Bufs |-> 0]
    /\ valid = [i \in Bufs |-> FALSE]
    /\ data = [i \in Bufs |-> {}]
    /\ disk = [n \in Blocks |-> {<<n, 0>>}]
    /\ pc = [u \in Users |-> "idle"]
    /\ b = [u \in Users |-> NoBuf]
    /\ want = [u \in Users |-> 0]
    /\ changes = 0
    /\ panic = FALSE

At(u, from, to) ==
    /\ ~panic
    /\ pc[u] = from
    /\ pc' = [pc EXCEPT ![u] = to]

-----------------------------------------------------------------------------
(* get_buf(): the first buffer with the number, else the first free one.   *)

\* Mutant: a buffer is found only once its data has been read, so that a block
\* that is being read is cached a second time.
CachedIfValid(n) == {i \in Bufs : bno[i] = n /\ valid[i]}

Cached(n) == {i \in Bufs : bno[i] = n}
Unused == {i \in Bufs : ref[i] = 0}

\* Mutant: a hit that does not count the new user.
HitNoRef(u, n, i) ==
    /\ b' = [b EXCEPT ![u] = i]
    /\ want' = [want EXCEPT ![u] = n]
    /\ UNCHANGED cache

\* The search found buffer i: one more reference.
Hit(u, n, i) ==
    /\ ref' = [ref EXCEPT ![i] = @ + 1]
    /\ b' = [b EXCEPT ![u] = i]
    /\ want' = [want EXCEPT ![u] = n]
    /\ UNCHANGED <<bno, valid, data>>

\* It did not, and i is free: the buffer is for block n now.
Take(u, n, i) ==
    /\ ref' = [ref EXCEPT ![i] = 1]
    /\ bno' = [bno EXCEPT ![i] = n]
    /\ b' = [b EXCEPT ![u] = i]
    /\ want' = [want EXCEPT ![u] = n]
    /\ UNCHANGED <<valid, data>>

GetBuf(u, n) ==
    /\ At(u, "idle", "check")
    /\ IF Cached(n) # {} THEN Hit(u, n, Min(Cached(n)))
       ELSE Unused # {} /\ Take(u, n, Min(Unused))
    /\ UNCHANGED <<disk, changes, panic>>

\* No buffer is free: panic("buf").
GetBufPanic(u, n) ==
    /\ At(u, "idle", "idle")
    /\ Cached(n) = {} /\ Unused = {}
    /\ panic' = TRUE
    /\ UNCHANGED <<cache, disk, b, want, changes>>

-----------------------------------------------------------------------------
(* The rest of bio_read(), without the lock.                               *)

Check(u) ==
    /\ At(u, "check", IF valid[b[u]] THEN "got" ELSE "reading")
    /\ UNCHANGED <<cache, disk, b, want, changes, panic>>

\* The device copies the block into the buffer.
Transfer(u) ==
    /\ At(u, "reading", "read")
    /\ data' = [data EXCEPT ![b[u]] = disk[want[u]]]
    /\ UNCHANGED <<bno, ref, valid, disk, b, want, changes, panic>>

ReadReturn(u) ==
    /\ At(u, "read", "got")
    /\ valid' = [valid EXCEPT ![b[u]] = TRUE]
    /\ UNCHANGED <<bno, ref, data, disk, b, want, changes, panic>>

-----------------------------------------------------------------------------
(* ext2.c changes the data and calls bio_write().                          *)

Change(u) ==
    /\ At(u, "got", "changed")
    /\ changes < MaxChanges
    /\ changes' = changes + 1
    /\ data' = [data EXCEPT ![b[u]] = @ \cup {<<want[u], changes + 1>>}]
    /\ UNCHANGED <<bno, ref, valid, disk, b, want, panic>>

\* bio_write() starts; the device copies the buffer to the block it is for.
WriteStart(u) ==
    /\ At(u, "changed", "writing")
    /\ UNCHANGED <<cache, disk, b, want, changes, panic>>

WriteTransfer(u) ==
    /\ At(u, "writing", "written")
    /\ disk' = [disk EXCEPT ![bno[b[u]]] = data[b[u]]]
    /\ UNCHANGED <<cache, b, want, changes, panic>>

WriteReturn(u) ==
    /\ At(u, "written", "got")
    /\ valid' = [valid EXCEPT ![b[u]] = TRUE]
    /\ UNCHANGED <<bno, ref, data, disk, b, want, changes, panic>>

-----------------------------------------------------------------------------
\* bio_dup(): another user gets a reference to the same buffer.
BioDup(u, v) ==
    /\ u # v
    /\ ~panic
    /\ pc[u] = "got" /\ pc[v] = "idle"
    /\ ref' = [ref EXCEPT ![b[u]] = @ + 1]
    /\ pc' = [pc EXCEPT ![v] = "got"]
    /\ b' = [b EXCEPT ![v] = b[u]]
    /\ want' = [want EXCEPT ![v] = want[u]]
    /\ UNCHANGED <<bno, valid, data, disk, changes, panic>>

\* Mutant: the buffer keeps its old block, number and valid flag.
DropKeepsBlock(i) ==
    /\ ref' = [ref EXCEPT ![i] = @ - 1]
    /\ UNCHANGED <<bno, valid, data>>

\* Mutant: the buffer is cleared with users left.
DropAlwaysClears(i) ==
    /\ ref' = [ref EXCEPT ![i] = @ - 1]
    /\ bno' = [bno EXCEPT ![i] = 0]
    /\ valid' = [valid EXCEPT ![i] = FALSE]
    /\ data' = [data EXCEPT ![i] = {}]

\* What bio_free() does with buffer i after ref--; memset() for the last one.
Drop(i) ==
    /\ ref' = [ref EXCEPT ![i] = @ - 1]
    /\ IF ref[i] = 1
       THEN /\ bno' = [bno EXCEPT ![i] = 0]
            /\ valid' = [valid EXCEPT ![i] = FALSE]
            /\ data' = [data EXCEPT ![i] = {}]
       ELSE UNCHANGED <<bno, valid, data>>

\* bio_free().  Its panic("bio_free") needs ref = 0, which RefExact excludes.
BioFree(u) ==
    /\ At(u, "got", "idle")
    /\ ref[b[u]] # 0
    /\ Drop(b[u])
    /\ b' = [b EXCEPT ![u] = NoBuf]
    /\ want' = [want EXCEPT ![u] = 0]
    /\ UNCHANGED <<disk, changes, panic>>

Next ==
    \/ \E u \in Users, n \in Blocks : GetBuf(u, n) \/ GetBufPanic(u, n)
    \/ \E u \in Users :
        \/ Check(u) \/ Transfer(u) \/ ReadReturn(u)
        \/ Change(u) \/ WriteStart(u) \/ WriteTransfer(u) \/ WriteReturn(u)
        \/ BioFree(u)
    \/ \E u, v \in Users : BioDup(u, v)

Spec == Init /\ [][Next]_vars

-----------------------------------------------------------------------------
(* Properties.  Block 0 is left out of those about blocks: a cleared       *)
(* buffer has bno 0 too, so get_buf(0) may find a free buffer although     *)
(* another one is in use for block 0.                                      *)

\* All users of a block share one buffer, and it stays the buffer of that
\* block as long as anyone uses it, whatever the others read and free
\* (get_buf() against bio_free()).
OneBufPerBlock ==
    \A u, v \in Users :
        Holds(u) /\ Holds(v) /\ want[u] # 0 =>
            /\ bno[b[u]] = want[u]
            /\ want[u] = want[v] => b[u] = b[v]

\* ref is the number of users.  So bio_free() never panics and no buffer is
\* cleared, or kept, by a wrong count.
RefExact ==
    \A i \in Bufs : ref[i] = Cardinality({u \in Users : Holds(u) /\ b[u] = i})

\* What bio_read() returns holds every change that has reached the disk, and
\* nothing of another block, although valid is tested without the lock and
\* the block may be read twice.
SeesWrites ==
    \A u \in Users :
        Using(u) /\ want[u] # 0 =>
            /\ disk[want[u]] \subseteq data[b[u]]
            /\ \A c \in data[b[u]] : c[1] = want[u]

\* No write to the disk undoes another one: a change that was on the disk
\* stays there (bio_write() of a buffer that others read and change).
NoWriteUndone ==
    [][\A n \in Blocks \ {0} : disk[n] \subseteq disk'[n]]_vars
=============================================================================
