------------------------------ MODULE UMalloc -------------------------------
(***************************************************************************)
(* The heap of a user program (usr/malloc.c): a circular free list in      *)
(* address order, searched first fit from where the last search ended,     *)
(* with neighbours joined when a block is given back.                      *)
(*                                                                         *)
(* Addresses count units of sizeof(union memhdr); 0 is the variable base,  *)
(* which the linker puts below the heap.  A block is known by the address  *)
(* of its header.  A program has one thread in malloc() at a time, as in   *)
(* usr/, so each call is one step.                                         *)
(***************************************************************************)
EXTENDS Integers

CONSTANTS
    MaxAddr,    \* end of the address space of the heap
    MaxUnits,   \* the largest request, with its header
    MINALLOC    \* units morecore() asks for at least

ASSUME MaxAddrAssumption == MaxAddr \in Nat
ASSUME MaxUnitsAssumption == MaxUnits \in Nat /\ MaxUnits >= 2
ASSUME MINALLOCAssumption == MINALLOC \in Nat \ {0}

Addr == 0 .. MaxAddr
base == 0
NULL == -1

VARIABLES
    ptr, size,  \* the fields of the header at each address
    freep,
    brk,        \* what the next sbrk() returns
    areas,      \* history: the units that sbrk() has given
    live        \* history: the blocks in use, with the units asked for

heap == <<ptr, size, freep>>
vars == <<heap, brk, areas, live>>

Units(a, n) == a .. a + n - 1
Area(l) == UNION {Units(x[1], x[2]) : x \in l}

Init ==
    /\ ptr = [a \in Addr |-> NULL]
    /\ size = [a \in Addr |-> 0]
    /\ freep = NULL
    /\ brk = 1
    /\ areas = {}
    /\ live = {}

-----------------------------------------------------------------------------
(* A list h is a record of ptr, size and freep, so that malloc() can work  *)
(* on what free() leaves behind.                                           *)

\* The header k links after a.
Link(h, a, k) ==
    LET at[i \in 0 .. k] == IF i = 0 THEN a ELSE h.ptr[at[i - 1]] IN at[k]

\* The number of links after which the walk is at freep again.
Round(h) ==
    CHOOSE k \in 1 .. MaxAddr + 1 :
        /\ Link(h, h.freep, k) = h.freep
        /\ \A j \in 1 .. k - 1 : Link(h, h.freep, j) # h.freep

\* The headers of the list.
Listed(h) == IF h.freep = NULL THEN {}
             ELSE {Link(h, h.freep, k) : k \in 1 .. Round(h)}

\* Where the search of free() for the neighbours of bp stops.
Before(h, p, bp) ==
    \/ p < bp /\ bp < h.ptr[p]
    \/ h.ptr[p] <= p /\ (p < bp \/ bp < h.ptr[p])

Neighbour(h, bp) ==
    LET k == CHOOSE i \in 0 .. MaxAddr + 1 :
                 /\ Before(h, Link(h, h.freep, i), bp)
                 /\ \A j \in 0 .. i - 1 : ~Before(h, Link(h, h.freep, j), bp)
    IN Link(h, h.freep, k)

\* free(): join bp with the block above it, then with the one below it.
JoinAbove(h, p, bp) ==
    LET q == h.ptr[p]
    IN IF bp + h.size[bp] = q
       THEN [h EXCEPT !.size[bp] = @ + h.size[q], !.ptr[bp] = h.ptr[q]]
       ELSE [h EXCEPT !.ptr[bp] = q]

\* Mutant: the sizes are added, but the joined header stays in the list.
JoinBelowKeepsHeader(h, p, bp) ==
    [h EXCEPT !.size[p] = IF p + @ = bp THEN @ + h.size[bp] ELSE @,
              !.ptr[p] = bp]

JoinBelow(h, p, bp) ==
    IF p + h.size[p] = bp
    THEN [h EXCEPT !.size[p] = @ + h.size[bp], !.ptr[p] = h.ptr[bp]]
    ELSE [h EXCEPT !.ptr[p] = bp]

Given(h, bp) ==
    LET p == Neighbour(h, bp)
    IN [JoinBelow(JoinAbove(h, p, bp), p, bp) EXCEPT !.freep = p]

\* Blocks of the list with n units, by their distance from freep.
Fits(h, n) == {k \in 1 .. Round(h) : h.size[Link(h, h.freep, k)] >= n}

\* Mutant: the block is cut off, but its own header is not written.
TakenFromNoHeader(h, prev, p, n) ==
    IF h.size[p] = n
    THEN [list |-> [h EXCEPT !.ptr[prev] = h.ptr[p], !.freep = prev], block |-> p]
    ELSE [list |-> [h EXCEPT !.size[p] = @ - n, !.freep = prev],
          block |-> p + h.size[p] - n]

\* malloc() takes block p, which comes after prev: all of it, or its end.
TakenFrom(h, prev, p, n) ==
    IF h.size[p] = n
    THEN [list |-> [h EXCEPT !.ptr[prev] = h.ptr[p], !.freep = prev], block |-> p]
    ELSE LET q == p + h.size[p] - n
         IN [list |-> [h EXCEPT !.size[p] = @ - n, !.size[q] = n, !.freep = prev],
             block |-> q]

FirstFit(h, n) ==
    LET k == CHOOSE i \in Fits(h, n) : \A j \in Fits(h, n) : i <= j
    IN TakenFrom(h, Link(h, h.freep, k - 1), Link(h, h.freep, k), n)

-----------------------------------------------------------------------------
\* The list as malloc() finds it; its first call makes it, with base alone.
Found ==
    IF freep = NULL
    THEN [ptr |-> [ptr EXCEPT ![base] = base],
          size |-> [size EXCEPT ![base] = 0], freep |-> base]
    ELSE [ptr |-> ptr, size |-> size, freep |-> freep]

Becomes(h) == ptr' = h.ptr /\ size' = h.size /\ freep' = h.freep

\* malloc() of n units, header included, from the list h.
Returns(h, n) ==
    LET r == FirstFit(h, n)
    IN /\ Becomes(r.list)
       /\ live' = live \cup {<<r.block, n>>}

MallocHit(n) ==
    /\ Fits(Found, n) # {}
    /\ Returns(Found, n)
    /\ UNCHANGED <<brk, areas>>

More(n) == IF MINALLOC > n THEN MINALLOC ELSE n

\* morecore(): sbrk() extends the heap and free() puts the new block in place.
MallocGrow(n) ==
    /\ Fits(Found, n) = {}
    /\ brk + More(n) <= MaxAddr + 1
    /\ LET new == [Found EXCEPT !.size[brk] = More(n)]
       IN Returns(Given(new, brk), n)
    /\ brk' = brk + More(n)
    /\ areas' = areas \cup Units(brk, More(n))

\* sbrk() returns NULL.  It moves the break all the same (kernel/proc.c:608).
MallocFails(n) ==
    /\ Fits(Found, n) = {}
    /\ brk + More(n) <= MaxAddr + 1
    /\ brk' = brk + More(n)
    /\ Becomes(Found)
    /\ UNCHANGED <<areas, live>>

Free(x) ==
    /\ Becomes(Given(Found, x[1]))
    /\ live' = live \ {x}
    /\ UNCHANGED <<brk, areas>>

Next ==
    \/ \E n \in 2 .. MaxUnits : MallocHit(n) \/ MallocGrow(n) \/ MallocFails(n)
    \/ \E x \in live : Free(x)

Spec == Init /\ [][Next]_vars

-----------------------------------------------------------------------------
(* Properties.                                                             *)

FreeBlocks == {<<a, size[a]>> : a \in Listed(Found) \ {base}}
Disjoint(l) ==
    \A x, y \in l : x # y => Units(x[1], x[2]) \cap Units(y[1], y[2]) = {}

\* Every unit of the heap is in exactly one block, free or in use, and the
\* header of a block in use still holds its size: whatever the order of calls,
\* nothing is handed out twice and nothing is lost (malloc() against free()).
HeapPartition ==
    /\ Disjoint(FreeBlocks \cup live)
    /\ Area(FreeBlocks \cup live) = areas
    /\ \A x \in live : size[x[1]] = x[2]

\* The list is in address order with one step back, at its last block, and no
\* two blocks of it touch: free() has joined them, so a request fails only when
\* no run of free units could serve it.
ListSorted ==
    freep # NULL =>
        /\ base \in Listed(Found)
        /\ \A a \in Listed(Found) :
            /\ a < ptr[a] => \A b \in Listed(Found) : ~(a < b /\ b < ptr[a])
            /\ ptr[a] <= a => \A b \in Listed(Found) : ptr[a] <= b /\ b <= a
            /\ size[a] > 0 => a + size[a] # ptr[a]
=============================================================================
