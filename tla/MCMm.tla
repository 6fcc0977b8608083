-------------------------------- MODULE MCMm --------------------------------
(* Mm for TLC: tables of two entries, pages of two bytes.                  *)
EXTENDS Mm

MCFrames == 1 .. 24
\* The state up to a renaming of frames: what is mapped, which tables there are, who
\* shares, how many frames are free or lost.  A state that breaks an invariant is
\* never taken for one that does not.
Tables(pgt, vpn) ==
    LET l2 == EntryAt(mem, pgt, PIDX(1, vpn)) IN <<l2 # NULL, EntryAt(mem, l2, PIDX(2, vpn)) # NULL>>
Shape(pgt) == [vpn \in Vpns |-> <<FrameAt(mem, pgt, vpn) # NULL, Tables(pgt, vpn)>>]
MmView ==
    <<[p \in Procs |-> IF proc[p].state = "live"
                       THEN <<proc[p].size, proc[p].th, Sharers(p),
                              IF Good THEN Shape(proc[p].pgt) ELSE <<>> >>
                       ELSE <<proc[p].state>>],
      Cardinality(mem.free), Cardinality(lost), mem.st, misused, SpaceExact, FramesOwned>>

MCIncrs == {-1, 1, 2}

Load(va, memsz, filesz) == [load |-> TRUE, va |-> va, memsz |-> memsz, filesz |-> filesz]
Other == [load |-> FALSE, va |-> 5, memsz |-> 9, filesz |-> 0]
\* One segment, and two with a header between them, as exec() takes for granted.
Linked == {<<Load(2, 3, 1)>>, <<Load(2, 2, 2), Other, Load(4, 1, 0)>>}
\* It takes any other file as well: two segments with pages that are not full, one
\* that begins within a page, one that begins at page 2, two in the same page, and
\* one that is larger in the file than in memory.
MCPrograms ==
    Linked \cup {<<Load(2, 1, 1), Load(4, 1, 1)>>, <<Load(3, 2, 1)>>, <<Load(4, 2, 2)>>,
                <<Load(2, 1, 1), Load(2, 1, 1)>>, <<Load(2, 2, 5)>>}
=============================================================================
