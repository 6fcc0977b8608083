----------------------------- MODULE MCUMalloc ------------------------------
(* UMalloc for TLC: a heap that grows by four units at a time. *)
EXTENDS UMalloc

\* The state without what old headers have left in memory that no list and no
\* block refers to: nothing reads it again.
InUse == Listed(Found) \cup {x[1] : x \in live}
HeapView ==
    <<[a \in InUse |-> size[a]], [a \in Listed(Found) |-> Found.ptr[a]],
      freep, brk, areas, live>>
=============================================================================
