----------------------------- MODULE MCConsole ------------------------------
(* Console for TLC: reads into a buffer whose page ends after its first    *)
(* byte and into others.                                                   *)
EXTENDS Console

MCRoom == [b \in Bufs \cup Wild |-> IF b = CHOOSE x \in Bufs : TRUE THEN 1 ELSE 2]
=============================================================================
