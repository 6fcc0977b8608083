------------------------------- MODULE MCExt2 -------------------------------
(* Ext2 for TLC: a disk as mkfs leaves it, with two files in its root.     *)
EXTENDS Ext2

MCStrLen == [n \in {"", ".", "..", "R", "p", "a", "wxyz", "long"} |->
                CASE n = "" -> 0 [] n = ".." -> 2 [] n = "wxyz" -> 4 [] n = "long" -> 6
                  [] OTHER -> 1]

\* Block 1 is the superblock, 5 the inode table; R has one block too many for
\* the direct ones, and block 9 maps it, which i_blocks counts too; p is a
\* program that nobody writes to.
RootEnts == <<Dirent(2, ".", DIR, 12), Dirent(2, "..", DIR, 12),
              Dirent(3, "R", REG, 12), Dirent(4, "p", REG, BSIZE - 36)>>
File(mode, size, n, b) == [mode |-> mode, size |-> size, links |-> 1, nblock |-> n, block |-> b]
MCIndirect == [b \in {9} |-> <<10, 0>>]
Table == [i \in Inums |->
    CASE i = 2 -> [File(DIR, BSIZE, 1, [n \in 0 .. NDIRECT |-> IF n = 0 THEN 6 ELSE 0])
                     EXCEPT !.links = 2]
      [] i = 3 -> File(REG, 2 * BSIZE + 10, 4, [n \in 0 .. NDIRECT |-> 7 + n])
      [] i = 4 -> File(REG, 8, 1, [n \in 0 .. NDIRECT |-> IF n = 0 THEN 11 ELSE 0])
      [] OTHER -> NewInode]
MCImage ==
    [bbmp |-> 0 .. 10 \cup {NBLOCK - 1}, ibmp |-> 1 .. 4, itab |-> Table,
     ents |-> [b \in Blocks |-> IF b = 6 THEN RootEnts ELSE << >>],
     data |-> [b \in Blocks |-> [k \in Bytes |-> 0]],
     icache |-> 2 :> Table[2]]

MCWrites == {<<0, BSIZE>>, <<BSIZE - 4, 8>>}

Abs(names) == [abs |-> TRUE, names |-> names]
Rel(names) == [abs |-> FALSE, names |-> names]
MCPaths == {Abs(<<"a">>), Abs(<<"wxyz">>), Abs(<<"a", "wxyz">>), Abs(<<"a", "a">>),
            Abs(<<"a", "">>), Abs(<<"a", "a", "a">>), Abs(<<"R", "a">>), Abs(<<>>),
            Rel(<<"a">>), Rel(<<"..">>), Rel(<<"long">>)}
=============================================================================
