-------------------------------- MODULE Ext2 --------------------------------
(***************************************************************************)
(* The file system (kernel/ext2.c) with its inode cache (kernel/fs.c): the *)
(* two bitmaps, the inode table, directory blocks byte by byte as far as   *)
(* positions and lengths go, path walks, mkdir, mknod, chdir, read and     *)
(* write, and a reboot, which keeps the disk and loses the cache.          *)
(*                                                                         *)
(* A call of the file system is one step: calls that overlap, which        *)
(* nothing in the code prevents, are not modelled.  bio_write() writes     *)
(* through, so that a buffer is the block on the disk (module Bcache).     *)
(* Cache entries are never released: release_inode() has no caller.        *)
(*                                                                         *)
(* A path is the sequence of its elements; an empty last element stands    *)
(* for what "a//" or "/" has behind the last name.                         *)
(***************************************************************************)
EXTENDS Integers, Sequences, FiniteSets, TLC

CONSTANTS
    BSIZE,          \* bytes of a block
    NDIRECT,        \* direct blocks of an inode
    NINODE,         \* entries of the inode cache
    DIRENT_NAME_MAX,
    NBLOCK, NINUM,  \* blocks and inodes of the disk
    Image,          \* the file system that mkfs has made
    Indirect,       \* what the indirect blocks of its files hold
    StrLen,         \* the length of each name
    Paths,          \* paths that programs use
    Writes,         \* offsets and sizes of their writes
    Offs, Sizes,    \* offsets and sizes that WriteStores tries in every state
    Programs,       \* inodes that nobody writes to
    Procs

ASSUME SizesAssumption == BSIZE % 4 = 0 /\ NDIRECT \in Nat \ {0}
ASSUME NamesAssumption == "." \in DOMAIN StrLen /\ ".." \in DOMAIN StrLen

EXT2_ROOT_INO == 2
DIR == "dir"
REG == "reg"
CHR == "chr"
NULL == 0
MinOf(S) == CHOOSE x \in S : \A y \in S : x <= y

VARIABLES
    fs,     \* [bbmp, ibmp, itab, ents, data]: the disk; [icache]: the cache
    cwd,    \* the current directory of each process
    halted  \* the kernel has read through a NULL inode

vars == <<fs, cwd, halted>>

Inums == 1 .. NINUM
Blocks == 0 .. NBLOCK - 1
Bytes == 0 .. BSIZE - 1
NewInode == [mode |-> "none", size |-> 0, links |-> 0, nblock |-> 0,
             block |-> [n \in 0 .. NDIRECT |-> 0]]

\* The result of an operation; AndThen goes on after success.
Done(s) == [ok |-> TRUE, s |-> s, fault |-> FALSE]
Fails(s) == [ok |-> FALSE, s |-> s, fault |-> FALSE]
AndThen(r, Op(_)) == IF r.ok THEN Op(r.s) ELSE r

-----------------------------------------------------------------------------
(* The bitmaps.  Bit 0 of the block bitmap stands for the first data       *)
(* block, 1 with blocks of 1024 bytes; the code takes it for block 0.      *)

find_free_block(s) == MinOf(Blocks \ s.bbmp)
find_free_ino(s) == IF Inums \subseteq s.ibmp THEN -1 ELSE MinOf(Inums \ s.ibmp)

bbmp_write_bit(s, bn) == [s EXCEPT !.bbmp = @ \cup {bn}]
ibmp_write_bit(s, ino) == [s EXCEPT !.ibmp = @ \cup {ino}]

\* Mutant: the bit is found, but bbmp_write_bit() is not called.
ext2_alloc_block_NoBit(s) == [bn |-> find_free_block(s), s |-> s]

ext2_alloc_block(s) ==
    LET bn == find_free_block(s) IN [bn |-> bn, s |-> bbmp_write_bit(s, bn)]

ext2_alloc_inum(s) ==
    LET inum == find_free_ino(s)
    IN [inum |-> inum, s |-> IF inum < 0 THEN s ELSE ibmp_write_bit(s, inum)]

(* The inode cache.                                                        *)

\* find_inode() finds the inode, or an entry for it.
CanFind(s, inum) == inum \in DOMAIN s.icache \/ Cardinality(DOMAIN s.icache) < NINODE

\* Mutant: i_size stays behind.
inode_sync_NoSize(s, i) ==
    [s EXCEPT !.itab[i] = [s.icache[i] EXCEPT !.size = s.itab[i].size]]

inode_sync(s, i) == [s EXCEPT !.itab[i] = s.icache[i]]

\* The inode in its block of the inode table.
ext2_raw_inode(s, inum) == s.itab[inum]

ext2_get_inode(s, inum) ==
    IF CanFind(s, inum)
    THEN [ino |-> inum, s |-> [s EXCEPT !.icache = (inum :> ext2_raw_inode(s, inum)) @@ @]]
    ELSE [ino |-> NULL, s |-> s]

\* The block number of block bi of inode i.
ext2_inode_block(s, i, bi) ==
    LET ino == s.icache[i]
    IN IF bi < NDIRECT THEN ino.block[bi]
       ELSE Indirect[ino.block[NDIRECT]][bi - NDIRECT + 1]

\* The first direct block that is not in use, NDIRECT if there is none.
FreeSlot(ino) ==
    LET n == {k \in 0 .. NDIRECT - 1 : ino.block[k] = 0}
    IN IF n = {} THEN NDIRECT ELSE MinOf(n)

ext2_append_inode_block(s, i, bn) ==
    LET n == FreeSlot(s.icache[i])
    IN IF n = NDIRECT THEN s
       ELSE inode_sync([s EXCEPT !.icache[i].block[n] = bn,
                                 !.icache[i].nblock = @ + 1], i)

\* Allocation of nblock blocks, one after the other.
ext2_grow_inode_block(s, i, nblock) ==
    LET n == FreeSlot(s.icache[i])
        Grown[k \in 0 .. nblock] ==
            IF k = 0 THEN s
            ELSE LET a == ext2_alloc_block(Grown[k - 1])
                 IN [a.s EXCEPT !.icache[i].block[n + k - 1] = a.bn]
    IN IF n = NDIRECT THEN s
       ELSE inode_sync([Grown[nblock] EXCEPT !.icache[i].nblock = @ + nblock], i)

-----------------------------------------------------------------------------
(* Directories.  ents[b] is the list of entries in block b; an entry       *)
(* begins where the rec_len of those before it end.                        *)

roundup_4byte(m) == ((m + 3) \div 4) * 4
NameAt == 8     \* of struct dirent
Dirent(inum, name, type, len) ==
    [inode |-> inum, name |-> name, type |-> type, rec_len |-> len]

\* make_dirent()
rec_len(name) == roundup_4byte(NameAt + StrLen[name])

\* Where entry k of the list e begins.
Pos(e, k) == LET at[j \in 1 .. k] == IF j = 1 THEN 0 ELSE at[j - 1] + e[j - 1].rec_len
             IN at[k]

\* The end of the name of the last entry.
NameEnd(e) == Pos(e, Len(e)) + NameAt + StrLen[e[Len(e)].name]

search_dirent_block(e, name) ==
    LET hits == {k \in 1 .. Len(e) : e[k].name = name}
    IN IF hits = {} THEN -1 ELSE e[MinOf(hits)].inode

ext2_search_dir(s, i, name) ==
    LET found(bi) == search_dirent_block(s.ents[ext2_inode_block(s, i, bi)], name)
        hits == {bi \in 0 .. s.icache[i].nblock - 1 : found(bi) > 0}
    IN IF hits = {} THEN -1 ELSE found(MinOf(hits))

\* Mutant: the header of the new entry is not counted.
HasRoomNoHeader(e, name) == BSIZE - NameEnd(e) > StrLen[name]

HasRoom(e, name) == BSIZE - NameEnd(e) > rec_len(name)

\* The entry begins behind the last one, whose rec_len is cut.
Appended(e, inum, name, type) ==
    LET at == roundup_4byte(NameEnd(e))
    IN Append([e EXCEPT ![Len(e)].rec_len = at - Pos(e, Len(e))],
              Dirent(inum, name, type, BSIZE - at))

\* The block that bio_write() writes: the NUL behind a name that ends with the
\* block is stored in the low byte of bno, which follows the data in struct buf.
WrittenTo(b, e, name) ==
    IF roundup_4byte(NameEnd(e)) + NameAt + StrLen[name] = BSIZE
    THEN (b \div 256) * 256 ELSE b

\* The entry in block b, which is empty or has room.
Entered(s, b, inum, name, type) ==
    IF s.ents[b] = << >>
    THEN [s EXCEPT !.ents[b] = <<Dirent(inum, name, type, BSIZE)>>]
    ELSE [s EXCEPT !.ents[WrittenTo(b, s.ents[b], name)] =
             Appended(s.ents[b], inum, name, type)]

\* The blocks of directory i that are empty or have room for name.
Roomy(s, i, name) ==
    {bi \in 0 .. s.icache[i].nblock - 1 :
        LET e == s.ents[ext2_inode_block(s, i, bi)] IN e = << >> \/ HasRoom(e, name)}

\* The first entry of a directory that has no block yet.
FirstEntry(a, i, inum, name, type) ==
    [ext2_append_inode_block(a.s, i, a.bn) EXCEPT
        !.ents[a.bn] = <<Dirent(inum, name, type, BSIZE)>>]

ext2_dirlink(s, i, inum, name, type) ==
    IF ext2_search_dir(s, i, name) > 0 THEN Fails(s)
    ELSE IF s.icache[i].nblock = 0
    THEN Done(FirstEntry(ext2_alloc_block(s), i, inum, name, type))
    ELSE IF Roomy(s, i, name) = {} THEN Fails(s)
    ELSE Done(Entered(s, ext2_inode_block(s, i, MinOf(Roomy(s, i, name))), inum, name, type))

-----------------------------------------------------------------------------
(* Path walks.  w is [s, ino, name, more, fault]: the inode reached, the  *)
(* element at which the walk ended, whether it goes on or has crashed.     *)

Start(s, p, path) ==
    LET r == IF path.abs THEN ext2_get_inode(s, EXT2_ROOT_INO)
             ELSE [ino |-> cwd[p], s |-> s]
    IN [s |-> r.s, ino |-> r.ino, name |-> "", more |-> TRUE, fault |-> FALSE]

\* One element: the walk stops at a file that is no directory.  It does not
\* notice that the cache was full, and reads the mode of inode NULL.
Walk(w, name) ==
    LET inum == ext2_search_dir(w.s, w.ino, name)
        To(r) == [w EXCEPT !.s = r.s, !.ino = r.ino]
        stop == [w EXCEPT !.more = FALSE]
    IN IF ~w.more THEN w
       ELSE IF StrLen[name] > DIRENT_NAME_MAX THEN [stop EXCEPT !.ino = NULL]
       ELSE IF w.ino = NULL THEN [stop EXCEPT !.fault = TRUE]
       ELSE IF w.s.icache[w.ino].mode # DIR THEN [stop EXCEPT !.name = name]
       ELSE IF inum < 0 THEN [stop EXCEPT !.ino = NULL]
       ELSE To(ext2_get_inode(w.s, inum))

Walked(w, names) ==
    LET at[k \in 0 .. Len(names)] == IF k = 0 THEN w ELSE Walk(at[k - 1], names[k])
    IN at[Len(names)]

\* The elements without an empty last one, and those before the last one.
Elements(path) == SelectSeq(path.names, LAMBDA n : n # "")
Parents(path) == SubSeq(path.names, 1, Len(path.names) - 1)
LastName(path) == IF path.names = << >> THEN "" ELSE path.names[Len(path.names)]

ext2_path2inode(s, p, path) == Walked(Start(s, p, path), Elements(path))

\* The walk that leaves out the last element, which goes to name.
ext2_path2inode_parent(s, p, path) ==
    LET Named(w, name) ==
            IF ~w.more THEN w
            ELSE IF StrLen[name] > DIRENT_NAME_MAX THEN [w EXCEPT !.ino = NULL]
            ELSE [w EXCEPT !.name = name]
    IN Named(Walked(Start(s, p, path), Parents(path)), LastName(path))

-----------------------------------------------------------------------------
(* mkdir() and mknod().                                                    *)

\* ext2_new_inode(): the "." and ".." of a directory, which has one block.
Dots(s, i, dir) ==
    AndThen(ext2_dirlink([s EXCEPT !.icache[dir].links = @ + 1], i, i, ".", DIR),
            LAMBDA t : AndThen(ext2_dirlink(t, i, dir, "..", DIR),
            LAMBDA u : Done([u EXCEPT !.icache[i].size = BSIZE])))

\* Mutant: the new inode itself is not written to the disk.
SyncBothNot(s, i, dir) == inode_sync(s, dir)

SyncBoth(s, i, dir) == inode_sync(inode_sync(s, i), dir)

\* The cache entry of the new inode; a full cache is noticed.
Cached(s, i, mode) ==
    LET entry == IF i \in DOMAIN s.icache THEN s.icache[i] ELSE NewInode
    IN IF ~CanFind(s, i) THEN Fails(s)
       ELSE Done([s EXCEPT !.icache = (i :> [entry EXCEPT !.mode = mode, !.links = 1]) @@ @])

\* The number, the cache entry, the dots, then the name: what a step has done
\* stays done when a later one fails.
ext2_new_inode(s, name, dir, mode) ==
    LET Make(i, s0) ==
            AndThen(Cached(s0, i, mode),
            LAMBDA t : AndThen(IF mode = DIR THEN Dots(t, i, dir) ELSE Done(t),
            LAMBDA u : AndThen(ext2_dirlink(u, dir, i, name, mode),
            LAMBDA v : Done(SyncBoth(v, i, dir)))))
        a == ext2_alloc_inum(s)
    IN IF a.inum < 0 THEN Fails(s) ELSE Make(a.inum, a.s)

\* ext2_mkdir() and ext2_mknod() where the walk w has ended.
Made(w, mode) ==
    IF w.fault \/ w.ino = NULL THEN [Fails(w.s) EXCEPT !.fault = w.fault]
    ELSE ext2_new_inode(w.s, w.name, w.ino, mode)

-----------------------------------------------------------------------------
(* Reading and writing of inode i, size bytes at off.                      *)

Lesser(a, b) == IF a < b THEN a ELSE b

\* What is copied in one block, from offset skip.
cpsize(size, skip) == Lesser(Lesser(size, BSIZE), BSIZE - skip)

\* The blocks the loops go over.
Span(s, i, off, size) ==
    off \div BSIZE .. Lesser((size + off) \div BSIZE, s.icache[i].nblock - 1)

\* The sequence of bytes that is read; off is not behind the end.
ext2_read_inode(s, i, off, size0) ==
    LET size == Lesser(size0, s.icache[i].size - off)
        first == off \div BSIZE
        \* what has been read, and what is left, before block bi
        at[bi \in first .. first + NDIRECT + 2] ==
            IF bi = first THEN [buf |-> << >>, left |-> size]
            ELSE LET l == at[bi - 1]
                     skip == IF bi - 1 = first THEN off % BSIZE ELSE 0
                     n == cpsize(l.left, skip)
                     d == s.data[ext2_inode_block(s, i, bi - 1)]
                 IN IF bi - 1 \in Span(s, i, off, size)
                    THEN [buf |-> l.buf \o [k \in 1 .. n |-> d[skip + k - 1]],
                          left |-> l.left - n]
                    ELSE l
    IN at[first + NDIRECT + 2].buf

\* Mutant: every block is written from its beginning.
Stored0(d, skip, n, buf, from) ==
    [k \in Bytes |-> IF k < n THEN buf[from + k] ELSE d[k]]

\* The block d after memcpy() of n bytes, from buf + from to offset skip.
Stored(d, skip, n, buf, from) ==
    [k \in Bytes |-> IF k \in skip .. skip + n - 1 THEN buf[from + k - skip] ELSE d[k]]

\* The inode grows to (size + off) / bsize blocks; then block after block.  After
\* each, size goes down by a block, however little of it was written.
ext2_w_inode(s, i, buf, off, size) ==
    LET last == (size + off) \div BSIZE
        s1 == [s EXCEPT !.icache[i].size = IF off + size > @ THEN off + size ELSE @]
        s2 == IF last > s1.icache[i].nblock
              THEN ext2_grow_inode_block(s1, i, last - s1.icache[i].nblock) ELSE s1
        first == off \div BSIZE
        at[bi \in first .. first + NDIRECT + 2] ==
            IF bi = first THEN [s |-> s2, from |-> 0, left |-> size]
            ELSE LET l == at[bi - 1]
                     skip == IF bi - 1 = first THEN off % BSIZE ELSE 0
                     n == cpsize(l.left, skip)
                     b == ext2_inode_block(s2, i, bi - 1)
                 IN IF bi - 1 \in Span(s2, i, off, size)
                    THEN [s |-> [l.s EXCEPT !.data[b] = Stored(@, skip, n, buf, l.from)],
                          from |-> l.from + n,
                          left |-> IF l.left > BSIZE THEN l.left - BSIZE ELSE 0]
                    ELSE l
    IN inode_sync(at[first + NDIRECT + 2].s, i)

-----------------------------------------------------------------------------
(* The calls of programs.                                                  *)

Init == fs = Image /\ cwd = [p \in Procs |-> EXT2_ROOT_INO] /\ halted = FALSE

\* open() and exec() look a path up.
Lookup(p, path) ==
    \E w \in {ext2_path2inode(fs, p, path)} :
        /\ fs' = w.s
        /\ halted' = w.fault
        /\ UNCHANGED cwd

chdir(p, path) ==
    \E w \in {ext2_path2inode(fs, p, path)} :
        /\ fs' = w.s
        /\ halted' = w.fault
        /\ cwd' = IF ~w.fault /\ w.ino # NULL /\ w.s.icache[w.ino].mode = DIR
                  THEN [cwd EXCEPT ![p] = w.ino] ELSE cwd

\* The parent that is found has no bytes of a file, which ext2_dirlink() would
\* take for entries: it does not ask whether the parent is a directory.
LikeDirectory(w) ==
    ~w.fault /\ w.ino # NULL => w.s.icache[w.ino].mode \in {DIR, CHR}

Makes(p, path, mode) ==
    \E w \in {ext2_path2inode_parent(fs, p, path)} :
        /\ LikeDirectory(w)
        /\ \E r \in {Made(w, mode)} : fs' = r.s /\ halted' = r.fault
        /\ UNCHANGED cwd

mkdir(p, path) == Makes(p, path, DIR)
mknod(p, path, mode) == Makes(p, path, mode)

\* A write that stays within the direct blocks, or the blocks there are.
Writable(s, i, off, size) ==
    /\ s.icache[i].mode = REG /\ i \notin Programs
    /\ off <= s.icache[i].size
    /\ (off + size) \div BSIZE <= NDIRECT \/ (off + size) \div BSIZE <= s.icache[i].nblock

write(i, off, size) ==
    /\ Writable(fs, i, off, size)
    /\ fs' = ext2_w_inode(fs, i, [k \in 0 .. size - 1 |-> 1], off, size)
    /\ UNCHANGED <<cwd, halted>>

\* ext2_init() and path2inode("/") in the first process after a reboot.
Reboot ==
    /\ fs' = ext2_get_inode([fs EXCEPT !.icache = << >>], EXT2_ROOT_INO).s
    /\ cwd' = [p \in Procs |-> EXT2_ROOT_INO]
    /\ halted' = FALSE

Next ==
    \/ /\ ~halted
       /\ \/ \E p \in Procs, path \in Paths :
                \/ Lookup(p, path)
                \/ chdir(p, path)
                \/ mkdir(p, path)
                \/ \E mode \in {REG, CHR} : mknod(p, path, mode)
          \/ \E i \in DOMAIN fs.icache, x \in Writes : write(i, x[1], x[2])
    \/ Reboot

Spec == Init /\ [][Next]_vars
-----------------------------------------------------------------------------
(* Properties.                                                             *)

\* The blocks of an inode on the disk, and the entries in them.
BlocksOf(i) == {fs.itab[i].block[n] : n \in 0 .. NDIRECT} \ {0}
EntsOf(i) == UNION {{fs.ents[b][k] : k \in 1 .. Len(fs.ents[b])} : b \in BlocksOf(i)}
Kids(i) == IF fs.itab[i].mode = DIR
           THEN {e.inode : e \in {x \in EntsOf(i) : x.name \notin {".", ".."}}} ELSE {}
InTree ==
    LET at[k \in 0 .. NINUM] ==
            IF k = 0 THEN {EXT2_ROOT_INO}
            ELSE at[k - 1] \cup UNION {Kids(i) : i \in at[k - 1]}
    IN at[NINUM]

\* ext2_dirlink() keeps every directory block tiled by entries that are long
\* enough for their names, whatever the order and the lengths of the names.
Tiled(e) ==
    /\ Pos(e, Len(e)) + e[Len(e)].rec_len = BSIZE
    /\ \A k \in 1 .. Len(e) : e[k].rec_len >= NameAt + StrLen[e[k].name] /\ e[k].rec_len % 4 = 0
    /\ \A j, k \in 1 .. Len(e) : e[j].name = e[k].name => j = k

\* Everything that has a name is an inode in use, of the type its entry says,
\* with one name only; a directory knows itself, and its blocks are tiled: no
\* mkdir() or mknod(), complete or given up half way, leaves a dangling name.
TreeSound ==
    /\ \A i \in InTree :
        /\ i \in fs.ibmp
        /\ fs.itab[i].mode = DIR =>
            /\ \A b \in BlocksOf(i) : Tiled(fs.ents[b])
            /\ \A e \in EntsOf(i) : e.type = fs.itab[e.inode].mode
            /\ \E e \in EntsOf(i) : e.name = "." /\ e.inode = i
            /\ \A j \in InTree : i # j => Kids(i) \cap Kids(j) = {}
    /\ \A p \in Procs : cwd[p] \in InTree

\* The block before the first hole of the image is in use, and is what the
\* first allocation returns (ext2.c:121).
Taken == find_free_block(Image)

\* Every block the kernel has given to an inode is marked in the bitmap and is
\* that inode's alone, but for the one block that the first allocation takes
\* from its owner: ext2_alloc_block() never returns a block twice.
BlocksOwned ==
    \A i, j \in Inums :
        /\ i # j => BlocksOf(i) \cap BlocksOf(j) \subseteq {Taken}
        /\ i \notin Image.ibmp => BlocksOf(i) \subseteq fs.bbmp

\* What is in the cache of a file that has a name is on the disk too: reading
\* the inode again, or a reboot, changes nothing.  links_count is left out: a
\* mkdir() that fails has changed it in the cache only.
DiskCurrent ==
    \A i \in InTree \cap DOMAIN fs.icache :
        [fs.icache[i] EXCEPT !.links = 0] = [fs.itab[i] EXCEPT !.links = 0]

Rebooted(s) == ext2_get_inode([s EXCEPT !.icache = << >>], EXT2_ROOT_INO).s
Found(s, path) == ext2_path2inode(Rebooted(s), CHOOSE p \in Procs : TRUE, path).ino

\* w is the walk to the parent of path, r what the call has returned.
RightlyMade(w, r, path, mode) ==
    LET b == w.s.icache[w.ino].block[0]
    IN (/\ r.ok /\ w.s.icache[w.ino].mode = DIR
        /\ WrittenTo(b, fs.ents[b], w.name) = b
        /\ w.name = LastName(path) /\ w.name # "")
       => /\ Found(r.s, path) \notin InTree \cup {NULL}
          /\ r.s.itab[Found(r.s, path)].mode = mode
          /\ \A x \in Paths : x.abs /\ Found(fs, x) # NULL => Found(r.s, x) = Found(fs, x)

\* A mkdir() or mknod() that reports success in a directory has made exactly the
\* one name asked for: it is found, also after a reboot, with the type asked for,
\* and every path that was found before still leads to the same inode.  Not for a
\* name that ends with its block, see WrittenTo, and not for the empty name that
\* mkdir("/") makes.
MadeIsFound ==
    ~halted => \A p \in Procs, path \in {x \in Paths : x.abs}, mode \in {DIR, REG, CHR} :
        \A w \in {ext2_path2inode_parent(fs, p, path)} :
            RightlyMade(w, Made(w, mode), path, mode)

\* The bytes of a file, and what a write of all of buf would make of them.
Content(s, i) == ext2_read_inode(s, i, 0, s.icache[i].size)
Overlaid(c, c0, off, n, buf) ==
    \A q \in 1 .. Len(c) :
        c[q] = IF q - 1 \in off .. off + n - 1 THEN buf[q - 1 - off]
               ELSE IF q <= Len(c0) THEN c0[q] ELSE 0

\* The write begins with a block or stays in one, and its blocks exist.
Whole(s, i, off, size) ==
    /\ off % BSIZE = 0 \/ (off % BSIZE) + size <= BSIZE
    /\ off + size <= BSIZE * s.icache[i].nblock

\* A write puts a beginning of its buffer where it belongs, all of it under the
\* conditions of Whole, and changes no other byte of this file or another; a read
\* returns just those bytes of the file (ext2_w_inode, ext2_read_inode).
WriteStores ==
    \A i \in DOMAIN fs.icache, off \in Offs, size \in Sizes :
        Writable(fs, i, off, size) =>
            LET buf == [k \in 0 .. size - 1 |-> 10 + k]
                s == ext2_w_inode(fs, i, buf, off, size)
            IN /\ \E n \in 0 .. size :
                    /\ Whole(s, i, off, size) => n = size
                    /\ Overlaid(Content(s, i), Content(fs, i), off, n, buf)
               /\ Whole(s, i, off, size) =>
                    ext2_read_inode(s, i, off, size) = [k \in 1 .. size |-> buf[k - 1]]
               /\ \A j \in DOMAIN fs.icache \ {i} :
                    fs.icache[j].mode = REG /\ Taken \notin BlocksOf(j) => Content(s, j) = Content(fs, j)
=============================================================================
