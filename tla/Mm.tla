--------------------------------- MODULE Mm ---------------------------------
(***************************************************************************)
(* Page frames (kernel/kalloc.c), page tables and user address spaces      *)
(* (kernel/mm.c), and the system calls that build, copy, grow and free     *)
(* them: exec, fork, clone, sbrk, exit and wait (kernel/proc.c).           *)
(*                                                                         *)
(* A frame holds a table of NENT entries; an entry is empty, a table, or a *)
(* page (AF set).  Tables have three levels.  A page is known by its       *)
(* number; addresses and sizes of programs are bytes, PAGESIZE of them to  *)
(* a page.  Each call works on frames of its own process or on frames      *)
(* fresh from kalloc(), so that it is one step; calls of threads of one    *)
(* process are taken one after the other.  Which free frame kalloc()       *)
(* returns is left open to a fixed choice: nothing depends on the order of *)
(* the free list.                                                          *)
(***************************************************************************)
EXTENDS Integers, FiniteSets, Sequences

CONSTANTS
    Frames,     \* page frames, a set of numbers
    Procs,      \* slots of the process table
    First,      \* the first process
    NENT,       \* entries of a table
    PAGESIZE,
    MaxSize,    \* bound on the size of a process
    Programs,   \* files for exec(), each the sequence of its program headers
    Incrs       \* arguments of sbrk()

ASSUME FramesAssumption == Frames \subseteq Nat
ASSUME NENTAssumption == NENT \in Nat \ {0} /\ PAGESIZE \in Nat \ {0}
ASSUME ProcsAssumption == IsFiniteSet(Procs) /\ First \in Procs
ASSUME SizesAssumption == MaxSize \in Nat /\ Incrs \subseteq Int
\* load: p_type is PT_LOAD.  The others are p_vaddr, p_memsz and p_filesz.
ASSUME ProgramsAssumption ==
    \A prg \in Programs :
        prg \in Seq([load : BOOLEAN, va : Nat, memsz : Nat, filesz : Nat])

NULL == -1
Entries == 0 .. NENT - 1
Empty == [pa |-> NULL, af |-> FALSE]
Table(f) == [pa |-> f, af |-> FALSE]
Page(f) == [pa |-> f, af |-> TRUE]
Zero == [i \in Entries |-> Empty]

VARIABLES
    mem,    \* [free, ent, st, r]: free frames, contents, state, last result
    proc,   \* [live, zombie, pgt, size, kstack, th] of each slot
    lost,   \* history: frames whose last reference has been overwritten
    misused \* history: a call the code has no provision for

vars == <<mem, proc, lost, misused>>

-----------------------------------------------------------------------------
(* Frames.  st is "ok"; "oom" when kalloc() has found no frame and kept    *)
(* its lock, so that nothing can be allocated or freed any more; "panic".  *)
(* An operation does nothing unless st is "ok".                            *)

Ok(m) == m.st = "ok"

kalloc(m) ==
    IF ~Ok(m) THEN m
    ELSE IF m.free = {} THEN [m EXCEPT !.st = "oom"]
    ELSE LET f == CHOOSE x \in m.free : \A y \in m.free : x <= y
         IN [m EXCEPT !.free = @ \ {f}, !.ent[f] = Zero, !.r = f]

\* Freeing a frame twice makes the list a cycle.
kfree(m, f) ==
    IF ~Ok(m) THEN m
    ELSE IF f \in m.free THEN [m EXCEPT !.st = "twice"]
    ELSE [m EXCEPT !.free = @ \cup {f}, !.ent[f] = Zero]

\* Op(m, k) for k = 0, 1, ..., n - 1.
Loop(m, n, Op(_, _)) ==
    LET at[k \in 0 .. n] == IF k = 0 THEN m ELSE Op(at[k - 1], k - 1) IN at[n]

PIDX(level, vpn) ==
    CASE level = 1 -> (vpn \div (NENT * NENT)) % NENT
      [] level = 2 -> (vpn \div NENT) % NENT
      [] level = 3 -> vpn % NENT

\* One level of pagewalk(): the table that entry i of table t refers to, made
\* if there is none.
Down(m, t, i) ==
    IF ~Ok(m) THEN m
    ELSE IF m.ent[t][i] # Empty THEN [m EXCEPT !.r = m.ent[t][i].pa]
    ELSE LET k == kalloc(m)
         IN IF Ok(k) THEN [k EXCEPT !.ent[t][i] = Table(k.r)] ELSE k

pagewalk(m, pgt, vpn) ==
    LET l2 == Down(m, pgt, PIDX(1, vpn)) IN Down(l2, l2.r, PIDX(2, vpn))

pagemap(m, pgt, vpn, f) ==
    LET w == pagewalk(m, pgt, vpn)
    IN IF ~Ok(w) THEN w
       ELSE IF w.ent[w.r][PIDX(3, vpn)].af THEN [w EXCEPT !.st = "panic"]
       ELSE [w EXCEPT !.ent[w.r][PIDX(3, vpn)] = Page(f)]

pageunmap(m, pgt, vpn) ==
    LET w == pagewalk(m, pgt, vpn)
        e == w.ent[w.r][PIDX(3, vpn)]
    IN IF ~Ok(w) THEN w
       ELSE IF e = Empty THEN [w EXCEPT !.st = "panic"]
       ELSE [kfree(w, e.pa) EXCEPT !.ent[w.r][PIDX(3, vpn)] = Empty]

\* A fresh frame is mapped at vpn.
MapNew(m, pgt, vpn) == LET k == kalloc(m) IN pagemap(k, pgt, vpn, k.r)

\* The tables below pgt, then pgt.  Tables of the last level hold pages only,
\* which are left alone.
free_table(m, pgt) ==
    LET below(x, t, Free(_, _)) ==
            Loop(x, NENT, LAMBDA y, i :
                IF Ok(y) /\ y.ent[t][i] # Empty /\ ~y.ent[t][i].af
                THEN [Free(y, y.ent[t][i].pa) EXCEPT !.ent[t][i] = Empty] ELSE y)
    IN kfree(below(m, pgt, LAMBDA x, t : kfree(below(x, t, kfree), t)), pgt)

-----------------------------------------------------------------------------
(* Address spaces: size bytes from page 1 on, and a page for the stack.    *)

Vpns == 0 .. NENT * NENT * NENT - 1     \* what three levels tell apart
USER == 1                               \* 0x1000
USTACK == NENT * NENT * NENT - 2        \* USTACKBOTTOM
Pages(size) == (size + PAGESIZE - 1) \div PAGESIZE
Region(size) == {USTACK} \cup USER .. USER + Pages(size) - 1

\* The frame at vpn below pgt, NULL if none: the walk of the hardware.
EntryAt(m, t, i) == IF t = NULL THEN NULL ELSE m.ent[t][i].pa
FrameAt(m, pgt, vpn) ==
    EntryAt(m, EntryAt(m, EntryAt(m, pgt, PIDX(1, vpn)), PIDX(2, vpn)), PIDX(3, vpn))

map_ustack(m, pgt) == MapNew(m, pgt, USTACK)

\* pagemap() wants whole pages.
alloc_userspace(m, pgt, va, memsz) ==
    IF va % PAGESIZE = 0 \/ memsz = 0
    THEN Loop(m, Pages(memsz), LAMBDA x, k : MapNew(x, pgt, va \div PAGESIZE + k))
    ELSE LET k == kalloc(m) IN IF Ok(k) THEN [k EXCEPT !.st = "panic"] ELSE k
\* The same loop; it panics where alloc_userspace() returns -1.
init_userspace(m, pgt, size) == alloc_userspace(m, pgt, USER * PAGESIZE, size)

\* Mutant: the old size is not rounded up to whole pages.
grow_userspaceNoRound(m, pgt, oldsz, newsz) ==
    Loop(m, Pages(newsz - oldsz), LAMBDA x, k : MapNew(x, pgt, USER + (oldsz \div PAGESIZE) + k))

grow_userspace(m, pgt, oldsz, newsz) ==
    Loop(m, IF Pages(newsz) > Pages(oldsz) THEN Pages(newsz) - Pages(oldsz) ELSE 0,
         LAMBDA x, k : MapNew(x, pgt, USER + Pages(oldsz) + k))

\* Mutant: a last page that is not full is not copied.
cp_userspaceNoRound(m, new, old, size) ==
    LET copy(x, vpn) == MapNew(pagewalk(x, old, vpn), new, vpn)
    IN copy(Loop(m, size \div PAGESIZE, LAMBDA x, k : copy(x, USER + k)), USTACK)

\* The pages of old, whose entries pagewalk() finds or makes, are copied.
cp_userspace(m, new, old, size) ==
    LET copy(x, vpn) == MapNew(pagewalk(x, old, vpn), new, vpn)
    IN copy(Loop(m, Pages(size), LAMBDA x, k : copy(x, USER + k)), USTACK)

\* Mutant: a last page that is not full is not freed.
free_userspaceNoRound(m, pgt, size) ==
    free_table(pageunmap(Loop(m, size \div PAGESIZE, LAMBDA x, k : pageunmap(x, pgt, USER + k)),
                         pgt, USTACK), pgt)

free_userspace(m, pgt, size) ==
    free_table(pageunmap(Loop(m, Pages(size), LAMBDA x, k : pageunmap(x, pgt, USER + k)),
                         pgt, USTACK), pgt)

-----------------------------------------------------------------------------
(* The system calls.                                                       *)

NoProc == [state |-> "unused", pgt |-> NULL, size |-> 0, kstack |-> NULL, th |-> FALSE]

\* newproc(): a kernel stack, then a table.
newproc(m) ==
    LET k == kalloc(m)
        t == kalloc(k)
    IN [m |-> t, kstack |-> k.r, pgt |-> t.r]

InitSize == 1    \* of usr/initcode, which is less than a page

\* No process grows so large that it meets its stack: there is far less memory
\* than there are addresses.
ASSUME RoomAssumption ==
    \A size \in (0 .. MaxSize) \cup {InitSize} : USER + Pages(size) <= USTACK

\* userproc_init(): the first process, with its code and a stack.
Init ==
    LET n == newproc([free |-> Frames, ent |-> [f \in Frames |-> Zero], st |-> "ok", r |-> NULL])
    IN /\ mem = map_ustack(init_userspace(n.m, n.pgt, InitSize), n.pgt)
       /\ proc = [p \in Procs |->
            IF p = First
            THEN [state |-> "live", pgt |-> n.pgt, size |-> InitSize,
                  kstack |-> n.kstack, th |-> FALSE]
            ELSE NoProc]
       /\ lost = {}
       /\ misused = FALSE

\* Other processes that run on the table of p.
Sharers(p) == {q \in Procs \ {p} : proc[q].state = "live" /\ proc[q].pgt = proc[p].pgt}

fork(p, q) ==
    LET n == newproc(mem)
        m == cp_userspace(n.m, n.pgt, proc[p].pgt, proc[p].size)
    IN /\ proc[q].state = "unused"
       /\ mem' = m
       /\ proc' = IF Ok(m) THEN [proc EXCEPT ![q] =
                      [state |-> "live", pgt |-> n.pgt, size |-> proc[p].size,
                       kstack |-> n.kstack, th |-> FALSE]] ELSE proc
       /\ UNCHANGED <<lost, misused>>

\* A thread: the table that newproc() has made is forgotten.
clone(p, q) ==
    LET n == newproc(mem)
    IN /\ proc[q].state = "unused"
       /\ mem' = n.m
       /\ proc' = IF Ok(n.m) THEN [proc EXCEPT ![q] =
                      [state |-> "live", pgt |-> proc[p].pgt, size |-> proc[p].size,
                       kstack |-> n.kstack, th |-> TRUE]] ELSE proc
       /\ lost' = IF Ok(n.m) THEN lost \cup {n.pgt} ELSE lost
       /\ UNCHANGED misused

\* exitproc() frees the space of a process, m being what it finds.
exitproc(p, m) ==
    /\ p # First
    /\ mem' = IF proc[p].th THEN m ELSE free_userspace(m, proc[p].pgt, proc[p].size)
    /\ proc' = [proc EXCEPT ![p].state = "zombie"]

exit(p) ==
    /\ exitproc(p, mem)
    /\ misused' = (misused \/ (~proc[p].th /\ Sharers(p) # {}))
    /\ UNCHANGED lost

-----------------------------------------------------------------------------
(* exec().                                                                 *)

\* The table of the new space, and the segments of the first i headers of prg.
NewTable == kalloc(mem)
Loaded(prg, i) ==
    Loop(NewTable, i, LAMBDA x, k :
        IF prg[k + 1].load
        THEN alloc_userspace(x, NewTable.r, prg[k + 1].va, prg[k + 1].memsz) ELSE x)

\* load_prg() of a header: it fails at a page that is not mapped.
HasPage(m, h, k) == FrameAt(m, NewTable.r, h.va \div PAGESIZE + k) # NULL
load_prg(m, h) ==
    h.va % PAGESIZE = 0 /\ \A k \in 0 .. Pages(h.filesz) - 1 : HasPage(m, h, k)

\* The loop over the headers gets through header i.
Through(prg, i) ==
    Ok(Loaded(prg, i)) /\ (prg[i].load => load_prg(Loaded(prg, i), prg[i]))
\* It gets to where header i has been read and its segment allocated.
Reaches(prg, i) == \A j \in 1 .. i - 1 : Through(prg, j)

memsize(prg) ==
    Loop(0, Len(prg), LAMBDA s, k : IF prg[k + 1].load THEN s + prg[k + 1].memsz ELSE s)

\* The pages of a segment.
Segment(h) ==
    IF h.load THEN h.va \div PAGESIZE .. h.va \div PAGESIZE + Pages(h.memsz) - 1 ELSE {}
\* The segments begin with a page, keep clear of each other and of the stack.
Mappable(prg) ==
    \A i \in 1 .. Len(prg) : prg[i].load =>
        /\ prg[i].va % PAGESIZE = 0 \/ prg[i].memsz = 0
        /\ prg[i].va \div PAGESIZE + Pages(prg[i].memsz) <= USTACK
        /\ \A j \in 1 .. Len(prg) \ {i} : Segment(prg[i]) \cap Segment(prg[j]) = {}
\* Their sizes add up to what they cover, which begins at page 1.
Laid(prg) ==
    /\ Mappable(prg)
    /\ UNION {Segment(prg[i]) : i \in 1 .. Len(prg)} = USER .. USER + Pages(memsize(prg)) - 1
    /\ USER + Pages(memsize(prg)) <= USTACK

\* The stack completes the new space, which takes the place of the old one.
NewSpace(prg) == map_ustack(Loaded(prg, Len(prg)), NewTable.r)
exec(p, prg) ==
    LET m == free_userspace(NewSpace(prg), proc[p].pgt, proc[p].size)
    IN /\ Reaches(prg, Len(prg) + 1)
       /\ mem' = m
       /\ proc' = IF Ok(m) THEN [proc EXCEPT ![p].pgt = NewTable.r, ![p].size = memsize(prg)]
                  ELSE proc
       /\ misused' = (misused \/ proc[p].th \/ Sharers(p) # {} \/ ~Laid(prg))
       /\ UNCHANGED lost

\* Where exec() may fail, or panic in pagemap(): a header or a segment cannot be read;
\* load_prg() comes to a page that is not mapped, below which pagewalk() has made its
\* tables; or the arguments are too many or too long.
Failures(prg) ==
    {Loaded(prg, i) : i \in {j \in 0 .. Len(prg) : Reaches(prg, j)}}
    \cup (UNION {{pagewalk(Loaded(prg, i), NewTable.r, prg[i].va \div PAGESIZE + k) :
                    k \in {j \in 0 .. Pages(prg[i].filesz) - 1 :
                             /\ ~HasPage(Loaded(prg, i), prg[i], j)
                             /\ \A e \in 0 .. j - 1 : HasPage(Loaded(prg, i), prg[i], e)}} :
                 i \in {j \in 1 .. Len(prg) :
                          /\ Reaches(prg, j) /\ Ok(Loaded(prg, j))
                          /\ prg[j].load /\ prg[j].va % PAGESIZE = 0}})
    \cup (IF Reaches(prg, Len(prg) + 1) THEN {NewSpace(prg)} ELSE {})

\* Of the new space, the first table only is given back.
execFails(prg) ==
    \E m \in Failures(prg) :
        /\ mem' = kfree(m, NewTable.r)
        /\ lost' = lost \cup (mem.free \ mem'.free)
        /\ misused' = (misused \/ ~Mappable(prg))
        /\ UNCHANGED proc

\* read_inode() of header i + 1, or of the segment of header i, sleeps.
Reading(prg, i) ==
    /\ Reaches(prg, i)
    /\ \/ i < Len(prg) /\ (i > 0 => Through(prg, i))
       \/ /\ i > 0 /\ prg[i].load /\ prg[i].filesz > 0 /\ prg[i].va % PAGESIZE = 0
          /\ Ok(Loaded(prg, i)) /\ HasPage(Loaded(prg, i), prg[i], 0)

\* A signal ends exec() in its sleep: no frame of the new space is given back.
execKilled(p, prg) ==
    \E i \in 0 .. Len(prg) :
        LET m == Loaded(prg, i)
        IN /\ Ok(NewTable) /\ Reading(prg, i)
           /\ exitproc(p, m)
           /\ lost' = lost \cup (mem.free \ m.free)
           /\ misused' = (misused \/ (~proc[p].th /\ Sharers(p) # {}) \/ ~Mappable(prg))

-----------------------------------------------------------------------------
\* csread() walks to the page of the buffer it is given, whatever address that is.
uva2ka(p, vpn) ==
    /\ mem' = pagewalk(mem, proc[p].pgt, vpn)
    /\ UNCHANGED <<proc, lost, misused>>

\* size moves by incr also when nothing was mapped, or nothing was unmapped.  The
\* other threads keep the size they have.
sbrk(p, incr) ==
    LET size == proc[p].size
    IN /\ size + incr \in 0 .. MaxSize
       /\ mem' = IF incr > 0 THEN grow_userspace(mem, proc[p].pgt, size, size + incr) ELSE mem
       /\ proc' = [proc EXCEPT ![p].size = size + incr]
       /\ misused' = (misused \/ incr < 0 \/ (incr > 0 /\ proc[p].th))
       /\ UNCHANGED lost

\* wait() and waitpid() of another process
freeproc(q) ==
    /\ proc[q].state = "zombie"
    /\ mem' = kfree(mem, proc[q].kstack)
    /\ proc' = [proc EXCEPT ![q] = NoProc]
    /\ UNCHANGED <<lost, misused>>

Good == Ok(mem) /\ ~misused

Call(p) ==
    \/ \E q \in Procs : fork(p, q) \/ clone(p, q) \/ freeproc(q)
    \/ \E prg \in Programs : exec(p, prg) \/ execFails(prg) \/ execKilled(p, prg)
    \/ \E incr \in Incrs : sbrk(p, incr)
    \/ \E vpn \in Vpns : uva2ka(p, vpn)
    \/ exit(p)

\* What follows a misuse is not explored: the frames involved may hold anything.
Next == Good /\ \E p \in Procs : proc[p].state = "live" /\ Call(p)

Spec == Init /\ [][Next]_vars

-----------------------------------------------------------------------------
(* Properties.                                                             *)

\* The space of a process is what its size says: page 1 to the last, and the
\* stack.  That of a thread is at least that: its process may have grown since.
\* Every call that walks the space (fork, exec, sbrk, exit) relies on it.
SpaceExact ==
    Good => \A p \in Procs : proc[p].state = "live" =>
        LET mapped == {vpn \in Vpns : FrameAt(mem, proc[p].pgt, vpn) # NULL}
        IN  /\ Region(proc[p].size) \subseteq mapped
            /\ ~proc[p].th => mapped = Region(proc[p].size)

\* The frames that a table refers to, with those below it.
Under(t) == {mem.ent[t][i].pa : i \in Entries} \ {NULL}
Space(pgt) ==
    LET l2 == Under(pgt)
        l3 == UNION {Under(t) : t \in l2}
    IN {pgt} \cup l2 \cup l3 \cup UNION {Under(t) : t \in l3}

\* Address spaces share nothing but between threads, no frame in use is free,
\* and every frame is in use, free or lost: isolation, and no leak in fork, exec,
\* sbrk, exit, wait and uva2ka() other than the three that lost records, of clone(),
\* of an exec() that fails and of an exec() that a signal ends.
FramesOwned ==
    Good =>
        LET live == {p \in Procs : proc[p].state = "live"}
            spaces == {Space(proc[p].pgt) : p \in live}
            stacks == {proc[p].kstack : p \in {q \in Procs : proc[q].state # "unused"}}
        IN /\ \A s, t \in spaces : s # t => s \cap t = {}
           /\ (UNION spaces) \cap stacks = {}
           /\ Cardinality(stacks) = Cardinality({q \in Procs : proc[q].state # "unused"})
           /\ mem.free = Frames \ ((UNION spaces) \cup stacks \cup lost)
           /\ ((UNION spaces) \cup stacks) \cap lost = {}

\* No assertion of mm.c fails and no frame is freed twice, as long as nobody calls
\* what the code has no provision for: a process that ends, or calls exec(), while
\* threads of it live; exec() or an upward sbrk() by a thread; a downward sbrk();
\* exec() of a file whose segments are not laid out as it takes for granted.
NoPanic == misused \/ mem.st \in {"ok", "oom"}
=============================================================================
