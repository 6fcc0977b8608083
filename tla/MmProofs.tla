------------------------------ MODULE MmProofs ------------------------------
(***************************************************************************)
(* Theorems about Mm, for any number of frames, processes and entries of a *)
(* table, sizes of any number of pages and any files for exec(): as long   *)
(* as nobody misuses a call, the space of a process is what its size says, *)
(* every frame has one owner, and no assertion of mm.c fails.              *)
(*                                                                         *)
(* The invariant gives each frame an owner: nobody (it is free), the       *)
(* kernel (a stack, or lost), or the root of the address space it is in.   *)
(* The frames of a root are a tree: a level, a table above and a place in  *)
(* it for each, at which the one entry that refers to it is.  The loops of *)
(* mm.c are named by Body and LoopOf, and what a loop comes to is proved   *)
(* by taking the least number of rounds after which it would not hold.     *)
(***************************************************************************)
EXTENDS Mm, WellFoundedInduction, FiniteSetTheorems, SequenceTheorems, TLAPS

-----------------------------------------------------------------------------
(* The loops of mm.c.                                                      *)

\* The inner loop of free_table(): the last level under table t.
Last(x, t) ==
    Loop(x, NENT, LAMBDA y, i :
        IF Ok(y) /\ y.ent[t][i] # Empty /\ ~y.ent[t][i].af
        THEN [kfree(y, y.ent[t][i].pa) EXCEPT !.ent[t][i] = Empty] ELSE y)

\* The body of each loop: a and b are the tables, the first page or the program it
\* works on.
Body(op, a, b, x, k) ==
    IF op = "map" THEN MapNew(x, a, b + k)
    ELSE IF op = "copy" THEN MapNew(pagewalk(x, b, USER + k), a, USER + k)
    ELSE IF op = "unmap" THEN pageunmap(x, a, USER + k)
    ELSE IF op = "load"
    THEN IF b[k + 1].load THEN alloc_userspace(x, a, b[k + 1].va, b[k + 1].memsz) ELSE x
    ELSE IF op = "sum" THEN IF b[k + 1].load THEN x + b[k + 1].memsz ELSE x
    ELSE IF op = "last"
    THEN IF Ok(x) /\ x.ent[a][k] # Empty /\ ~x.ent[a][k].af
         THEN [kfree(x, x.ent[a][k].pa) EXCEPT !.ent[a][k] = Empty] ELSE x
    ELSE IF Ok(x) /\ x.ent[a][k] # Empty /\ ~x.ent[a][k].af
         THEN [kfree(Last(x, x.ent[a][k].pa), x.ent[a][k].pa) EXCEPT !.ent[a][k] = Empty]
         ELSE x

LoopOf(op, a, b, m, n) ==
    LET at[k \in 0 .. n] == IF k = 0 THEN m ELSE Body(op, a, b, at[k - 1], k - 1) IN at[n]

\* A set of natural numbers has a least element.
LEMMA Least ==
  ASSUME NEW S \in SUBSET Nat, S # {}
  PROVE  \E x \in S : \A y \in S : x <= y
<1> DEFINE R == {p \in Nat \X Nat : p[1] < p[2]}
<1>1. IsWellFoundedOn(R, Nat)
  BY NatLessThanWellFounded DEF OpToRel
<1> HIDE DEF R
<1>2. PICK x \in S : \A y \in S : ~ (<<y, x>> \in R)
  BY <1>1, WFMin
<1>3. ASSUME NEW y \in S PROVE x <= y
  <2>1. x \in Nat /\ y \in Nat
    OBVIOUS
  <2>2. y < x => <<y, x>> \in R
    BY <2>1 DEF R
  <2> QED BY <1>2, <2>1, <2>2
<1> QED BY <1>3

\* f is a run of n rounds of a loop.
Rounds(f, op, a, b, m, n) ==
    /\ f = [k \in 0 .. n |-> f[k]]
    /\ f[0] = m
    /\ \A i \in 0 .. n - 1 : f[i + 1] = Body(op, a, b, f[i], i)

\* There is a run of any length.
LEMMA RoundsExist ==
  ASSUME NEW op, NEW a, NEW b, NEW m, NEW n \in Nat
  PROVE  \E f : Rounds(f, op, a, b, m, n)
<1> DEFINE Bad == {k \in Nat : ~ \E f : Rounds(f, op, a, b, m, k)}
<1> SUFFICES ASSUME n \in Bad PROVE FALSE
  OBVIOUS
<1>1. PICK k \in Bad : \A j \in Bad : k <= j
  BY Least
<1>2. CASE k = 0
  <2> DEFINE f == [i \in 0 .. 0 |-> m]
  <2>1. f = [i \in 0 .. 0 |-> f[i]] /\ f[0] = m /\ 0 .. 0 - 1 = {}
    OBVIOUS
  <2> HIDE DEF f
  <2>2. Rounds(f, op, a, b, m, 0)
    BY <2>1 DEF Rounds
  <2> QED BY <1>2, <2>1, <2>2
<1>3. CASE k # 0
  <2>1. k - 1 \in Nat /\ k - 1 \notin Bad
    <3>1. k \in Nat
      OBVIOUS
    <3>2. k - 1 \in Bad => k <= k - 1
      BY <1>1
    <3> HIDE DEF Bad
    <3> QED BY <1>3, <3>1, <3>2
  <2>8. k - 1 \in 0 .. k - 1 /\ k \in Nat
    BY <2>1
  <2>2. PICK f : Rounds(f, op, a, b, m, k - 1)
    BY <2>1, <2>8
  <2>3. PICK e : e = Body(op, a, b, f[k - 1], k - 1)
    OBVIOUS
  <2> DEFINE g == [i \in 0 .. k |-> IF i = k THEN e ELSE f[i]]
  <2>5. g = [i \in 0 .. k |-> g[i]] /\ g[0] = m /\ g[k] = e /\ \A i \in 0 .. k - 1 : g[i] = f[i]
    BY <1>3, <2>1, <2>2 DEF Rounds
  <2> HIDE DEF g
  <2>6. ASSUME NEW i \in 0 .. k - 1 PROVE g[i + 1] = Body(op, a, b, g[i], i)
    <3>1. CASE i = k - 1
      <4>1. i + 1 = k
        BY <2>1, <3>1
      <4> QED BY <2>8, <2>3, <2>5, <3>1, <4>1
    <3>2. CASE i # k - 1
      <4>1. i \in 0 .. (k - 1) - 1 /\ i + 1 \in 0 .. k - 1
        BY <2>1, <3>2
      <4>2. f[i + 1] = Body(op, a, b, f[i], i)
        BY <2>2, <4>1 DEF Rounds
      <4> QED BY <2>5, <4>1, <4>2
    <3> QED BY <3>1, <3>2
  <2>7. Rounds(g, op, a, b, m, k)
    BY <2>5, <2>6 DEF Rounds
  <2> QED BY <2>7
<1> QED BY <1>2, <1>3

\* The loop ends where the run does.
LEMMA LoopIs ==
  ASSUME NEW op, NEW a, NEW b, NEW m, NEW n \in Nat, NEW g, Rounds(g, op, a, b, m, n)
  PROVE  LoopOf(op, a, b, m, n) = g[n]
<1> DEFINE D(f) == [k \in 0 .. n |-> IF k = 0 THEN m ELSE Body(op, a, b, f[k - 1], k - 1)]
           L == CHOOSE f : f = D(f)
<1>1. LoopOf(op, a, b, m, n) = L[n]
  BY DEF LoopOf
<1>2. g = D(g)
  <2>1. ASSUME NEW i \in 0 .. n PROVE g[i] = IF i = 0 THEN m ELSE Body(op, a, b, g[i - 1], i - 1)
    <3>1. CASE i = 0
      BY <3>1 DEF Rounds
    <3>2. CASE i # 0
      <4>1. i - 1 \in 0 .. n - 1 /\ (i - 1) + 1 = i
        BY <3>2
      <4>2. g[(i - 1) + 1] = Body(op, a, b, g[i - 1], i - 1)
        BY <4>1 DEF Rounds
      <4> QED BY <3>2, <4>1, <4>2
    <3> QED BY <3>1, <3>2
  <2>2. g = [k \in 0 .. n |-> g[k]]
    BY DEF Rounds
  <2> QED BY <2>1, <2>2
<1>3. L = D(L)
  BY <1>2
<1> HIDE DEF L
<1>4. L[0] = m /\ \A i \in 0 .. n : i # 0 => L[i] = Body(op, a, b, L[i - 1], i - 1)
  BY <1>3
<1>5. ASSUME NEW i \in 0 .. n PROVE L[i] = g[i]
  <2> DEFINE Bad == {j \in Nat : j <= n /\ L[j] # g[j]}
  <2> SUFFICES ASSUME i \in Bad PROVE FALSE
    OBVIOUS
  <2>1. PICK j \in Bad : \A e \in Bad : j <= e
    BY Least
  <2>2. j # 0
    BY <1>4 DEF Rounds
  <2>3. j - 1 \in 0 .. n - 1 /\ j - 1 \notin Bad /\ (j - 1) + 1 = j /\ j \in 0 .. n
    BY <2>1, <2>2
  <2>4. g[j] = Body(op, a, b, g[j - 1], j - 1)
    BY <2>3 DEF Rounds
  <2>5. L[j] = Body(op, a, b, L[j - 1], j - 1) /\ L[j - 1] = g[j - 1]
    BY <1>4, <2>2, <2>3
  <2> QED BY <2>4, <2>5
<1> QED BY <1>1, <1>5

\* A loop goes on from where it is.
LEMMA LoopStep ==
  ASSUME NEW op, NEW a, NEW b, NEW m, NEW n \in Nat
  PROVE  /\ LoopOf(op, a, b, m, 0) = m
         /\ LoopOf(op, a, b, m, n + 1) = Body(op, a, b, LoopOf(op, a, b, m, n), n)
<1>1. n + 1 \in Nat /\ 0 \in Nat /\ n \in 0 .. (n + 1) - 1 /\ 0 .. 0 - 1 = {}
      /\ \A i \in 0 .. n - 1 : i \in 0 .. (n + 1) - 1
  OBVIOUS
<1>2. PICK f : Rounds(f, op, a, b, m, n + 1)
  BY <1>1, RoundsExist
<1>3. PICK g : g = [k \in 0 .. n |-> f[k]]
  OBVIOUS
<1>4. Rounds(g, op, a, b, m, n) /\ g[n] = f[n]
  <2>1. g = [k \in 0 .. n |-> g[k]] /\ \A i \in 0 .. n : g[i] = f[i]
    BY <1>3
  <2>2. \A i \in 0 .. n - 1 : i \in 0 .. n /\ i + 1 \in 0 .. n
    OBVIOUS
  <2>3. g[0] = m /\ g[n] = f[n]
    <3>1. 0 \in 0 .. n /\ n \in 0 .. n
      OBVIOUS
    <3>2. f[0] = m
      BY <1>2 DEF Rounds
    <3> QED BY <2>1, <3>1, <3>2
  <2>4. ASSUME NEW i \in 0 .. n - 1 PROVE g[i + 1] = Body(op, a, b, g[i], i)
    <3>1. f[i + 1] = Body(op, a, b, f[i], i)
      BY <1>1, <1>2 DEF Rounds
    <3> QED BY <3>1, <2>1, <2>2
  <2> QED BY <2>1, <2>3, <2>4 DEF Rounds
<1>5. PICK h : h = [k \in 0 .. 0 |-> m]
  OBVIOUS
<1>6. Rounds(h, op, a, b, m, 0) /\ h[0] = m
  <2>1. h = [k \in 0 .. 0 |-> h[k]] /\ h[0] = m
    BY <1>5
  <2> QED BY <2>1, <1>1 DEF Rounds
<1>7. /\ LoopOf(op, a, b, m, n + 1) = f[n + 1] /\ LoopOf(op, a, b, m, n) = f[n]
      /\ LoopOf(op, a, b, m, 0) = m
  BY <1>1, <1>2, <1>4, <1>6, LoopIs
<1>8. f[n + 1] = Body(op, a, b, f[n], n)
  BY <1>1, <1>2 DEF Rounds
<1> QED BY <1>7, <1>8

\* The loops of the model are such loops.
LEMMA MapLoop ==
  ASSUME NEW m, NEW n, NEW a, NEW b
  PROVE  Loop(m, n, LAMBDA x, k : MapNew(x, a, b + k)) = LoopOf("map", a, b, m, n)
<1>1. \A x, k : Body("map", a, b, x, k) = MapNew(x, a, b + k)
  BY DEF Body
<1>2. \A f : [k \in 0 .. n |-> IF k = 0 THEN m ELSE Body("map", a, b, f[k - 1], k - 1)]
            = [k \in 0 .. n |-> IF k = 0 THEN m ELSE MapNew(f[k - 1], a, b + (k - 1))]
  BY <1>1
<1>3. (CHOOSE f : f = [k \in 0 .. n |->
                         IF k = 0 THEN m ELSE Body("map", a, b, f[k - 1], k - 1)])
      = (CHOOSE f : f = [k \in 0 .. n |->
                           IF k = 0 THEN m ELSE MapNew(f[k - 1], a, b + (k - 1))])
  BY <1>2
<1> QED BY <1>3 DEF LoopOf, Loop

\* alloc_userspace() of whole pages
LEMMA AllocLoop ==
  ASSUME NEW m, NEW pgt, NEW va, NEW memsz, va % PAGESIZE = 0 \/ memsz = 0
  PROVE  alloc_userspace(m, pgt, va, memsz) =
           LoopOf("map", pgt, va \div PAGESIZE, m, Pages(memsz))
BY MapLoop DEF alloc_userspace

\* The segments of exec()
LEMMA LoadLoop ==
  ASSUME NEW prg, NEW i
  PROVE  Loaded(prg, i) = LoopOf("load", NewTable.r, prg, NewTable, i)
<1> DEFINE t == NewTable
           Bodies(x, k) ==
             IF prg[k + 1].load
             THEN alloc_userspace(x, t.r, prg[k + 1].va, prg[k + 1].memsz) ELSE x
<1>1. \A x, k : Body("load", t.r, prg, x, k) = Bodies(x, k)
  BY DEF Body
<1>2. \A f : [k \in 0 .. i |-> IF k = 0 THEN t ELSE Body("load", t.r, prg, f[k - 1], k - 1)]
            = [k \in 0 .. i |-> IF k = 0 THEN t ELSE Bodies(f[k - 1], k - 1)]
  BY <1>1
<1>3. (CHOOSE f : f = [k \in 0 .. i |->
                         IF k = 0 THEN t ELSE Body("load", t.r, prg, f[k - 1], k - 1)])
      = (CHOOSE f : f = [k \in 0 .. i |-> IF k = 0 THEN t ELSE Bodies(f[k - 1], k - 1)])
  BY <1>2
<1> QED BY <1>3 DEF LoopOf, Loop, Loaded

\* Their sizes
LEMMA SumLoop ==
  ASSUME NEW prg
  PROVE  memsize(prg) = LoopOf("sum", NULL, prg, 0, Len(prg))
<1> DEFINE n == Len(prg)
           Bodies(x, k) == IF prg[k + 1].load THEN x + prg[k + 1].memsz ELSE x
<1> HIDE DEF n
<1>1. \A x, k : Body("sum", NULL, prg, x, k) = Bodies(x, k)
  BY DEF Body
<1>2. \A f : [k \in 0 .. n |-> IF k = 0 THEN 0 ELSE Body("sum", NULL, prg, f[k - 1], k - 1)]
            = [k \in 0 .. n |-> IF k = 0 THEN 0 ELSE Bodies(f[k - 1], k - 1)]
  BY <1>1
<1>3. (CHOOSE f : f = [k \in 0 .. n |->
                         IF k = 0 THEN 0 ELSE Body("sum", NULL, prg, f[k - 1], k - 1)])
      = (CHOOSE f : f = [k \in 0 .. n |-> IF k = 0 THEN 0 ELSE Bodies(f[k - 1], k - 1)])
  BY <1>2
<1> QED BY <1>3 DEF LoopOf, Loop, memsize, n

\* grow_userspace()
LEMMA GrowLoop ==
  ASSUME NEW m, NEW pgt, NEW old, NEW new
  PROVE  grow_userspace(m, pgt, old, new) =
           LoopOf("map", pgt, USER + Pages(old), m,
                  IF Pages(new) > Pages(old) THEN Pages(new) - Pages(old) ELSE 0)
BY MapLoop DEF grow_userspace

\* cp_userspace()
LEMMA CopyLoop ==
  ASSUME NEW m, NEW new, NEW old, NEW size
  PROVE  cp_userspace(m, new, old, size) =
           LET x == LoopOf("copy", new, old, m, Pages(size))
           IN MapNew(pagewalk(x, old, USTACK), new, USTACK)
<1> DEFINE n == Pages(size)
<1> HIDE DEF n
<1>1. \A x, k : Body("copy", new, old, x, k) = MapNew(pagewalk(x, old, USER + k), new, USER + k)
  BY DEF Body
<1>2. \A f : [k \in 0 .. n |-> IF k = 0 THEN m ELSE Body("copy", new, old, f[k - 1], k - 1)]
            = [k \in 0 .. n |-> IF k = 0 THEN m ELSE
                  MapNew(pagewalk(f[k - 1], old, USER + (k - 1)), new, USER + (k - 1))]
  BY <1>1
<1>3. (CHOOSE f : f = [k \in 0 .. n |->
                         IF k = 0 THEN m ELSE Body("copy", new, old, f[k - 1], k - 1)])
      = (CHOOSE f : f = [k \in 0 .. n |-> IF k = 0 THEN m ELSE
            MapNew(pagewalk(f[k - 1], old, USER + (k - 1)), new, USER + (k - 1))])
  BY <1>2
<1> QED BY <1>3 DEF LoopOf, Loop, cp_userspace, n

\* free_userspace()
LEMMA UnmapLoop ==
  ASSUME NEW m, NEW pgt, NEW size
  PROVE  free_userspace(m, pgt, size) =
           free_table(pageunmap(LoopOf("unmap", pgt, NULL, m, Pages(size)), pgt, USTACK), pgt)
<1> DEFINE n == Pages(size)
<1> HIDE DEF n
<1>1. \A x, k : Body("unmap", pgt, NULL, x, k) = pageunmap(x, pgt, USER + k)
  BY DEF Body
<1>2. \A f : [k \in 0 .. n |-> IF k = 0 THEN m ELSE Body("unmap", pgt, NULL, f[k - 1], k - 1)]
            = [k \in 0 .. n |-> IF k = 0 THEN m ELSE pageunmap(f[k - 1], pgt, USER + (k - 1))]
  BY <1>1
<1>3. (CHOOSE f : f = [k \in 0 .. n |->
                         IF k = 0 THEN m ELSE Body("unmap", pgt, NULL, f[k - 1], k - 1)])
      = (CHOOSE f : f = [k \in 0 .. n |->
                           IF k = 0 THEN m ELSE pageunmap(f[k - 1], pgt, USER + (k - 1))])
  BY <1>2
<1> QED BY <1>3 DEF LoopOf, Loop, free_userspace, n

\* One round of a loop over the entries of table t, which frees below by Free.
LEMMA LastLoop ==
  ASSUME NEW x, NEW t
  PROVE  Last(x, t) = LoopOf("last", t, NULL, x, NENT)
<1>1. \A y, i : Body("last", t, NULL, y, i) =
        IF Ok(y) /\ y.ent[t][i] # Empty /\ ~y.ent[t][i].af
        THEN [kfree(y, y.ent[t][i].pa) EXCEPT !.ent[t][i] = Empty] ELSE y
  BY DEF Body
<1>2. \A f : [k \in 0 .. NENT |-> IF k = 0 THEN x ELSE Body("last", t, NULL, f[k - 1], k - 1)]
            = [k \in 0 .. NENT |-> IF k = 0 THEN x ELSE
                 IF Ok(f[k - 1]) /\ f[k - 1].ent[t][k - 1] # Empty /\ ~f[k - 1].ent[t][k - 1].af
                 THEN [kfree(f[k - 1], f[k - 1].ent[t][k - 1].pa) EXCEPT !.ent[t][k - 1] = Empty]
                 ELSE f[k - 1]]
  BY <1>1
<1>3. (CHOOSE f : f = [k \in 0 .. NENT |->
                         IF k = 0 THEN x ELSE Body("last", t, NULL, f[k - 1], k - 1)])
      = (CHOOSE f : f = [k \in 0 .. NENT |-> IF k = 0 THEN x ELSE
                 IF Ok(f[k - 1]) /\ f[k - 1].ent[t][k - 1] # Empty /\ ~f[k - 1].ent[t][k - 1].af
                 THEN [kfree(f[k - 1], f[k - 1].ent[t][k - 1].pa) EXCEPT !.ent[t][k - 1] = Empty]
                 ELSE f[k - 1]])
  BY <1>2
<1> QED BY <1>3 DEF LoopOf, Loop, Last

\* free_table()
LEMMA TableLoop ==
  ASSUME NEW m, NEW pgt
  PROVE  free_table(m, pgt) = kfree(LoopOf("top", pgt, NULL, m, NENT), pgt)
<1> DEFINE Bodies(y, i) ==
        IF Ok(y) /\ y.ent[pgt][i] # Empty /\ ~y.ent[pgt][i].af
        THEN [kfree(Last(y, y.ent[pgt][i].pa), y.ent[pgt][i].pa) EXCEPT !.ent[pgt][i] = Empty]
        ELSE y
<1>1. \A y, i : Body("top", pgt, NULL, y, i) = Bodies(y, i)
  BY DEF Body
<1>2. \A f : [k \in 0 .. NENT |-> IF k = 0 THEN m ELSE Body("top", pgt, NULL, f[k - 1], k - 1)]
            = [k \in 0 .. NENT |-> IF k = 0 THEN m ELSE Bodies(f[k - 1], k - 1)]
  BY <1>1
<1>3. (CHOOSE f : f = [k \in 0 .. NENT |->
                         IF k = 0 THEN m ELSE Body("top", pgt, NULL, f[k - 1], k - 1)])
      = (CHOOSE f : f = [k \in 0 .. NENT |-> IF k = 0 THEN m ELSE Bodies(f[k - 1], k - 1)])
  BY <1>2
<1>4. LoopOf("top", pgt, NULL, m, NENT) =
        Loop(m, NENT, LAMBDA y, i :
            IF Ok(y) /\ y.ent[pgt][i] # Empty /\ ~y.ent[pgt][i].af
            THEN [kfree(Last(y, y.ent[pgt][i].pa), y.ent[pgt][i].pa) EXCEPT !.ent[pgt][i] = Empty]
            ELSE y)
  BY <1>3 DEF LoopOf, Loop
<1> QED BY <1>4 DEF free_table, Last

-----------------------------------------------------------------------------
(* Frames and their owners.                                                *)

\* The owner of a frame: the root of the space it is in, or none of them.
Nobody == -1    \* it is free
Kernel == -2    \* a kernel stack, or lost
Owners == Frames \cup {Nobody, Kernel}

Entry == [pa : Frames \cup {NULL}, af : BOOLEAN]
Mem == [free : SUBSET Frames, ent : [Frames -> [Entries -> Entry]],
        st : {"ok", "oom", "twice", "panic"}, r : Frames \cup {NULL}]

\* Where a frame of a space is: its level, the table above it, its place there.
Places == [lv : [Frames -> 1 .. 4], up : [Frames -> Frames], ix : [Frames -> Entries]]

\* Entry i of table t is the only one that refers to its frame.
Kid(m, own, g, t, i) ==
    LET f == m.ent[t][i].pa
    IN /\ f \in Frames
       /\ own[f] = own[t] /\ g.lv[f] = g.lv[t] + 1 /\ g.up[f] = t /\ g.ix[f] = i
       /\ m.ent[t][i] = IF g.lv[t] = 3 THEN Page(f) ELSE Table(f)

TreeType(m, own, g) == m \in Mem /\ own \in [Frames -> Owners] /\ g \in Places
TreeFree(m, own) == \A f \in Frames : f \in m.free <=> own[f] = Nobody
TreeDown(m, own, g) ==
    \A t \in Frames : own[t] \in Frames /\ g.lv[t] # 4 =>
        \A i \in Entries : m.ent[t][i] = Empty \/ Kid(m, own, g, t, i)
TreeUp(m, own, g) ==
    \A f \in Frames : own[f] \in Frames /\ g.lv[f] # 1 =>
        /\ own[g.up[f]] = own[f] /\ g.lv[g.up[f]] = g.lv[f] - 1
        /\ m.ent[g.up[f]][g.ix[f]].pa = f
TreeRoot(own, g) ==
    \A f \in Frames : own[f] \in Frames =>
        own[own[f]] = own[f] /\ g.lv[own[f]] = 1 /\ (g.lv[f] = 1 => own[f] = f)

\* Each space is a tree of its own.
Tree(m, own, g) ==
    /\ TreeType(m, own, g)
    /\ TreeFree(m, own)
    /\ TreeDown(m, own, g)
    /\ TreeUp(m, own, g)
    /\ TreeRoot(own, g)

\* The numbers that stand for no frame.
LEMMA Numbers ==
  /\ NULL \notin Frames /\ Nobody \notin Frames /\ Kernel \notin Frames
  /\ Nobody # Kernel
BY FramesAssumption DEF NULL, Nobody, Kernel

\* Entries and empty tables.
LEMMA EntryFacts ==
  /\ Empty.pa = NULL /\ Empty.af = FALSE /\ Empty \in Entry
  /\ \A f \in Frames : /\ Table(f).pa = f /\ Table(f).af = FALSE /\ Table(f) \in Entry
                       /\ Page(f).pa = f /\ Page(f).af = TRUE /\ Page(f) \in Entry
                       /\ Table(f) # Empty /\ Page(f) # Empty
  /\ Zero \in [Entries -> Entry] /\ \A i \in Entries : Zero[i] = Empty
<1>1. Empty \in Entry /\ Empty.pa = NULL /\ Empty.af = FALSE
  BY DEF Empty, Entry
<1>2. ASSUME NEW f \in Frames
      PROVE  /\ Table(f).pa = f /\ Table(f).af = FALSE /\ Table(f) \in Entry
             /\ Page(f).pa = f /\ Page(f).af = TRUE /\ Page(f) \in Entry
  BY DEF Table, Page, Entry
<1>3. \A f \in Frames : Table(f) # Empty /\ Page(f) # Empty
  BY <1>1, <1>2, Numbers
<1>4. Zero \in [Entries -> Entry] /\ \A i \in Entries : Zero[i] = Empty
  BY <1>1 DEF Zero
<1> QED BY <1>1, <1>2, <1>3, <1>4

\* A free frame is taken.
LEMMA TakeTree ==
  ASSUME NEW m, NEW own, NEW g, Tree(m, own, g), NEW f \in m.free,
         NEW x \in Mem, x.free = m.free \ {f}, x.ent = [m.ent EXCEPT ![f] = Zero],
         NEW o, o = [own EXCEPT ![f] = Kernel]
  PROVE  f \in Frames /\ own[f] = Nobody /\ Tree(x, o, g)
<1>1. /\ f \in Frames /\ own[f] = Nobody /\ o \in [Frames -> Owners] /\ o[f] = Kernel
      /\ \A e \in Frames : e # f => o[e] = own[e] /\ x.ent[e] = m.ent[e]
      /\ \A e \in Frames : own[e] \in Frames <=> o[e] \in Frames
  BY Numbers DEF Tree, TreeType, TreeFree, Owners, Mem
<1>2. TreeType(x, o, g)
  BY <1>1 DEF Tree, TreeType
<1>3. TreeFree(x, o)
  BY <1>1, Numbers DEF Tree, TreeFree
<1>4. TreeDown(x, o, g)
  BY <1>1, Numbers, SMTT(20) DEF Tree, TreeDown, Kid
<1>5. TreeUp(x, o, g)
  BY <1>1, Numbers DEF Tree, TreeUp, TreeType, Places
<1>6. TreeRoot(o, g)
  BY <1>1, Numbers DEF Tree, TreeRoot
<1> QED BY <1>1, <1>2, <1>3, <1>4, <1>5, <1>6 DEF Tree

\* The hypotheses of the next lemma: frame f, which is no space's, becomes entry i
\* of table t.
Linking(m, own, g, t, i, f, x, o, h) ==
    /\ Tree(m, own, g) /\ t \in Frames /\ i \in Entries /\ f \in Frames
    /\ own[f] = Kernel /\ own[t] \in Frames /\ g.lv[t] # 4 /\ m.ent[t][i] = Empty
    /\ g.lv[t] = 3 \/ m.ent[f] = Zero
    /\ x \in Mem /\ x.free = m.free
    /\ x.ent = [m.ent EXCEPT ![t][i] = IF g.lv[t] = 3 THEN Page(f) ELSE Table(f)]
    /\ o = [own EXCEPT ![f] = own[t]]
    /\ h = [lv |-> [g.lv EXCEPT ![f] = g.lv[t] + 1], up |-> [g.up EXCEPT ![f] = t],
            ix |-> [g.ix EXCEPT ![f] = i]]

\* A frame is linked into a space.
LEMMA LinkTree ==
  ASSUME NEW m, NEW own, NEW g, NEW t, NEW i, NEW f, NEW x, NEW o, NEW h,
         Linking(m, own, g, t, i, f, x, o, h)
  PROVE  /\ Tree(x, o, h)
         /\ o[f] = own[t] /\ h.lv[f] = g.lv[t] + 1 /\ h.up[f] = t /\ h.ix[f] = i
         /\ \A e \in Frames : e # f => /\ o[e] = own[e] /\ h.lv[e] = g.lv[e]
                                       /\ h.up[e] = g.up[e] /\ h.ix[e] = g.ix[e]
<1> USE DEF Linking
<1>0. g \in Places /\ own \in [Frames -> Owners] /\ m \in Mem /\ t \in Frames /\ f \in Frames
  BY DEF Tree, TreeType
<1>1. /\ o \in [Frames -> Owners] /\ o[f] = own[t] /\ t # f
      /\ \A e \in Frames : e # f => o[e] = own[e]
  BY <1>0, Numbers DEF Owners
<1>2. /\ h.lv \in [Frames -> 1 .. 4] /\ h.up \in [Frames -> Frames] /\ h.ix \in [Frames -> Entries]
      /\ h.lv[f] = g.lv[t] + 1 /\ h.up[f] = t /\ h.ix[f] = i
      /\ \A e \in Frames : e # f => h.lv[e] = g.lv[e] /\ h.up[e] = g.up[e] /\ h.ix[e] = g.ix[e]
  BY <1>0 DEF Places
<1>3. h \in Places
  BY <1>2 DEF Places
<1>4. /\ \A e \in Frames : e # t => x.ent[e] = m.ent[e]
      /\ \A j \in Entries : j # i => x.ent[t][j] = m.ent[t][j]
      /\ x.ent[t][i] = IF g.lv[t] = 3 THEN Page(f) ELSE Table(f)
      /\ x.ent[t][i].pa = f
  BY <1>0, EntryFacts DEF Mem
<1> HIDE DEF Linking
<1>5. TreeType(x, o, h)
  BY <1>1, <1>3 DEF TreeType, Linking
<1>6. TreeFree(x, o)
  BY <1>1, Numbers DEF Tree, TreeFree, Linking
<1>7. TreeDown(x, o, h)
  <2> SUFFICES ASSUME NEW b \in Frames, o[b] \in Frames, h.lv[b] # 4, NEW j \in Entries
               PROVE  x.ent[b][j] = Empty \/ Kid(x, o, h, b, j)
    BY DEF TreeDown
  <2>1. CASE b = f
    <3>1. m.ent[f] = Zero
      BY <2>1, <1>2, <1>0 DEF Linking, Places
    <3> QED BY <3>1, <2>1, <1>1, <1>4, EntryFacts
  <2>2. CASE b = t /\ j = i
    BY <2>2, <1>0, <1>1, <1>2, <1>4 DEF Kid
  <2>3. CASE b # f /\ ~(b = t /\ j = i)
    <3>1. own[b] \in Frames /\ g.lv[b] # 4 /\ x.ent[b][j] = m.ent[b][j]
      BY <2>3, <1>1, <1>2, <1>4
    <3>2. m.ent[b][j] = Empty \/ Kid(m, own, g, b, j)
      BY <3>1 DEF Tree, TreeDown, Linking
    <3>3. Kid(m, own, g, b, j) => m.ent[b][j].pa # f
      BY <3>1, Numbers DEF Kid, Linking
    <3> QED BY <3>1, <3>2, <3>3, <2>3, <1>1, <1>2, SMTT(20) DEF Kid
  <2> QED BY <2>1, <2>2, <2>3
<1>8. TreeUp(x, o, h)
  <2> SUFFICES ASSUME NEW e \in Frames, o[e] \in Frames, h.lv[e] # 1
               PROVE  /\ o[h.up[e]] = o[e] /\ h.lv[h.up[e]] = h.lv[e] - 1
                      /\ x.ent[h.up[e]][h.ix[e]].pa = e
    BY DEF TreeUp
  <2>1. CASE e = f
    BY <2>1, <1>0, <1>1, <1>2, <1>4 DEF Places
  <2>2. CASE e # f
    <3>1. /\ own[g.up[e]] = own[e] /\ g.lv[g.up[e]] = g.lv[e] - 1
          /\ m.ent[g.up[e]][g.ix[e]].pa = e /\ own[e] \in Frames
      <4>1. own[e] \in Frames /\ g.lv[e] # 1
        BY <2>2, <1>1, <1>2
      <4>2. TreeUp(m, own, g)
        BY DEF Tree, Linking
      <4> QED BY <4>1, <4>2 DEF TreeUp
    <3>2. g.up[e] \in Frames /\ g.ix[e] \in Entries /\ g.up[e] # f
      BY <3>1, <1>0, Numbers DEF Places, Linking
    <3>3. ~(g.up[e] = t /\ g.ix[e] = i)
      BY <3>1, Numbers, EntryFacts DEF Linking
    <3>4. x.ent[g.up[e]][g.ix[e]] = m.ent[g.up[e]][g.ix[e]]
      BY <3>2, <3>3, <1>4
    <3> QED BY <2>2, <3>1, <3>2, <3>4, <1>1, <1>2, ZenonT(30)
  <2> QED BY <2>1, <2>2
<1>9. TreeRoot(o, h)
  BY <1>0, <1>1, <1>2, Numbers DEF Tree, TreeRoot, Linking, Places
<1> QED BY <1>1, <1>2, <1>5, <1>6, <1>7, <1>8, <1>9 DEF Tree

\* The hypotheses of the next lemma: frame f, entry i of table t, has nothing below it
\* and becomes free.
Unlinking(m, own, g, t, i, f, x, o) ==
    /\ Tree(m, own, g) /\ t \in Frames /\ i \in Entries
    /\ own[t] \in Frames /\ g.lv[t] # 4 /\ m.ent[t][i] # Empty /\ f = m.ent[t][i].pa
    /\ g.lv[t] = 3 \/ \A j \in Entries : m.ent[f][j] = Empty
    /\ x \in Mem /\ x.free = m.free \cup {f}
    /\ \A e \in Frames : e # f /\ e # t => x.ent[e] = m.ent[e]
    /\ \A j \in Entries : j # i => x.ent[t][j] = m.ent[t][j]
    /\ x.ent[t][i] = Empty
    /\ o = [own EXCEPT ![f] = Nobody]

\* A frame is taken out of a space.
LEMMA UnlinkTree ==
  ASSUME NEW m, NEW own, NEW g, NEW t, NEW i, NEW f, NEW x, NEW o,
         Unlinking(m, own, g, t, i, f, x, o)
  PROVE  /\ f \in Frames /\ own[f] = own[t] /\ g.lv[f] = g.lv[t] + 1
         /\ g.up[f] = t /\ g.ix[f] = i /\ f # t
         /\ Tree(x, o, g)
<1>0. g \in Places /\ own \in [Frames -> Owners] /\ m \in Mem
  BY DEF Tree, TreeType, Unlinking
<1>1. Kid(m, own, g, t, i)
  BY DEF Tree, TreeDown, Unlinking
<1>2. /\ f \in Frames /\ own[f] = own[t] /\ g.lv[f] = g.lv[t] + 1 /\ g.up[f] = t /\ g.ix[f] = i
      /\ t \in Frames /\ i \in Entries
  BY <1>1 DEF Kid, Unlinking
<1>3. f # t
  BY <1>0, <1>2 DEF Places
<1>4. /\ o \in [Frames -> Owners] /\ o[f] = Nobody
      /\ \A e \in Frames : e # f => o[e] = own[e]
  BY <1>0, <1>2 DEF Owners, Unlinking
<1>5. TreeType(x, o, g)
  BY <1>0, <1>4 DEF TreeType, Unlinking
<1>6. TreeFree(x, o)
  BY <1>4, <1>2, Numbers DEF Tree, TreeFree, Unlinking
<1>7. TreeDown(x, o, g)
  <2> SUFFICES ASSUME NEW b \in Frames, o[b] \in Frames, g.lv[b] # 4, NEW j \in Entries
               PROVE  x.ent[b][j] = Empty \/ Kid(x, o, g, b, j)
    BY DEF TreeDown
  <2>1. CASE b = t /\ j = i
    BY <2>1 DEF Unlinking
  <2>3. CASE ~(b = t /\ j = i)
    <3>0. b # f
      BY <1>4, Numbers
    <3>1. own[b] \in Frames /\ x.ent[b][j] = m.ent[b][j]
      BY <2>3, <1>4, <3>0 DEF Unlinking
    <3>2. m.ent[b][j] = Empty \/ Kid(m, own, g, b, j)
      BY <3>1 DEF Tree, TreeDown, Unlinking
    <3>3. Kid(m, own, g, b, j) => m.ent[b][j].pa # f
      BY <2>3, <1>2 DEF Kid
    <3> QED BY <3>0, <3>1, <3>2, <3>3, <1>4 DEF Kid
  <2> QED BY <2>1, <2>3
<1>8. TreeUp(x, o, g)
  <2> SUFFICES ASSUME NEW e \in Frames, o[e] \in Frames, g.lv[e] # 1
               PROVE  /\ o[g.up[e]] = o[e] /\ g.lv[g.up[e]] = g.lv[e] - 1
                      /\ x.ent[g.up[e]][g.ix[e]].pa = e
    BY DEF TreeUp
  <2>1. e # f
    BY <1>4, Numbers
  <2>2. /\ own[g.up[e]] = own[e] /\ g.lv[g.up[e]] = g.lv[e] - 1
        /\ m.ent[g.up[e]][g.ix[e]].pa = e /\ own[e] \in Frames
    BY <2>1, <1>4 DEF Tree, TreeUp, Unlinking
  <2>3. g.up[e] \in Frames /\ g.ix[e] \in Entries
    BY <1>0 DEF Places
  <2>4. ~(g.up[e] = t /\ g.ix[e] = i)
    BY <2>1, <2>2 DEF Unlinking
  <2>5. g.up[e] # f
    <3>1. SUFFICES ASSUME g.up[e] = f PROVE FALSE
      OBVIOUS
    <3>2. g.lv[t] = 3 => g.lv[e] = 5
      BY <3>1, <2>2, <1>2, <1>0 DEF Places
    <3>3. g.lv[e] # 5
      BY <1>0 DEF Places
    <3>4. m.ent[f][g.ix[e]] # Empty
      BY <3>1, <2>2, EntryFacts, Numbers
    <3>5. g.lv[t] = 3 \/ \A j \in Entries : m.ent[f][j] = Empty
      BY DEF Unlinking
    <3> QED BY <3>2, <3>3, <3>4, <3>5, <2>3
  <2>6. x.ent[g.up[e]][g.ix[e]] = m.ent[g.up[e]][g.ix[e]]
    BY <2>3, <2>4, <2>5 DEF Unlinking
  <2> QED BY <2>1, <2>2, <2>3, <2>5, <2>6, <1>4
<1>9. TreeRoot(o, g)
  <2>1. \A e \in Frames : o[e] \in Frames => own[e] \in Frames /\ o[e] = own[e]
    BY <1>4, Numbers
  <2>2. g.lv[f] # 1
    BY <1>0, <1>2 DEF Places
  <2> QED BY <2>1, <2>2, <1>4, SMTT(20) DEF Tree, TreeRoot, Unlinking
<1> QED BY <1>2, <1>3, <1>5, <1>6, <1>7, <1>8, <1>9 DEF Tree

\* Table f becomes the root of a space.
Rooting(own, g, f, o, h) ==
    /\ f \in Frames /\ own[f] = Kernel /\ o = [own EXCEPT ![f] = f]
    /\ h \in Places /\ h.lv = [g.lv EXCEPT ![f] = 1] /\ h.up = g.up /\ h.ix = g.ix

\* An empty table can become the root of a space.
LEMMA RootTree ==
  ASSUME NEW m, NEW own, NEW g, Tree(m, own, g), NEW f, m.ent[f] = Zero, NEW o, NEW h,
         Rooting(own, g, f, o, h)
  PROVE  Tree(m, o, h)
<1> USE DEF Rooting
<1>0. g \in Places /\ own \in [Frames -> Owners] /\ m \in Mem
  BY DEF Tree, TreeType
<1>1. /\ o \in [Frames -> Owners] /\ o[f] = f /\ \A e \in Frames : e # f => o[e] = own[e]
  BY <1>0 DEF Owners
<1>2. /\ h.lv \in [Frames -> 1 .. 4] /\ h.up = g.up /\ h.ix = g.ix /\ h.lv[f] = 1
      /\ \A e \in Frames : e # f => h.lv[e] = g.lv[e]
  BY <1>0 DEF Places
<1>3. h \in Places
  BY <1>0, <1>2 DEF Places
<1>5. TreeType(m, o, h)
  BY <1>0, <1>1, <1>3 DEF TreeType
<1>6. TreeFree(m, o)
  BY <1>1, Numbers DEF Tree, TreeFree
<1>7. TreeDown(m, o, h)
  <2> SUFFICES ASSUME NEW b \in Frames, o[b] \in Frames, h.lv[b] # 4, NEW j \in Entries
               PROVE  m.ent[b][j] = Empty \/ Kid(m, o, h, b, j)
    BY DEF TreeDown
  <2>1. CASE b = f
    BY <2>1, EntryFacts
  <2>3. CASE b # f
    <3>2. m.ent[b][j] = Empty \/ Kid(m, own, g, b, j)
      BY <2>3, <1>1, <1>2 DEF Tree, TreeDown
    <3>3. Kid(m, own, g, b, j) => m.ent[b][j].pa # f
      BY <2>3, <1>1, Numbers DEF Kid
    <3> QED BY <3>2, <3>3, <2>3, <1>1, <1>2 DEF Kid
  <2> QED BY <2>1, <2>3
<1>8. TreeUp(m, o, h)
  <2> SUFFICES ASSUME NEW e \in Frames, o[e] \in Frames, h.lv[e] # 1
               PROVE  /\ o[h.up[e]] = o[e] /\ h.lv[h.up[e]] = h.lv[e] - 1
                      /\ m.ent[h.up[e]][h.ix[e]].pa = e
    BY DEF TreeUp
  <2>1. e # f
    BY <1>2
  <2>2. /\ own[g.up[e]] = own[e] /\ g.lv[g.up[e]] = g.lv[e] - 1
        /\ m.ent[g.up[e]][g.ix[e]].pa = e /\ own[e] \in Frames
    BY <2>1, <1>1, <1>2 DEF Tree, TreeUp
  <2>3. g.up[e] \in Frames /\ g.up[e] # f
    BY <1>0, <2>2, Numbers DEF Places
  <2> QED BY <2>1, <2>2, <2>3, <1>1, <1>2
<1>9. TreeRoot(o, h)
  BY <1>1, <1>2, Numbers DEF Tree, TreeRoot
<1> QED BY <1>1, <1>2, <1>5, <1>6, <1>7, <1>8, <1>9 DEF Tree

\* A frame that is in no space becomes free.
LEMMA ReturnTree ==
  ASSUME NEW m, NEW own, NEW g, Tree(m, own, g), NEW f \in Frames, own[f] = Kernel,
         NEW x \in Mem, x.free = m.free \cup {f}, x.ent = [m.ent EXCEPT ![f] = Zero],
         NEW o, o = [own EXCEPT ![f] = Nobody]
  PROVE  Tree(x, o, g)
<1>1. /\ o \in [Frames -> Owners] /\ o[f] = Nobody
      /\ \A e \in Frames : e # f => o[e] = own[e] /\ x.ent[e] = m.ent[e]
      /\ \A e \in Frames : own[e] \in Frames <=> o[e] \in Frames
  BY Numbers DEF Tree, TreeType, TreeFree, Owners, Mem
<1>2. TreeType(x, o, g)
  BY <1>1 DEF Tree, TreeType
<1>3. TreeFree(x, o)
  BY <1>1, Numbers DEF Tree, TreeFree
<1>4. TreeDown(x, o, g)
  BY <1>1, Numbers, SMTT(20) DEF Tree, TreeDown, Kid
<1>5. TreeUp(x, o, g)
  BY <1>1, Numbers DEF Tree, TreeUp, TreeType, Places
<1>6. TreeRoot(o, g)
  BY <1>1, Numbers DEF Tree, TreeRoot
<1> QED BY <1>1, <1>2, <1>3, <1>4, <1>5, <1>6 DEF Tree

\* The root of a space becomes free, and what is left of the space is lost.
LEMMA DropTree ==
  ASSUME NEW m, NEW own, NEW g, Tree(m, own, g), NEW f \in Frames, own[f] = f,
         NEW x \in Mem, x.free = m.free \cup {f}, x.ent = [m.ent EXCEPT ![f] = Zero],
         NEW o, o = [e \in Frames |-> IF e = f THEN Nobody
                                      ELSE IF own[e] = f THEN Kernel ELSE own[e]]
  PROVE  Tree(x, o, g)
<1>0. g \in Places /\ own \in [Frames -> Owners] /\ m \in Mem
  BY DEF Tree, TreeType
<1>1. /\ o \in [Frames -> Owners] /\ o[f] = Nobody
      /\ \A e \in Frames : e # f => x.ent[e] = m.ent[e]
      /\ \A e \in Frames : o[e] \in Frames => o[e] = own[e] /\ own[e] # f /\ e # f
      /\ \A e \in Frames : own[e] # f => o[e] = own[e]
      /\ \A e \in Frames : e # f /\ own[e] = f => o[e] = Kernel
  BY <1>0, Numbers DEF Owners, Mem
<1>2. TreeType(x, o, g)
  BY <1>1, <1>0 DEF TreeType
<1>3. TreeFree(x, o)
  BY <1>1, Numbers DEF Tree, TreeFree
<1>4. TreeDown(x, o, g)
  BY <1>1, Numbers, SMTT(20) DEF Tree, TreeDown, Kid
<1>5. TreeUp(x, o, g)
  BY <1>1, <1>0, Numbers DEF Tree, TreeUp, Places
<1>6. TreeRoot(o, g)
  BY <1>1, Numbers DEF Tree, TreeRoot
<1> QED BY <1>1, <1>2, <1>3, <1>4, <1>5, <1>6 DEF Tree

\* What is in a space is lost.
LEMMA LoseTree ==
  ASSUME NEW m, NEW own, NEW g, Tree(m, own, g), NEW f \in Frames, own[f] = f,
         NEW o, o = [e \in Frames |-> IF own[e] = f THEN Kernel ELSE own[e]]
  PROVE  Tree(m, o, g)
<1>0. g \in Places /\ own \in [Frames -> Owners] /\ m \in Mem
  BY DEF Tree, TreeType
<1>1. /\ o \in [Frames -> Owners]
      /\ \A e \in Frames : o[e] \in Frames => o[e] = own[e] /\ own[e] # f
      /\ \A e \in Frames : own[e] # f => o[e] = own[e]
      /\ \A e \in Frames : own[e] = f => o[e] = Kernel
  BY <1>0, Numbers DEF Owners
<1>2. TreeType(m, o, g)
  BY <1>1, <1>0 DEF TreeType
<1>3. TreeFree(m, o)
  BY <1>1, Numbers DEF Tree, TreeFree
<1>4. TreeDown(m, o, g)
  BY <1>1, Numbers, SMTT(20) DEF Tree, TreeDown, Kid
<1>5. TreeUp(m, o, g)
  BY <1>1, <1>0, Numbers DEF Tree, TreeUp, Places
<1>6. TreeRoot(o, g)
  BY <1>1, Numbers DEF Tree, TreeRoot
<1> QED BY <1>2, <1>3, <1>4, <1>5, <1>6 DEF Tree

-----------------------------------------------------------------------------
(* What a space maps.                                                      *)

\* A quotient and its remainder.
LEMMA Quotient ==
  ASSUME NEW n \in Nat \ {0}, NEW x \in Nat
  PROVE  x \div n \in Nat /\ x % n \in 0 .. n - 1 /\ x = n * (x \div n) + (x % n)
<1>0. x \in Int
  OBVIOUS
<1>1. x % n \in 0 .. n - 1 /\ x \div n \in Int
  OBVIOUS
<1>2. x \div n >= 0
  BY Z3
<1>3. x = n * (x \div n) + (x % n)
  BY <1>0, Z3
<1> QED BY <1>1, <1>2, <1>3

\* The places of an address in the tables.
LEMMA PidxNat ==
  ASSUME NEW vpn \in Nat
  PROVE  PIDX(1, vpn) \in Entries /\ PIDX(2, vpn) \in Entries /\ PIDX(3, vpn) \in Entries
<1>1. PICK N \in Nat \ {0} : N = NENT
  BY NENTAssumption
<1>2. PICK S \in Nat \ {0} : S = N * N
  <2>1. N * N \in Nat /\ N * N # 0
    BY <1>1, Z3
  <2> QED BY <2>1
<1>3. vpn \div N \in Nat /\ vpn \div S \in Nat /\ vpn % N \in 0 .. N - 1
  BY <1>1, <1>2, Quotient, Zenon
<1>4. (vpn \div N) % N \in 0 .. N - 1 /\ (vpn \div S) % N \in 0 .. N - 1
  BY <1>1, <1>3, Quotient, Zenon
<1>5. PIDX(1, vpn) = (vpn \div S) % N /\ PIDX(2, vpn) = (vpn \div N) % N /\ PIDX(3, vpn) = vpn % N
  BY <1>1, <1>2 DEF PIDX
<1> QED BY <1>1, <1>3, <1>4, <1>5 DEF Entries

LEMMA VpnsNat == Vpns \subseteq Nat
BY DEF Vpns

LEMMA PidxType ==
  ASSUME NEW vpn \in Vpns
  PROVE  PIDX(1, vpn) \in Entries /\ PIDX(2, vpn) \in Entries /\ PIDX(3, vpn) \in Entries
BY VpnsNat, PidxNat

\* Of the addresses that the tables tell apart, nothing is left above the first level.
LEMMA PidxTop ==
  ASSUME NEW vpn \in Vpns
  PROVE  PIDX(1, vpn) = vpn \div (NENT * NENT)
<1>1. PICK N \in Nat \ {0} : N = NENT
  BY NENTAssumption
<1>2. PICK S \in Nat \ {0} : S = N * N
  <2>1. N * N \in Nat /\ N * N # 0
    BY <1>1, Z3
  <2> QED BY <2>1
<1>3. S > 0 /\ vpn \in Nat /\ vpn < S * N
  BY <1>1, <1>2, NENTAssumption, Z3 DEF Vpns
<1>5. vpn \div S \in Nat /\ vpn % S \in 0 .. S - 1 /\ vpn = S * (vpn \div S) + (vpn % S)
  BY <1>2, <1>3, Quotient, Zenon
<1>6. PICK q \in Nat : q = vpn \div S
  BY <1>5
<1>7. q < N
  <2>2. PICK w \in Nat : w = vpn % S
    BY <1>5
  <2>3. S * q + w < S * N
    BY <1>3, <1>5, <1>6, <2>2
  <2>4. q >= N => S * q >= S * N
    BY <1>1, <1>2, <1>6, Z3
  <2>5. S * q \in Nat /\ S * N \in Nat
    BY <1>1, <1>2, <1>6
  <2> QED BY <1>1, <1>6, <2>2, <2>3, <2>4, <2>5
<1>8. q % N = q
  BY <1>1, <1>6, <1>7
<1> QED BY <1>1, <1>2, <1>6, <1>8 DEF PIDX

\* Two addresses with the same places are the same.
LEMMA PidxInj ==
  ASSUME NEW v \in Vpns, NEW w \in Vpns,
         PIDX(1, v) = PIDX(1, w), PIDX(2, v) = PIDX(2, w), PIDX(3, v) = PIDX(3, w)
  PROVE  v = w
<1>1. PICK N \in Nat \ {0} : N = NENT
  BY NENTAssumption
<1>2. PICK S \in Nat : S = N * N
  BY <1>1
<1>3. S > 0 /\ v \in Nat /\ w \in Nat
  BY <1>1, <1>2, NENTAssumption, Z3 DEF Vpns
<1>4. ASSUME NEW u \in Nat
      PROVE  \E b, c \in 0 .. N - 1 : /\ u = S * (u \div S) + N * b + c
                                      /\ u % N = c /\ (u \div N) % N = b /\ u \div S \in Nat
  <2>1. PICK c \in 0 .. N - 1 : c = u % N
    BY <1>1, Quotient
  <2>2. PICK q \in Nat : q = u \div N
    BY <1>1, Quotient
  <2>3. u = N * q + c
    BY <1>1, <2>1, <2>2, Quotient
  <2>4. PICK b \in 0 .. N - 1 : b = q % N
    BY <1>1, <2>2, Quotient
  <2>5. PICK a \in Nat : a = q \div N
    BY <1>1, <2>2, Quotient
  <2>6. q = N * a + b
    BY <1>1, <2>4, <2>5, Quotient
  <2>7. u = S * a + N * b + c
    BY <1>1, <1>2, <2>3, <2>6, Z3
  <2>8. N * b + c \in 0 .. S - 1
    BY <1>1, <1>2, <2>4, <2>1, Z3
  <2>9. u \div S = a
    <3>1. PICK d \in 0 .. S - 1 : d = N * b + c
      BY <2>8
    <3>2. u = S * a + d
      BY <2>7, <3>1, <1>1
    <3> QED BY <1>3, <3>2, <2>5, Z3
  <2> QED BY <2>1, <2>2, <2>4, <2>5, <2>7, <2>9
<1>7. \A u : PIDX(2, u) = (u \div N) % N /\ PIDX(3, u) = u % N
  BY <1>1, <1>2 DEF PIDX
<1>8. PIDX(1, v) = v \div S /\ PIDX(1, w) = w \div S
  BY <1>1, <1>2, PidxTop
<1> QED BY <1>3, <1>4, <1>7, <1>8

\* The addresses that the tables of space r have a frame for.
Mapped(m, r) == {vpn \in Vpns : FrameAt(m, r, vpn) # NULL}

\* Page f has its place in space r at an address.
PlacedAt(own, g, r, f, vpn) ==
    /\ f \in Frames /\ own[f] = r /\ g.lv[f] = 4
    /\ g.ix[f] = PIDX(3, vpn) /\ g.ix[g.up[f]] = PIDX(2, vpn)
    /\ g.ix[g.up[g.up[f]]] = PIDX(1, vpn)

\* The tables above frame f, a page of space r.
Climb(m, own, g, r, f) ==
    /\ g.up[f] \in Frames /\ own[g.up[f]] = r /\ g.lv[g.up[f]] = 3
    /\ g.up[g.up[f]] \in Frames /\ own[g.up[g.up[f]]] = r /\ g.lv[g.up[g.up[f]]] = 2
    /\ g.up[g.up[g.up[f]]] = r
    /\ f = m.ent[g.up[f]][g.ix[f]].pa
    /\ g.up[f] = m.ent[g.up[g.up[f]]][g.ix[g.up[f]]].pa
    /\ g.up[g.up[f]] = m.ent[r][g.ix[g.up[g.up[f]]]].pa

\* The tables above a frame.
LEMMA Above ==
  ASSUME NEW m, NEW own, NEW g, Tree(m, own, g), NEW r \in Frames, own[r] = r,
         NEW f \in Frames, own[f] = r, g.lv[f] = 4
  PROVE  Climb(m, own, g, r, f)
<1>0. g \in Places /\ \A e \in Frames : g.up[e] \in Frames
  BY DEF Tree, TreeType, Places
<1>1. \A e \in Frames : own[e] = r /\ g.lv[e] # 1 =>
        own[g.up[e]] = r /\ g.lv[g.up[e]] = g.lv[e] - 1 /\ m.ent[g.up[e]][g.ix[e]].pa = e
  BY DEF Tree, TreeUp
<1>2. \A e \in Frames : own[e] = r /\ g.lv[e] = 1 => e = r
  BY DEF Tree, TreeRoot
<1>3. PICK t \in Frames : t = g.up[f]
  BY <1>0
<1>4. own[t] = r /\ g.lv[t] = 3 /\ m.ent[t][g.ix[f]].pa = f
  BY <1>1, <1>3
<1>5. PICK b \in Frames : b = g.up[t]
  BY <1>0
<1>6. own[b] = r /\ g.lv[b] = 2 /\ m.ent[b][g.ix[t]].pa = t
  BY <1>1, <1>4, <1>5
<1>7. own[g.up[b]] = r /\ g.lv[g.up[b]] = 1 /\ m.ent[g.up[b]][g.ix[b]].pa = b
  BY <1>1, <1>6
<1>8. g.up[b] = r
  BY <1>0, <1>2, <1>7
<1> QED BY <1>3, <1>4, <1>5, <1>6, <1>7, <1>8 DEF Climb

\* One level down the tables.
LEMMA Below ==
  ASSUME NEW m, NEW own, NEW g, Tree(m, own, g), NEW t \in Frames, own[t] \in Frames,
         g.lv[t] # 4, NEW i \in Entries, m.ent[t][i].pa # NULL
  PROVE  Kid(m, own, g, t, i)
<1>1. m.ent[t][i] # Empty
  BY EntryFacts
<1> QED BY <1>1 DEF Tree, TreeDown

\* The walk through the tables finds the page that has its place at the address.
LEMMA WalkFinds ==
  ASSUME NEW m, NEW own, NEW g, Tree(m, own, g), NEW r \in Frames, own[r] = r,
         NEW vpn \in Vpns
  PROVE  /\ \A f : PlacedAt(own, g, r, f, vpn) => FrameAt(m, r, vpn) = f
         /\ FrameAt(m, r, vpn) # NULL => PlacedAt(own, g, r, FrameAt(m, r, vpn), vpn)
<1>0. /\ r # NULL /\ PIDX(1, vpn) \in Entries /\ PIDX(2, vpn) \in Entries
      /\ PIDX(3, vpn) \in Entries /\ g.lv[r] = 1
  BY PidxType, Numbers DEF Tree, TreeRoot
<1>1. ASSUME NEW f, PlacedAt(own, g, r, f, vpn)
      PROVE  FrameAt(m, r, vpn) = f
  <2>1. f \in Frames /\ own[f] = r /\ g.lv[f] = 4
    BY <1>1 DEF PlacedAt
  <2>2. /\ g.up[f] \in Frames /\ g.up[g.up[f]] \in Frames
        /\ f = m.ent[g.up[f]][g.ix[f]].pa
        /\ g.up[f] = m.ent[g.up[g.up[f]]][g.ix[g.up[f]]].pa
        /\ g.up[g.up[f]] = m.ent[r][g.ix[g.up[g.up[f]]]].pa
    <3>1. Climb(m, own, g, r, f)
      BY <2>1, Above
    <3> QED BY <3>1 DEF Climb
  <2>3. EntryAt(m, r, PIDX(1, vpn)) = g.up[g.up[f]]
    BY <1>0, <1>1, <2>2 DEF EntryAt, PlacedAt
  <2>4. EntryAt(m, g.up[g.up[f]], PIDX(2, vpn)) = g.up[f]
    BY <1>1, <2>2, Numbers DEF EntryAt, PlacedAt
  <2>5. EntryAt(m, g.up[f], PIDX(3, vpn)) = f
    BY <1>1, <2>2, Numbers DEF EntryAt, PlacedAt
  <2> QED BY <2>3, <2>4, <2>5 DEF FrameAt
<1>2. ASSUME FrameAt(m, r, vpn) # NULL
      PROVE  PlacedAt(own, g, r, FrameAt(m, r, vpn), vpn)
  <2>1. PICK b : b = EntryAt(m, r, PIDX(1, vpn))
    OBVIOUS
  <2>2. PICK t : t = EntryAt(m, b, PIDX(2, vpn))
    OBVIOUS
  <2>3. PICK f : f = EntryAt(m, t, PIDX(3, vpn))
    OBVIOUS
  <2>4. f = FrameAt(m, r, vpn)
    BY <2>1, <2>2, <2>3 DEF FrameAt
  <2>5. f # NULL /\ t # NULL /\ b # NULL
    BY <1>2, <2>2, <2>3, <2>4 DEF EntryAt
  <2>6. b = m.ent[r][PIDX(1, vpn)].pa /\ t = m.ent[b][PIDX(2, vpn)].pa
        /\ f = m.ent[t][PIDX(3, vpn)].pa
    BY <1>0, <2>1, <2>2, <2>3, <2>5 DEF EntryAt
  <2>7. b \in Frames /\ own[b] = r /\ g.lv[b] = 2 /\ g.ix[b] = PIDX(1, vpn)
    <3>1. own[r] \in Frames /\ g.lv[r] # 4
      BY <1>0
    <3>2. Kid(m, own, g, r, PIDX(1, vpn))
      BY <1>0, <2>5, <2>6, <3>1, Below
    <3>3. /\ b \in Frames /\ own[b] = own[r] /\ g.lv[b] = g.lv[r] + 1
          /\ g.up[b] = r /\ g.ix[b] = PIDX(1, vpn)
      BY <2>6, <3>2, Zenon DEF Kid
    <3> QED BY <1>0, <3>3
  <2>8. t \in Frames /\ own[t] = r /\ g.lv[t] = 3 /\ g.ix[t] = PIDX(2, vpn) /\ g.up[t] = b
    <3>1. own[b] \in Frames /\ g.lv[b] # 4
      BY <2>7
    <3>2. Kid(m, own, g, b, PIDX(2, vpn))
      BY <1>0, <2>5, <2>6, <2>7, <3>1, Below
    <3>3. /\ t \in Frames /\ own[t] = own[b] /\ g.lv[t] = g.lv[b] + 1
          /\ g.up[t] = b /\ g.ix[t] = PIDX(2, vpn)
      BY <2>6, <3>2, Zenon DEF Kid
    <3> QED BY <2>7, <3>3
  <2>9. f \in Frames /\ own[f] = r /\ g.lv[f] = 4 /\ g.ix[f] = PIDX(3, vpn) /\ g.up[f] = t
    <3>1. own[t] \in Frames /\ g.lv[t] # 4
      BY <2>8
    <3>2. Kid(m, own, g, t, PIDX(3, vpn))
      BY <1>0, <2>5, <2>6, <2>8, <3>1, Below
    <3>3. /\ f \in Frames /\ own[f] = own[t] /\ g.lv[f] = g.lv[t] + 1
          /\ g.up[f] = t /\ g.ix[f] = PIDX(3, vpn)
      BY <2>6, <3>2, Zenon DEF Kid
    <3> QED BY <2>8, <3>3
  <2> QED BY <2>4, <2>7, <2>8, <2>9 DEF PlacedAt
<1> QED BY <1>1, <1>2

\* What a space maps is where its pages have their places.
LEMMA MappedIs ==
  ASSUME NEW m, NEW own, NEW g, Tree(m, own, g), NEW r \in Frames, own[r] = r
  PROVE  Mapped(m, r) = {vpn \in Vpns : \E f : PlacedAt(own, g, r, f, vpn)}
<1>1. \A f, vpn : PlacedAt(own, g, r, f, vpn) => f # NULL
  BY Numbers DEF PlacedAt
<1> QED BY <1>1, WalkFinds DEF Mapped

\* The pages of space r have the same places.
SamePlaces(m, own, g, x, o, h, r) ==
    /\ Tree(m, own, g) /\ Tree(x, o, h) /\ r \in Frames /\ own[r] = r /\ o[r] = r
    /\ \A f, vpn : PlacedAt(o, h, r, f, vpn) <=> PlacedAt(own, g, r, f, vpn)

\* What a space maps depends on the places of its pages only.
LEMMA MappedSame ==
  ASSUME NEW m, NEW own, NEW g, NEW x, NEW o, NEW h, NEW r,
         SamePlaces(m, own, g, x, o, h, r)
  PROVE  Mapped(x, r) = Mapped(m, r)
<1>1. Mapped(m, r) = {vpn \in Vpns : \E f : PlacedAt(own, g, r, f, vpn)}
  BY MappedIs DEF SamePlaces
<1>2. Mapped(x, r) = {vpn \in Vpns : \E f : PlacedAt(o, h, r, f, vpn)}
  BY MappedIs DEF SamePlaces
<1> QED BY <1>1, <1>2 DEF SamePlaces

-----------------------------------------------------------------------------
(* kalloc(), kfree() and pagewalk().                                       *)

\* kalloc() takes a free frame and clears it, or finds none.
LEMMA KallocIs ==
  ASSUME NEW m \in Mem, Ok(m), NEW k, k = kalloc(m)
  PROVE  \/ k.st = "oom"
         \/ /\ k \in Mem /\ Ok(k) /\ k.r \in m.free /\ k.free = m.free \ {k.r}
            /\ k.ent = [m.ent EXCEPT ![k.r] = Zero]
<1>1. CASE m.free = {}
  BY <1>1 DEF kalloc, Ok, Mem
<1>2. CASE m.free # {}
  <2> DEFINE f == CHOOSE y \in m.free : \A z \in m.free : y <= z
  <2>1. m.free \in SUBSET Nat
    BY FramesAssumption DEF Mem
  <2>2. f \in m.free
    <3>1. \E y \in m.free : \A z \in m.free : y <= z
      BY <2>1, <1>2, Least
    <3> QED BY <3>1
  <2>3. k = [m EXCEPT !.free = @ \ {f}, !.ent[f] = Zero, !.r = f]
    BY <1>2 DEF kalloc
  <2> HIDE DEF f
  <2>4. f \in Frames
    BY <2>2 DEF Mem
  <2>5. /\ k.r = f /\ k.free = m.free \ {f} /\ k.ent = [m.ent EXCEPT ![f] = Zero] /\ k.st = m.st
    BY <2>3 DEF Mem
  <2>6. k \in Mem
    <3>1. PICK e \in [Frames -> [Entries -> Entry]] : e = [m.ent EXCEPT ![f] = Zero]
      BY <2>4, EntryFacts DEF Mem
    <3>2. PICK S \in SUBSET Frames : S = m.free \ {f}
      BY DEF Mem
    <3>3. k = [m EXCEPT !.free = S, !.ent = e, !.r = f]
      BY <2>3, <3>1, <3>2
    <3> QED BY <2>4, <3>3 DEF Mem
  <2> QED BY <2>2, <2>5, <2>6 DEF Ok
<1> QED BY <1>1, <1>2

\* kfree() of a frame that is not free.
LEMMA KfreeIs ==
  ASSUME NEW m \in Mem, Ok(m), NEW f \in Frames, f \notin m.free, NEW k, k = kfree(m, f)
  PROVE  /\ k \in Mem /\ Ok(k) /\ k.free = m.free \cup {f} /\ k.ent = [m.ent EXCEPT ![f] = Zero]
         /\ k.r = m.r
<1>1. k = [m EXCEPT !.free = @ \cup {f}, !.ent[f] = Zero]
  BY DEF kfree
<1>2. /\ k.r = m.r /\ k.free = m.free \cup {f} /\ k.ent = [m.ent EXCEPT ![f] = Zero] /\ k.st = m.st
  BY <1>1 DEF Mem
<1>3. k \in Mem
  <2>1. PICK e \in [Frames -> [Entries -> Entry]] : e = [m.ent EXCEPT ![f] = Zero]
    BY EntryFacts DEF Mem
  <2>2. PICK S \in SUBSET Frames : S = m.free \cup {f}
    BY DEF Mem
  <2>3. k = [m EXCEPT !.free = S, !.ent = e]
    BY <1>1, <2>1, <2>2
  <2> QED BY <2>3 DEF Mem
<1> QED BY <1>2, <1>3 DEF Ok

\* A write to an entry.
Wrote(m, k, t, i, v) ==
    /\ k \in Mem /\ k.ent = [m.ent EXCEPT ![t][i] = v] /\ k.free = m.free
    /\ k.st = m.st /\ k.r = m.r

\* What is written keeps its type.
LEMMA SetEntry ==
  ASSUME NEW m \in Mem, NEW t \in Frames, NEW i \in Entries, NEW v \in Entry
  PROVE  Wrote(m, [m EXCEPT !.ent[t][i] = v], t, i, v)
<1>0. PICK k : k = [m EXCEPT !.ent[t][i] = v]
  OBVIOUS
<1>1. PICK e \in [Frames -> [Entries -> Entry]] : e = [m.ent EXCEPT ![t][i] = v]
  <2>1. m.ent \in [Frames -> [Entries -> Entry]]
    BY DEF Mem
  <2>2. [m.ent EXCEPT ![t][i] = v] \in [Frames -> [Entries -> Entry]]
    BY <2>1
  <2> QED BY <2>2
<1>2. k = [m EXCEPT !.ent = e]
  BY <1>0, <1>1
<1>3. Wrote(m, k, t, i, v)
  BY <1>1, <1>2 DEF Mem, Wrote
<1> QED BY <1>0, <1>3

\* What kalloc() gives: a cleared frame that no space has.
Given(m, own, g, k) ==
    /\ Ok(k) /\ k \in Mem /\ k.r \in Frames /\ own[k.r] = Nobody
    /\ Tree(k, [own EXCEPT ![k.r] = Kernel], g)
    /\ k.ent[k.r] = Zero /\ \A e \in Frames : e # k.r => k.ent[e] = m.ent[e]

\* kalloc() leaves the spaces as they are.
LEMMA KallocTree ==
  ASSUME NEW m, NEW own, NEW g, Tree(m, own, g), Ok(m), NEW k, k = kalloc(m)
  PROVE  k.st = "oom" \/ Given(m, own, g, k)
<1>0. m \in Mem
  BY DEF Tree, TreeType
<1>1. SUFFICES ASSUME k.st # "oom" PROVE Given(m, own, g, k)
  OBVIOUS
<1>2. /\ k \in Mem /\ Ok(k) /\ k.r \in m.free /\ k.free = m.free \ {k.r}
      /\ k.ent = [m.ent EXCEPT ![k.r] = Zero]
  BY <1>0, <1>1, KallocIs
<1>3. k.r \in Frames /\ own[k.r] = Nobody /\ Tree(k, [own EXCEPT ![k.r] = Kernel], g)
  BY <1>2, TakeTree
<1>4. k.ent[k.r] = Zero /\ \A e \in Frames : e # k.r => k.ent[e] = m.ent[e]
  BY <1>0, <1>2, <1>3 DEF Mem
<1> QED BY <1>2, <1>3, <1>4 DEF Given

\* Space r has got free frames for tables, and nothing else has changed hands or
\* places.
Extends(own, g, o, h, r) ==
    \A e \in Frames :
        \/ /\ o[e] = own[e]
           /\ own[e] \in Frames => h.lv[e] = g.lv[e] /\ h.up[e] = g.up[e] /\ h.ix[e] = g.ix[e]
        \/ own[e] = Nobody /\ o[e] = r /\ h.lv[e] # 4

\* Two steps that do so come to one.
LEMMA ExtendsTrans ==
  ASSUME NEW own, NEW g, NEW o, NEW h, NEW o2, NEW h2, NEW r \in Frames,
         Extends(own, g, o, h, r), Extends(o, h, o2, h2, r)
  PROVE  Extends(own, g, o2, h2, r)
BY Numbers DEF Extends

\* New tables map nothing.
LEMMA ExtendsMapped ==
  ASSUME NEW m, NEW own, NEW g, NEW x, NEW o, NEW h, NEW r \in Frames,
         Tree(m, own, g), Tree(x, o, h), Extends(own, g, o, h, r), own[r] = r,
         NEW q \in Frames
  PROVE  /\ o[q] = q <=> own[q] = q
         /\ own[q] = q => Mapped(x, q) = Mapped(m, q)
<1>1. o[q] = q <=> own[q] = q
  BY Numbers DEF Extends
<1>2. SUFFICES ASSUME own[q] = q PROVE Mapped(x, q) = Mapped(m, q)
  BY <1>1
<1>3. ASSUME NEW f, NEW vpn
      PROVE  PlacedAt(o, h, q, f, vpn) <=> PlacedAt(own, g, q, f, vpn)
  <2>1. CASE f \in Frames /\ own[f] = q /\ g.lv[f] = 4
    <3>1. /\ g.up[f] \in Frames /\ own[g.up[f]] = q
          /\ g.up[g.up[f]] \in Frames /\ own[g.up[g.up[f]]] = q
      <4>1. Climb(m, own, g, q, f)
        BY <2>1, <1>2, Above
      <4> QED BY <4>1 DEF Climb
    <3>2. \A e \in Frames : own[e] = q =>
             o[e] = q /\ h.lv[e] = g.lv[e] /\ h.up[e] = g.up[e] /\ h.ix[e] = g.ix[e]
      BY Numbers DEF Extends
    <3> QED BY <2>1, <3>1, <3>2 DEF PlacedAt
  <2>2. CASE ~(f \in Frames /\ own[f] = q /\ g.lv[f] = 4)
    <3>1. f \in Frames /\ o[f] = q /\ h.lv[f] = 4 => own[f] = q /\ g.lv[f] = 4
      BY DEF Extends
    <3> QED BY <2>2, <3>1 DEF PlacedAt
  <2> QED BY <2>1, <2>2
<1>4. SamePlaces(m, own, g, x, o, h, q)
  BY <1>1, <1>2, <1>3 DEF SamePlaces
<1> QED BY <1>4, MappedSame

\* One level of pagewalk(): x.r is the table at entry i of t, there before or new.
Stepped(own, g, t, i, x, o, h) ==
    /\ Ok(x) /\ Tree(x, o, h) /\ Extends(own, g, o, h, own[t])
    /\ x.r \in Frames /\ o[x.r] = own[t] /\ h.lv[x.r] = g.lv[t] + 1
    /\ h.up[x.r] = t /\ h.ix[x.r] = i

\* It leaves the spaces sound, unless there is no frame left.
LEMMA DownTree ==
  ASSUME NEW m, NEW own, NEW g, Tree(m, own, g), Ok(m), NEW t \in Frames, own[t] \in Frames,
         g.lv[t] \in {1, 2}, NEW i \in Entries, NEW x, x = Down(m, t, i)
  PROVE  x.st = "oom" \/ \E o, h : Stepped(own, g, t, i, x, o, h)
<1>0. m \in Mem /\ g \in Places /\ own \in [Frames -> Owners]
  BY DEF Tree, TreeType
<1>1. CASE m.ent[t][i] # Empty
  <2>1. Kid(m, own, g, t, i)
    BY <1>1 DEF Tree, TreeDown
  <2>2. PICK f \in Frames : f = m.ent[t][i].pa
    BY <2>1 DEF Kid
  <2>3. x = [m EXCEPT !.r = f]
    BY <1>1, <2>2 DEF Down
  <2>4. x \in Mem /\ x.free = m.free /\ x.ent = m.ent /\ x.st = m.st /\ x.r = f
    BY <1>0, <2>3 DEF Mem
  <2>5. Tree(x, own, g)
    <3>1. TreeType(x, own, g) /\ TreeFree(x, own) /\ TreeRoot(own, g)
      BY <2>4 DEF Tree, TreeType, TreeFree
    <3>2. TreeDown(x, own, g)
      BY <2>4 DEF Tree, TreeDown, Kid
    <3>3. TreeUp(x, own, g)
      BY <2>4 DEF Tree, TreeUp
    <3> QED BY <3>1, <3>2, <3>3 DEF Tree
  <2>6. Extends(own, g, own, g, own[t])
    BY DEF Extends
  <2>7. Stepped(own, g, t, i, x, own, g)
    BY <2>1, <2>2, <2>4, <2>5, <2>6 DEF Stepped, Kid, Ok
  <2> QED BY <2>7
<1>2. CASE m.ent[t][i] = Empty
  <2>1. PICK k : k = kalloc(m)
    OBVIOUS
  <2>2. CASE k.st = "oom"
    BY <1>2, <2>1, <2>2 DEF Down, Ok
  <2>3. CASE k.st # "oom"
    <3>1. Given(m, own, g, k)
      BY <2>1, <2>3, KallocTree
    <3>2. PICK f \in Frames : f = k.r
      BY <3>1 DEF Given
    <3>3. x = [k EXCEPT !.ent[t][i] = Table(f)]
      BY <1>2, <2>1, <3>1, <3>2 DEF Down, Given
    <3>4. k \in Mem /\ own[f] = Nobody /\ f # t /\ k.ent[f] = Zero /\ k.ent[t] = m.ent[t]
      BY <3>1, <3>2, Numbers DEF Given
    <3>5. /\ x \in Mem /\ x.free = k.free /\ x.ent = [k.ent EXCEPT ![t][i] = Table(f)]
          /\ x.st = k.st /\ x.r = f
      <4>1. PICK v \in Entry : v = Table(f)
        BY EntryFacts
      <4>2. k \in Mem /\ x = [k EXCEPT !.ent[t][i] = v]
        BY <3>3, <3>4, <4>1
      <4>3. Wrote(k, x, t, i, v)
        BY <4>2, SetEntry
      <4> QED BY <3>2, <4>1, <4>3 DEF Wrote
    <3>6. PICK o1 : o1 = [own EXCEPT ![f] = Kernel]
      OBVIOUS
    <3>7. o1[f] = Kernel /\ o1[t] = own[t] /\ \A e \in Frames : e # f => o1[e] = own[e]
      BY <1>0, <3>4, <3>6
    <3>8. PICK o : o = [o1 EXCEPT ![f] = o1[t]]
      OBVIOUS
    <3>9. PICK h : h = [lv |-> [g.lv EXCEPT ![f] = g.lv[t] + 1], up |-> [g.up EXCEPT ![f] = t],
                        ix |-> [g.ix EXCEPT ![f] = i]]
      OBVIOUS
    <3>10. Linking(k, o1, g, t, i, f, x, o, h)
      <4>1. Tree(k, o1, g) /\ g.lv[t] # 4 /\ g.lv[t] # 3 /\ k.ent[t][i] = Empty
        BY <1>2, <3>1, <3>2, <3>4, <3>6 DEF Given
      <4>2. x.ent = [k.ent EXCEPT ![t][i] = IF g.lv[t] = 3 THEN Page(f) ELSE Table(f)]
        BY <3>5, <4>1
      <4> QED BY <3>4, <3>5, <3>7, <3>8, <3>9, <4>1, <4>2, Zenon DEF Linking
    <3>11. /\ Tree(x, o, h)
           /\ o[f] = o1[t] /\ h.lv[f] = g.lv[t] + 1 /\ h.up[f] = t /\ h.ix[f] = i
           /\ \A e \in Frames : e # f => /\ o[e] = o1[e] /\ h.lv[e] = g.lv[e]
                                         /\ h.up[e] = g.up[e] /\ h.ix[e] = g.ix[e]
      BY <3>10, LinkTree
    <3>12. Extends(own, g, o, h, own[t])
      BY <3>4, <3>7, <3>11 DEF Extends
    <3>13. Stepped(own, g, t, i, x, o, h)
      BY <3>1, <3>5, <3>7, <3>11, <3>12 DEF Stepped, Given, Ok
    <3> QED BY <3>13
  <2> QED BY <2>2, <2>3
<1> QED BY <1>1, <1>2

\* pagewalk(): x.r is the table of the last level for the address.
Walked(own, g, r, vpn, x, o, h) ==
    /\ Ok(x) /\ Tree(x, o, h) /\ Extends(own, g, o, h, r)
    /\ x.r \in Frames /\ o[x.r] = r /\ h.lv[x.r] = 3
    /\ h.ix[x.r] = PIDX(2, vpn) /\ h.ix[h.up[x.r]] = PIDX(1, vpn)

\* pagewalk() does so too.
LEMMA PagewalkTree ==
  ASSUME NEW m, NEW own, NEW g, Tree(m, own, g), Ok(m), NEW r \in Frames, own[r] = r,
         NEW vpn \in Nat, NEW x, x = pagewalk(m, r, vpn)
  PROVE  x.st = "oom" \/ \E o, h : Walked(own, g, r, vpn, x, o, h)
<1>0. /\ PIDX(1, vpn) \in Entries /\ PIDX(2, vpn) \in Entries /\ g.lv[r] = 1
      /\ own[r] \in Frames /\ g.lv[r] \in {1, 2}
  BY PidxNat DEF Tree, TreeRoot
<1>1. PICK y : y = Down(m, r, PIDX(1, vpn))
  OBVIOUS
<1>2. x = Down(y, y.r, PIDX(2, vpn))
  BY <1>1 DEF pagewalk
<1>3. CASE y.st = "oom"
  BY <1>2, <1>3 DEF Down, Ok
<1>4. CASE y.st # "oom"
  <2>1. PICK o1, h1 : Stepped(own, g, r, PIDX(1, vpn), y, o1, h1)
    BY <1>0, <1>1, <1>4, DownTree
  <2>2. PICK b \in Frames : b = y.r
    BY <2>1 DEF Stepped
  <2>3. /\ Ok(y) /\ Tree(y, o1, h1) /\ Extends(own, g, o1, h1, r) /\ o1[b] = r
        /\ h1.lv[b] = 2 /\ h1.up[b] = r /\ h1.ix[b] = PIDX(1, vpn)
    BY <1>0, <2>1, <2>2 DEF Stepped
  <2>4. h1.lv[b] \in {1, 2} /\ o1[b] \in Frames
    BY <2>3
  <2>5. SUFFICES ASSUME x.st # "oom" PROVE \E o, h : Walked(own, g, r, vpn, x, o, h)
    OBVIOUS
  <2>6. PICK o, h : Stepped(o1, h1, b, PIDX(2, vpn), x, o, h)
    BY <1>0, <1>2, <2>2, <2>3, <2>4, <2>5, DownTree
  <2>7. /\ Ok(x) /\ Tree(x, o, h) /\ Extends(o1, h1, o, h, r)
        /\ x.r \in Frames /\ o[x.r] = r /\ h.lv[x.r] = 3 /\ h.up[x.r] = b
        /\ h.ix[x.r] = PIDX(2, vpn)
    BY <2>3, <2>6 DEF Stepped
  <2>8. Extends(own, g, o, h, r)
    BY <2>3, <2>7, ExtendsTrans
  <2>9. h.ix[b] = PIDX(1, vpn)
    BY <2>3, <2>7, Numbers DEF Extends
  <2>10. Walked(own, g, r, vpn, x, o, h)
    BY <2>7, <2>8, <2>9 DEF Walked
  <2> QED BY <2>10
<1> QED BY <1>3, <1>4

\* Table t is the one of the last level for an address of space r.
OnPath(own, g, r, t, vpn) ==
    /\ t \in Frames /\ own[t] = r /\ g.lv[t] = 3
    /\ g.ix[t] = PIDX(2, vpn) /\ g.ix[g.up[t]] = PIDX(1, vpn)

\* Then the walk of the address passes t.
LEMMA PathWalk ==
  ASSUME NEW m, NEW own, NEW g, Tree(m, own, g), NEW r \in Frames, own[r] = r,
         NEW vpn \in Vpns, NEW t, OnPath(own, g, r, t, vpn)
  PROVE  FrameAt(m, r, vpn) = m.ent[t][PIDX(3, vpn)].pa
<1>0. t \in Frames /\ own[t] = r /\ g.lv[t] = 3 /\ g.ix[t] = PIDX(2, vpn)
  BY DEF OnPath
<1>1. \A e \in Frames : own[e] = r /\ g.lv[e] # 1 =>
        /\ g.up[e] \in Frames
        /\ own[g.up[e]] = r /\ g.lv[g.up[e]] = g.lv[e] - 1 /\ m.ent[g.up[e]][g.ix[e]].pa = e
  BY DEF Tree, TreeUp, TreeType, Places
<1>2. \A e \in Frames : own[e] = r /\ g.lv[e] = 1 => e = r
  BY DEF Tree, TreeRoot
<1>5. PICK b \in Frames : b = g.up[t]
  BY <1>0, <1>1
<1>6. own[b] = r /\ g.lv[b] = 2 /\ m.ent[b][PIDX(2, vpn)].pa = t /\ g.ix[b] = PIDX(1, vpn)
  BY <1>0, <1>1, <1>5 DEF OnPath
<1>7. /\ g.up[b] \in Frames /\ own[g.up[b]] = r /\ g.lv[g.up[b]] = 1
      /\ m.ent[g.up[b]][PIDX(1, vpn)].pa = b
  BY <1>1, <1>6
<1>8. g.up[b] = r
  BY <1>2, <1>7
<1>9. EntryAt(m, r, PIDX(1, vpn)) = b
  BY <1>7, <1>8, Numbers DEF EntryAt
<1>10. EntryAt(m, b, PIDX(2, vpn)) = t
  BY <1>6, Numbers DEF EntryAt
<1>11. EntryAt(m, t, PIDX(3, vpn)) = m.ent[t][PIDX(3, vpn)].pa
  BY <1>0, Numbers DEF EntryAt
<1> QED BY <1>9, <1>10, <1>11 DEF FrameAt

\* A page linked into a space maps its address, and no other.
LEMMA LinkMapped ==
  ASSUME NEW m, NEW own, NEW g, NEW t, NEW f, NEW x, NEW o, NEW h, NEW r \in Frames,
         own[r] = r, NEW vpn \in Vpns, OnPath(own, g, r, t, vpn),
         Linking(m, own, g, t, PIDX(3, vpn), f, x, o, h), NEW q \in Frames
  PROVE  /\ o[q] = q <=> own[q] = q
         /\ own[q] = q => Mapped(x, q) = IF q = r THEN Mapped(m, q) \cup {vpn} ELSE Mapped(m, q)
<1>1. /\ Tree(x, o, h) /\ o[f] = r /\ h.lv[f] = 4 /\ h.up[f] = t /\ h.ix[f] = PIDX(3, vpn)
      /\ \A e \in Frames : e # f => /\ o[e] = own[e] /\ h.lv[e] = g.lv[e]
                                    /\ h.up[e] = g.up[e] /\ h.ix[e] = g.ix[e]
  <2>1. own[t] = r /\ g.lv[t] = 3
    BY DEF OnPath
  <2>2. /\ Tree(x, o, h) /\ o[f] = own[t] /\ h.lv[f] = g.lv[t] + 1 /\ h.up[f] = t
        /\ h.ix[f] = PIDX(3, vpn)
        /\ \A e \in Frames : e # f => /\ o[e] = own[e] /\ h.lv[e] = g.lv[e]
                                      /\ h.up[e] = g.up[e] /\ h.ix[e] = g.ix[e]
    BY LinkTree
  <2> QED BY <2>1, <2>2
<1>2. Tree(m, own, g) /\ f \in Frames /\ own[f] = Kernel /\ f # r /\ t \in Frames /\ t # f
  BY Numbers DEF Linking, OnPath
<1>3. o[q] = q <=> own[q] = q
  BY <1>1, <1>2, Numbers
<1>4. SUFFICES ASSUME own[q] = q
      PROVE Mapped(x, q) = IF q = r THEN Mapped(m, q) \cup {vpn} ELSE Mapped(m, q)
  BY <1>3
<1>5. ASSUME NEW e, NEW v, e # f
      PROVE  PlacedAt(o, h, q, e, v) <=> PlacedAt(own, g, q, e, v)
  <2>1. CASE e \in Frames /\ own[e] = q /\ g.lv[e] = 4
    <3>1. /\ g.up[e] \in Frames /\ own[g.up[e]] = q
          /\ g.up[g.up[e]] \in Frames /\ own[g.up[g.up[e]]] = q
      <4>1. Climb(m, own, g, q, e)
        BY <2>1, <1>2, <1>4, Above
      <4> QED BY <4>1 DEF Climb
    <3>2. g.up[e] # f /\ g.up[g.up[e]] # f
      BY <3>1, <1>2, Numbers
    <3> QED BY <2>1, <3>1, <3>2, <1>1, <1>5 DEF PlacedAt
  <2>2. CASE ~(e \in Frames /\ own[e] = q /\ g.lv[e] = 4)
    BY <2>2, <1>1, <1>5 DEF PlacedAt
  <2> QED BY <2>1, <2>2
<1>6. ASSUME NEW v PROVE ~PlacedAt(own, g, q, f, v)
  BY <1>2, Numbers DEF PlacedAt
<1>7. Mapped(m, q) = {v \in Vpns : \E e : PlacedAt(own, g, q, e, v)}
  BY <1>2, <1>4, MappedIs
<1>8. Mapped(x, q) = {v \in Vpns : \E e : PlacedAt(o, h, q, e, v)}
  BY <1>1, <1>3, <1>4, MappedIs
<1>9. CASE q # r
  <2>1. ASSUME NEW v PROVE ~PlacedAt(o, h, q, f, v)
    BY <1>1, <1>9 DEF PlacedAt
  <2> QED BY <1>5, <1>6, <1>7, <1>8, <1>9, <2>1
<1>10. CASE q = r
  <2>0. g.up[t] \in Frames /\ own[g.up[t]] = r
    BY <1>2 DEF Tree, TreeType, TreeUp, Places, OnPath
  <2>1. h.ix[t] = PIDX(2, vpn) /\ h.ix[h.up[t]] = PIDX(1, vpn)
    BY <1>1, <1>2, <2>0, Numbers DEF OnPath
  <2>2. PlacedAt(o, h, q, f, vpn)
    BY <1>1, <1>2, <1>10, <2>1 DEF PlacedAt
  <2>3. ASSUME NEW v \in Vpns, PlacedAt(o, h, q, f, v) PROVE v = vpn
    <3>1. PIDX(1, v) = PIDX(1, vpn) /\ PIDX(2, v) = PIDX(2, vpn) /\ PIDX(3, v) = PIDX(3, vpn)
      BY <2>3, <2>1, <1>1 DEF PlacedAt
    <3> QED BY <3>1, PidxInj
  <2> QED BY <1>5, <1>6, <1>7, <1>8, <1>10, <2>2, <2>3
<1> QED BY <1>9, <1>10

\* A page taken out of a space leaves its address, and no other, without a page.
LEMMA UnlinkMapped ==
  ASSUME NEW m, NEW own, NEW g, NEW t, NEW f, NEW x, NEW o, NEW r \in Frames,
         own[r] = r, NEW vpn \in Vpns, OnPath(own, g, r, t, vpn),
         Unlinking(m, own, g, t, PIDX(3, vpn), f, x, o), NEW q \in Frames
  PROVE  /\ o[q] = q <=> own[q] = q
         /\ own[q] = q => Mapped(x, q) = IF q = r THEN Mapped(m, q) \ {vpn} ELSE Mapped(m, q)
<1>1. /\ f \in Frames /\ own[f] = r /\ g.lv[f] = 4 /\ g.up[f] = t /\ g.ix[f] = PIDX(3, vpn)
      /\ Tree(x, o, g)
  <2>1. own[t] = r /\ g.lv[t] = 3
    BY DEF OnPath
  <2>2. /\ f \in Frames /\ own[f] = own[t] /\ g.lv[f] = g.lv[t] + 1
        /\ g.up[f] = t /\ g.ix[f] = PIDX(3, vpn) /\ Tree(x, o, g)
    BY UnlinkTree
  <2> QED BY <2>1, <2>2
<1>2. Tree(m, own, g) /\ own \in [Frames -> Owners] /\ g.lv[r] = 1
  BY DEF Unlinking, Tree, TreeType, TreeRoot
<1>3. o[f] = Nobody /\ \A e \in Frames : e # f => o[e] = own[e]
  BY <1>1, <1>2 DEF Unlinking, Owners
<1>4. f # r
  BY <1>1, <1>2
<1>5. o[q] = q <=> own[q] = q
  BY <1>1, <1>3, <1>4, Numbers
<1>6. SUFFICES ASSUME own[q] = q
      PROVE Mapped(x, q) = IF q = r THEN Mapped(m, q) \ {vpn} ELSE Mapped(m, q)
  BY <1>5
<1>7. \A e, v : PlacedAt(o, g, q, e, v) <=> e # f /\ PlacedAt(own, g, q, e, v)
  BY <1>1, <1>3, Numbers DEF PlacedAt
<1>8. Mapped(m, q) = {v \in Vpns : \E e : PlacedAt(own, g, q, e, v)}
  BY <1>2, <1>6, MappedIs
<1>9. Mapped(x, q) = {v \in Vpns : \E e : PlacedAt(o, g, q, e, v)}
  BY <1>1, <1>5, <1>6, MappedIs
<1>10. CASE q # r
  <2>1. ASSUME NEW v PROVE ~PlacedAt(own, g, q, f, v)
    BY <1>1, <1>10 DEF PlacedAt
  <2> QED BY <1>7, <1>8, <1>9, <1>10, <2>1
<1>11. CASE q = r
  <2>1. PlacedAt(own, g, q, f, vpn)
    BY <1>1, <1>11 DEF PlacedAt, OnPath
  <2>2. ASSUME NEW v \in Vpns, PlacedAt(own, g, q, f, v) PROVE v = vpn
    <3>1. PIDX(1, v) = PIDX(1, vpn) /\ PIDX(2, v) = PIDX(2, vpn) /\ PIDX(3, v) = PIDX(3, vpn)
      BY <2>1, <2>2 DEF PlacedAt
    <3> QED BY <2>2, <3>1, PidxInj
  <2>3. ASSUME NEW e, PlacedAt(own, g, q, e, vpn) PROVE e = f
    <3>1. FrameAt(m, q, vpn) = f /\ FrameAt(m, q, vpn) = e
      BY <1>2, <1>6, <2>1, <2>3, WalkFinds
    <3> QED BY <3>1
  <2> QED BY <1>7, <1>8, <1>9, <1>11, <2>1, <2>2, <2>3
<1> QED BY <1>10, <1>11

-----------------------------------------------------------------------------
(* Pages are mapped and unmapped.                                          *)

\* The frames have these owners.
Holds(m, own) == Ok(m) /\ \E g : Tree(m, own, g)

\* Only free frames have changed hands, to spaces in A.
Grows(own, o, A) == \A e \in Frames : o[e] = own[e] \/ (own[e] = Nobody /\ o[e] \in A)

\* A page has been mapped at an address of space r.
MappedOne(m, own, x, o, r, A, vpn) ==
    /\ Holds(x, o) /\ Grows(own, o, A)
    /\ \A q \in Frames : own[q] = q =>
          Mapped(x, q) = IF q = r THEN Mapped(m, q) \cup {vpn} ELSE Mapped(m, q)

\* A frame taken is in no space: the spaces map what they did.
LEMMA GivenMapped ==
  ASSUME NEW m, NEW own, NEW g, Tree(m, own, g), NEW k, Given(m, own, g, k),
         NEW o, o = [own EXCEPT ![k.r] = Kernel], NEW q \in Frames
  PROVE  /\ o[q] = q <=> own[q] = q
         /\ own[q] = q => Mapped(k, q) = Mapped(m, q)
<1>1. own \in [Frames -> Owners] /\ k.r \in Frames /\ own[k.r] = Nobody /\ Tree(k, o, g)
  BY DEF Tree, TreeType, Given
<1>2. o[k.r] = Kernel /\ \A e \in Frames : e # k.r => o[e] = own[e]
  BY <1>1
<1>3. o[q] = q <=> own[q] = q
  BY <1>1, <1>2, Numbers
<1>4. \A f, vpn : PlacedAt(o, g, q, f, vpn) <=> PlacedAt(own, g, q, f, vpn)
  BY <1>1, <1>2, Numbers DEF PlacedAt
<1>5. ASSUME own[q] = q PROVE Mapped(k, q) = Mapped(m, q)
  <2>1. SamePlaces(m, own, g, k, o, g, q)
    BY <1>1, <1>3, <1>4, <1>5 DEF SamePlaces
  <2> QED BY <2>1, MappedSame
<1> QED BY <1>3, <1>5

\* A fresh page is mapped where there is none.
LEMMA MapNewTree ==
  ASSUME NEW m, NEW own, Holds(m, own), NEW r \in Frames, own[r] = r,
         NEW vpn \in Vpns, vpn \notin Mapped(m, r), NEW x, x = MapNew(m, r, vpn)
  PROVE  x.st = "oom" \/ \E o : MappedOne(m, own, x, o, r, {r}, vpn)
<1>0. PICK g : Tree(m, own, g)
  BY DEF Holds
<1>1. PICK k : k = kalloc(m)
  OBVIOUS
<1>2. PICK w : w = pagewalk(k, r, vpn)
  OBVIOUS
<1>3. CASE k.st = "oom"
  <2>1. w = k
    BY <1>2, <1>3 DEF pagewalk, Down, Ok
  <2> QED BY <1>1, <1>2, <1>3, <2>1 DEF MapNew, pagemap, Ok
<1>4. CASE w.st = "oom"
  BY <1>1, <1>2, <1>4 DEF MapNew, pagemap, Ok
<1>5. CASE k.st # "oom" /\ w.st # "oom"
  <2>0. own \in [Frames -> Owners]
    BY <1>0 DEF Tree, TreeType
  <2>1. Given(m, own, g, k)
    BY <1>0, <1>1, <1>5, KallocTree DEF Holds
  <2>2. PICK f \in Frames : f = k.r
    BY <2>1 DEF Given
  <2>3. PICK o1 : o1 = [own EXCEPT ![f] = Kernel]
    OBVIOUS
  <2>4. Ok(k) /\ Tree(k, o1, g) /\ own[f] = Nobody
    BY <2>1, <2>2, <2>3 DEF Given
  <2>5. o1[f] = Kernel /\ \A e \in Frames : e # f => o1[e] = own[e]
    BY <2>0, <2>3
  <2>6. \A q \in Frames : (o1[q] = q <=> own[q] = q) /\ (own[q] = q => Mapped(k, q) = Mapped(m, q))
    BY <1>0, <2>1, <2>2, <2>3, GivenMapped
  <2>7. PICK o2, h2 : Walked(o1, g, r, vpn, w, o2, h2)
    BY <1>2, <1>5, <2>4, <2>6, PagewalkTree, VpnsNat
  <2>8. PICK t \in Frames : t = w.r
    BY <2>7 DEF Walked
  <2>9. Ok(w) /\ Tree(w, o2, h2) /\ Extends(o1, g, o2, h2, r) /\ OnPath(o2, h2, r, t, vpn)
    BY <2>7, <2>8 DEF Walked, OnPath
  <2>10. \A q \in Frames : (o2[q] = q <=> own[q] = q) /\ (own[q] = q => Mapped(w, q) = Mapped(m, q))
    BY <2>4, <2>6, <2>9, ExtendsMapped
  <2>11. PICK i \in Entries : i = PIDX(3, vpn)
    BY PidxType
  <2>12. w.ent[t][i].pa = NULL
    <3>1. FrameAt(w, r, vpn) = w.ent[t][i].pa
      BY <2>9, <2>10, <2>11, PathWalk
    <3>2. vpn \notin Mapped(w, r)
      BY <2>10
    <3> QED BY <3>1, <3>2 DEF Mapped
  <2>13. w.ent[t][i] = Empty
    BY <2>8, <2>9, <2>11, <2>12, Numbers DEF Tree, TreeDown, Kid, OnPath
  <2>14. x = [w EXCEPT !.ent[t][i] = Page(f)]
    BY <1>1, <1>2, <2>2, <2>8, <2>9, <2>11, <2>13, EntryFacts DEF MapNew, pagemap
  <2>15. w \in Mem /\ o2 \in [Frames -> Owners] /\ h2 \in Places
    BY <2>9 DEF Tree, TreeType
  <2>16. /\ x \in Mem /\ x.ent = [w.ent EXCEPT ![t][i] = Page(f)] /\ x.free = w.free
         /\ x.st = w.st
    <3>1. PICK v \in Entry : v = Page(f)
      BY EntryFacts
    <3>2. w \in Mem /\ x = [w EXCEPT !.ent[t][i] = v]
      BY <2>14, <2>15, <3>1
    <3>3. Wrote(w, x, t, i, v)
      BY <3>2, SetEntry
    <3> QED BY <3>1, <3>3 DEF Wrote
  <2>17. PICK o : o = [o2 EXCEPT ![f] = o2[t]]
    OBVIOUS
  <2>18. PICK h : h = [lv |-> [h2.lv EXCEPT ![f] = h2.lv[t] + 1],
                       up |-> [h2.up EXCEPT ![f] = t], ix |-> [h2.ix EXCEPT ![f] = i]]
    OBVIOUS
  <2>19. o2[f] = Kernel /\ o2[t] = r /\ h2.lv[t] = 3
    BY <2>5, <2>9, Numbers DEF Extends, OnPath
  <2>20. Linking(w, o2, h2, t, i, f, x, o, h)
    <3>1. x.ent = [w.ent EXCEPT ![t][i] = IF h2.lv[t] = 3 THEN Page(f) ELSE Table(f)]
      BY <2>16, <2>19
    <3>2. h2.lv[t] # 4 /\ o2[t] \in Frames
      BY <2>19
    <3> QED BY <2>9, <2>13, <2>16, <2>17, <2>18, <2>19, <3>1, <3>2, Zenon DEF Linking
  <2>21. Tree(x, o, h)
    BY <2>20, LinkTree
  <2>22. \A q \in Frames : /\ o[q] = q <=> own[q] = q
                           /\ own[q] = q => Mapped(x, q) =
                                IF q = r THEN Mapped(m, q) \cup {vpn} ELSE Mapped(m, q)
    BY <2>9, <2>10, <2>11, <2>20, LinkMapped
  <2>23. Grows(own, o, {r})
    <3>1. o[f] = r /\ \A e \in Frames : e # f => o[e] = o2[e]
      BY <2>15, <2>17, <2>19
    <3>2. \A e \in Frames : o2[e] = o1[e] \/ (o1[e] = Nobody /\ o2[e] = r)
      BY <2>9, Zenon DEF Extends
    <3> QED BY <2>4, <2>5, <3>1, <3>2 DEF Grows
  <2>24. Holds(x, o)
    BY <2>9, <2>16, <2>21 DEF Holds, Ok
  <2> QED BY <2>22, <2>23, <2>24 DEF MappedOne
<1> QED BY <1>3, <1>4, <1>5

\* pagewalk() gives the space tables at most.
WalkedOnly(m, own, x, o, r) ==
    /\ Holds(x, o) /\ Grows(own, o, {r})
    /\ \A q \in Frames : own[q] = q => Mapped(x, q) = Mapped(m, q)

\* pagewalk() changes nothing else.
LEMMA PagewalkHolds ==
  ASSUME NEW m, NEW own, Holds(m, own), NEW r \in Frames, own[r] = r,
         NEW vpn \in Nat, NEW x, x = pagewalk(m, r, vpn)
  PROVE  x.st = "oom" \/ \E o : WalkedOnly(m, own, x, o, r)
<1>0. SUFFICES ASSUME x.st # "oom" PROVE \E o : WalkedOnly(m, own, x, o, r)
  OBVIOUS
<1>1. PICK g : Tree(m, own, g) /\ Ok(m)
  BY DEF Holds
<1>2. PICK o, h : Walked(own, g, r, vpn, x, o, h)
  BY <1>0, <1>1, PagewalkTree
<1>3. Ok(x) /\ Tree(x, o, h) /\ Extends(own, g, o, h, r)
  BY <1>2 DEF Walked
<1>4. \A q \in Frames : own[q] = q => Mapped(x, q) = Mapped(m, q)
  BY <1>1, <1>3, ExtendsMapped
<1>5. Grows(own, o, {r})
  BY <1>3, Zenon DEF Extends, Grows
<1>6. Holds(x, o)
  BY <1>3 DEF Holds
<1> QED BY <1>4, <1>5, <1>6 DEF WalkedOnly

\* Frames have changed hands between space r and the free list only.
Within(own, o, r) ==
    \A e \in Frames : o[e] = own[e] \/ (own[e] \in {Nobody, r} /\ o[e] \in {Nobody, r})

\* The page at an address of space r has been unmapped and freed.
UnmappedOne(m, own, x, o, r, vpn) ==
    /\ Holds(x, o) /\ Within(own, o, r) /\ o[r] = r
    /\ \A q \in Frames : own[q] = q =>
          Mapped(x, q) = IF q = r THEN Mapped(m, q) \ {vpn} ELSE Mapped(m, q)

\* pageunmap() of an address that is mapped
LEMMA UnmapTree ==
  ASSUME NEW m, NEW own, Holds(m, own), NEW r \in Frames, own[r] = r,
         NEW vpn \in Vpns, vpn \in Mapped(m, r), NEW x, x = pageunmap(m, r, vpn)
  PROVE  x.st = "oom" \/ \E o : UnmappedOne(m, own, x, o, r, vpn)
<1>0. PICK g : Tree(m, own, g) /\ Ok(m)
  BY DEF Holds
<1>1. PICK w : w = pagewalk(m, r, vpn)
  OBVIOUS
<1>2. CASE w.st = "oom"
  BY <1>1, <1>2 DEF pageunmap, Ok
<1>3. CASE w.st # "oom"
  <2>1. PICK o2, h2 : Walked(own, g, r, vpn, w, o2, h2)
    BY <1>0, <1>1, <1>3, PagewalkTree, VpnsNat
  <2>2. PICK t \in Frames : t = w.r
    BY <2>1 DEF Walked
  <2>3. Ok(w) /\ Tree(w, o2, h2) /\ Extends(own, g, o2, h2, r) /\ OnPath(o2, h2, r, t, vpn)
    BY <2>1, <2>2 DEF Walked, OnPath
  <2>4. \A q \in Frames : (o2[q] = q <=> own[q] = q) /\ (own[q] = q => Mapped(w, q) = Mapped(m, q))
    BY <1>0, <2>3, ExtendsMapped
  <2>5. PICK i \in Entries : i = PIDX(3, vpn)
    BY PidxType
  <2>6. w.ent[t][i].pa # NULL
    <3>1. FrameAt(w, r, vpn) = w.ent[t][i].pa
      BY <2>3, <2>4, <2>5, PathWalk
    <3>2. vpn \in Mapped(w, r)
      BY <2>4
    <3> QED BY <3>1, <3>2 DEF Mapped
  <2>7. w.ent[t][i] # Empty
    BY <2>6, EntryFacts
  <2>8. w \in Mem /\ o2 \in [Frames -> Owners] /\ h2 \in Places /\ TreeFree(w, o2)
    BY <2>3 DEF Tree, TreeType
  <2>9. o2[t] = r /\ h2.lv[t] = 3 /\ h2.lv[t] # 4 /\ o2[t] \in Frames
    BY <2>3 DEF OnPath
  <2>10. Kid(w, o2, h2, t, i)
    BY <2>3, <2>7, <2>9 DEF Tree, TreeDown
  <2>11. PICK f \in Frames : f = w.ent[t][i].pa
    BY <2>10 DEF Kid
  <2>12. o2[f] = r /\ h2.lv[f] = h2.lv[t] + 1
    BY <2>9, <2>10, <2>11, Zenon DEF Kid
  <2>13. f # t /\ f \notin w.free
    BY <2>8, <2>9, <2>12, Numbers DEF TreeFree
  <2>14. PICK k : k = kfree(w, f)
    OBVIOUS
  <2>15. /\ k \in Mem /\ Ok(k) /\ k.free = w.free \cup {f}
         /\ k.ent = [w.ent EXCEPT ![f] = Zero]
    BY <2>3, <2>8, <2>13, <2>14, KfreeIs
  <2>16. x = [k EXCEPT !.ent[t][i] = Empty]
    BY <1>1, <2>2, <2>3, <2>5, <2>7, <2>11, <2>14 DEF pageunmap
  <2>17. Wrote(k, x, t, i, Empty)
    <3>1. Empty \in Entry
      BY EntryFacts
    <3> QED BY <2>15, <2>16, <3>1, SetEntry
  <2>18. PICK o : o = [o2 EXCEPT ![f] = Nobody]
    OBVIOUS
  <2>19. Unlinking(w, o2, h2, t, i, f, x, o)
    <3>1. x \in Mem /\ x.free = w.free \cup {f}
      BY <2>15, <2>17 DEF Wrote
    <3>2. x.ent = [k.ent EXCEPT ![t][i] = Empty] /\ k.ent \in [Frames -> [Entries -> Entry]]
      BY <2>15, <2>17 DEF Wrote, Mem
    <3>3. /\ \A e \in Frames : e # t => x.ent[e] = k.ent[e]
          /\ \A j \in Entries : j # i => x.ent[t][j] = k.ent[t][j]
          /\ x.ent[t][i] = Empty
      BY <3>2
    <3>4. \A e \in Frames : e # f => k.ent[e] = w.ent[e]
      BY <2>8, <2>15 DEF Mem
    <3> QED BY <2>3, <2>7, <2>9, <2>11, <2>13, <2>18, <3>1, <3>3, <3>4 DEF Unlinking
  <2>20. Tree(x, o, h2)
    BY <2>19, UnlinkTree
  <2>21. \A q \in Frames : /\ o[q] = q <=> own[q] = q
                           /\ own[q] = q => Mapped(x, q) =
                                IF q = r THEN Mapped(m, q) \ {vpn} ELSE Mapped(m, q)
    BY <2>3, <2>4, <2>5, <2>19, UnlinkMapped
  <2>22. Within(own, o, r)
    <3>1. o[f] = Nobody /\ \A e \in Frames : e # f => o[e] = o2[e]
      BY <2>8, <2>18
    <3>2. \A e \in Frames : o2[e] = own[e] \/ (own[e] = Nobody /\ o2[e] = r)
      BY <2>3, Zenon DEF Extends
    <3> QED BY <2>12, <3>1, <3>2 DEF Within
  <2>23. Holds(x, o)
    BY <2>15, <2>17, <2>20 DEF Holds, Ok, Wrote
  <2> QED BY <2>21, <2>22, <2>23 DEF UnmappedOne
<1> QED BY <1>2, <1>3

-----------------------------------------------------------------------------
(* Runs of pages.                                                          *)

\* Once kalloc() has failed nothing happens any more.
LEMMA Dead ==
  ASSUME NEW m, m.st = "oom"
  PROVE  \A r, v : pagewalk(m, r, v) = m /\ MapNew(m, r, v) = m /\ pageunmap(m, r, v) = m
<1>1. ~Ok(m)
  BY DEF Ok
<1>2. \A t, i : Down(m, t, i) = m
  BY <1>1 DEF Down
<1>3. \A r, v : pagewalk(m, r, v) = m
  BY <1>2 DEF pagewalk
<1>4. kalloc(m) = m
  BY <1>1 DEF kalloc
<1>5. \A r, v : MapNew(m, r, v) = m
  BY <1>1, <1>3, <1>4 DEF MapNew, pagemap
<1>6. \A r, v : pageunmap(m, r, v) = m
  BY <1>1, <1>3 DEF pageunmap
<1> QED BY <1>3, <1>5, <1>6

\* The first n pages from b on have been mapped in space r.
MappedRun(m, own, x, o, r, A, b, n) ==
    /\ Holds(x, o) /\ Grows(own, o, A)
    /\ \A q \in Frames : own[q] = q =>
          Mapped(x, q) = IF q = r THEN Mapped(m, q) \cup b .. b + n - 1 ELSE Mapped(m, q)

\* What growth in two steps comes to.
LEMMA GrowsTrans ==
  ASSUME NEW own, NEW o, NEW o2, NEW A, NEW B, Grows(own, o, A), Grows(o, o2, B),
         A \subseteq Frames
  PROVE  Grows(own, o2, A \cup B)
BY Numbers DEF Grows

\* Roots stay roots.
LEMMA GrowsRoot ==
  ASSUME NEW own, NEW o, NEW A, Grows(own, o, A), NEW q \in Frames, own[q] = q
  PROVE  o[q] = q
BY Numbers DEF Grows

\* No growth at all.
LEMMA MappedNone ==
  ASSUME NEW m, NEW own, Holds(m, own), NEW r, NEW A, NEW b \in Nat
  PROVE  MappedRun(m, own, m, own, r, A, b, 0)
<1>1. b .. b + 0 - 1 = {}
  OBVIOUS
<1>2. Grows(own, own, A)
  BY DEF Grows
<1> QED BY <1>1, <1>2 DEF MappedRun

\* One page more.
LEMMA MappedMore ==
  ASSUME NEW m, NEW own, NEW y, NEW o, NEW r \in Frames, NEW A \in SUBSET Frames,
         NEW b \in Nat, NEW j \in Nat, MappedRun(m, own, y, o, r, A, b, j),
         NEW x, NEW o2, MappedOne(y, o, x, o2, r, A, b + j)
  PROVE  MappedRun(m, own, x, o2, r, A, b, j + 1)
<1>1. Grows(own, o, A) /\ Grows(o, o2, A) /\ Holds(x, o2)
  BY DEF MappedRun, MappedOne
<1>2. Grows(own, o2, A)
  <2>1. Grows(own, o2, A \cup A)
    BY <1>1, GrowsTrans
  <2>2. A \cup A = A
    OBVIOUS
  <2> QED BY <2>1, <2>2
<1>3. b .. b + (j + 1) - 1 = (b .. b + j - 1) \cup {b + j}
  OBVIOUS
<1>4. \A q \in Frames : own[q] = q => o[q] = q
  BY <1>1, GrowsRoot
<1>5. ASSUME NEW q \in Frames, own[q] = q
      PROVE  Mapped(x, q) = IF q = r THEN Mapped(m, q) \cup b .. b + (j + 1) - 1 ELSE Mapped(m, q)
  <2>1. Mapped(y, q) = IF q = r THEN Mapped(m, q) \cup b .. b + j - 1 ELSE Mapped(m, q)
    BY <1>5 DEF MappedRun
  <2>2. Mapped(x, q) = IF q = r THEN Mapped(y, q) \cup {b + j} ELSE Mapped(y, q)
    BY <1>4, <1>5 DEF MappedOne
  <2> QED BY <2>1, <2>2, <1>3
<1> QED BY <1>1, <1>2, <1>5 DEF MappedRun

\* The loop that maps n fresh pages from b on.
LEMMA MapPages ==
  ASSUME NEW m, NEW own, Holds(m, own), NEW r \in Frames, own[r] = r, NEW b \in Nat,
         NEW n \in Nat, \A k \in 0 .. n - 1 : b + k \in Vpns /\ b + k \notin Mapped(m, r)
  PROVE  LET x == LoopOf("map", r, b, m, n)
         IN x.st = "oom" \/ \E o : MappedRun(m, own, x, o, r, {r}, b, n)
<1> DEFINE At(k) == LoopOf("map", r, b, m, k)
           Fine(k) == At(k).st = "oom" \/ \E o : MappedRun(m, own, At(k), o, r, {r}, b, k)
           Bad == {k \in Nat : k <= n /\ ~Fine(k)}
<1> SUFFICES ASSUME n \in Bad PROVE FALSE
  OBVIOUS
<1>1. PICK k \in Bad : \A j \in Bad : k <= j
  BY Least
<1>2. At(0) = m /\ \A j \in Nat : At(j + 1) = MapNew(At(j), r, b + j)
  <2>1. \A y, j : Body("map", r, b, y, j) = MapNew(y, r, b + j)
    BY DEF Body
  <2>2. At(0) = m /\ \A j \in Nat : At(j + 1) = Body("map", r, b, At(j), j)
    BY LoopStep
  <2> QED BY <2>1, <2>2
<1>3. k # 0
  BY <1>2, MappedNone
<1>4. k \in Nat /\ k <= n /\ ~Fine(k)
  OBVIOUS
<1>5. k - 1 \in Bad => k <= k - 1
  BY <1>1
<1> HIDE DEF Bad
<1>6. PICK j \in Nat : j = k - 1 /\ j + 1 = k /\ j <= n /\ j \in 0 .. n - 1 /\ j \notin Bad
  BY <1>3, <1>4, <1>5
<1> HIDE DEF Fine, At
<1>7. Fine(j)
  BY <1>6 DEF Bad
<1>8. PICK y : y = At(j)
  OBVIOUS
<1>9. PICK x : x = MapNew(y, r, b + j) /\ x = At(k)
  BY <1>2, <1>6, <1>8
<1>10. CASE y.st = "oom"
  BY <1>4, <1>9, <1>10, Dead DEF Fine
<1>11. CASE y.st # "oom"
  <2>1. PICK o : MappedRun(m, own, y, o, r, {r}, b, j)
    BY <1>7, <1>8, <1>11 DEF Fine
  <2>2. Holds(y, o) /\ o[r] = r
    BY <2>1, GrowsRoot DEF MappedRun
  <2>3. Mapped(y, r) = Mapped(m, r) \cup b .. b + j - 1
    BY <2>1 DEF MappedRun
  <2>4. b + j \in Vpns /\ b + j \notin Mapped(y, r)
    BY <1>6, <2>3
  <2>5. x.st = "oom" \/ \E o2 : MappedOne(y, o, x, o2, r, {r}, b + j)
    BY <1>9, <2>2, <2>4, MapNewTree
  <2>6. x.st = "oom" \/ \E o2 : MappedRun(m, own, x, o2, r, {r}, b, j + 1)
    BY <2>1, <2>5, MappedMore
  <2> QED BY <1>4, <1>6, <1>9, <2>6 DEF Fine
<1> QED BY <1>10, <1>11

\* A page of the old space is walked to, and one is mapped in the new space.
LEMMA CopyOne ==
  ASSUME NEW m, NEW own, Holds(m, own), NEW r \in Frames, own[r] = r, NEW old \in Frames,
         own[old] = old, NEW vpn \in Vpns, vpn \notin Mapped(m, r),
         NEW x, x = MapNew(pagewalk(m, old, vpn), r, vpn)
  PROVE  x.st = "oom" \/ \E o : MappedOne(m, own, x, o, r, {r, old}, vpn)
<1>1. PICK y : y = pagewalk(m, old, vpn)
  OBVIOUS
<1>2. CASE y.st = "oom"
  BY <1>1, <1>2, Dead
<1>3. CASE y.st # "oom" /\ x.st # "oom"
  <2>1. PICK o1 : WalkedOnly(m, own, y, o1, old)
    BY <1>1, <1>3, PagewalkHolds, VpnsNat
  <2>2. /\ Holds(y, o1) /\ Grows(own, o1, {old})
        /\ \A q \in Frames : own[q] = q => Mapped(y, q) = Mapped(m, q)
    BY <2>1 DEF WalkedOnly
  <2>3. \A q \in Frames : own[q] = q => o1[q] = q
    BY <2>2, GrowsRoot
  <2>4. vpn \notin Mapped(y, r) /\ o1[r] = r
    BY <2>2, <2>3
  <2>5. PICK o : MappedOne(y, o1, x, o, r, {r}, vpn)
    BY <1>1, <1>3, <2>2, <2>4, MapNewTree
  <2>6. Grows(own, o, {r, old})
    <3>1. Grows(own, o, {old} \cup {r})
      BY <2>2, <2>5, GrowsTrans DEF MappedOne
    <3>2. {old} \cup {r} = {r, old}
      OBVIOUS
    <3> QED BY <3>1, <3>2
  <2> QED BY <2>2, <2>3, <2>5, <2>6 DEF MappedOne
<1> QED BY <1>2, <1>3

\* The loop of cp_userspace().
LEMMA CopyPages ==
  ASSUME NEW m, NEW own, Holds(m, own), NEW r \in Frames, own[r] = r, NEW old \in Frames,
         own[old] = old, NEW n \in Nat,
         \A k \in 0 .. n - 1 : USER + k \in Vpns /\ USER + k \notin Mapped(m, r)
  PROVE  LET x == LoopOf("copy", r, old, m, n)
         IN x.st = "oom" \/ \E o : MappedRun(m, own, x, o, r, {r, old}, USER, n)
<1> DEFINE At(k) == LoopOf("copy", r, old, m, k)
           A == {r, old}
           Fine(k) == At(k).st = "oom" \/ \E o : MappedRun(m, own, At(k), o, r, A, USER, k)
           Bad == {k \in Nat : k <= n /\ ~Fine(k)}
<1> SUFFICES Fine(n)
  OBVIOUS
<1> SUFFICES ASSUME n \in Bad PROVE FALSE
  <2> HIDE DEF Fine
  <2> QED OBVIOUS
<1>0. USER \in Nat
  BY DEF USER
<1>1. PICK k \in Bad : \A j \in Bad : k <= j
  BY Least
<1>2. At(0) = m /\ \A j \in Nat : At(j + 1) = MapNew(pagewalk(At(j), old, USER + j), r, USER + j)
  <2>1. \A y, j : Body("copy", r, old, y, j) = MapNew(pagewalk(y, old, USER + j), r, USER + j)
    BY DEF Body
  <2>2. At(0) = m /\ \A j \in Nat : At(j + 1) = Body("copy", r, old, At(j), j)
    BY LoopStep
  <2> QED BY <2>1, <2>2
<1>3. k # 0
  BY <1>0, <1>2, MappedNone
<1>4. k \in Nat /\ k <= n /\ ~Fine(k)
  OBVIOUS
<1>5. k - 1 \in Bad => k <= k - 1
  BY <1>1
<1> HIDE DEF Bad
<1>6. PICK j \in Nat : j = k - 1 /\ j + 1 = k /\ j <= n /\ j \in 0 .. n - 1 /\ j \notin Bad
  BY <1>3, <1>4, <1>5
<1> HIDE DEF Fine, At
<1>7. Fine(j)
  BY <1>6 DEF Bad
<1>8. PICK y : y = At(j)
  OBVIOUS
<1>9. PICK x : x = MapNew(pagewalk(y, old, USER + j), r, USER + j) /\ x = At(k)
  BY <1>2, <1>6, <1>8
<1>10. CASE y.st = "oom"
  BY <1>4, <1>9, <1>10, Dead DEF Fine
<1>11. CASE y.st # "oom"
  <2>1. PICK o : MappedRun(m, own, y, o, r, A, USER, j)
    BY <1>7, <1>8, <1>11 DEF Fine
  <2>2. Holds(y, o) /\ o[r] = r /\ o[old] = old
    BY <2>1, GrowsRoot DEF MappedRun
  <2>3. Mapped(y, r) = Mapped(m, r) \cup USER .. USER + j - 1
    BY <2>1 DEF MappedRun
  <2>4. USER + j \in Vpns /\ USER + j \notin Mapped(y, r)
    BY <1>0, <1>6, <2>3
  <2>5. CASE x.st # "oom"
    <3>1. PICK o2 : MappedOne(y, o, x, o2, r, A, USER + j)
      BY <1>9, <2>2, <2>4, <2>5, CopyOne
    <3>2. MappedRun(m, own, x, o2, r, A, USER, j + 1)
      BY <1>0, <2>1, <3>1, MappedMore
    <3> QED BY <1>4, <1>6, <1>9, <3>2 DEF Fine
  <2> QED BY <1>4, <1>9, <2>5 DEF Fine
<1> QED BY <1>10, <1>11

\* The first n pages from USER on have been unmapped in space r.
UnmappedRun(m, own, x, o, r, n) ==
    /\ Holds(x, o) /\ Within(own, o, r) /\ o[r] = r
    /\ \A q \in Frames : own[q] = q =>
          Mapped(x, q) = IF q = r THEN Mapped(m, q) \ (USER .. USER + n - 1) ELSE Mapped(m, q)

\* One page less.
LEMMA UnmappedMore ==
  ASSUME NEW m, NEW own, own \in [Frames -> Owners], NEW y, NEW o, NEW r \in Frames,
         NEW j \in Nat, own[r] = r, UnmappedRun(m, own, y, o, r, j),
         NEW x, NEW o2, UnmappedOne(y, o, x, o2, r, USER + j)
  PROVE  UnmappedRun(m, own, x, o2, r, j + 1)
<1>0. USER \in Nat
  BY DEF USER
<1>1. Within(own, o, r) /\ Within(o, o2, r) /\ Holds(x, o2) /\ o2[r] = r /\ o[r] = r
  BY DEF UnmappedRun, UnmappedOne
<1>2. Within(own, o2, r)
  BY <1>1 DEF Within
<1>3. USER .. USER + (j + 1) - 1 = (USER .. USER + j - 1) \cup {USER + j}
  BY <1>0
<1>4. \A q \in Frames : own[q] = q => o[q] = q
  BY <1>1, Numbers DEF Within
<1>5. ASSUME NEW q \in Frames, own[q] = q
      PROVE  Mapped(x, q) = IF q = r THEN Mapped(m, q) \ (USER .. USER + (j + 1) - 1)
                            ELSE Mapped(m, q)
  <2>1. Mapped(y, q) = IF q = r THEN Mapped(m, q) \ (USER .. USER + j - 1) ELSE Mapped(m, q)
    BY <1>5 DEF UnmappedRun
  <2>2. Mapped(x, q) = IF q = r THEN Mapped(y, q) \ {USER + j} ELSE Mapped(y, q)
    BY <1>4, <1>5 DEF UnmappedOne
  <2> QED BY <2>1, <2>2, <1>3
<1> QED BY <1>1, <1>2, <1>5 DEF UnmappedRun

\* The loop of free_userspace().
LEMMA UnmapPages ==
  ASSUME NEW m, NEW own, Holds(m, own), NEW r \in Frames, own[r] = r, NEW n \in Nat,
         \A k \in 0 .. n - 1 : USER + k \in Vpns /\ USER + k \in Mapped(m, r)
  PROVE  LET x == LoopOf("unmap", r, NULL, m, n)
         IN x.st = "oom" \/ \E o : UnmappedRun(m, own, x, o, r, n)
<1> DEFINE At(k) == LoopOf("unmap", r, NULL, m, k)
           Fine(k) == At(k).st = "oom" \/ \E o : UnmappedRun(m, own, At(k), o, r, k)
           Bad == {k \in Nat : k <= n /\ ~Fine(k)}
<1> SUFFICES ASSUME n \in Bad PROVE FALSE
  OBVIOUS
<1>0. USER \in Nat /\ own \in [Frames -> Owners]
  BY DEF USER, Holds, Tree, TreeType
<1>1. PICK k \in Bad : \A j \in Bad : k <= j
  BY Least
<1>2. At(0) = m /\ \A j \in Nat : At(j + 1) = pageunmap(At(j), r, USER + j)
  <2>1. \A y, j : Body("unmap", r, NULL, y, j) = pageunmap(y, r, USER + j)
    BY DEF Body
  <2>2. At(0) = m /\ \A j \in Nat : At(j + 1) = Body("unmap", r, NULL, At(j), j)
    BY LoopStep
  <2> QED BY <2>1, <2>2
<1>3. k # 0
  <2>1. USER .. USER + 0 - 1 = {} /\ Within(own, own, r)
    BY <1>0 DEF Within
  <2>2. UnmappedRun(m, own, m, own, r, 0)
    BY <2>1 DEF UnmappedRun
  <2> QED BY <1>2, <2>2
<1>4. k \in Nat /\ k <= n /\ ~Fine(k)
  OBVIOUS
<1>5. k - 1 \in Bad => k <= k - 1
  BY <1>1
<1> HIDE DEF Bad
<1>6. PICK j \in Nat : j = k - 1 /\ j + 1 = k /\ j <= n /\ j \in 0 .. n - 1 /\ j \notin Bad
  BY <1>3, <1>4, <1>5
<1> HIDE DEF Fine, At
<1>7. Fine(j)
  BY <1>6 DEF Bad
<1>8. PICK y : y = At(j)
  OBVIOUS
<1>9. PICK x : x = pageunmap(y, r, USER + j) /\ x = At(k)
  BY <1>2, <1>6, <1>8
<1>10. CASE y.st = "oom"
  BY <1>4, <1>9, <1>10, Dead DEF Fine
<1>11. CASE y.st # "oom"
  <2>1. PICK o : UnmappedRun(m, own, y, o, r, j)
    BY <1>7, <1>8, <1>11 DEF Fine
  <2>2. Holds(y, o) /\ o[r] = r
    BY <2>1 DEF UnmappedRun
  <2>3. Mapped(y, r) = Mapped(m, r) \ (USER .. USER + j - 1)
    BY <2>1 DEF UnmappedRun
  <2>4. USER + j \in Vpns /\ USER + j \in Mapped(y, r)
    BY <1>0, <1>6, <2>3
  <2>5. x.st = "oom" \/ \E o2 : UnmappedOne(y, o, x, o2, r, USER + j)
    BY <1>9, <2>2, <2>4, UnmapTree
  <2>6. x.st = "oom" \/ \E o2 : UnmappedRun(m, own, x, o2, r, j + 1)
    BY <1>0, <2>1, <2>5, UnmappedMore
  <2> QED BY <1>4, <1>6, <1>9, <2>6 DEF Fine
<1> QED BY <1>10, <1>11

-----------------------------------------------------------------------------
(* free_table()                                                            *)

\* Every place is that of an address.
LEMMA PidxSur ==
  ASSUME NEW i \in Entries, NEW j \in Entries, NEW k \in Entries
  PROVE  \E vpn \in Vpns : PIDX(1, vpn) = i /\ PIDX(2, vpn) = j /\ PIDX(3, vpn) = k
<1>1. PICK N \in Nat \ {0} : N = NENT
  BY NENTAssumption
<1>2. PICK S \in Nat : S = N * N
  BY <1>1
<1>3. i \in 0 .. N - 1 /\ j \in 0 .. N - 1 /\ k \in 0 .. N - 1 /\ S > 0
  BY <1>1, <1>2, NENTAssumption, Z3 DEF Entries
<1>4. PICK q \in Nat : q = N * i + j
  BY <1>1, <1>3
<1>5. PICK v \in Nat : v = N * q + k
  BY <1>1, <1>3, <1>4
<1>6. v \div N = q /\ v % N = k
  BY <1>1, <1>3, <1>5, Z3
<1>7. q \div N = i /\ q % N = j
  BY <1>1, <1>3, <1>4, Z3
<1>8. PICK d \in 0 .. S - 1 : d = N * j + k
  <2>1. N * j + k <= S - 1 /\ N * j + k >= 0 /\ N * j + k \in Int
    BY <1>1, <1>2, <1>3, Z3
  <2> QED BY <2>1
<1>9. v = S * i + d
  BY <1>1, <1>2, <1>3, <1>4, <1>5, <1>8, Z3
<1>10. v \div S = i
  BY <1>2, <1>3, <1>9, <1>8, Z3
<1>11. v <= S * N - 1
  <2>1. S * i <= S * (N - 1) /\ S * (N - 1) = S * N - S
    BY <1>1, <1>2, <1>3, Z3
  <2> QED BY <1>1, <1>2, <1>3, <1>8, <1>9, <2>1
<1>12. v \in Vpns
  <2>1. Vpns = 0 .. S * N - 1
    BY <1>1, <1>2 DEF Vpns
  <2> QED BY <1>11, <2>1
<1>13. PIDX(1, v) = v \div S /\ PIDX(2, v) = (v \div N) % N /\ PIDX(3, v) = v % N
  BY <1>1, <1>2, <1>12, PidxTop DEF PIDX
<1> QED BY <1>6, <1>7, <1>10, <1>12, <1>13

\* Space r has tables only.
Bare(own, g, r) == \A f \in Frames : own[f] = r => g.lv[f] # 4

\* That is so when it maps nothing.
LEMMA BareIs ==
  ASSUME NEW m, NEW own, NEW g, Tree(m, own, g), NEW r \in Frames, own[r] = r,
         Mapped(m, r) = {}
  PROVE  Bare(own, g, r)
<1> SUFFICES ASSUME NEW f \in Frames, own[f] = r, g.lv[f] = 4 PROVE FALSE
  BY DEF Bare
<1>1. g.up[f] \in Frames /\ g.up[g.up[f]] \in Frames
  <2>1. Climb(m, own, g, r, f)
    BY Above
  <2> QED BY <2>1 DEF Climb
<1>2. g.ix[f] \in Entries /\ g.ix[g.up[f]] \in Entries /\ g.ix[g.up[g.up[f]]] \in Entries
  BY <1>1 DEF Tree, TreeType, Places
<1>3. PICK v \in Vpns : PlacedAt(own, g, r, f, v)
  BY <1>2, PidxSur DEF PlacedAt
<1>4. v \in Mapped(m, r)
  BY <1>3, MappedIs
<1> QED BY <1>4

\* A table without entries is freed, and the entry that refers to it cleared.
Clearing(m, own, g, t, i, f, x) ==
    /\ Tree(m, own, g) /\ Ok(m) /\ t \in Frames /\ own[t] \in Frames /\ g.lv[t] # 4
    /\ i \in Entries /\ m.ent[t][i] # Empty /\ f = m.ent[t][i].pa
    /\ \A j \in Entries : m.ent[f][j] = Empty
    /\ x = [kfree(m, f) EXCEPT !.ent[t][i] = Empty]

\* That is what the body of the loops does with one entry.
LEMMA ClearEntry ==
  ASSUME NEW m, NEW own, NEW g, NEW t, NEW i, NEW f, NEW x, Clearing(m, own, g, t, i, f, x)
  PROVE  Ok(x) /\ Tree(x, [own EXCEPT ![f] = Nobody], g)
<1>0. Tree(m, own, g) /\ Ok(m) /\ t \in Frames /\ i \in Entries /\ own[t] \in Frames
  BY DEF Clearing
<1>1. m \in Mem /\ own \in [Frames -> Owners] /\ g \in Places /\ TreeFree(m, own)
  BY <1>0 DEF Tree, TreeType
<1>2. Kid(m, own, g, t, i)
  BY DEF Tree, TreeDown, Clearing
<1>3. f \in Frames /\ own[f] = own[t] /\ g.lv[f] = g.lv[t] + 1
  <2>1. f = m.ent[t][i].pa
    BY DEF Clearing
  <2> QED BY <1>2, <2>1, Zenon DEF Kid
<1>4. f # t /\ f \notin m.free
  <2>1. g.lv[t] \in Int
    BY <1>0, <1>1 DEF Places
  <2> QED BY <1>0, <1>1, <1>3, <2>1, Numbers DEF TreeFree
<1>5. PICK k : k = kfree(m, f)
  OBVIOUS
<1>6. k \in Mem /\ Ok(k) /\ k.free = m.free \cup {f} /\ k.ent = [m.ent EXCEPT ![f] = Zero]
  BY <1>0, <1>1, <1>3, <1>4, <1>5, KfreeIs
<1>7. Wrote(k, x, t, i, Empty)
  <2>1. Empty \in Entry /\ x = [k EXCEPT !.ent[t][i] = Empty]
    BY <1>5, EntryFacts DEF Clearing
  <2> QED BY <1>0, <1>6, <2>1, SetEntry
<1>8. PICK o : o = [own EXCEPT ![f] = Nobody]
  OBVIOUS
<1>9. Unlinking(m, own, g, t, i, f, x, o)
  <2>1. x \in Mem /\ x.free = m.free \cup {f}
    BY <1>6, <1>7 DEF Wrote
  <2>2. x.ent = [k.ent EXCEPT ![t][i] = Empty] /\ k.ent \in [Frames -> [Entries -> Entry]]
    BY <1>6, <1>7 DEF Wrote, Mem
  <2>3. /\ \A e \in Frames : e # t => x.ent[e] = k.ent[e]
        /\ \A j \in Entries : j # i => x.ent[t][j] = k.ent[t][j]
        /\ x.ent[t][i] = Empty
    BY <1>0, <2>2
  <2>4. \A e \in Frames : e # f => k.ent[e] = m.ent[e]
    BY <1>1, <1>6 DEF Mem
  <2>5. \A e \in Frames : e # f /\ e # t => x.ent[e] = m.ent[e]
    BY <2>3, <2>4
  <2>6. \A j \in Entries : j # i => x.ent[t][j] = m.ent[t][j]
    BY <1>0, <2>3, <2>4, <1>4
  <2> QED BY <1>8, <2>1, <2>3, <2>5, <2>6 DEF Unlinking, Clearing
<1>10. Tree(x, o, g)
  BY <1>9, UnlinkTree
<1> QED BY <1>6, <1>7, <1>8, <1>10 DEF Wrote, Ok

\* The owners once the first n tables of the last level under t are free.
OwnLast(own, g, r, t, n) ==
    [f \in Frames |-> IF own[f] = r /\ g.lv[f] = 3 /\ g.up[f] = t /\ g.ix[f] < n
                      THEN Nobody ELSE own[f]]

\* The inner loop of free_table().
LEMMA LastTree ==
  ASSUME NEW m, NEW own, NEW g, Tree(m, own, g), Ok(m), NEW r \in Frames, own[r] = r,
         Bare(own, g, r), NEW t \in Frames, own[t] = r, g.lv[t] = 2, NEW n \in 0 .. NENT
  PROVE  LET x == LoopOf("last", t, NULL, m, n)
         IN Ok(x) /\ Tree(x, OwnLast(own, g, r, t, n), g)
<1> DEFINE At(k) == LoopOf("last", t, NULL, m, k)
           Fine(k) == Ok(At(k)) /\ Tree(At(k), OwnLast(own, g, r, t, k), g)
           Bad == {k \in Nat : k <= n /\ ~Fine(k)}
<1>0. n \in Nat /\ NENT \in Nat /\ n <= NENT
  BY NENTAssumption
<1> SUFFICES ASSUME n \in Bad PROVE FALSE
  BY <1>0
<1>a. own \in [Frames -> Owners] /\ g \in Places
  BY DEF Tree, TreeType
<1>b. \A f \in Frames : g.ix[f] \in Entries /\ g.ix[f] \in Nat /\ g.lv[f] \in 1 .. 4
                        /\ g.up[f] \in Frames
  BY <1>a, NENTAssumption DEF Places, Entries
<1>1. PICK k \in Bad : \A j \in Bad : k <= j
  BY Least
<1>2. At(0) = m /\ \A j \in Nat : At(j + 1) =
        IF Ok(At(j)) /\ At(j).ent[t][j] # Empty /\ ~At(j).ent[t][j].af
        THEN [kfree(At(j), At(j).ent[t][j].pa) EXCEPT !.ent[t][j] = Empty] ELSE At(j)
  <2>1. \A y, j : Body("last", t, NULL, y, j) =
           IF Ok(y) /\ y.ent[t][j] # Empty /\ ~y.ent[t][j].af
           THEN [kfree(y, y.ent[t][j].pa) EXCEPT !.ent[t][j] = Empty] ELSE y
    BY DEF Body
  <2>2. At(0) = m /\ \A j \in Nat : At(j + 1) = Body("last", t, NULL, At(j), j)
    BY LoopStep
  <2> QED BY <2>1, <2>2
<1>3. k # 0
  <2>1. OwnLast(own, g, r, t, 0) = own
    <3>1. \A f \in Frames : ~(g.ix[f] < 0)
      BY <1>b
    <3>2. OwnLast(own, g, r, t, 0) = [f \in Frames |-> own[f]]
      BY <3>1 DEF OwnLast
    <3> QED BY <3>2, <1>a
  <2> QED BY <1>2, <2>1
<1>4. k \in Nat /\ k <= n /\ ~Fine(k)
  OBVIOUS
<1>5. k - 1 \in Bad => k <= k - 1
  BY <1>1
<1> HIDE DEF Bad
<1>6. PICK j \in Nat : j = k - 1 /\ j + 1 = k /\ j <= n /\ j < NENT /\ j \notin Bad
  BY <1>0, <1>3, <1>4, <1>5
<1> HIDE DEF Fine, At
<1>7. Fine(j)
  BY <1>6 DEF Bad
<1>8. PICK y : y = At(j)
  OBVIOUS
<1>9. PICK o : o = OwnLast(own, g, r, t, j)
  OBVIOUS
<1>10. Ok(y) /\ Tree(y, o, g)
  BY <1>7, <1>8, <1>9 DEF Fine
<1>11. j \in Entries
  BY <1>0, <1>6 DEF Entries
<1>12. /\ o \in [Frames -> Owners]
       /\ \A f \in Frames : o[f] = IF own[f] = r /\ g.lv[f] = 3 /\ g.up[f] = t /\ g.ix[f] < j
                                   THEN Nobody ELSE own[f]
  BY <1>9, <1>a DEF OwnLast, Owners
<1>13. PICK o2 : o2 = OwnLast(own, g, r, t, k)
  OBVIOUS
<1>14. /\ o2 \in [Frames -> Owners]
       /\ \A f \in Frames : o2[f] = IF own[f] = r /\ g.lv[f] = 3 /\ g.up[f] = t /\ g.ix[f] < k
                                    THEN Nobody ELSE own[f]
  BY <1>13, <1>a DEF OwnLast, Owners
<1>15. \A f \in Frames : g.ix[f] < k <=> g.ix[f] < j \/ g.ix[f] = j
  BY <1>6, <1>b
<1>16. PICK x : x = At(k)
  OBVIOUS
<1>17. o[t] = r /\ o[t] \in Frames /\ g.lv[t] # 4 /\ r # Nobody
  BY <1>12, Numbers
<1>18. ASSUME NEW f \in Frames, own[f] = r, g.lv[f] = 3, g.up[f] = t, g.ix[f] = j
       PROVE  y.ent[t][j].pa = f
  <2>1. o[f] = r
    BY <1>12, <1>18
  <2> QED BY <2>1, <1>10, <1>18 DEF Tree, TreeUp
<1>19. CASE y.ent[t][j] = Empty
  <2>1. x = y
    BY <1>2, <1>6, <1>8, <1>16, <1>19
  <2>2. \A f \in Frames : ~(own[f] = r /\ g.lv[f] = 3 /\ g.up[f] = t /\ g.ix[f] = j)
    BY <1>18, <1>19, EntryFacts, Numbers
  <2>3. \A f \in Frames : o2[f] = o[f]
    BY <1>12, <1>14, <1>15, <2>2
  <2>4. o2 = o
    BY <1>12, <1>14, <2>3
  <2> QED BY <1>4, <1>10, <1>13, <1>16, <2>1, <2>4 DEF Fine
<1>20. CASE y.ent[t][j] # Empty
  <2>1. Kid(y, o, g, t, j)
    BY <1>10, <1>11, <1>17, <1>20 DEF Tree, TreeDown
  <2>2. PICK f \in Frames : f = y.ent[t][j].pa
    BY <2>1 DEF Kid
  <2>3. o[f] = r /\ g.lv[f] = 3 /\ g.up[f] = t /\ g.ix[f] = j
    <3>1. o[f] = o[t] /\ g.lv[f] = g.lv[t] + 1 /\ g.up[f] = t /\ g.ix[f] = j
      BY <2>1, <2>2, Zenon DEF Kid
    <3> QED BY <3>1, <1>17
  <2>4. y.ent[t][j] = Table(f)
    <3>1. g.lv[t] # 3
      OBVIOUS
    <3> QED BY <2>1, <2>2, <3>1 DEF Kid
  <2>5. x = [kfree(y, f) EXCEPT !.ent[t][j] = Empty]
    <3>1. ~y.ent[t][j].af
      BY <2>4, EntryFacts
    <3>2. At(j + 1) = [kfree(At(j), At(j).ent[t][j].pa) EXCEPT !.ent[t][j] = Empty]
      BY <1>2, <1>8, <1>10, <1>20, <3>1
    <3> QED BY <1>6, <1>8, <1>16, <2>2, <3>2
  <2>6. ASSUME NEW i \in Entries PROVE y.ent[f][i] = Empty
    <3>1. SUFFICES ASSUME y.ent[f][i] # Empty PROVE FALSE
      OBVIOUS
    <3>2. o[f] \in Frames /\ g.lv[f] # 4
      BY <2>3
    <3>3. Kid(y, o, g, f, i)
      BY <1>10, <3>1, <3>2 DEF Tree, TreeDown
    <3>4. PICK e \in Frames : e = y.ent[f][i].pa /\ o[e] = o[f] /\ g.lv[e] = g.lv[f] + 1
      BY <3>3, Zenon DEF Kid
    <3>5. own[e] = r /\ g.lv[e] = 4
      BY <2>3, <3>4, <1>12, <1>17
    <3> QED BY <3>5 DEF Bare
  <2>7. Ok(x) /\ Tree(x, [o EXCEPT ![f] = Nobody], g)
    <3>1. Clearing(y, o, g, t, j, f, x)
      BY <1>10, <1>11, <1>17, <1>20, <2>2, <2>5, <2>6, Zenon DEF Clearing
    <3> QED BY <3>1, ClearEntry
  <2>8. PICK o3 : o3 = [o EXCEPT ![f] = Nobody]
    OBVIOUS
  <2>9. o3 \in [Frames -> Owners] /\ o3[f] = Nobody /\ \A e \in Frames : e # f => o3[e] = o[e]
    BY <1>12, <2>8 DEF Owners
  <2>10. own[f] = r
    BY <1>12, <1>17, <2>3
  <2>11. \A e \in Frames : own[e] = r /\ g.lv[e] = 3 /\ g.up[e] = t /\ g.ix[e] = j => e = f
    BY <1>18, <2>2
  <2>12. \A e \in Frames : o2[e] = o3[e]
    BY <1>12, <1>14, <1>15, <2>3, <2>9, <2>10, <2>11
  <2>13. o2 = o3
    BY <1>14, <2>9, <2>12
  <2> QED BY <1>4, <1>13, <1>16, <2>7, <2>8, <2>13 DEF Fine
<1> QED BY <1>19, <1>20

\* The owners once table t and all below it are free.
OwnLess(own, g, r, t) ==
    [f \in Frames |-> IF own[f] = r /\ (f = t \/ (g.lv[f] = 3 /\ g.up[f] = t))
                      THEN Nobody ELSE own[f]]

\* A table of the second level is freed with all that is below it.
Lowering(m, r, i, t, x) ==
    /\ m.ent[r][i] # Empty /\ t = m.ent[r][i].pa
    /\ x = [kfree(Last(m, t), t) EXCEPT !.ent[r][i] = Empty]

\* That is what the body of the upper loop does with one entry.
LEMMA LowerTree ==
  ASSUME NEW m, NEW own, NEW g, Tree(m, own, g), Ok(m), NEW r \in Frames, own[r] = r,
         Bare(own, g, r), NEW i \in Entries, NEW t \in Frames, NEW x,
         Lowering(m, r, i, t, x)
  PROVE  Ok(x) /\ Tree(x, OwnLess(own, g, r, t), g)
<1>a. own \in [Frames -> Owners] /\ g \in Places /\ g.lv[r] = 1 /\ NENT \in Nat
  BY NENTAssumption DEF Tree, TreeType, TreeRoot
<1>b. \A f \in Frames : g.ix[f] \in Entries /\ g.ix[f] < NENT /\ g.lv[f] \in 1 .. 4
  BY <1>a, NENTAssumption DEF Places, Entries
<1>1. g.lv[r] # 4 /\ own[r] \in Frames /\ r # Nobody
  BY <1>a, Numbers
<1>2. Kid(m, own, g, r, i)
  BY <1>1 DEF Tree, TreeDown, Lowering
<1>3. own[t] = r /\ g.lv[t] = 2 /\ g.up[t] = r /\ g.ix[t] = i
  <2>1. own[t] = own[r] /\ g.lv[t] = g.lv[r] + 1 /\ g.up[t] = r /\ g.ix[t] = i
    BY <1>2, Zenon DEF Kid, Lowering
  <2> QED BY <1>a, <2>1
<1>4. PICK z : z = Last(m, t)
  OBVIOUS
<1>5. PICK o : o = OwnLast(own, g, r, t, NENT)
  OBVIOUS
<1>6. Ok(z) /\ Tree(z, o, g)
  <2>1. NENT \in 0 .. NENT
    BY <1>a
  <2>2. z = LoopOf("last", t, NULL, m, NENT)
    BY <1>4, LastLoop
  <2> QED BY <1>3, <1>5, <2>1, <2>2, LastTree
<1>7. /\ o \in [Frames -> Owners]
      /\ \A f \in Frames : o[f] = IF own[f] = r /\ g.lv[f] = 3 /\ g.up[f] = t
                                  THEN Nobody ELSE own[f]
  BY <1>5, <1>a, <1>b DEF OwnLast, Owners
<1>8. o[t] = r /\ o[r] = r /\ o[r] \in Frames
  BY <1>3, <1>7, <1>a
<1>9. z.ent[r][i].pa = t /\ z.ent[r][i] # Empty
  <2>1. g.lv[t] # 1 /\ o[t] \in Frames
    BY <1>3, <1>8
  <2>2. z.ent[g.up[t]][g.ix[t]].pa = t
    BY <1>6, <2>1 DEF Tree, TreeUp
  <2> QED BY <1>3, <2>2, EntryFacts, Numbers
<1>10. ASSUME NEW j \in Entries PROVE z.ent[t][j] = Empty
  <2>1. SUFFICES ASSUME z.ent[t][j] # Empty PROVE FALSE
    OBVIOUS
  <2>2. o[t] \in Frames /\ g.lv[t] # 4
    BY <1>3, <1>8
  <2>3. Kid(z, o, g, t, j)
    BY <1>6, <2>1, <2>2 DEF Tree, TreeDown
  <2>4. PICK e \in Frames : o[e] = o[t] /\ g.lv[e] = g.lv[t] + 1 /\ g.up[e] = t
    BY <2>3, Zenon DEF Kid
  <2>5. g.lv[e] = 3
    BY <1>3, <2>4
  <2> QED BY <1>1, <1>7, <1>8, <2>4, <2>5
<1>11. Ok(x) /\ Tree(x, [o EXCEPT ![t] = Nobody], g)
  <2>1. x = [kfree(z, t) EXCEPT !.ent[r][i] = Empty]
    BY <1>4 DEF Lowering
  <2>2. Clearing(z, o, g, r, i, t, x)
    BY <1>1, <1>6, <1>8, <1>9, <1>10, <2>1, Zenon DEF Clearing
  <2> QED BY <2>2, ClearEntry
<1>12. PICK o2 : o2 = [o EXCEPT ![t] = Nobody]
  OBVIOUS
<1>13. ASSUME NEW f \in Frames
       PROVE  o2[f] = IF own[f] = r /\ (f = t \/ (g.lv[f] = 3 /\ g.up[f] = t))
                      THEN Nobody ELSE own[f]
  <2>1. o2[f] = IF f = t THEN Nobody ELSE o[f]
    BY <1>7, <1>12
  <2> QED BY <1>3, <1>7, <2>1
<1>14. o2 = OwnLess(own, g, r, t)
  <2>1. o2 = [f \in Frames |-> o2[f]]
    BY <1>7, <1>12
  <2> QED BY <1>13, <2>1 DEF OwnLess
<1> QED BY <1>11, <1>12, <1>14

\* The owners once the first n tables of the second level are free.
OwnTop(own, g, r, n) ==
    [f \in Frames |-> IF /\ own[f] = r
                         /\ \/ g.lv[f] = 2 /\ g.ix[f] < n
                            \/ g.lv[f] = 3 /\ g.ix[g.up[f]] < n
                      THEN Nobody ELSE own[f]]

\* The outer loop of free_table().
LEMMA TopTree ==
  ASSUME NEW m, NEW own, NEW g, Tree(m, own, g), Ok(m), NEW r \in Frames, own[r] = r,
         Bare(own, g, r), NEW n \in 0 .. NENT
  PROVE  LET x == LoopOf("top", r, NULL, m, n)
         IN Ok(x) /\ Tree(x, OwnTop(own, g, r, n), g)
<1> DEFINE At(k) == LoopOf("top", r, NULL, m, k)
           Fine(k) == Ok(At(k)) /\ Tree(At(k), OwnTop(own, g, r, k), g)
           Bad == {k \in Nat : k <= n /\ ~Fine(k)}
<1>0. n \in Nat /\ NENT \in Nat /\ n <= NENT
  BY NENTAssumption
<1> SUFFICES ASSUME n \in Bad PROVE FALSE
  BY <1>0
<1>a. own \in [Frames -> Owners] /\ g \in Places /\ g.lv[r] = 1
  BY DEF Tree, TreeType, TreeRoot
<1>b. \A f \in Frames : g.ix[f] \in Entries /\ g.ix[f] \in Nat /\ g.lv[f] \in 1 .. 4
                        /\ g.up[f] \in Frames
  BY <1>a, NENTAssumption DEF Places, Entries
<1>1. PICK k \in Bad : \A j \in Bad : k <= j
  BY Least
<1>2. At(0) = m /\ \A j \in Nat : At(j + 1) =
        IF Ok(At(j)) /\ At(j).ent[r][j] # Empty /\ ~At(j).ent[r][j].af
        THEN [kfree(Last(At(j), At(j).ent[r][j].pa), At(j).ent[r][j].pa)
                 EXCEPT !.ent[r][j] = Empty]
        ELSE At(j)
  <2>1. \A y, j : Body("top", r, NULL, y, j) =
           IF Ok(y) /\ y.ent[r][j] # Empty /\ ~y.ent[r][j].af
           THEN [kfree(Last(y, y.ent[r][j].pa), y.ent[r][j].pa) EXCEPT !.ent[r][j] = Empty]
           ELSE y
    BY DEF Body
  <2>2. At(0) = m /\ \A j \in Nat : At(j + 1) = Body("top", r, NULL, At(j), j)
    BY LoopStep
  <2> QED BY <2>1, <2>2, ZenonT(30)
<1>3. k # 0
  <2>1. OwnTop(own, g, r, 0) = own
    <3>1. \A f \in Frames : ~(g.ix[f] < 0)
      BY <1>b
    <3>2. OwnTop(own, g, r, 0) = [f \in Frames |-> own[f]]
      BY <1>b, <3>1 DEF OwnTop
    <3> QED BY <3>2, <1>a
  <2> QED BY <1>2, <2>1
<1>4. k \in Nat /\ k <= n /\ ~Fine(k)
  OBVIOUS
<1>5. k - 1 \in Bad => k <= k - 1
  BY <1>1
<1> HIDE DEF Bad
<1>6. PICK j \in Nat : j = k - 1 /\ j + 1 = k /\ j <= n /\ j < NENT /\ j \notin Bad
  BY <1>0, <1>3, <1>4, <1>5
<1> HIDE DEF Fine, At
<1>7. Fine(j)
  BY <1>6 DEF Bad
<1>8. PICK y : y = At(j)
  OBVIOUS
<1>9. PICK o : o = OwnTop(own, g, r, j)
  OBVIOUS
<1>10. Ok(y) /\ Tree(y, o, g)
  BY <1>7, <1>8, <1>9 DEF Fine
<1>11. j \in Entries
  BY <1>0, <1>6 DEF Entries
<1>12. /\ o \in [Frames -> Owners]
       /\ \A f \in Frames : o[f] = IF /\ own[f] = r
                                      /\ \/ g.lv[f] = 2 /\ g.ix[f] < j
                                         \/ g.lv[f] = 3 /\ g.ix[g.up[f]] < j
                                   THEN Nobody ELSE own[f]
  BY <1>9, <1>a DEF OwnTop, Owners
<1>13. PICK o2 : o2 = OwnTop(own, g, r, k)
  OBVIOUS
<1>14. /\ o2 \in [Frames -> Owners]
       /\ \A f \in Frames : o2[f] = IF /\ own[f] = r
                                       /\ \/ g.lv[f] = 2 /\ g.ix[f] < k
                                          \/ g.lv[f] = 3 /\ g.ix[g.up[f]] < k
                                    THEN Nobody ELSE own[f]
  BY <1>13, <1>a DEF OwnTop, Owners
<1>15. \A f \in Frames : g.ix[f] < k <=> g.ix[f] < j \/ g.ix[f] = j
  BY <1>6, <1>b
<1>16. PICK x : x = At(k)
  OBVIOUS
<1>17. o[r] = r /\ o[r] \in Frames /\ g.lv[r] # 4 /\ r # Nobody
  BY <1>12, <1>a, Numbers
<1>18. ASSUME NEW f \in Frames, own[f] = r, g.lv[f] = 2, g.ix[f] = j
       PROVE  y.ent[r][j].pa = f
  <2>1. o[f] = r /\ g.lv[f] # 1
    BY <1>12, <1>18
  <2>2. own[g.up[f]] = r /\ g.lv[g.up[f]] = 1
    BY <1>18 DEF Tree, TreeUp
  <2>3. g.up[f] = r
    BY <1>b, <2>2 DEF Tree, TreeRoot
  <2> QED BY <2>1, <2>3, <1>10, <1>18 DEF Tree, TreeUp
<1>19. ASSUME NEW f \in Frames, own[f] = r, g.lv[f] = 3
       PROVE  own[g.up[f]] = r /\ g.lv[g.up[f]] = 2 /\ g.up[f] \in Frames
  BY <1>19, <1>b DEF Tree, TreeUp
<1>20. CASE y.ent[r][j] = Empty
  <2>1. x = y
    BY <1>2, <1>6, <1>8, <1>16, <1>20
  <2>2. \A f \in Frames : ~(own[f] = r /\ g.lv[f] = 2 /\ g.ix[f] = j)
    BY <1>18, <1>20, EntryFacts, Numbers
  <2>3. \A f \in Frames : ~(own[f] = r /\ g.lv[f] = 3 /\ g.ix[g.up[f]] = j)
    BY <2>2, <1>19
  <2>4. \A f \in Frames : o2[f] = o[f]
    BY <1>12, <1>14, <1>15, <1>b, <2>2, <2>3
  <2>5. o2 = o
    BY <1>12, <1>14, <2>4
  <2> QED BY <1>4, <1>10, <1>13, <1>16, <2>1, <2>5 DEF Fine
<1>21. CASE y.ent[r][j] # Empty
  <2>1. Kid(y, o, g, r, j)
    BY <1>10, <1>11, <1>17, <1>21 DEF Tree, TreeDown
  <2>2. PICK t \in Frames : t = y.ent[r][j].pa
    BY <2>1 DEF Kid
  <2>3. o[t] = r /\ g.lv[t] = 2 /\ g.up[t] = r /\ g.ix[t] = j
    <3>1. o[t] = o[r] /\ g.lv[t] = g.lv[r] + 1 /\ g.up[t] = r /\ g.ix[t] = j
      BY <2>1, <2>2, Zenon DEF Kid
    <3> QED BY <3>1, <1>17, <1>a
  <2>4. y.ent[r][j] = Table(t)
    <3>1. g.lv[r] # 3
      BY <1>a
    <3> QED BY <2>1, <2>2, <3>1 DEF Kid
  <2>5. x = [kfree(Last(y, t), t) EXCEPT !.ent[r][j] = Empty]
    <3>1. ~y.ent[r][j].af
      BY <2>4, EntryFacts
    <3>2. At(j + 1) = [kfree(Last(At(j), At(j).ent[r][j].pa), At(j).ent[r][j].pa)
                          EXCEPT !.ent[r][j] = Empty]
      BY <1>2, <1>8, <1>10, <1>21, <3>1
    <3> QED BY <1>6, <1>8, <1>16, <2>2, <3>2
  <2>6. Bare(o, g, r)
    BY <1>12, <1>17 DEF Bare
  <2>7. PICK o3 : o3 = OwnLess(o, g, r, t)
    OBVIOUS
  <2>8. Ok(x) /\ Tree(x, o3, g)
    <3>1. Lowering(y, r, j, t, x)
      BY <1>21, <2>2, <2>5 DEF Lowering
    <3> QED BY <1>10, <1>11, <1>17, <2>6, <2>7, <3>1, LowerTree
  <2>9. own[t] = r
    BY <1>12, <1>17, <2>3
  <2>10. \A e \in Frames : own[e] = r /\ g.lv[e] = 2 /\ g.ix[e] = j => e = t
    BY <1>18, <2>2
  <2>11. \A e \in Frames : own[e] = r /\ g.lv[e] = 3 =>
             (g.ix[g.up[e]] = j <=> g.up[e] = t)
    BY <1>19, <2>3, <2>10
  <2>12. ASSUME NEW f \in Frames
         PROVE  o2[f] = IF o[f] = r /\ (f = t \/ (g.lv[f] = 3 /\ g.up[f] = t))
                        THEN Nobody ELSE o[f]
    <3>1. CASE own[f] # r
      BY <3>1, <1>12, <1>14
    <3>2. CASE own[f] = r /\ g.lv[f] = 2
      BY <3>2, <1>12, <1>14, <1>15, <1>17, <2>3, <2>10
    <3>3. CASE own[f] = r /\ g.lv[f] = 3
      <4>1. f # t /\ g.up[f] \in Frames
        BY <3>3, <1>19, <2>3
      <4> QED BY <3>3, <4>1, <1>12, <1>14, <1>15, <1>17, <2>11
    <3>4. CASE own[f] = r /\ g.lv[f] # 2 /\ g.lv[f] # 3
      BY <3>4, <1>12, <1>14, <1>17, <2>3
    <3> QED BY <3>1, <3>2, <3>3, <3>4
  <2>13. o2 = o3
    <3>1. o2 = [f \in Frames |-> o2[f]]
      BY <1>14
    <3> QED BY <2>7, <2>12, <3>1 DEF OwnLess
  <2> QED BY <1>4, <1>13, <1>16, <2>8, <2>13 DEF Fine
<1> QED BY <1>20, <1>21

\* free_table() gives back all frames of a space that maps nothing.
LEMMA FreeTable ==
  ASSUME NEW m, NEW own, Holds(m, own), NEW r \in Frames, own[r] = r, Mapped(m, r) = {},
         NEW x, x = free_table(m, r),
         NEW o, o = [f \in Frames |-> IF own[f] = r THEN Nobody ELSE own[f]]
  PROVE  /\ Holds(x, o)
         /\ \A q \in Frames : own[q] = q /\ q # r => Mapped(x, q) = Mapped(m, q)
<1>1. PICK g : Tree(m, own, g) /\ Ok(m)
  BY DEF Holds
<1>a. own \in [Frames -> Owners] /\ g \in Places /\ NENT \in Nat
  BY <1>1, NENTAssumption DEF Tree, TreeType
<1>b. \A f \in Frames : /\ g.ix[f] \in Entries /\ g.ix[f] < NENT /\ g.lv[f] \in 1 .. 4
                        /\ g.up[f] \in Frames
  BY <1>a, NENTAssumption DEF Places, Entries
<1>2. Bare(own, g, r)
  BY <1>1, BareIs
<1>3. PICK y : y = LoopOf("top", r, NULL, m, NENT)
  OBVIOUS
<1>4. x = kfree(y, r)
  BY <1>3, TableLoop
<1>5. PICK o1 : o1 = OwnTop(own, g, r, NENT)
  OBVIOUS
<1>6. Ok(y) /\ Tree(y, o1, g)
  <2>1. NENT \in 0 .. NENT
    BY <1>a
  <2> QED BY <1>1, <1>2, <1>3, <1>5, <2>1, TopTree
<1>7. /\ o1 \in [Frames -> Owners]
      /\ \A f \in Frames : o1[f] = IF own[f] = r /\ g.lv[f] \in {2, 3} THEN Nobody ELSE own[f]
  BY <1>5, <1>a, <1>b DEF OwnTop, Owners
<1>8. y \in Mem /\ g.lv[r] = 1 /\ TreeFree(y, o1)
  BY <1>1, <1>6 DEF Tree, TreeType, TreeRoot
<1>9. o1[r] = r /\ r \notin y.free
  BY <1>7, <1>8, Numbers DEF TreeFree
<1>10. /\ x \in Mem /\ Ok(x) /\ x.free = y.free \cup {r}
       /\ x.ent = [y.ent EXCEPT ![r] = Zero]
  BY <1>4, <1>6, <1>8, <1>9, KfreeIs
<1>11. PICK o2 : o2 = [e \in Frames |-> IF e = r THEN Nobody
                                        ELSE IF o1[e] = r THEN Kernel ELSE o1[e]]
  OBVIOUS
<1>12. Tree(x, o2, g)
  BY <1>6, <1>9, <1>10, <1>11, DropTree
<1>13. o2 = o
  <2>1. ASSUME NEW e \in Frames
        PROVE  (IF e = r THEN Nobody ELSE IF o1[e] = r THEN Kernel ELSE o1[e])
               = IF own[e] = r THEN Nobody ELSE own[e]
    <3>1. own[e] = r => e = r \/ g.lv[e] \in {2, 3}
      <4>1. own[e] = r /\ g.lv[e] = 1 => e = r
        BY <1>1 DEF Tree, TreeRoot
      <4>2. own[e] = r => g.lv[e] # 4
        BY <1>2 DEF Bare
      <4>3. g.lv[e] \in 1 .. 4
        BY <1>b
      <4> QED BY <4>1, <4>2, <4>3
    <3> QED BY <3>1, <1>7, Numbers
  <2> QED BY <1>11, <2>1
<1>14. Holds(x, o)
  BY <1>10, <1>12, <1>13 DEF Holds
<1>15. ASSUME NEW q \in Frames, own[q] = q, q # r
       PROVE  Mapped(x, q) = Mapped(m, q)
  <2>1. \A e \in Frames : o[e] = q <=> own[e] = q
    BY <1>15, Numbers
  <2>2. \A f, vpn : PlacedAt(o, g, q, f, vpn) <=> PlacedAt(own, g, q, f, vpn)
    BY <2>1 DEF PlacedAt
  <2>3. SamePlaces(m, own, g, x, o, g, q)
    BY <1>1, <1>12, <1>13, <1>15, <2>1, <2>2 DEF SamePlaces
  <2> QED BY <2>3, MappedSame
<1> QED BY <1>14, <1>15

-----------------------------------------------------------------------------
(* Address spaces.                                                         *)

\* A size of whole pages, and one that leaves room for the stack.
Room(size) == size \in Nat /\ USER + Pages(size) <= USTACK

\* A number of bytes takes a number of pages.
LEMMA PagesType ==
  ASSUME NEW size \in Nat
  PROVE  Pages(size) \in Nat
<1>1. PAGESIZE \in Nat \ {0} /\ size + PAGESIZE - 1 \in Nat
  BY NENTAssumption
<1> QED BY <1>1, Quotient DEF Pages

\* More bytes take no fewer pages.
LEMMA PagesMono ==
  ASSUME NEW a \in Nat, NEW b \in Nat, a <= b
  PROVE  Pages(a) <= Pages(b)
<1>1. PICK P \in Nat \ {0} : P = PAGESIZE
  BY NENTAssumption
<1>2. PICK x \in Nat : x = a + P - 1
  BY <1>1
<1>3. PICK y \in Nat : y = b + P - 1
  BY <1>1
<1>4. PICK c \in Nat : c = x \div P /\ x = P * c + (x % P) /\ x % P \in 0 .. P - 1
  BY <1>1, <1>2, Quotient
<1>5. PICK d \in Nat : d = y \div P /\ y = P * d + (y % P) /\ y % P \in 0 .. P - 1
  BY <1>1, <1>3, Quotient
<1>6. x <= y
  BY <1>1, <1>2, <1>3
<1>7. PICK v \in 0 .. P - 1 : x = P * c + v
  BY <1>4
<1>8. PICK w \in 0 .. P - 1 : y = P * d + w
  BY <1>5
<1>9. c <= d
  <2>1. SUFFICES ASSUME c >= d + 1 PROVE FALSE
    BY <1>4, <1>5
  <2>2. P * c >= P * (d + 1) /\ P * (d + 1) = P * d + P
    BY <1>1, <1>4, <1>5, <2>1, Z3
  <2> QED BY <1>1, <1>4, <1>5, <1>6, <1>7, <1>8, <2>2
<1> QED BY <1>1, <1>2, <1>3, <1>4, <1>5, <1>9 DEF Pages

\* There are addresses up to the stack.
LEMMA StackPage ==
  /\ USTACK \in Int
  /\ \A v \in Nat : v <= USTACK => v \in Vpns
<1>1. PICK T \in Nat : T = NENT * NENT * NENT
  <2>1. PICK N \in Nat : N = NENT
    BY NENTAssumption
  <2>2. N * N * N \in Nat
    OBVIOUS
  <2> QED BY <2>1, <2>2
<1>2. USTACK = T - 2 /\ Vpns = 0 .. T - 1
  BY <1>1 DEF USTACK, Vpns
<1> QED BY <1>1, <1>2

\* The pages of a space that leaves room are addresses, and the stack is apart.
LEMMA RoomFacts ==
  ASSUME NEW size, Room(size)
  PROVE  /\ Pages(size) \in Nat /\ USER \in Nat /\ USTACK \in Nat /\ USTACK \in Vpns
         /\ \A k \in 0 .. Pages(size) - 1 : USER + k \in Vpns /\ USER + k # USTACK
         /\ USTACK \notin USER .. USER + Pages(size) - 1
         /\ \A k \in 0 .. Pages(size) - 1 : USER + k \in USER .. USER + Pages(size) - 1
<1>1. PICK n \in Nat : n = Pages(size)
  BY PagesType DEF Room
<1>2. USER = 1 /\ USTACK \in Int
  BY StackPage DEF USER
<1>3. 1 + n <= USTACK
  BY <1>1, <1>2 DEF Room
<1>4. USTACK \in Nat
  BY <1>2, <1>3
<1> QED BY <1>1, <1>2, <1>3, <1>4, StackPage

\* The first process leaves room.
LEMMA BootRoom == Room(InitSize)
BY RoomAssumption DEF Room, InitSize

\* A space r that maps S; frames have gone to A at most; the others map what they did.
SpaceMade(m, own, x, o, r, A, S) ==
    /\ Holds(x, o) /\ Grows(own, o, A)
    /\ \A q \in Frames : own[q] = q => Mapped(x, q) = IF q = r THEN S ELSE Mapped(m, q)

\* Whole pages, n of them from page b on, where nothing is mapped and below the stack.
Fits(m, r, va, memsz, b, n) ==
    /\ va \in Nat /\ memsz \in Nat /\ b = va \div PAGESIZE /\ n = Pages(memsz)
    /\ va % PAGESIZE = 0 \/ memsz = 0
    /\ b + n <= USTACK /\ (b .. b + n - 1) \cap Mapped(m, r) = {}

\* alloc_userspace() of such pages
LEMMA AllocSpace ==
  ASSUME NEW m, NEW own, Holds(m, own), NEW r \in Frames, own[r] = r,
         NEW va, NEW memsz, NEW b, NEW n, Fits(m, r, va, memsz, b, n),
         NEW x, x = alloc_userspace(m, r, va, memsz)
  PROVE  \/ x.st = "oom"
         \/ \E o : SpaceMade(m, own, x, o, r, {r}, Mapped(m, r) \cup b .. b + n - 1)
<1>0. SUFFICES ASSUME x.st # "oom"
               PROVE  \E o : SpaceMade(m, own, x, o, r, {r}, Mapped(m, r) \cup b .. b + n - 1)
  OBVIOUS
<1>1. b \in Nat /\ n \in Nat
  <2>1. va \in Nat /\ memsz \in Nat /\ b = va \div PAGESIZE /\ n = Pages(memsz)
    BY DEF Fits
  <2>2. PAGESIZE \in Nat \ {0}
    BY NENTAssumption
  <2> QED BY <2>1, <2>2, PagesType, Quotient
<1>2. x = LoopOf("map", r, b, m, n)
  BY AllocLoop DEF Fits
<1>3. \A k \in 0 .. n - 1 : b + k \in Vpns /\ b + k \notin Mapped(m, r)
  BY <1>1, StackPage DEF Fits
<1>4. PICK o : MappedRun(m, own, x, o, r, {r}, b, n)
  BY <1>0, <1>1, <1>2, <1>3, MapPages
<1>5. SpaceMade(m, own, x, o, r, {r}, Mapped(m, r) \cup b .. b + n - 1)
  BY <1>4 DEF MappedRun, SpaceMade
<1> QED BY <1>5

\* The stack is mapped where it is not.
LEMMA StackSpace ==
  ASSUME NEW m, NEW own, Holds(m, own), NEW r \in Frames, own[r] = r, USTACK \in Vpns,
         USTACK \notin Mapped(m, r), NEW x, x = map_ustack(m, r)
  PROVE  x.st = "oom" \/ \E o : SpaceMade(m, own, x, o, r, {r}, Mapped(m, r) \cup {USTACK})
<1>0. SUFFICES ASSUME x.st # "oom"
               PROVE  \E o : SpaceMade(m, own, x, o, r, {r}, Mapped(m, r) \cup {USTACK})
  OBVIOUS
<1>1. PICK o : MappedOne(m, own, x, o, r, {r}, USTACK)
  BY <1>0, MapNewTree DEF map_ustack
<1>2. SpaceMade(m, own, x, o, r, {r}, Mapped(m, r) \cup {USTACK})
  BY <1>1 DEF MappedOne, SpaceMade
<1> QED BY <1>2

\* Two steps that make a space.
LEMMA SpaceTrans ==
  ASSUME NEW m, NEW own, NEW y, NEW o, NEW x, NEW o2, NEW r \in Frames,
         NEW A \in SUBSET Frames, NEW S, NEW T,
         SpaceMade(m, own, y, o, r, A, S), SpaceMade(y, o, x, o2, r, A, T)
  PROVE  SpaceMade(m, own, x, o2, r, A, T)
<1>1. Grows(own, o, A) /\ Grows(o, o2, A) /\ Holds(x, o2)
  BY DEF SpaceMade
<1>2. Grows(own, o2, A)
  <2>1. Grows(own, o2, A \cup A)
    BY <1>1, GrowsTrans
  <2>2. A \cup A = A
    OBVIOUS
  <2> QED BY <2>1, <2>2
<1>3. \A q \in Frames : own[q] = q => o[q] = q
  BY <1>1, GrowsRoot
<1>4. ASSUME NEW q \in Frames, own[q] = q
      PROVE  Mapped(x, q) = IF q = r THEN T ELSE Mapped(m, q)
  <2>1. Mapped(y, q) = IF q = r THEN S ELSE Mapped(m, q)
    BY <1>4 DEF SpaceMade
  <2>2. Mapped(x, q) = IF q = r THEN T ELSE Mapped(y, q)
    BY <1>3, <1>4 DEF SpaceMade
  <2> QED BY <2>1, <2>2
<1> QED BY <1>1, <1>2, <1>4 DEF SpaceMade

\* A space is filled: the program from page 1 on, and the stack.
LEMMA FillSpace ==
  ASSUME NEW m, NEW own, Holds(m, own), NEW r \in Frames, own[r] = r, Mapped(m, r) = {},
         NEW size, Room(size), NEW x, x = map_ustack(init_userspace(m, r, size), r)
  PROVE  x.st = "oom" \/ \E o : SpaceMade(m, own, x, o, r, {r}, Region(size))
<1>0. SUFFICES ASSUME x.st # "oom" PROVE \E o : SpaceMade(m, own, x, o, r, {r}, Region(size))
  OBVIOUS
<1>1. PICK va : va = USER * PAGESIZE
  OBVIOUS
<1>2. PICK y : y = alloc_userspace(m, r, va, size)
  OBVIOUS
<1>a. x = map_ustack(y, r)
  BY <1>1, <1>2 DEF init_userspace
<1>b. y.st # "oom"
  BY <1>0, <1>a, Dead DEF map_ustack
<1>3. PICK n \in Nat : n = Pages(size)
  BY RoomFacts
<1>c. va \in Nat /\ va % PAGESIZE = 0 /\ va \div PAGESIZE = USER
  <2>1. PICK P \in Nat \ {0} : P = PAGESIZE
    BY NENTAssumption
  <2>2. va = P
    BY <1>1, <2>1 DEF USER
  <2>3. P % P = 0 /\ P \div P = 1
    BY <2>1, Z3
  <2> QED BY <2>1, <2>2, <2>3 DEF USER
<1>d. Fits(m, r, va, size, USER, n)
  BY <1>3, <1>c DEF Fits, Room
<1>e. PICK o1 : SpaceMade(m, own, y, o1, r, {r}, Mapped(m, r) \cup USER .. USER + n - 1)
  BY <1>2, <1>b, <1>d, AllocSpace
<1>f. Mapped(m, r) \cup USER .. USER + n - 1 = USER .. USER + Pages(size) - 1
  BY <1>3
<1>4. Holds(y, o1) /\ o1[r] = r /\ Mapped(y, r) = USER .. USER + Pages(size) - 1
  BY <1>e, <1>f, GrowsRoot DEF SpaceMade
<1>5. USTACK \in Vpns /\ USTACK \notin Mapped(y, r)
  BY <1>4, RoomFacts
<1>6. PICK o : SpaceMade(y, o1, x, o, r, {r}, Mapped(y, r) \cup {USTACK})
  BY <1>0, <1>a, <1>4, <1>5, StackSpace
<1>7. Mapped(y, r) \cup {USTACK} = Region(size)
  BY <1>4 DEF Region
<1>8. SpaceMade(y, o1, x, o, r, {r}, Region(size))
  BY <1>6, <1>7
<1>9. SpaceMade(m, own, x, o, r, {r}, Region(size))
  <2>1. {r} \in SUBSET Frames
    OBVIOUS
  <2> QED BY <1>e, <1>8, <2>1, SpaceTrans
<1> QED BY <1>9

\* grow_userspace(): the pages between the old size and the new one.
LEMMA GrowSpace ==
  ASSUME NEW m, NEW own, Holds(m, own), NEW r \in Frames, own[r] = r, NEW old, NEW new,
         Room(old), Room(new), old <= new, Mapped(m, r) = Region(old),
         NEW x, x = grow_userspace(m, r, old, new)
  PROVE  x.st = "oom" \/ \E o : SpaceMade(m, own, x, o, r, {r}, Region(new))
<1>0. SUFFICES ASSUME x.st # "oom" PROVE \E o : SpaceMade(m, own, x, o, r, {r}, Region(new))
  OBVIOUS
<1>1. PICK a \in Nat : a = Pages(old)
  BY RoomFacts
<1>2. PICK b \in Nat : b = Pages(new)
  BY RoomFacts
<1>3. a <= b
  BY <1>1, <1>2, PagesMono DEF Room
<1>4. PICK n \in Nat : n = b - a
  BY <1>1, <1>2, <1>3
<1>5. (IF b > a THEN b - a ELSE 0) = n
  BY <1>1, <1>2, <1>3, <1>4
<1>6. PICK c \in Nat : c = USER + a
  BY <1>1 DEF USER
<1>7. x = LoopOf("map", r, c, m, n)
  BY <1>1, <1>2, <1>5, <1>6, GrowLoop
<1>8. USER = 1 /\ USTACK \in Nat
  BY RoomFacts DEF USER
<1>9. 1 + b <= USTACK
  BY <1>2, <1>8 DEF Room
<1>10. Mapped(m, r) = {USTACK} \cup 1 .. a
  <2>1. 1 .. 1 + a - 1 = 1 .. a
    BY <1>1
  <2> QED BY <1>1, <1>8, <2>1 DEF Region
<1>11. \A k \in 0 .. n - 1 : c + k \in Vpns /\ c + k \notin Mapped(m, r)
  BY <1>1, <1>2, <1>3, <1>4, <1>6, <1>8, <1>9, <1>10, StackPage
<1>12. PICK o : MappedRun(m, own, x, o, r, {r}, c, n)
  BY <1>0, <1>7, <1>11, MapPages
<1>13. Mapped(m, r) \cup c .. c + n - 1 = Region(new)
  <2>1. 1 .. 1 + b - 1 = (1 .. a) \cup (c .. c + n - 1)
    BY <1>1, <1>2, <1>3, <1>4, <1>6, <1>8
  <2> QED BY <1>2, <1>8, <1>10, <2>1 DEF Region
<1>14. SpaceMade(m, own, x, o, r, {r}, Region(new))
  BY <1>12, <1>13 DEF MappedRun, SpaceMade
<1> QED BY <1>14

\* cp_userspace() into an empty space
LEMMA CopySpace ==
  ASSUME NEW m, NEW own, Holds(m, own), NEW r \in Frames, own[r] = r, Mapped(m, r) = {},
         NEW old \in Frames, own[old] = old, NEW size, Room(size),
         NEW x, x = cp_userspace(m, r, old, size)
  PROVE  x.st = "oom" \/ \E o : SpaceMade(m, own, x, o, r, {r, old}, Region(size))
<1>0. SUFFICES ASSUME x.st # "oom"
               PROVE  \E o : SpaceMade(m, own, x, o, r, {r, old}, Region(size))
  OBVIOUS
<1>1. PICK n \in Nat : n = Pages(size)
  BY RoomFacts
<1>2. PICK y : y = LoopOf("copy", r, old, m, n)
  OBVIOUS
<1>3. x = MapNew(pagewalk(y, old, USTACK), r, USTACK)
  BY <1>1, <1>2, CopyLoop
<1>4. \A k \in 0 .. n - 1 : USER + k \in Vpns /\ USER + k \notin Mapped(m, r)
  BY <1>1, RoomFacts
<1>5. y.st # "oom"
  BY <1>0, <1>3, Dead
<1>6. PICK o1 : MappedRun(m, own, y, o1, r, {r, old}, USER, n)
  BY <1>2, <1>4, <1>5, CopyPages
<1>7. SpaceMade(m, own, y, o1, r, {r, old}, USER .. USER + n - 1)
  BY <1>6 DEF MappedRun, SpaceMade
<1>8. /\ Holds(y, o1) /\ o1[r] = r /\ o1[old] = old
      /\ Mapped(y, r) = USER .. USER + n - 1
  BY <1>7, GrowsRoot DEF SpaceMade
<1>9. USTACK \in Vpns /\ USTACK \notin Mapped(y, r)
  BY <1>1, <1>8, RoomFacts
<1>10. PICK o : MappedOne(y, o1, x, o, r, {r, old}, USTACK)
  BY <1>0, <1>3, <1>8, <1>9, CopyOne
<1>11. Mapped(y, r) \cup {USTACK} = Region(size)
  BY <1>1, <1>8 DEF Region
<1>12. SpaceMade(y, o1, x, o, r, {r, old}, Region(size))
  BY <1>10, <1>11 DEF MappedOne, SpaceMade
<1>13. SpaceMade(m, own, x, o, r, {r, old}, Region(size))
  BY <1>7, <1>12, SpaceTrans
<1> QED BY <1>13

\* Nor do the loops.
LEMMA DeadLoop ==
  ASSUME NEW m, m.st = "oom", NEW op, NEW a, NEW b, NEW n \in Nat, op \notin {"load", "sum"}
  PROVE  LoopOf(op, a, b, m, n) = m
<1> DEFINE At(k) == LoopOf(op, a, b, m, k)
           Bad == {k \in Nat : At(k) # m}
<1> SUFFICES ASSUME n \in Bad PROVE FALSE
  OBVIOUS
<1>1. PICK k \in Bad : \A j \in Bad : k <= j
  BY Least
<1>2. At(0) = m /\ \A j \in Nat : At(j + 1) = Body(op, a, b, At(j), j)
  BY LoopStep
<1>3. k \in Nat /\ k # 0
  BY <1>2
<1>4. k - 1 \in Bad => k <= k - 1
  BY <1>1
<1> HIDE DEF Bad
<1>5. PICK j \in Nat : j = k - 1 /\ j + 1 = k /\ j \notin Bad
  BY <1>3, <1>4
<1> HIDE DEF At
<1>6. At(j) = m
  BY <1>5 DEF Bad
<1>7. Body(op, a, b, m, j) = m
  <2>1. \A r, v : pagewalk(m, r, v) = m /\ MapNew(m, r, v) = m /\ pageunmap(m, r, v) = m
    BY Dead
  <2>2. ~Ok(m)
    BY DEF Ok
  <2> QED BY <2>1, <2>2 DEF Body
<1>8. At(k) = m
  BY <1>2, <1>5, <1>6, <1>7
<1> QED BY <1>8 DEF Bad

\* Nor do the operations on a space.
LEMMA DeadSpace ==
  ASSUME NEW m, m.st = "oom"
  PROVE  /\ kalloc(m) = m
         /\ \A r : kfree(m, r) = m /\ free_table(m, r) = m /\ map_ustack(m, r) = m
         /\ \A r, va : \A size \in Nat : alloc_userspace(m, r, va, size) = m
         /\ \A r : \A size \in Nat : free_userspace(m, r, size) = m
         /\ \A r, old : \A size \in Nat : cp_userspace(m, r, old, size) = m
<1>0. ~Ok(m) /\ NENT \in Nat
  BY NENTAssumption DEF Ok
<1>1. kalloc(m) = m /\ \A r : kfree(m, r) = m
  BY <1>0 DEF kalloc, kfree
<1>2. \A r : map_ustack(m, r) = m
  BY Dead DEF map_ustack
<1>3. ASSUME NEW r PROVE free_table(m, r) = m
  <2>1. LoopOf("top", r, NULL, m, NENT) = m
    BY <1>0, DeadLoop
  <2> QED BY <1>1, <2>1, TableLoop
<1>a. ASSUME NEW r, NEW va, NEW size \in Nat
      PROVE  alloc_userspace(m, r, va, size) = m
  <2>1. PICK n \in Nat : n = Pages(size)
    BY PagesType
  <2>2. LoopOf("map", r, va \div PAGESIZE, m, n) = m
    BY DeadLoop
  <2>3. CASE va % PAGESIZE = 0 \/ size = 0
    BY <2>1, <2>2, <2>3, AllocLoop
  <2>4. CASE ~(va % PAGESIZE = 0 \/ size = 0)
    BY <2>4, <1>0, <1>1 DEF alloc_userspace
  <2> QED BY <2>3, <2>4
<1>4. ASSUME NEW r, NEW size \in Nat
      PROVE  free_userspace(m, r, size) = m
  <2>1. PICK n \in Nat : n = Pages(size)
    BY PagesType
  <2>3. LoopOf("unmap", r, NULL, m, n) = m
    BY DeadLoop
  <2>4. pageunmap(m, r, USTACK) = m
    BY Dead
  <2> QED BY <2>1, <2>3, <2>4, <1>3, UnmapLoop
<1>5. ASSUME NEW r, NEW old, NEW size \in Nat PROVE cp_userspace(m, r, old, size) = m
  <2>1. PICK n \in Nat : n = Pages(size)
    BY PagesType
  <2>2. LoopOf("copy", r, old, m, n) = m
    BY DeadLoop
  <2>3. MapNew(pagewalk(m, old, USTACK), r, USTACK) = m
    BY Dead
  <2> QED BY <2>1, <2>2, <2>3, CopyLoop
<1> QED BY <1>1, <1>2, <1>3, <1>a, <1>4, <1>5

\* free_userspace() gives back every frame of the space.
LEMMA FreeSpace ==
  ASSUME NEW m, NEW own, Holds(m, own), NEW r \in Frames, own[r] = r,
         NEW size, Room(size), Mapped(m, r) = Region(size),
         NEW x, x = free_userspace(m, r, size),
         NEW o, o = [f \in Frames |-> IF own[f] = r THEN Nobody ELSE own[f]]
  PROVE  \/ x.st = "oom"
         \/ /\ Holds(x, o)
            /\ \A q \in Frames : own[q] = q /\ q # r => Mapped(x, q) = Mapped(m, q)
<1>0. SUFFICES ASSUME x.st # "oom"
               PROVE  /\ Holds(x, o)
                      /\ \A q \in Frames : own[q] = q /\ q # r => Mapped(x, q) = Mapped(m, q)
  OBVIOUS
<1>a. own \in [Frames -> Owners]
  BY DEF Holds, Tree, TreeType
<1>1. PICK n \in Nat : n = Pages(size)
  BY RoomFacts
<1>2. PICK y : y = LoopOf("unmap", r, NULL, m, n)
  OBVIOUS
<1>3. PICK z : z = pageunmap(y, r, USTACK)
  OBVIOUS
<1>4. x = free_table(z, r)
  BY <1>1, <1>2, <1>3, UnmapLoop
<1>5. z.st # "oom"
  BY <1>0, <1>4, DeadSpace
<1>6. y.st # "oom"
  BY <1>3, <1>5, Dead
<1>7. \A k \in 0 .. n - 1 : USER + k \in Vpns /\ USER + k \in Mapped(m, r)
  BY <1>1, RoomFacts DEF Region
<1>8. PICK o1 : UnmappedRun(m, own, y, o1, r, n)
  BY <1>2, <1>6, <1>7, UnmapPages
<1>9. Holds(y, o1) /\ o1[r] = r /\ Within(own, o1, r) /\ Mapped(y, r) = {USTACK}
  <2>1. Mapped(y, r) = Mapped(m, r) \ (USER .. USER + n - 1)
    BY <1>8 DEF UnmappedRun
  <2>2. Mapped(y, r) = {USTACK}
    BY <1>1, <2>1, RoomFacts DEF Region
  <2> QED BY <1>8, <2>2 DEF UnmappedRun
<1>10. USTACK \in Vpns
  BY RoomFacts
<1>11. PICK o2 : UnmappedOne(y, o1, z, o2, r, USTACK)
  BY <1>3, <1>5, <1>9, <1>10, UnmapTree
<1>12. Holds(z, o2) /\ o2[r] = r /\ Within(o1, o2, r) /\ Mapped(z, r) = {}
  BY <1>9, <1>11 DEF UnmappedOne
<1>13. PICK o3 : o3 = [f \in Frames |-> IF o2[f] = r THEN Nobody ELSE o2[f]]
  OBVIOUS
<1>14. /\ Holds(x, o3)
       /\ \A q \in Frames : o2[q] = q /\ q # r => Mapped(x, q) = Mapped(z, q)
  BY <1>4, <1>12, <1>13, FreeTable
<1>15. \A f \in Frames : (IF o2[f] = r THEN Nobody ELSE o2[f])
                         = IF own[f] = r THEN Nobody ELSE own[f]
  <2>1. \A f \in Frames : o1[f] = own[f] \/ (own[f] \in {Nobody, r} /\ o1[f] \in {Nobody, r})
    BY <1>9 DEF Within
  <2>2. \A f \in Frames : o2[f] = o1[f] \/ (o1[f] \in {Nobody, r} /\ o2[f] \in {Nobody, r})
    BY <1>12 DEF Within
  <2> QED BY <2>1, <2>2
<1>16. o3 = o
  BY <1>13, <1>15
<1>17. ASSUME NEW q \in Frames, own[q] = q, q # r
       PROVE  Mapped(x, q) = Mapped(m, q)
  <2>1. o1[q] = q
    BY <1>9, <1>17, Numbers DEF Within
  <2>2. o2[q] = q
    BY <1>12, <1>17, <2>1, Numbers DEF Within
  <2>3. Mapped(y, q) = Mapped(m, q)
    BY <1>8, <1>17 DEF UnmappedRun
  <2>4. Mapped(z, q) = Mapped(y, q)
    BY <1>11, <1>17, <2>1 DEF UnmappedOne
  <2>5. Mapped(x, q) = Mapped(z, q)
    BY <1>14, <1>17, <2>2
  <2> QED BY <2>3, <2>4, <2>5
<1> QED BY <1>14, <1>16, <1>17

-----------------------------------------------------------------------------
(* A new space, next to those there are.                                   *)

\* Frame r has been taken and cleared, for the kernel.
Took(m, own, k, o, r) ==
    /\ Holds(k, o) /\ r \in Frames /\ own[r] = Nobody /\ o[r] = Kernel
    /\ \A e \in Frames : e # r => o[e] = own[e]
    /\ k.ent[r] = Zero
    /\ \A q \in Frames : own[q] = q => Mapped(k, q) = Mapped(m, q)

\* kalloc() takes a frame.
LEMMA TakeFrame ==
  ASSUME NEW m, NEW own, Holds(m, own), NEW k, k = kalloc(m), k.st # "oom"
  PROVE  \E o : Took(m, own, k, o, k.r)
<1>0. PICK o : o = [own EXCEPT ![k.r] = Kernel]
  OBVIOUS
<1>1. PICK g : Tree(m, own, g) /\ Ok(m)
  BY DEF Holds
<1>2. Given(m, own, g, k)
  BY <1>1, KallocTree
<1>3. \A q \in Frames : own[q] = q => Mapped(k, q) = Mapped(m, q)
  BY <1>0, <1>1, <1>2, GivenMapped
<1>4. own \in [Frames -> Owners]
  BY <1>1 DEF Tree, TreeType
<1>5. Took(m, own, k, o, k.r)
  BY <1>0, <1>2, <1>3, <1>4 DEF Given, Holds, Took
<1> QED BY <1>5

\* Frame r has been taken and cleared for a table, those in K for the kernel.
Began(m, own, y, o, r, K) ==
    /\ Holds(y, o) /\ r \in Frames /\ own[r] = Nobody /\ o[r] = Kernel /\ y.ent[r] = Zero
    /\ K \subseteq Frames /\ r \notin K
    /\ \A e \in Frames : e # r /\ e \notin K => o[e] = own[e]
    /\ \A e \in K : own[e] = Nobody /\ o[e] = Kernel
    /\ \A q \in Frames : own[q] = q => Mapped(y, q) = Mapped(m, q)

\* The table of exec()
LEMMA TableTaken ==
  ASSUME NEW m, NEW own, Holds(m, own), NEW k, k = kalloc(m), k.st # "oom"
  PROVE  \E o : Began(m, own, k, o, k.r, {})
<1>1. PICK o : Took(m, own, k, o, k.r)
  BY TakeFrame
<1>2. Began(m, own, k, o, k.r, {})
  BY <1>1 DEF Began, Took
<1> QED BY <1>2

\* newproc(): a kernel stack and a table
LEMMA NewProc ==
  ASSUME NEW m, NEW own, Holds(m, own), NEW n, n = newproc(m), n.m.st # "oom"
  PROVE  \E o : Began(m, own, n.m, o, n.pgt, {n.kstack})
<1>1. PICK k : k = kalloc(m)
  OBVIOUS
<1>2. PICK t : t = kalloc(k)
  OBVIOUS
<1>3. n.m = t /\ n.kstack = k.r /\ n.pgt = t.r
  BY <1>1, <1>2 DEF newproc
<1>4. k.st # "oom"
  BY <1>2, <1>3, DeadSpace
<1>5. PICK o1 : Took(m, own, k, o1, k.r)
  BY <1>1, <1>4, TakeFrame
<1>7. /\ Holds(k, o1) /\ k.r \in Frames /\ own[k.r] = Nobody /\ o1[k.r] = Kernel
      /\ \A e \in Frames : e # k.r => o1[e] = own[e]
      /\ \A q \in Frames : own[q] = q => Mapped(k, q) = Mapped(m, q)
  BY <1>5 DEF Took
<1>6. PICK o : Took(k, o1, t, o, t.r)
  BY <1>2, <1>3, <1>7, TakeFrame
<1>8. /\ Holds(t, o) /\ t.r \in Frames /\ o1[t.r] = Nobody /\ o[t.r] = Kernel
      /\ \A e \in Frames : e # t.r => o[e] = o1[e]
      /\ t.ent[t.r] = Zero
      /\ \A q \in Frames : o1[q] = q => Mapped(t, q) = Mapped(k, q)
  BY <1>6 DEF Took
<1>9. k.r # t.r /\ own[t.r] = Nobody /\ o[k.r] = Kernel
  BY <1>7, <1>8, Numbers
<1>10. \A q \in Frames : own[q] = q => Mapped(t, q) = Mapped(m, q)
  <2>1. \A q \in Frames : own[q] = q => o1[q] = q
    BY <1>7, Numbers
  <2> QED BY <2>1, <1>7, <1>8
<1>11. Began(m, own, t, o, t.r, {k.r})
  BY <1>7, <1>8, <1>9, <1>10 DEF Began
<1> QED BY <1>3, <1>11

\* Frame r is the root of an empty space.
Root(y, o1, o, r) ==
    /\ Holds(y, o) /\ r \in Frames /\ o[r] = r /\ Mapped(y, r) = {}
    /\ \A e \in Frames : e # r => o[e] = o1[e]

\* The table becomes one.
LEMMA Rooted ==
  ASSUME NEW m, NEW own, NEW y, NEW o1, NEW r, NEW K, Began(m, own, y, o1, r, K)
  PROVE  \E o : Root(y, o1, o, r)
<1>0. PICK o : o = [o1 EXCEPT ![r] = r]
  OBVIOUS
<1>1. PICK g : Tree(y, o1, g) /\ Ok(y)
  BY DEF Began, Holds
<1>2. r \in Frames /\ o1[r] = Kernel /\ y.ent[r] = Zero
  BY DEF Began
<1>3. PICK h \in Places : h.lv = [g.lv EXCEPT ![r] = 1] /\ h.up = g.up /\ h.ix = g.ix
  <2>1. [lv |-> [g.lv EXCEPT ![r] = 1], up |-> g.up, ix |-> g.ix] \in Places
    BY <1>1, <1>2 DEF Tree, TreeType, Places
  <2> QED BY <2>1
<1>a. Rooting(o1, g, r, o, h)
  BY <1>0, <1>2, <1>3 DEF Rooting
<1>b. o1 \in [Frames -> Owners]
  BY <1>1 DEF Tree, TreeType
<1>4. Tree(y, o, h) /\ o[r] = r /\ \A e \in Frames : e # r => o[e] = o1[e]
  BY <1>0, <1>1, <1>2, <1>a, <1>b, RootTree
<1>5. Mapped(y, r) = {}
  <2>1. SUFFICES ASSUME NEW vpn \in Vpns PROVE FrameAt(y, r, vpn) = NULL
    BY DEF Mapped
  <2>2. PIDX(1, vpn) \in Entries
    BY PidxType
  <2>3. EntryAt(y, r, PIDX(1, vpn)) = NULL
    BY <1>2, <2>2, EntryFacts, Numbers DEF EntryAt
  <2> QED BY <2>3 DEF FrameAt, EntryAt
<1>6. Root(y, o1, o, r)
  BY <1>1, <1>2, <1>4, <1>5 DEF Holds, Root
<1> QED BY <1>6

\* Space r is new and maps S; other frames have gone to the kernel, in K, or to the
\* spaces in A.
Added(m, own, x, o, r, K, A, S) ==
    /\ Holds(x, o) /\ r \in Frames /\ own[r] = Nobody /\ o[r] = r /\ Mapped(x, r) = S
    /\ \A e \in Frames : own[e] # Nobody => o[e] = own[e]
    /\ \A e \in Frames : own[e] = Nobody => o[e] \in A \cup {Nobody} \/ e \in K
    /\ \A e \in K : e \in Frames /\ own[e] = Nobody
    /\ \A e \in Frames : o[e] = Kernel <=> own[e] = Kernel \/ e \in K
    /\ \A e \in Frames : o[e] = e => own[e] = e \/ e = r
    /\ \A q \in Frames : own[q] = q => Mapped(x, q) = Mapped(m, q)

\* A space that is made in the empty one is new.
LEMMA SpaceAdded ==
  ASSUME NEW m, NEW own, NEW y, NEW o1, NEW r, NEW K, Began(m, own, y, o1, r, K),
         NEW o2, Root(y, o1, o2, r), NEW x, NEW o, NEW A \in SUBSET Frames, NEW S, r \in A,
         SpaceMade(y, o2, x, o, r, A, S), \A a \in A : a = r \/ own[a] = a
  PROVE  Added(m, own, x, o, r, K, A, S)
<1>1. /\ Holds(y, o2) /\ r \in Frames /\ o2[r] = r
      /\ \A e \in Frames : e # r => o2[e] = o1[e]
  BY DEF Root
<1>2. /\ own[r] = Nobody /\ K \subseteq Frames /\ r \notin K
      /\ \A e \in Frames : e # r /\ e \notin K => o1[e] = own[e]
      /\ \A e \in K : own[e] = Nobody /\ o1[e] = Kernel
      /\ \A q \in Frames : own[q] = q => Mapped(y, q) = Mapped(m, q)
  BY DEF Began
<1>3. /\ Holds(x, o)
      /\ \A e \in Frames : o[e] = o2[e] \/ (o2[e] = Nobody /\ o[e] \in A)
      /\ \A q \in Frames : o2[q] = q => Mapped(x, q) = IF q = r THEN S ELSE Mapped(y, q)
  BY DEF SpaceMade, Grows
<1>4. \A e \in Frames : \/ e = r /\ o2[e] = r
                        \/ e # r /\ e \in K /\ own[e] = Nobody /\ o2[e] = Kernel
                        \/ e # r /\ e \notin K /\ o2[e] = own[e]
  BY <1>1, <1>2
<1>5. \A e \in Frames : own[e] # Nobody => o[e] = own[e] /\ o2[e] = own[e] /\ e # r
  BY <1>2, <1>3, <1>4
<1>6. o[r] = r /\ Mapped(x, r) = S
  BY <1>1, <1>3, Numbers
<1>7. \A e \in Frames : own[e] = Nobody => o[e] \in A \cup {Nobody} \/ e \in K
  BY <1>1, <1>3, <1>4, Numbers
<1>8. \A e \in Frames : o[e] = Kernel <=> own[e] = Kernel \/ e \in K
  BY <1>1, <1>2, <1>3, <1>4, Numbers
<1>9. \A e \in Frames : o[e] = e => own[e] = e \/ e = r
  BY <1>1, <1>3, <1>4, Numbers
<1>10. \A q \in Frames : own[q] = q => Mapped(x, q) = Mapped(m, q)
  BY <1>2, <1>3, <1>5, Numbers
<1> QED BY <1>1, <1>2, <1>3, <1>5, <1>6, <1>7, <1>8, <1>9, <1>10 DEF Added

\* Space f is given up: its root is free or lost, its other frames are lost.
Dropped(m, own, x, o, f) ==
    /\ Holds(x, o) /\ o[f] \in {Nobody, Kernel}
    /\ \A e \in Frames : e # f => o[e] = IF own[e] = f THEN Kernel ELSE own[e]
    /\ \A q \in Frames : own[q] = q /\ q # f => Mapped(x, q) = Mapped(m, q)

\* kfree() of the root of a space
LEMMA DropRoot ==
  ASSUME NEW m, NEW own, Holds(m, own), NEW f \in Frames, own[f] = f, NEW x, x = kfree(m, f)
  PROVE  \E o : Dropped(m, own, x, o, f)
<1>1. PICK g : Tree(m, own, g) /\ Ok(m)
  BY DEF Holds
<1>2. PICK o : o = [e \in Frames |-> IF e = f THEN Nobody
                                     ELSE IF own[e] = f THEN Kernel ELSE own[e]]
  OBVIOUS
<1>3. m \in Mem /\ f \notin m.free
  BY <1>1, Numbers DEF Tree, TreeType, TreeFree
<1>4. x \in Mem /\ Ok(x) /\ x.free = m.free \cup {f} /\ x.ent = [m.ent EXCEPT ![f] = Zero]
  BY <1>1, <1>3, KfreeIs
<1>5. Tree(x, o, g)
  BY <1>1, <1>2, <1>4, DropTree
<1>6. o[f] = Nobody /\ \A e \in Frames : e # f => o[e] = IF own[e] = f THEN Kernel ELSE own[e]
  BY <1>2
<1>7. ASSUME NEW q \in Frames, own[q] = q, q # f
      PROVE  Mapped(x, q) = Mapped(m, q)
  <2>1. o[q] = q
    BY <1>6, <1>7
  <2>2. \A v, vpn : PlacedAt(o, g, q, v, vpn) <=> PlacedAt(own, g, q, v, vpn)
    BY <1>6, <1>7, Numbers DEF PlacedAt
  <2>3. SamePlaces(m, own, g, x, o, g, q)
    BY <1>1, <1>5, <1>7, <2>1, <2>2 DEF SamePlaces
  <2> QED BY <2>3, MappedSame
<1>8. Dropped(m, own, x, o, f)
  BY <1>4, <1>5, <1>6, <1>7 DEF Dropped, Holds
<1> QED BY <1>8

\* Nothing is done with a space any more.
LEMMA LoseRoot ==
  ASSUME NEW m, NEW own, Holds(m, own), NEW f \in Frames, own[f] = f
  PROVE  \E o : Dropped(m, own, m, o, f)
<1>1. PICK g : Tree(m, own, g) /\ Ok(m)
  BY DEF Holds
<1>2. PICK o : o = [e \in Frames |-> IF own[e] = f THEN Kernel ELSE own[e]]
  OBVIOUS
<1>3. Tree(m, o, g)
  BY <1>1, <1>2, LoseTree
<1>4. o[f] = Kernel /\ \A e \in Frames : o[e] = IF own[e] = f THEN Kernel ELSE own[e]
  BY <1>2
<1>5. Dropped(m, own, m, o, f)
  BY <1>1, <1>3, <1>4 DEF Dropped, Holds
<1> QED BY <1>5

\* A frame of the kernel is free.
Returned(m, own, x, o, f) ==
    /\ Holds(x, o) /\ o[f] = Nobody /\ \A e \in Frames : e # f => o[e] = own[e]
    /\ \A q \in Frames : own[q] = q => Mapped(x, q) = Mapped(m, q)

\* kfree() of a kernel stack
LEMMA ReturnFrame ==
  ASSUME NEW m, NEW own, Holds(m, own), NEW f \in Frames, own[f] = Kernel, NEW x, x = kfree(m, f)
  PROVE  \E o : Returned(m, own, x, o, f)
<1>1. PICK g : Tree(m, own, g) /\ Ok(m)
  BY DEF Holds
<1>2. PICK o : o = [own EXCEPT ![f] = Nobody]
  OBVIOUS
<1>3. m \in Mem /\ f \notin m.free /\ own \in [Frames -> Owners]
  BY <1>1, Numbers DEF Tree, TreeType, TreeFree
<1>4. x \in Mem /\ Ok(x) /\ x.free = m.free \cup {f} /\ x.ent = [m.ent EXCEPT ![f] = Zero]
  BY <1>1, <1>3, KfreeIs
<1>5. Tree(x, o, g)
  BY <1>1, <1>2, <1>4, ReturnTree
<1>6. o[f] = Nobody /\ \A e \in Frames : e # f => o[e] = own[e]
  BY <1>2, <1>3
<1>7. ASSUME NEW q \in Frames, own[q] = q
      PROVE  Mapped(x, q) = Mapped(m, q)
  <2>1. o[q] = q
    BY <1>6, <1>7, Numbers
  <2>2. \A v, vpn : PlacedAt(o, g, q, v, vpn) <=> PlacedAt(own, g, q, v, vpn)
    BY <1>6, <1>7, Numbers DEF PlacedAt
  <2>3. SamePlaces(m, own, g, x, o, g, q)
    BY <1>1, <1>5, <1>7, <2>1, <2>2 DEF SamePlaces
  <2> QED BY <2>3, MappedSame
<1>8. Returned(m, own, x, o, f)
  BY <1>4, <1>5, <1>6, <1>7 DEF Returned, Holds
<1> QED BY <1>8

\* The owners tell which frames are free.
LEMMA HoldsFree ==
  ASSUME NEW m, NEW own, Holds(m, own)
  PROVE  /\ \A f \in Frames : f \in m.free <=> own[f] = Nobody
         /\ m.free \subseteq Frames /\ own \in [Frames -> Owners]
         /\ \A f \in Frames : own[f] \in Frames => own[own[f]] = own[f]
BY DEF Holds, Tree, TreeType, TreeFree, TreeRoot, Mem

-----------------------------------------------------------------------------
(* The processes and their spaces.                                         *)

\* A slot of the process table.
Slot == [state : {"unused", "live", "zombie"}, pgt : Frames \cup {NULL}, size : Nat,
         kstack : Frames \cup {NULL}, th : BOOLEAN]

\* A process has a space that maps what its size says, and no more unless it is a
\* thread.
InSpace(m, own, s) ==
    /\ s.pgt \in Frames /\ own[s.pgt] = s.pgt
    /\ Room(s.size) /\ Region(s.size) \subseteq Mapped(m, s.pgt)
    /\ ~s.th => Mapped(m, s.pgt) = Region(s.size)

\* Processes that are not threads do not share a space.
Apart(pr) ==
    \A p, q \in Procs :
        /\ pr[p].state = "live" /\ ~pr[p].th /\ pr[q].state = "live" /\ ~pr[q].th
        /\ pr[p].pgt = pr[q].pgt
        => p = q

\* Every process has such a space, and every space one process that is not a thread.
Spaces(m, pr, own) ==
    /\ \A p \in Procs : pr[p].state = "live" => InSpace(m, own, pr[p])
    /\ Apart(pr)
    /\ \A r \in Frames : own[r] = r =>
          \E p \in Procs : pr[p].state = "live" /\ ~pr[p].th /\ pr[p].pgt = r

\* The kernel has the frames that are lost and a stack for each slot in use.
Stacks(pr, ls, own) ==
    /\ ls \subseteq Frames
    /\ \A p \in Procs : pr[p].state # "unused" => pr[p].kstack \in Frames /\ pr[p].kstack \notin ls
    /\ \A p, q \in Procs :
          pr[p].state # "unused" /\ pr[q].state # "unused" /\ pr[p].kstack = pr[q].kstack => p = q
    /\ \A f \in Frames : own[f] = Kernel <=>
          f \in ls \/ \E p \in Procs : pr[p].state # "unused" /\ pr[p].kstack = f

\* Each frame is free, in one space, a kernel stack, or lost.
Sound(m, pr, ls, own) ==
    pr \in [Procs -> Slot] /\ Holds(m, own) /\ Spaces(m, pr, own) /\ Stacks(pr, ls, own)

\* A space that stays as it is still has the process.
LEMMA InSpaceSame ==
  ASSUME NEW m, NEW own, NEW x, NEW o, NEW s, InSpace(m, own, s),
         own[s.pgt] = s.pgt => o[s.pgt] = s.pgt /\ Mapped(x, s.pgt) = Mapped(m, s.pgt)
  PROVE  InSpace(x, o, s)
BY DEF InSpace

\* One slot changes.
SetSlot(pr, pr2, q, s) ==
    /\ q \in Procs /\ s \in Slot /\ pr2 \in [Procs -> Slot] /\ pr2[q] = s
    /\ \A p \in Procs : p # q => pr2[p] = pr[p]

\* A process with a space of its own takes an unused slot.
LEMMA SpawnSound ==
  ASSUME NEW m, NEW pr, NEW ls, NEW own, Sound(m, pr, ls, own), NEW x, NEW o, NEW r, NEW k,
         NEW A, NEW size, Added(m, own, x, o, r, {k}, A, Region(size)), Room(size),
         NEW q \in Procs, pr[q].state = "unused", NEW s, s.state = "live", s.pgt = r,
         s.size = size, s.kstack = k, s.th = FALSE, NEW pr2, SetSlot(pr, pr2, q, s)
  PROVE  Sound(x, pr2, ls, o)
<1>1. /\ Holds(x, o) /\ r \in Frames /\ own[r] = Nobody /\ o[r] = r /\ Mapped(x, r) = Region(size)
      /\ \A e \in Frames : own[e] # Nobody => o[e] = own[e]
      /\ k \in Frames /\ own[k] = Nobody
      /\ \A e \in Frames : o[e] = Kernel <=> own[e] = Kernel \/ e = k
      /\ \A e \in Frames : o[e] = e => own[e] = e \/ e = r
      /\ \A e \in Frames : own[e] = e => Mapped(x, e) = Mapped(m, e)
  BY DEF Added
<1>2. /\ pr2 \in [Procs -> Slot] /\ pr2[q] = s /\ \A p \in Procs : p # q => pr2[p] = pr[p]
  BY DEF SetSlot
<1>3. Spaces(m, pr, own) /\ Stacks(pr, ls, own)
  BY DEF Sound
<1>4. ASSUME NEW p \in Procs, pr2[p].state = "live"
      PROVE  InSpace(x, o, pr2[p])
  <2>1. CASE p = q
    BY <1>1, <1>2, <2>1 DEF InSpace
  <2>2. CASE p # q
    <3>1. InSpace(m, own, pr[p]) /\ pr2[p] = pr[p]
      BY <1>2, <1>3, <1>4, <2>2 DEF Spaces
    <3>2. pr[p].pgt \in Frames /\ own[pr[p].pgt] = pr[p].pgt
      BY <3>1 DEF InSpace
    <3>3. o[pr[p].pgt] = pr[p].pgt /\ Mapped(x, pr[p].pgt) = Mapped(m, pr[p].pgt)
      BY <1>1, <3>2, Numbers
    <3> QED BY <3>1, <3>3, InSpaceSame
  <2> QED BY <2>1, <2>2
<1>a. Apart(pr2)
  <2> SUFFICES ASSUME NEW p \in Procs, NEW t \in Procs, pr2[p].state = "live", ~pr2[p].th,
                      pr2[t].state = "live", ~pr2[t].th, pr2[p].pgt = pr2[t].pgt
               PROVE  p = t
    BY DEF Apart
  <2>1. \A u \in Procs : u # q /\ pr2[u].state = "live" => pr[u].pgt # r
    <3>1. \A u \in Procs : pr[u].state = "live" => own[pr[u].pgt] = pr[u].pgt
      BY <1>3 DEF Spaces, InSpace
    <3> QED BY <1>1, <1>2, <3>1, Numbers
  <2>2. p = q <=> t = q
    BY <1>2, <2>1
  <2>3. CASE p # q /\ t # q
    BY <1>2, <1>3, <2>3 DEF Spaces, Apart
  <2> QED BY <2>2, <2>3
<1>5. ASSUME NEW e \in Frames, o[e] = e
      PROVE  \E p \in Procs : pr2[p].state = "live" /\ ~pr2[p].th /\ pr2[p].pgt = e
  <2>1. CASE e = r
    BY <1>2, <2>1
  <2>2. CASE own[e] = e
    <3>1. PICK p \in Procs : pr[p].state = "live" /\ ~pr[p].th /\ pr[p].pgt = e
      BY <2>2, <1>3 DEF Spaces
    <3>2. p # q
      BY <3>1
    <3> QED BY <1>2, <3>1, <3>2
  <2> QED BY <1>1, <1>5, <2>1, <2>2
<1>6. Spaces(x, pr2, o)
  BY <1>4, <1>a, <1>5 DEF Spaces
<1>7. /\ k \notin ls /\ \A p \in Procs : pr[p].state # "unused" => pr[p].kstack # k
  BY <1>1, <1>3, Numbers DEF Stacks
<1>8. Stacks(pr2, ls, o)
  <2>1. \A p \in Procs : pr2[p].state # "unused" =>
           pr2[p].kstack \in Frames /\ pr2[p].kstack \notin ls
    BY <1>1, <1>2, <1>3, <1>7 DEF Stacks
  <2>2. \A p, t \in Procs : pr2[p].state # "unused" /\ pr2[t].state # "unused"
                            /\ pr2[p].kstack = pr2[t].kstack => p = t
    BY <1>2, <1>3, <1>7 DEF Stacks
  <2>3. ASSUME NEW f \in Frames
        PROVE  o[f] = Kernel <=>
                 f \in ls \/ \E p \in Procs : pr2[p].state # "unused" /\ pr2[p].kstack = f
    <3>1. own[f] = Kernel <=>
            f \in ls \/ \E p \in Procs : pr[p].state # "unused" /\ pr[p].kstack = f
      BY <1>3 DEF Stacks
    <3>2. (\E p \in Procs : pr2[p].state # "unused" /\ pr2[p].kstack = f)
          <=> f = k \/ \E p \in Procs : pr[p].state # "unused" /\ pr[p].kstack = f
      BY <1>2
    <3> QED BY <1>1, <3>1, <3>2
  <2> QED BY <1>3, <2>1, <2>2, <2>3 DEF Stacks
<1> QED BY <1>1, <1>2, <1>6, <1>8 DEF Sound

\* A slot of a process with a space of its own.
Owner(r, size, k) == [state |-> "live", pgt |-> r, size |-> size, kstack |-> k, th |-> FALSE]

\* What a slot is set to.
LEMMA SlotIs ==
  ASSUME NEW pr \in [Procs -> Slot], NEW q \in Procs, NEW s \in Slot,
         NEW pr2, pr2 = [pr EXCEPT ![q] = s]
  PROVE  SetSlot(pr, pr2, q, s)
BY DEF SetSlot

\* fork()
LEMMA ForkSound ==
  ASSUME NEW m, NEW pr, NEW ls, NEW own, Sound(m, pr, ls, own),
         NEW p \in Procs, pr[p].state = "live", NEW q \in Procs, pr[q].state = "unused",
         NEW n, n = newproc(m), NEW x, x = cp_userspace(n.m, n.pgt, pr[p].pgt, pr[p].size),
         x.st # "oom", NEW pr2, pr2 = [pr EXCEPT ![q] = Owner(n.pgt, pr[p].size, n.kstack)]
  PROVE  \E o : Sound(x, pr2, ls, o)
<1>1. Holds(m, own) /\ pr \in [Procs -> Slot]
  BY DEF Sound
<1>2. PICK old \in Frames, size \in Nat : /\ old = pr[p].pgt /\ size = pr[p].size /\ own[old] = old
                                          /\ Room(size)
  BY DEF Sound, Spaces, InSpace, Room
<1>3. n.m.st # "oom"
  <2>1. size \in Nat
    BY <1>2 DEF Room
  <2> QED BY <1>2, <2>1, DeadSpace
<1>4. PICK o1 : Began(m, own, n.m, o1, n.pgt, {n.kstack})
  BY <1>1, <1>3, NewProc
<1>5. PICK r, k, y : r = n.pgt /\ k = n.kstack /\ y = n.m
  OBVIOUS
<1>6. /\ own[r] = Nobody /\ r \in Frames /\ k \in Frames /\ r # k /\ own[k] = Nobody
      /\ \A e \in Frames : e # r /\ e # k => o1[e] = own[e]
  BY <1>4, <1>5 DEF Began
<1>7. PICK o2 : Root(y, o1, o2, r)
  BY <1>4, <1>5, Rooted
<1>8. Holds(y, o2) /\ o2[r] = r /\ Mapped(y, r) = {} /\ o2[old] = old
  BY <1>2, <1>6, <1>7, Numbers DEF Root
<1>9. PICK o : SpaceMade(y, o2, x, o, r, {r, old}, Region(size))
  BY <1>2, <1>5, <1>6, <1>8, CopySpace
<1>10. Added(m, own, x, o, r, {k}, {r, old}, Region(size))
  <2>1. {r, old} \in SUBSET Frames /\ r \in {r, old}
    BY <1>6
  <2>2. \A a \in {r, old} : a = r \/ own[a] = a
    BY <1>2
  <2>3. Began(m, own, y, o1, r, {k})
    BY <1>4, <1>5
  <2> QED BY <1>7, <1>9, <2>1, <2>2, <2>3, SpaceAdded
<1>11. PICK s : s = Owner(r, size, k)
  OBVIOUS
<1>12. /\ s \in Slot /\ s.state = "live" /\ s.pgt = r /\ s.size = size /\ s.kstack = k
       /\ s.th = FALSE
  BY <1>2, <1>6, <1>11 DEF Owner, Slot, Room
<1>13. SetSlot(pr, pr2, q, s)
  BY <1>1, <1>2, <1>5, <1>11, <1>12, SlotIs
<1>14. Sound(x, pr2, ls, o)
  BY <1>2, <1>10, <1>12, <1>13, SpawnSound
<1> QED BY <1>14

\* The first process
LEMMA BootSound ==
  ASSUME NEW m, NEW pr, NEW own, Sound(m, pr, {}, own), NEW q \in Procs, pr[q].state = "unused",
         NEW size, Room(size), NEW n, n = newproc(m),
         NEW x, x = map_ustack(init_userspace(n.m, n.pgt, size), n.pgt),
         x.st # "oom", NEW pr2, pr2 = [pr EXCEPT ![q] = Owner(n.pgt, size, n.kstack)]
  PROVE  \E o : Sound(x, pr2, {}, o)
<1>1. Holds(m, own) /\ pr \in [Procs -> Slot]
  BY DEF Sound
<1>3. n.m.st # "oom"
  <2>1. size \in Nat
    BY DEF Room
  <2> QED BY <2>1, DeadSpace DEF init_userspace
<1>4. PICK o1 : Began(m, own, n.m, o1, n.pgt, {n.kstack})
  BY <1>1, <1>3, NewProc
<1>5. PICK r, k, y : r = n.pgt /\ k = n.kstack /\ y = n.m
  OBVIOUS
<1>6. r \in Frames /\ k \in Frames
  BY <1>4, <1>5 DEF Began
<1>7. PICK o2 : Root(y, o1, o2, r)
  BY <1>4, <1>5, Rooted
<1>8. Holds(y, o2) /\ o2[r] = r /\ Mapped(y, r) = {}
  BY <1>7 DEF Root
<1>9. PICK o : SpaceMade(y, o2, x, o, r, {r}, Region(size))
  BY <1>5, <1>6, <1>8, FillSpace
<1>10. Added(m, own, x, o, r, {k}, {r}, Region(size))
  <2>1. {r} \in SUBSET Frames /\ r \in {r} /\ \A a \in {r} : a = r \/ own[a] = a
    BY <1>6
  <2>2. Began(m, own, y, o1, r, {k})
    BY <1>4, <1>5
  <2> QED BY <1>7, <1>9, <2>1, <2>2, SpaceAdded
<1>11. PICK s : s = Owner(r, size, k)
  OBVIOUS
<1>12. /\ s \in Slot /\ s.state = "live" /\ s.pgt = r /\ s.size = size /\ s.kstack = k
       /\ s.th = FALSE
  BY <1>6, <1>11 DEF Owner, Slot, Room
<1>13. SetSlot(pr, pr2, q, s)
  BY <1>1, <1>5, <1>11, <1>12, SlotIs
<1>14. Sound(x, pr2, {}, o)
  BY <1>10, <1>12, <1>13, SpawnSound
<1> QED BY <1>14

\* clone(): the kernel has two frames more, of which one is lost.
LEMMA CloneSound ==
  ASSUME NEW m, NEW pr, NEW ls, NEW own, Sound(m, pr, ls, own),
         NEW p \in Procs, pr[p].state = "live", NEW q \in Procs, pr[q].state = "unused",
         NEW x, NEW o, NEW r, NEW k, Began(m, own, x, o, r, {k}),
         NEW s \in Slot, s.state = "live", s.pgt = pr[p].pgt, s.size = pr[p].size,
         s.kstack = k, s.th = TRUE, NEW pr2, SetSlot(pr, pr2, q, s)
  PROVE  Sound(x, pr2, ls \cup {r}, o)
<1>1. /\ Holds(x, o) /\ r \in Frames /\ own[r] = Nobody /\ o[r] = Kernel
      /\ k \in Frames /\ own[k] = Nobody /\ o[k] = Kernel /\ r # k
      /\ \A e \in Frames : e # r /\ e # k => o[e] = own[e]
      /\ \A e \in Frames : own[e] = e => Mapped(x, e) = Mapped(m, e)
  BY DEF Began
<1>2. /\ pr2 \in [Procs -> Slot] /\ pr2[q] = s /\ \A t \in Procs : t # q => pr2[t] = pr[t]
  BY DEF SetSlot
<1>3. Spaces(m, pr, own) /\ Stacks(pr, ls, own)
  BY DEF Sound
<1>4. ASSUME NEW t \in Procs, pr2[t].state = "live"
      PROVE  InSpace(x, o, pr2[t])
  <2>0. \A u \in Procs : pr[u].state = "live" => InSpace(x, o, pr[u])
    <3>1. ASSUME NEW u \in Procs, pr[u].state = "live" PROVE InSpace(x, o, pr[u])
      <4>1. InSpace(m, own, pr[u])
        BY <1>3, <3>1 DEF Spaces
      <4>2. pr[u].pgt \in Frames /\ own[pr[u].pgt] = pr[u].pgt
        BY <4>1 DEF InSpace
      <4>3. o[pr[u].pgt] = pr[u].pgt /\ Mapped(x, pr[u].pgt) = Mapped(m, pr[u].pgt)
        BY <1>1, <4>2, Numbers
      <4> QED BY <4>1, <4>3, InSpaceSame
    <3> QED BY <3>1
  <2>1. CASE t = q
    <3>1. InSpace(x, o, pr[p])
      BY <2>0
    <3> QED BY <1>2, <2>1, <3>1 DEF InSpace
  <2>2. CASE t # q
    BY <1>2, <1>4, <2>0, <2>2
  <2> QED BY <2>1, <2>2
<1>a. Apart(pr2)
  <2> SUFFICES ASSUME NEW t \in Procs, NEW u \in Procs, pr2[t].state = "live", ~pr2[t].th,
                      pr2[u].state = "live", ~pr2[u].th, pr2[t].pgt = pr2[u].pgt
               PROVE  t = u
    BY DEF Apart
  <2>1. t # q /\ u # q
    BY <1>2
  <2> QED BY <1>2, <1>3, <2>1 DEF Spaces, Apart
<1>5. ASSUME NEW e \in Frames, o[e] = e
      PROVE  \E t \in Procs : pr2[t].state = "live" /\ ~pr2[t].th /\ pr2[t].pgt = e
  <2>1. own[e] = e
    BY <1>1, <1>5, Numbers
  <2>2. PICK t \in Procs : pr[t].state = "live" /\ ~pr[t].th /\ pr[t].pgt = e
    BY <2>1, <1>3 DEF Spaces
  <2> QED BY <1>2, <2>2
<1>6. Spaces(x, pr2, o)
  BY <1>4, <1>a, <1>5 DEF Spaces
<1>7. /\ k \notin ls
      /\ \A t \in Procs : pr[t].state # "unused" => pr[t].kstack # k /\ pr[t].kstack # r
  BY <1>1, <1>3, Numbers DEF Stacks
<1>8. Stacks(pr2, ls \cup {r}, o)
  <2>1. \A t \in Procs : pr2[t].state # "unused" =>
           pr2[t].kstack \in Frames /\ pr2[t].kstack \notin ls \cup {r}
    BY <1>1, <1>2, <1>3, <1>7 DEF Stacks
  <2>2. \A t, u \in Procs : pr2[t].state # "unused" /\ pr2[u].state # "unused"
                            /\ pr2[t].kstack = pr2[u].kstack => t = u
    BY <1>2, <1>3, <1>7 DEF Stacks
  <2>3. ASSUME NEW f \in Frames
        PROVE  o[f] = Kernel <=>
                 f \in ls \cup {r} \/ \E t \in Procs : pr2[t].state # "unused" /\ pr2[t].kstack = f
    <3>1. own[f] = Kernel <=>
            f \in ls \/ \E t \in Procs : pr[t].state # "unused" /\ pr[t].kstack = f
      BY <1>3 DEF Stacks
    <3>2. (\E t \in Procs : pr2[t].state # "unused" /\ pr2[t].kstack = f)
          <=> f = k \/ \E t \in Procs : pr[t].state # "unused" /\ pr[t].kstack = f
      BY <1>2
    <3> QED BY <1>1, <3>1, <3>2
  <2> QED BY <1>1, <1>3, <2>1, <2>2, <2>3 DEF Stacks
<1> QED BY <1>1, <1>2, <1>6, <1>8 DEF Sound

\* No other process runs in the space of p.
Alone(pr, p) == \A q \in Procs : q # p => ~(pr[q].state = "live" /\ pr[q].pgt = pr[p].pgt)

\* Then p is not a thread.
LEMMA AloneOwns ==
  ASSUME NEW m, NEW pr, NEW ls, NEW own, Sound(m, pr, ls, own), NEW p \in Procs,
         pr[p].state = "live", Alone(pr, p)
  PROVE  ~pr[p].th
BY DEF Sound, Spaces, InSpace, Alone

\* Process p gets another space or another size.
Resized(pr, pr2, p, r, size) ==
    /\ pr2 \in [Procs -> Slot] /\ pr2[p].state = pr[p].state /\ pr2[p].pgt = r
    /\ pr2[p].size = size /\ pr2[p].kstack = pr[p].kstack /\ pr2[p].th = pr[p].th
    /\ \A q \in Procs : q # p => pr2[q] = pr[q]

\* exec(): the new space takes the place of the old one.
LEMMA ExecSound ==
  ASSUME NEW m, NEW pr, NEW ls, NEW own, Sound(m, pr, ls, own), NEW p \in Procs,
         pr[p].state = "live", Alone(pr, p), NEW y, NEW o1, NEW r, NEW A, NEW size, Room(size),
         Added(m, own, y, o1, r, {}, A, Region(size)),
         NEW x, x = free_userspace(y, pr[p].pgt, pr[p].size), x.st # "oom",
         NEW pr2, Resized(pr, pr2, p, r, size)
  PROVE  \E o : Sound(x, pr2, ls, o)
<1> USE DEF Resized
<1>1. /\ Holds(y, o1) /\ r \in Frames /\ own[r] = Nobody /\ o1[r] = r
      /\ Mapped(y, r) = Region(size)
      /\ \A e \in Frames : own[e] # Nobody => o1[e] = own[e]
      /\ \A e \in Frames : o1[e] = Kernel <=> own[e] = Kernel
      /\ \A e \in Frames : o1[e] = e => own[e] = e \/ e = r
      /\ \A e \in Frames : own[e] = e => Mapped(y, e) = Mapped(m, e)
  BY DEF Added
<1>2. Spaces(m, pr, own) /\ Stacks(pr, ls, own)
  BY DEF Sound
<1>3. PICK old \in Frames, size0 \in Nat :
        /\ old = pr[p].pgt /\ size0 = pr[p].size /\ own[old] = old
        /\ Room(size0) /\ Mapped(m, old) = Region(size0)
  <2>1. InSpace(m, own, pr[p]) /\ ~pr[p].th
    BY <1>2, AloneOwns DEF Spaces
  <2> QED BY <2>1 DEF InSpace, Room
<1>4. old # r /\ o1[old] = old /\ Mapped(y, old) = Region(size0)
  BY <1>1, <1>3, Numbers
<1>5. PICK o : o = [f \in Frames |-> IF o1[f] = old THEN Nobody ELSE o1[f]]
  OBVIOUS
<1>6. /\ Holds(x, o)
      /\ \A q \in Frames : o1[q] = q /\ q # old => Mapped(x, q) = Mapped(y, q)
  BY <1>1, <1>3, <1>4, <1>5, FreeSpace
<1>7. \A f \in Frames : o[f] = IF o1[f] = old THEN Nobody ELSE o1[f]
  BY <1>5
<1>8. ASSUME NEW q \in Procs, pr2[q].state = "live"
      PROVE  InSpace(x, o, pr2[q])
  <2>1. CASE q = p
    <3>1. o[r] = r /\ Mapped(x, r) = Region(size)
      BY <1>1, <1>4, <1>6, <1>7
    <3> QED BY <1>1, <2>1, <3>1 DEF InSpace
  <2>2. CASE q # p
    <3>1. InSpace(m, own, pr[q]) /\ pr2[q] = pr[q]
      BY <1>2, <1>8, <2>2 DEF Spaces
    <3>2. PICK e \in Frames : e = pr[q].pgt /\ own[e] = e
      BY <3>1 DEF InSpace
    <3>3. e # old
      BY <1>3, <1>8, <2>2, <3>1, <3>2 DEF Alone
    <3>4. o[e] = e /\ Mapped(x, e) = Mapped(m, e)
      BY <1>1, <1>6, <1>7, <3>2, <3>3, Numbers
    <3> QED BY <3>1, <3>2, <3>4, InSpaceSame
  <2> QED BY <2>1, <2>2
<1>a. Apart(pr2)
  <2>1. ASSUME NEW q \in Procs, q # p, pr[q].state = "live" PROVE pr[q].pgt # r
    <3>1. InSpace(m, own, pr[q])
      BY <1>2, <2>1 DEF Spaces
    <3> QED BY <1>1, <3>1, Numbers DEF InSpace
  <2> SUFFICES ASSUME NEW t \in Procs, NEW u \in Procs, pr2[t].state = "live", ~pr2[t].th,
                      pr2[u].state = "live", ~pr2[u].th, pr2[t].pgt = pr2[u].pgt
               PROVE  t = u
    BY DEF Apart
  <2>2. t = p <=> u = p
    BY <2>1
  <2>3. CASE t # p /\ u # p
    BY <1>2, <2>3 DEF Spaces, Apart
  <2> QED BY <2>2, <2>3
<1>9. ASSUME NEW e \in Frames, o[e] = e
      PROVE  \E q \in Procs : pr2[q].state = "live" /\ ~pr2[q].th /\ pr2[q].pgt = e
  <2>1. o1[e] = e /\ e # old
    BY <1>7, <1>9, Numbers
  <2>2. CASE e = r
    BY <2>2, AloneOwns
  <2>3. CASE own[e] = e
    <3>1. PICK q \in Procs : pr[q].state = "live" /\ ~pr[q].th /\ pr[q].pgt = e
      BY <1>2, <2>3 DEF Spaces
    <3> QED BY <1>3, <2>1, <3>1
  <2> QED BY <1>1, <2>1, <2>2, <2>3
<1>10. Spaces(x, pr2, o)
  BY <1>8, <1>a, <1>9 DEF Spaces
<1>11. Stacks(pr2, ls, o)
  <2>1. \A f \in Frames : o[f] = Kernel <=> own[f] = Kernel
    BY <1>1, <1>7, Numbers
  <2>2. \A q \in Procs : /\ pr2[q].kstack = pr[q].kstack
                         /\ pr2[q].state # "unused" <=> pr[q].state # "unused"
    <3>1. ASSUME NEW q \in Procs
          PROVE  /\ pr2[q].kstack = pr[q].kstack
                 /\ pr2[q].state # "unused" <=> pr[q].state # "unused"
      <4>1. CASE q = p
        BY <4>1
      <4>2. CASE q # p
        BY <4>2
      <4> QED BY <4>1, <4>2
    <3> QED BY <3>1
  <2> QED BY <1>2, <2>1, <2>2 DEF Stacks
<1>12. Sound(x, pr2, ls, o)
  BY <1>6, <1>10, <1>11 DEF Sound
<1> QED BY <1>12

-----------------------------------------------------------------------------
(* The new space of exec().                                                *)

\* The pages of the first i headers
Covered(prg, i) == UNION {Segment(prg[j]) : j \in 1 .. i}

\* A program header
LEMMA HeaderType ==
  ASSUME NEW prg \in Programs
  PROVE  /\ Len(prg) \in Nat
         /\ \A j \in 1 .. Len(prg) : /\ prg[j].load \in BOOLEAN /\ prg[j].va \in Nat
                                     /\ prg[j].memsz \in Nat /\ prg[j].filesz \in Nat
                                     /\ prg[j].va \div PAGESIZE \in Nat /\ Pages(prg[j].memsz) \in Nat
<1>1. prg \in Seq([load : BOOLEAN, va : Nat, memsz : Nat, filesz : Nat])
  BY ProgramsAssumption
<1>2. ASSUME NEW j \in 1 .. Len(prg)
      PROVE  /\ prg[j].load \in BOOLEAN /\ prg[j].va \in Nat
             /\ prg[j].memsz \in Nat /\ prg[j].filesz \in Nat
             /\ prg[j].va \div PAGESIZE \in Nat /\ Pages(prg[j].memsz) \in Nat
  <2>1. prg[j] \in [load : BOOLEAN, va : Nat, memsz : Nat, filesz : Nat]
    BY <1>1, ElementOfSeq, Zenon
  <2>2. PAGESIZE \in Nat \ {0}
    BY NENTAssumption
  <2> QED BY <2>1, <2>2, PagesType, Quotient
<1> QED BY <1>1, <1>2

\* The sizes of the segments add up to a size.
LEMMA SumType ==
  ASSUME NEW prg \in Programs
  PROVE  memsize(prg) \in Nat
<1> DEFINE At(k) == LoopOf("sum", NULL, prg, 0, k)
           Bad == {k \in Nat : k <= Len(prg) /\ At(k) \notin Nat}
<1>0. Len(prg) \in Nat
  BY HeaderType
<1> SUFFICES ASSUME Len(prg) \in Bad PROVE FALSE
  BY <1>0, SumLoop
<1>1. PICK k \in Bad : \A j \in Bad : k <= j
  BY Least
<1>2. At(0) = 0 /\ \A j \in Nat : At(j + 1) =
        IF prg[j + 1].load THEN At(j) + prg[j + 1].memsz ELSE At(j)
  <2>1. \A x, j : Body("sum", NULL, prg, x, j) =
                    IF prg[j + 1].load THEN x + prg[j + 1].memsz ELSE x
    BY DEF Body
  <2>2. At(0) = 0 /\ \A j \in Nat : At(j + 1) = Body("sum", NULL, prg, At(j), j)
    BY LoopStep
  <2> QED BY <2>1, <2>2
<1> HIDE DEF At
<1>3. k # 0 /\ k \in Nat /\ k <= Len(prg) /\ At(k) \notin Nat
  BY <1>2
<1>4. k - 1 \in Bad => k <= k - 1
  BY <1>1
<1> HIDE DEF Bad
<1>5. PICK j \in Nat : j = k - 1 /\ j + 1 = k /\ j + 1 \in 1 .. Len(prg) /\ j \notin Bad
  BY <1>0, <1>3, <1>4
<1>6. At(j) \in Nat
  BY <1>0, <1>5 DEF Bad
<1>7. prg[j + 1].memsz \in Nat
  BY <1>5, HeaderType
<1>8. PICK a, b : a = At(j) /\ b = At(j + 1)
  OBVIOUS
<1>9. b = IF prg[j + 1].load THEN a + prg[j + 1].memsz ELSE a
  BY <1>2, <1>8
<1>10. b \in Nat
  <2>1. a \in Nat
    BY <1>6, <1>8
  <2> QED BY <1>7, <1>9, <2>1
<1>11. At(k) = b
  BY <1>5, <1>8
<1> QED BY <1>3, <1>10, <1>11

\* Without frames nothing is loaded.
LEMMA DeadLoad ==
  ASSUME NEW m, m.st = "oom", NEW prg \in Programs, NEW r, NEW i \in 0 .. Len(prg)
  PROVE  LoopOf("load", r, prg, m, i) = m
<1> DEFINE At(k) == LoopOf("load", r, prg, m, k)
           Bad == {k \in Nat : k <= i /\ At(k) # m}
<1>0. Len(prg) \in Nat /\ i \in Nat
  BY HeaderType
<1> SUFFICES ASSUME i \in Bad PROVE FALSE
  BY <1>0
<1>1. PICK k \in Bad : \A j \in Bad : k <= j
  BY Least
<1>2. At(0) = m /\ \A j \in Nat : At(j + 1) =
        IF prg[j + 1].load THEN alloc_userspace(At(j), r, prg[j + 1].va, prg[j + 1].memsz) ELSE At(j)
  <2>1. \A x, j : Body("load", r, prg, x, j) =
          IF prg[j + 1].load THEN alloc_userspace(x, r, prg[j + 1].va, prg[j + 1].memsz) ELSE x
    BY DEF Body
  <2>2. At(0) = m /\ \A j \in Nat : At(j + 1) = Body("load", r, prg, At(j), j)
    BY LoopStep
  <2> QED BY <2>1, <2>2
<1> HIDE DEF At
<1>3. k # 0 /\ k \in Nat /\ k <= i /\ At(k) # m
  BY <1>2
<1>4. k - 1 \in Bad => k <= k - 1
  BY <1>1
<1> HIDE DEF Bad
<1>5. PICK j \in Nat : j = k - 1 /\ j + 1 = k /\ j + 1 \in 1 .. Len(prg) /\ j <= i /\ j \notin Bad
  BY <1>0, <1>3, <1>4
<1>6. At(j) = m
  BY <1>5 DEF Bad
<1>7. prg[j + 1].memsz \in Nat
  BY <1>5, HeaderType
<1>8. alloc_userspace(m, r, prg[j + 1].va, prg[j + 1].memsz) = m
  BY <1>7, DeadSpace
<1> QED BY <1>2, <1>3, <1>5, <1>6, <1>8

\* One more header: its segment is mapped next to those before.
LEMMA LoadOne ==
  ASSUME NEW m, NEW own, Holds(m, own), NEW r \in Frames, own[r] = r,
         NEW prg \in Programs, Mappable(prg), NEW j \in Nat, j + 1 \in 1 .. Len(prg),
         Mapped(m, r) = Covered(prg, j),
         NEW x, x = IF prg[j + 1].load
                    THEN alloc_userspace(m, r, prg[j + 1].va, prg[j + 1].memsz) ELSE m
  PROVE  x.st = "oom" \/ \E o : SpaceMade(m, own, x, o, r, {r}, Covered(prg, j + 1))
<1>0. Covered(prg, j + 1) = Covered(prg, j) \cup Segment(prg[j + 1])
  <2>1. 1 .. j + 1 = 1 .. j \cup {j + 1}
    OBVIOUS
  <2> QED BY <2>1 DEF Covered
<1>1. CASE ~prg[j + 1].load
  <2>1. Covered(prg, j + 1) = Mapped(m, r) /\ x = m
    BY <1>0, <1>1 DEF Segment
  <2>2. SpaceMade(m, own, x, own, r, {r}, Covered(prg, j + 1))
    BY <2>1 DEF SpaceMade, Grows
  <2> QED BY <2>2
<1>2. CASE prg[j + 1].load
  <2>1. PICK h : h = prg[j + 1]
    OBVIOUS
  <2>2. PICK b \in Nat : b = h.va \div PAGESIZE
    BY <2>1, HeaderType
  <2>3. PICK n \in Nat : n = Pages(h.memsz)
    BY <2>1, HeaderType
  <2>4. Segment(h) = b .. b + n - 1
    BY <1>2, <2>1, <2>2, <2>3 DEF Segment
  <2>5. \A i \in 1 .. j : Segment(h) \cap Segment(prg[i]) = {}
    <3>1. \A i \in 1 .. Len(prg) \ {j + 1} : Segment(h) \cap Segment(prg[i]) = {}
      BY <1>2, <2>1 DEF Mappable
    <3>2. \A i \in 1 .. j : i \in 1 .. Len(prg) \ {j + 1}
      BY HeaderType
    <3> QED BY <3>1, <3>2
  <2>6. (b .. b + n - 1) \cap Mapped(m, r) = {}
    BY <2>4, <2>5 DEF Covered
  <2>7. Fits(m, r, h.va, h.memsz, b, n)
    <3>1. h.va \in Nat /\ h.memsz \in Nat
      BY <2>1, HeaderType
    <3>2. h.va % PAGESIZE = 0 \/ h.memsz = 0
      BY <1>2, <2>1 DEF Mappable
    <3>3. b + n <= USTACK
      BY <1>2, <2>1, <2>2, <2>3 DEF Mappable
    <3> QED BY <2>2, <2>3, <2>6, <3>1, <3>2, <3>3 DEF Fits
  <2>8. Mapped(m, r) \cup b .. b + n - 1 = Covered(prg, j + 1)
    BY <1>0, <2>1, <2>4
  <2>9. x = alloc_userspace(m, r, h.va, h.memsz)
    BY <1>2, <2>1
  <2>10. CASE x.st # "oom"
    <3>1. PICK o : SpaceMade(m, own, x, o, r, {r}, Mapped(m, r) \cup b .. b + n - 1)
      BY <2>7, <2>9, <2>10, AllocSpace
    <3>2. SpaceMade(m, own, x, o, r, {r}, Covered(prg, j + 1))
      BY <2>8, <3>1
    <3> QED BY <3>2
  <2> QED BY <2>10
<1> QED BY <1>1, <1>2, HeaderType

\* The segments of the first i headers are mapped in an empty space.
LEMMA LoadSpace ==
  ASSUME NEW m, NEW own, Holds(m, own), NEW r \in Frames, own[r] = r, Mapped(m, r) = {},
         NEW prg \in Programs, Mappable(prg), NEW i \in 0 .. Len(prg)
  PROVE  LET x == LoopOf("load", r, prg, m, i)
         IN x.st = "oom" \/ \E o : SpaceMade(m, own, x, o, r, {r}, Covered(prg, i))
<1> DEFINE At(k) == LoopOf("load", r, prg, m, k)
           Fine(k) == At(k).st = "oom" \/ \E o : SpaceMade(m, own, At(k), o, r, {r}, Covered(prg, k))
           Bad == {k \in Nat : k <= i /\ ~Fine(k)}
<1>0. Len(prg) \in Nat /\ i \in Nat
  BY HeaderType
<1> SUFFICES Fine(i)
  OBVIOUS
<1> SUFFICES ASSUME i \in Bad PROVE FALSE
  <2> HIDE DEF Fine
  <2> QED BY <1>0
<1>1. PICK k \in Bad : \A j \in Bad : k <= j
  BY Least
<1>2. At(0) = m /\ \A j \in Nat : At(j + 1) =
        IF prg[j + 1].load THEN alloc_userspace(At(j), r, prg[j + 1].va, prg[j + 1].memsz) ELSE At(j)
  <2>1. \A x, j : Body("load", r, prg, x, j) =
          IF prg[j + 1].load THEN alloc_userspace(x, r, prg[j + 1].va, prg[j + 1].memsz) ELSE x
    BY DEF Body
  <2>2. At(0) = m /\ \A j \in Nat : At(j + 1) = Body("load", r, prg, At(j), j)
    BY LoopStep
  <2> QED BY <2>1, <2>2
<1> HIDE DEF At
<1>3. k # 0
  <2>1. Covered(prg, 0) = Mapped(m, r)
    <3>1. 1 .. 0 = {}
      OBVIOUS
    <3> QED BY <3>1 DEF Covered
  <2>2. SpaceMade(m, own, m, own, r, {r}, Covered(prg, 0))
    BY <2>1 DEF SpaceMade, Grows
  <2> QED BY <1>2, <2>2
<1>4. k \in Nat /\ k <= i /\ ~Fine(k)
  OBVIOUS
<1>5. k - 1 \in Bad => k <= k - 1
  BY <1>1
<1> HIDE DEF Bad
<1>6. PICK j \in Nat : j = k - 1 /\ j + 1 = k /\ j + 1 \in 1 .. Len(prg) /\ j <= i /\ j \notin Bad
  BY <1>0, <1>3, <1>4, <1>5
<1> HIDE DEF Fine
<1>7. Fine(j)
  BY <1>6 DEF Bad
<1>8. PICK y : y = At(j)
  OBVIOUS
<1>9. PICK x : /\ x = IF prg[j + 1].load
                      THEN alloc_userspace(y, r, prg[j + 1].va, prg[j + 1].memsz) ELSE y
               /\ x = At(k)
  BY <1>2, <1>6, <1>8
<1>10. CASE y.st = "oom"
  <2>1. prg[j + 1].memsz \in Nat
    BY <1>6, HeaderType
  <2>2. x = y
    BY <1>9, <1>10, <2>1, DeadSpace
  <2> QED BY <1>4, <1>9, <1>10, <2>2 DEF Fine
<1>11. CASE y.st # "oom"
  <2>1. PICK o : SpaceMade(m, own, y, o, r, {r}, Covered(prg, j))
    BY <1>7, <1>8, <1>11 DEF Fine
  <2>2. Holds(y, o) /\ o[r] = r /\ Mapped(y, r) = Covered(prg, j)
    BY <2>1, GrowsRoot DEF SpaceMade
  <2>3. x.st = "oom" \/ \E o2 : SpaceMade(y, o, x, o2, r, {r}, Covered(prg, j + 1))
    BY <1>6, <1>9, <2>2, LoadOne
  <2>4. {r} \in SUBSET Frames
    OBVIOUS
  <2>5. CASE x.st # "oom"
    <3>1. PICK o2 : SpaceMade(y, o, x, o2, r, {r}, Covered(prg, j + 1))
      BY <2>3, <2>5
    <3>2. SpaceMade(m, own, x, o2, r, {r}, Covered(prg, j + 1))
      BY <2>1, <2>4, <3>1, SpaceTrans
    <3> QED BY <1>4, <1>6, <1>9, <3>2 DEF Fine
  <2>6. CASE x.st = "oom"
    BY <1>4, <1>9, <2>6 DEF Fine
  <2> QED BY <2>5, <2>6
<1> QED BY <1>10, <1>11

\* The new space with the segments of the first i headers
LEMMA LoadedAdded ==
  ASSUME NEW own, Holds(mem, own), NEW prg \in Programs, Mappable(prg), NEW i \in 0 .. Len(prg),
         Loaded(prg, i).st # "oom"
  PROVE  \E o : Added(mem, own, Loaded(prg, i), o, NewTable.r, {}, {NewTable.r}, Covered(prg, i))
<1>0. PICK t : t = NewTable
  OBVIOUS
<1>1. PICK x : x = Loaded(prg, i) /\ x = LoopOf("load", t.r, prg, t, i)
  BY <1>0, LoadLoop
<1>2. t.st # "oom"
  BY <1>1, DeadLoad
<1>3. PICK o1 : Began(mem, own, t, o1, t.r, {})
  BY <1>0, <1>2, TableTaken DEF NewTable
<1>4. PICK o2 : Root(t, o1, o2, t.r)
  BY <1>3, Rooted
<1>5. PICK r : r = t.r
  OBVIOUS
<1>6. Holds(t, o2) /\ r \in Frames /\ o2[r] = r /\ Mapped(t, r) = {}
  BY <1>4, <1>5 DEF Root
<1>7. PICK o : SpaceMade(t, o2, x, o, r, {r}, Covered(prg, i))
  BY <1>1, <1>5, <1>6, LoadSpace
<1>8. Added(mem, own, x, o, r, {}, {r}, Covered(prg, i))
  <2>1. {r} \in SUBSET Frames /\ r \in {r} /\ \A b \in {r} : b = r \/ own[b] = b
    BY <1>6
  <2> QED BY <1>3, <1>4, <1>5, <1>7, <2>1, SpaceAdded
<1> QED BY <1>0, <1>1, <1>5, <1>8

\* The new space has changed further.
LEMMA AddedMore ==
  ASSUME NEW m, NEW own, NEW y, NEW o1, NEW r, NEW S, Added(m, own, y, o1, r, {}, {r}, S),
         NEW x, NEW o, NEW T, SpaceMade(y, o1, x, o, r, {r}, T)
  PROVE  Added(m, own, x, o, r, {}, {r}, T)
<1>1. /\ r \in Frames /\ own[r] = Nobody /\ o1[r] = r
      /\ \A e \in Frames : own[e] # Nobody => o1[e] = own[e]
      /\ \A e \in Frames : own[e] = Nobody => o1[e] \in {r, Nobody}
      /\ \A e \in Frames : o1[e] = Kernel <=> own[e] = Kernel
      /\ \A e \in Frames : o1[e] = e => own[e] = e \/ e = r
      /\ \A e \in Frames : own[e] = e => Mapped(y, e) = Mapped(m, e)
  BY DEF Added
<1>2. /\ Holds(x, o)
      /\ \A e \in Frames : o[e] = o1[e] \/ (o1[e] = Nobody /\ o[e] = r)
      /\ \A q \in Frames : o1[q] = q => Mapped(x, q) = IF q = r THEN T ELSE Mapped(y, q)
  BY DEF SpaceMade, Grows
<1>3. o[r] = r /\ Mapped(x, r) = T
  BY <1>1, <1>2, Numbers
<1>4. \A e \in Frames : own[e] # Nobody => o[e] = own[e]
  BY <1>1, <1>2
<1>5. \A e \in Frames : own[e] = Nobody => o[e] \in {r} \cup {Nobody} \/ e \in {}
  BY <1>1, <1>2
<1>6. \A e \in Frames : o[e] = Kernel <=> own[e] = Kernel \/ e \in {}
  BY <1>1, <1>2, Numbers
<1>7. \A e \in Frames : o[e] = e => own[e] = e \/ e = r
  BY <1>1, <1>2
<1>8. ASSUME NEW q \in Frames, own[q] = q PROVE Mapped(x, q) = Mapped(m, q)
  <2>1. o1[q] = q /\ q # r
    BY <1>1, <1>8, Numbers
  <2> QED BY <1>1, <1>2, <1>8, <2>1
<1> QED BY <1>1, <1>2, <1>3, <1>4, <1>5, <1>6, <1>7, <1>8 DEF Added

\* With all its segments and its stack
LEMMA NewSpaceAdded ==
  ASSUME NEW own, Holds(mem, own), NEW prg \in Programs, Mappable(prg), NewSpace(prg).st # "oom"
  PROVE  \E o : Added(mem, own, NewSpace(prg), o, NewTable.r, {}, {NewTable.r},
                     {USTACK} \cup Covered(prg, Len(prg)))
<1>1. PICK y, r, x : y = Loaded(prg, Len(prg)) /\ r = NewTable.r /\ x = NewSpace(prg)
  OBVIOUS
<1>2. x = map_ustack(y, r)
  BY <1>1 DEF NewSpace
<1>3. y.st # "oom"
  BY <1>1, <1>2, DeadSpace
<1>4. Len(prg) \in 0 .. Len(prg)
  BY HeaderType
<1>5. PICK o1 : Added(mem, own, y, o1, r, {}, {r}, Covered(prg, Len(prg)))
  BY <1>1, <1>3, <1>4, LoadedAdded
<1>6. Holds(y, o1) /\ r \in Frames /\ o1[r] = r /\ Mapped(y, r) = Covered(prg, Len(prg))
  BY <1>5 DEF Added
<1>7. USTACK \notin Covered(prg, Len(prg))
  <2>1. SUFFICES ASSUME NEW j \in 1 .. Len(prg), USTACK \in Segment(prg[j]) PROVE FALSE
    BY DEF Covered
  <2>2. prg[j].load
    BY <2>1 DEF Segment
  <2>3. prg[j].va \div PAGESIZE + Pages(prg[j].memsz) <= USTACK
    BY <2>1, <2>2 DEF Mappable
  <2>4. USTACK \in prg[j].va \div PAGESIZE .. prg[j].va \div PAGESIZE + Pages(prg[j].memsz) - 1
    BY <2>1, <2>2 DEF Segment
  <2>5. prg[j].va \div PAGESIZE \in Nat /\ Pages(prg[j].memsz) \in Nat
    BY <2>1, HeaderType
  <2> QED BY <2>3, <2>4, <2>5, StackPage
<1>8. USTACK \in Vpns
  BY BootRoom, RoomFacts
<1>9. PICK o : SpaceMade(y, o1, x, o, r, {r}, Covered(prg, Len(prg)) \cup {USTACK})
  BY <1>1, <1>2, <1>6, <1>7, <1>8, StackSpace
<1>10. Covered(prg, Len(prg)) \cup {USTACK} = {USTACK} \cup Covered(prg, Len(prg))
  OBVIOUS
<1> QED BY <1>1, <1>5, <1>9, <1>10, AddedMore

\* With tables that load_prg() has made below a page that is not mapped
LEMMA WalkedAdded ==
  ASSUME NEW own, NEW y, NEW o1, NEW r, NEW S, Added(mem, own, y, o1, r, {}, {r}, S),
         NEW v \in Nat, NEW x, x = pagewalk(y, r, v), x.st # "oom"
  PROVE  \E o : Added(mem, own, x, o, r, {}, {r}, S)
<1>1. Holds(y, o1) /\ r \in Frames /\ o1[r] = r /\ Mapped(y, r) = S
  BY DEF Added
<1>2. PICK o : WalkedOnly(y, o1, x, o, r)
  BY <1>1, PagewalkHolds
<1>3. SpaceMade(y, o1, x, o, r, {r}, S)
  BY <1>1, <1>2 DEF WalkedOnly, SpaceMade
<1> QED BY <1>3, AddedMore

\* Wherever exec() fails, its new space is sound.
LEMMA FailureAdded ==
  ASSUME NEW own, Holds(mem, own), NEW prg \in Programs, Mappable(prg),
         NEW y \in Failures(prg), y.st # "oom"
  PROVE  \E o, S : Added(mem, own, y, o, NewTable.r, {}, {NewTable.r}, S)
<1>1. CASE \E i \in 0 .. Len(prg) : y = Loaded(prg, i)
  BY <1>1, LoadedAdded
<1>2. CASE y = NewSpace(prg)
  BY <1>2, NewSpaceAdded
<1>3. ASSUME NEW i \in 1 .. Len(prg), NEW k \in 0 .. Pages(prg[i].filesz) - 1,
             Ok(Loaded(prg, i)), y = pagewalk(Loaded(prg, i), NewTable.r, prg[i].va \div PAGESIZE + k)
      PROVE  \E o, S : Added(mem, own, y, o, NewTable.r, {}, {NewTable.r}, S)
  <2>1. prg[i].va \div PAGESIZE + k \in Nat
    <3>1. prg[i].va \div PAGESIZE \in Nat /\ Pages(prg[i].filesz) \in Nat
      BY HeaderType, PagesType
    <3> QED BY <3>1
  <2>2. i \in 0 .. Len(prg) /\ Loaded(prg, i).st # "oom"
    BY <1>3, HeaderType DEF Ok
  <2>3. PICK o1 : Added(mem, own, Loaded(prg, i), o1, NewTable.r, {}, {NewTable.r}, Covered(prg, i))
    BY <2>2, LoadedAdded
  <2> QED BY <1>3, <2>1, <2>3, WalkedAdded
<1>4. \/ \E i \in 0 .. Len(prg) : y = Loaded(prg, i)
      \/ y = NewSpace(prg)
      \/ \E i \in 1 .. Len(prg) : \E k \in 0 .. Pages(prg[i].filesz) - 1 :
            Ok(Loaded(prg, i)) /\ y = pagewalk(Loaded(prg, i), NewTable.r, prg[i].va \div PAGESIZE + k)
  <2>1. CASE y \in {Loaded(prg, i) : i \in {j \in 0 .. Len(prg) : Reaches(prg, j)}}
    BY <2>1
  <2>2. CASE y \in (IF Reaches(prg, Len(prg) + 1) THEN {NewSpace(prg)} ELSE {})
    BY <2>2
  <2>3. CASE y \in UNION {{pagewalk(Loaded(prg, i), NewTable.r, prg[i].va \div PAGESIZE + k) :
                   k \in {j \in 0 .. Pages(prg[i].filesz) - 1 :
                            /\ ~HasPage(Loaded(prg, i), prg[i], j)
                            /\ \A e \in 0 .. j - 1 : HasPage(Loaded(prg, i), prg[i], e)}} :
                i \in {j \in 1 .. Len(prg) :
                         /\ Reaches(prg, j) /\ Ok(Loaded(prg, j))
                         /\ prg[j].load /\ prg[j].va % PAGESIZE = 0}}
    <3>1. PICK i \in {j \in 1 .. Len(prg) :
                         /\ Reaches(prg, j) /\ Ok(Loaded(prg, j))
                         /\ prg[j].load /\ prg[j].va % PAGESIZE = 0} :
             y \in {pagewalk(Loaded(prg, i), NewTable.r, prg[i].va \div PAGESIZE + k) :
                   k \in {j \in 0 .. Pages(prg[i].filesz) - 1 :
                            /\ ~HasPage(Loaded(prg, i), prg[i], j)
                            /\ \A e \in 0 .. j - 1 : HasPage(Loaded(prg, i), prg[i], e)}}
      BY <2>3
    <3>2. \E k \in 0 .. Pages(prg[i].filesz) - 1 :
            y = pagewalk(Loaded(prg, i), NewTable.r, prg[i].va \div PAGESIZE + k)
      BY <3>1
    <3>3. i \in 1 .. Len(prg) /\ Ok(Loaded(prg, i))
      BY <3>1
    <3> QED BY <3>2, <3>3
  <2> QED BY <2>1, <2>2, <2>3, Zenon DEF Failures
<1> QED BY <1>1, <1>2, <1>3, <1>4

-----------------------------------------------------------------------------
(* exec(), sbrk(), exit() and wait().                                      *)

\* An exec() that comes to nothing: its new space is given up.
LEMMA GivenUpSound ==
  ASSUME NEW m, NEW pr, NEW ls, NEW own, Sound(m, pr, ls, own), NEW y, NEW o1, NEW r, NEW S,
         Added(m, own, y, o1, r, {}, {r}, S), NEW x, NEW o, Dropped(y, o1, x, o, r)
  PROVE  Sound(x, pr, ls \cup (m.free \ x.free), o)
<1>1. /\ Holds(y, o1) /\ r \in Frames /\ own[r] = Nobody /\ o1[r] = r
      /\ \A e \in Frames : own[e] # Nobody => o1[e] = own[e]
      /\ \A e \in Frames : own[e] = Nobody => o1[e] \in {r, Nobody}
      /\ \A e \in Frames : o1[e] = Kernel <=> own[e] = Kernel
      /\ \A e \in Frames : o1[e] = e => own[e] = e \/ e = r
      /\ \A e \in Frames : own[e] = e => Mapped(y, e) = Mapped(m, e)
  BY DEF Added
<1>2. Spaces(m, pr, own) /\ Stacks(pr, ls, own) /\ Holds(m, own)
  BY DEF Sound
<1>4. /\ Holds(x, o) /\ o[r] \in {Nobody, Kernel}
      /\ \A e \in Frames : e # r => o[e] = IF o1[e] = r THEN Kernel ELSE o1[e]
      /\ \A q \in Frames : o1[q] = q /\ q # r => Mapped(x, q) = Mapped(y, q)
  BY DEF Dropped
<1>5. \A e \in Frames : own[e] # r
  BY <1>1, <1>2, HoldsFree, Numbers
<1>6. \A e \in Frames : /\ own[e] # Nobody => o[e] = own[e]
                        /\ own[e] = Nobody => o[e] \in {Kernel, Nobody}
  BY <1>1, <1>4, <1>5
<1>7. PICK L : L = ls \cup (m.free \ x.free)
  OBVIOUS
<1>8. /\ L \subseteq Frames
      /\ \A f \in Frames : f \in L <=> f \in ls \/ (own[f] = Nobody /\ o[f] # Nobody)
  <2>1. \A f \in Frames : f \in m.free <=> own[f] = Nobody
    BY <1>2, HoldsFree
  <2>2. \A f \in Frames : f \in x.free <=> o[f] = Nobody
    BY <1>4, HoldsFree
  <2>3. m.free \subseteq Frames /\ ls \subseteq Frames
    BY <1>2, HoldsFree DEF Stacks
  <2> QED BY <1>7, <2>1, <2>2, <2>3
<1>9. \A e \in Frames : own[e] = e => o[e] = e /\ Mapped(x, e) = Mapped(m, e)
  BY <1>1, <1>4, <1>6, Numbers
<1>10. \A e \in Frames : o[e] = e => own[e] = e
  BY <1>6, Numbers
<1>11. Spaces(x, pr, o)
  <2>1. ASSUME NEW p \in Procs, pr[p].state = "live"
        PROVE  InSpace(x, o, pr[p])
    <3>1. InSpace(m, own, pr[p])
      BY <1>2, <2>1 DEF Spaces
    <3>2. pr[p].pgt \in Frames
      BY <3>1 DEF InSpace
    <3> QED BY <1>9, <3>1, <3>2, InSpaceSame
  <2>2. \A e \in Frames : o[e] = e =>
           \E p \in Procs : pr[p].state = "live" /\ ~pr[p].th /\ pr[p].pgt = e
    BY <1>2, <1>10 DEF Spaces
  <2>3. Apart(pr)
    BY <1>2 DEF Spaces
  <2> QED BY <2>1, <2>2, <2>3 DEF Spaces
<1>12. Stacks(pr, L, o)
  <2>1. ASSUME NEW p \in Procs, pr[p].state # "unused"
        PROVE  pr[p].kstack \in Frames /\ pr[p].kstack \notin L
    <3>1. /\ pr[p].kstack \in Frames /\ pr[p].kstack \notin ls /\ own[pr[p].kstack] = Kernel
      BY <1>2, <2>1 DEF Stacks
    <3> QED BY <1>8, <3>1, Numbers
  <2>2. ASSUME NEW f \in Frames
        PROVE  o[f] = Kernel <=>
                 f \in L \/ \E p \in Procs : pr[p].state # "unused" /\ pr[p].kstack = f
    <3>1. own[f] = Kernel <=>
            f \in ls \/ \E p \in Procs : pr[p].state # "unused" /\ pr[p].kstack = f
      BY <1>2 DEF Stacks
    <3>2. f \in L <=> f \in ls \/ (own[f] = Nobody /\ o[f] # Nobody)
      BY <1>8
    <3>3. /\ own[f] # Nobody => o[f] = own[f]
          /\ own[f] = Nobody => o[f] \in {Kernel, Nobody}
      BY <1>6
    <3> QED BY <3>1, <3>2, <3>3, Numbers
  <2> QED BY <1>2, <1>8, <2>1, <2>2 DEF Stacks
<1>13. Sound(x, pr, L, o)
  BY <1>4, <1>11, <1>12, <1>2 DEF Sound
<1> QED BY <1>7, <1>13

\* sbrk(): the space of a process has grown; threads in it have what they had.
LEMMA SbrkSound ==
  ASSUME NEW m, NEW pr, NEW ls, NEW own, Sound(m, pr, ls, own), NEW p \in Procs,
         pr[p].state = "live", ~pr[p].th, NEW x, NEW o, NEW r, r = pr[p].pgt,
         NEW size, Room(size), SpaceMade(m, own, x, o, r, {r}, Region(size)),
         Mapped(m, r) \subseteq Region(size), NEW pr2, Resized(pr, pr2, p, r, size)
  PROVE  Sound(x, pr2, ls, o)
<1> USE DEF Resized
<1>1. Spaces(m, pr, own) /\ Stacks(pr, ls, own)
  BY DEF Sound
<1>2. r \in Frames /\ own[r] = r
  <2>1. InSpace(m, own, pr[p])
    BY <1>1 DEF Spaces
  <2> QED BY <2>1 DEF InSpace
<1>3. /\ Holds(x, o)
      /\ \A e \in Frames : o[e] = own[e] \/ (own[e] = Nobody /\ o[e] = r)
      /\ \A q \in Frames : own[q] = q => Mapped(x, q) = IF q = r THEN Region(size) ELSE Mapped(m, q)
  BY DEF SpaceMade, Grows
<1>4. \A e \in Frames : /\ own[e] = e <=> o[e] = e
                        /\ own[e] = Kernel <=> o[e] = Kernel
  BY <1>2, <1>3, Numbers
<1>5. ASSUME NEW q \in Procs, pr2[q].state = "live"
      PROVE  InSpace(x, o, pr2[q])
  <2>1. CASE q = p
    BY <1>2, <1>3, <1>4, <2>1 DEF InSpace
  <2>2. CASE q # p
    <3>1. pr2[q] = pr[q] /\ InSpace(m, own, pr[q])
      BY <1>1, <1>5, <2>2 DEF Spaces
    <3>2. PICK e \in Frames : e = pr[q].pgt /\ own[e] = e
      BY <3>1 DEF InSpace
    <3>3. CASE e # r
      <4>1. o[e] = e /\ Mapped(x, e) = Mapped(m, e)
        BY <1>3, <1>4, <3>2, <3>3
      <4> QED BY <3>1, <3>2, <4>1, InSpaceSame
    <3>4. CASE e = r
      <4>1. pr[q].th
        <5>1. Apart(pr)
          BY <1>1 DEF Spaces
        <5>2. pr[q].state = "live" /\ pr[q].pgt = pr[p].pgt
          BY <1>5, <3>1, <3>2, <3>4
        <5> QED BY <2>2, <5>1, <5>2 DEF Apart
      <4>2. Mapped(m, r) \subseteq Mapped(x, r) /\ o[r] = r
        BY <1>2, <1>3, <1>4
      <4> QED BY <3>1, <3>2, <3>4, <4>1, <4>2 DEF InSpace
    <3> QED BY <3>3, <3>4
  <2> QED BY <2>1, <2>2
<1>6. \A q \in Procs : /\ pr2[q].kstack = pr[q].kstack /\ pr2[q].state = pr[q].state
                       /\ pr2[q].pgt = pr[q].pgt /\ pr2[q].th = pr[q].th
  <2>1. ASSUME NEW q \in Procs
        PROVE  /\ pr2[q].kstack = pr[q].kstack /\ pr2[q].state = pr[q].state
               /\ pr2[q].pgt = pr[q].pgt /\ pr2[q].th = pr[q].th
    <3>1. CASE q = p
      BY <3>1
    <3>2. CASE q # p
      BY <3>2
    <3> QED BY <3>1, <3>2
  <2> QED BY <2>1
<1>7. Spaces(x, pr2, o)
  <2>1. ASSUME NEW e \in Frames, o[e] = e
        PROVE  \E q \in Procs : pr2[q].state = "live" /\ ~pr2[q].th /\ pr2[q].pgt = e
    <3>1. PICK q \in Procs : pr[q].state = "live" /\ ~pr[q].th /\ pr[q].pgt = e
      BY <1>1, <1>4, <2>1 DEF Spaces
    <3> QED BY <1>6, <3>1
  <2>2. Apart(pr2)
    BY <1>1, <1>6 DEF Spaces, Apart
  <2> QED BY <1>5, <2>1, <2>2 DEF Spaces
<1>8. Stacks(pr2, ls, o)
  BY <1>1, <1>4, <1>6 DEF Stacks
<1> QED BY <1>3, <1>7, <1>8 DEF Sound

\* A space has got tables.
LEMMA WalkedSound ==
  ASSUME NEW m, NEW pr, NEW ls, NEW own, Sound(m, pr, ls, own), NEW r \in Frames, own[r] = r,
         NEW x, NEW o, WalkedOnly(m, own, x, o, r)
  PROVE  Sound(x, pr, ls, o)
<1>1. Spaces(m, pr, own) /\ Stacks(pr, ls, own) /\ pr \in [Procs -> Slot]
  BY DEF Sound
<1>2. /\ Holds(x, o)
      /\ \A e \in Frames : o[e] = own[e] \/ (own[e] = Nobody /\ o[e] = r)
      /\ \A q \in Frames : own[q] = q => Mapped(x, q) = Mapped(m, q)
  BY DEF WalkedOnly, Grows
<1>3. \A e \in Frames : /\ own[e] = e <=> o[e] = e
                        /\ own[e] = Kernel <=> o[e] = Kernel
  BY <1>2, Numbers
<1>4. ASSUME NEW p \in Procs, pr[p].state = "live"
      PROVE  InSpace(x, o, pr[p])
  <2>1. InSpace(m, own, pr[p])
    BY <1>1, <1>4 DEF Spaces
  <2>2. pr[p].pgt \in Frames
    BY <2>1 DEF InSpace
  <2> QED BY <1>2, <1>3, <2>1, <2>2, InSpaceSame
<1>5. Spaces(x, pr, o)
  BY <1>1, <1>3, <1>4 DEF Spaces
<1>6. Stacks(pr, ls, o)
  BY <1>1, <1>3 DEF Stacks
<1> QED BY <1>1, <1>2, <1>5, <1>6 DEF Sound

\* Slot p becomes a zombie.
Exits(pr, pr2, p) ==
    /\ pr2 \in [Procs -> Slot] /\ pr2[p].state = "zombie" /\ pr2[p].kstack = pr[p].kstack
    /\ \A q \in Procs : q # p => pr2[q] = pr[q]

\* Its kernel stack stays.
LEMMA ExitStacks ==
  ASSUME NEW pr, NEW ls, NEW own, NEW o, Stacks(pr, ls, own), NEW p \in Procs,
         pr[p].state = "live", NEW pr2, Exits(pr, pr2, p),
         \A f \in Frames : o[f] = Kernel <=> own[f] = Kernel
  PROVE  Stacks(pr2, ls, o)
<1>1. ASSUME NEW q \in Procs
      PROVE  /\ pr2[q].kstack = pr[q].kstack
             /\ pr2[q].state # "unused" <=> pr[q].state # "unused"
  <2>1. CASE q = p
    BY <2>1 DEF Exits
  <2>2. CASE q # p
    BY <2>2 DEF Exits
  <2> QED BY <2>1, <2>2
<1> QED BY <1>1 DEF Stacks

\* The others are apart as they were.
LEMMA ExitApart ==
  ASSUME NEW pr, Apart(pr), NEW p \in Procs, NEW pr2, Exits(pr, pr2, p)
  PROVE  Apart(pr2)
<1>1. \A q \in Procs : pr2[q].state = "live" => pr2[q] = pr[q]
  <2>1. pr2[p].state # "live" /\ \A q \in Procs : q # p => pr2[q] = pr[q]
    BY DEF Exits
  <2> QED BY <2>1
<1> QED BY <1>1 DEF Apart

\* exit() of a thread
LEMMA ThreadSound ==
  ASSUME NEW m, NEW pr, NEW ls, NEW own, Sound(m, pr, ls, own), NEW p \in Procs,
         pr[p].state = "live", pr[p].th, NEW pr2, Exits(pr, pr2, p)
  PROVE  Sound(m, pr2, ls, own)
<1>1. Spaces(m, pr, own) /\ Stacks(pr, ls, own) /\ Holds(m, own)
  BY DEF Sound
<1>2. Stacks(pr2, ls, own)
  BY <1>1, ExitStacks
<1>3. \A q \in Procs : q # p => pr2[q] = pr[q]
  BY DEF Exits
<1>4. pr2[p].state # "live" /\ pr2 \in [Procs -> Slot]
  BY DEF Exits
<1>5. Spaces(m, pr2, own)
  <2>1. ASSUME NEW e \in Frames, own[e] = e
        PROVE  \E q \in Procs : pr2[q].state = "live" /\ ~pr2[q].th /\ pr2[q].pgt = e
    <3>1. PICK q \in Procs : pr[q].state = "live" /\ ~pr[q].th /\ pr[q].pgt = e
      BY <1>1, <2>1 DEF Spaces
    <3>2. q # p
      BY <3>1
    <3> QED BY <1>3, <3>1, <3>2
  <2>2. ASSUME NEW q \in Procs, pr2[q].state = "live"
        PROVE  InSpace(m, own, pr2[q])
    <3>1. pr2[q] = pr[q]
      BY <1>3, <1>4, <2>2
    <3> QED BY <1>1, <2>2, <3>1 DEF Spaces
  <2> QED BY <1>1, <2>1, <2>2, ExitApart DEF Spaces
<1> QED BY <1>1, <1>2, <1>4, <1>5 DEF Sound

\* exit() of a process alone in its space
LEMMA ExitSound ==
  ASSUME NEW m, NEW pr, NEW ls, NEW own, Sound(m, pr, ls, own), NEW p \in Procs,
         pr[p].state = "live", Alone(pr, p),
         NEW x, x = free_userspace(m, pr[p].pgt, pr[p].size), x.st # "oom",
         NEW pr2, Exits(pr, pr2, p)
  PROVE  \E o : Sound(x, pr2, ls, o)
<1>1. Spaces(m, pr, own) /\ Stacks(pr, ls, own) /\ Holds(m, own)
  BY DEF Sound
<1>2. PICK old \in Frames, size \in Nat : /\ old = pr[p].pgt /\ size = pr[p].size /\ own[old] = old
                                          /\ Room(size) /\ Mapped(m, old) = Region(size)
  <2>1. InSpace(m, own, pr[p]) /\ ~pr[p].th
    BY <1>1, AloneOwns DEF Spaces
  <2> QED BY <2>1 DEF InSpace, Room
<1>3. PICK o : o = [f \in Frames |-> IF own[f] = old THEN Nobody ELSE own[f]]
  OBVIOUS
<1>4. /\ Holds(x, o)
      /\ \A q \in Frames : own[q] = q /\ q # old => Mapped(x, q) = Mapped(m, q)
  BY <1>1, <1>2, <1>3, FreeSpace
<1>5. \A f \in Frames : o[f] = IF own[f] = old THEN Nobody ELSE own[f]
  BY <1>3
<1>6. \A f \in Frames : o[f] = Kernel <=> own[f] = Kernel
  BY <1>2, <1>5, Numbers
<1>7. Stacks(pr2, ls, o)
  BY <1>1, <1>6, ExitStacks
<1>8. \A q \in Procs : q # p => pr2[q] = pr[q]
  BY DEF Exits
<1>9. pr2[p].state # "live" /\ pr2 \in [Procs -> Slot]
  BY DEF Exits
<1>10. Spaces(x, pr2, o)
  <2>1. ASSUME NEW e \in Frames, o[e] = e
        PROVE  \E q \in Procs : pr2[q].state = "live" /\ ~pr2[q].th /\ pr2[q].pgt = e
    <3>0. own[e] = e /\ e # old
      BY <1>5, <2>1, Numbers
    <3>1. PICK q \in Procs : pr[q].state = "live" /\ ~pr[q].th /\ pr[q].pgt = e
      BY <1>1, <3>0 DEF Spaces
    <3>2. q # p
      BY <1>2, <3>0, <3>1
    <3> QED BY <1>8, <3>1, <3>2
  <2>2. ASSUME NEW q \in Procs, pr2[q].state = "live"
        PROVE  InSpace(x, o, pr2[q])
    <3>1. pr2[q] = pr[q] /\ q # p /\ InSpace(m, own, pr[q])
      <4>1. pr2[q] = pr[q] /\ q # p
        BY <1>8, <1>9, <2>2
      <4> QED BY <1>1, <2>2, <4>1 DEF Spaces
    <3>2. PICK e \in Frames : e = pr[q].pgt /\ own[e] = e
      BY <3>1 DEF InSpace
    <3>3. e # old
      BY <1>2, <2>2, <3>1, <3>2 DEF Alone
    <3>4. o[e] = e /\ Mapped(x, e) = Mapped(m, e)
      BY <1>4, <1>5, <3>2, <3>3
    <3> QED BY <3>1, <3>2, <3>4, InSpaceSame
  <2> QED BY <1>1, <2>1, <2>2, ExitApart DEF Spaces
<1>11. Sound(x, pr2, ls, o)
  BY <1>4, <1>7, <1>9, <1>10 DEF Sound
<1> QED BY <1>11

\* freeproc(): the kernel stack of a zombie is free, and its slot.
LEMMA ReapSound ==
  ASSUME NEW m, NEW pr, NEW ls, NEW own, Sound(m, pr, ls, own), NEW q \in Procs,
         pr[q].state = "zombie", NEW x, x = kfree(m, pr[q].kstack),
         NEW s, s.state = "unused", NEW pr2, SetSlot(pr, pr2, q, s)
  PROVE  \E o : Sound(x, pr2, ls, o)
<1>1. Spaces(m, pr, own) /\ Stacks(pr, ls, own) /\ Holds(m, own)
  BY DEF Sound
<1>2. PICK k \in Frames : k = pr[q].kstack /\ own[k] = Kernel /\ k \notin ls
  BY <1>1 DEF Stacks
<1>3. PICK o : Returned(m, own, x, o, k)
  BY <1>1, <1>2, ReturnFrame
<1>4. /\ Holds(x, o) /\ o[k] = Nobody /\ \A e \in Frames : e # k => o[e] = own[e]
      /\ \A e \in Frames : own[e] = e => Mapped(x, e) = Mapped(m, e)
  BY <1>3 DEF Returned
<1>5. pr2 \in [Procs -> Slot] /\ pr2[q].state = "unused"
      /\ \A p \in Procs : p # q => pr2[p] = pr[p]
  BY DEF SetSlot
<1>6. \A p \in Procs : pr2[p].state = "live" => p # q /\ pr2[p] = pr[p]
  BY <1>5
<1>7. Spaces(x, pr2, o)
  <2>1. ASSUME NEW e \in Frames, o[e] = e
        PROVE  \E p \in Procs : pr2[p].state = "live" /\ ~pr2[p].th /\ pr2[p].pgt = e
    <3>0. own[e] = e
      BY <1>4, <2>1, Numbers
    <3>1. PICK p \in Procs : pr[p].state = "live" /\ ~pr[p].th /\ pr[p].pgt = e
      BY <1>1, <3>0 DEF Spaces
    <3>2. p # q
      BY <3>1
    <3> QED BY <1>5, <3>1, <3>2
  <2>2. ASSUME NEW p \in Procs, pr2[p].state = "live"
        PROVE  InSpace(x, o, pr2[p])
    <3>1. pr2[p] = pr[p] /\ InSpace(m, own, pr[p])
      BY <1>1, <1>6, <2>2 DEF Spaces
    <3>2. PICK e \in Frames : e = pr[p].pgt /\ own[e] = e
      BY <3>1 DEF InSpace
    <3>3. o[e] = e /\ Mapped(x, e) = Mapped(m, e)
      BY <1>2, <1>4, <3>2, Numbers
    <3> QED BY <3>1, <3>2, <3>3, InSpaceSame
  <2>3. Apart(pr2)
    BY <1>1, <1>6 DEF Spaces, Apart
  <2> QED BY <2>1, <2>2, <2>3 DEF Spaces
<1>8. Stacks(pr2, ls, o)
  <2>0. \A p \in Procs : pr2[p].state # "unused" => p # q /\ pr2[p] = pr[p]
    BY <1>5
  <2>1. \A p \in Procs : pr2[p].state # "unused" =>
           pr2[p].kstack \in Frames /\ pr2[p].kstack \notin ls
    BY <1>1, <2>0 DEF Stacks
  <2>2. \A p, t \in Procs : pr2[p].state # "unused" /\ pr2[t].state # "unused"
                            /\ pr2[p].kstack = pr2[t].kstack => p = t
    BY <1>1, <2>0 DEF Stacks
  <2>3. ASSUME NEW f \in Frames
        PROVE  o[f] = Kernel <=>
                 f \in ls \/ \E p \in Procs : pr2[p].state # "unused" /\ pr2[p].kstack = f
    <3>1. own[f] = Kernel <=>
            f \in ls \/ \E p \in Procs : pr[p].state # "unused" /\ pr[p].kstack = f
      BY <1>1 DEF Stacks
    <3>2. (\E p \in Procs : pr2[p].state # "unused" /\ pr2[p].kstack = f)
          <=> f # k /\ \E p \in Procs : pr[p].state # "unused" /\ pr[p].kstack = f
      BY <1>1, <1>2, <1>5, <2>0 DEF Stacks
    <3> QED BY <1>2, <1>4, <3>1, <3>2, Numbers
  <2> QED BY <1>1, <2>1, <2>2, <2>3 DEF Stacks
<1> QED BY <1>4, <1>5, <1>7, <1>8 DEF Sound

-----------------------------------------------------------------------------
(* The invariant of the system.                                            *)

\* While no frame was missing and no call misused, each frame has an owner.
MmInv == NoPanic /\ (Good => \E own : Sound(mem, proc, lost, own))

\* A step has left the processes sound, or there is no more to show.
LEMMA StepDone ==
  ASSUME mem'.st = "oom" \/ misused' \/ \E own : Sound(mem', proc', lost', own)
  PROVE  MmInv'
<1>1. CASE mem'.st = "oom"
  BY <1>1 DEF MmInv, NoPanic, Good, Ok
<1>2. CASE misused'
  BY <1>2 DEF MmInv, NoPanic, Good
<1>3. CASE \E own : Sound(mem', proc', lost', own)
  <2>1. mem'.st = "ok"
    BY <1>3 DEF Sound, Holds, Ok
  <2> QED BY <1>3, <2>1 DEF MmInv, NoPanic
<1> QED BY <1>1, <1>2, <1>3

\* Every size a process can have leaves room.
LEMMA RoomSizes ==
  ASSUME NEW size \in (0 .. MaxSize) \cup {InitSize}
  PROVE  Room(size)
<1>1. size \in Nat
  BY SizesAssumption DEF InitSize
<1> QED BY <1>1, RoomAssumption DEF Room

\* The slot of a process after exec() and after sbrk()
LEMMA ExecSlot ==
  ASSUME NEW pr \in [Procs -> Slot], NEW p \in Procs, NEW r \in Frames, NEW size \in Nat
  PROVE  Resized(pr, [pr EXCEPT ![p].pgt = r, ![p].size = size], p, r, size)
<1>0. PICK pr2 : pr2 = [pr EXCEPT ![p].pgt = r, ![p].size = size]
  OBVIOUS
<1>1. PICK s : s = [pr[p] EXCEPT !.pgt = r, !.size = size]
  OBVIOUS
<1>2. pr[p] \in Slot
  OBVIOUS
<1>3. /\ s \in Slot /\ s.state = pr[p].state /\ s.pgt = r /\ s.size = size
      /\ s.kstack = pr[p].kstack
  BY <1>1, <1>2 DEF Slot
<1>4. s.th = pr[p].th
  BY <1>1, <1>2, Zenon DEF Slot
<1>5. pr2 = [pr EXCEPT ![p] = s]
  BY <1>0, <1>1
<1>6. pr2[p] = s /\ pr2 \in [Procs -> Slot] /\ \A q \in Procs : q # p => pr2[q] = pr[q]
  BY <1>3, <1>5
<1>7. Resized(pr, pr2, p, r, size)
  BY <1>3, <1>4, <1>6 DEF Resized
<1> QED BY <1>0, <1>7

\* A process has a space.
LEMMA LiveSpace ==
  ASSUME NEW m, NEW pr, NEW ls, NEW own, Sound(m, pr, ls, own), NEW p \in Procs,
         pr[p].state = "live"
  PROVE  /\ pr[p].pgt \in Frames /\ own[pr[p].pgt] = pr[p].pgt
         /\ Room(pr[p].size) /\ pr[p].size \in Nat
         /\ Region(pr[p].size) \subseteq Mapped(m, pr[p].pgt)
         /\ ~pr[p].th => Mapped(m, pr[p].pgt) = Region(pr[p].size)
<1>1. InSpace(m, own, pr[p])
  BY DEF Sound, Spaces
<1> QED BY <1>1 DEF InSpace, Room

\* A process becomes a zombie.
LEMMA ExitSlot ==
  ASSUME NEW pr \in [Procs -> Slot], NEW p \in Procs
  PROVE  Exits(pr, [pr EXCEPT ![p].state = "zombie"], p)
<1>0. PICK pr2 : pr2 = [pr EXCEPT ![p].state = "zombie"]
  OBVIOUS
<1>1. PICK s : s = [pr[p] EXCEPT !.state = "zombie"]
  OBVIOUS
<1>2. pr[p] \in Slot
  OBVIOUS
<1>3. s \in Slot /\ s.state = "zombie" /\ s.kstack = pr[p].kstack
  BY <1>1, <1>2 DEF Slot
<1>4. pr2 = [pr EXCEPT ![p] = s]
  BY <1>0, <1>1
<1>5. Exits(pr, pr2, p)
  BY <1>3, <1>4 DEF Exits
<1> QED BY <1>0, <1>5

\* fork() keeps the invariant.
LEMMA ForkStep ==
  ASSUME MmInv, Good, NEW p \in Procs, proc[p].state = "live", NEW q \in Procs, fork(p, q)
  PROVE  MmInv'
<1>1. PICK own : Sound(mem, proc, lost, own)
  BY DEF MmInv
<1>2. PICK n : n = newproc(mem)
  OBVIOUS
<1>3. PICK x : x = cp_userspace(n.m, n.pgt, proc[p].pgt, proc[p].size)
  OBVIOUS
<1>4. /\ proc[q].state = "unused" /\ mem' = x /\ lost' = lost
      /\ proc' = IF Ok(x) THEN [proc EXCEPT ![q] = Owner(n.pgt, proc[p].size, n.kstack)] ELSE proc
  BY <1>2, <1>3 DEF fork, Owner
<1>5. CASE x.st = "oom"
  BY <1>4, <1>5, StepDone
<1>6. CASE x.st # "oom"
  <2>1. PICK pr2 : pr2 = [proc EXCEPT ![q] = Owner(n.pgt, proc[p].size, n.kstack)]
    OBVIOUS
  <2>2. PICK o : Sound(x, pr2, lost, o)
    BY <1>1, <1>2, <1>3, <1>4, <1>6, <2>1, ForkSound
  <2>3. proc' = pr2
    BY <1>4, <2>1, <2>2 DEF Sound, Holds
  <2> QED BY <1>4, <2>2, <2>3, StepDone
<1> QED BY <1>5, <1>6

\* clone() keeps the invariant.
LEMMA CloneStep ==
  ASSUME MmInv, Good, NEW p \in Procs, proc[p].state = "live", NEW q \in Procs, clone(p, q)
  PROVE  MmInv'
<1>1. PICK own : Sound(mem, proc, lost, own)
  BY DEF MmInv
<1>2. PICK n : n = newproc(mem)
  OBVIOUS
<1>3. PICK s : s = [state |-> "live", pgt |-> proc[p].pgt, size |-> proc[p].size,
                    kstack |-> n.kstack, th |-> TRUE]
  OBVIOUS
<1>4. /\ proc[q].state = "unused" /\ mem' = n.m
      /\ proc' = IF Ok(n.m) THEN [proc EXCEPT ![q] = s] ELSE proc
      /\ lost' = IF Ok(n.m) THEN lost \cup {n.pgt} ELSE lost
  BY <1>2, <1>3 DEF clone
<1>5. CASE n.m.st = "oom"
  BY <1>4, <1>5, StepDone
<1>6. CASE n.m.st # "oom"
  <2>0. Holds(mem, own) /\ proc \in [Procs -> Slot] /\ proc[p].pgt \in Frames /\ Room(proc[p].size)
    BY <1>1, LiveSpace DEF Sound
  <2>1. PICK o : Began(mem, own, n.m, o, n.pgt, {n.kstack})
    BY <1>2, <1>6, <2>0, NewProc
  <2>2. Ok(n.m) /\ n.kstack \in Frames
    BY <2>1 DEF Began, Holds
  <2>3. /\ s \in Slot /\ s.state = "live" /\ s.pgt = proc[p].pgt /\ s.size = proc[p].size
        /\ s.kstack = n.kstack /\ s.th = TRUE
    BY <1>3, <2>0, <2>2 DEF Slot, Room
  <2>4. PICK pr2 : pr2 = [proc EXCEPT ![q] = s]
    OBVIOUS
  <2>5. SetSlot(proc, pr2, q, s)
    BY <2>0, <2>3, <2>4, SlotIs
  <2>6. Sound(n.m, pr2, lost \cup {n.pgt}, o)
    <3>1. PICK x, r, k : x = n.m /\ r = n.pgt /\ k = n.kstack
      OBVIOUS
    <3>2. Began(mem, own, x, o, r, {k}) /\ s.kstack = k
      BY <2>1, <2>3, <3>1
    <3>3. Sound(x, pr2, lost \cup {r}, o)
      BY <1>1, <1>4, <2>3, <2>5, <3>2, CloneSound
    <3> QED BY <3>1, <3>3
  <2>7. proc' = pr2 /\ lost' = lost \cup {n.pgt}
    BY <1>4, <2>2, <2>4
  <2> QED BY <1>4, <2>6, <2>7, StepDone
<1> QED BY <1>5, <1>6

\* wait() keeps the invariant.
LEMMA ReapStep ==
  ASSUME MmInv, Good, NEW q \in Procs, freeproc(q)
  PROVE  MmInv'
<1>1. PICK own : Sound(mem, proc, lost, own)
  BY DEF MmInv
<1>2. /\ proc[q].state = "zombie" /\ mem' = kfree(mem, proc[q].kstack)
      /\ proc' = [proc EXCEPT ![q] = NoProc] /\ lost' = lost
  BY DEF freeproc
<1>3. NoProc \in Slot /\ NoProc.state = "unused"
  BY DEF NoProc, Slot
<1>4. proc \in [Procs -> Slot]
  BY <1>1 DEF Sound
<1>5. SetSlot(proc, proc', q, NoProc)
  BY <1>2, <1>3, <1>4, SlotIs
<1>6. \E o : Sound(mem', proc', lost, o)
  BY <1>1, <1>2, <1>3, <1>5, ReapSound
<1> QED BY <1>2, <1>6, StepDone

\* What exec() maps for a program whose segments are laid out as it expects
LEMMA LaidRegion ==
  ASSUME NEW prg \in Programs, Laid(prg)
  PROVE  /\ Mappable(prg) /\ memsize(prg) \in Nat /\ Room(memsize(prg))
         /\ {USTACK} \cup Covered(prg, Len(prg)) = Region(memsize(prg))
<1>1. memsize(prg) \in Nat
  BY SumType
<1>2. Covered(prg, Len(prg)) = USER .. USER + Pages(memsize(prg)) - 1
  BY DEF Laid, Covered
<1> QED BY <1>1, <1>2 DEF Laid, Room, Region

\* exec() keeps the invariant.
LEMMA ExecStep ==
  ASSUME MmInv, Good, NEW p \in Procs, proc[p].state = "live", NEW prg \in Programs,
         exec(p, prg)
  PROVE  MmInv'
<1>1. PICK own : Sound(mem, proc, lost, own)
  BY DEF MmInv
<1>2. PICK y, r, size : y = NewSpace(prg) /\ r = NewTable.r /\ size = memsize(prg)
  OBVIOUS
<1>3. PICK x : x = free_userspace(y, proc[p].pgt, proc[p].size)
  OBVIOUS
<1>4. /\ mem' = x /\ lost' = lost
      /\ misused' = (misused \/ proc[p].th \/ Sharers(p) # {} \/ ~Laid(prg))
      /\ proc' = IF Ok(x) THEN [proc EXCEPT ![p].pgt = r, ![p].size = size] ELSE proc
  BY <1>2, <1>3 DEF exec
<1>5. CASE x.st = "oom"
  BY <1>4, <1>5, StepDone
<1>6. CASE Sharers(p) # {} \/ ~Laid(prg)
  BY <1>4, <1>6, StepDone
<1>7. CASE x.st # "oom" /\ Sharers(p) = {} /\ Laid(prg)
  <2>1. Alone(proc, p)
    BY <1>7 DEF Alone, Sharers
  <2>2. Holds(mem, own) /\ proc \in [Procs -> Slot] /\ proc[p].size \in Nat
    BY <1>1, LiveSpace DEF Sound
  <2>3. /\ Mappable(prg) /\ size \in Nat /\ Room(size)
        /\ {USTACK} \cup Covered(prg, Len(prg)) = Region(size)
    BY <1>2, <1>7, LaidRegion
  <2>4. y.st # "oom"
    BY <1>3, <1>7, <2>2, DeadSpace
  <2>5. PICK o1 : Added(mem, own, y, o1, r, {}, {r}, Region(size))
    BY <1>2, <2>2, <2>3, <2>4, NewSpaceAdded
  <2>6. r \in Frames
    BY <2>5 DEF Added
  <2>7. PICK pr2 : pr2 = [proc EXCEPT ![p].pgt = r, ![p].size = size]
    OBVIOUS
  <2>8. Resized(proc, pr2, p, r, size)
    BY <2>2, <2>3, <2>6, <2>7, ExecSlot
  <2>9. PICK A : A = {r}
    OBVIOUS
  <2>10. PICK o : Sound(x, pr2, lost, o)
    BY <1>1, <1>3, <1>7, <2>1, <2>3, <2>5, <2>8, <2>9, ExecSound
  <2>11. proc' = pr2
    BY <1>4, <2>7, <2>10 DEF Sound, Holds
  <2> QED BY <1>4, <2>10, <2>11, StepDone
<1> QED BY <1>5, <1>6, <1>7

\* An exec() that fails keeps the invariant.
LEMMA ExecFailsStep ==
  ASSUME MmInv, Good, NEW prg \in Programs, execFails(prg)
  PROVE  MmInv'
<1>1. PICK own : Sound(mem, proc, lost, own)
  BY DEF MmInv
<1>2. PICK y \in Failures(prg) :
         /\ mem' = kfree(y, NewTable.r) /\ lost' = lost \cup (mem.free \ mem'.free)
         /\ misused' = (misused \/ ~Mappable(prg)) /\ proc' = proc
  BY Zenon DEF execFails
<1>3. CASE y.st = "oom"
  <2>1. mem'.st = "oom"
    BY <1>2, <1>3, DeadSpace
  <2> QED BY <2>1, StepDone
<1>4. CASE ~Mappable(prg)
  BY <1>2, <1>4, StepDone
<1>5. CASE y.st # "oom" /\ Mappable(prg)
  <2>1. Holds(mem, own)
    BY <1>1 DEF Sound
  <2>2. PICK r : r = NewTable.r
    OBVIOUS
  <2>3. PICK o1, S : Added(mem, own, y, o1, r, {}, {r}, S)
    BY <1>5, <2>1, <2>2, FailureAdded
  <2>4. PICK x : x = kfree(y, r)
    OBVIOUS
  <2>5. Holds(y, o1) /\ r \in Frames /\ o1[r] = r
    BY <2>3 DEF Added
  <2>6. PICK o : Dropped(y, o1, x, o, r)
    BY <2>4, <2>5, DropRoot
  <2>7. Sound(x, proc, lost \cup (mem.free \ x.free), o)
    BY <1>1, <2>3, <2>6, GivenUpSound
  <2>8. mem' = x /\ lost' = lost \cup (mem.free \ x.free)
    BY <1>2, <2>2, <2>4
  <2> QED BY <1>2, <2>7, <2>8, StepDone
<1> QED BY <1>3, <1>4, <1>5

\* A process ends with m and L what is left of its call.
LEMMA ExitprocStep ==
  ASSUME NEW m, NEW L, NEW own, Sound(m, proc, L, own), NEW p \in Procs,
         proc[p].state = "live", exitproc(p, m), lost' = L,
         misused' \/ proc[p].th \/ Sharers(p) = {}
  PROVE  MmInv'
<1>1. PICK x : x = free_userspace(m, proc[p].pgt, proc[p].size)
  OBVIOUS
<1>2. /\ mem' = IF proc[p].th THEN m ELSE x
      /\ proc' = [proc EXCEPT ![p].state = "zombie"]
  BY <1>1 DEF exitproc
<1>3. proc \in [Procs -> Slot]
  BY DEF Sound
<1>4. Exits(proc, proc', p)
  BY <1>2, <1>3, ExitSlot
<1>5. CASE proc[p].th
  <2>1. Sound(m, proc', L, own)
    BY <1>4, <1>5, ThreadSound
  <2> QED BY <1>2, <1>5, <2>1, StepDone
<1>6. CASE misused'
  BY <1>6, StepDone
<1>7. CASE ~proc[p].th /\ Sharers(p) = {}
  <2>1. Alone(proc, p)
    BY <1>7 DEF Alone, Sharers
  <2>2. CASE x.st = "oom"
    BY <1>2, <1>7, <2>2, StepDone
  <2>3. CASE x.st # "oom"
    <3>1. \E o : Sound(x, proc', L, o)
      BY <1>1, <1>4, <2>1, <2>3, ExitSound
    <3> QED BY <1>2, <1>7, <3>1, StepDone
  <2> QED BY <2>2, <2>3
<1> QED BY <1>5, <1>6, <1>7

\* exit() keeps the invariant.
LEMMA ExitStep ==
  ASSUME MmInv, Good, NEW p \in Procs, proc[p].state = "live", exit(p)
  PROVE  MmInv'
<1>1. PICK own : Sound(mem, proc, lost, own)
  BY DEF MmInv
<1>2. /\ exitproc(p, mem) /\ lost' = lost
      /\ misused' = (misused \/ (~proc[p].th /\ Sharers(p) # {}))
  BY DEF exit
<1>3. misused' \/ proc[p].th \/ Sharers(p) = {}
  BY <1>2
<1> QED BY <1>1, <1>2, <1>3, ExitprocStep

\* An exec() that a signal ends keeps the invariant.
LEMMA ExecKilledStep ==
  ASSUME MmInv, Good, NEW p \in Procs, proc[p].state = "live", NEW prg \in Programs,
         execKilled(p, prg)
  PROVE  MmInv'
<1>1. PICK own : Sound(mem, proc, lost, own)
  BY DEF MmInv
<1>2. PICK i \in 0 .. Len(prg) :
         /\ exitproc(p, Loaded(prg, i)) /\ lost' = lost \cup (mem.free \ Loaded(prg, i).free)
         /\ misused' = (misused \/ (~proc[p].th /\ Sharers(p) # {}) \/ ~Mappable(prg))
  BY Zenon DEF execKilled
<1>3. PICK y : y = Loaded(prg, i)
  OBVIOUS
<1>4. exitproc(p, y) /\ lost' = lost \cup (mem.free \ y.free)
  BY <1>2, <1>3
<1>5. misused' \/ proc[p].th \/ Sharers(p) = {}
  BY <1>2
<1>6. CASE y.st = "oom"
  <2>1. proc[p].size \in Nat
    BY <1>1, LiveSpace
  <2>2. mem'.st = "oom"
    BY <1>4, <1>6, <2>1, DeadSpace DEF exitproc
  <2> QED BY <2>2, StepDone
<1>7. CASE ~Mappable(prg)
  BY <1>2, <1>7, StepDone
<1>8. CASE y.st # "oom" /\ Mappable(prg)
  <2>1. Holds(mem, own)
    BY <1>1 DEF Sound
  <2>2. PICK r : r = NewTable.r
    OBVIOUS
  <2>3. PICK o1, S : Added(mem, own, y, o1, r, {}, {r}, S)
    BY <1>3, <1>8, <2>1, <2>2, LoadedAdded
  <2>4. Holds(y, o1) /\ r \in Frames /\ o1[r] = r
    BY <2>3 DEF Added
  <2>5. PICK o : Dropped(y, o1, y, o, r)
    BY <2>4, LoseRoot
  <2>6. Sound(y, proc, lost \cup (mem.free \ y.free), o)
    BY <1>1, <2>3, <2>5, GivenUpSound
  <2> QED BY <1>4, <1>5, <2>6, ExitprocStep
<1> QED BY <1>6, <1>7, <1>8

\* csread() keeps the invariant.
LEMMA Uva2kaStep ==
  ASSUME MmInv, Good, NEW p \in Procs, proc[p].state = "live", NEW vpn \in Vpns, uva2ka(p, vpn)
  PROVE  MmInv'
<1>1. PICK own : Sound(mem, proc, lost, own)
  BY DEF MmInv
<1>2. PICK r \in Frames : r = proc[p].pgt /\ own[r] = r
  BY <1>1, LiveSpace
<1>3. mem' = pagewalk(mem, r, vpn) /\ proc' = proc /\ lost' = lost
  BY <1>2 DEF uva2ka
<1>4. Holds(mem, own) /\ vpn \in Nat
  BY <1>1, VpnsNat DEF Sound
<1>5. CASE mem'.st # "oom"
  <2>1. PICK o : WalkedOnly(mem, own, mem', o, r)
    BY <1>2, <1>3, <1>4, <1>5, PagewalkHolds
  <2>2. Sound(mem', proc, lost, o)
    BY <1>1, <1>2, <2>1, WalkedSound
  <2> QED BY <1>3, <2>2, StepDone
<1> QED BY <1>5, StepDone

\* sbrk() keeps the invariant.
LEMMA SbrkStep ==
  ASSUME MmInv, Good, NEW p \in Procs, proc[p].state = "live", NEW incr \in Incrs, sbrk(p, incr)
  PROVE  MmInv'
<1>1. PICK own : Sound(mem, proc, lost, own)
  BY DEF MmInv
<1>2. PICK r \in Frames, old \in Nat : /\ r = proc[p].pgt /\ old = proc[p].size
                                       /\ own[r] = r /\ Room(old)
  BY <1>1, LiveSpace
<1>3. PICK new : new = old + incr
  OBVIOUS
<1>4. /\ new \in 0 .. MaxSize
      /\ mem' = IF incr > 0 THEN grow_userspace(mem, r, old, new) ELSE mem
      /\ proc' = [proc EXCEPT ![p].size = new]
      /\ misused' = (misused \/ incr < 0 \/ (incr > 0 /\ proc[p].th)) /\ lost' = lost
  BY <1>2, <1>3 DEF sbrk
<1>5. incr \in Int /\ Room(new) /\ new \in Nat
  BY <1>4, RoomSizes, SizesAssumption DEF Room
<1>6. Holds(mem, own) /\ proc \in [Procs -> Slot] /\ proc[p] \in Slot
  BY <1>1 DEF Sound
<1>7. CASE incr < 0 \/ (incr > 0 /\ proc[p].th)
  BY <1>4, <1>7, StepDone
<1>8. CASE mem'.st = "oom"
  BY <1>8, StepDone
<1>9. CASE incr = 0
  <2>1. mem' = mem /\ new = old
    BY <1>3, <1>4, <1>9
  <2>2. [proc[p] EXCEPT !.size = old] = proc[p]
    BY <1>2, <1>6 DEF Slot
  <2>3. proc' = proc
    BY <1>4, <1>6, <2>1, <2>2
  <2> QED BY <1>1, <1>4, <2>1, <2>3, StepDone
<1>10. CASE mem'.st # "oom" /\ incr > 0 /\ ~proc[p].th
  <2>1. Mapped(mem, r) = Region(old) /\ old <= new
    BY <1>1, <1>2, <1>3, <1>5, <1>10, LiveSpace
  <2>2. PICK x : x = mem' /\ x = grow_userspace(mem, r, old, new)
    BY <1>4, <1>10
  <2>3. PICK o : SpaceMade(mem, own, x, o, r, {r}, Region(new))
    BY <1>2, <1>5, <1>6, <1>10, <2>1, <2>2, GrowSpace
  <2>4. PICK pr2 : pr2 = [proc EXCEPT ![p].pgt = r, ![p].size = new]
    OBVIOUS
  <2>5. proc' = pr2
    <3>1. [proc[p] EXCEPT !.size = new] = [proc[p] EXCEPT !.pgt = r, !.size = new]
      BY <1>2, <1>6 DEF Slot
    <3> QED BY <1>4, <1>6, <2>4, <3>1
  <2>6. Resized(proc, pr2, p, r, new)
    BY <1>5, <1>6, <2>4, ExecSlot
  <2>7. Mapped(mem, r) \subseteq Region(new)
    <3>1. PICK a \in Nat, b \in Nat : a = Pages(old) /\ b = Pages(new) /\ a <= b
      BY <1>2, <1>5, <2>1, PagesType, PagesMono
    <3> QED BY <2>1, <3>1 DEF Region, USER
  <2>8. Sound(x, pr2, lost, o)
    BY <1>1, <1>2, <1>5, <1>10, <2>3, <2>6, <2>7, SbrkSound
  <2> QED BY <1>4, <2>2, <2>5, <2>8, StepDone
<1> QED BY <1>5, <1>7, <1>8, <1>9, <1>10

\* Before the first process every frame is free.
LEMMA EmptySound ==
  ASSUME NEW m, m = [free |-> Frames, ent |-> [f \in Frames |-> Zero], st |-> "ok", r |-> NULL],
         NEW pr, pr = [p \in Procs |-> NoProc]
  PROVE  \E own : Sound(m, pr, {}, own)
<1>1. PICK own : own = [f \in Frames |-> Nobody]
  OBVIOUS
<1>2. PICK g : g = [lv |-> [f \in Frames |-> 1], up |-> [f \in Frames |-> f],
                    ix |-> [f \in Frames |-> 0]]
  OBVIOUS
<1>3. 0 \in Entries /\ 1 \in 1 .. 4
  BY NENTAssumption DEF Entries
<1>4. g \in Places
  BY <1>2, <1>3 DEF Places
<1>5. own \in [Frames -> Owners] /\ \A f \in Frames : own[f] = Nobody
  BY <1>1 DEF Owners
<1>6. m \in Mem /\ m.st = "ok" /\ m.free = Frames
  <2>1. PICK e \in [Frames -> [Entries -> Entry]] : e = [f \in Frames |-> Zero]
    BY EntryFacts
  <2>2. m = [free |-> Frames, ent |-> e, st |-> "ok", r |-> NULL]
    BY <2>1
  <2> QED BY <2>2 DEF Mem
<1>7. Tree(m, own, g)
  BY <1>4, <1>5, <1>6, Numbers DEF Tree, TreeType, TreeFree, TreeDown, TreeUp, TreeRoot
<1>8. Holds(m, own)
  BY <1>6, <1>7 DEF Holds, Ok
<1>9. NoProc \in Slot /\ NoProc.state = "unused"
  BY DEF NoProc, Slot
<1>10. pr \in [Procs -> Slot] /\ \A p \in Procs : pr[p].state = "unused"
  BY <1>9
<1>11. Spaces(m, pr, own)
  BY <1>5, <1>10, Numbers DEF Spaces, Apart
<1>12. Stacks(pr, {}, own)
  BY <1>5, <1>10, Numbers DEF Stacks
<1>13. Sound(m, pr, {}, own)
  BY <1>8, <1>10, <1>11, <1>12 DEF Sound
<1> QED BY <1>13

\* The first process has been made.
LEMMA InitSound ==
  ASSUME Init
  PROVE  MmInv
<1>1. PICK m : m = [free |-> Frames, ent |-> [f \in Frames |-> Zero], st |-> "ok", r |-> NULL]
  OBVIOUS
<1>2. PICK pr : pr = [p \in Procs |-> NoProc]
  OBVIOUS
<1>3. PICK own : Sound(m, pr, {}, own)
  BY <1>1, <1>2, EmptySound
<1>4. PICK n : n = newproc(m)
  OBVIOUS
<1>5. PICK x : x = map_ustack(init_userspace(n.m, n.pgt, InitSize), n.pgt)
  OBVIOUS
<1>6. PICK s : s = Owner(n.pgt, InitSize, n.kstack)
  OBVIOUS
<1>7. mem = x /\ lost = {} /\ misused = FALSE
      /\ proc = [p \in Procs |-> IF p = First THEN s ELSE NoProc]
  BY <1>1, <1>4, <1>5, <1>6 DEF Init, Owner
<1>8. First \in Procs /\ pr[First].state = "unused" /\ Room(InitSize)
  BY <1>2, ProcsAssumption, BootRoom DEF NoProc
<1>9. PICK pr2 : pr2 = [pr EXCEPT ![First] = s]
  OBVIOUS
<1>10. proc = pr2
  BY <1>2, <1>7, <1>9
<1>11. CASE x.st = "oom"
  BY <1>7, <1>11 DEF MmInv, NoPanic, Good, Ok
<1>12. CASE x.st # "oom"
  <2>1. \E o : Sound(x, pr2, {}, o)
    BY <1>3, <1>4, <1>5, <1>6, <1>8, <1>9, <1>12, BootSound
  <2>2. x.st = "ok"
    BY <2>1 DEF Sound, Holds, Ok
  <2> QED BY <1>7, <1>10, <2>1, <2>2 DEF MmInv, NoPanic
<1> QED BY <1>11, <1>12

\* As long as no call is misused and kalloc() finds a frame, every frame is free, in the
\* space of one process, a kernel stack or lost; and nothing but a misuse panics.
THEOREM MmInvariant == Spec => []MmInv
<1>1. MmInv /\ [Next]_vars => MmInv'
  <2> SUFFICES ASSUME MmInv, [Next]_vars PROVE MmInv'
    OBVIOUS
  <2>1. CASE UNCHANGED vars
    BY <2>1 DEF vars, MmInv, NoPanic, Good, Ok
  <2>2. CASE Next
    <3>1. Good
      BY <2>2 DEF Next
    <3>2. PICK p \in Procs : proc[p].state = "live" /\ Call(p)
      BY <2>2 DEF Next
    <3>3. ASSUME NEW q \in Procs, fork(p, q) PROVE MmInv'
      BY <3>1, <3>2, <3>3, ForkStep
    <3>4. ASSUME NEW q \in Procs, clone(p, q) PROVE MmInv'
      BY <3>1, <3>2, <3>4, CloneStep
    <3>5. ASSUME NEW q \in Procs, freeproc(q) PROVE MmInv'
      BY <3>1, <3>5, ReapStep
    <3>6. ASSUME NEW prg \in Programs, exec(p, prg) PROVE MmInv'
      BY <3>1, <3>2, <3>6, ExecStep
    <3>7. ASSUME NEW prg \in Programs, execFails(prg) PROVE MmInv'
      BY <3>1, <3>7, ExecFailsStep
    <3>8. ASSUME NEW prg \in Programs, execKilled(p, prg) PROVE MmInv'
      BY <3>1, <3>2, <3>8, ExecKilledStep
    <3>9. ASSUME NEW incr \in Incrs, sbrk(p, incr) PROVE MmInv'
      BY <3>1, <3>2, <3>9, SbrkStep
    <3>10. ASSUME NEW vpn \in Vpns, uva2ka(p, vpn) PROVE MmInv'
      BY <3>1, <3>2, <3>10, Uva2kaStep
    <3>11. CASE exit(p)
      BY <3>1, <3>2, <3>11, ExitStep
    <3> QED BY <3>2, <3>3, <3>4, <3>5, <3>6, <3>7, <3>8, <3>9, <3>10, <3>11 DEF Call
  <2> QED BY <2>1, <2>2
<1> QED BY <1>1, InitSound, PTL DEF Spec

\* As long as no call is misused, no assertion of mm.c fails and no frame is freed twice.
\* An exec() of a file whose segments are not Mappable, or not Laid when it replaces
\* the space, is such a misuse; an upward sbrk() of a process with threads is not.
THEOREM NeverPanics == Spec => []NoPanic
<1>1. MmInv => NoPanic
  BY DEF MmInv
<1> QED BY <1>1, MmInvariant, PTL

\* As long as no call is misused, the space of every process is what its size says, and
\* that of a thread at least that: fork(), exec(), sbrk() and exit(), which walk it by
\* its size, reach every page they mean.
THEOREM SpacesExact == Spec => []SpaceExact
<1>1. ASSUME MmInv PROVE SpaceExact
  <2>1. SUFFICES ASSUME Good, NEW p \in Procs, proc[p].state = "live"
                 PROVE  /\ Region(proc[p].size) \subseteq Mapped(mem, proc[p].pgt)
                        /\ ~proc[p].th => Mapped(mem, proc[p].pgt) = Region(proc[p].size)
    BY Zenon DEF SpaceExact, Mapped
  <2>2. PICK own : Sound(mem, proc, lost, own)
    BY <1>1, <2>1 DEF MmInv
  <2> QED BY <2>1, <2>2, LiveSpace
<1> QED BY <1>1, MmInvariant, PTL

\* The frames of space r at a level.
Level(own, g, r, k) == {f \in Frames : own[f] = r /\ g.lv[f] = k}

\* A table refers to the frames whose place is in it.
LEMMA UnderIs ==
  ASSUME NEW own, NEW g, Tree(mem, own, g), NEW t \in Frames, own[t] \in Frames, g.lv[t] # 4
  PROVE  Under(t) = {f \in Frames : own[f] = own[t] /\ g.lv[f] = g.lv[t] + 1 /\ g.up[f] = t}
<1>0. g \in Places /\ \A i \in Entries : mem.ent[t][i] = Empty \/ Kid(mem, own, g, t, i)
  BY DEF Tree, TreeType, TreeDown
<1>1. ASSUME NEW f \in Under(t)
      PROVE  f \in Frames /\ own[f] = own[t] /\ g.lv[f] = g.lv[t] + 1 /\ g.up[f] = t
  <2>1. PICK i \in Entries : f = mem.ent[t][i].pa /\ f # NULL
    BY DEF Under
  <2>2. Kid(mem, own, g, t, i)
    BY <1>0, <2>1, EntryFacts
  <2> QED BY <2>1, <2>2, Zenon DEF Kid
<1>2. ASSUME NEW f \in Frames, own[f] = own[t], g.lv[f] = g.lv[t] + 1, g.up[f] = t
      PROVE  f \in Under(t)
  <2>0. g.lv[t] \in 1 .. 4 /\ g.ix[f] \in Entries
    BY <1>0 DEF Places
  <2>1. g.lv[f] # 1
    BY <1>2, <2>0
  <2>2. mem.ent[t][g.ix[f]].pa = f
    BY <1>2, <2>1 DEF Tree, TreeUp
  <2> QED BY <2>0, <2>2, Numbers DEF Under
<1> QED BY <1>1, <1>2

\* The tables of a level refer to the frames of the next.
LEMMA NextLevel ==
  ASSUME NEW own, NEW g, Tree(mem, own, g), NEW r \in Frames, own[r] = r, NEW k \in 1 .. 3
  PROVE  UNION {Under(t) : t \in Level(own, g, r, k)} = Level(own, g, r, k + 1)
<1>0. g \in Places
  BY DEF Tree, TreeType
<1>1. \A t \in Level(own, g, r, k) :
        Under(t) = {f \in Frames : own[f] = own[t] /\ g.lv[f] = g.lv[t] + 1 /\ g.up[f] = t}
  <2>1. k # 4
    OBVIOUS
  <2> QED BY <2>1, UnderIs DEF Level
<1>2. ASSUME NEW f \in Level(own, g, r, k + 1)
      PROVE  \E t \in Level(own, g, r, k) : f \in Under(t)
  <2>1. f \in Frames /\ own[f] = r /\ g.lv[f] = k + 1 /\ k + 1 # 1
    BY <1>2 DEF Level
  <2>2. own[g.up[f]] = r /\ g.lv[g.up[f]] = g.lv[f] - 1 /\ g.up[f] \in Frames
    BY <1>0, <2>1 DEF Tree, TreeUp, Places
  <2>3. g.up[f] \in Level(own, g, r, k) /\ g.lv[f] = g.lv[g.up[f]] + 1
    BY <2>1, <2>2 DEF Level
  <2> QED BY <1>1, <2>1, <2>2, <2>3
<1>3. ASSUME NEW t \in Level(own, g, r, k), NEW f \in Under(t)
      PROVE  f \in Level(own, g, r, k + 1)
  BY <1>1, <1>3 DEF Level
<1> QED BY <1>2, <1>3

\* The frames a table leads to are those its space owns.
LEMMA SpaceIs ==
  ASSUME NEW own, Holds(mem, own), NEW r \in Frames, own[r] = r
  PROVE  Space(r) = {f \in Frames : own[f] = r}
<1>1. PICK g : Tree(mem, own, g)
  BY DEF Holds
<1>2. g \in Places
  BY <1>1 DEF Tree, TreeType
<1>3. Level(own, g, r, 1) = {r}
  BY <1>1 DEF Tree, TreeRoot, Level
<1>4. Under(r) = Level(own, g, r, 2)
  <2>1. UNION {Under(t) : t \in {r}} = Level(own, g, r, 1 + 1)
    BY <1>1, <1>3, NextLevel
  <2> QED BY <2>1
<1>5. UNION {Under(t) : t \in Level(own, g, r, 2)} = Level(own, g, r, 3)
  BY <1>1, NextLevel
<1>6. UNION {Under(t) : t \in Level(own, g, r, 3)} = Level(own, g, r, 4)
  BY <1>1, NextLevel
<1>7. Space(r) = {r} \cup Level(own, g, r, 2) \cup Level(own, g, r, 3) \cup Level(own, g, r, 4)
  BY <1>4, <1>5, <1>6 DEF Space
<1>8. \A f \in Frames : g.lv[f] \in {1, 2, 3, 4}
  BY <1>2 DEF Places
<1> QED BY <1>3, <1>7, <1>8 DEF Level

\* The kernel stacks are as many as the slots in use.
LEMMA StacksCount ==
  ASSUME NEW pr, NEW ls, NEW own, Stacks(pr, ls, own)
  PROVE  LET used == {q \in Procs : pr[q].state # "unused"}
         IN Cardinality({pr[p].kstack : p \in used}) = Cardinality(used)
<1> DEFINE used == {q \in Procs : pr[q].state # "unused"}
           stacks == {pr[p].kstack : p \in used}
           f == [p \in used |-> pr[p].kstack]
<1>1. \A p, q \in used : pr[p].kstack = pr[q].kstack => p = q
  BY DEF Stacks
<1>2. f \in [used -> stacks] /\ \A p \in used : f[p] = pr[p].kstack
  OBVIOUS
<1>3. \A s \in stacks : \E p \in used : f[p] = s
  OBVIOUS
<1>4. IsFiniteSet(used)
  BY ProcsAssumption, FS_Subset
<1> HIDE DEF f, used, stacks
<1>5. f \in Bijection(used, stacks)
  BY <1>1, <1>2, <1>3 DEF Bijection, Injection, Surjection, IsInjective
<1>6. ExistsBijection(used, stacks)
  BY <1>5 DEF ExistsBijection
<1>7. Cardinality(stacks) = Cardinality(used)
  BY <1>4, <1>6, FS_Bijection
<1> QED BY <1>7 DEF used, stacks

\* As long as no call is misused, every frame is in one space, a kernel stack, free or
\* lost, in clone(), in an exec() that fails or in one that a signal ends.
THEOREM EveryFrameOwned == Spec => []FramesOwned
<1>1. ASSUME MmInv, Good PROVE FramesOwned
  <2> DEFINE live == {p \in Procs : proc[p].state = "live"}
             spaces == {Space(proc[p].pgt) : p \in live}
             used == {q \in Procs : proc[q].state # "unused"}
             stacks == {proc[p].kstack : p \in used}
  <2>1. PICK own : Sound(mem, proc, lost, own)
    BY <1>1 DEF MmInv
  <2>2. Holds(mem, own) /\ Spaces(mem, proc, own) /\ Stacks(proc, lost, own)
    BY <2>1 DEF Sound
  <2>3. /\ \A f \in Frames : f \in mem.free <=> own[f] = Nobody
        /\ mem.free \subseteq Frames /\ own \in [Frames -> Owners] /\ lost \subseteq Frames
        /\ \A f \in Frames : own[f] \in Frames => own[own[f]] = own[f]
    BY <2>2, HoldsFree DEF Stacks
  <2>4. ASSUME NEW p \in live
        PROVE  \E r \in Frames : /\ own[r] = r /\ r = proc[p].pgt
                                 /\ Space(proc[p].pgt) = {f \in Frames : own[f] = r}
    <3>1. proc[p].pgt \in Frames /\ own[proc[p].pgt] = proc[p].pgt
      BY <2>1, LiveSpace
    <3> QED BY <2>2, <3>1, SpaceIs
  <2>5. \A s \in spaces : \E r \in Frames : s = {f \in Frames : own[f] = r}
    BY <2>4
  <2>6. ASSUME NEW s \in spaces, NEW t \in spaces, s # t PROVE s \cap t = {}
    <3> HIDE DEF spaces
    <3>1. PICK r \in Frames : s = {f \in Frames : own[f] = r}
      BY <2>5
    <3>2. PICK u \in Frames : t = {f \in Frames : own[f] = u}
      BY <2>5
    <3> QED BY <2>6, <3>1, <3>2
  <2>7. UNION spaces = {f \in Frames : own[f] \in Frames}
    <3>1. \A f \in UNION spaces : f \in Frames /\ own[f] \in Frames
      BY <2>5
    <3>2. ASSUME NEW f \in Frames, own[f] \in Frames PROVE f \in UNION spaces
      <4>1. PICK p \in live : proc[p].pgt = own[f]
        BY <2>2, <2>3, <3>2 DEF Spaces
      <4> QED BY <2>4, <4>1
    <3> QED BY <3>1, <3>2
  <2>8. stacks \cup lost = {f \in Frames : own[f] = Kernel} /\ stacks \cap lost = {}
    <3>1. \A f \in Frames : own[f] = Kernel <=> f \in lost \/ f \in stacks
      BY <2>2 DEF Stacks
    <3>2. stacks \subseteq Frames /\ stacks \cap lost = {}
      BY <2>2 DEF Stacks
    <3> QED BY <2>3, <3>1, <3>2
  <2>9. Cardinality(stacks) = Cardinality(used)
    BY <2>2, StacksCount
  <2> HIDE DEF spaces, stacks
  <2>10. (UNION spaces) \cap stacks = {} /\ ((UNION spaces) \cup stacks) \cap lost = {}
    BY <2>7, <2>8, Numbers
  <2>11. mem.free = Frames \ ((UNION spaces) \cup stacks \cup lost)
    <3>1. \A f \in Frames : f \in mem.free <=> f \notin UNION spaces /\ f \notin stacks \cup lost
      BY <2>3, <2>7, <2>8, Numbers DEF Owners
    <3> QED BY <2>3, <3>1
  <2> QED BY <2>6, <2>9, <2>10, <2>11 DEF FramesOwned, spaces, stacks
<1>2. MmInv => FramesOwned
  BY <1>1 DEF FramesOwned
<1> QED BY <1>2, MmInvariant, PTL

=============================================================================
