---------------------------- MODULE UMallocProofs ---------------------------
(***************************************************************************)
(* Theorems about UMalloc, for heaps, requests and growth of any size: no  *)
(* unit is lost or handed out twice, and the free list is in order with no *)
(* two blocks that touch.                                                  *)
(*                                                                         *)
(* The free list is described by the set of its headers, each linked to    *)
(* the next one above it, the last to base.  That the walks of malloc()    *)
(* and free() along ptr meet exactly these headers is proved by taking the *)
(* least number of links at which it would not hold.                       *)
(***************************************************************************)
EXTENDS UMalloc, WellFoundedInduction, TLAPS

\* What Link, Given and the others work on, once there is a list.
Lists == [ptr : [Addr -> Addr \cup {NULL}], size : [Addr -> Nat], freep : Addr]

\* F are headers in a circle, each linked to the next one above it.
Linked(pt, F) ==
    /\ base \in F
    /\ \A a \in F :
          /\ pt[a] \in F
          /\ IF pt[a] = base THEN \A b \in F : b <= a
             ELSE a < pt[a] /\ \A b \in F : b <= a \/ pt[a] <= b

\* Each free block ends below the next one, without touching it; base has no unit.
Spaced(pt, sz, F) ==
    /\ sz[base] = 0
    /\ \A a \in F \ {base} : sz[a] > 0 /\ (pt[a] = base \/ a + sz[a] < pt[a])

\* Unit u is in a free block; it is in block x.
Cov(sz, F, u) == \E a \in F \ {base} : a <= u /\ u < a + sz[a]
In(x, u) == x[1] <= u /\ u < x[1] + x[2]

\* The blocks in use have their sizes in their headers, and share no unit with
\* another or with the free list.
Apart(sz, F, lv) ==
    /\ lv \subseteq (Addr \ {base}) \X (Nat \ {0})
    /\ \A x \in lv : sz[x[1]] = x[2]
    /\ \A x, y \in lv : \A u \in Nat : In(x, u) /\ In(y, u) => x = y
    /\ \A x \in lv : \A u \in Nat : In(x, u) => ~Cov(sz, F, u)

\* All blocks are below the break, and they are what sbrk() has given.
Below(sz, F, lv, ar, bk) ==
    /\ bk \in Nat \ {0} /\ bk <= MaxAddr + 1
    /\ \A u \in Nat : Cov(sz, F, u) \/ (\E x \in lv : In(x, u)) => u < bk
    /\ ar \subseteq Nat
    /\ \A u \in Nat : u \in ar <=> Cov(sz, F, u) \/ \E x \in lv : In(x, u)

\* h is a free list with the headers F.
Shape(h, F) ==
    /\ h \in Lists /\ F \in SUBSET Addr /\ h.freep \in F
    /\ Linked(h.ptr, F) /\ Spaced(h.ptr, h.size, F)

\* The same, with the blocks in use lv, the units ar given by sbrk() and the break bk.
Good(h, F, lv, ar, bk) ==
    /\ Shape(h, F)
    /\ Apart(h.size, F, lv) /\ Below(h.size, F, lv, ar, bk)

\* The inductive invariant: what malloc() would find is such a list.
HeapInv ==
    /\ ptr \in [Addr -> Addr \cup {NULL}] /\ size \in [Addr -> Nat]
    /\ freep \in Addr \cup {NULL}
    /\ \E F \in SUBSET Addr : Good(Found, F, live, areas, brk)

-----------------------------------------------------------------------------
(* Walks along ptr.                                                        *)

\* A set of natural numbers has a least element.
LEMMA Least ==
  ASSUME NEW S \in SUBSET Nat, S # {}
  PROVE  \E x \in S : \A y \in S : x <= y
<1> DEFINE R == {p \in Nat \X Nat : p[1] < p[2]}
<1>1. IsWellFoundedOn(R, Nat)
  BY NatLessThanWellFounded DEF OpToRel
<1> HIDE DEF R
<1>2. PICK x \in S : \A y \in S : ~ (<<y, x>> \in R)
  BY <1>1, WFMin
<1>3. ASSUME NEW y \in S PROVE x <= y
  <2>1. x \in Nat /\ y \in Nat
    OBVIOUS
  <2>2. y < x => <<y, x>> \in R
    BY <2>1 DEF R
  <2> QED BY <1>2, <2>1, <2>2
<1> QED BY <1>3

\* f follows pt from a for m links.
Walk(f, pt, a, m) == f[0] = a /\ \A i \in 0 .. m - 1 : f[i + 1] = pt[f[i]]

\* The links do not leave F.
Closed(pt, F) == \A b \in F : pt[b] \in F

\* From a header of F there is a walk of any length.
LEMMA WalkExists ==
  ASSUME NEW F, NEW pt, Closed(pt, F), NEW a \in F, NEW m \in Nat
  PROVE  \E f \in [0 .. m -> F] : Walk(f, pt, a, m)
<1> DEFINE Bad == {k \in Nat : ~ \E f \in [0 .. k -> F] : Walk(f, pt, a, k)}
<1> SUFFICES ASSUME m \in Bad PROVE FALSE
  OBVIOUS
<1>1. PICK k \in Bad : \A j \in Bad : k <= j
  BY Least
<1>2. CASE k = 0
  <2> DEFINE f == [i \in 0 .. 0 |-> a]
  <2>1. f \in [0 .. 0 -> F] /\ f[0] = a /\ 0 .. 0 - 1 = {}
    OBVIOUS
  <2> HIDE DEF f
  <2>2. Walk(f, pt, a, 0)
    BY <2>1 DEF Walk
  <2> QED BY <1>2, <2>1, <2>2
<1>3. CASE k # 0
  <2>1. k - 1 \in Nat /\ k - 1 \notin Bad
    <3>1. k \in Nat
      OBVIOUS
    <3>2. k - 1 \in Bad => k <= k - 1
      BY <1>1
    <3> HIDE DEF Bad
    <3> QED BY <1>3, <3>1, <3>2
  <2>8. k - 1 \in 0 .. k - 1
    BY <2>1
  <2>2. PICK f \in [0 .. k - 1 -> F] : Walk(f, pt, a, k - 1)
    BY <2>1, <2>8
  <2>3. PICK e \in F : e = pt[f[k - 1]]
    BY <2>1, <2>8 DEF Closed
  <2> DEFINE g == [i \in 0 .. k |-> IF i = k THEN e ELSE f[i]]
  <2>4. g \in [0 .. k -> F]
    BY <2>1, <2>8
  <2>5. g[0] = a /\ g[k] = e /\ \A i \in 0 .. k - 1 : g[i] = f[i]
    BY <1>3, <2>1, <2>2 DEF Walk
  <2> HIDE DEF g
  <2>6. ASSUME NEW i \in 0 .. k - 1 PROVE g[i + 1] = pt[g[i]]
    <3>1. CASE i = k - 1
      <4>1. i + 1 = k
        BY <2>1, <3>1
      <4> QED BY <2>8, <2>3, <2>5, <3>1, <4>1
    <3>2. CASE i # k - 1
      <4>1. i \in 0 .. (k - 1) - 1 /\ i + 1 \in 0 .. k - 1
        BY <2>1, <3>2
      <4>2. f[i + 1] = pt[f[i]]
        BY <2>2, <4>1 DEF Walk
      <4> QED BY <2>5, <4>1, <4>2
    <3> QED BY <3>1, <3>2
  <2>7. Walk(g, pt, a, k)
    BY <2>5, <2>6 DEF Walk
  <2> QED BY <2>4, <2>7
<1> QED BY <1>2, <1>3

\* Link is where the walk is after k links.
LEMMA LinkIs ==
  ASSUME NEW h, NEW a, NEW k \in Nat, NEW g, Walk(g, h.ptr, a, k)
  PROVE  Link(h, a, k) = g[k]
<1> DEFINE D(f) == [i \in 0 .. k |-> IF i = 0 THEN a ELSE h.ptr[f[i - 1]]]
           L == CHOOSE f : f = D(f)
           r == [i \in 0 .. k |-> g[i]]
<1>1. Link(h, a, k) = L[k]
  BY DEF Link
<1>2. r = D(r)
  <2>1. ASSUME NEW i \in 0 .. k PROVE r[i] = IF i = 0 THEN a ELSE h.ptr[r[i - 1]]
    <3>1. CASE i = 0
      BY <3>1 DEF Walk
    <3>2. CASE i # 0
      <4>1. i - 1 \in 0 .. k - 1 /\ i - 1 \in 0 .. k /\ (i - 1) + 1 = i
        BY <3>2
      <4>2. g[(i - 1) + 1] = h.ptr[g[i - 1]]
        BY <4>1 DEF Walk
      <4>3. r[i] = g[i] /\ r[i - 1] = g[i - 1]
        BY <4>1
      <4> QED BY <3>2, <4>1, <4>2, <4>3
    <3> QED BY <3>1, <3>2
  <2> QED BY <2>1
<1>3. L = D(L)
  BY <1>2
<1> HIDE DEF L
<1>4. L[0] = a /\ \A i \in 0 .. k : i # 0 => L[i] = h.ptr[L[i - 1]]
  BY <1>3
<1>5. ASSUME NEW i \in 0 .. k PROVE L[i] = g[i]
  <2> DEFINE Bad == {j \in Nat : j <= k /\ L[j] # g[j]}
  <2> SUFFICES ASSUME i \in Bad PROVE FALSE
    OBVIOUS
  <2>1. PICK j \in Bad : \A e \in Bad : j <= e
    BY Least
  <2>2. j # 0
    BY <1>4 DEF Walk
  <2>3. j - 1 \in 0 .. k - 1 /\ j - 1 \notin Bad /\ (j - 1) + 1 = j /\ j \in 0 .. k
    BY <2>1, <2>2
  <2>4. g[j] = h.ptr[g[j - 1]]
    BY <2>3 DEF Walk
  <2>5. L[j] = h.ptr[L[j - 1]] /\ L[j - 1] = g[j - 1]
    BY <1>4, <2>2, <2>3
  <2> QED BY <2>4, <2>5
<1> QED BY <1>1, <1>5

\* The recursion of Link, for walks that do not leave F.
Recursion(h, F) ==
    \A a \in F : /\ Link(h, a, 0) = a
                 /\ \A k \in Nat : /\ Link(h, a, k) \in F
                                   /\ Link(h, a, k + 1) = h.ptr[Link(h, a, k)]

\* Link has it in a set that the links do not leave.
LEMMA LinkFacts ==
  ASSUME NEW F, NEW h, Closed(h.ptr, F)
  PROVE  Recursion(h, F)
<1>1. ASSUME NEW a \in F, NEW k \in Nat
      PROVE  /\ Link(h, a, 0) = a /\ Link(h, a, k) \in F
             /\ Link(h, a, k + 1) = h.ptr[Link(h, a, k)]
  <2>1. k + 1 \in Nat /\ 0 \in Nat /\ k \in 0 .. k + 1 /\ k \in 0 .. (k + 1) - 1
        /\ 0 .. 0 - 1 = {} /\ \A i \in 0 .. k - 1 : i \in 0 .. (k + 1) - 1
    OBVIOUS
  <2>2. PICK f \in [0 .. k + 1 -> F] : Walk(f, h.ptr, a, k + 1)
    BY <2>1, WalkExists
  <2>3. Walk(f, h.ptr, a, k) /\ Walk(f, h.ptr, a, 0) /\ f[k + 1] = h.ptr[f[k]]
    BY <2>1, <2>2 DEF Walk
  <2>4. Link(h, a, k + 1) = f[k + 1] /\ Link(h, a, k) = f[k] /\ Link(h, a, 0) = f[0]
    BY <2>1, <2>2, <2>3, LinkIs
  <2> QED BY <2>1, <2>2, <2>3, <2>4 DEF Walk
<1> QED BY <1>1 DEF Recursion

\* A walk goes on as it would from where it is.
Addition(h, F) ==
    \A a \in F : \A j, k \in Nat : Link(h, a, j + k) = Link(h, Link(h, a, j), k)

\* In such a set the lengths of walks add up.
LEMMA LinkAdd ==
  ASSUME NEW F, NEW h, Closed(h.ptr, F)
  PROVE  Addition(h, F)
<1> SUFFICES ASSUME NEW a \in F, NEW j \in Nat, NEW k \in Nat
             PROVE  Link(h, a, j + k) = Link(h, Link(h, a, j), k)
  BY DEF Addition
<1>0. \A c \in F : /\ Link(h, c, 0) = c
                   /\ \A d \in Nat : /\ Link(h, c, d) \in F
                                     /\ Link(h, c, d + 1) = h.ptr[Link(h, c, d)]
  <2>1. Recursion(h, F)
    BY LinkFacts
  <2> QED BY <2>1 DEF Recursion
<1> DEFINE Bad == {e \in Nat : Link(h, a, j + e) # Link(h, Link(h, a, j), e)}
<1> SUFFICES ASSUME k \in Bad PROVE FALSE
  OBVIOUS
<1>1. PICK e \in Bad : \A d \in Bad : e <= d
  BY Least
<1>2. PICK b \in F : b = Link(h, a, j)
  BY <1>0
<1>3. e # 0
  <2>1. j + 0 = j
    OBVIOUS
  <2> QED BY <1>0, <1>2, <2>1
<1>4. e - 1 \in Nat /\ e - 1 \notin Bad /\ (e - 1) + 1 = e /\ j + (e - 1) \in Nat
      /\ (j + (e - 1)) + 1 = j + e
  <2>1. e \in Nat
    OBVIOUS
  <2>2. e - 1 \in Bad => e <= e - 1
    BY <1>1
  <2> HIDE DEF Bad
  <2> QED BY <1>3, <2>1, <2>2
<1>5. Link(h, a, j + (e - 1)) = Link(h, b, e - 1)
  BY <1>2, <1>4
<1>6. Link(h, a, (j + (e - 1)) + 1) = h.ptr[Link(h, a, j + (e - 1))]
  BY <1>0, <1>4
<1>7. Link(h, b, (e - 1) + 1) = h.ptr[Link(h, b, e - 1)]
  BY <1>0, <1>4
<1> QED BY <1>2, <1>4, <1>5, <1>6, <1>7

-----------------------------------------------------------------------------
(* The circle.                                                             *)

\* Addresses are numbers, and NULL is none of them.
LEMMA Numbers ==
  /\ Addr \subseteq Nat /\ base \in Addr /\ base = 0 /\ NULL \notin Addr /\ MaxAddr \in Nat
  /\ \A a \in Addr : a <= MaxAddr
BY MaxAddrAssumption DEF Addr, base, NULL

\* The links do not leave the circle.
LEMMA Steps ==
  ASSUME NEW h, NEW F \in SUBSET Addr, Linked(h.ptr, F)
  PROVE  /\ \A a \in F : Link(h, a, 0) = a /\ Link(h, a, 1) = h.ptr[a]
         /\ \A a \in F : \A k \in Nat : /\ Link(h, a, k) \in F
                                       /\ Link(h, a, k + 1) = h.ptr[Link(h, a, k)]
         /\ \A a \in F : \A j, k \in Nat : Link(h, a, j + k) = Link(h, Link(h, a, j), k)
<1>1. Closed(h.ptr, F)
  BY DEF Closed, Linked
<1>2. \A a \in F : /\ Link(h, a, 0) = a
                   /\ \A k \in Nat : /\ Link(h, a, k) \in F
                                     /\ Link(h, a, k + 1) = h.ptr[Link(h, a, k)]
  <2>1. Recursion(h, F)
    BY <1>1, LinkFacts
  <2> QED BY <2>1 DEF Recursion
<1>3. ASSUME NEW a \in F PROVE Link(h, a, 0) = a /\ Link(h, a, 1) = h.ptr[a]
  <2>1. 0 \in Nat /\ 0 + 1 = 1
    OBVIOUS
  <2>2. Link(h, a, 0) = a /\ Link(h, a, 0 + 1) = h.ptr[Link(h, a, 0)]
    BY <1>2, <2>1
  <2> QED BY <2>1, <2>2
<1>4. \A a \in F : \A j, k \in Nat : Link(h, a, j + k) = Link(h, Link(h, a, j), k)
  <2>1. Addition(h, F)
    BY <1>1, LinkAdd
  <2> QED BY <2>1 DEF Addition
<1> QED BY <1>2, <1>3, <1>4

\* From a header the walk climbs to every header above it.
LEMMA Climbs ==
  ASSUME NEW h, NEW F \in SUBSET Addr, Linked(h.ptr, F), NEW a \in F, NEW x \in F, a <= x
  PROVE  \E k \in 0 .. x - a : Link(h, a, k) = x
<1> DEFINE Bad == {d \in Nat : \E b \in F : /\ b <= x /\ x - b = d
                                          /\ \A k \in 0 .. d : Link(h, b, k) # x}
<1>0. F \subseteq Nat /\ \A b \in F : h.ptr[b] \in F
  BY Numbers DEF Linked
<1>00. a \in Nat /\ x \in Nat /\ x - a \in Nat
  BY <1>0
<1> SUFFICES ASSUME x - a \in Bad PROVE FALSE
  BY <1>00
<1>1. PICK d \in Bad : \A e \in Bad : d <= e
  BY Least
<1>2. PICK b \in F : b <= x /\ x - b = d /\ \A k \in 0 .. d : Link(h, b, k) # x
  BY <1>1
<1>3. b \in Nat /\ x \in Nat /\ 0 \in 0 .. d
  BY <1>0, <1>2
<1>4. b # x
  BY <1>2, <1>3, Steps
<1>5. PICK c \in F : c = h.ptr[b]
  BY <1>0
<1>6. c # base /\ b < c /\ c <= x
  BY <1>0, <1>2, <1>3, <1>4, <1>5 DEF Linked
<1>7. c \in Nat /\ x - c \in Nat /\ x - c < d
  <2>1. c \in Nat
    BY <1>0
  <2> QED BY <1>2, <1>3, <1>6, <2>1
<1>8. x - c \notin Bad
  BY <1>1, <1>7
<1>9. PICK k \in 0 .. x - c : Link(h, c, k) = x
  BY <1>6, <1>7, <1>8
<1>10. k \in Nat /\ 1 + k \in 0 .. d
  BY <1>7, <1>9
<1>11. Link(h, b, 1) = c
  BY <1>5, Steps
<1>12. Link(h, b, 1 + k) = Link(h, Link(h, b, 1), k)
  BY <1>10, Steps
<1> QED BY <1>2, <1>9, <1>10, <1>11, <1>12

\* The last header is linked to base.
LEMMA Top ==
  ASSUME NEW pt, NEW F \in SUBSET Addr, Linked(pt, F)
  PROVE  \E m \in F : pt[m] = base /\ \A b \in F : b <= m
<1> DEFINE S == {MaxAddr - b : b \in F}
<1>1. F \subseteq Nat /\ base \in F /\ MaxAddr \in Nat /\ \A b \in F : b <= MaxAddr
  BY Numbers DEF Linked
<1>2. S \in SUBSET Nat /\ S # {}
  <2>1. \A b \in F : MaxAddr - b \in Nat
    BY <1>1
  <2>2. MaxAddr - base \in S
    BY <1>1
  <2> QED BY <2>1, <2>2
<1>3. PICK s \in S : \A t \in S : s <= t
  BY <1>2, Least
<1>4. PICK m \in F : s = MaxAddr - m
  BY <1>3
<1>5. \A b \in F : b <= m
  <2> SUFFICES ASSUME NEW b \in F PROVE b <= m
    OBVIOUS
  <2>1. MaxAddr - b \in S
    OBVIOUS
  <2>2. MaxAddr - m <= MaxAddr - b
    BY <1>3, <1>4, <2>1
  <2>3. b \in Nat /\ m \in Nat
    BY <1>1
  <2> HIDE DEF S
  <2> QED BY <1>1, <2>2, <2>3
<1>6. pt[m] \in F /\ (pt[m] # base => m < pt[m])
  BY DEF Linked
<1>7. pt[m] \in Nat /\ m \in Nat /\ pt[m] <= m
  BY <1>1, <1>5, <1>6
<1>8. pt[m] = base
  BY <1>6, <1>7
<1> QED BY <1>5, <1>8

\* From a header the walk comes to every header.
LEMMA Reach ==
  ASSUME NEW h, NEW F \in SUBSET Addr, Linked(h.ptr, F), NEW a \in F, NEW x \in F
  PROVE  \E k \in 1 .. MaxAddr + 1 : Link(h, a, k) = x
<1>0. F \subseteq Nat /\ (\A b \in F : h.ptr[b] \in F) /\ base \in F /\ base = 0
  BY Numbers DEF Linked
<1>1. a \in Nat /\ x \in Nat /\ a <= MaxAddr /\ x <= MaxAddr /\ MaxAddr \in Nat
  BY <1>0, Numbers
<1>2. CASE a < x
  <2>1. PICK k \in 0 .. x - a : Link(h, a, k) = x
    BY <1>1, <1>2, Climbs
  <2>2. k # 0
    BY <1>1, <1>2, <2>1, Steps
  <2>3. k \in 1 .. MaxAddr + 1
    BY <1>1, <2>1, <2>2
  <2> QED BY <2>1, <2>3
<1>3. CASE x <= a
  <2>1. PICK m \in F : h.ptr[m] = base /\ \A b \in F : b <= m
    BY Top
  <2>2. m \in Nat /\ a <= m /\ m <= MaxAddr
    BY <1>0, <2>1, Numbers
  <2>3. PICK k \in 0 .. m - a : Link(h, a, k) = m
    BY <2>2, Climbs
  <2>4. k \in Nat /\ k + 1 \in Nat
    BY <2>3
  <2>5. Link(h, a, k + 1) = base
    <3>1. Link(h, a, k + 1) = h.ptr[Link(h, a, k)]
      BY <2>4, Steps
    <3> QED BY <2>1, <2>3, <3>1
  <2>6. PICK j \in 0 .. x - base : Link(h, base, j) = x
    <3>1. base <= x
      BY <1>0, <1>1
    <3> QED BY <1>0, <3>1, Climbs
  <2>7. j \in Nat /\ (k + 1) + j \in 1 .. MaxAddr + 1
    <3>1. j \in Nat /\ j <= x /\ k <= m - a
      BY <1>0, <1>1, <2>2, <2>3, <2>6
    <3> QED BY <1>1, <1>3, <2>2, <2>4, <3>1
  <2>8. Link(h, a, (k + 1) + j) = Link(h, Link(h, a, k + 1), j)
    BY <2>4, <2>7, Steps, ZenonT(30)
  <2> QED BY <2>5, <2>6, <2>7, <2>8
<1> QED BY <1>1, <1>2, <1>3

\* The round from freep meets every header.
LEMMA RoundIs ==
  ASSUME NEW h, NEW F \in SUBSET Addr, Linked(h.ptr, F), h.freep \in F
  PROVE  /\ Round(h) \in 1 .. MaxAddr + 1
         /\ Link(h, h.freep, Round(h)) = h.freep
         /\ \A x \in F : \E k \in 1 .. Round(h) : Link(h, h.freep, k) = x
<1>0. (\A b \in F : h.ptr[b] \in F) /\ MaxAddr \in Nat
  BY Numbers DEF Linked
<1>1. PICK a \in F : a = h.freep
  OBVIOUS
<1>2. Round(h) \in 1 .. MaxAddr + 1 /\ Link(h, a, Round(h)) = a
  <2> DEFINE S == {k \in Nat : k > 0 /\ Link(h, a, k) = a}
  <2>1. PICK r \in 1 .. MaxAddr + 1 : Link(h, a, r) = a
    BY Reach
  <2>2. S # {}
    BY <1>0, <2>1
  <2>3. PICK k \in S : \A j \in S : k <= j
    BY <2>2, Least
  <2>4. k \in 1 .. MaxAddr + 1 /\ Link(h, a, k) = a
    BY <1>0, <2>1, <2>3
  <2>5. \A j \in 1 .. k - 1 : Link(h, a, j) # a
    BY <2>3
  <2> QED BY <1>1, <2>4, <2>5 DEF Round
<1>3. ASSUME NEW x \in F PROVE \E k \in 1 .. Round(h) : Link(h, a, k) = x
  <2> DEFINE S == {k \in Nat : k > 0 /\ Link(h, a, k) = x}
  <2>0. PICK r \in Nat : r = Round(h) /\ r > 0
    BY <1>0, <1>2
  <2>1. PICK k \in S : \A j \in S : k <= j
    <3>1. PICK j \in 1 .. MaxAddr + 1 : Link(h, a, j) = x
      BY Reach
    <3>2. S # {}
      BY <1>0, <3>1
    <3> QED BY <3>2, Least
  <2>2. ASSUME k > r PROVE FALSE
    <3>1. k - r \in Nat /\ k - r > 0 /\ k - r < k /\ r + (k - r) = k
      BY <2>0, <2>1, <2>2
    <3>2. Link(h, a, r + (k - r)) = Link(h, Link(h, a, r), k - r)
      BY <2>0, <3>1, Steps
    <3>3. k - r \in S
      BY <1>2, <2>0, <2>1, <3>1, <3>2
    <3> QED BY <2>0, <2>1, <3>1, <3>3
  <2>3. k \in 1 .. Round(h)
    BY <2>0, <2>1, <2>2
  <2> QED BY <2>1, <2>3
<1> QED BY <1>1, <1>2, <1>3

\* The headers that the round from freep meets are those of F.
LEMMA ListedIs ==
  ASSUME NEW h, NEW F \in SUBSET Addr, Linked(h.ptr, F), h.freep \in F
  PROVE  Listed(h) = F
<1>0. (\A b \in F : h.ptr[b] \in F) /\ MaxAddr \in Nat /\ h.freep # NULL
  BY Numbers DEF Linked
<1>1. /\ Round(h) \in 1 .. MaxAddr + 1
      /\ \A x \in F : \E k \in 1 .. Round(h) : Link(h, h.freep, k) = x
  BY RoundIs
<1>2. \A k \in 1 .. Round(h) : Link(h, h.freep, k) \in F
  BY <1>0, <1>1, Steps
<1> QED BY <1>0, <1>1, <1>2 DEF Listed

\* free() finds the header that bp belongs behind.
LEMMA NeighbourIs ==
  ASSUME NEW h, NEW F \in SUBSET Addr, Linked(h.ptr, F), h.freep \in F,
         NEW bp \in Addr, bp \notin F
  PROVE  /\ Neighbour(h, bp) \in F /\ Neighbour(h, bp) < bp
         /\ h.ptr[Neighbour(h, bp)] = base \/ bp < h.ptr[Neighbour(h, bp)]
<1>0. /\ F \subseteq Nat /\ (\A b \in F : h.ptr[b] \in F) /\ base \in F /\ base = 0
      /\ MaxAddr \in Nat /\ bp \in Nat /\ bp # 0
  BY Numbers DEF Linked
<1>1. \E p \in F : Before(h, p, bp)
  <2> DEFINE S == {e \in Nat : bp - e \in F /\ bp - e < bp}
  <2>1. bp \in S
    BY <1>0
  <2>2. PICK e \in S : \A d \in S : e <= d
    BY <2>1, Least
  <2>3. PICK p \in F : p = bp - e /\ p < bp
    BY <2>2
  <2>4. \A b \in F : b < bp => b <= p
    <3> SUFFICES ASSUME NEW b \in F, b < bp PROVE b <= p
      OBVIOUS
    <3>1. bp - b \in S
      BY <1>0
    <3> QED BY <1>0, <2>2, <2>3, <3>1
  <2>5. h.ptr[p] \in F /\ h.ptr[p] # bp /\ p \in Nat /\ h.ptr[p] \in Nat
    BY <1>0
  <2>6. h.ptr[p] # base => p < h.ptr[p]
    BY DEF Linked
  <2> QED BY <1>0, <2>3, <2>4, <2>5, <2>6 DEF Before
<1>2. PICK a \in F : a = h.freep
  OBVIOUS
<1>3. PICK i \in 0 .. MaxAddr + 1 : /\ Before(h, Link(h, a, i), bp)
                                    /\ \A j \in 0 .. i - 1 : ~Before(h, Link(h, a, j), bp)
  <2> DEFINE S == {i \in Nat : i <= MaxAddr + 1 /\ Before(h, Link(h, a, i), bp)}
  <2>1. PICK p \in F : Before(h, p, bp)
    BY <1>1
  <2>2. PICK r \in 1 .. MaxAddr + 1 : Link(h, a, r) = p
    BY Reach
  <2>3. r \in S
    BY <1>0, <2>1, <2>2
  <2>4. PICK i \in S : \A j \in S : i <= j
    BY <2>3, Least
  <2>5. i \in 0 .. MaxAddr + 1 /\ \A j \in 0 .. i - 1 : j \notin S /\ j \in Nat /\ j <= MaxAddr + 1
    BY <1>0, <2>4
  <2> QED BY <2>4, <2>5
<1>4. PICK k \in 0 .. MaxAddr + 1 :
         Neighbour(h, bp) = Link(h, a, k) /\ Before(h, Link(h, a, k), bp)
  <2> DEFINE P(j) == /\ Before(h, Link(h, a, j), bp)
                     /\ \A d \in 0 .. j - 1 : ~Before(h, Link(h, a, d), bp)
             c == CHOOSE j \in 0 .. MaxAddr + 1 : P(j)
  <2>1. Neighbour(h, bp) = Link(h, a, c)
    BY <1>2 DEF Neighbour
  <2>2. P(i)
    BY <1>3
  <2> HIDE DEF P
  <2>3. c \in 0 .. MaxAddr + 1 /\ P(c)
    BY <2>2
  <2> QED BY <2>1, <2>3 DEF P
<1>5. PICK p \in F : p = Neighbour(h, bp)
  <2>1. k \in Nat
    BY <1>0
  <2> QED BY <1>4, <2>1, Steps
<1>6. Before(h, p, bp)
  BY <1>4, <1>5
<1>7. p \in Nat /\ h.ptr[p] \in Nat /\ (h.ptr[p] # base => p < h.ptr[p])
  BY <1>0 DEF Linked
<1> QED BY <1>0, <1>5, <1>6, <1>7 DEF Before

\* malloc() takes a block that is large enough, and knows the header before it.
LEMMA FirstFitIs ==
  ASSUME NEW h, NEW F \in SUBSET Addr, Linked(h.ptr, F), h.freep \in F, NEW n,
         Fits(h, n) # {}
  PROVE  \E prev \in F : /\ h.size[h.ptr[prev]] >= n
                         /\ FirstFit(h, n) = TakenFrom(h, prev, h.ptr[prev], n)
<1>0. (\A b \in F : h.ptr[b] \in F) /\ MaxAddr \in Nat
  BY Numbers DEF Linked
<1>1. PICK a \in F : a = h.freep
  OBVIOUS
<1>2. Round(h) \in Nat
  BY <1>0, RoundIs
<1>3. Fits(h, n) \in SUBSET Nat
  BY <1>2 DEF Fits
<1>4. \E i \in Fits(h, n) : \A j \in Fits(h, n) : i <= j
  BY <1>3, Least
<1>5. PICK k \in Fits(h, n) :
         FirstFit(h, n) = TakenFrom(h, Link(h, a, k - 1), Link(h, a, k), n)
  BY <1>1, <1>4 DEF FirstFit
<1>6. k \in 1 .. Round(h) /\ h.size[Link(h, a, k)] >= n
  BY <1>1, <1>5 DEF Fits
<1>7. k - 1 \in Nat /\ (k - 1) + 1 = k
  BY <1>2, <1>6
<1>8. Link(h, a, k - 1) \in F /\ Link(h, a, (k - 1) + 1) = h.ptr[Link(h, a, k - 1)]
  BY <1>0, <1>7, Steps, ZenonT(30)
<1> QED BY <1>5, <1>6, <1>7, <1>8

\* A block of the list that is large enough is found.
LEMMA FitsSome ==
  ASSUME NEW h, NEW F \in SUBSET Addr, Linked(h.ptr, F), h.freep \in F, NEW n,
         NEW a \in F, h.size[a] >= n
  PROVE  Fits(h, n) # {}
<1>1. PICK k \in 1 .. Round(h) : Link(h, h.freep, k) = a
  BY RoundIs
<1> QED BY <1>1 DEF Fits

-----------------------------------------------------------------------------
(* Putting a header into the circle and taking one out.                    *)

\* A header between p and the one p is linked to goes into the circle.
LEMMA PutIn ==
  ASSUME NEW pt, NEW pt2, NEW F \in SUBSET Addr, Linked(pt, F), NEW p \in F,
         NEW bp \in Addr, bp \notin F, p < bp, pt[p] = base \/ bp < pt[p],
         pt2[p] = bp, pt2[bp] = pt[p], \A a \in F \ {p} : pt2[a] = pt[a]
  PROVE  Linked(pt2, F \cup {bp})
<1>0. F \subseteq Nat /\ bp \in Nat /\ base = 0 /\ base \in F /\ \A a \in F : pt[a] \in F
  BY Numbers DEF Linked
<1>1. ASSUME NEW a \in F
      PROVE  IF pt[a] = base THEN \A b \in F : b <= a
             ELSE a < pt[a] /\ \A b \in F : b <= a \/ pt[a] <= b
  BY DEF Linked
<1> SUFFICES ASSUME NEW a \in F \cup {bp}
             PROVE  /\ pt2[a] \in F \cup {bp}
                    /\ IF pt2[a] = base THEN \A b \in F \cup {bp} : b <= a
                       ELSE a < pt2[a] /\ \A b \in F \cup {bp} : b <= a \/ pt2[a] <= b
  BY <1>0 DEF Linked
<1>2. CASE a = p
  <2>1. ASSUME NEW b \in F PROVE b <= p \/ bp <= b
    <3>1. p \in Nat /\ b \in Nat /\ pt[p] \in Nat
      BY <1>0
    <3>2. pt[p] = base => b <= p
      BY <1>1
    <3>3. pt[p] # base => b <= p \/ pt[p] <= b
      BY <1>1
    <3> QED BY <1>0, <3>1, <3>2, <3>3
  <2> QED BY <1>0, <1>2, <2>1
<1>3. CASE a = bp
  <2>1. CASE pt[p] = base
    <3>1. \A b \in F : b <= p
      BY <1>1, <2>1
    <3> QED BY <1>0, <1>3, <2>1, <3>1
  <2>2. CASE pt[p] # base
    <3>1. \A b \in F : b <= p \/ pt[p] <= b
      BY <1>1, <2>2
    <3> QED BY <1>0, <1>3, <2>2, <3>1
  <2> QED BY <2>1, <2>2
<1>4. CASE a \in F \ {p}
  <2>0. pt2[a] = pt[a] /\ pt[a] \in F /\ a \in F
    BY <1>0, <1>4
  <2>9. p \in Nat /\ a \in Nat /\ pt[p] \in Nat /\ pt[a] \in Nat /\ p # a
    BY <1>0, <1>4
  <2>8. (pt[p] = base => a <= p) /\ (pt[p] # base => a <= p \/ pt[p] <= a)
    BY <1>1, <1>4
  <2>1. CASE pt[a] = base
    <3>1. p <= a /\ \A b \in F : b <= a
      BY <1>1, <1>4, <2>1
    <3>2. p < a
      BY <1>0, <1>4, <3>1
    <3>3. pt[p] # base /\ bp < pt[p] /\ pt[p] <= a
      BY <2>8, <2>9, <3>2
    <3>4. bp <= a
      BY <1>0, <2>9, <3>3
    <3> QED BY <2>0, <2>1, <3>1, <3>4
  <2>2. CASE pt[a] # base
    <3>1. a < pt[a] /\ \A b \in F : b <= a \/ pt[a] <= b
      BY <1>1, <1>4, <2>2
    <3>2. bp <= a \/ pt[a] <= bp
      <4>1. CASE p < a
        <5>1. pt[p] # base /\ bp < pt[p] /\ pt[p] <= a
          BY <2>8, <2>9, <4>1
        <5> QED BY <1>0, <2>9, <5>1
      <4>2. CASE a < p
        <5>1. p <= a \/ pt[a] <= p
          BY <3>1
        <5> QED BY <1>0, <2>9, <4>2, <5>1
      <4> QED BY <2>9, <4>1, <4>2
    <3> QED BY <1>0, <2>0, <2>2, <3>1, <3>2
  <2> QED BY <2>1, <2>2
<1> QED BY <1>2, <1>3, <1>4

\* The header after prev goes out of the circle.
LEMMA TakeOut ==
  ASSUME NEW pt, NEW pt2, NEW F \in SUBSET Addr, Linked(pt, F), NEW prev \in F,
         NEW c \in F, c = pt[prev], c # base, pt2[prev] = pt[c],
         \A a \in F \ {c, prev} : pt2[a] = pt[a]
  PROVE  Linked(pt2, F \ {c}) /\ prev < c
<1>0. F \subseteq Nat /\ base = 0 /\ base \in F /\ \A a \in F : pt[a] \in F
  BY Numbers DEF Linked
<1>1. ASSUME NEW a \in F
      PROVE  IF pt[a] = base THEN \A b \in F : b <= a
             ELSE a < pt[a] /\ \A b \in F : b <= a \/ pt[a] <= b
  BY DEF Linked
<1>2. prev < c /\ \A b \in F : b <= prev \/ c <= b
  BY <1>1
<1>3. ASSUME NEW a \in F \ {c}
      PROVE  /\ pt2[a] \in F \ {c}
             /\ IF pt2[a] = base THEN \A b \in F \ {c} : b <= a
                ELSE a < pt2[a] /\ \A b \in F \ {c} : b <= a \/ pt2[a] <= b
  <2>1. CASE a = prev
    <3>1. CASE pt[c] = base
      <4>1. \A b \in F : b <= c
        BY <1>1, <3>1
      <4>2. \A b \in F \ {c} : b <= prev
        BY <1>0, <1>2, <4>1
      <4> QED BY <1>0, <2>1, <3>1, <4>2
    <3>2. CASE pt[c] # base
      <4>1. c < pt[c] /\ \A b \in F : b <= c \/ pt[c] <= b
        BY <1>1, <3>2
      <4>2. pt[c] \in F \ {c} /\ prev < pt[c]
        <5>1. pt[c] \in F /\ pt[c] \in Nat /\ c \in Nat /\ prev \in Nat
          BY <1>0
        <5> QED BY <1>2, <4>1, <5>1
      <4>3. \A b \in F \ {c} : b <= prev \/ pt[c] <= b
        BY <1>0, <1>2, <4>1
      <4> QED BY <2>1, <3>2, <4>2, <4>3
    <3> QED BY <3>1, <3>2
  <2>2. CASE a # prev
    <3>0. a \in Nat /\ prev \in Nat /\ c \in Nat /\ pt[a] \in Nat
      BY <1>0
    <3>1. pt2[a] = pt[a] /\ pt[a] \in F
      BY <1>0, <2>2
    <3>2. pt[a] # c
      <4>0. pt[a] # base => a < pt[a] /\ (prev <= a \/ pt[a] <= prev)
        BY <1>1
      <4>1. CASE a < prev
        BY <1>2, <3>0, <4>0, <4>1
      <4>2. CASE prev < a
        <5>1. c <= a
          BY <1>2, <3>0, <4>2
        <5> QED BY <1>2, <3>0, <4>0, <4>2, <5>1
      <4> QED BY <2>2, <3>0, <4>1, <4>2
    <3> QED BY <1>1, <3>1, <3>2
  <2> QED BY <2>1, <2>2
<1> QED BY <1>0, <1>2, <1>3 DEF Linked

-----------------------------------------------------------------------------
(* free(): bp, a block of s units behind p, is joined with its neighbours. *)

\* Where a free block ends, the next header is not yet met.
LEMMA Ends ==
  ASSUME NEW h, NEW F, Shape(h, F), NEW a \in F \ {base}, NEW b \in F, a < b
  PROVE  a + h.size[a] < b
<1>1. /\ a \in Nat /\ b \in Nat /\ h.ptr[a] \in Nat /\ h.size[a] \in Nat /\ base = 0
  BY Numbers DEF Shape, Linked, Lists
<1>2. (h.ptr[a] = base => b <= a) /\ (h.ptr[a] # base => b <= a \/ h.ptr[a] <= b)
  BY DEF Shape, Linked
<1>3. h.ptr[a] = base \/ a + h.size[a] < h.ptr[a]
  BY DEF Shape, Spaced
<1> QED BY <1>1, <1>2, <1>3

\* A unit is in one free block at most.
LEMMA OneBlock ==
  ASSUME NEW h, NEW F, Shape(h, F), NEW a \in F \ {base}, NEW b \in F \ {base}, NEW u \in Nat,
         a <= u, u < a + h.size[a], b <= u, u < b + h.size[b]
  PROVE  a = b
<1>1. a \in Nat /\ b \in Nat /\ h.size[a] \in Nat /\ h.size[b] \in Nat
  BY Numbers DEF Shape, Lists
<1>2. CASE a < b
  <2>1. a + h.size[a] < b
    BY <1>2, Ends
  <2> QED BY <1>1, <2>1
<1>3. CASE b < a
  <2>1. b + h.size[b] < a
    BY <1>3, Ends
  <2> QED BY <1>1, <2>1
<1> QED BY <1>1, <1>2, <1>3

\* A block that shares no unit with the list lies between its neighbours.
LEMMA Between ==
  ASSUME NEW h, NEW F, Shape(h, F), NEW p \in F, NEW bp \in Addr, NEW s \in Nat, s > 0,
         p < bp, h.ptr[p] = base \/ bp < h.ptr[p],
         \A u \in Nat : bp <= u /\ u < bp + s => ~Cov(h.size, F, u)
  PROVE  /\ p + h.size[p] <= bp /\ (p + h.size[p] = bp => p # base)
         /\ h.ptr[p] # base => bp + s <= h.ptr[p]
<1>1. /\ p \in Nat /\ bp \in Nat /\ base = 0 /\ h.size[p] \in Nat
      /\ h.ptr[p] \in F /\ h.ptr[p] \in Nat /\ h.size[h.ptr[p]] \in Nat /\ h.size[base] = 0
  BY Numbers DEF Shape, Linked, Lists, Spaced
<1>2. p + h.size[p] <= bp /\ (p + h.size[p] = bp => p # base)
  <2>1. CASE p = base
    BY <1>1, <2>1
  <2>2. CASE p # base
    <3>1. ~Cov(h.size, F, bp)
      BY <1>1
    <3>2. ~(p <= bp /\ bp < p + h.size[p])
      BY <2>2, <3>1 DEF Cov
    <3> QED BY <1>1, <2>2, <3>2
  <2> QED BY <2>1, <2>2
<1>3. ASSUME h.ptr[p] # base PROVE bp + s <= h.ptr[p]
  <2>1. h.size[h.ptr[p]] > 0
    BY <1>1, <1>3 DEF Shape, Spaced
  <2>2. Cov(h.size, F, h.ptr[p])
    <3>1. h.ptr[p] <= h.ptr[p] /\ h.ptr[p] < h.ptr[p] + h.size[h.ptr[p]]
      BY <1>1, <2>1
    <3> QED BY <1>1, <1>3, <3>1 DEF Cov
  <2>3. ~(bp <= h.ptr[p] /\ h.ptr[p] < bp + s)
    BY <1>1, <2>2
  <2> QED BY <1>1, <1>3, <2>3
<1> QED BY <1>2, <1>3

\* The list with bp put in behind p, joined with the block q above it if they touch.
Raised(h, F, p, bp, s, q, up, pt1, sz1, F1) ==
    /\ Shape(h, F) /\ p \in F /\ bp \in Addr /\ bp \notin F /\ s \in Nat /\ s > 0
    /\ s = h.size[bp] /\ p < bp /\ (h.ptr[p] = base \/ bp < h.ptr[p])
    /\ h.ptr[p] # base => bp + s <= h.ptr[p]
    /\ q = h.ptr[p] /\ up \in BOOLEAN /\ (up <=> bp + s = q)
    /\ F1 = IF up THEN (F \ {q}) \cup {bp} ELSE F \cup {bp}
    /\ pt1[p] = bp /\ pt1[bp] = (IF up THEN h.ptr[q] ELSE q)
    /\ \A a \in F \ {p} : pt1[a] = h.ptr[a]
    /\ sz1[bp] = IF up THEN s + h.size[q] ELSE s
    /\ \A a \in F : sz1[a] = h.size[a]

\* It is a circle that has gained the units of bp; only block p may touch bp.
LEMMA Above ==
  ASSUME NEW h, NEW F, NEW p, NEW bp, NEW s, NEW q, NEW up, NEW pt1, NEW sz1, NEW F1,
         Raised(h, F, p, bp, s, q, up, pt1, sz1, F1)
  PROVE  /\ Linked(pt1, F1) /\ F1 \in SUBSET Addr /\ p \in F1 /\ bp \in F1
         /\ sz1[base] = 0 /\ sz1[bp] \in Nat /\ sz1[bp] >= s
         /\ \A a \in F1 \ {base} : /\ sz1[a] > 0
                                   /\ a # p => pt1[a] = base \/ a + sz1[a] < pt1[a]
         /\ \A u \in Nat : Cov(sz1, F1, u) <=> Cov(h.size, F, u) \/ (bp <= u /\ u < bp + s)
<1> USE DEF Raised
<1>0. /\ F \in SUBSET Addr /\ Linked(h.ptr, F) /\ F \subseteq Nat /\ bp \in Nat /\ p \in Nat
      /\ base = 0 /\ base \in F /\ q \in F /\ q \in Nat /\ h.size[q] \in Nat
      /\ h.ptr[q] \in F /\ h.ptr[q] \in Nat
  BY Numbers DEF Shape, Linked, Lists
<1>1. up => q # base /\ q # p /\ p < q
  BY <1>0
<1>2. p \in F1 /\ bp \in F1 /\ F1 \in SUBSET Addr /\ base \in F1 /\ bp # base
  BY <1>0, <1>1
<1>3. sz1[bp] \in Nat /\ sz1[bp] >= s
  BY <1>0
<1>4. Linked(pt1, F1)
  <2> DEFINE pt0 == [a \in Addr |-> IF a = p THEN bp ELSE IF a = bp THEN q ELSE h.ptr[a]]
  <2>1. pt0[p] = bp /\ pt0[bp] = q /\ \A a \in F \ {p} : pt0[a] = h.ptr[a]
    BY <1>0
  <2> HIDE DEF pt0
  <2>2. Linked(pt0, F \cup {bp})
    BY <1>0, <2>1, PutIn
  <2>3. CASE ~up
    <3>1. \A a \in F \cup {bp} : pt1[a] = pt0[a]
      BY <2>1, <2>3
    <3>2. F1 = F \cup {bp}
      BY <2>3
    <3> QED BY <2>2, <3>1, <3>2 DEF Linked
  <2>4. CASE up
    <3> DEFINE G == F \cup {bp}
    <3>1. G \in SUBSET Addr /\ bp \in G /\ q \in G
      BY <1>0
    <3>2. pt1[bp] = pt0[q] /\ \A a \in G \ {q, bp} : pt1[a] = pt0[a]
      BY <1>0, <1>1, <2>1, <2>4
    <3>3. F1 = G \ {q}
      BY <1>0, <2>4
    <3> HIDE DEF G
    <3>4. Linked(pt0, G)
      BY <2>2 DEF G
    <3>5. Linked(pt1, G \ {q})
      BY <1>1, <2>1, <2>4, <3>1, <3>2, <3>4, TakeOut
    <3> QED BY <3>3, <3>5
  <2> QED BY <2>3, <2>4
<1>5. sz1[base] = 0
  BY <1>0 DEF Shape, Spaced
<1>6. ASSUME NEW a \in F1 \ {base}
      PROVE  sz1[a] > 0 /\ (a # p => pt1[a] = base \/ a + sz1[a] < pt1[a])
  <2>1. CASE a = bp
    <3>1. sz1[bp] > 0
      BY <1>3
    <3>2. CASE up
      <4>1. h.ptr[q] = base \/ q + h.size[q] < h.ptr[q]
        BY <1>0, <1>1, <3>2 DEF Shape, Spaced
      <4>2. bp + (s + h.size[q]) = q + h.size[q]
        BY <1>0, <3>2
      <4> QED BY <2>1, <3>1, <3>2, <4>1, <4>2
    <3>3. CASE ~up
      <4>1. q = base \/ bp + s < q
        BY <1>0, <3>3
      <4> QED BY <2>1, <3>1, <3>3, <4>1
    <3> QED BY <3>2, <3>3
  <2>2. CASE a # bp
    <3>1. a \in F \ {base} /\ sz1[a] = h.size[a] /\ (a # p => pt1[a] = h.ptr[a])
      BY <2>2
    <3> QED BY <3>1 DEF Shape, Spaced
  <2> QED BY <2>1, <2>2
<1>7. ASSUME NEW u \in Nat
      PROVE  Cov(sz1, F1, u) <=> Cov(h.size, F, u) \/ (bp <= u /\ u < bp + s)
  <2>1. ASSUME Cov(sz1, F1, u), ~(bp <= u /\ u < bp + s) PROVE Cov(h.size, F, u)
    <3>1. PICK a \in F1 \ {base} : a <= u /\ u < a + sz1[a]
      BY <2>1 DEF Cov
    <3>2. CASE a = bp
      <4>1. up
        BY <2>1, <3>1, <3>2
      <4>2. q <= u /\ u < q + h.size[q]
        BY <1>0, <2>1, <3>1, <3>2, <4>1
      <4> QED BY <1>0, <1>1, <4>1, <4>2 DEF Cov
    <3>3. CASE a # bp
      BY <3>1, <3>3 DEF Cov
    <3> QED BY <3>2, <3>3
  <2>2. ASSUME bp <= u, u < bp + s PROVE Cov(sz1, F1, u)
    <3>1. u < bp + sz1[bp]
      BY <1>0, <1>3, <2>2
    <3> QED BY <1>2, <2>2, <3>1 DEF Cov
  <2>3. ASSUME Cov(h.size, F, u) PROVE Cov(sz1, F1, u)
    <3>1. PICK a \in F \ {base} : a <= u /\ u < a + h.size[a]
      BY <2>3 DEF Cov
    <3>2. CASE up /\ a = q
      <4>1. bp <= u /\ u < bp + sz1[bp]
        BY <1>0, <3>1, <3>2
      <4> QED BY <1>2, <4>1 DEF Cov
    <3>3. CASE ~(up /\ a = q)
      <4>1. a \in F1 \ {base} /\ sz1[a] = h.size[a]
        BY <3>3
      <4> QED BY <3>1, <4>1 DEF Cov
    <3> QED BY <3>2, <3>3
  <2> QED BY <2>1, <2>2, <2>3
<1> QED BY <1>2, <1>3, <1>4, <1>5, <1>6, <1>7

\* The same list, with p joined with bp if they touch.
Lowered(pt1, sz1, F1, p, bp, down, pt2, sz2, F2) ==
    /\ F1 \in SUBSET Addr /\ Linked(pt1, F1) /\ p \in F1 /\ bp \in F1
    /\ bp # base /\ pt1[p] = bp /\ sz1[p] \in Nat /\ sz1[bp] \in Nat /\ sz1[base] = 0
    /\ \A a \in F1 \ {base} : /\ sz1[a] > 0
                              /\ a # p => pt1[a] = base \/ a + sz1[a] < pt1[a]
    /\ p + sz1[p] <= bp /\ (p + sz1[p] = bp => p # base)
    /\ down \in BOOLEAN /\ (down <=> p + sz1[p] = bp)
    /\ F2 = IF down THEN F1 \ {bp} ELSE F1
    /\ pt2[p] = IF down THEN pt1[bp] ELSE bp
    /\ \A a \in F1 \ {p} : pt2[a] = pt1[a]
    /\ sz2[p] = IF down THEN sz1[p] + sz1[bp] ELSE sz1[p]
    /\ \A a \in F1 \ {p} : sz2[a] = sz1[a]

\* It is in order, no two blocks touch, and its units are the same.
LEMMA Under ==
  ASSUME NEW pt1, NEW sz1, NEW F1, NEW p, NEW bp, NEW down, NEW pt2, NEW sz2, NEW F2,
         Lowered(pt1, sz1, F1, p, bp, down, pt2, sz2, F2)
  PROVE  /\ Linked(pt2, F2) /\ Spaced(pt2, sz2, F2) /\ p \in F2 /\ F2 \in SUBSET Addr
         /\ \A u \in Nat : Cov(sz2, F2, u) <=> Cov(sz1, F1, u)
         /\ \E a \in F2 : sz2[a] >= sz1[bp]
<1> USE DEF Lowered
<1>0. /\ F1 \subseteq Nat /\ bp \in Nat /\ p \in Nat /\ base = 0 /\ base \in F1
      /\ pt1[bp] \in F1 /\ pt1[bp] \in Nat /\ sz1[bp] > 0
  BY Numbers DEF Linked
<1>1. CASE ~down
  <2>1. /\ F2 = F1 /\ \A a \in F1 : pt2[a] = pt1[a] /\ sz2[a] = sz1[a]
    BY <1>1
  <2>2. Linked(pt2, F2)
    BY <2>1 DEF Linked
  <2>3. Spaced(pt2, sz2, F2)
    <3>1. p + sz1[p] < bp
      BY <1>0, <1>1
    <3> QED BY <1>0, <2>1, <3>1 DEF Spaced
  <2>4. \A u \in Nat : Cov(sz2, F2, u) <=> Cov(sz1, F1, u)
    BY <2>1 DEF Cov
  <2>5. sz2[bp] >= sz1[bp]
    BY <2>1
  <2> QED BY <2>1, <2>2, <2>3, <2>4, <2>5
<1>2. CASE down
  <2>1. /\ F2 = F1 \ {bp} /\ pt2[p] = pt1[bp] /\ p # base /\ p \in F1 /\ bp \in F1
        /\ \A a \in F1 \ {bp, p} : pt2[a] = pt1[a]
    BY <1>2
  <2>2. Linked(pt2, F1 \ {bp}) /\ p < bp
    BY <2>1, TakeOut
  <2>3. p \in F2 /\ F2 \in SUBSET Addr
    BY <1>0, <2>1, <2>2
  <2>8. p + sz2[p] = bp + sz1[bp] /\ sz2[p] >= sz1[bp] /\ sz2[p] > 0 /\ sz2[p] \in Nat
        /\ p + sz1[p] = bp
    BY <1>0, <1>2
  <2>4. Spaced(pt2, sz2, F2)
    <3>1. sz2[base] = 0
      BY <1>0, <2>1
    <3>2. ASSUME NEW a \in F2 \ {base}
          PROVE  sz2[a] > 0 /\ (pt2[a] = base \/ a + sz2[a] < pt2[a])
      <4>1. CASE a = p
        <5>1. pt1[bp] = base \/ bp + sz1[bp] < pt1[bp]
          BY <2>2, <1>0
        <5> QED BY <2>1, <2>8, <4>1, <5>1
      <4>2. CASE a # p
        BY <2>1, <4>2
      <4> QED BY <4>1, <4>2
    <3> QED BY <3>1, <3>2 DEF Spaced
  <2>5. ASSUME NEW u \in Nat PROVE Cov(sz2, F2, u) <=> Cov(sz1, F1, u)
    <3>1. ASSUME Cov(sz2, F2, u) PROVE Cov(sz1, F1, u)
      <4>1. PICK a \in F2 \ {base} : a <= u /\ u < a + sz2[a]
        BY <3>1 DEF Cov
      <4>2. CASE a # p
        BY <2>1, <4>1, <4>2 DEF Cov
      <4>3. CASE a = p
        <5>1. (p <= u /\ u < p + sz1[p]) \/ (bp <= u /\ u < bp + sz1[bp])
          BY <1>0, <2>8, <4>1, <4>3
        <5> QED BY <2>1, <5>1 DEF Cov
      <4> QED BY <4>2, <4>3
    <3>2. ASSUME Cov(sz1, F1, u) PROVE Cov(sz2, F2, u)
      <4>1. PICK a \in F1 \ {base} : a <= u /\ u < a + sz1[a]
        BY <3>2 DEF Cov
      <4>2. CASE a # p /\ a # bp
        BY <2>1, <4>1, <4>2 DEF Cov
      <4>3. CASE a = p \/ a = bp
        <5>1. p <= u /\ u < p + sz2[p]
          BY <1>0, <2>2, <2>8, <4>1, <4>3
        <5> QED BY <2>1, <2>3, <5>1 DEF Cov
      <4> QED BY <4>2, <4>3
    <3> QED BY <3>1, <3>2
  <2> QED BY <2>1, <2>2, <2>3, <2>4, <2>5, <2>8
<1> QED BY <1>1, <1>2

\* The fields of what JoinAbove makes.
LEMMA AboveFields ==
  ASSUME NEW h \in Lists, NEW p \in Addr, NEW bp \in Addr, NEW q \in Addr, q = h.ptr[p],
         NEW up \in BOOLEAN, up <=> bp + h.size[bp] = q, NEW g, g = JoinAbove(h, p, bp)
  PROVE  /\ g \in Lists
         /\ g.ptr[bp] = IF up THEN h.ptr[q] ELSE q
         /\ \A a \in Addr \ {bp} : g.ptr[a] = h.ptr[a] /\ g.size[a] = h.size[a]
         /\ g.size[bp] = IF up THEN h.size[bp] + h.size[q] ELSE h.size[bp]
<1>0. h.size[bp] \in Nat /\ h.size[q] \in Nat /\ h.ptr[q] \in Addr \cup {NULL}
  BY DEF Lists
<1>1. CASE up
  <2>1. g = [h EXCEPT !.size[bp] = @ + h.size[q], !.ptr[bp] = h.ptr[q]]
    BY <1>1 DEF JoinAbove
  <2>2. g.ptr = [h.ptr EXCEPT ![bp] = h.ptr[q]]
    BY <2>1 DEF Lists
  <2>3. g.size = [h.size EXCEPT ![bp] = h.size[bp] + h.size[q]]
    BY <2>1 DEF Lists
  <2>4. g \in Lists
    <3>1. [h.size EXCEPT ![bp] = h.size[bp] + h.size[q]] \in [Addr -> Nat]
      BY <1>0 DEF Lists
    <3>2. [h.ptr EXCEPT ![bp] = h.ptr[q]] \in [Addr -> Addr \cup {NULL}]
      BY <1>0 DEF Lists
    <3> QED BY <2>1, <3>1, <3>2 DEF Lists
  <2> QED BY <1>1, <2>2, <2>3, <2>4 DEF Lists
<1>2. CASE ~up
  <2>1. g = [h EXCEPT !.ptr[bp] = q]
    BY <1>2 DEF JoinAbove
  <2>2. g.ptr = [h.ptr EXCEPT ![bp] = q]
    BY <2>1 DEF Lists
  <2>3. g.size = h.size
    BY <2>1 DEF Lists
  <2>4. g \in Lists
    BY <2>1 DEF Lists
  <2> QED BY <1>2, <2>2, <2>3, <2>4 DEF Lists
<1> QED BY <1>1, <1>2

\* And the fields of what JoinBelow makes.
LEMMA BelowFields ==
  ASSUME NEW h \in Lists, NEW p \in Addr, NEW bp \in Addr,
         NEW down \in BOOLEAN, down <=> p + h.size[p] = bp, NEW k, k = JoinBelow(h, p, bp)
  PROVE  /\ k \in Lists
         /\ k.ptr[p] = IF down THEN h.ptr[bp] ELSE bp
         /\ \A a \in Addr \ {p} : k.ptr[a] = h.ptr[a] /\ k.size[a] = h.size[a]
         /\ k.size[p] = IF down THEN h.size[p] + h.size[bp] ELSE h.size[p]
<1>0. h.size[bp] \in Nat /\ h.size[p] \in Nat /\ h.ptr[bp] \in Addr \cup {NULL}
  BY DEF Lists
<1>1. CASE down
  <2>1. k = [h EXCEPT !.size[p] = @ + h.size[bp], !.ptr[p] = h.ptr[bp]]
    BY <1>1 DEF JoinBelow
  <2>2. k.ptr = [h.ptr EXCEPT ![p] = h.ptr[bp]]
    BY <2>1 DEF Lists
  <2>3. k.size = [h.size EXCEPT ![p] = h.size[p] + h.size[bp]]
    BY <2>1 DEF Lists
  <2>4. k \in Lists
    <3>1. [h.size EXCEPT ![p] = h.size[p] + h.size[bp]] \in [Addr -> Nat]
      BY <1>0 DEF Lists
    <3>2. [h.ptr EXCEPT ![p] = h.ptr[bp]] \in [Addr -> Addr \cup {NULL}]
      BY <1>0 DEF Lists
    <3> QED BY <2>1, <3>1, <3>2 DEF Lists
  <2> QED BY <1>1, <2>2, <2>3, <2>4 DEF Lists
<1>2. CASE ~down
  <2>1. k = [h EXCEPT !.ptr[p] = bp]
    BY <1>2 DEF JoinBelow
  <2>2. k.ptr = [h.ptr EXCEPT ![p] = bp]
    BY <2>1 DEF Lists
  <2>3. k.size = h.size
    BY <2>1 DEF Lists
  <2>4. k \in Lists
    BY <2>1 DEF Lists
  <2> QED BY <1>2, <2>2, <2>3, <2>4 DEF Lists
<1> QED BY <1>1, <1>2

\* free() adds the units of bp to the list and writes only to free headers.
LEMMA GivenIs ==
  ASSUME NEW h, NEW F, Shape(h, F), NEW bp \in Addr \ {base}, NEW s, s = h.size[bp], s > 0,
         \A u \in Nat : bp <= u /\ u < bp + s => ~Cov(h.size, F, u),
         NEW g, g = Given(h, bp)
  PROVE  \E F2 : /\ Shape(g, F2)
                 /\ \A u \in Nat : Cov(g.size, F2, u)
                                     <=> Cov(h.size, F, u) \/ (bp <= u /\ u < bp + s)
                 /\ \A a \in Addr : g.size[a] = h.size[a] \/ a = bp \/ Cov(h.size, F, a)
                 /\ \E a \in F2 : g.size[a] >= s
<1>0. /\ h \in Lists /\ F \in SUBSET Addr /\ h.freep \in F /\ Linked(h.ptr, F) /\ bp \in Addr
      /\ F \subseteq Nat /\ bp \in Nat /\ s \in Nat /\ base = 0
  BY Numbers DEF Shape, Lists
<1>1. bp \notin F
  <2> SUFFICES ASSUME bp \in F PROVE FALSE
    OBVIOUS
  <2>1. bp <= bp /\ bp < bp + s
    BY <1>0
  <2>2. Cov(h.size, F, bp)
    BY <2>1 DEF Cov
  <2> QED BY <1>0, <2>1, <2>2
<1>2. PICK p \in F : p = Neighbour(h, bp) /\ p < bp /\ (h.ptr[p] = base \/ bp < h.ptr[p])
  BY <1>0, <1>1, NeighbourIs
<1>3. PICK q \in F : q = h.ptr[p]
  BY <1>0 DEF Linked
<1>4. /\ p + h.size[p] <= bp /\ (p + h.size[p] = bp => p # base)
      /\ h.ptr[p] # base => bp + s <= h.ptr[p]
  BY <1>0, <1>2, Between
<1>5. PICK up \in BOOLEAN : up <=> bp + s = q
  OBVIOUS
<1>6. PICK down \in BOOLEAN : down <=> p + h.size[p] = bp
  OBVIOUS
<1>7. PICK h1 : h1 = JoinAbove(h, p, bp)
  OBVIOUS
<1>8. /\ h1 \in Lists /\ h1.ptr[bp] = IF up THEN h.ptr[q] ELSE q
      /\ \A a \in Addr \ {bp} : h1.ptr[a] = h.ptr[a] /\ h1.size[a] = h.size[a]
      /\ h1.size[bp] = IF up THEN s + h.size[q] ELSE s
  BY <1>0, <1>3, <1>5, <1>7, AboveFields, SMTT(20)
<1>9. PICK k : k = JoinBelow(h1, p, bp)
  OBVIOUS
<1>10. g = [k EXCEPT !.freep = p]
  BY <1>2, <1>7, <1>9 DEF Given
<1>11. p \in Addr /\ p # bp /\ h1.size[p] = h.size[p] /\ h.size[p] \in Nat
  BY <1>0, <1>1, <1>8 DEF Lists
<1>12. down <=> p + h1.size[p] = bp
  BY <1>6, <1>11
<1>13. /\ g \in Lists /\ g.freep = p /\ g.ptr[p] = IF down THEN h1.ptr[bp] ELSE bp
       /\ \A a \in Addr \ {p} : g.ptr[a] = h1.ptr[a] /\ g.size[a] = h1.size[a]
       /\ g.size[p] = IF down THEN h1.size[p] + h1.size[bp] ELSE h1.size[p]
  <2>1. /\ k \in Lists /\ k.ptr[p] = IF down THEN h1.ptr[bp] ELSE bp
        /\ \A a \in Addr \ {p} : k.ptr[a] = h1.ptr[a] /\ k.size[a] = h1.size[a]
        /\ k.size[p] = IF down THEN h1.size[p] + h1.size[bp] ELSE h1.size[p]
    BY <1>0, <1>8, <1>9, <1>11, <1>12, BelowFields, SMTT(20)
  <2>2. g \in Lists /\ g.freep = p /\ g.ptr = k.ptr /\ g.size = k.size
    BY <1>10, <1>11, <2>1 DEF Lists
  <2> QED BY <2>1, <2>2
<1>14. PICK F1 : F1 = IF up THEN (F \ {q}) \cup {bp} ELSE F \cup {bp}
  OBVIOUS
<1>15. PICK F2 : F2 = IF down THEN F1 \ {bp} ELSE F1
  OBVIOUS
<1>16. PICK sz1 : sz1 = h1.size
  OBVIOUS
<1> DEFINE pt1 == [a \in Addr |-> IF a = p THEN bp ELSE h1.ptr[a]]
<1>17. /\ pt1[p] = bp /\ pt1[bp] = (IF up THEN h.ptr[q] ELSE q) /\ pt1[bp] = h1.ptr[bp]
       /\ \A a \in F \ {p} : pt1[a] = h.ptr[a]
       /\ \A a \in Addr \ {p} : pt1[a] = h1.ptr[a]
  <2>1. pt1[p] = bp
    BY <1>11
  <2>2. \A a \in Addr \ {p} : pt1[a] = h1.ptr[a]
    OBVIOUS
  <2> HIDE DEF pt1
  <2>3. pt1[bp] = h1.ptr[bp]
    BY <1>0, <1>11, <2>2
  <2> QED BY <1>0, <1>1, <1>8, <2>1, <2>2, <2>3
<1> HIDE DEF pt1
<1>18. /\ sz1[bp] = IF up THEN s + h.size[q] ELSE s
       /\ \A a \in F : sz1[a] = h.size[a]
  BY <1>0, <1>1, <1>8, <1>16
<1>19. /\ Linked(pt1, F1) /\ F1 \in SUBSET Addr /\ p \in F1 /\ bp \in F1
       /\ sz1[base] = 0 /\ sz1[bp] \in Nat /\ sz1[bp] >= s
       /\ \A a \in F1 \ {base} : /\ sz1[a] > 0
                                 /\ a # p => pt1[a] = base \/ a + sz1[a] < pt1[a]
       /\ \A u \in Nat : Cov(sz1, F1, u) <=> Cov(h.size, F, u) \/ (bp <= u /\ u < bp + s)
  <2>1. Raised(h, F, p, bp, s, q, up, pt1, sz1, F1)
    BY <1>0, <1>1, <1>2, <1>3, <1>4, <1>5, <1>14, <1>17, <1>18 DEF Raised
  <2> QED BY <2>1, Above
<1>20. PICK pt2 : pt2 = g.ptr
  OBVIOUS
<1>21. PICK sz2 : sz2 = g.size
  OBVIOUS
<1>22. /\ pt2[p] = IF down THEN pt1[bp] ELSE bp
       /\ \A a \in F1 \ {p} : pt2[a] = pt1[a]
       /\ sz2[p] = IF down THEN sz1[p] + sz1[bp] ELSE sz1[p]
       /\ \A a \in F1 \ {p} : sz2[a] = sz1[a]
  BY <1>13, <1>16, <1>17, <1>19, <1>20, <1>21
<1>23. /\ sz1[p] \in Nat /\ p + sz1[p] <= bp /\ (p + sz1[p] = bp => p # base)
       /\ down <=> p + sz1[p] = bp
  BY <1>4, <1>6, <1>11, <1>16
<1>24. /\ Linked(pt2, F2) /\ Spaced(pt2, sz2, F2) /\ p \in F2 /\ F2 \in SUBSET Addr
       /\ \A u \in Nat : Cov(sz2, F2, u) <=> Cov(sz1, F1, u)
       /\ \E a \in F2 : sz2[a] >= sz1[bp]
  <2>1. Lowered(pt1, sz1, F1, p, bp, down, pt2, sz2, F2)
    BY <1>15, <1>17, <1>19, <1>22, <1>23 DEF Lowered
  <2> QED BY <2>1, Under
<1>25. Shape(g, F2)
  BY <1>13, <1>20, <1>21, <1>24 DEF Shape
<1>26. \A u \in Nat : Cov(g.size, F2, u) <=> Cov(h.size, F, u) \/ (bp <= u /\ u < bp + s)
  BY <1>19, <1>21, <1>24
<1>27. ASSUME NEW a \in Addr PROVE g.size[a] = h.size[a] \/ a = bp \/ Cov(h.size, F, a)
  <2>1. CASE a = p /\ down
    <3>1. p # base /\ h.size[p] > 0
      BY <1>4, <1>6, <2>1 DEF Shape, Spaced
    <3>2. p <= p /\ p < p + h.size[p]
      BY <1>0, <1>11, <3>1
    <3> QED BY <2>1, <3>1, <3>2 DEF Cov
  <2>2. CASE ~(a = p /\ down)
    BY <1>8, <1>11, <1>13, <2>2
  <2> QED BY <2>1, <2>2
<1>28. \E a \in F2 : g.size[a] >= s
  <2>1. PICK a \in F2 : sz2[a] >= sz1[bp]
    BY <1>24
  <2>2. sz2[a] \in Nat
    BY <1>13, <1>21, <1>24 DEF Lists
  <2> QED BY <1>0, <1>19, <1>21, <2>1, <2>2
<1> QED BY <1>25, <1>26, <1>27, <1>28

-----------------------------------------------------------------------------
(* malloc(): block p of the list, which comes after prev, serves n units.  *)

\* All of block p is taken.
LEMMA TakenAll ==
  ASSUME NEW h, NEW F, Shape(h, F), NEW n \in Nat, n > 0, NEW prev \in F, NEW p \in F,
         p = h.ptr[prev], h.size[p] = n, NEW r, r = TakenFrom(h, prev, p, n)
  PROVE  /\ Shape(r.list, F \ {p}) /\ r.block = p /\ r.list.size = h.size
         /\ \A u \in Nat : Cov(h.size, F \ {p}, u)
                             <=> Cov(h.size, F, u) /\ ~(p <= u /\ u < p + n)
<1>0. /\ h \in Lists /\ F \in SUBSET Addr /\ F \subseteq Nat /\ Linked(h.ptr, F)
      /\ base = 0 /\ h.size[base] = 0 /\ \A a \in F : h.size[a] \in Nat /\ h.ptr[a] \in F
  BY Numbers DEF Shape, Lists, Spaced, Linked
<1>1. p # base
  BY <1>0
<1>2. PICK l : l = r.list
  OBVIOUS
<1>3. l = [h EXCEPT !.ptr[prev] = h.ptr[p], !.freep = prev] /\ r.block = p
  BY <1>2 DEF TakenFrom
<1>4. prev \in Addr /\ h.ptr[p] \in Addr
  BY <1>0
<1>5. /\ l.ptr = [h.ptr EXCEPT ![prev] = h.ptr[p]] /\ l.size = h.size /\ l.freep = prev
      /\ l \in Lists
  BY <1>0, <1>3, <1>4 DEF Lists
<1>6. /\ l.ptr[prev] = h.ptr[p] /\ \A a \in F \ {p, prev} : l.ptr[a] = h.ptr[a]
  BY <1>0, <1>4, <1>5 DEF Lists
<1>7. Linked(l.ptr, F \ {p}) /\ prev < p
  BY <1>0, <1>1, <1>6, TakeOut
<1>8. prev \in F \ {p} /\ prev \in Nat /\ p \in Nat
  BY <1>0, <1>7
<1>9. Spaced(l.ptr, l.size, F \ {p})
  <2>1. ASSUME NEW a \in F \ {p}, a # base
        PROVE  h.size[a] > 0 /\ (l.ptr[a] = base \/ a + h.size[a] < l.ptr[a])
    <3>1. h.size[a] > 0 /\ (h.ptr[a] = base \/ a + h.size[a] < h.ptr[a])
      BY <2>1 DEF Shape, Spaced
    <3>2. CASE a = prev
      <4>1. prev + h.size[prev] < p
        BY <1>1, <2>1, <3>1, <3>2
      <4>2. h.ptr[p] = base \/ p < h.ptr[p]
        BY <1>0 DEF Linked
      <4>3. h.ptr[p] \in Nat /\ h.size[prev] \in Nat
        BY <1>0
      <4> QED BY <1>6, <1>8, <3>1, <3>2, <4>1, <4>2, <4>3
    <3>3. CASE a # prev
      BY <1>6, <3>1, <3>3
    <3> QED BY <3>2, <3>3
  <2> QED BY <1>0, <1>5, <2>1 DEF Spaced
<1>10. ASSUME NEW u \in Nat
       PROVE  Cov(h.size, F \ {p}, u) <=> Cov(h.size, F, u) /\ ~(p <= u /\ u < p + n)
  <2>1. ASSUME Cov(h.size, F \ {p}, u)
        PROVE  Cov(h.size, F, u) /\ ~(p <= u /\ u < p + n)
    <3>1. PICK a \in (F \ {p}) \ {base} : a <= u /\ u < a + h.size[a]
      BY <2>1 DEF Cov
    <3>2. ~(p <= u /\ u < p + n)
      BY <1>1, <3>1, OneBlock
    <3> QED BY <3>1, <3>2 DEF Cov
  <2>2. ASSUME Cov(h.size, F, u), ~(p <= u /\ u < p + n) PROVE Cov(h.size, F \ {p}, u)
    BY <2>2 DEF Cov
  <2> QED BY <2>1, <2>2
<1>11. Shape(l, F \ {p})
  BY <1>0, <1>5, <1>7, <1>8, <1>9 DEF Shape
<1> QED BY <1>2, <1>3, <1>5, <1>10, <1>11

\* The end of block p is taken, behind a header of its own.
LEMMA TakenEnd ==
  ASSUME NEW h, NEW F, Shape(h, F), NEW n \in Nat, n > 0, NEW prev \in F, NEW p \in F,
         p = h.ptr[prev], h.size[p] > n, NEW q \in Addr, q = p + h.size[p] - n,
         NEW r, r = TakenFrom(h, prev, p, n)
  PROVE  /\ Shape(r.list, F) /\ r.block = q /\ r.list.size[q] = n
         /\ \A a \in Addr \ {p, q} : r.list.size[a] = h.size[a]
         /\ \A u \in Nat : Cov(r.list.size, F, u)
                             <=> Cov(h.size, F, u) /\ ~(q <= u /\ u < q + n)
<1>0. /\ h \in Lists /\ F \in SUBSET Addr /\ F \subseteq Nat /\ Linked(h.ptr, F)
      /\ base = 0 /\ h.size[base] = 0 /\ \A a \in F : h.size[a] \in Nat /\ h.ptr[a] \in F
  BY Numbers DEF Shape, Lists, Spaced, Linked
<1>1. p # base /\ p \in Addr /\ prev \in Addr /\ p \in Nat /\ q \in Nat /\ h.size[p] \in Nat
  <2>1. p \in Addr /\ prev \in Addr /\ p \in Nat /\ q \in Nat /\ h.size[p] \in Nat
    BY <1>0, Numbers
  <2>2. h.size[p] # 0
    BY <2>1
  <2> QED BY <1>0, <2>1, <2>2
<1>2. h.size[p] - n \in Nat /\ h.size[p] - n > 0 /\ p < q /\ q + n = p + h.size[p]
      /\ p + (h.size[p] - n) = q /\ h.size[p] # n
  BY <1>1
<1>3. PICK l : l = r.list
  OBVIOUS
<1>4. PICK z : z = [h.size EXCEPT ![p] = h.size[p] - n, ![q] = n]
  OBVIOUS
<1>5. z \in [Addr -> Nat]
  BY <1>0, <1>2, <1>4 DEF Lists
<1>6. l = [h EXCEPT !.size[p] = @ - n, !.size[q] = n, !.freep = prev] /\ r.block = q
  BY <1>2, <1>3 DEF TakenFrom
<1>7. l.ptr = h.ptr /\ l.freep = prev
  BY <1>0, <1>6 DEF Lists
<1>8. l.size = z
  BY <1>0, <1>1, <1>2, <1>4, <1>6 DEF Lists
<1>9. l \in Lists
  BY <1>0, <1>1, <1>2, <1>4, <1>5, <1>6 DEF Lists
<1>10. q \notin F
  <2> SUFFICES ASSUME q \in F PROVE FALSE
    OBVIOUS
  <2>1. p + h.size[p] < q
    BY <1>1, <1>2, Ends
  <2> QED BY <1>1, <1>2, <2>1
<1>11. /\ l.size[p] = h.size[p] - n /\ l.size[q] = n
      /\ \A a \in Addr \ {p, q} : l.size[a] = h.size[a]
  BY <1>0, <1>1, <1>2, <1>4, <1>8 DEF Lists
<1>12. \A a \in F \ {p} : l.size[a] = h.size[a]
  BY <1>0, <1>10, <1>11
<1>13. Spaced(l.ptr, l.size, F)
  <2>1. ASSUME NEW a \in F \ {base}
        PROVE  l.size[a] > 0 /\ (h.ptr[a] = base \/ a + l.size[a] < h.ptr[a])
    <3>1. h.size[a] > 0 /\ (h.ptr[a] = base \/ a + h.size[a] < h.ptr[a])
      BY DEF Shape, Spaced
    <3>2. CASE a = p
      <4>1. h.ptr[p] \in Nat
        BY <1>0
      <4> QED BY <1>1, <1>2, <1>11, <3>1, <3>2, <4>1
    <3>3. CASE a # p
      BY <1>12, <3>1, <3>3
    <3> QED BY <3>2, <3>3
  <2>2. l.size[base] = 0
    BY <1>0, <1>1, <1>12 DEF Linked
  <2> QED BY <1>7, <2>1, <2>2 DEF Spaced
<1>14. ASSUME NEW u \in Nat
       PROVE  Cov(l.size, F, u) <=> Cov(h.size, F, u) /\ ~(q <= u /\ u < q + n)
  <2>1. ASSUME Cov(l.size, F, u) PROVE Cov(h.size, F, u) /\ ~(q <= u /\ u < q + n)
    <3>1. PICK a \in F \ {base} : a <= u /\ u < a + l.size[a]
      BY <2>1 DEF Cov
    <3>2. CASE a = p
      <4>1. u < p + h.size[p] /\ u < q
        BY <1>1, <1>2, <1>11, <3>1, <3>2
      <4> QED BY <1>1, <3>1, <3>2, <4>1 DEF Cov
    <3>3. CASE a # p
      <4>1. a <= u /\ u < a + h.size[a]
        BY <1>12, <3>1, <3>3
      <4>2. ~(p <= u /\ u < p + h.size[p])
        BY <1>1, <3>3, <4>1, OneBlock
      <4>3. ~(q <= u /\ u < q + n)
        BY <1>1, <1>2, <4>2
      <4> QED BY <4>1, <4>3 DEF Cov
    <3> QED BY <3>2, <3>3
  <2>2. ASSUME Cov(h.size, F, u), ~(q <= u /\ u < q + n) PROVE Cov(l.size, F, u)
    <3>1. PICK a \in F \ {base} : a <= u /\ u < a + h.size[a]
      BY <2>2 DEF Cov
    <3>2. CASE a = p
      <4>1. u < p + l.size[p]
        BY <1>1, <1>2, <1>11, <2>2, <3>1, <3>2
      <4> QED BY <3>1, <3>2, <4>1 DEF Cov
    <3>3. CASE a # p
      BY <1>12, <3>1, <3>3 DEF Cov
    <3> QED BY <3>2, <3>3
  <2> QED BY <2>1, <2>2
<1>15. Shape(l, F)
  BY <1>0, <1>7, <1>9, <1>13 DEF Shape
<1> QED BY <1>3, <1>6, <1>11, <1>14, <1>15

\* malloc() takes its units from the list and writes only to free headers.
LEMMA TakenIs ==
  ASSUME NEW h, NEW F, Shape(h, F), NEW n \in Nat, n > 0, Fits(h, n) # {},
         \A u \in Nat : Cov(h.size, F, u) => u <= MaxAddr,
         NEW r, r = FirstFit(h, n)
  PROVE  \E F2 : /\ Shape(r.list, F2) /\ r.block \in Addr \ {base}
                 /\ r.list.size[r.block] = n
                 /\ \A u \in Nat : r.block <= u /\ u < r.block + n => Cov(h.size, F, u)
                 /\ \A u \in Nat : Cov(r.list.size, F2, u)
                       <=> Cov(h.size, F, u) /\ ~(r.block <= u /\ u < r.block + n)
                 /\ \A a \in Addr : r.list.size[a] = h.size[a] \/ Cov(h.size, F, a)
<1>0. /\ h \in Lists /\ F \in SUBSET Addr /\ F \subseteq Nat /\ Linked(h.ptr, F) /\ h.freep \in F
      /\ base = 0 /\ h.size[base] = 0 /\ \A a \in F : h.size[a] \in Nat /\ h.ptr[a] \in F
  BY Numbers DEF Shape, Lists, Spaced, Linked
<1>1. PICK prev \in F : /\ h.size[h.ptr[prev]] >= n
                        /\ r = TakenFrom(h, prev, h.ptr[prev], n)
  BY <1>0, FirstFitIs
<1>2. PICK p \in F : p = h.ptr[prev]
  BY <1>0
<1>3. p # base /\ p \in Nat /\ h.size[p] \in Nat /\ h.size[p] >= n
  BY <1>0, <1>1, <1>2
<1>4. \A u \in Nat : p <= u /\ u < p + h.size[p] => Cov(h.size, F, u)
  BY <1>3 DEF Cov
<1>5. Cov(h.size, F, p)
  BY <1>3, <1>4
<1>6. CASE h.size[p] = n
  <2>1. /\ Shape(r.list, F \ {p}) /\ r.block = p /\ r.list.size = h.size
        /\ \A u \in Nat : Cov(h.size, F \ {p}, u)
                            <=> Cov(h.size, F, u) /\ ~(p <= u /\ u < p + n)
    BY <1>1, <1>2, <1>6, TakenAll
  <2>2. p \in Addr
    BY <1>0
  <2> QED BY <1>3, <1>4, <1>6, <2>1, <2>2
<1>7. CASE h.size[p] > n
  <2>1. PICK q \in Nat : /\ q = p + h.size[p] - n /\ p < q /\ q < p + h.size[p]
                         /\ q + n = p + h.size[p]
    BY <1>3, <1>7
  <2>2. Cov(h.size, F, q)
    BY <1>3, <1>4, <2>1
  <2>3. q \in Addr /\ q # base
    BY <1>0, <1>3, <2>1, <2>2, Numbers DEF Addr
  <2>4. /\ Shape(r.list, F) /\ r.block = q /\ r.list.size[q] = n
        /\ \A a \in Addr \ {p, q} : r.list.size[a] = h.size[a]
        /\ \A u \in Nat : Cov(r.list.size, F, u)
                            <=> Cov(h.size, F, u) /\ ~(q <= u /\ u < q + n)
    <3>1. r = TakenFrom(h, prev, p, n)
      BY <1>1, <1>2
    <3>2. q = p + h.size[p] - n
      BY <2>1
    <3> QED BY <1>2, <1>7, <2>3, <3>1, <3>2, TakenEnd
  <2>5. ASSUME NEW u \in Nat, q <= u, u < q + n PROVE Cov(h.size, F, u)
    <3>1. p <= u /\ u < p + h.size[p]
      BY <1>3, <2>1, <2>5
    <3> QED BY <1>4, <3>1
  <2> QED BY <1>5, <2>2, <2>3, <2>4, <2>5
<1> QED BY <1>3, <1>6, <1>7

-----------------------------------------------------------------------------
(* The blocks in use, and the steps.                                       *)

\* A block in use has its own units.
LEMMA LiveBlock ==
  ASSUME NEW lv, lv \subseteq (Addr \ {base}) \X (Nat \ {0}), NEW x \in lv
  PROVE  /\ x[1] \in Addr /\ x[1] # base /\ x[1] \in Nat /\ x[2] \in Nat /\ x[2] > 0
         /\ In(x, x[1])
<1>1. x[1] \in Addr /\ x[1] # base /\ x[1] \in Nat /\ x[2] \in Nat /\ x[2] > 0
  <2>1. PICK a \in Addr \ {base}, n \in Nat \ {0} : x = <<a, n>>
    OBVIOUS
  <2>2. a \in Nat /\ n > 0
    BY Numbers
  <2> QED BY <2>1, <2>2
<1> QED BY <1>1 DEF In

\* free() of a block in use.
LEMMA Freed ==
  ASSUME NEW h, NEW F, NEW lv, NEW ar, NEW bk, Good(h, F, lv, ar, bk), NEW x \in lv
  PROVE  \E F2 : Good(Given(h, x[1]), F2, lv \ {x}, ar, bk)
<1>0. /\ Shape(h, F) /\ lv \subseteq (Addr \ {base}) \X (Nat \ {0})
      /\ \A y \in lv : h.size[y[1]] = y[2]
      /\ \A y, z \in lv : \A u \in Nat : In(y, u) /\ In(z, u) => y = z
      /\ \A y \in lv : \A u \in Nat : In(y, u) => ~Cov(h.size, F, u)
  BY DEF Good, Apart
<1>1. PICK bp \in Addr \ {base} : bp = x[1]
  BY <1>0, LiveBlock
<1>2. PICK s \in Nat : s = x[2] /\ s > 0 /\ s = h.size[bp]
  BY <1>0, <1>1, LiveBlock
<1>3. \A u \in Nat : In(x, u) <=> bp <= u /\ u < bp + s
  BY <1>1, <1>2 DEF In
<1>4. PICK g : g = Given(h, bp)
  OBVIOUS
<1>5. PICK F2 : /\ Shape(g, F2)
                /\ \A u \in Nat : Cov(g.size, F2, u)
                                    <=> Cov(h.size, F, u) \/ (bp <= u /\ u < bp + s)
                /\ \A a \in Addr : g.size[a] = h.size[a] \/ a = bp \/ Cov(h.size, F, a)
  <2>1. \A u \in Nat : bp <= u /\ u < bp + s => ~Cov(h.size, F, u)
    BY <1>0, <1>3
  <2> QED BY <1>0, <1>2, <1>4, <2>1, GivenIs
<1>6. \A u \in Nat : Cov(g.size, F2, u) <=> Cov(h.size, F, u) \/ In(x, u)
  BY <1>3, <1>5
<1>7. ASSUME NEW y \in lv, y # x PROVE g.size[y[1]] = y[2]
  <2>1. y[1] \in Addr /\ y[1] \in Nat /\ In(y, y[1]) /\ x[1] \in Nat /\ In(x, x[1])
    BY <1>0, LiveBlock
  <2>2. y[1] # bp
    BY <1>0, <1>1, <1>7, <2>1
  <2>3. ~Cov(h.size, F, y[1])
    BY <1>0, <2>1
  <2> QED BY <1>0, <1>5, <2>1, <2>2, <2>3
<1>8. Apart(g.size, F2, lv \ {x})
  <2>1. ASSUME NEW y \in lv \ {x}, NEW u \in Nat, In(y, u) PROVE ~Cov(g.size, F2, u)
    BY <1>0, <1>6, <2>1
  <2> QED BY <1>0, <1>7, <2>1 DEF Apart
<1>9. Below(g.size, F2, lv \ {x}, ar, bk)
  <2>1. /\ bk \in Nat \ {0} /\ bk <= MaxAddr + 1 /\ ar \subseteq Nat
        /\ \A u \in Nat : Cov(h.size, F, u) \/ (\E y \in lv : In(y, u)) => u < bk
        /\ \A u \in Nat : u \in ar <=> Cov(h.size, F, u) \/ \E y \in lv : In(y, u)
    BY DEF Good, Below
  <2>2. ASSUME NEW u \in Nat
        PROVE  (Cov(g.size, F2, u) \/ \E y \in lv \ {x} : In(y, u))
                 <=> (Cov(h.size, F, u) \/ \E y \in lv : In(y, u))
    BY <1>6
  <2> QED BY <2>1, <2>2 DEF Below
<1> QED BY <1>1, <1>4, <1>5, <1>8, <1>9 DEF Good

\* morecore() writes the header of the s units from the break.
Extended(h, bk, s, new) ==
    /\ new \in Lists /\ new.ptr = h.ptr /\ new.freep = h.freep
    /\ new.size = [h.size EXCEPT ![bk] = s]

\* free() then puts them into the list.
LEMMA Grown ==
  ASSUME NEW h, NEW F, NEW lv, NEW ar, NEW bk, Good(h, F, lv, ar, bk),
         NEW s \in Nat, s > 0, bk + s <= MaxAddr + 1,
         NEW new, Extended(h, bk, s, new), NEW g, g = Given(new, bk)
  PROVE  \E F2 : /\ Good(g, F2, lv, ar \cup Units(bk, s), bk + s)
                 /\ \E a \in F2 : g.size[a] >= s
<1> USE DEF Extended
<1>0. /\ Shape(h, F) /\ h \in Lists /\ lv \subseteq (Addr \ {base}) \X (Nat \ {0})
      /\ \A y \in lv : h.size[y[1]] = y[2]
      /\ \A y, z \in lv : \A u \in Nat : In(y, u) /\ In(z, u) => y = z
      /\ \A y \in lv : \A u \in Nat : In(y, u) => ~Cov(h.size, F, u)
      /\ bk \in Nat /\ bk # 0 /\ ar \subseteq Nat
      /\ \A u \in Nat : Cov(h.size, F, u) \/ (\E y \in lv : In(y, u)) => u < bk
      /\ \A u \in Nat : u \in ar <=> Cov(h.size, F, u) \/ \E y \in lv : In(y, u)
  BY DEF Good, Apart, Below, Shape
<1>1. bk \in Addr \ {base}
  BY <1>0, Numbers DEF Addr
<1>2. new.size[bk] = s /\ \A a \in Addr \ {bk} : new.size[a] = h.size[a]
  BY <1>0, <1>1 DEF Lists
<1>3. \A u \in Nat : bk <= u => ~Cov(h.size, F, u)
  BY <1>0
<1>4. bk \notin F
  <2> SUFFICES ASSUME bk \in F PROVE FALSE
    OBVIOUS
  <2>1. h.size[bk] > 0 /\ h.size[bk] \in Nat
    BY <1>0, <1>1 DEF Shape, Spaced, Lists
  <2>2. bk <= bk /\ bk < bk + h.size[bk]
    BY <1>0, <2>1
  <2>3. Cov(h.size, F, bk)
    BY <1>1, <2>2 DEF Cov
  <2> QED BY <1>0, <1>3, <2>2, <2>3
<1>5. F \subseteq Addr /\ \A a \in F : new.size[a] = h.size[a]
  BY <1>0, <1>2, <1>4 DEF Shape
<1>6. Shape(new, F)
  <2>1. base \in F
    BY <1>0 DEF Shape, Linked
  <2> QED BY <1>0, <1>5, <2>1 DEF Shape, Spaced
<1>7. \A u \in Nat : Cov(new.size, F, u) <=> Cov(h.size, F, u)
  BY <1>5 DEF Cov
<1>8. PICK F2 : /\ Shape(g, F2)
                /\ \A u \in Nat : Cov(g.size, F2, u)
                                    <=> Cov(new.size, F, u) \/ (bk <= u /\ u < bk + s)
                /\ \A a \in Addr : g.size[a] = new.size[a] \/ a = bk \/ Cov(new.size, F, a)
                /\ \E a \in F2 : g.size[a] >= s
  <2>1. \A u \in Nat : bk <= u /\ u < bk + s => ~Cov(new.size, F, u)
    BY <1>3, <1>7
  <2> QED BY <1>1, <1>2, <1>6, <2>1, GivenIs, ZenonT(30)
<1>9. \A u \in Nat : Cov(g.size, F2, u) <=> Cov(h.size, F, u) \/ (bk <= u /\ u < bk + s)
  BY <1>7, <1>8
<1>10. ASSUME NEW y \in lv, NEW u \in Nat, In(y, u) PROVE u < bk
  BY <1>0, <1>10
<1>11. ASSUME NEW y \in lv PROVE g.size[y[1]] = y[2]
  <2>1. y[1] \in Addr /\ y[1] \in Nat /\ In(y, y[1])
    BY <1>0, LiveBlock
  <2>2. y[1] # bk
    <3>1. y[1] < bk
      BY <1>10, <2>1
    <3> QED BY <1>0, <2>1, <3>1
  <2>3. ~Cov(new.size, F, y[1])
    BY <1>0, <1>7, <2>1
  <2> QED BY <1>0, <1>2, <1>8, <2>1, <2>2, <2>3
<1>12. Apart(g.size, F2, lv)
  <2>1. ASSUME NEW y \in lv, NEW u \in Nat, In(y, u) PROVE ~Cov(g.size, F2, u)
    <3>1. u < bk /\ ~Cov(h.size, F, u)
      BY <1>0, <1>10, <2>1
    <3> QED BY <1>0, <1>9, <3>1
  <2> QED BY <1>0, <1>11, <2>1 DEF Apart
<1>13. Below(g.size, F2, lv, ar \cup Units(bk, s), bk + s)
  <2>1. \A u : u \in Units(bk, s) <=> u \in Nat /\ bk <= u /\ u < bk + s
    BY <1>0 DEF Units
  <2>2. bk + s \in Nat \ {0} /\ ar \cup Units(bk, s) \subseteq Nat
    <3>1. bk + s \in Nat /\ bk + s # 0
      BY <1>0
    <3>2. ar \cup Units(bk, s) \subseteq Nat
      BY <1>0, <2>1
    <3> QED BY <3>1, <3>2
  <2>3. ASSUME NEW u \in Nat
        PROVE  u \in ar \cup Units(bk, s) <=> Cov(g.size, F2, u) \/ \E y \in lv : In(y, u)
    BY <1>0, <1>9, <2>1
  <2>4. ASSUME NEW u \in Nat, Cov(g.size, F2, u) \/ \E y \in lv : In(y, u) PROVE u < bk + s
    <3>1. u < bk \/ u < bk + s
      BY <1>0, <1>9, <2>4
    <3> QED BY <1>0, <3>1
  <2> QED BY <2>2, <2>3, <2>4 DEF Below
<1> QED BY <1>8, <1>12, <1>13 DEF Good

\* malloc() from a list with a block that is large enough.
LEMMA Taken ==
  ASSUME NEW h, NEW F, NEW lv, NEW ar, NEW bk, Good(h, F, lv, ar, bk),
         NEW n \in Nat, n > 0, Fits(h, n) # {}, NEW r, r = FirstFit(h, n)
  PROVE  \E F2 : Good(r.list, F2, lv \cup {<<r.block, n>>}, ar, bk)
<1>0. /\ Shape(h, F) /\ lv \subseteq (Addr \ {base}) \X (Nat \ {0})
      /\ \A y \in lv : h.size[y[1]] = y[2]
      /\ \A y, z \in lv : \A u \in Nat : In(y, u) /\ In(z, u) => y = z
      /\ \A y \in lv : \A u \in Nat : In(y, u) => ~Cov(h.size, F, u)
      /\ bk \in Nat \ {0} /\ bk <= MaxAddr + 1 /\ ar \subseteq Nat
      /\ \A u \in Nat : Cov(h.size, F, u) \/ (\E y \in lv : In(y, u)) => u < bk
      /\ \A u \in Nat : u \in ar <=> Cov(h.size, F, u) \/ \E y \in lv : In(y, u)
  BY DEF Good, Apart, Below
<1>1. \A u \in Nat : Cov(h.size, F, u) => u <= MaxAddr
  BY <1>0, Numbers
<1>2. PICK F2 : /\ Shape(r.list, F2) /\ r.block \in Addr \ {base}
                /\ r.list.size[r.block] = n
                /\ \A u \in Nat : r.block <= u /\ u < r.block + n => Cov(h.size, F, u)
                /\ \A u \in Nat : Cov(r.list.size, F2, u)
                       <=> Cov(h.size, F, u) /\ ~(r.block <= u /\ u < r.block + n)
                /\ \A a \in Addr : r.list.size[a] = h.size[a] \/ Cov(h.size, F, a)
  BY <1>0, <1>1, TakenIs
<1>3. PICK x : x = <<r.block, n>>
  OBVIOUS
<1>4. x[1] = r.block /\ x[2] = n /\ x \in (Addr \ {base}) \X (Nat \ {0})
  BY <1>2, <1>3
<1>5. \A u \in Nat : In(x, u) => Cov(h.size, F, u)
  BY <1>2, <1>4 DEF In
<1>6. \A u \in Nat : Cov(r.list.size, F2, u) <=> Cov(h.size, F, u) /\ ~In(x, u)
  BY <1>2, <1>4 DEF In
<1>7. ASSUME NEW y \in lv PROVE r.list.size[y[1]] = y[2]
  <2>1. y[1] \in Addr /\ y[1] \in Nat /\ In(y, y[1])
    BY <1>0, LiveBlock
  <2> QED BY <1>0, <1>2, <2>1
<1>8. Apart(r.list.size, F2, lv \cup {x})
  <2>1. ASSUME NEW y \in lv \cup {x}, NEW z \in lv \cup {x}, NEW u \in Nat, In(y, u), In(z, u)
        PROVE  y = z
    BY <1>0, <1>5, <2>1
  <2>2. ASSUME NEW y \in lv \cup {x}, NEW u \in Nat, In(y, u) PROVE ~Cov(r.list.size, F2, u)
    BY <1>0, <1>6, <2>2
  <2>3. \A y \in lv \cup {x} : r.list.size[y[1]] = y[2]
    BY <1>2, <1>4, <1>7
  <2>4. lv \cup {x} \subseteq (Addr \ {base}) \X (Nat \ {0})
    BY <1>0, <1>4
  <2> QED BY <2>1, <2>2, <2>3, <2>4 DEF Apart
<1>9. Below(r.list.size, F2, lv \cup {x}, ar, bk)
  <2>1. ASSUME NEW u \in Nat
        PROVE  (Cov(r.list.size, F2, u) \/ \E y \in lv \cup {x} : In(y, u))
                 <=> (Cov(h.size, F, u) \/ \E y \in lv : In(y, u))
    BY <1>5, <1>6
  <2> QED BY <1>0, <2>1 DEF Below
<1> QED BY <1>2, <1>3, <1>8, <1>9 DEF Good

\* What malloc() finds is the list, once there is one.
LEMMA FoundIs ==
  ASSUME NEW F, NEW lv, NEW ar, NEW bk, NEW h, Good(h, F, lv, ar, bk), Becomes(h)
  PROVE  Found' = h /\ freep' # NULL /\ ptr' \in [Addr -> Addr \cup {NULL}]
         /\ size' \in [Addr -> Nat] /\ freep' \in Addr
<1>1. h \in Lists /\ h = [ptr |-> h.ptr, size |-> h.size, freep |-> h.freep]
  BY DEF Good, Shape, Lists
<1>2. ptr' = h.ptr /\ size' = h.size /\ freep' = h.freep
  BY DEF Becomes
<1>3. freep' \in Addr /\ freep' # NULL
  BY <1>1, <1>2, Numbers DEF Lists
<1> QED BY <1>1, <1>2, <1>3 DEF Found, Lists

\* Before its first malloc() a program has no block.
LEMMA HeapInit == Init => HeapInv
<1> SUFFICES ASSUME Init PROVE HeapInv
  OBVIOUS
<1>0. base \in Addr /\ base = 0 /\ Addr \subseteq Nat /\ MaxAddr \in Nat
  BY Numbers
<1>1. PICK h : h = Found
  OBVIOUS
<1>2. h = [ptr |-> [ptr EXCEPT ![base] = base], size |-> [size EXCEPT ![base] = 0],
           freep |-> base]
  BY <1>1 DEF Found, Init
<1>3. ptr \in [Addr -> Addr \cup {NULL}] /\ size \in [Addr -> Nat] /\ freep = NULL
  BY DEF Init
<1>4. h \in Lists
  BY <1>0, <1>2, <1>3 DEF Lists
<1>5. h.ptr[base] = base /\ h.size[base] = 0 /\ h.freep = base
  BY <1>0, <1>2, <1>3
<1>6. Shape(h, {base})
  BY <1>0, <1>4, <1>5 DEF Shape, Linked, Spaced
<1>7. \A u \in Nat : ~Cov(h.size, {base}, u)
  BY DEF Cov
<1>8. Apart(h.size, {base}, live)
  BY DEF Apart, Init
<1>9. Below(h.size, {base}, live, areas, brk)
  BY <1>0, <1>7 DEF Below, Init
<1>10. {base} \in SUBSET Addr
  BY <1>0
<1> QED BY <1>1, <1>3, <1>6, <1>8, <1>9, <1>10 DEF HeapInv, Good

\* morecore() asks for no less than the request.
LEMMA MoreIs ==
  ASSUME NEW n \in 2 .. MaxUnits
  PROVE  n \in Nat /\ n > 0 /\ More(n) \in Nat /\ More(n) > 0 /\ More(n) >= n
BY MaxUnitsAssumption, MINALLOCAssumption DEF More

\* Every call of malloc() and free() keeps the invariant.
LEMMA HeapStep == HeapInv /\ [Next]_vars => HeapInv'
<1> SUFFICES ASSUME HeapInv, [Next]_vars PROVE HeapInv'
  OBVIOUS
<1>1. PICK F \in SUBSET Addr : Good(Found, F, live, areas, brk)
  BY DEF HeapInv
<1>2. ASSUME NEW h, NEW F2, Good(h, F2, live', areas', brk'), Becomes(h) PROVE HeapInv'
  <2>1. /\ Found' = h /\ freep' # NULL /\ ptr' \in [Addr -> Addr \cup {NULL}]
        /\ size' \in [Addr -> Nat] /\ freep' \in Addr
    BY <1>2, FoundIs
  <2>2. F2 \in SUBSET Addr
    BY <1>2 DEF Good, Shape
  <2>3. Good(Found', F2, live', areas', brk')
    BY <1>2, <2>1
  <2> QED BY <2>1, <2>2, <2>3 DEF HeapInv
<1>3. ASSUME NEW n \in 2 .. MaxUnits, MallocHit(n) PROVE HeapInv'
  <2>1. PICK r : r = FirstFit(Found, n)
    OBVIOUS
  <2>2. /\ Fits(Found, n) # {} /\ Becomes(r.list) /\ live' = live \cup {<<r.block, n>>}
        /\ brk' = brk /\ areas' = areas
    BY <1>3, <2>1 DEF MallocHit, Returns
  <2>3. \E F2 : Good(r.list, F2, live \cup {<<r.block, n>>}, areas, brk)
    BY <1>1, <2>1, <2>2, MoreIs, Taken
  <2> QED BY <1>2, <2>2, <2>3
<1>4. ASSUME NEW n \in 2 .. MaxUnits, MallocGrow(n) PROVE HeapInv'
  <2>1. PICK new : new = [Found EXCEPT !.size[brk] = More(n)]
    OBVIOUS
  <2>2. PICK g : g = Given(new, brk)
    OBVIOUS
  <2>3. PICK r : r = FirstFit(g, n)
    OBVIOUS
  <2>4. /\ brk + More(n) <= MaxAddr + 1 /\ Becomes(r.list)
        /\ live' = live \cup {<<r.block, n>>}
        /\ brk' = brk + More(n) /\ areas' = areas \cup Units(brk, More(n))
    BY <1>4, <2>1, <2>2, <2>3 DEF MallocGrow, Returns
  <2>5. PICK F1 : /\ Good(g, F1, live, areas', brk')
                  /\ \E a \in F1 : g.size[a] >= More(n)
    <3>1. /\ Found \in Lists /\ brk \in Addr /\ More(n) \in Nat /\ More(n) > 0
      <4>1. Found \in Lists /\ brk \in Nat
        BY <1>1 DEF Good, Shape, Below
      <4> QED BY <2>4, <4>1, MoreIs, Numbers DEF Addr
    <3>2. PICK h : h = Found
      OBVIOUS
    <3>3. new.ptr = h.ptr /\ new.freep = h.freep
          /\ new.size = [h.size EXCEPT ![brk] = More(n)]
      BY <2>1, <3>1, <3>2 DEF Lists
    <3>4. new \in Lists
      BY <2>1, <3>1, <3>2 DEF Lists
    <3>5. PICK s \in Nat : s = More(n)
      BY <3>1
    <3>6. Good(h, F, live, areas, brk) /\ s > 0 /\ brk + s <= MaxAddr + 1
      BY <1>1, <2>4, <3>1, <3>2, <3>5
    <3>7. Extended(h, brk, s, new)
      BY <3>3, <3>4, <3>5 DEF Extended
    <3>8. \E F1 : /\ Good(g, F1, live, areas \cup Units(brk, s), brk + s)
                  /\ \E a \in F1 : g.size[a] >= s
      BY <2>2, <3>6, <3>7, Grown, ZenonT(30)
    <3> QED BY <2>4, <3>5, <3>8
  <2>6. Fits(g, n) # {}
    <3>1. PICK a \in F1 : g.size[a] >= More(n)
      BY <2>5
    <3>2. F1 \in SUBSET Addr /\ Linked(g.ptr, F1) /\ g.freep \in F1 /\ g.size[a] \in Nat
      BY <2>5, <3>1 DEF Good, Shape, Lists
    <3>3. g.size[a] >= n
      BY <3>1, <3>2, MoreIs
    <3> QED BY <3>2, <3>3, FitsSome
  <2>7. \E F2 : Good(r.list, F2, live \cup {<<r.block, n>>}, areas', brk')
    BY <2>3, <2>5, <2>6, MoreIs, Taken
  <2> QED BY <1>2, <2>4, <2>7
<1>5. ASSUME NEW n \in 2 .. MaxUnits, MallocFails(n) PROVE HeapInv'
  <2>1. /\ brk + More(n) <= MaxAddr + 1 /\ Becomes(Found) /\ live' = live /\ areas' = areas
        /\ brk' = brk + More(n)
    BY <1>5 DEF MallocFails
  <2>2. brk \in Nat \ {0} /\ More(n) \in Nat
    BY <1>1, MoreIs DEF Good, Below
  <2>3. brk + More(n) \in Nat \ {0} /\ \A u \in Nat : u < brk => u < brk + More(n)
    BY <2>2
  <2>4. Good(Found, F, live, areas, brk + More(n))
    BY <1>1, <2>1, <2>3 DEF Good, Below
  <2> QED BY <1>2, <2>1, <2>4
<1>6. ASSUME NEW x \in live, Free(x) PROVE HeapInv'
  <2>1. Becomes(Given(Found, x[1])) /\ live' = live \ {x} /\ brk' = brk /\ areas' = areas
    BY <1>6 DEF Free
  <2>2. \E F2 : Good(Given(Found, x[1]), F2, live \ {x}, areas, brk)
    BY <1>1, Freed
  <2> QED BY <1>2, <2>1, <2>2
<1>7. CASE UNCHANGED vars
  BY <1>7 DEF vars, heap, HeapInv, Found
<1> QED BY <1>3, <1>4, <1>5, <1>6, <1>7 DEF Next

-----------------------------------------------------------------------------
(* The theorems.                                                           *)

\* The inductive invariant holds of every heap a program can make by calling
\* malloc() and free(), at any size of heap, request and growth.
THEOREM HeapInvariant == Spec => []HeapInv
BY HeapInit, HeapStep, PTL DEF Spec

\* What the list is made of, as the properties see it.
LEMMA ListIs ==
  ASSUME NEW F \in SUBSET Addr, Good(Found, F, live, areas, brk)
  PROVE  Listed(Found) = F /\ base \in F
<1>1. Shape(Found, F)
  BY DEF Good
<1> QED BY <1>1, ListedIs DEF Shape, Linked

\* malloc() and free() never hand out a unit twice and never lose one: the free
\* blocks and the blocks in use are apart, together they are what sbrk() has
\* given, and the header of each block in use holds its size.
THEOREM HeapKept == Spec => []HeapPartition
<1>1. HeapInv => HeapPartition
  <2> SUFFICES ASSUME HeapInv PROVE HeapPartition
    OBVIOUS
  <2>1. PICK F \in SUBSET Addr : Good(Found, F, live, areas, brk)
    BY DEF HeapInv
  <2>2. Listed(Found) = F /\ base \in F
    BY <2>1, ListIs
  <2>3. PICK h : h = Found
    OBVIOUS
  <2>4. /\ Shape(h, F) /\ live \subseteq (Addr \ {base}) \X (Nat \ {0})
        /\ \A y \in live : h.size[y[1]] = y[2]
        /\ \A y, z \in live : \A u \in Nat : In(y, u) /\ In(z, u) => y = z
        /\ \A y \in live : \A u \in Nat : In(y, u) => ~Cov(h.size, F, u)
        /\ areas \subseteq Nat
        /\ \A u \in Nat : u \in areas <=> Cov(h.size, F, u) \/ \E y \in live : In(y, u)
    BY <2>1, <2>3 DEF Good, Apart, Below
  <2>5. \A a \in Addr \ {base} : h.size[a] = size[a]
    BY <2>3, Numbers DEF HeapInv, Found
  <2>6. F \subseteq Nat /\ \A a \in F : h.size[a] \in Nat
    BY <2>4, Numbers DEF Shape, Lists
  <2>7. FreeBlocks = {<<a, h.size[a]>> : a \in F \ {base}}
    BY <2>2, <2>5 DEF FreeBlocks
  <2>8. ASSUME NEW x \in FreeBlocks
        PROVE  /\ x[1] \in F \ {base} /\ x[2] = h.size[x[1]] /\ x = <<x[1], x[2]>>
               /\ x[1] \in Nat /\ x[2] \in Nat
    <3>1. PICK a \in F \ {base} : x = <<a, h.size[a]>>
      BY <2>7
    <3> QED BY <2>6, <3>1
  <2>9. ASSUME NEW x \in FreeBlocks \cup live
        PROVE  \A u : u \in Units(x[1], x[2]) <=> u \in Nat /\ In(x, u)
    <3>1. x[1] \in Nat /\ x[2] \in Nat
      BY <2>4, <2>8, LiveBlock
    <3> QED BY <3>1 DEF Units, In
  <2>10. \A u \in Nat : Cov(h.size, F, u) <=> \E x \in FreeBlocks : In(x, u)
    <3> SUFFICES ASSUME NEW u \in Nat
                 PROVE  Cov(h.size, F, u) <=> \E x \in FreeBlocks : In(x, u)
      OBVIOUS
    <3>1. ASSUME Cov(h.size, F, u) PROVE \E x \in FreeBlocks : In(x, u)
      <4>1. PICK a \in F \ {base} : a <= u /\ u < a + h.size[a]
        BY <3>1 DEF Cov
      <4>2. <<a, h.size[a]>> \in FreeBlocks
        BY <2>7
      <4>3. In(<<a, h.size[a]>>, u)
        BY <4>1 DEF In
      <4> QED BY <4>2, <4>3
    <3>2. ASSUME NEW x \in FreeBlocks, In(x, u) PROVE Cov(h.size, F, u)
      BY <2>8, <3>2 DEF Cov, In
    <3> QED BY <3>1, <3>2
  <2>11. Disjoint(FreeBlocks \cup live)
    <3>1. ASSUME NEW x \in FreeBlocks \cup live, NEW y \in FreeBlocks \cup live, NEW u \in Nat,
                 In(x, u), In(y, u)
          PROVE  x = y
      <4>1. CASE x \in live /\ y \in live
        BY <2>4, <3>1, <4>1
      <4>2. CASE x \in FreeBlocks /\ y \in live
        BY <2>4, <2>10, <3>1, <4>2
      <4>3. CASE x \in live /\ y \in FreeBlocks
        BY <2>4, <2>10, <3>1, <4>3
      <4>4. CASE x \in FreeBlocks /\ y \in FreeBlocks
        <5>1. x[1] = y[1]
          <6>1. /\ x[1] <= u /\ u < x[1] + h.size[x[1]] /\ y[1] <= u /\ u < y[1] + h.size[y[1]]
                /\ x[1] \in F \ {base} /\ y[1] \in F \ {base}
            BY <2>8, <3>1, <4>4 DEF In
          <6> QED BY <2>4, <6>1, OneBlock
        <5> QED BY <2>8, <4>4, <5>1
      <4> QED BY <4>1, <4>2, <4>3, <4>4
    <3> QED BY <2>9, <3>1 DEF Disjoint
  <2>12. Area(FreeBlocks \cup live) = areas
    <3>1. ASSUME NEW u PROVE u \in Area(FreeBlocks \cup live) <=> u \in areas
      <4>1. u \in Area(FreeBlocks \cup live)
              <=> \E x \in FreeBlocks \cup live : u \in Units(x[1], x[2])
        BY DEF Area
      <4>2. u \in Area(FreeBlocks \cup live)
              <=> u \in Nat /\ \E x \in FreeBlocks \cup live : In(x, u)
        BY <2>9, <4>1
      <4> QED BY <2>4, <2>10, <4>2
    <3> QED BY <3>1
  <2>13. \A x \in live : size[x[1]] = x[2]
    BY <2>4, <2>5, LiveBlock
  <2> QED BY <2>11, <2>12, <2>13 DEF HeapPartition
<1> QED BY <1>1, HeapInvariant, PTL

\* The free list is in address order, steps back once, to base, and holds no two
\* blocks that touch.
THEOREM ListKept == Spec => []ListSorted
<1>1. HeapInv => ListSorted
  <2> SUFFICES ASSUME HeapInv, freep # NULL PROVE ListSorted
    BY DEF ListSorted
  <2>1. PICK F \in SUBSET Addr : Good(Found, F, live, areas, brk)
    BY DEF HeapInv
  <2>2. Listed(Found) = F /\ base \in F
    BY <2>1, ListIs
  <2>3. Found.ptr = ptr /\ Found.size = size
    BY DEF Found
  <2>4. /\ F \subseteq Nat /\ base = 0 /\ size[base] = 0 /\ Linked(ptr, F)
        /\ \A a \in F : size[a] \in Nat
        /\ \A a \in F \ {base} : ptr[a] = base \/ a + size[a] < ptr[a]
    BY <2>1, <2>3, Numbers DEF Good, Shape, Spaced, HeapInv
  <2>5. ASSUME NEW a \in F
        PROVE  /\ a < ptr[a] => \A b \in F : ~(a < b /\ b < ptr[a])
               /\ ptr[a] <= a => \A b \in F : ptr[a] <= b /\ b <= a
               /\ size[a] > 0 => a + size[a] # ptr[a]
    <3>1. a \in Nat /\ ptr[a] \in Nat /\ size[a] \in Nat /\ ptr[a] \in F
      BY <2>4 DEF Linked
    <3>2. IF ptr[a] = base THEN \A b \in F : b <= a
          ELSE a < ptr[a] /\ \A b \in F : b <= a \/ ptr[a] <= b
      BY <2>4 DEF Linked
    <3>3. ASSUME NEW b \in F, a < ptr[a], a < b, b < ptr[a] PROVE FALSE
      <4>1. b \in Nat
        BY <2>4
      <4> QED BY <2>4, <3>1, <3>2, <3>3, <4>1
    <3>4. ASSUME NEW b \in F, ptr[a] <= a PROVE ptr[a] <= b /\ b <= a
      <4>1. b \in Nat
        BY <2>4
      <4>2. ptr[a] = base
        BY <3>1, <3>2, <3>4
      <4> QED BY <2>4, <3>2, <4>1, <4>2
    <3>5. ASSUME size[a] > 0 PROVE a + size[a] # ptr[a]
      <4>1. a # base
        BY <2>4, <3>5
      <4>2. ptr[a] = base \/ a + size[a] < ptr[a]
        BY <2>4, <4>1
      <4> QED BY <2>4, <3>1, <3>5, <4>2
    <3> QED BY <3>3, <3>4, <3>5
  <2> QED BY <2>2, <2>5 DEF ListSorted
<1> QED BY <1>1, HeapInvariant, PTL
=============================================================================
