---------------------------- MODULE VirtioProofs ----------------------------
(***************************************************************************)
(* Theorems about Virtio, for every queue size, every number of callers    *)
(* and indices that wrap at any multiple of the queue size: the free list  *)
(* loses and duplicates no descriptor, and a caller returns only when the  *)
(* device has finished its own request.                                    *)
(*                                                                         *)
(* Walks along desc[].next are recursive functions; what they compute is   *)
(* proved by taking the least index at which it would not hold.            *)
(***************************************************************************)
EXTENDS Virtio, FiniteSetTheorems, WellFoundedInduction, TLAPS

\* The descriptors of a request whose first one is d.
Trio(d) == {d, next[d], next[next[d]]}

\* disk.lk is held in virtio_blk_op() but for its sleep, and in the handler.
Inside == {"publish", "notify", "check"}
HolderInv ==
    /\ \A t \in Threads : pc[t] \in Inside => lk = t
    /\ hpc # "idle" => lk = "intr"

\* The requests in use: three linked descriptors each, which point to the memory of
\* the caller and belong to nobody else.
ChainInv ==
    /\ \A t \in Busy :
          /\ flags[d0[t]] /\ flags[next[d0[t]]] /\ ~flags[next[next[d0[t]]]]
          /\ d0[t] # next[d0[t]]
          /\ next[next[d0[t]]] \notin {d0[t], next[d0[t]]}
          /\ \A e \in Trio(d0[t]) : addr[e] = t
    /\ \A t, u \in Busy : t # u => Trio(d0[t]) \cap Trio(d0[u]) = {}

\* s lists the free descriptors in the order of their links.
FreeList(s) ==
    /\ nfree > 0 => s[0] = free_head
    /\ \A i \in 0 .. nfree - 2 : flags[s[i]] /\ next[s[i]] = s[i + 1]
    /\ \A i, j \in 0 .. nfree - 1 : s[i] = s[j] => i = j
    /\ \A t \in Busy : \A i \in 0 .. nfree - 1 : s[i] \notin Trio(d0[t])
FreeInv ==
    /\ \E s \in [0 .. nfree - 1 -> Desc] : FreeList(s)
    /\ nfree + 3 * Cardinality(Busy) = NQUEUE

\* The index k steps after i, and the ring slot it selects.
Fwd(i, k) == (i + k) % IdxMod
Slot(i, k) == Fwd(i, k) % NQUEUE

\* The n entries of a ring from index i on, and that they are different.
Entries(ring, i, n) == {ring[Slot(i, k)] : k \in 0 .. n - 1}
Distinct(ring, i, n) ==
    \A j, k \in 0 .. n - 1 : ring[Slot(i, j)] = ring[Slot(i, k)] => j = k

Finished == {d \in Desc : done[d]}

\* The published requests: in the available ring, with the device, in the used ring,
\* done.  Each is in one place only and belongs to a caller, and what has passed the
\* device is served.
Placed(avail, work, used, fin) ==
    /\ \A d \in avail \cup work \cup used \cup fin :
          \E t \in Busy : d = d0[t] /\ pc[t] # "publish"
    /\ avail \cap work = {} /\ avail \cap used = {} /\ avail \cap fin = {}
    /\ work \cap used = {} /\ work \cap fin = {} /\ used \cap fin = {}
    /\ \A t \in Busy : d0[t] \in used \cup fin => served[t]
PlacesOk(na, nu) ==
    /\ availIdx = Fwd(seen, na) /\ Distinct(availRing, seen, na)
    /\ usedIdx = Fwd(last_used_idx, nu) /\ Distinct(usedRing, last_used_idx, nu)
    /\ Placed(Entries(availRing, seen, na), inflight,
              Entries(usedRing, last_used_idx, nu), Finished)
PlaceInv ==
    /\ \E na, nu \in 0 .. NQUEUE : PlacesOk(na, nu)
    /\ \A t \in Threads : pc[t] = "publish" => availRing[availIdx % NQUEUE] = d0[t]

\* A caller that is not done has left its buffer for the handler to wake it, and
\* does not sleep when it is done.
WakeInv ==
    \A t \in Threads :
        /\ pc[t] \in {"check", "asleep", "awake"} /\ ~done[d0[t]] => buf[d0[t]] = BufOf[t]
        /\ pc[t] = "asleep" => ~done[d0[t]]

QueueInv == TypeOK /\ HolderInv /\ ChainInv /\ FreeInv /\ PlaceInv /\ WakeInv

-----------------------------------------------------------------------------
(* Arithmetic of the ring indices.                                         *)

LEMMA DivMod ==
  ASSUME NEW n \in Nat \ {0}, NEW x \in Int
  PROVE  \E k \in Int : \E r \in 0 .. n - 1 : x = n * k + r /\ x % n = r
<1>1. x % n \in 0 .. n - 1 /\ x \div n \in Int
  OBVIOUS
<1>2. x = n * (x \div n) + (x % n)
  BY Z3
<1> QED BY <1>1, <1>2

LEMMA ModIs ==
  ASSUME NEW n \in Nat \ {0}, NEW k \in Int, NEW r \in 0 .. n - 1
  PROVE  (n * k + r) % n = r
OBVIOUS

\* A multiple of n can be taken away.
LEMMA ModMinus ==
  ASSUME NEW n \in Nat \ {0}, NEW m \in Int, m % n = 0, NEW x \in Int
  PROVE  (x - m) % n = x % n
<1>1. PICK k \in Int, r \in 0 .. n - 1 : x = n * k + r /\ x % n = r
  BY DivMod
<1>2. PICK j \in Int, w \in 0 .. n - 1 : m = n * j + w /\ m % n = w
  BY DivMod
<1>3. m = n * j
  BY <1>2
<1>4. n * (k - j) = n * k - n * j
  OBVIOUS
<1>5. x - m = n * (k - j) + r /\ k - j \in Int
  BY <1>1, <1>3, <1>4
<1>6. (n * (k - j) + r) % n = r
  BY ModIs
<1> QED BY <1>1, <1>5, <1>6

\* Numbers with the same remainder are n apart.
LEMMA ModApart ==
  ASSUME NEW n \in Nat \ {0}, NEW x \in Int, NEW y \in Int, x % n = y % n, x < y
  PROVE  x + n <= y
<1>1. PICK k \in Int, r \in 0 .. n - 1 : x = n * k + r /\ x % n = r
  BY DivMod
<1>2. PICK j \in Int, w \in 0 .. n - 1 : y = n * j + w /\ y % n = w
  BY DivMod
<1>3. y - x = n * j - n * k
  BY <1>1, <1>2
<1>4. n * j - n * k = n * (j - k)
  OBVIOUS
<1>5. \A i \in Int : i <= 0 => n * i <= 0
  OBVIOUS
<1>6. \A i \in Int : i >= 1 => n * i >= n
  OBVIOUS
<1>7. j - k >= 1
  <2>1. j - k <= 0 => n * (j - k) <= 0
    BY <1>5
  <2> QED BY <1>3, <1>4, <2>1
<1> QED BY <1>3, <1>4, <1>6, <1>7

\* What indices and slots do, as the proofs use it.
LEMMA FwdFacts ==
  ASSUME NEW i \in Idx
  PROVE  /\ Inc(i) \in Idx /\ Fwd(i, 0) = i
         /\ \A k \in 0 .. NQUEUE :
               /\ Fwd(i, k) \in Idx
               /\ Inc(Fwd(i, k)) = Fwd(i, k + 1)
               /\ Fwd(Inc(i), k) = Fwd(i, k + 1)
         /\ NQUEUE <= IdxMod
         /\ \A k \in 1 .. NQUEUE - 1 : Fwd(i, k) # i
<1> USE NQUEUEAssumption, IdxModAssumption DEF Idx, Fwd, Inc
<1>1. \A x \in Int : x % IdxMod \in 0 .. IdxMod - 1
  OBVIOUS
<1>2. \A x \in 0 .. IdxMod - 1 : x % IdxMod = x
  OBVIOUS
<1>3. \A x \in Int : (x - IdxMod) % IdxMod = x % IdxMod
  <2>1. IdxMod % IdxMod = 0
    BY ModIs, IdxMod * 1 + 0 = IdxMod
  <2>2. IdxMod \in Nat \ {0} /\ IdxMod \in Int
    OBVIOUS
  <2> QED BY <2>1, <2>2, ModMinus
<1>4. \A x \in 0 .. 2 * IdxMod - 1 :
         x % IdxMod = IF x < IdxMod THEN x ELSE x - IdxMod
  <2> SUFFICES ASSUME NEW x \in 0 .. 2 * IdxMod - 1, x >= IdxMod
               PROVE  x % IdxMod = x - IdxMod
    BY <1>2
  <2>1. x \in Int /\ x - IdxMod \in 0 .. IdxMod - 1
    OBVIOUS
  <2>2. (x - IdxMod) % IdxMod = x % IdxMod
    BY <1>3, <2>1
  <2> QED BY <1>2, <2>1, <2>2
<1>5. NQUEUE <= IdxMod
  <2> SUFFICES ASSUME IdxMod < NQUEUE PROVE FALSE
    OBVIOUS
  <2>1. IdxMod % NQUEUE = IdxMod
    BY IdxMod \in 0 .. NQUEUE - 1
  <2> QED BY <2>1
<1>6. Inc(i) \in Idx /\ Fwd(i, 0) = i
  BY <1>1, <1>2
<1>7. ASSUME NEW k \in 0 .. NQUEUE
      PROVE  /\ Fwd(i, k) \in Idx /\ Inc(Fwd(i, k)) = Fwd(i, k + 1)
             /\ Fwd(Inc(i), k) = Fwd(i, k + 1)
  <2>0. Fwd(i, k) \in Idx
    BY <1>1
  <2>1. /\ i + k \in 0 .. 2 * IdxMod - 1 /\ i + 1 \in 0 .. 2 * IdxMod - 1
        /\ (i + k) + 1 = i + (k + 1) /\ i + (k + 1) \in Int
    BY <1>5
  <2>2. (i + (k + 1) - IdxMod) % IdxMod = (i + (k + 1)) % IdxMod
    <3> DEFINE x == i + (k + 1)
    <3>1. x \in Int
      BY <2>1
    <3> HIDE DEF x
    <3>2. (x - IdxMod) % IdxMod = x % IdxMod
      BY <1>3, <3>1
    <3> QED BY <3>2 DEF x
  <2>3. Inc(Fwd(i, k)) = Fwd(i, k + 1)
    <3>1. (i + k) % IdxMod = IF i + k < IdxMod THEN i + k ELSE i + k - IdxMod
      BY <1>4, <2>1
    <3>2. (i + k - IdxMod) + 1 = i + (k + 1) - IdxMod
      BY <2>1
    <3> QED BY <2>1, <2>2, <3>1, <3>2
  <2>4. Fwd(Inc(i), k) = Fwd(i, k + 1)
    <3>1. (i + 1) % IdxMod = IF i + 1 < IdxMod THEN i + 1 ELSE i + 1 - IdxMod
      BY <1>4, <2>1
    <3>2. (i + 1 - IdxMod) + k = i + (k + 1) - IdxMod /\ (i + 1) + k = i + (k + 1)
      BY <2>1
    <3> QED BY <2>1, <2>2, <3>1, <3>2
  <2> QED BY <2>0, <2>3, <2>4
<1>8. \A k \in 1 .. NQUEUE - 1 : Fwd(i, k) # i
  BY <1>4, <1>5
<1> QED BY <1>5, <1>6, <1>7, <1>8

LEMMA SlotFacts ==
  ASSUME NEW i \in Idx
  PROVE  /\ Slot(i, 0) = i % NQUEUE
         /\ \A k \in 0 .. NQUEUE :
               /\ Slot(i, k) \in Desc
               /\ Slot(i, k) = Fwd(i, k) % NQUEUE
               /\ Slot(Inc(i), k) = Slot(i, k + 1)
         /\ \A j, k \in 0 .. NQUEUE - 1 : Slot(i, j) = Slot(i, k) => j = k
<1> USE NQUEUEAssumption, IdxModAssumption
<1>1. \A x \in Int : x % NQUEUE \in Desc
  BY DEF Desc
<1>2. \A x \in Int : x % IdxMod \in Int
  OBVIOUS
<1>3. ASSUME NEW k \in 0 .. NQUEUE
      PROVE  Slot(i, k) = (i + k) % NQUEUE
  <2>1. Fwd(i, k) = i + k \/ Fwd(i, k) = (i + k) - IdxMod
    <3>1. PICK m \in Int, r \in 0 .. IdxMod - 1 :
             i + k = IdxMod * m + r /\ (i + k) % IdxMod = r
      BY DivMod, i + k \in Int, IdxMod \in Nat \ {0} DEF Idx
    <3>2. i + k < 2 * IdxMod /\ i + k >= 0
      BY FwdFacts DEF Idx
    <3>3. m < 2 /\ m >= 0
      <4>1. \A z \in Int : z >= 2 => IdxMod * z >= 2 * IdxMod
        OBVIOUS
      <4>2. \A z \in Int : z <= -1 => IdxMod * z <= -IdxMod
        OBVIOUS
      <4> QED BY <3>1, <3>2, <4>1, <4>2
    <3>4. m = 0 \/ m = 1
      BY <3>3
    <3> QED BY <3>1, <3>4 DEF Fwd
  <2>2. ((i + k) - IdxMod) % NQUEUE = (i + k) % NQUEUE
    BY ModMinus, i + k \in Int, IdxMod \in Int DEF Idx
  <2> QED BY <2>1, <2>2 DEF Slot
<1>4. ASSUME NEW k \in 0 .. NQUEUE
      PROVE  Slot(i, k) \in Desc
  BY <1>1, <1>2 DEF Slot, Fwd, Idx
<1>5. ASSUME NEW k \in 0 .. NQUEUE
      PROVE  Slot(Inc(i), k) = Slot(i, k + 1)
  BY FwdFacts DEF Slot
<1>6. ASSUME NEW j \in 0 .. NQUEUE - 1, NEW k \in 0 .. NQUEUE - 1, j < k
      PROVE  Slot(i, j) # Slot(i, k)
  <2> SUFFICES ASSUME (i + j) % NQUEUE = (i + k) % NQUEUE PROVE FALSE
    BY <1>3
  <2>1. (i + j) + NQUEUE <= i + k
    BY <1>6, ModApart, i + j \in Int, i + k \in Int, i + j < i + k DEF Idx
  <2> QED BY <2>1 DEF Idx
<1>7. Slot(i, 0) = i % NQUEUE
  BY FwdFacts DEF Slot
<1>8. \A j, k \in 0 .. NQUEUE - 1 : Slot(i, j) = Slot(i, k) => j = k
  <2> SUFFICES ASSUME NEW j \in 0 .. NQUEUE - 1, NEW k \in 0 .. NQUEUE - 1,
                      Slot(i, j) = Slot(i, k), j # k
               PROVE  FALSE
    OBVIOUS
  <2>1. j < k \/ k < j
    OBVIOUS
  <2> QED BY <2>1, <1>6
<1> QED BY <1>4, <1>5, <1>7, <1>8 DEF Slot

-----------------------------------------------------------------------------
(* Walks along the links of the descriptors.                               *)

LEMMA LeastNat ==
  ASSUME NEW S \in SUBSET Nat, S # {}
  PROVE  \E x \in S : \A y \in S : x <= y
<1> DEFINE R == {p \in Nat \X Nat : p[1] < p[2]}
<1>1. IsWellFoundedOn(R, Nat)
  BY NatLessThanWellFounded DEF OpToRel
<1> HIDE DEF R
<1>2. PICK x \in S : \A y \in S : ~ (<<y, x>> \in R)
  BY <1>1, WFMin
<1>3. ASSUME NEW y \in S PROVE x <= y
  <2>1. x \in Nat /\ y \in Nat
    OBVIOUS
  <2>2. y < x => <<y, x>> \in R
    BY <2>1 DEF R
  <2> QED BY <1>2, <2>1, <2>2
<1> QED BY <1>3

\* The walk from n exists, however long.
LEMMA WalkExists ==
  ASSUME NEW nx \in [Desc -> Desc], NEW n \in Desc, NEW m \in Nat
  PROVE  \E f \in [0 .. m -> Desc] :
            f[0] = n /\ \A i \in 0 .. m - 1 : f[i + 1] = nx[f[i]]
<1> DEFINE Walk(f, k) == f[0] = n /\ \A i \in 0 .. k - 1 : f[i + 1] = nx[f[i]]
           Bad == {k \in Nat : ~ \E f \in [0 .. k -> Desc] : Walk(f, k)}
<1> SUFFICES ASSUME m \in Bad PROVE FALSE
  OBVIOUS
<1>1. PICK k \in Bad : \A j \in Bad : k <= j
  BY LeastNat
<1>2. CASE k = 0
  <2>1. Walk([i \in 0 .. 0 |-> n], 0)
    OBVIOUS
  <2>2. [i \in 0 .. 0 |-> n] \in [0 .. 0 -> Desc]
    OBVIOUS
  <2> QED BY <1>2, <2>1, <2>2
<1>3. CASE k # 0
  <2>1. k - 1 \in Nat /\ k - 1 \notin Bad
    BY <1>1, <1>3
  <2>2. PICK f \in [0 .. k - 1 -> Desc] : Walk(f, k - 1)
    BY <2>1
  <2> DEFINE g == [i \in 0 .. k |-> IF i = k THEN nx[f[k - 1]] ELSE f[i]]
  <2>3. g \in [0 .. k -> Desc]
    BY <2>1
  <2>4. g[0] = n
    BY <1>3, <2>1, <2>2
  <2>5. ASSUME NEW i \in 0 .. k - 1 PROVE g[i + 1] = nx[g[i]]
    <3>1. CASE i = k - 1
      BY <3>1, <2>1
    <3>2. CASE i # k - 1
      BY <3>2, <2>1, <2>2
    <3> QED BY <3>1, <3>2
  <2>6. Walk(g, k)
    BY <2>4, <2>5
  <2> QED BY <2>3, <2>6
<1> QED BY <1>2, <1>3

LEMMA LinkFacts ==
  ASSUME NEW v, v.next \in [Desc -> Desc], NEW n \in Desc
  PROVE  /\ Link(v, n) \in [0 .. NQUEUE -> Desc] /\ Link(v, n)[0] = n
         /\ \A i \in 0 .. NQUEUE - 1 : Link(v, n)[i + 1] = v.next[Link(v, n)[i]]
<1> USE NQUEUEAssumption
<1> DEFINE D(f) == [i \in 0 .. NQUEUE |-> IF i = 0 THEN n ELSE v.next[f[i - 1]]]
           L == CHOOSE f : f = D(f)
<1>1. Link(v, n) = L
  BY DEF Link
<1>2. PICK f \in [0 .. NQUEUE -> Desc] :
         f[0] = n /\ \A i \in 0 .. NQUEUE - 1 : f[i + 1] = v.next[f[i]]
  BY WalkExists, ZenonT(30)
<1>3. f = D(f)
  <2>1. \A i \in 0 .. NQUEUE : f[i] = IF i = 0 THEN n ELSE v.next[f[i - 1]]
    <3> SUFFICES ASSUME NEW i \in 0 .. NQUEUE, i # 0 PROVE f[i] = v.next[f[i - 1]]
      BY <1>2
    <3>1. i - 1 \in 0 .. NQUEUE - 1 /\ (i - 1) + 1 = i
      OBVIOUS
    <3> QED BY <1>2, <3>1
  <2> QED BY <2>1
<1>4. L = D(L)
  BY <1>3
<1> HIDE DEF L
<1>5. L[0] = n /\ \A i \in 0 .. NQUEUE - 1 : L[i + 1] = v.next[L[i]]
  BY <1>4
<1>6. ASSUME NEW i \in 0 .. NQUEUE PROVE L[i] \in Desc
  <2> DEFINE Bad == {k \in Nat : k <= NQUEUE /\ L[k] \notin Desc}
  <2> SUFFICES ASSUME i \in Bad PROVE FALSE
    OBVIOUS
  <2>1. PICK k \in Bad : \A j \in Bad : k <= j
    BY LeastNat
  <2>2. k # 0
    BY <1>5
  <2>3. k - 1 \in 0 .. NQUEUE - 1 /\ k - 1 \notin Bad /\ (k - 1) + 1 = k
    BY <2>1, <2>2
  <2> QED BY <1>5, <2>3
<1>7. L \in [0 .. NQUEUE -> Desc]
  BY <1>4, <1>6
<1> QED BY <1>1, <1>5, <1>7

\* A list whose elements are linked is the walk from its first element.
LEMMA LinkIs ==
  ASSUME NEW v, v.next \in [Desc -> Desc], NEW m \in 0 .. NQUEUE,
         NEW s \in [0 .. m -> Desc], \A i \in 0 .. m - 1 : v.next[s[i]] = s[i + 1]
  PROVE  \A i \in 0 .. m : Link(v, s[0])[i] = s[i]
<1> DEFINE L == Link(v, s[0])
           Bad == {i \in Nat : i <= m /\ L[i] # s[i]}
<1>1. s[0] \in Desc /\ m \in Nat /\ NQUEUE \in Nat
  BY NQUEUEAssumption
<1>2. L[0] = s[0] /\ \A i \in 0 .. NQUEUE - 1 : L[i + 1] = v.next[L[i]]
  BY <1>1, LinkFacts
<1> HIDE DEF L
<1> SUFFICES ASSUME Bad # {} PROVE FALSE
  BY <1>1 DEF L
<1>3. PICK k \in Bad : \A j \in Bad : k <= j
  BY LeastNat
<1>4. k # 0
  BY <1>2
<1>5. k - 1 \in 0 .. m - 1 /\ k - 1 \notin Bad /\ (k - 1) + 1 = k /\ k - 1 \in 0 .. NQUEUE - 1
  BY <1>1, <1>3, <1>4
<1> QED BY <1>2, <1>5

\* The chain of a request: two links, to the one descriptor without F_NEXT.
LEMMA ChainIs ==
  ASSUME NQUEUE >= 3, NEW v, v.next \in [Desc -> Desc], v.flags \in [Desc -> BOOLEAN],
         NEW n \in Desc,
         v.flags[n], v.flags[v.next[n]], ~v.flags[v.next[v.next[n]]]
  PROVE  /\ Length(v, n) = 2 /\ Link(v, n)[Length(v, n)] = v.next[v.next[n]]
         /\ Chain(v, n) = {n, v.next[n], v.next[v.next[n]]}
<1>0. /\ Link(v, n)[0] = n
      /\ \A i \in 0 .. NQUEUE - 1 : Link(v, n)[i + 1] = v.next[Link(v, n)[i]]
  BY LinkFacts
<1> USE NQUEUEAssumption
<1> DEFINE L == Link(v, n)
<1>1. L[0] = n /\ L[1] = v.next[n] /\ L[2] = v.next[v.next[n]]
  <2>1. L[0] = n /\ \A i \in 0 .. NQUEUE - 1 : L[i + 1] = v.next[L[i]]
    BY <1>0
  <2> HIDE DEF L
  <2>2. L[0 + 1] = v.next[L[0]] /\ L[1 + 1] = v.next[L[1]]
    BY <2>1
  <2> QED BY <2>1, <2>2
<1> HIDE DEF L
<1> DEFINE Ends(i) == ~v.flags[L[i]] /\ \A j \in 0 .. i - 1 : v.flags[L[j]]
<1>2. Length(v, n) = CHOOSE i \in 0 .. NQUEUE : Ends(i)
  BY DEF Length, L
<1>3. 2 \in 0 .. NQUEUE /\ Ends(2)
  <2>1. \A j \in 0 .. 2 - 1 : j = 0 \/ j = 1
    OBVIOUS
  <2> QED BY <1>1, <2>1
<1>4. ASSUME NEW i \in 0 .. NQUEUE, Ends(i) PROVE i = 2
  <2>1. i # 0 /\ i # 1
    BY <1>1, <1>4
  <2>2. ~(i > 2)
    <3>1. i > 2 => 2 \in 0 .. i - 1
      OBVIOUS
    <3> QED BY <1>1, <1>4, <3>1
  <2> QED BY <2>1, <2>2
<1>5. Length(v, n) = 2
  <2> HIDE DEF Ends
  <2> QED BY <1>2, <1>3, <1>4
<1>6. Chain(v, n) = {L[i] : i \in 0 .. 2}
  BY <1>5 DEF Chain, L
<1>7. 0 .. 2 = {0, 1, 2}
  OBVIOUS
<1> QED BY <1>1, <1>5, <1>6, <1>7 DEF L

-----------------------------------------------------------------------------
(* alloc_desc() three times, and free_desc(), on the free list s.          *)

\* The values of q.
Queues == [flags : [Desc -> BOOLEAN], next : [Desc -> Desc], head : Desc, nfree : Int]

\* s with a, b and c in front.
Put(a, b, c, s) ==
    [i \in 0 .. nfree + 2 |->
        IF i = 0 THEN a ELSE IF i = 1 THEN b ELSE IF i = 2 THEN c ELSE s[i - 3]]

LEMMA Types ==
  ASSUME TypeOK
  PROVE  /\ flags \in [Desc -> BOOLEAN] /\ next \in [Desc -> Desc]
         /\ addr \in [Desc -> Threads \cup {NoOne}] /\ free_head \in Desc
         /\ nfree \in 0 .. NQUEUE /\ NQUEUE \in Nat /\ d0 \in [Threads -> Desc]
         /\ 0 \in Desc /\ (\A t \in Busy : t \in Threads /\ d0[t] \in Desc)
         /\ q \in Queues
<1>1. 0 \in Desc /\ NQUEUE \in Nat /\ 0 .. NQUEUE \subseteq Int
  BY NQUEUEAssumption DEF Desc
<1>2. q \in Queues
  BY <1>1 DEF TypeOK, q, Queues
<1>3. d0 \in [Threads -> Desc] /\ (\A t \in Busy : t \in Threads)
  BY DEF TypeOK, Busy
<1> QED BY <1>1, <1>2, <1>3 DEF TypeOK

LEMMA FirstThree ==
  ASSUME TypeOK, nfree >= 3, NEW s \in [0 .. nfree - 1 -> Desc], FreeList(s)
  PROVE  /\ {s[0], s[1], s[2]} \subseteq Desc
         /\ s[0] # s[1] /\ s[0] # s[2] /\ s[1] # s[2]
         /\ free_head = s[0] /\ next[s[0]] = s[1] /\ next[s[1]] = s[2]
         /\ flags[s[0]] = TRUE /\ flags[s[1]] = TRUE
         /\ nfree > 3 => flags[s[2]] /\ next[s[2]] = s[3]
<1>1. nfree \in Nat /\ flags \in [Desc -> BOOLEAN]
  BY Types
<1>2. /\ 0 \in 0 .. nfree - 1 /\ 1 \in 0 .. nfree - 1 /\ 2 \in 0 .. nfree - 1
      /\ 0 \in 0 .. nfree - 2 /\ 1 \in 0 .. nfree - 2
      /\ nfree > 3 => 2 \in 0 .. nfree - 2
  BY <1>1
<1>3. /\ \A i \in 0 .. nfree - 2 : flags[s[i]] /\ next[s[i]] = s[i + 1]
      /\ \A i, j \in 0 .. nfree - 1 : s[i] = s[j] => i = j
      /\ s[0] = free_head
  BY <1>1 DEF FreeList
<1>4. next[s[0]] = s[0 + 1] /\ next[s[1]] = s[1 + 1] /\ (nfree > 3 => next[s[2]] = s[2 + 1])
  BY <1>2, <1>3
<1> QED BY <1>1, <1>2, <1>3, <1>4

LEMMA AllocDesc ==
  ASSUME NEW v \in Queues
  PROVE  /\ alloc_desc(v) \in Queues
         /\ alloc_desc(v).flags = v.flags /\ alloc_desc(v).next = v.next
         /\ alloc_desc(v).head = (IF v.flags[v.head] THEN v.next[v.head] ELSE v.head)
         /\ alloc_desc(v).nfree = v.nfree - 1
<1>1. (IF v.flags[v.head] THEN v.next[v.head] ELSE v.head) \in Desc /\ v.nfree - 1 \in Int
  BY DEF Queues
<1> QED BY <1>1 DEF alloc_desc, Queues

LEMMA AllocIs ==
  ASSUME TypeOK, nfree >= 3, NEW s \in [0 .. nfree - 1 -> Desc], FreeList(s)
  PROVE  /\ AllocChain(q).flags = [flags EXCEPT ![s[2]] = FALSE]
         /\ AllocChain(q).next = [next EXCEPT ![s[2]] = 0]
         /\ AllocChain(q).head = (IF flags[s[2]] THEN next[s[2]] ELSE s[2])
         /\ AllocChain(q).nfree = nfree - 3
<1> DEFINE a == s[0]
           b == s[1]
           c == s[2]
           u1 == alloc_desc(q)
           v1 == [u1 EXCEPT !.flags[a] = TRUE]
           u2 == alloc_desc(v1)
           v2 == [u2 EXCEPT !.next[a] = b, !.flags[b] = TRUE]
           u3 == alloc_desc(v2)
           v3 == [u3 EXCEPT !.next[b] = c, !.flags[c] = FALSE, !.next[c] = 0]
           Same(v) == v \in Queues /\ v.flags = flags /\ v.next = next
<1>1. /\ a \in Desc /\ b \in Desc /\ c \in Desc
      /\ free_head = a /\ next[a] = b /\ next[b] = c
      /\ flags[a] = TRUE /\ flags[b] = TRUE
  BY FirstThree
<1>2. /\ flags \in [Desc -> BOOLEAN] /\ next \in [Desc -> Desc] /\ nfree \in Nat
      /\ q \in Queues
  BY Types
<1>3. /\ [flags EXCEPT ![a] = TRUE] = flags /\ [flags EXCEPT ![b] = TRUE] = flags
      /\ [next EXCEPT ![a] = b] = next /\ [next EXCEPT ![b] = c] = next
  BY <1>1, <1>2
<1> HIDE DEF a, b, c
<1>4. Same(u1) /\ u1.head = b /\ u1.nfree = nfree - 1
  BY <1>1, <1>2, AllocDesc DEF q
<1>5. Same(v1) /\ v1.head = b /\ v1.nfree = nfree - 1
  <2> HIDE DEF u1
  <2> QED BY <1>1, <1>3, <1>4 DEF Queues
<1>6. Same(u2) /\ u2.head = c /\ u2.nfree = nfree - 2
  <2> HIDE DEF v1
  <2> QED BY <1>1, <1>2, <1>5, AllocDesc
<1>7. Same(v2) /\ v2.head = c /\ v2.nfree = nfree - 2
  <2> HIDE DEF u2
  <2> QED BY <1>1, <1>3, <1>6 DEF Queues
<1>8. /\ Same(u3) /\ u3.head = (IF flags[c] THEN next[c] ELSE c)
      /\ u3.nfree = nfree - 3
  <2> HIDE DEF v2
  <2> QED BY <1>1, <1>2, <1>7, AllocDesc
<1>9. /\ v3.flags = [flags EXCEPT ![c] = FALSE] /\ v3.next = [next EXCEPT ![c] = 0]
      /\ v3.head = (IF flags[c] THEN next[c] ELSE c) /\ v3.nfree = nfree - 3
  <2> HIDE DEF u3
  <2> QED BY <1>1, <1>3, <1>8 DEF Queues
<1>10. q.head = a
  BY <1>1 DEF q
<1>11. AllocChain(q) = v3
  <2>1. v1.head = b /\ v2.head = c
    BY <1>5, <1>7
  <2> QED BY <1>10, <2>1, Zenon DEF AllocChain
<1> QED BY <1>9, <1>11 DEF a, b, c

LEMMA FreeIs ==
  ASSUME TypeOK, NQUEUE >= 3, NEW n \in Desc,
         flags[n], flags[next[n]], ~flags[next[next[n]]]
  PROVE  /\ Chain(q, n) = Trio(n)
         /\ free_desc(q, n).flags = [flags EXCEPT ![next[next[n]]] = TRUE]
         /\ free_desc(q, n).next =
               [next EXCEPT ![next[next[n]]] = IF nfree = 0 THEN @ ELSE free_head]
         /\ free_desc(q, n).head = n
         /\ free_desc(q, n).nfree = nfree + 3
<1>1. q.flags = flags /\ q.next = next /\ q.head = free_head /\ q.nfree = nfree
  BY DEF q
<1>2. /\ flags \in [Desc -> BOOLEAN] /\ next \in [Desc -> Desc] /\ nfree \in Nat
  BY Types
<1>3. /\ Length(q, n) = 2 /\ Link(q, n)[Length(q, n)] = next[next[n]]
      /\ Chain(q, n) = {n, next[n], next[next[n]]}
  BY ChainIs, <1>1, <1>2
<1>4. (nfree + 2) + 1 = nfree + 3
  BY <1>2
<1>5. free_desc(q, n) =
        [q EXCEPT !.flags[next[next[n]]] = TRUE,
                  !.next[next[next[n]]] = IF nfree = 0 THEN @ ELSE free_head,
                  !.head = n,
                  !.nfree = (nfree + 2) + 1]
  BY <1>1, <1>3 DEF free_desc
<1>6. q \in Queues
  BY Types
<1> QED BY <1>1, <1>2, <1>3, <1>4, <1>5, <1>6 DEF Queues, Trio

-----------------------------------------------------------------------------
(* The steps.                                                              *)

\* The first half of virtio_blk_op() takes the first three free descriptors.
LEMMA AllocEffect ==
  ASSUME TypeOK, NEW t \in Threads, OpAlloc(t),
         NEW s \in [0 .. nfree - 1 -> Desc], FreeList(s)
  PROVE  /\ flags' = [flags EXCEPT ![s[2]] = FALSE]
         /\ next' = [next EXCEPT ![s[2]] = 0]
         /\ free_head' = IF flags[s[2]] THEN next[s[2]] ELSE s[2]
         /\ nfree' = nfree - 3
         /\ addr' = [d \in Desc |-> IF d \in {s[0], s[1], s[2]} THEN t ELSE addr[d]]
         /\ d0' = [d0 EXCEPT ![t] = s[0]]
         /\ t \notin Busy /\ Busy' = Busy \cup {t}
         /\ nfree >= 3
<1>1. /\ nfree >= 3 /\ SetQueue(AllocChain(q)) /\ d0' = [d0 EXCEPT ![t] = free_head]
      /\ addr' = [d \in Desc |-> IF d \in Chain(AllocChain(q), free_head) THEN t ELSE addr[d]]
      /\ pc[t] = "idle" /\ pc' = [pc EXCEPT ![t] = "publish"]
  BY DEF OpAlloc, Goto
<1> DEFINE v == AllocChain(q)
<1>2. /\ v.flags = [flags EXCEPT ![s[2]] = FALSE] /\ v.next = [next EXCEPT ![s[2]] = 0]
      /\ v.head = (IF flags[s[2]] THEN next[s[2]] ELSE s[2]) /\ v.nfree = nfree - 3
  BY <1>1, AllocIs
<1>3. /\ s[0] \in Desc /\ s[1] \in Desc /\ s[2] \in Desc
      /\ s[0] # s[1] /\ s[0] # s[2] /\ s[1] # s[2]
      /\ free_head = s[0] /\ next[s[0]] = s[1] /\ next[s[1]] = s[2]
      /\ flags[s[0]] = TRUE /\ flags[s[1]] = TRUE
  BY <1>1, FirstThree
<1>4. /\ flags \in [Desc -> BOOLEAN] /\ next \in [Desc -> Desc] /\ 0 \in Desc
      /\ nfree \in 0 .. NQUEUE /\ NQUEUE \in Nat
  BY Types
<1>5. NQUEUE >= 3
  BY <1>1, <1>4
<1> HIDE DEF v
<1>6. /\ v.next \in [Desc -> Desc] /\ v.flags \in [Desc -> BOOLEAN]
      /\ v.next[s[0]] = s[1] /\ v.next[s[1]] = s[2]
      /\ v.flags[s[0]] /\ v.flags[s[1]] /\ ~v.flags[s[2]]
  BY <1>2, <1>3, <1>4
<1>7. Chain(v, s[0]) = {s[0], s[1], s[2]}
  BY <1>3, <1>5, <1>6, ChainIs
<1>8. pc \in [Threads -> {"idle", "publish", "notify", "check", "asleep", "awake"}]
  BY DEF TypeOK
<1>9. t \notin Busy /\ Busy' = Busy \cup {t}
  BY <1>1, <1>8 DEF Busy
<1> QED BY <1>1, <1>2, <1>3, <1>7, <1>9 DEF v, SetQueue

\* The end of it puts its three descriptors in front of the free list.
LEMMA ReturnEffect ==
  ASSUME TypeOK, ChainInv, FreeInv, NEW t \in Threads, OpReturn(t)
  PROVE  /\ flags' = [flags EXCEPT ![next[next[d0[t]]]] = TRUE]
         /\ next' = [next EXCEPT ![next[next[d0[t]]]] = IF nfree = 0 THEN @ ELSE free_head]
         /\ free_head' = d0[t]
         /\ nfree' = nfree + 3
         /\ addr' = [d \in Desc |-> IF d \in Trio(d0[t]) THEN NoOne ELSE addr[d]]
         /\ d0' = [d0 EXCEPT ![t] = 0]
         /\ t \in Busy /\ Busy' = Busy \ {t}
         /\ nfree + 3 <= NQUEUE
<1>1. /\ SetQueue(free_desc(q, d0[t])) /\ d0' = [d0 EXCEPT ![t] = 0]
      /\ addr' = [d \in Desc |-> IF d \in Chain(q, d0[t]) THEN NoOne ELSE addr[d]]
      /\ pc[t] = "check" /\ pc' = [pc EXCEPT ![t] = "idle"]
  BY DEF OpReturn, Goto
<1>2. pc \in [Threads -> {"idle", "publish", "notify", "check", "asleep", "awake"}]
  BY DEF TypeOK
<1>3. t \in Busy /\ Busy' = Busy \ {t}
  BY <1>1, <1>2 DEF Busy
<1>4. IsFiniteSet(Busy)
  BY ThreadsAssumption, FS_Subset DEF Busy
<1>5. Cardinality(Busy) \in Nat /\ Cardinality(Busy) >= 1
  BY <1>3, <1>4, FS_CardinalityType, FS_EmptySet
<1>6. nfree \in 0 .. NQUEUE /\ NQUEUE \in Nat /\ nfree + 3 * Cardinality(Busy) = NQUEUE
  BY Types DEF FreeInv
<1>7. nfree + 3 <= NQUEUE /\ NQUEUE >= 3
  BY <1>5, <1>6
<1>8. /\ flags[d0[t]] /\ flags[next[d0[t]]] /\ ~flags[next[next[d0[t]]]] /\ d0[t] \in Desc
  BY <1>3, Types DEF ChainInv
<1>9. /\ Chain(q, d0[t]) = Trio(d0[t])
      /\ free_desc(q, d0[t]).flags = [flags EXCEPT ![next[next[d0[t]]]] = TRUE]
      /\ free_desc(q, d0[t]).next =
            [next EXCEPT ![next[next[d0[t]]]] = IF nfree = 0 THEN @ ELSE free_head]
      /\ free_desc(q, d0[t]).head = d0[t]
      /\ free_desc(q, d0[t]).nfree = nfree + 3
  BY <1>7, <1>8, FreeIs
<1> QED BY <1>1, <1>3, <1>7, <1>9 DEF SetQueue

\* The other steps leave the descriptors alone.
Others ==
    \/ \E t \in Threads : \/ OpKokatu(t) \/ OpPublish(t) \/ OpNotify(t)
                          \/ OpSleep(t) \/ OpAwake(t)
    \/ DevStep
    \/ IntrStep
    \/ UNCHANGED vars

LEMMA OthersEffect ==
  ASSUME TypeOK, Others
  PROVE  UNCHANGED <<desc, d0>> /\ Busy' = Busy
<1> USE DEF Busy
<1>1. pc \in [Threads -> {"idle", "publish", "notify", "check", "asleep", "awake"}]
  BY DEF TypeOK
<1>2. ASSUME NEW t \in Threads, OpKokatu(t) PROVE UNCHANGED <<desc, d0>> /\ Busy' = Busy
  BY <1>2 DEF OpKokatu, desc
<1>3. ASSUME NEW t \in Threads, OpPublish(t) PROVE UNCHANGED <<desc, d0>> /\ Busy' = Busy
  BY <1>1, <1>3 DEF OpPublish, Goto, desc
<1>4. ASSUME NEW t \in Threads, OpNotify(t) PROVE UNCHANGED <<desc, d0>> /\ Busy' = Busy
  BY <1>1, <1>4 DEF OpNotify, Goto, desc
<1>5. ASSUME NEW t \in Threads, OpSleep(t) PROVE UNCHANGED <<desc, d0>> /\ Busy' = Busy
  BY <1>1, <1>5 DEF OpSleep, Goto, desc
<1>6. ASSUME NEW t \in Threads, OpAwake(t) PROVE UNCHANGED <<desc, d0>> /\ Busy' = Busy
  BY <1>1, <1>6 DEF OpAwake, Goto, desc
<1>7. CASE DevFetch
  BY <1>7 DEF DevFetch, desc
<1>8. ASSUME NEW d \in Desc, DevFinish(d) PROVE UNCHANGED <<desc, d0>> /\ Busy' = Busy
  BY <1>8 DEF DevFinish, desc
<1>9. CASE IntrEnter
  BY <1>9 DEF IntrEnter, desc
<1>10. CASE IntrAck
  BY <1>10 DEF IntrAck, desc
<1>11. CASE IntrUsed
  <2>1. UNCHANGED <<desc, d0>>
    BY <1>11 DEF IntrUsed, desc
  <2>2. \A t \in Threads :
           pc'[t] = IF pc[t] = "asleep" /\ BufOf[t] = buf[usedRing[last_used_idx % NQUEUE]]
                    THEN "awake" ELSE pc[t]
    BY <1>11 DEF IntrUsed
  <2> QED BY <2>1, <2>2
<1>12. CASE IntrLeave
  BY <1>12 DEF IntrLeave, desc
<1>13. CASE UNCHANGED vars
  BY <1>13 DEF vars, desc
<1> QED BY <1>2, <1>3, <1>4, <1>5, <1>6, <1>7, <1>8, <1>9, <1>10, <1>11, <1>12, <1>13
        DEF Others, DevStep, IntrStep

LEMMA NextCases ==
  ASSUME [Next]_vars
  PROVE  (\E t \in Threads : OpAlloc(t)) \/ (\E t \in Threads : OpReturn(t)) \/ Others
BY DEF Next, OpStep, Others

\* virtio_blk_op() takes a chain of its own out of the free list.
LEMMA AllocChainInv ==
  ASSUME TypeOK, ChainInv, FreeInv, NEW t \in Threads, OpAlloc(t)
  PROVE  ChainInv' /\ FreeInv'
<1>1. PICK s \in [0 .. nfree - 1 -> Desc] : FreeList(s)
  BY DEF FreeInv
<1> DEFINE a == s[0]
           b == s[1]
           c == s[2]
<1>2. /\ flags' = [flags EXCEPT ![c] = FALSE] /\ next' = [next EXCEPT ![c] = 0]
      /\ free_head' = (IF flags[c] THEN next[c] ELSE c)
      /\ nfree' = nfree - 3
      /\ addr' = [d \in Desc |-> IF d \in {a, b, c} THEN t ELSE addr[d]]
      /\ d0' = [d0 EXCEPT ![t] = a]
      /\ t \notin Busy /\ Busy' = Busy \cup {t}
      /\ nfree >= 3
  BY <1>1, AllocEffect
<1>3. /\ a \in Desc /\ b \in Desc /\ c \in Desc /\ a # b /\ a # c /\ b # c
      /\ next[a] = b /\ next[b] = c /\ flags[a] = TRUE /\ flags[b] = TRUE
      /\ nfree > 3 => flags[c] /\ next[c] = s[3]
  BY <1>1, <1>2, FirstThree
<1>4. /\ flags \in [Desc -> BOOLEAN] /\ next \in [Desc -> Desc] /\ nfree \in 0 .. NQUEUE
      /\ NQUEUE \in Nat /\ 0 \in Desc /\ d0 \in [Threads -> Desc]
      /\ \A u \in Busy : u \in Threads /\ d0[u] \in Desc
      /\ addr \in [Desc -> Threads \cup {NoOne}]
  BY Types
<1>5. \A u \in Busy : \A i \in 0 .. nfree - 1 : s[i] \notin Trio(d0[u])
  BY <1>1 DEF FreeList
<1>6. 0 \in 0 .. nfree - 1 /\ 1 \in 0 .. nfree - 1 /\ 2 \in 0 .. nfree - 1
  BY <1>2, <1>4
<1>7. \A u \in Busy : a \notin Trio(d0[u]) /\ b \notin Trio(d0[u]) /\ c \notin Trio(d0[u])
  BY <1>5, <1>6
<1>8. \A u \in Busy : /\ d0'[u] = d0[u]
                      /\ next'[d0[u]] = next[d0[u]]
                      /\ next'[next[d0[u]]] = next[next[d0[u]]]
                      /\ \A e \in Trio(d0[u]) : flags'[e] = flags[e] /\ e \in Desc
  <2> SUFFICES ASSUME NEW u \in Busy
               PROVE  /\ d0'[u] = d0[u]
                      /\ next'[d0[u]] = next[d0[u]]
                      /\ next'[next[d0[u]]] = next[next[d0[u]]]
                      /\ \A e \in Trio(d0[u]) : flags'[e] = flags[e] /\ e \in Desc
    OBVIOUS
  <2>1. u # t /\ u \in Threads /\ d0[u] \in Desc /\ next[d0[u]] \in Desc
    BY <1>2, <1>4
  <2>2. c # d0[u] /\ c # next[d0[u]] /\ c # next[next[d0[u]]]
    BY <1>7 DEF Trio
  <2>3. d0'[u] = d0[u]
    BY <1>2, <1>4, <2>1
  <2>4. next'[d0[u]] = next[d0[u]] /\ next'[next[d0[u]]] = next[next[d0[u]]]
    BY <1>2, <1>3, <1>4, <2>1, <2>2
  <2>5. \A e \in Desc : e # c => flags'[e] = flags[e]
    BY <1>2, <1>3, <1>4
  <2>6. next[next[d0[u]]] \in Desc
    BY <1>4, <2>1
  <2> QED BY <2>1, <2>2, <2>3, <2>4, <2>5, <2>6 DEF Trio
<1>9. \A u \in Busy : Trio(d0[u])' = Trio(d0[u])
  BY <1>8 DEF Trio
<1>10. /\ d0'[t] = a /\ next'[a] = b /\ next'[b] = c
       /\ flags'[a] /\ flags'[b] /\ ~flags'[c]
       /\ \A e \in {a, b, c} : addr'[e] = t
  BY <1>2, <1>3, <1>4
<1>11. Trio(d0[t])' = {a, b, c}
  BY <1>10 DEF Trio
<1> HIDE DEF a, b, c
<1>12. ChainInv'
  <2>1. ASSUME NEW u \in Busy
        PROVE  /\ flags'[d0'[u]] /\ flags'[next'[d0'[u]]] /\ ~flags'[next'[next'[d0'[u]]]]
               /\ d0'[u] # next'[d0'[u]]
               /\ next'[next'[d0'[u]]] \notin {d0'[u], next'[d0'[u]]}
               /\ \A e \in Trio(d0[u])' : addr'[e] = u
    <3>1. /\ flags[d0[u]] /\ flags[next[d0[u]]] /\ ~flags[next[next[d0[u]]]]
          /\ d0[u] # next[d0[u]]
          /\ next[next[d0[u]]] \notin {d0[u], next[d0[u]]}
          /\ \A e \in Trio(d0[u]) : addr[e] = u
      BY DEF ChainInv
    <3>2. \A e \in Trio(d0[u]) : addr'[e] = u
      <4> SUFFICES ASSUME NEW e \in Trio(d0[u]) PROVE addr'[e] = u
        OBVIOUS
      <4>1. e \notin {a, b, c} /\ e \in Desc
        BY <1>7, <1>8
      <4>2. addr'[e] = addr[e]
        BY <1>2, <4>1 DEF a, b, c
      <4> QED BY <3>1, <4>2
    <3>3. d0[u] \in Trio(d0[u]) /\ next[d0[u]] \in Trio(d0[u]) /\ next[next[d0[u]]] \in Trio(d0[u])
      BY DEF Trio
    <3> QED BY <1>8, <1>9, <3>1, <3>2, <3>3
  <2>2. /\ flags'[d0'[t]] /\ flags'[next'[d0'[t]]] /\ ~flags'[next'[next'[d0'[t]]]]
        /\ d0'[t] # next'[d0'[t]]
        /\ next'[next'[d0'[t]]] \notin {d0'[t], next'[d0'[t]]}
        /\ \A e \in Trio(d0[t])' : addr'[e] = t
    BY <1>3, <1>10, <1>11 DEF a, b, c
  <2>3. \A u, w \in Busy : u # w => Trio(d0[u]) \cap Trio(d0[w]) = {}
    BY DEF ChainInv
  <2>4. \A u, w \in Busy' : u # w => Trio(d0[u])' \cap Trio(d0[w])' = {}
    <3> SUFFICES ASSUME NEW u \in Busy', NEW w \in Busy', u # w
                 PROVE  Trio(d0[u])' \cap Trio(d0[w])' = {}
      OBVIOUS
    <3>1. \A x \in Busy : {a, b, c} \cap Trio(d0[x]) = {}
      BY <1>7 DEF a, b, c
    <3>2. CASE u \in Busy /\ w \in Busy
      BY <1>9, <2>3, <3>2
    <3>3. CASE u = t /\ w \in Busy
      BY <1>9, <1>11, <3>1, <3>3 DEF a, b, c
    <3>4. CASE u \in Busy /\ w = t
      BY <1>9, <1>11, <3>1, <3>4 DEF a, b, c
    <3> QED BY <1>2, <3>2, <3>3, <3>4
  <2> QED BY <1>2, <2>1, <2>2, <2>4 DEF ChainInv
<1>13. \E r \in [0 .. nfree' - 1 -> Desc] : FreeList(r)'
  <2>0. PICK r : r = [i \in 0 .. (nfree - 3) - 1 |-> s[i + 3]]
    OBVIOUS
  <2>1. r \in [0 .. nfree' - 1 -> Desc]
    BY <1>2, <1>4, <2>0
  <2>2. nfree' > 0 => r[0] = free_head'
    BY <1>2, <1>3, <1>4, <2>0
  <2>3. \A i \in 0 .. nfree - 2 : flags[s[i]] /\ next[s[i]] = s[i + 1]
    BY <1>1 DEF FreeList
  <2>4. \A i, j \in 0 .. nfree - 1 : s[i] = s[j] => i = j
    BY <1>1 DEF FreeList
  <2>5. ASSUME NEW i \in 0 .. nfree' - 2 PROVE flags'[r[i]] /\ next'[r[i]] = r[i + 1]
    <3>1. /\ i + 3 \in 0 .. nfree - 2 /\ i + 3 \in 0 .. nfree - 1 /\ 2 \in 0 .. nfree - 1
          /\ r[i] = s[i + 3] /\ r[i + 1] = s[(i + 3) + 1] /\ i + 3 # 2
      BY <1>2, <1>4, <2>0, SMTT(20)
    <3>2. s[i + 3] \in Desc /\ s[i + 3] # c
      BY <2>4, <3>1 DEF c
    <3>3. flags[s[i + 3]] /\ next[s[i + 3]] = s[(i + 3) + 1]
      BY <2>3, <3>1
    <3> QED BY <1>2, <1>4, <3>1, <3>2, <3>3
  <2>6. \A i, j \in 0 .. nfree' - 1 : r[i] = r[j] => i = j
    <3> SUFFICES ASSUME NEW i \in 0 .. nfree' - 1, NEW j \in 0 .. nfree' - 1, r[i] = r[j]
                 PROVE  i = j
      OBVIOUS
    <3>1. i + 3 \in 0 .. nfree - 1 /\ j + 3 \in 0 .. nfree - 1 /\ s[i + 3] = s[j + 3]
      BY <1>2, <1>4, <2>0
    <3>2. i + 3 = j + 3
      BY <2>4, <3>1
    <3> QED BY <3>2
  <2>7. ASSUME NEW u \in Busy', NEW i \in 0 .. nfree' - 1
        PROVE  r[i] \notin Trio(d0[u])'
    <3>1. i + 3 \in 0 .. nfree - 1 /\ r[i] = s[i + 3]
      BY <1>2, <1>4, <2>0
    <3>2. s[i + 3] # a /\ s[i + 3] # b /\ s[i + 3] # c
      BY <1>6, <2>4, <3>1 DEF a, b, c
    <3>3. CASE u = t
      BY <1>11, <3>1, <3>2, <3>3
    <3>4. CASE u \in Busy
      BY <1>5, <1>9, <3>1, <3>4
    <3> QED BY <1>2, <3>3, <3>4
  <2>8. FreeList(r)'
    BY <2>2, <2>5, <2>6, <2>7 DEF FreeList
  <2> QED BY <2>1, <2>8
<1>14. nfree' + 3 * Cardinality(Busy') = NQUEUE
  <2>1. IsFiniteSet(Busy)
    BY ThreadsAssumption, FS_Subset DEF Busy
  <2>2. Cardinality(Busy') = Cardinality(Busy) + 1 /\ Cardinality(Busy) \in Nat
    BY <1>2, <2>1, FS_AddElement, FS_CardinalityType
  <2>3. nfree + 3 * Cardinality(Busy) = NQUEUE
    BY DEF FreeInv
  <2> QED BY <1>2, <1>4, <2>2, <2>3
<1> QED BY <1>12, <1>13, <1>14 DEF FreeInv

\* It gives the chain back.
LEMMA ReturnChainInv ==
  ASSUME TypeOK, ChainInv, FreeInv, NEW t \in Threads, OpReturn(t)
  PROVE  ChainInv' /\ FreeInv'
<1>1. PICK s \in [0 .. nfree - 1 -> Desc] : FreeList(s)
  BY DEF FreeInv
<1> DEFINE a == d0[t]
           b == next[a]
           c == next[b]
<1>2. /\ flags' = [flags EXCEPT ![c] = TRUE]
      /\ next' = [next EXCEPT ![c] = IF nfree = 0 THEN @ ELSE free_head]
      /\ free_head' = a
      /\ nfree' = nfree + 3
      /\ addr' = [d \in Desc |-> IF d \in Trio(a) THEN NoOne ELSE addr[d]]
      /\ d0' = [d0 EXCEPT ![t] = 0]
      /\ t \in Busy /\ Busy' = Busy \ {t}
      /\ nfree + 3 <= NQUEUE
  BY ReturnEffect
<1>3. /\ flags \in [Desc -> BOOLEAN] /\ next \in [Desc -> Desc] /\ nfree \in 0 .. NQUEUE
      /\ NQUEUE \in Nat /\ d0 \in [Threads -> Desc] /\ free_head \in Desc
      /\ \A u \in Busy : u \in Threads /\ d0[u] \in Desc
  BY Types
<1>4. /\ a \in Desc /\ b \in Desc /\ c \in Desc /\ a # b /\ a # c /\ b # c
      /\ flags[a] /\ flags[b]
  BY <1>2, <1>3 DEF ChainInv
<1>5. Trio(a) = {a, b, c}
  BY DEF Trio
<1> HIDE DEF a, b, c
<1>6. \A u \in Busy' : u \in Busy /\ Trio(d0[u]) \cap {a, b, c} = {}
  BY <1>2, <1>5 DEF ChainInv, a
<1>7. \A u \in Busy' : /\ d0'[u] = d0[u]
                       /\ next'[d0[u]] = next[d0[u]]
                       /\ next'[next[d0[u]]] = next[next[d0[u]]]
                       /\ \A e \in Trio(d0[u]) : flags'[e] = flags[e] /\ e \in Desc
  <2> SUFFICES ASSUME NEW u \in Busy'
               PROVE  /\ d0'[u] = d0[u]
                      /\ next'[d0[u]] = next[d0[u]]
                      /\ next'[next[d0[u]]] = next[next[d0[u]]]
                      /\ \A e \in Trio(d0[u]) : flags'[e] = flags[e] /\ e \in Desc
    OBVIOUS
  <2>1. u # t /\ u \in Threads /\ d0[u] \in Desc /\ next[d0[u]] \in Desc
    BY <1>2, <1>3
  <2>2. c # d0[u] /\ c # next[d0[u]] /\ c # next[next[d0[u]]]
    BY <1>6 DEF Trio
  <2>3. d0'[u] = d0[u]
    BY <1>2, <1>3, <2>1
  <2>4. next'[d0[u]] = next[d0[u]] /\ next'[next[d0[u]]] = next[next[d0[u]]]
    BY <1>2, <1>3, <1>4, <2>1, <2>2
  <2>5. \A e \in Desc : e # c => flags'[e] = flags[e]
    BY <1>2, <1>3, <1>4
  <2>6. next[next[d0[u]]] \in Desc
    BY <1>3, <2>1
  <2> QED BY <2>1, <2>2, <2>3, <2>4, <2>5, <2>6 DEF Trio
<1>8. \A u \in Busy' : Trio(d0[u])' = Trio(d0[u])
  BY <1>7 DEF Trio
<1>9. ChainInv'
  <2>1. ASSUME NEW u \in Busy'
        PROVE  /\ flags'[d0'[u]] /\ flags'[next'[d0'[u]]] /\ ~flags'[next'[next'[d0'[u]]]]
               /\ d0'[u] # next'[d0'[u]]
               /\ next'[next'[d0'[u]]] \notin {d0'[u], next'[d0'[u]]}
               /\ \A e \in Trio(d0[u])' : addr'[e] = u
    <3>1. /\ flags[d0[u]] /\ flags[next[d0[u]]] /\ ~flags[next[next[d0[u]]]]
          /\ d0[u] # next[d0[u]]
          /\ next[next[d0[u]]] \notin {d0[u], next[d0[u]]}
          /\ \A e \in Trio(d0[u]) : addr[e] = u
      BY <1>6 DEF ChainInv
    <3>2. \A e \in Trio(d0[u]) : addr'[e] = u
      BY <1>2, <1>5, <1>6, <1>7, <3>1
    <3>3. d0[u] \in Trio(d0[u]) /\ next[d0[u]] \in Trio(d0[u]) /\ next[next[d0[u]]] \in Trio(d0[u])
      BY DEF Trio
    <3> QED BY <1>7, <1>8, <3>1, <3>2, <3>3
  <2>2. \A u, w \in Busy' : u # w => Trio(d0[u])' \cap Trio(d0[w])' = {}
    BY <1>6, <1>8 DEF ChainInv
  <2> QED BY <2>1, <2>2 DEF ChainInv
<1>10. /\ next'[a] = b /\ next'[b] = c
       /\ next'[c] = (IF nfree = 0 THEN next[c] ELSE free_head)
       /\ flags'[a] /\ flags'[b] /\ flags'[c]
  BY <1>2, <1>3, <1>4 DEF b, c
<1>11. \A i \in 0 .. nfree - 1 : s[i] \in Desc /\ s[i] \notin {a, b, c}
  BY <1>1, <1>2, <1>5 DEF FreeList, a
<1>12. \E r \in [0 .. nfree' - 1 -> Desc] : FreeList(r)'
  <2> DEFINE p == Put(a, b, c, s)
  <2>8. PICK r : r = p
    OBVIOUS
  <2>0. \A i \in 0 .. nfree + 2 :
           \/ i = 0 /\ r[i] = a
           \/ i = 1 /\ r[i] = b
           \/ i = 2 /\ r[i] = c
           \/ i >= 3 /\ i - 3 \in 0 .. nfree - 1 /\ r[i] = s[i - 3]
    BY <1>3, <2>8 DEF Put
  <2>1. r \in [0 .. nfree' - 1 -> Desc]
    <3>1. \A i \in 0 .. nfree + 2 : r[i] \in Desc
      BY <1>4, <1>11, <2>0
    <3>2. nfree' - 1 = nfree + 2
      BY <1>2, <1>3
    <3> QED BY <3>1, <3>2, <2>8 DEF Put
  <2>2. r[0] = free_head'
    BY <1>2, <1>3, <2>0
  <2>3. /\ nfree > 0 => s[0] = free_head
        /\ \A i \in 0 .. nfree - 2 : flags[s[i]] /\ next[s[i]] = s[i + 1]
        /\ \A i, j \in 0 .. nfree - 1 : s[i] = s[j] => i = j
    BY <1>1 DEF FreeList
  <2>4. ASSUME NEW i \in 0 .. nfree' - 2 PROVE flags'[r[i]] /\ next'[r[i]] = r[i + 1]
    <3>1. i \in 0 .. nfree + 1 /\ i \in 0 .. nfree + 2 /\ i + 1 \in 0 .. nfree + 2
      BY <1>2, <1>3
    <3>2. CASE i = 0 \/ i = 1
      BY <1>10, <2>0, <3>1, <3>2
    <3>3. CASE i = 2
      <4>1. nfree > 0 /\ r[2] = c /\ r[3] = s[0]
        BY <1>3, <2>0, <3>1, <3>3
      <4> QED BY <1>3, <1>10, <2>3, <3>3, <4>1
    <3>4. CASE i >= 3
      <4>1. /\ i - 3 \in 0 .. nfree - 2 /\ i - 3 \in 0 .. nfree - 1 /\ (i + 1) - 3 = (i - 3) + 1
        BY <1>3, <3>1, <3>4
      <4>2. r[i] = s[i - 3] /\ r[i + 1] = s[(i - 3) + 1]
        BY <2>0, <3>1, <3>4, <4>1
      <4>3. flags[s[i - 3]] /\ next[s[i - 3]] = s[(i - 3) + 1]
        BY <2>3, <4>1
      <4>4. s[i - 3] \in Desc /\ s[i - 3] # c
        BY <1>11, <4>1
      <4> QED BY <1>2, <1>3, <4>2, <4>3, <4>4
    <3> QED BY <3>1, <3>2, <3>3, <3>4
  <2>5. \A i, j \in 0 .. nfree' - 1 : r[i] = r[j] => i = j
    <3> SUFFICES ASSUME NEW i \in 0 .. nfree + 2, NEW j \in 0 .. nfree + 2, r[i] = r[j]
                 PROVE  i = j
      BY <1>2, <1>3
    <3>1. i >= 3 /\ j >= 3 => i = j
      <4> SUFFICES ASSUME i >= 3, j >= 3 PROVE i = j
        OBVIOUS
      <4>1. i - 3 \in 0 .. nfree - 1 /\ j - 3 \in 0 .. nfree - 1 /\ s[i - 3] = s[j - 3]
        BY <2>0
      <4>2. i - 3 = j - 3
        BY <2>3, <4>1
      <4> QED BY <1>3, <4>2
    <3> QED BY <1>4, <1>11, <2>0, <3>1
  <2>6. ASSUME NEW u \in Busy', NEW i \in 0 .. nfree' - 1
        PROVE  r[i] \notin Trio(d0[u])'
    <3>1. i \in 0 .. nfree + 2
      BY <1>2, <1>3
    <3>2. \A j \in 0 .. nfree - 1 : s[j] \notin Trio(d0[u])
      BY <1>1, <1>6 DEF FreeList
    <3> QED BY <1>6, <1>8, <2>0, <3>1, <3>2
  <2>7. FreeList(r)'
    BY <2>2, <2>4, <2>5, <2>6 DEF FreeList
  <2> QED BY <2>1, <2>7
<1>13. nfree' + 3 * Cardinality(Busy') = NQUEUE
  <2>1. IsFiniteSet(Busy)
    BY ThreadsAssumption, FS_Subset DEF Busy
  <2>2. Cardinality(Busy') = Cardinality(Busy) - 1 /\ Cardinality(Busy) \in Nat
    BY <1>2, <2>1, FS_RemoveElement, FS_CardinalityType
  <2>3. nfree + 3 * Cardinality(Busy) = NQUEUE
    BY DEF FreeInv
  <2>4. PICK k \in Nat : k = Cardinality(Busy)
    BY <2>2
  <2>5. nfree' = nfree + 3 /\ nfree \in Nat
    BY <1>2, <1>3
  <2>6. (nfree + 3) + 3 * (k - 1) = nfree + 3 * k
    BY <2>5
  <2> QED BY <2>2, <2>3, <2>4, <2>5, <2>6
<1> QED BY <1>9, <1>12, <1>13 DEF FreeInv

\* Everything else leaves chains and free list alone.
LEMMA DescStep ==
  ASSUME TypeOK, ChainInv, FreeInv, [Next]_vars
  PROVE  ChainInv' /\ FreeInv'
<1>1. CASE Others
  <2>1. UNCHANGED <<flags, next, addr, free_head, nfree, d0>> /\ Busy' = Busy
    BY <1>1, OthersEffect DEF desc
  <2>2. \A d : Trio(d)' = Trio(d')
    BY <2>1 DEF Trio
  <2>3. ChainInv'
    BY <2>1 DEF ChainInv, Trio
  <2>4. PICK s \in [0 .. nfree - 1 -> Desc] : FreeList(s)
    BY DEF FreeInv
  <2>5. FreeList(s)'
    BY <2>1, <2>4 DEF FreeList, Trio
  <2>6. nfree' + 3 * Cardinality(Busy') = NQUEUE
    BY <2>1 DEF FreeInv
  <2> QED BY <2>1, <2>3, <2>4, <2>5, <2>6 DEF FreeInv
<1> QED BY <1>1, NextCases, AllocChainInv, ReturnChainInv

-----------------------------------------------------------------------------
(* Types and locks.                                                        *)

LEMMA TypeStep ==
  ASSUME TypeOK, ChainInv, FreeInv, [Next]_vars
  PROVE  TypeOK'
<1>1. \A i \in Idx : i % NQUEUE \in Desc /\ Inc(i) \in Idx
  BY SlotFacts, FwdFacts, NQUEUEAssumption
<1>2. 0 \in Desc /\ NQUEUE \in Nat /\ \A t \in Threads : BufOf[t] \in Bufs
  BY NQUEUEAssumption DEF Desc, Bufs
<1>3. ASSUME NEW t \in Threads, OpAlloc(t) PROVE TypeOK'
  <2>1. PICK s \in [0 .. nfree - 1 -> Desc] : FreeList(s)
    BY DEF FreeInv
  <2>2. /\ flags' = [flags EXCEPT ![s[2]] = FALSE] /\ next' = [next EXCEPT ![s[2]] = 0]
        /\ free_head' = (IF flags[s[2]] THEN next[s[2]] ELSE s[2])
        /\ nfree' = nfree - 3 /\ nfree >= 3 /\ d0' = [d0 EXCEPT ![t] = s[0]]
        /\ addr' = [d \in Desc |-> IF d \in {s[0], s[1], s[2]} THEN t ELSE addr[d]]
    BY <1>3, <2>1, AllocEffect
  <2>3. s[0] \in Desc /\ s[2] \in Desc /\ free_head = s[0]
    BY <2>1, <2>2, FirstThree
  <2>4. /\ flags' \in [Desc -> BOOLEAN] /\ next' \in [Desc -> Desc] /\ free_head' \in Desc
        /\ nfree' \in 0 .. NQUEUE /\ d0' \in [Threads -> Desc]
        /\ addr' \in [Desc -> Threads \cup {NoOne}]
    BY <1>2, <2>2, <2>3 DEF TypeOK
  <2>5. /\ lk' = t /\ pc' = [pc EXCEPT ![t] = "publish"]
        /\ availRing' = [availRing EXCEPT ![availIdx % NQUEUE] = free_head]
        /\ UNCHANGED <<availIdx, usedRing, usedIdx, last_used_idx, info, device,
                       hpc, served, panic>>
    BY <1>3 DEF OpAlloc, Goto
  <2> QED BY <1>1, <2>3, <2>4, <2>5 DEF TypeOK, info, device
<1>4. ASSUME NEW t \in Threads, OpReturn(t) PROVE TypeOK'
  <2>1. /\ flags' = [flags EXCEPT ![next[next[d0[t]]]] = TRUE]
        /\ next' = [next EXCEPT ![next[next[d0[t]]]] = IF nfree = 0 THEN @ ELSE free_head]
        /\ free_head' = d0[t] /\ nfree' = nfree + 3 /\ nfree + 3 <= NQUEUE
        /\ addr' = [d \in Desc |-> IF d \in Trio(d0[t]) THEN NoOne ELSE addr[d]]
        /\ d0' = [d0 EXCEPT ![t] = 0]
    BY <1>4, ReturnEffect
  <2>2. /\ flags' \in [Desc -> BOOLEAN] /\ next' \in [Desc -> Desc] /\ free_head' \in Desc
        /\ nfree' \in 0 .. NQUEUE /\ d0' \in [Threads -> Desc]
        /\ addr' \in [Desc -> Threads \cup {NoOne}]
    BY <1>2, <2>1 DEF TypeOK
  <2>3. /\ lk' = NoOne /\ pc' = [pc EXCEPT ![t] = "idle"]
        /\ done' = [done EXCEPT ![d0[t]] = FALSE]
        /\ served' = [served EXCEPT ![t] = FALSE]
        /\ UNCHANGED <<rings, buf, device, hpc, panic>>
    BY <1>4 DEF OpReturn, Goto
  <2> QED BY <2>2, <2>3 DEF TypeOK, rings, device
<1> USE DEF TypeOK, desc, rings, info, device, Goto
<1>5. ASSUME NEW t \in Threads, OpKokatu(t) PROVE TypeOK'
  BY <1>5 DEF OpKokatu
<1>6. ASSUME NEW t \in Threads, OpPublish(t) PROVE TypeOK'
  BY <1>1, <1>6 DEF OpPublish
<1>7. ASSUME NEW t \in Threads, OpNotify(t) PROVE TypeOK'
  BY <1>2, <1>7 DEF OpNotify
<1>8. ASSUME NEW t \in Threads, OpSleep(t) PROVE TypeOK'
  BY <1>8 DEF OpSleep
<1>9. ASSUME NEW t \in Threads, OpAwake(t) PROVE TypeOK'
  BY <1>9 DEF OpAwake
<1>10. CASE DevFetch
  BY <1>1, <1>2, <1>10 DEF DevFetch
<1>11. ASSUME NEW d \in Desc, DevFinish(d) PROVE TypeOK'
  <2>1. usedRing' \in [Desc -> Desc] /\ usedIdx' \in Idx /\ inflight' \subseteq Desc /\ isr' = TRUE
    BY <1>1, <1>11 DEF DevFinish
  <2>2. served' \in [Threads -> BOOLEAN]
    BY <1>11 DEF DevFinish
  <2> QED BY <1>11, <2>1, <2>2 DEF DevFinish
<1>12. CASE IntrEnter
  BY <1>12 DEF IntrEnter
<1>13. CASE IntrAck
  BY <1>13 DEF IntrAck
<1>14. CASE IntrUsed
  <2> DEFINE d == usedRing[last_used_idx % NQUEUE]
  <2>1. d \in Desc
    BY <1>1
  <2>2. /\ done' = [done EXCEPT ![d] = TRUE] /\ buf' = [buf EXCEPT ![d] = NoBuf]
        /\ pc' = [t \in Threads |-> IF pc[t] = "asleep" /\ BufOf[t] = buf[d]
                                    THEN "awake" ELSE pc[t]]
        /\ last_used_idx' = Inc(last_used_idx)
        /\ usedRing' = [usedRing EXCEPT ![last_used_idx % NQUEUE] = 0]
        /\ UNCHANGED <<desc, availRing, availIdx, usedIdx, device, lk, d0, hpc,
                       served, panic>>
    BY <1>14 DEF IntrUsed
  <2> HIDE DEF d
  <2>3. /\ done' \in [Desc -> BOOLEAN] /\ buf' \in [Desc -> Bufs \cup {NoBuf}]
        /\ pc' \in [Threads -> {"idle", "publish", "notify", "check", "asleep", "awake"}]
    BY <2>1, <2>2
  <2>4. usedRing' \in [Desc -> Desc] /\ last_used_idx' \in Idx
    BY <1>1, <1>2, <2>2
  <2> QED BY <2>2, <2>3, <2>4
<1>15. CASE IntrLeave
  BY <1>15 DEF IntrLeave
<1>16. CASE UNCHANGED vars
  BY <1>16 DEF vars
<1> QED BY <1>3, <1>4, <1>5, <1>6, <1>7, <1>8, <1>9, <1>10, <1>11, <1>12, <1>13, <1>14,
           <1>15, <1>16 DEF Next, OpStep, DevStep, IntrStep

\* disk.lk passes from one holder to the next.
LEMMA HolderStep ==
  ASSUME TypeOK, HolderInv, [Next]_vars
  PROVE  HolderInv'
<1> USE DEF HolderInv, Inside, Goto
<1>0. /\ pc \in [Threads -> {"idle", "publish", "notify", "check", "asleep", "awake"}]
      /\ NoOne \notin Threads /\ "intr" \notin Threads /\ NoOne # "intr"
  BY NamesAssumption DEF TypeOK, NoOne
<1>1. ASSUME NEW t \in Threads, OpAlloc(t) PROVE HolderInv'
  BY <1>0, <1>1 DEF OpAlloc
<1>2. ASSUME NEW t \in Threads, OpReturn(t) PROVE HolderInv'
  BY <1>0, <1>2 DEF OpReturn
<1>3. ASSUME NEW t \in Threads, OpKokatu(t) PROVE HolderInv'
  BY <1>3 DEF OpKokatu
<1>4. ASSUME NEW t \in Threads, OpPublish(t) PROVE HolderInv'
  BY <1>0, <1>4 DEF OpPublish
<1>5. ASSUME NEW t \in Threads, OpNotify(t) PROVE HolderInv'
  BY <1>0, <1>5 DEF OpNotify
<1>6. ASSUME NEW t \in Threads, OpSleep(t) PROVE HolderInv'
  BY <1>0, <1>6 DEF OpSleep
<1>7. ASSUME NEW t \in Threads, OpAwake(t) PROVE HolderInv'
  BY <1>0, <1>7 DEF OpAwake
<1>8. CASE DevFetch
  BY <1>8 DEF DevFetch
<1>9. ASSUME NEW d \in Desc, DevFinish(d) PROVE HolderInv'
  BY <1>9 DEF DevFinish
<1>10. CASE IntrEnter
  BY <1>0, <1>10 DEF IntrEnter
<1>11. CASE IntrAck
  BY <1>11 DEF IntrAck
<1>12. CASE IntrUsed
  <2>1. /\ \A t \in Threads : pc'[t] \in {"awake", pc[t]}
        /\ UNCHANGED <<lk, hpc>>
    BY <1>12 DEF IntrUsed
  <2> QED BY <1>0, <2>1
<1>13. CASE IntrLeave
  BY <1>0, <1>13 DEF IntrLeave
<1>14. CASE UNCHANGED vars
  BY <1>14 DEF vars
<1> QED BY <1>1, <1>2, <1>3, <1>4, <1>5, <1>6, <1>7, <1>8, <1>9, <1>10, <1>11, <1>12,
           <1>13, <1>14 DEF Next, OpStep, DevStep, IntrStep

-----------------------------------------------------------------------------
(* The rings.                                                              *)

\* One more entry is counted.
LEMMA RingGrow ==
  ASSUME NEW ring \in [Desc -> Desc], NEW i \in Idx, NEW n \in 0 .. NQUEUE - 1,
         Distinct(ring, i, n), ring[Fwd(i, n) % NQUEUE] \notin Entries(ring, i, n)
  PROVE  /\ Entries(ring, i, n + 1) = Entries(ring, i, n) \cup {ring[Fwd(i, n) % NQUEUE]}
         /\ Distinct(ring, i, n + 1)
         /\ Fwd(i, n + 1) = Inc(Fwd(i, n))
<1>1. NQUEUE \in Nat /\ n \in Nat /\ n \in 0 .. NQUEUE /\ (n + 1) - 1 = n
  BY NQUEUEAssumption
<1>2. Fwd(i, n) % NQUEUE = Slot(i, n)
  BY DEF Slot
<1>3. \A k \in 0 .. n : k = n \/ k \in 0 .. n - 1
  BY <1>1
<1>4. \A k \in 0 .. n - 1 : k \in 0 .. n /\ ring[Slot(i, k)] \in Entries(ring, i, n)
  BY <1>1 DEF Entries
<1>5. Entries(ring, i, n + 1) = Entries(ring, i, n) \cup {ring[Slot(i, n)]}
  BY <1>1, <1>3, <1>4 DEF Entries
<1>6. Distinct(ring, i, n + 1)
  BY <1>1, <1>2, <1>3, <1>4 DEF Distinct
<1>7. Fwd(i, n + 1) = Inc(Fwd(i, n))
  BY <1>1, FwdFacts
<1> QED BY <1>2, <1>5, <1>6, <1>7

\* The slot behind the last entry is written.
LEMMA RingWrite ==
  ASSUME NEW ring, NEW ring2, NEW i \in Idx, NEW n \in 0 .. NQUEUE - 1,
         \A e \in Desc \ {Fwd(i, n) % NQUEUE} : ring2[e] = ring[e]
  PROVE  /\ Entries(ring2, i, n) = Entries(ring, i, n)
         /\ Distinct(ring, i, n) => Distinct(ring2, i, n)
<1>1. NQUEUE \in Nat /\ n \in 0 .. NQUEUE
  BY NQUEUEAssumption
<1>2. Fwd(i, n) % NQUEUE = Slot(i, n) /\ Slot(i, n) \in Desc
  BY <1>1, SlotFacts
<1>3. \A k \in 0 .. n - 1 : Slot(i, k) \in Desc /\ Slot(i, k) # Slot(i, n)
  <2> SUFFICES ASSUME NEW k \in 0 .. n - 1 PROVE Slot(i, k) \in Desc /\ Slot(i, k) # Slot(i, n)
    OBVIOUS
  <2>1. k \in 0 .. NQUEUE - 1 /\ k # n /\ k \in 0 .. NQUEUE
    BY <1>1
  <2> QED BY <2>1, SlotFacts
<1>4. \A k \in 0 .. n - 1 : ring2[Slot(i, k)] = ring[Slot(i, k)]
  BY <1>2, <1>3
<1>5. Entries(ring2, i, n) = Entries(ring, i, n)
  BY <1>4 DEF Entries
<1>6. Distinct(ring, i, n) => Distinct(ring2, i, n)
  BY <1>4 DEF Distinct
<1> QED BY <1>5, <1>6

\* The first entry is taken.
LEMMA RingTake ==
  ASSUME NEW ring \in [Desc -> Desc], NEW i \in Idx, NEW n \in 1 .. NQUEUE - 1,
         Distinct(ring, i, n),
         NEW ring2, \A e \in Desc \ {i % NQUEUE} : ring2[e] = ring[e]
  PROVE  /\ ring[i % NQUEUE] \in Entries(ring, i, n)
         /\ Entries(ring2, Inc(i), n - 1) = Entries(ring, i, n) \ {ring[i % NQUEUE]}
         /\ Distinct(ring2, Inc(i), n - 1)
         /\ Fwd(Inc(i), n - 1) = Fwd(i, n)
         /\ ring2[Fwd(i, n) % NQUEUE] = ring[Fwd(i, n) % NQUEUE]
<1>1. NQUEUE \in Nat /\ n \in Nat /\ n - 1 \in 0 .. NQUEUE /\ (n - 1) + 1 = n /\ n \in 0 .. NQUEUE
      /\ 0 \in 0 .. n - 1
  BY NQUEUEAssumption
<1>2. Slot(i, 0) = i % NQUEUE /\ Slot(i, 0) \in Desc
  BY <1>1, SlotFacts
<1>3. \A k \in 1 .. n : Slot(i, k) \in Desc /\ Slot(i, k) # Slot(i, 0)
  <2> SUFFICES ASSUME NEW k \in 1 .. n PROVE Slot(i, k) \in Desc /\ Slot(i, k) # Slot(i, 0)
    OBVIOUS
  <2>1. k \in 0 .. NQUEUE - 1 /\ 0 \in 0 .. NQUEUE - 1 /\ k # 0 /\ k \in 0 .. NQUEUE
    BY <1>1
  <2> QED BY <2>1, SlotFacts
<1>4. \A k \in 0 .. (n - 1) - 1 : /\ k + 1 \in 1 .. n /\ k + 1 \in 0 .. n - 1
                                  /\ ring2[Slot(Inc(i), k)] = ring[Slot(i, k + 1)]
  <2> SUFFICES ASSUME NEW k \in 0 .. (n - 1) - 1
               PROVE  /\ k + 1 \in 1 .. n /\ k + 1 \in 0 .. n - 1
                      /\ ring2[Slot(Inc(i), k)] = ring[Slot(i, k + 1)]
    OBVIOUS
  <2>1. k \in 0 .. NQUEUE /\ k + 1 \in 1 .. n /\ k + 1 \in 0 .. n - 1
    BY <1>1
  <2>2. Slot(Inc(i), k) = Slot(i, k + 1)
    BY <2>1, SlotFacts
  <2> QED BY <1>2, <1>3, <2>1, <2>2
<1>5. \A k \in 0 .. n - 1 : k = 0 \/ (k - 1 \in 0 .. (n - 1) - 1 /\ (k - 1) + 1 = k)
  BY <1>1
<1>6. \A k \in 1 .. n - 1 : ring[Slot(i, k)] # ring[Slot(i, 0)]
  BY <1>1 DEF Distinct
<1>7. Entries(ring2, Inc(i), n - 1) \subseteq Entries(ring, i, n) \ {ring[Slot(i, 0)]}
  <2> SUFFICES ASSUME NEW k \in 0 .. (n - 1) - 1
               PROVE  ring2[Slot(Inc(i), k)] \in Entries(ring, i, n) \ {ring[Slot(i, 0)]}
    BY DEF Entries
  <2>1. k + 1 \in 1 .. n - 1 /\ k + 1 \in 0 .. n - 1 /\ ring2[Slot(Inc(i), k)] = ring[Slot(i, k + 1)]
    BY <1>1, <1>4
  <2> QED BY <1>6, <2>1 DEF Entries
<1>8. Entries(ring, i, n) \ {ring[Slot(i, 0)]} \subseteq Entries(ring2, Inc(i), n - 1)
  <2> SUFFICES ASSUME NEW k \in 0 .. n - 1, ring[Slot(i, k)] # ring[Slot(i, 0)]
               PROVE  ring[Slot(i, k)] \in Entries(ring2, Inc(i), n - 1)
    BY DEF Entries
  <2>1. k - 1 \in 0 .. (n - 1) - 1 /\ (k - 1) + 1 = k
    BY <1>5
  <2>2. ring2[Slot(Inc(i), k - 1)] = ring[Slot(i, k)]
    BY <1>4, <2>1
  <2> QED BY <2>1, <2>2 DEF Entries
<1>9. Distinct(ring2, Inc(i), n - 1)
  <2> SUFFICES ASSUME NEW j \in 0 .. (n - 1) - 1, NEW k \in 0 .. (n - 1) - 1,
                      ring2[Slot(Inc(i), j)] = ring2[Slot(Inc(i), k)]
               PROVE  j = k
    BY DEF Distinct
  <2>1. ring[Slot(i, j + 1)] = ring[Slot(i, k + 1)] /\ j + 1 \in 0 .. n - 1 /\ k + 1 \in 0 .. n - 1
    BY <1>4
  <2>2. j + 1 = k + 1
    BY <2>1 DEF Distinct
  <2> QED BY <2>2
<1>10. Fwd(Inc(i), n - 1) = Fwd(i, n)
  BY <1>1, FwdFacts
<1>11. Fwd(i, n) % NQUEUE = Slot(i, n) /\ n \in 1 .. n
  BY <1>1, SlotFacts
<1>12. ring2[Slot(i, n)] = ring[Slot(i, n)]
  BY <1>2, <1>3, <1>11
<1>13. ring[Slot(i, 0)] \in Entries(ring, i, n)
  BY <1>1 DEF Entries
<1> QED BY <1>2, <1>7, <1>8, <1>9, <1>10, <1>11, <1>12, <1>13

\* A ring holds no more entries than there are callers, which is less than its size.
LEMMA RingFits ==
  ASSUME TypeOK, FreeInv, NEW ring, NEW i, NEW n \in 0 .. NQUEUE, Distinct(ring, i, n),
         \A d \in Entries(ring, i, n) : \E t \in Busy : d = d0[t]
  PROVE  n <= Cardinality(Busy) /\ n \in 0 .. NQUEUE - 1
<1>1. NQUEUE \in Nat \ {0} /\ n \in Nat /\ nfree \in 0 .. NQUEUE
  BY Types, NQUEUEAssumption
<1>2. IsFiniteSet(Busy)
  BY ThreadsAssumption, FS_Subset DEF Busy
<1>3. Cardinality(Busy) \in Nat /\ nfree + 3 * Cardinality(Busy) = NQUEUE
  BY <1>2, FS_CardinalityType DEF FreeInv
<1>4. n <= Cardinality(Busy)
  <2> SUFFICES ASSUME Cardinality(Busy) < n PROVE FALSE
    BY <1>1, <1>3
  <2> DEFINE S == 0 .. n - 1
             f == [k \in S |-> CHOOSE t \in Busy : ring[Slot(i, k)] = d0[t]]
  <2>1. IsFiniteSet(S) /\ Cardinality(S) = n
    BY <1>1, FS_Interval
  <2>2. ASSUME NEW k \in S PROVE f[k] \in Busy /\ ring[Slot(i, k)] = d0[f[k]]
    <3>1. ring[Slot(i, k)] \in Entries(ring, i, n)
      BY DEF Entries
    <3>2. \E t \in Busy : ring[Slot(i, k)] = d0[t]
      BY <3>1
    <3> QED BY <3>2
  <2>3. f \in [S -> Busy]
    BY <2>2
  <2> HIDE DEF f
  <2>4. \E j, k \in S : j # k /\ f[j] = f[k]
    <3> HIDE DEF S
    <3> QED BY <1>2, <2>1, <2>3, FS_PigeonHole
  <2> QED BY <2>2, <2>4 DEF Distinct
<1>5. PICK m \in Nat : m = Cardinality(Busy)
  BY <1>3
<1>6. nfree + 3 * m = NQUEUE /\ n <= m /\ nfree \in Nat
  BY <1>1, <1>3, <1>4, <1>5
<1> QED BY <1>1, <1>4, <1>6

-----------------------------------------------------------------------------
(* Where the requests are.                                                 *)

\* Different callers have different descriptors.
LEMMA HeadsDiffer ==
  ASSUME ChainInv, NEW t \in Busy, NEW u \in Busy, d0[t] = d0[u]
  PROVE  t = u
BY DEF ChainInv, Trio

\* What the steps below use of the invariant.
LEMMA PlaceFacts ==
  ASSUME TypeOK, FreeInv, NEW na \in 0 .. NQUEUE, NEW nu \in 0 .. NQUEUE, PlacesOk(na, nu)
  PROVE  /\ na \in 0 .. NQUEUE - 1 /\ nu \in 0 .. NQUEUE - 1
         /\ availIdx = Fwd(seen, na) /\ Distinct(availRing, seen, na)
         /\ usedIdx = Fwd(last_used_idx, nu) /\ Distinct(usedRing, last_used_idx, nu)
         /\ availRing \in [Desc -> Desc] /\ usedRing \in [Desc -> Desc]
         /\ availIdx \in Idx /\ usedIdx \in Idx /\ seen \in Idx /\ last_used_idx \in Idx
         /\ inflight \subseteq Desc /\ NQUEUE \in Nat \ {0}
         /\ done \in [Desc -> BOOLEAN] /\ served \in [Threads -> BOOLEAN]
         /\ pc \in [Threads -> {"idle", "publish", "notify", "check", "asleep", "awake"}]
<1>1. na \in 0 .. NQUEUE - 1
  <2>1. \A d \in Entries(availRing, seen, na) : \E t \in Busy : d = d0[t]
    BY DEF PlacesOk, Placed
  <2> QED BY <2>1, RingFits DEF PlacesOk
<1>2. nu \in 0 .. NQUEUE - 1
  <2>1. \A d \in Entries(usedRing, last_used_idx, nu) : \E t \in Busy : d = d0[t]
    BY DEF PlacesOk, Placed
  <2> QED BY <2>1, RingFits DEF PlacesOk
<1> QED BY <1>1, <1>2, NQUEUEAssumption DEF PlacesOk, TypeOK

\* The caller writes its head behind the entries of the available ring.
LEMMA AllocPlace ==
  ASSUME TypeOK, HolderInv, ChainInv, FreeInv, PlaceInv, NEW t \in Threads, OpAlloc(t)
  PROVE  PlaceInv'
<1>1. PICK s \in [0 .. nfree - 1 -> Desc] : FreeList(s)
  BY DEF FreeInv
<1>2. d0' = [d0 EXCEPT ![t] = s[0]] /\ t \notin Busy /\ Busy' = Busy \cup {t} /\ nfree >= 3
  BY <1>1, AllocEffect
<1>3. s[0] \in Desc /\ free_head = s[0]
  BY <1>1, <1>2, FirstThree
<1>4. PICK na \in 0 .. NQUEUE, nu \in 0 .. NQUEUE : PlacesOk(na, nu)
  BY DEF PlaceInv
<1> DEFINE A == Entries(availRing, seen, na)
           U == Entries(usedRing, last_used_idx, nu)
<1>5. /\ availRing' = [availRing EXCEPT ![availIdx % NQUEUE] = s[0]]
      /\ pc' = [pc EXCEPT ![t] = "publish"] /\ lk = NoOne
      /\ UNCHANGED <<availIdx, usedRing, usedIdx, last_used_idx, done, seen, inflight, served>>
  BY <1>3 DEF OpAlloc, Goto, info, device
<1>6. /\ na \in 0 .. NQUEUE - 1 /\ availIdx = Fwd(seen, na) /\ Distinct(availRing, seen, na)
      /\ availRing \in [Desc -> Desc] /\ seen \in Idx /\ d0 \in [Threads -> Desc]
      /\ pc \in [Threads -> {"idle", "publish", "notify", "check", "asleep", "awake"}]
  BY <1>4, PlaceFacts, Types
<1>7. /\ Entries(availRing', seen, na) = A /\ Distinct(availRing', seen, na)
      /\ availRing'[availIdx % NQUEUE] = s[0]
  <2>0. PICK ring2 : ring2 = availRing'
    OBVIOUS
  <2>1. /\ \A e \in Desc \ {Fwd(seen, na) % NQUEUE} : ring2[e] = availRing[e]
        /\ availIdx % NQUEUE \in Desc
    BY <1>5, <1>6, <2>0, SlotFacts
  <2>2. Entries(ring2, seen, na) = A /\ Distinct(ring2, seen, na)
    BY <1>6, <2>1, RingWrite
  <2> QED BY <1>5, <1>6, <2>0, <2>1, <2>2
<1>8. \A u \in Busy : u \in Threads /\ u # t /\ d0'[u] = d0[u] /\ pc'[u] = pc[u] /\ s[0] # d0[u]
  <2>1. \A u \in Busy : s[0] \notin Trio(d0[u])
    <3>1. 0 \in 0 .. nfree - 1
      BY <1>2, Types
    <3> QED BY <1>1, <3>1 DEF FreeList
  <2> QED BY <1>2, <1>5, <1>6, <2>1, Types DEF Trio
<1>9. Finished' = Finished
  BY <1>5 DEF Finished
<1>10. Placed(A, inflight, U, Finished)
  BY <1>4 DEF PlacesOk
<1>11. s[0] \notin U \cup Finished
  BY <1>8, <1>10 DEF Placed
<1> HIDE DEF A, U
<1>12. /\ \A d \in A \cup inflight \cup U \cup Finished :
             \E u \in Busy' : d = d0'[u] /\ pc'[u] # "publish"
       /\ \A u \in Busy' : d0'[u] \in U \cup Finished => served[u]
  <2>1. d0'[t] = s[0]
    BY <1>2, <1>6
  <2> QED BY <1>2, <1>8, <1>10, <1>11, <2>1 DEF Placed
<1>13. PlacesOk(na, nu)'
  <2>1. /\ availIdx' = Fwd(seen', na) /\ Distinct(availRing', seen', na)
        /\ usedIdx' = Fwd(last_used_idx', nu) /\ Distinct(usedRing', last_used_idx', nu)
    BY <1>4, <1>5, <1>6, <1>7 DEF PlacesOk, Distinct, Slot, Fwd
  <2>2. Entries(availRing', seen', na) = A /\ Entries(usedRing', last_used_idx', nu) = U
    BY <1>5, <1>7 DEF U
  <2> QED BY <1>5, <1>9, <1>10, <1>12, <2>1, <2>2 DEF PlacesOk, Placed
<1>14. \A u \in Threads : pc'[u] = "publish" => availRing'[availIdx' % NQUEUE] = d0'[u]
  <2> SUFFICES ASSUME NEW u \in Threads, pc'[u] = "publish", u # t PROVE FALSE
    BY <1>2, <1>5, <1>6, <1>7
  <2> QED BY <1>5, <1>6, NamesAssumption DEF HolderInv, Inside, NoOne
<1> QED BY <1>13, <1>14 DEF PlaceInv

\* avail->idx++ counts it.
LEMMA PublishPlace ==
  ASSUME TypeOK, HolderInv, ChainInv, FreeInv, PlaceInv, NEW t \in Threads, OpPublish(t)
  PROVE  PlaceInv'
<1>1. /\ pc[t] = "publish" /\ availIdx' = Inc(availIdx) /\ pc' = [pc EXCEPT ![t] = "notify"]
      /\ UNCHANGED <<availRing, usedRing, usedIdx, last_used_idx, done, seen, inflight,
                     served, d0>>
  BY DEF OpPublish, Goto, info, device
<1>2. Busy' = Busy /\ t \in Busy
  <2>1. Others
    BY DEF Others
  <2> QED BY <1>1, <2>1, OthersEffect DEF Busy
<1>4. PICK na \in 0 .. NQUEUE, nu \in 0 .. NQUEUE : PlacesOk(na, nu)
  BY DEF PlaceInv
<1> DEFINE A == Entries(availRing, seen, na)
           U == Entries(usedRing, last_used_idx, nu)
<1>5. /\ na \in 0 .. NQUEUE - 1 /\ availIdx = Fwd(seen, na) /\ Distinct(availRing, seen, na)
      /\ availRing \in [Desc -> Desc] /\ seen \in Idx /\ NQUEUE \in Nat \ {0}
      /\ pc \in [Threads -> {"idle", "publish", "notify", "check", "asleep", "awake"}]
  BY <1>4, PlaceFacts
<1>6. Placed(A, inflight, U, Finished)
  BY <1>4 DEF PlacesOk
<1>7. availRing[Fwd(seen, na) % NQUEUE] = d0[t]
  BY <1>1, <1>5 DEF PlaceInv
<1>8. d0[t] \notin A \cup inflight \cup U \cup Finished
  <2> SUFFICES ASSUME d0[t] \in A \cup inflight \cup U \cup Finished PROVE FALSE
    OBVIOUS
  <2>1. PICK u \in Busy : d0[t] = d0[u] /\ pc[u] # "publish"
    BY <1>6 DEF Placed
  <2> QED BY <1>1, <1>2, <2>1, HeadsDiffer
<1>9. /\ Entries(availRing, seen, na + 1) = A \cup {d0[t]} /\ Distinct(availRing, seen, na + 1)
      /\ Fwd(seen, na + 1) = availIdx'
  BY <1>1, <1>5, <1>7, <1>8, RingGrow
<1>10. na + 1 \in 0 .. NQUEUE
  BY <1>5
<1>11. Finished' = Finished
  BY <1>1 DEF Finished
<1> HIDE DEF A, U
<1>12. /\ \A d \in (A \cup {d0[t]}) \cup inflight \cup U \cup Finished :
             \E u \in Busy : d = d0[u] /\ pc'[u] # "publish"
       /\ \A u \in Busy : d0[u] \in U \cup Finished => served[u]
  <2>1. \A u \in Busy : pc[u] # "publish" => pc'[u] # "publish"
    BY <1>1, <1>5
  <2>2. pc'[t] # "publish"
    BY <1>1, <1>5
  <2> QED BY <1>2, <1>6, <2>1, <2>2 DEF Placed
<1>13. PlacesOk(na + 1, nu)'
  <2>1. /\ availIdx' = Fwd(seen', na + 1) /\ Distinct(availRing', seen', na + 1)
        /\ usedIdx' = Fwd(last_used_idx', nu) /\ Distinct(usedRing', last_used_idx', nu)
    BY <1>1, <1>4, <1>9 DEF PlacesOk
  <2>2. /\ Entries(availRing', seen', na + 1) = A \cup {d0[t]}
        /\ Entries(usedRing', last_used_idx', nu) = U
    BY <1>1, <1>9 DEF U
  <2>3. /\ (A \cup {d0[t]}) \cap inflight = {} /\ (A \cup {d0[t]}) \cap U = {}
        /\ (A \cup {d0[t]}) \cap Finished = {}
        /\ inflight \cap U = {} /\ inflight \cap Finished = {} /\ U \cap Finished = {}
    BY <1>6, <1>8 DEF Placed
  <2> QED BY <1>1, <1>2, <1>11, <1>12, <2>1, <2>2, <2>3 DEF PlacesOk, Placed
<1>14. \A u \in Threads : pc'[u] = "publish" => availRing'[availIdx' % NQUEUE] = d0'[u]
  <2> SUFFICES ASSUME NEW u \in Threads, pc'[u] = "publish" PROVE FALSE
    OBVIOUS
  <2>1. u # t /\ pc[u] = "publish"
    BY <1>1, <1>5
  <2> QED BY <1>1, <2>1 DEF HolderInv, Inside
<1> QED BY <1>10, <1>13, <1>14 DEF PlaceInv

\* Steps that move no request.
LEMMA QuietPlace ==
  ASSUME TypeOK, PlaceInv, Busy' = Busy,
         UNCHANGED <<rings, done, seen, inflight, d0, served>>,
         \A t \in Threads : pc'[t] = "publish" <=> pc[t] = "publish"
  PROVE  PlaceInv'
<1>1. PICK na \in 0 .. NQUEUE, nu \in 0 .. NQUEUE : PlacesOk(na, nu)
  BY DEF PlaceInv
<1>2. Finished' = Finished
  BY DEF Finished
<1>3. /\ Entries(availRing, seen, na)' = Entries(availRing, seen, na)
      /\ Entries(usedRing, last_used_idx, nu)' = Entries(usedRing, last_used_idx, nu)
  BY DEF Entries, rings
<1>4. \A t \in Busy : t \in Threads
  BY DEF Busy
<1>5. PlacesOk(na, nu)'
  BY <1>1, <1>2, <1>3, <1>4 DEF PlacesOk, Placed, Distinct, rings
<1> QED BY <1>5 DEF PlaceInv, rings

\* The caller that is done leaves.
LEMMA ReturnPlace ==
  ASSUME TypeOK, HolderInv, ChainInv, FreeInv, PlaceInv, NEW t \in Threads, OpReturn(t)
  PROVE  PlaceInv'
<1>1. /\ done[d0[t]] /\ done' = [done EXCEPT ![d0[t]] = FALSE]
      /\ d0' = [d0 EXCEPT ![t] = 0] /\ pc' = [pc EXCEPT ![t] = "idle"]
      /\ served' = [served EXCEPT ![t] = FALSE]
      /\ UNCHANGED <<rings, seen, inflight>>
  BY DEF OpReturn, Goto, device
<1>2. t \in Busy /\ Busy' = Busy \ {t}
  BY ReturnEffect
<1>4. PICK na \in 0 .. NQUEUE, nu \in 0 .. NQUEUE : PlacesOk(na, nu)
  BY DEF PlaceInv
<1> DEFINE A == Entries(availRing, seen, na)
           U == Entries(usedRing, last_used_idx, nu)
<1>5. /\ done \in [Desc -> BOOLEAN] /\ served \in [Threads -> BOOLEAN] /\ d0 \in [Threads -> Desc]
      /\ pc \in [Threads -> {"idle", "publish", "notify", "check", "asleep", "awake"}]
  BY <1>4, PlaceFacts, Types
<1>6. Placed(A, inflight, U, Finished)
  BY <1>4 DEF PlacesOk
<1>7. Finished' = Finished \ {d0[t]} /\ d0[t] \in Finished
  BY <1>1, <1>5 DEF Finished
<1>8. d0[t] \notin A \cup inflight \cup U
  BY <1>6, <1>7 DEF Placed
<1>9. \A u \in Busy' : /\ u \in Busy /\ d0'[u] = d0[u] /\ pc'[u] = pc[u] /\ served'[u] = served[u]
  BY <1>1, <1>2, <1>5 DEF Busy
<1> HIDE DEF A, U
<1>10. /\ \A d \in A \cup inflight \cup U \cup Finished' :
             \E u \in Busy' : d = d0'[u] /\ pc'[u] # "publish"
       /\ \A u \in Busy' : d0'[u] \in U \cup Finished' => served'[u]
  <2>1. ASSUME NEW d \in A \cup inflight \cup U \cup Finished'
        PROVE  \E u \in Busy' : d = d0'[u] /\ pc'[u] # "publish"
    <3>1. d # d0[t] /\ d \in A \cup inflight \cup U \cup Finished
      BY <1>7, <1>8
    <3>2. PICK u \in Busy : d = d0[u] /\ pc[u] # "publish"
      BY <1>6, <3>1 DEF Placed
    <3> QED BY <1>2, <1>9, <3>1, <3>2
  <2>2. \A u \in Busy' : d0'[u] \in U \cup Finished' => served'[u]
    BY <1>6, <1>7, <1>9 DEF Placed
  <2> QED BY <2>1, <2>2
<1>11. PlacesOk(na, nu)'
  <2>1. /\ availIdx' = Fwd(seen', na) /\ Distinct(availRing', seen', na)
        /\ usedIdx' = Fwd(last_used_idx', nu) /\ Distinct(usedRing', last_used_idx', nu)
    BY <1>1, <1>4 DEF PlacesOk, rings
  <2>2. Entries(availRing', seen', na) = A /\ Entries(usedRing', last_used_idx', nu) = U
    BY <1>1 DEF A, U, rings
  <2>3. /\ A \cap inflight = {} /\ A \cap U = {} /\ A \cap Finished' = {}
        /\ inflight \cap U = {} /\ inflight \cap Finished' = {} /\ U \cap Finished' = {}
    BY <1>6, <1>7 DEF Placed
  <2> QED BY <1>1, <1>10, <2>1, <2>2, <2>3 DEF PlacesOk, Placed
<1>12. \A u \in Threads : pc'[u] = "publish" => availRing'[availIdx' % NQUEUE] = d0'[u]
  <2> SUFFICES ASSUME NEW u \in Threads, pc'[u] = "publish"
               PROVE  availRing[availIdx % NQUEUE] = d0'[u]
    BY <1>1 DEF rings
  <2>1. u # t /\ pc[u] = "publish" /\ d0'[u] = d0[u]
    BY <1>1, <1>5
  <2> QED BY <2>1 DEF PlaceInv
<1> QED BY <1>11, <1>12 DEF PlaceInv

\* The device reads an entry of the available ring.
LEMMA FetchPlace ==
  ASSUME TypeOK, HolderInv, ChainInv, FreeInv, PlaceInv, DevFetch
  PROVE  PlaceInv'
<1>1. /\ seen # availIdx /\ inflight' = inflight \cup {availRing[seen % NQUEUE]}
      /\ seen' = Inc(seen) /\ availRing' = [availRing EXCEPT ![seen % NQUEUE] = 0]
      /\ UNCHANGED <<availIdx, usedRing, usedIdx, last_used_idx, done, pc, d0, served>>
  BY DEF DevFetch, info
<1>2. Busy' = Busy
  BY <1>1 DEF Busy
<1>4. PICK na \in 0 .. NQUEUE, nu \in 0 .. NQUEUE : PlacesOk(na, nu)
  BY DEF PlaceInv
<1> DEFINE A == Entries(availRing, seen, na)
           U == Entries(usedRing, last_used_idx, nu)
           d == availRing[seen % NQUEUE]
<1>5. /\ na \in 0 .. NQUEUE - 1 /\ availIdx = Fwd(seen, na) /\ Distinct(availRing, seen, na)
      /\ availRing \in [Desc -> Desc] /\ seen \in Idx /\ NQUEUE \in Nat \ {0}
  BY <1>4, PlaceFacts
<1>6. Placed(A, inflight, U, Finished)
  BY <1>4 DEF PlacesOk
<1>7. na \in 1 .. NQUEUE - 1 /\ na - 1 \in 0 .. NQUEUE
  <2>1. na # 0
    BY <1>1, <1>5, FwdFacts
  <2> QED BY <1>5, <2>1
<1>8. /\ d \in A
      /\ Entries(availRing', Inc(seen), na - 1) = A \ {d}
      /\ Distinct(availRing', Inc(seen), na - 1)
      /\ Fwd(Inc(seen), na - 1) = Fwd(seen, na)
      /\ availRing'[Fwd(seen, na) % NQUEUE] = availRing[Fwd(seen, na) % NQUEUE]
  <2>0. PICK ring2 : ring2 = availRing'
    OBVIOUS
  <2>1. \A e \in Desc \ {seen % NQUEUE} : ring2[e] = availRing[e]
    BY <1>1, <1>5, <2>0
  <2>2. /\ d \in A
        /\ Entries(ring2, Inc(seen), na - 1) = A \ {d}
        /\ Distinct(ring2, Inc(seen), na - 1)
        /\ Fwd(Inc(seen), na - 1) = Fwd(seen, na)
        /\ ring2[Fwd(seen, na) % NQUEUE] = availRing[Fwd(seen, na) % NQUEUE]
    BY <1>5, <1>7, <2>1, RingTake
  <2> QED BY <2>0, <2>2
<1>9. Finished' = Finished
  BY <1>1 DEF Finished
<1>10. PlacesOk(na - 1, nu)'
  <2>1. /\ availIdx' = Fwd(seen', na - 1) /\ Distinct(availRing', seen', na - 1)
        /\ usedIdx' = Fwd(last_used_idx', nu) /\ Distinct(usedRing', last_used_idx', nu)
    BY <1>1, <1>4, <1>5, <1>8 DEF PlacesOk
  <2>2. /\ Entries(availRing', seen', na - 1) = A \ {d}
        /\ Entries(usedRing', last_used_idx', nu) = U
        /\ inflight' = inflight \cup {d}
    BY <1>1, <1>8
  <2> HIDE DEF A, U, d
  <2>3. /\ (A \ {d}) \cap (inflight \cup {d}) = {} /\ (A \ {d}) \cap U = {}
        /\ (A \ {d}) \cap Finished = {}
        /\ (inflight \cup {d}) \cap U = {} /\ (inflight \cup {d}) \cap Finished = {}
        /\ U \cap Finished = {}
    BY <1>6, <1>8 DEF Placed
  <2>4. /\ \A e \in (A \ {d}) \cup (inflight \cup {d}) \cup U \cup Finished :
              \E t \in Busy : e = d0[t] /\ pc[t] # "publish"
        /\ \A t \in Busy : d0[t] \in U \cup Finished => served[t]
    BY <1>6, <1>8 DEF Placed
  <2>5. UNCHANGED <<d0, pc, served>>
    BY <1>1
  <2>6. Placed(Entries(availRing, seen, na - 1), inflight,
               Entries(usedRing, last_used_idx, nu), Finished)'
    BY <1>2, <1>9, <2>2, <2>3, <2>4, <2>5 DEF Placed
  <2> QED BY <2>1, <2>6 DEF PlacesOk
<1>11. \A u \in Threads : pc'[u] = "publish" => availRing'[availIdx' % NQUEUE] = d0'[u]
  BY <1>1, <1>5, <1>8 DEF PlaceInv
<1> QED BY <1>7, <1>10, <1>11 DEF PlaceInv

\* The device finishes a request: that of the caller whose memory the chain points to.
LEMMA FinishPlace ==
  ASSUME TypeOK, HolderInv, ChainInv, FreeInv, PlaceInv, NEW d \in Desc, DevFinish(d)
  PROVE  PlaceInv'
<1>1. /\ d \in inflight /\ inflight' = inflight \ {d}
      /\ served' = [t \in Threads |-> served[t] \/ \A e \in Chain(q, d) : addr[e] = t]
      /\ usedRing' = [usedRing EXCEPT ![usedIdx % NQUEUE] = d] /\ usedIdx' = Inc(usedIdx)
      /\ UNCHANGED <<availRing, availIdx, last_used_idx, done, seen, pc, d0>>
  BY DEF DevFinish, info
<1>2. Busy' = Busy
  BY <1>1 DEF Busy
<1>4. PICK na \in 0 .. NQUEUE, nu \in 0 .. NQUEUE : PlacesOk(na, nu)
  BY DEF PlaceInv
<1> DEFINE A == Entries(availRing, seen, na)
           U == Entries(usedRing, last_used_idx, nu)
<1>5. /\ nu \in 0 .. NQUEUE - 1 /\ usedIdx = Fwd(last_used_idx, nu)
      /\ Distinct(usedRing, last_used_idx, nu)
      /\ usedRing \in [Desc -> Desc] /\ last_used_idx \in Idx /\ NQUEUE \in Nat \ {0}
      /\ served \in [Threads -> BOOLEAN]
  BY <1>4, PlaceFacts
<1>6. Placed(A, inflight, U, Finished)
  BY <1>4 DEF PlacesOk
<1>7. d \notin A \cup U \cup Finished
  BY <1>1, <1>6 DEF Placed
<1>8. /\ Entries(usedRing', last_used_idx, nu + 1) = U \cup {d}
      /\ Distinct(usedRing', last_used_idx, nu + 1)
      /\ Fwd(last_used_idx, nu + 1) = usedIdx'
  <2>0. PICK ring2 : ring2 = usedRing'
    OBVIOUS
  <2>1. /\ \A e \in Desc \ {Fwd(last_used_idx, nu) % NQUEUE} : ring2[e] = usedRing[e]
        /\ ring2[Fwd(last_used_idx, nu) % NQUEUE] = d /\ ring2 \in [Desc -> Desc]
    BY <1>1, <1>5, <2>0, SlotFacts
  <2>2. Entries(ring2, last_used_idx, nu) = U /\ Distinct(ring2, last_used_idx, nu)
    BY <1>5, <2>1, RingWrite
  <2>3. ring2[Fwd(last_used_idx, nu) % NQUEUE] \notin Entries(ring2, last_used_idx, nu)
    BY <1>7, <2>1, <2>2
  <2>4. /\ Entries(ring2, last_used_idx, nu + 1) =
             Entries(ring2, last_used_idx, nu) \cup {ring2[Fwd(last_used_idx, nu) % NQUEUE]}
        /\ Distinct(ring2, last_used_idx, nu + 1)
        /\ Fwd(last_used_idx, nu + 1) = Inc(Fwd(last_used_idx, nu))
    BY <1>5, <2>1, <2>2, <2>3, RingGrow
  <2> QED BY <1>1, <1>5, <2>0, <2>1, <2>2, <2>4
<1>9. nu + 1 \in 0 .. NQUEUE
  BY <1>5
<1>10. Finished' = Finished
  BY <1>1 DEF Finished
<1>11. \A t \in Busy : (d0[t] = d \/ served[t]) => served'[t]
  <2> SUFFICES ASSUME NEW t \in Busy, d0[t] = d \/ served[t] PROVE served'[t]
    OBVIOUS
  <2>0. t \in Threads
    BY Types
  <2>1. CASE served[t]
    BY <1>1, <2>0, <2>1
  <2>2. CASE d0[t] = d
    <3>1. flags[d] /\ flags[next[d]] /\ ~flags[next[next[d]]] /\ \A e \in Trio(d) : addr[e] = t
      BY <2>2 DEF ChainInv
    <3>2. NQUEUE >= 3
      <4>1. IsFiniteSet(Busy) /\ Cardinality(Busy) \in Nat
        BY ThreadsAssumption, FS_Subset, FS_CardinalityType DEF Busy
      <4>2. Cardinality(Busy) # 0
        BY <4>1, FS_EmptySet
      <4>3. nfree \in Nat /\ nfree + 3 * Cardinality(Busy) = NQUEUE
        BY Types DEF FreeInv
      <4> QED BY <1>5, <4>1, <4>2, <4>3
    <3>3. Chain(q, d) = Trio(d)
      BY <3>1, <3>2, FreeIs
    <3> QED BY <1>1, <2>0, <3>1, <3>3
  <2> QED BY <2>1, <2>2
<1>12. PlacesOk(na, nu + 1)'
  <2>1. /\ availIdx' = Fwd(seen', na) /\ Distinct(availRing', seen', na)
        /\ usedIdx' = Fwd(last_used_idx', nu + 1) /\ Distinct(usedRing', last_used_idx', nu + 1)
    BY <1>1, <1>4, <1>8 DEF PlacesOk
  <2>2. /\ Entries(availRing', seen', na) = A
        /\ Entries(usedRing', last_used_idx', nu + 1) = U \cup {d}
        /\ inflight' = inflight \ {d} /\ UNCHANGED <<d0, pc>>
    BY <1>1, <1>8
  <2> HIDE DEF A, U
  <2>3. /\ A \cap (inflight \ {d}) = {} /\ A \cap (U \cup {d}) = {} /\ A \cap Finished = {}
        /\ (inflight \ {d}) \cap (U \cup {d}) = {} /\ (inflight \ {d}) \cap Finished = {}
        /\ (U \cup {d}) \cap Finished = {}
    BY <1>6, <1>7 DEF Placed
  <2>4. /\ \A e \in A \cup (inflight \ {d}) \cup (U \cup {d}) \cup Finished :
              \E t \in Busy : e = d0[t] /\ pc[t] # "publish"
        /\ \A t \in Busy : d0[t] \in (U \cup {d}) \cup Finished => served'[t]
    BY <1>1, <1>6, <1>11 DEF Placed
  <2>5. Placed(Entries(availRing, seen, na), inflight,
               Entries(usedRing, last_used_idx, nu + 1), Finished)'
    BY <1>2, <1>10, <2>2, <2>3, <2>4 DEF Placed
  <2> QED BY <2>1, <2>5 DEF PlacesOk
<1>13. \A u \in Threads : pc'[u] = "publish" => availRing'[availIdx' % NQUEUE] = d0'[u]
  BY <1>1 DEF PlaceInv
<1> QED BY <1>9, <1>12, <1>13 DEF PlaceInv

\* The handler takes an entry of the used ring.
LEMMA UsedPlace ==
  ASSUME TypeOK, HolderInv, ChainInv, FreeInv, PlaceInv, IntrUsed
  PROVE  /\ PlaceInv'
         /\ \E t \in Busy : usedRing[last_used_idx % NQUEUE] = d0[t]
<1> DEFINE d == usedRing[last_used_idx % NQUEUE]
<1>1. /\ last_used_idx # usedIdx /\ done' = [done EXCEPT ![d] = TRUE]
      /\ pc' = [t \in Threads |-> IF pc[t] = "asleep" /\ BufOf[t] = buf[d]
                                  THEN "awake" ELSE pc[t]]
      /\ last_used_idx' = Inc(last_used_idx)
      /\ usedRing' = [usedRing EXCEPT ![last_used_idx % NQUEUE] = 0]
      /\ UNCHANGED <<availRing, availIdx, usedIdx, seen, inflight, d0, served>>
  BY DEF IntrUsed, device
<1>2. Busy' = Busy
  <2>1. Others
    BY DEF Others, IntrStep
  <2> QED BY <2>1, OthersEffect
<1>3. \A t \in Threads : pc'[t] = "publish" <=> pc[t] = "publish"
  BY <1>1
<1>4. PICK na \in 0 .. NQUEUE, nu \in 0 .. NQUEUE : PlacesOk(na, nu)
  BY DEF PlaceInv
<1> DEFINE A == Entries(availRing, seen, na)
           U == Entries(usedRing, last_used_idx, nu)
<1>5. /\ nu \in 0 .. NQUEUE - 1 /\ usedIdx = Fwd(last_used_idx, nu)
      /\ Distinct(usedRing, last_used_idx, nu)
      /\ usedRing \in [Desc -> Desc] /\ last_used_idx \in Idx /\ NQUEUE \in Nat \ {0}
      /\ done \in [Desc -> BOOLEAN]
  BY <1>4, PlaceFacts
<1>6. Placed(A, inflight, U, Finished)
  BY <1>4 DEF PlacesOk
<1>7. nu \in 1 .. NQUEUE - 1 /\ nu - 1 \in 0 .. NQUEUE
  <2>1. nu # 0
    BY <1>1, <1>5, FwdFacts
  <2> QED BY <1>5, <2>1
<1>8. /\ d \in U
      /\ Entries(usedRing', Inc(last_used_idx), nu - 1) = U \ {d}
      /\ Distinct(usedRing', Inc(last_used_idx), nu - 1)
      /\ Fwd(Inc(last_used_idx), nu - 1) = Fwd(last_used_idx, nu)
  <2>0. PICK ring2 : ring2 = usedRing'
    OBVIOUS
  <2>1. \A e \in Desc \ {last_used_idx % NQUEUE} : ring2[e] = usedRing[e]
    BY <1>1, <1>5, <2>0
  <2>2. /\ d \in U
        /\ Entries(ring2, Inc(last_used_idx), nu - 1) = U \ {d}
        /\ Distinct(ring2, Inc(last_used_idx), nu - 1)
        /\ Fwd(Inc(last_used_idx), nu - 1) = Fwd(last_used_idx, nu)
    BY <1>5, <1>7, <2>1, RingTake
  <2> QED BY <2>0, <2>2
<1>9. d \in Desc
  <2>1. last_used_idx % NQUEUE \in Desc
    BY <1>5, SlotFacts, 0 \in 0 .. NQUEUE
  <2> QED BY <1>5, <2>1
<1> HIDE DEF d
<1>10. Finished' = Finished \cup {d}
  BY <1>1, <1>5, <1>9 DEF Finished
<1>11. \A t \in Busy : t \in Threads
  BY DEF Busy
<1>12. PlacesOk(na, nu - 1)'
  <2>1. /\ availIdx' = Fwd(seen', na) /\ Distinct(availRing', seen', na)
        /\ usedIdx' = Fwd(last_used_idx', nu - 1) /\ Distinct(usedRing', last_used_idx', nu - 1)
    BY <1>1, <1>4, <1>5, <1>8 DEF PlacesOk
  <2>2. /\ Entries(availRing', seen', na) = A
        /\ Entries(usedRing', last_used_idx', nu - 1) = U \ {d}
        /\ UNCHANGED <<inflight, d0, served>>
    BY <1>1, <1>8
  <2> HIDE DEF A, U
  <2>3. /\ A \cap inflight = {} /\ A \cap (U \ {d}) = {} /\ A \cap (Finished \cup {d}) = {}
        /\ inflight \cap (U \ {d}) = {} /\ inflight \cap (Finished \cup {d}) = {}
        /\ (U \ {d}) \cap (Finished \cup {d}) = {}
    BY <1>6, <1>8 DEF Placed
  <2>4. /\ \A e \in A \cup inflight \cup (U \ {d}) \cup (Finished \cup {d}) :
              \E t \in Busy : e = d0[t] /\ pc'[t] # "publish"
        /\ \A t \in Busy : d0[t] \in (U \ {d}) \cup (Finished \cup {d}) => served[t]
    BY <1>3, <1>6, <1>8, <1>11 DEF Placed
  <2>5. Placed(Entries(availRing, seen, na), inflight,
               Entries(usedRing, last_used_idx, nu - 1), Finished)'
    BY <1>2, <1>10, <2>2, <2>3, <2>4 DEF Placed
  <2> QED BY <2>1, <2>5 DEF PlacesOk
<1>13. \A u \in Threads : pc'[u] = "publish" => availRing'[availIdx' % NQUEUE] = d0'[u]
  BY <1>1, <1>3 DEF PlaceInv
<1>14. \E t \in Busy : d = d0[t]
  BY <1>6, <1>8 DEF Placed
<1> QED BY <1>7, <1>12, <1>13, <1>14 DEF PlaceInv, d

LEMMA PlaceStep ==
  ASSUME TypeOK, HolderInv, ChainInv, FreeInv, PlaceInv, [Next]_vars
  PROVE  PlaceInv'
<1> DEFINE Still == /\ UNCHANGED <<rings, done, seen, inflight, d0, served>>
                    /\ \A t \in Threads : pc'[t] = "publish" <=> pc[t] = "publish"
<1>0. pc \in [Threads -> {"idle", "publish", "notify", "check", "asleep", "awake"}]
  BY DEF TypeOK
<1>1. ASSUME Others, Still PROVE PlaceInv'
  BY <1>1, OthersEffect, QuietPlace
<1> USE DEF rings, info, device, Goto
<1>2. ASSUME NEW t \in Threads, OpKokatu(t) \/ OpNotify(t) \/ OpSleep(t) \/ OpAwake(t)
      PROVE  PlaceInv'
  <2>1. CASE OpKokatu(t)
    BY <1>1, <2>1 DEF OpKokatu, Others
  <2>2. CASE OpNotify(t)
    BY <1>0, <1>1, <2>2 DEF OpNotify, Others
  <2>3. CASE OpSleep(t)
    BY <1>0, <1>1, <2>3 DEF OpSleep, Others
  <2>4. CASE OpAwake(t)
    BY <1>0, <1>1, <2>4 DEF OpAwake, Others
  <2> QED BY <1>2, <2>1, <2>2, <2>3, <2>4
<1>3. CASE IntrEnter
  BY <1>1, <1>3 DEF IntrEnter, Others, IntrStep
<1>4. CASE IntrAck
  BY <1>1, <1>4 DEF IntrAck, Others, IntrStep
<1>5. CASE IntrLeave
  BY <1>1, <1>5 DEF IntrLeave, Others, IntrStep
<1>6. CASE UNCHANGED vars
  BY <1>1, <1>6 DEF vars, Others
<1> QED BY <1>2, <1>3, <1>4, <1>5, <1>6, AllocPlace, PublishPlace, ReturnPlace, FetchPlace,
           FinishPlace, UsedPlace DEF Next, OpStep, DevStep, IntrStep

-----------------------------------------------------------------------------
(* Sleeping and waking.                                                    *)

\* Steps that touch neither done nor buf and put nobody to sleep.
LEMMA QuietWake ==
  ASSUME WakeInv, UNCHANGED <<done, buf, d0>>,
         \A t \in Threads : /\ pc'[t] \in {"check", "asleep", "awake"}
                                 => pc[t] \in {"check", "asleep", "awake"}
                            /\ pc'[t] = "asleep" => ~done[d0[t]]
  PROVE  WakeInv'
BY DEF WakeInv

LEMMA WakeStep ==
  ASSUME TypeOK, HolderInv, ChainInv, FreeInv, PlaceInv, WakeInv, [Next]_vars
  PROVE  WakeInv'
<1>0. /\ pc \in [Threads -> {"idle", "publish", "notify", "check", "asleep", "awake"}]
      /\ d0 \in [Threads -> Desc] /\ buf \in [Desc -> Bufs \cup {NoBuf}]
      /\ done \in [Desc -> BOOLEAN]
  BY DEF TypeOK
<1>1. \A t \in Threads : pc[t] # "idle" <=> t \in Busy
  BY DEF Busy
<1>2. \A t \in Threads : pc[t] = "asleep" => ~done[d0[t]]
  BY DEF WakeInv
<1> USE DEF rings, info, device, desc, Goto
<1>3. ASSUME NEW t \in Threads, OpAlloc(t) PROVE WakeInv'
  <2>1. /\ pc' = [pc EXCEPT ![t] = "publish"] /\ d0' = [d0 EXCEPT ![t] = free_head]
        /\ UNCHANGED <<done, buf>>
    BY <1>3 DEF OpAlloc
  <2> QED BY <1>0, <2>1 DEF WakeInv
<1>4. ASSUME NEW t \in Threads, OpReturn(t) PROVE WakeInv'
  <2>1. /\ pc' = [pc EXCEPT ![t] = "idle"] /\ d0' = [d0 EXCEPT ![t] = 0]
        /\ done' = [done EXCEPT ![d0[t]] = FALSE] /\ UNCHANGED buf /\ pc[t] = "check"
    BY <1>4 DEF OpReturn
  <2>2. ASSUME NEW u \in Threads, pc'[u] \in {"check", "asleep", "awake"}
        PROVE  /\ d0'[u] = d0[u] /\ pc'[u] = pc[u] /\ done'[d0[u]] = done[d0[u]]
    <3>1. u # t /\ pc'[u] = pc[u] /\ d0'[u] = d0[u]
      BY <1>0, <2>1, <2>2
    <3>2. d0[u] # d0[t]
      BY <1>1, <2>1, <2>2, <3>1, HeadsDiffer
    <3> QED BY <1>0, <2>1, <3>1, <3>2
  <2>3. ASSUME NEW u \in Threads
        PROVE  /\ pc'[u] \in {"check", "asleep", "awake"} /\ ~done'[d0'[u]]
                    => buf'[d0'[u]] = BufOf[u]
               /\ pc'[u] = "asleep" => ~done'[d0'[u]]
    <3>1. CASE pc'[u] \in {"check", "asleep", "awake"}
      <4>1. d0'[u] = d0[u] /\ pc'[u] = pc[u] /\ done'[d0[u]] = done[d0[u]] /\ buf' = buf
        BY <2>1, <2>2, <3>1
      <4> QED BY <3>1, <4>1 DEF WakeInv
    <3>2. CASE pc'[u] \notin {"check", "asleep", "awake"}
      BY <3>2
    <3> QED BY <3>1, <3>2
  <2> QED BY <2>3 DEF WakeInv
<1>5. ASSUME NEW t \in Threads, OpNotify(t) PROVE WakeInv'
  <2>1. /\ pc' = [pc EXCEPT ![t] = "check"] /\ buf' = [buf EXCEPT ![d0[t]] = BufOf[t]]
        /\ UNCHANGED <<done, d0>> /\ pc[t] = "notify"
    BY <1>5 DEF OpNotify
  <2>2. buf'[d0[t]] = BufOf[t] /\ pc'[t] = "check"
    BY <1>0, <2>1
  <2>3. ASSUME NEW u \in Threads, pc'[u] \in {"check", "asleep", "awake"}, u # t
        PROVE  pc'[u] = pc[u] /\ buf'[d0[u]] = buf[d0[u]]
    <3>1. pc'[u] = pc[u]
      BY <1>0, <2>1, <2>3
    <3>2. d0[u] # d0[t]
      BY <1>1, <2>1, <2>3, <3>1, HeadsDiffer
    <3> QED BY <1>0, <2>1, <3>1, <3>2
  <2>4. \A u \in Threads : pc'[u] = "asleep" => pc'[u] \in {"check", "asleep", "awake"} /\ u # t
    BY <2>2
  <2> QED BY <2>1, <2>2, <2>3, <2>4 DEF WakeInv
<1>6. CASE IntrUsed
  <2> DEFINE d == usedRing[last_used_idx % NQUEUE]
  <2>1. /\ done' = [done EXCEPT ![d] = TRUE] /\ buf' = [buf EXCEPT ![d] = NoBuf]
        /\ pc' = [t \in Threads |-> IF pc[t] = "asleep" /\ BufOf[t] = buf[d]
                                    THEN "awake" ELSE pc[t]]
        /\ UNCHANGED d0
    BY <1>6 DEF IntrUsed
  <2>2. PICK w \in Busy : d = d0[w]
    BY <1>6, UsedPlace
  <2>3. d \in Desc
    BY <2>2, Types
  <2> HIDE DEF d
  <2>4. ASSUME NEW u \in Threads, d0[u] # d, pc'[u] \in {"check", "asleep", "awake"}
        PROVE  /\ ~done'[d0[u]] => buf'[d0[u]] = BufOf[u]
               /\ pc'[u] = "asleep" => ~done'[d0[u]]
    <3>1. done'[d0[u]] = done[d0[u]] /\ buf'[d0[u]] = buf[d0[u]]
      BY <1>0, <2>1, <2>3, <2>4
    <3>2. pc[u] \in {"check", "asleep", "awake"} /\ (pc'[u] = "asleep" => pc[u] = "asleep")
      BY <2>1, <2>4
    <3> QED BY <3>1, <3>2 DEF WakeInv
  <2>5. ASSUME NEW u \in Threads, d0[u] = d, pc'[u] \in {"check", "asleep", "awake"}
        PROVE  done'[d0[u]] /\ pc'[u] # "asleep"
    <3>1. done'[d]
      BY <1>0, <2>1, <2>3
    <3>2. ASSUME pc'[u] = "asleep" PROVE FALSE
      <4>1. pc[u] = "asleep" /\ BufOf[u] # buf[d]
        BY <2>1, <3>2
      <4>2. buf[d0[u]] = BufOf[u]
        BY <4>1 DEF WakeInv
      <4> QED BY <2>5, <4>1, <4>2
    <3> QED BY <2>5, <3>1, <3>2
  <2>6. \A u \in Threads : pc'[u] = "asleep" => pc'[u] \in {"check", "asleep", "awake"}
    OBVIOUS
  <2> QED BY <2>1, <2>4, <2>5, <2>6 DEF WakeInv
<1>7. ASSUME NEW t \in Threads, OpKokatu(t) PROVE WakeInv'
  BY <1>2, <1>7, QuietWake DEF OpKokatu
<1>8. ASSUME NEW t \in Threads, OpPublish(t) PROVE WakeInv'
  BY <1>0, <1>2, <1>8, QuietWake DEF OpPublish
<1>9. ASSUME NEW t \in Threads, OpSleep(t) PROVE WakeInv'
  BY <1>0, <1>2, <1>9, QuietWake DEF OpSleep
<1>10. ASSUME NEW t \in Threads, OpAwake(t) PROVE WakeInv'
  BY <1>0, <1>2, <1>10, QuietWake DEF OpAwake
<1>11. CASE DevFetch
  BY <1>2, <1>11, QuietWake DEF DevFetch
<1>12. ASSUME NEW d \in Desc, DevFinish(d) PROVE WakeInv'
  BY <1>2, <1>12, QuietWake DEF DevFinish
<1>13. CASE IntrEnter
  BY <1>2, <1>13, QuietWake DEF IntrEnter
<1>14. CASE IntrAck
  BY <1>2, <1>14, QuietWake DEF IntrAck
<1>15. CASE IntrLeave
  BY <1>2, <1>15, QuietWake DEF IntrLeave
<1>16. CASE UNCHANGED vars
  BY <1>2, <1>16, QuietWake DEF vars
<1> QED BY <1>3, <1>4, <1>5, <1>6, <1>7, <1>8, <1>9, <1>10, <1>11, <1>12, <1>13, <1>14,
           <1>15, <1>16 DEF Next, OpStep, DevStep, IntrStep

-----------------------------------------------------------------------------
(* The theorems.                                                           *)

LEMMA InitQueue == Init => QueueInv
<1> SUFFICES ASSUME Init PROVE QueueInv
  OBVIOUS
<1> USE NQUEUEAssumption, IdxModAssumption
<1>1. Busy = {} /\ Cardinality(Busy) = 0
  BY FS_EmptySet DEF Init, Busy
<1>2. 0 \in Desc /\ 0 \in Idx
  BY DEF Desc, Idx
<1>3. TypeOK
  <2>1. next \in [Desc -> Desc] /\ flags \in [Desc -> BOOLEAN]
    BY <1>2 DEF Init, Desc
  <2>2. /\ free_head \in Desc /\ nfree \in 0 .. NQUEUE
        /\ {availIdx, usedIdx, last_used_idx, seen} \subseteq Idx
    BY <1>2 DEF Init
  <2>3. /\ availRing \in [Desc -> Desc] /\ usedRing \in [Desc -> Desc]
        /\ d0 \in [Threads -> Desc]
    BY <1>2 DEF Init
  <2>4. /\ addr \in [Desc -> Threads \cup {NoOne}] /\ done \in [Desc -> BOOLEAN]
        /\ buf \in [Desc -> Bufs \cup {NoBuf}] /\ inflight \subseteq Desc
        /\ served \in [Threads -> BOOLEAN]
        /\ pc \in [Threads -> {"idle", "publish", "notify", "check", "asleep", "awake"}]
    BY Zenon DEF Init
  <2>5. /\ isr \in BOOLEAN /\ lk \in Threads \cup {NoOne, "intr"}
        /\ hpc \in {"idle", "ack", "loop"} /\ panic \in BOOLEAN
    BY DEF Init
  <2> QED BY <2>1, <2>2, <2>3, <2>4, <2>5 DEF TypeOK
<1>4. HolderInv /\ ChainInv /\ WakeInv
  BY <1>1 DEF Init, HolderInv, Inside, ChainInv, WakeInv
<1>5. FreeInv
  <2> DEFINE s == [i \in 0 .. NQUEUE - 1 |-> i]
  <2>1. nfree = NQUEUE /\ s \in [0 .. nfree - 1 -> Desc]
    BY DEF Init, Desc
  <2>2. FreeList(s)
    <3>1. ASSUME NEW i \in 0 .. nfree - 2 PROVE flags[s[i]] /\ next[s[i]] = s[i + 1]
      <4>1. i \in Desc /\ i # NQUEUE - 1 /\ s[i] = i /\ s[i + 1] = i + 1
        BY <2>1 DEF Desc
      <4> QED BY <4>1 DEF Init
    <3>2. s[0] = free_head
      BY DEF Init
    <3>3. \A i, j \in 0 .. nfree - 1 : s[i] = s[j] => i = j
      BY <2>1
    <3> HIDE DEF s
    <3> QED BY <1>1, <3>1, <3>2, <3>3 DEF FreeList
  <2> QED BY <1>1, <2>1, <2>2 DEF FreeInv
<1>6. PlaceInv
  <2>1. Finished = {} /\ inflight = {}
    BY DEF Init, Finished
  <2>2. 0 .. 0 - 1 = {}
    OBVIOUS
  <2>3. /\ Entries(availRing, seen, 0) = {} /\ Entries(usedRing, last_used_idx, 0) = {}
        /\ Distinct(availRing, seen, 0) /\ Distinct(usedRing, last_used_idx, 0)
    BY <2>2 DEF Entries, Distinct
  <2>4. availIdx = Fwd(seen, 0) /\ usedIdx = Fwd(last_used_idx, 0)
    BY <1>2, FwdFacts DEF Init
  <2>5. PlacesOk(0, 0)
    BY <1>1, <2>1, <2>3, <2>4 DEF PlacesOk, Placed
  <2>6. \A t \in Threads : pc[t] # "publish"
    BY DEF Init
  <2>7. 0 \in 0 .. NQUEUE
    OBVIOUS
  <2> QED BY <2>5, <2>6, <2>7 DEF PlaceInv
<1> QED BY <1>3, <1>4, <1>5, <1>6 DEF QueueInv

\* QueueInv holds in every state of the driver, the device and the handler.
THEOREM QueueInvariant == Spec => []QueueInv
<1>1. QueueInv /\ [Next]_vars => QueueInv'
  BY TypeStep, HolderStep, DescStep, PlaceStep, WakeStep DEF QueueInv
<1> QED BY <1>1, InitQueue, PTL DEF Spec

\* The types of the driver's state: in particular the ring indices and the heads taken
\* from the rings stay in their ranges, whatever has wrapped.
THEOREM QueueTyped == Spec => []TypeOK
<1>1. QueueInv => TypeOK
  BY DEF QueueInv
<1> QED BY <1>1, QueueInvariant, PTL

\* For every queue size and every number of callers, the free list and the requests in
\* use share no descriptor and lose none (alloc_desc, free_desc, virtio_blk_op).
THEOREM FreeListKept == Spec => []FreeListSound
<1>1. QueueInv => FreeListSound
  <2> SUFFICES ASSUME QueueInv PROVE FreeListSound
    OBVIOUS
  <2>1. TypeOK /\ ChainInv /\ FreeInv
    BY DEF QueueInv
  <2>2. PICK s \in [0 .. nfree - 1 -> Desc] : FreeList(s)
    BY <2>1 DEF FreeInv
  <2>3. /\ flags \in [Desc -> BOOLEAN] /\ next \in [Desc -> Desc] /\ nfree \in 0 .. NQUEUE
        /\ NQUEUE \in Nat /\ \A t \in Busy : t \in Threads /\ d0[t] \in Desc
        /\ q.next = next /\ q.flags = flags
    BY <2>1, Types DEF q
  <2>4. FreeSet = {s[i] : i \in 0 .. nfree - 1}
    <3>1. CASE nfree = 0
      <4>1. 0 .. nfree - 1 = {}
        BY <3>1
      <4> QED BY <4>1 DEF FreeSet
    <3>2. CASE nfree # 0
      <4>1. nfree - 1 \in 0 .. NQUEUE /\ (nfree - 1) - 1 = nfree - 2
        BY <2>3, <3>2
      <4>2. \A i \in 0 .. nfree - 2 : next[s[i]] = s[i + 1]
        BY <2>2 DEF FreeList
      <4>3. s[0] = free_head
        BY <2>2, <2>3, <3>2 DEF FreeList
      <4>4. \A i \in 0 .. nfree - 1 : Link(q, s[0])[i] = s[i]
        <5>1. \A i \in 0 .. (nfree - 1) - 1 : q.next[s[i]] = s[i + 1]
          BY <2>3, <4>1, <4>2
        <5>2. PICK m \in 0 .. NQUEUE : m = nfree - 1
          BY <4>1
        <5>3. s \in [0 .. m -> Desc] /\ \A i \in 0 .. m - 1 : q.next[s[i]] = s[i + 1]
          BY <5>1, <5>2
        <5> HIDE DEF q
        <5>4. \A i \in 0 .. m : Link(q, s[0])[i] = s[i]
          BY <2>3, <5>3, LinkIs
        <5> QED BY <5>2, <5>4
      <4> QED BY <4>3, <4>4 DEF FreeSet
    <3> QED BY <3>1, <3>2
  <2>5. Cardinality(FreeSet) = nfree
    <3> DEFINE S == 0 .. nfree - 1
    <3>1. IsFiniteSet(S) /\ Cardinality(S) = nfree
      BY <2>3, FS_Interval
    <3>2. s \in Bijection(S, FreeSet)
      <4>1. \A i, j \in S : s[i] = s[j] => i = j
        BY <2>2 DEF FreeList
      <4>2. s \in [S -> FreeSet]
        BY <2>4
      <4>3. \A e \in FreeSet : \E i \in S : s[i] = e
        BY <2>4
      <4> HIDE DEF S
      <4>4. s \in Injection(S, FreeSet)
        BY <4>1, <4>2 DEF Injection, IsInjective
      <4>5. s \in Surjection(S, FreeSet)
        BY <4>2, <4>3 DEF Surjection
      <4> QED BY <4>4, <4>5 DEF Bijection
    <3> HIDE DEF S
    <3> QED BY <3>1, <3>2, FS_Bijection DEF ExistsBijection
  <2>6. nfree + 3 * Cardinality(Busy) = NQUEUE
    BY <2>1 DEF FreeInv
  <2>7. ASSUME NEW t \in Busy
        PROVE  /\ Chain(q, d0[t]) = Trio(d0[t])
               /\ Cardinality(Chain(q, d0[t])) = 3
               /\ Chain(q, d0[t]) \cap FreeSet = {}
    <3>1. /\ flags[d0[t]] /\ flags[next[d0[t]]] /\ ~flags[next[next[d0[t]]]]
          /\ d0[t] # next[d0[t]]
          /\ next[next[d0[t]]] \notin {d0[t], next[d0[t]]}
      BY <2>1 DEF ChainInv
    <3>2. IsFiniteSet(Busy) /\ Cardinality(Busy) \in Nat
      BY ThreadsAssumption, FS_Subset, FS_CardinalityType DEF Busy
    <3>3. Cardinality(Busy) # 0
      BY <3>2, FS_EmptySet
    <3>4. NQUEUE >= 3
      BY <2>3, <2>6, <3>2, <3>3
    <3>5. Chain(q, d0[t]) = Trio(d0[t])
      BY <2>1, <2>3, <3>1, <3>4, FreeIs
    <3>6. Cardinality({d0[t], next[d0[t]], next[next[d0[t]]]}) = 3
      <4> DEFINE a == d0[t]
                 b == next[d0[t]]
                 c == next[next[d0[t]]]
      <4>1. a # b /\ c # a /\ c # b
        BY <3>1
      <4> HIDE DEF a, b, c
      <4>2. IsFiniteSet({a}) /\ Cardinality({a}) = 1
        BY FS_Singleton
      <4>3. IsFiniteSet({a} \cup {b}) /\ Cardinality({a} \cup {b}) = 2
        <5>1. b \notin {a}
          BY <4>1
        <5>2. /\ IsFiniteSet({a} \cup {b})
              /\ Cardinality({a} \cup {b}) = Cardinality({a}) + 1
          BY <4>2, <5>1, FS_AddElement, Zenon
        <5>3. Cardinality({a} \cup {b}) = 1 + 1
          BY <4>2, <5>2, Zenon
        <5> QED BY <5>2, <5>3, 1 + 1 = 2, Zenon
      <4>4. Cardinality(({a} \cup {b}) \cup {c}) = 3
        <5>1. c \notin {a} \cup {b}
          BY <4>1
        <5>2. Cardinality(({a} \cup {b}) \cup {c}) = Cardinality({a} \cup {b}) + 1
          BY <4>3, <5>1, FS_AddElement, Zenon
        <5>3. Cardinality(({a} \cup {b}) \cup {c}) = 2 + 1
          BY <4>3, <5>2, Zenon
        <5> QED BY <5>3, 2 + 1 = 3, Zenon
      <4>5. ({a} \cup {b}) \cup {c} = {a, b, c}
        OBVIOUS
      <4> QED BY <4>4, <4>5 DEF a, b, c
    <3>7. Trio(d0[t]) \cap FreeSet = {}
      BY <2>2, <2>4 DEF FreeList
    <3> QED BY <3>5, <3>6, <3>7 DEF Trio
  <2>8. \A t, u \in Busy : t # u => Trio(d0[t]) \cap Trio(d0[u]) = {}
    BY <2>1 DEF ChainInv
  <2> QED BY <2>5, <2>6, <2>7, <2>8 DEF FreeListSound
<1> QED BY <1>1, QueueInvariant, PTL

\* An operation is done only when the device has finished that very request, in
\* whatever order requests finish, descriptors are reused and indices wrap.
THEOREM OnlyServedReturn == Spec => []ReturnsServed
<1>1. QueueInv => ReturnsServed
  <2> SUFFICES ASSUME QueueInv, NEW t \in Threads, pc[t] # "idle", done[d0[t]]
               PROVE  served[t]
    BY DEF ReturnsServed
  <2>1. t \in Busy /\ d0[t] \in Finished
    BY Types DEF QueueInv, Busy, Finished
  <2>2. PICK na \in 0 .. NQUEUE, nu \in 0 .. NQUEUE : PlacesOk(na, nu)
    BY DEF QueueInv, PlaceInv
  <2> QED BY <2>1, <2>2 DEF PlacesOk, Placed
<1> QED BY <1>1, QueueInvariant, PTL

\* No caller sleeps when its request is done, and the handler finds the buffer of each
\* one that sleeps: virtio_blk_op() leaves it in info[] before it gives up disk.lk.
THEOREM SleeperWoken == Spec => []WakeInv
<1>1. QueueInv => WakeInv
  BY DEF QueueInv
<1> QED BY <1>1, QueueInvariant, PTL

\* alloc_desc() does not run out of descriptors, if there are three for every caller.
THEOREM QueueSuffices ==
  ASSUME 3 * Cardinality(Threads) <= NQUEUE PROVE Spec => []~panic
<1>1. Init => ~panic
  BY DEF Init
<1>2. QueueInv /\ ~panic /\ [Next]_vars => ~panic'
  <2> SUFFICES ASSUME QueueInv, ~panic, [Next]_vars PROVE ~panic'
    OBVIOUS
  <2>1. ASSUME NEW t \in Threads, OpKokatu(t) PROVE FALSE
    <3>1. t \notin Busy /\ nfree < 3 /\ Busy \cup {t} \subseteq Threads
      BY <2>1 DEF OpKokatu, Busy
    <3>2. IsFiniteSet(Busy) /\ Cardinality(Busy) \in Nat
      BY ThreadsAssumption, FS_Subset, FS_CardinalityType DEF Busy
    <3>3. Cardinality(Busy \cup {t}) = Cardinality(Busy) + 1
      BY <3>1, <3>2, FS_AddElement
    <3>4. /\ Cardinality(Busy \cup {t}) <= Cardinality(Threads)
          /\ Cardinality(Threads) \in Nat
      BY <3>1, ThreadsAssumption, FS_Subset, FS_CardinalityType
    <3>5. nfree \in Nat /\ nfree + 3 * Cardinality(Busy) = NQUEUE /\ NQUEUE \in Nat
      BY Types DEF QueueInv, FreeInv
    <3> QED BY <3>1, <3>2, <3>3, <3>4, <3>5
  <2>2. CASE UNCHANGED panic
    BY <2>2
  <2> QED
    BY <2>1, <2>2
    DEF Next, OpStep, DevStep, IntrStep, OpAlloc, OpPublish, OpNotify, OpSleep, OpAwake,
        OpReturn, DevFetch, DevFinish, IntrEnter, IntrAck, IntrUsed, IntrLeave, vars
<1> QED BY <1>1, <1>2, QueueInvariant, PTL DEF Spec
=============================================================================
