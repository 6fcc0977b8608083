---------------------------- MODULE BcacheProofs ----------------------------
(***************************************************************************)
(* Theorems about Bcache: the inductive invariant CacheInv and the four    *)
(* properties of the buffer cache that follow from it.                     *)
(***************************************************************************)
EXTENDS Bcache, FiniteSetTheorems, WellFoundedInduction, TLAPS

\* The users of buffer i.
UsersOf(i) == {u \in Users : Holds(u) /\ b[u] = i}

\* A user's buffer stays the buffer of the block it asked for.
KeepsBlock == \A u \in Users : Holds(u) => bno[b[u]] = want[u]

\* No two buffers are for the same block, block 0 aside.
OneBuf == \A i, j \in Bufs : bno[i] = bno[j] /\ bno[i] # 0 => i = j

\* bio_free() has cleared a buffer that nobody uses.
FreeClean == \A i \in Bufs : ref[i] = 0 => ~valid[i]

\* The buffer holds everything that is on its block, and nothing else than
\* changes of that block.
Good(i) ==
    /\ disk[bno[i]] \subseteq data[i]
    /\ \A c \in data[i] : c[1] = bno[i]

\* The data of a buffer is good once a transfer into it has ended.
GoodData ==
    /\ \A i \in Bufs : valid[i] /\ bno[i] # 0 => Good(i)
    /\ \A u \in Users : (Using(u) \/ pc[u] = "read") /\ want[u] # 0 => Good(b[u])
    /\ \A n \in Blocks \ {0} : \A c \in disk[n] : c[1] = n

CacheInv ==
    TypeOK /\ RefExact /\ KeepsBlock /\ OneBuf /\ FreeClean /\ GoodData

-----------------------------------------------------------------------------
\* Min picks an element of every non-empty set of naturals.
LEMMA MinIn ==
  ASSUME NEW S \in SUBSET Nat, S # {}
  PROVE  Min(S) \in S
<1> DEFINE R == {p \in Nat \X Nat : p[1] < p[2]}
<1>1. IsWellFoundedOn(R, Nat)
  BY NatLessThanWellFounded DEF OpToRel
<1> HIDE DEF R
<1>2. PICK x \in S : \A y \in S : ~ (<<y, x>> \in R)
  BY <1>1, WFMin
<1>3. ASSUME NEW y \in S PROVE x =< y
  <2>1. x \in Nat /\ y \in Nat
    OBVIOUS
  <2>2. y < x => <<y, x>> \in R
    BY <2>1 DEF R
  <2> QED BY <1>2, <2>1, <2>2
<1> QED BY <1>3 DEF Min

\* A search of get_buf() ends at a buffer that satisfies its test.
LEMMA FirstBuf ==
  /\ \A n : Cached(n) # {} => Min(Cached(n)) \in Cached(n)
  /\ Unused # {} => Min(Unused) \in Unused
<1>1. Bufs \subseteq Nat
  BY NBUFAssumption DEF Bufs
<1>2. Unused \in SUBSET Nat /\ \A n : Cached(n) \in SUBSET Nat
  BY <1>1 DEF Unused, Cached
<1> QED BY <1>2, MinIn

\* The users of a buffer, and how they change.
LEMMA CountFacts ==
  ASSUME RefExact, NEW i \in Bufs
  PROVE  /\ IsFiniteSet(UsersOf(i)) /\ ref[i] = Cardinality(UsersOf(i))
         /\ ref[i] \in 0 .. Cardinality(Users)
         /\ ref[i] = 0 => UsersOf(i) = {}
         /\ \A u \in UsersOf(i) : ref[i] # 0 /\ (ref[i] = 1 => UsersOf(i) = {u})
<1>1. UsersOf(i) \subseteq Users
  BY DEF UsersOf
<1>2. /\ IsFiniteSet(UsersOf(i)) /\ ref[i] = Cardinality(UsersOf(i))
      /\ Cardinality(UsersOf(i)) =< Cardinality(Users)
  BY <1>1, UsersAssumption, FS_Subset DEF RefExact, UsersOf
<1>3. /\ Cardinality(Users) \in Nat /\ Cardinality(UsersOf(i)) \in Nat
      /\ Cardinality(UsersOf(i)) = 0 => UsersOf(i) = {}
  BY <1>2, UsersAssumption, FS_CardinalityType, FS_EmptySet
<1>4. ASSUME NEW u \in UsersOf(i)
      PROVE  ref[i] # 0 /\ (ref[i] = 1 => UsersOf(i) = {u})
  <2>1. ref[i] # 0
    BY <1>2, <1>4, FS_EmptySet
  <2>2. ASSUME ref[i] = 1 PROVE UsersOf(i) = {u}
    <3>1. PICK v : UsersOf(i) = {v}
      BY <1>2, <2>2, FS_Singleton
    <3> QED BY <3>1, <1>4
  <2> QED BY <2>1, <2>2
<1> QED BY <1>2, <1>3, <1>4

\* get_buf() and bio_dup() add one user and one reference.
LEMMA AddUser ==
  ASSUME TypeOK, RefExact, NEW u \in Users, pc[u] = "idle", NEW i \in Bufs,
         NEW to \in {"check", "got"}, pc' = [pc EXCEPT ![u] = to],
         b' = [b EXCEPT ![u] = i], ref' = [ref EXCEPT ![i] = ref[i] + 1]
  PROVE  RefExact'
<1> SUFFICES ASSUME NEW j \in Bufs PROVE ref'[j] = Cardinality(UsersOf(j)')
  BY DEF RefExact, UsersOf
<1>1. \A v \in Users : v \in UsersOf(j)' <=> v \in UsersOf(j) \/ (v = u /\ j = i)
  BY DEF UsersOf, Holds, TypeOK
<1>2. UsersOf(j)' \subseteq Users /\ UsersOf(j) \subseteq Users
  BY DEF UsersOf
<1>3. IsFiniteSet(UsersOf(j)) /\ ref[j] = Cardinality(UsersOf(j)) /\ u \notin UsersOf(j)
  BY CountFacts DEF UsersOf, Holds
<1>4. CASE j = i
  <2>1. UsersOf(j)' = UsersOf(j) \cup {u}
    BY <1>1, <1>2, <1>4
  <2>2. Cardinality(UsersOf(j)') = Cardinality(UsersOf(j)) + 1
    BY <2>1, <1>3, FS_AddElement
  <2> QED BY <2>2, <1>3, <1>4 DEF TypeOK
<1>5. CASE j # i
  <2>1. UsersOf(j)' = UsersOf(j)
    BY <1>1, <1>2, <1>5
  <2> QED BY <2>1, <1>3, <1>5 DEF TypeOK
<1> QED BY <1>4, <1>5

\* bio_free() takes away one user and one reference.
LEMMA DropUser ==
  ASSUME TypeOK, RefExact, NEW u \in Users, Holds(u),
         pc' = [pc EXCEPT ![u] = "idle"], b' = [b EXCEPT ![u] = NoBuf],
         ref' = [ref EXCEPT ![b[u]] = ref[b[u]] - 1]
  PROVE  RefExact'
<1> SUFFICES ASSUME NEW j \in Bufs PROVE ref'[j] = Cardinality(UsersOf(j)')
  BY DEF RefExact, UsersOf
<1>1. \A v \in Users : v \in UsersOf(j)' <=> v \in UsersOf(j) /\ v # u
  BY DEF UsersOf, Holds, TypeOK
<1>2. UsersOf(j)' \subseteq Users /\ UsersOf(j) \subseteq Users
  BY DEF UsersOf
<1>3. IsFiniteSet(UsersOf(j)) /\ ref[j] = Cardinality(UsersOf(j))
  BY CountFacts
<1>4. CASE j = b[u]
  <2>1. UsersOf(j)' = UsersOf(j) \ {u} /\ u \in UsersOf(j)
    BY <1>1, <1>2, <1>4 DEF UsersOf
  <2> QED BY <2>1, <1>3, <1>4, FS_RemoveElement DEF TypeOK
<1>5. CASE j # b[u]
  <2>1. UsersOf(j)' = UsersOf(j)
    BY <1>1, <1>2, <1>5 DEF UsersOf
  <2> QED BY <2>1, <1>3, <1>5 DEF TypeOK
<1> QED BY <1>4, <1>5

\* Every other step leaves the users of the buffers alone.
LEMMA SameUsers ==
  ASSUME RefExact, UNCHANGED <<ref, b>>, \A v \in Users : Holds(v)' <=> Holds(v)
  PROVE  RefExact'
<1> SUFFICES ASSUME NEW j \in Bufs PROVE ref'[j] = Cardinality(UsersOf(j)')
  BY DEF RefExact, UsersOf
<1>1. UsersOf(j)' = UsersOf(j)
  BY DEF UsersOf
<1> QED BY <1>1 DEF RefExact, UsersOf

\* Every step keeps the reference counts exact.
LEMMA RefExactStep ==
  ASSUME CacheInv, [Next]_vars
  PROVE  RefExact'
<1> USE DEF CacheInv, At, cache
<1>1. ASSUME NEW u \in Users, NEW n \in Blocks, GetBuf(u, n) PROVE RefExact'
  <2>1. CASE Cached(n) # {}
    <3> DEFINE i == Min(Cached(n))
    <3>1. i \in Bufs /\ Hit(u, n, i)
      BY <1>1, <2>1, FirstBuf DEF GetBuf, Cached
    <3> HIDE DEF i
    <3> QED BY <1>1, <3>1, AddUser DEF GetBuf, Hit
  <2>2. CASE Cached(n) = {}
    <3> DEFINE i == Min(Unused)
    <3>1. i \in Bufs /\ Take(u, n, i) /\ ref[i] = 0
      BY <1>1, <2>2, FirstBuf DEF GetBuf, Unused
    <3> HIDE DEF i
    <3>2. ref' = [ref EXCEPT ![i] = ref[i] + 1]
      BY <3>1 DEF Take
    <3> QED BY <1>1, <3>1, <3>2, AddUser DEF GetBuf, Take
  <2> QED BY <2>1, <2>2
<1>2. ASSUME NEW u \in Users, NEW n \in Blocks, GetBufPanic(u, n) PROVE RefExact'
  <2>1. UNCHANGED <<ref, b>> /\ \A v \in Users : Holds(v)' <=> Holds(v)
    BY <1>2 DEF GetBufPanic, Holds
  <2> QED BY <2>1, SameUsers
<1>3. ASSUME NEW u \in Users, Check(u) PROVE RefExact'
  <2>1. UNCHANGED <<ref, b>> /\ \A v \in Users : Holds(v)' <=> Holds(v)
    BY <1>3 DEF Check, Holds
  <2> QED BY <2>1, SameUsers
<1>4. ASSUME NEW u \in Users, Transfer(u) PROVE RefExact'
  <2>1. UNCHANGED <<ref, b>> /\ \A v \in Users : Holds(v)' <=> Holds(v)
    BY <1>4 DEF Transfer, Holds
  <2> QED BY <2>1, SameUsers
<1>5. ASSUME NEW u \in Users, ReadReturn(u) PROVE RefExact'
  <2>1. UNCHANGED <<ref, b>> /\ \A v \in Users : Holds(v)' <=> Holds(v)
    BY <1>5 DEF ReadReturn, Holds
  <2> QED BY <2>1, SameUsers
<1>6. ASSUME NEW u \in Users, Change(u) PROVE RefExact'
  <2>1. UNCHANGED <<ref, b>> /\ \A v \in Users : Holds(v)' <=> Holds(v)
    BY <1>6 DEF Change, Holds
  <2> QED BY <2>1, SameUsers
<1>7. ASSUME NEW u \in Users, WriteStart(u) PROVE RefExact'
  <2>1. UNCHANGED <<ref, b>> /\ \A v \in Users : Holds(v)' <=> Holds(v)
    BY <1>7 DEF WriteStart, Holds
  <2> QED BY <2>1, SameUsers
<1>8. ASSUME NEW u \in Users, WriteTransfer(u) PROVE RefExact'
  <2>1. UNCHANGED <<ref, b>> /\ \A v \in Users : Holds(v)' <=> Holds(v)
    BY <1>8 DEF WriteTransfer, Holds
  <2> QED BY <2>1, SameUsers
<1>9. ASSUME NEW u \in Users, WriteReturn(u) PROVE RefExact'
  <2>1. UNCHANGED <<ref, b>> /\ \A v \in Users : Holds(v)' <=> Holds(v)
    BY <1>9 DEF WriteReturn, Holds
  <2> QED BY <2>1, SameUsers
<1>10. ASSUME NEW u \in Users, BioFree(u) PROVE RefExact'
  <2>1. Holds(u)
    BY <1>10 DEF BioFree, Holds
  <2> QED BY <1>10, <2>1, DropUser DEF BioFree, Drop
<1>11. ASSUME NEW u \in Users, NEW v \in Users, BioDup(u, v) PROVE RefExact'
  <2>1. b[u] \in Bufs
    BY <1>11 DEF BioDup, Holds, TypeOK
  <2> QED BY <1>11, <2>1, AddUser DEF BioDup
<1>12. CASE UNCHANGED vars
  <2>1. UNCHANGED <<ref, b>> /\ \A v \in Users : Holds(v)' <=> Holds(v)
    BY <1>12 DEF vars, local, Holds
  <2> QED BY <2>1, SameUsers
<1> QED BY <1>1, <1>2, <1>3, <1>4, <1>5, <1>6, <1>7, <1>8, <1>9, <1>10,
           <1>11, <1>12 DEF Next

\* Every step keeps the types; the count of a buffer is at most the users.
LEMMA TypeOKStep ==
  ASSUME CacheInv, [Next]_vars
  PROVE  TypeOK'
<1>a. RefExact'
  BY RefExactStep
<1>b. ASSUME ref' \in [Bufs -> Int] PROVE ref' \in [Bufs -> 0 .. Cardinality(Users)]
  <2> SUFFICES ASSUME NEW i \in Bufs PROVE ref'[i] \in 0 .. Cardinality(Users)
    BY <1>b
  <2>1. ref'[i] = Cardinality(UsersOf(i)') /\ UsersOf(i)' \subseteq Users
    BY <1>a DEF RefExact, UsersOf
  <2>2. /\ IsFiniteSet(UsersOf(i)') /\ Cardinality(UsersOf(i)') \in Nat
        /\ Cardinality(UsersOf(i)') =< Cardinality(Users) /\ Cardinality(Users) \in Nat
    BY <2>1, UsersAssumption, FS_Subset, FS_CardinalityType
  <2> QED BY <2>1, <2>2
<1>c. ref \in [Bufs -> Int]
  BY DEF CacheInv, TypeOK
<1> DEFINE Rest == /\ ref' \in [Bufs -> Int]
                   /\ bno' \in [Bufs -> Blocks \cup {0}] /\ valid' \in [Bufs -> BOOLEAN]
                   /\ data' \in [Bufs -> Content] /\ disk' \in [Blocks -> Content]
                   /\ pc' \in [Users -> {"idle", "check", "reading", "read",
                                         "got", "changed", "writing", "written"}]
                   /\ b' \in [Users -> Bufs \cup {NoBuf}]
                   /\ want' \in [Users -> Blocks \cup {0}]
                   /\ changes' \in 0 .. MaxChanges /\ panic' \in BOOLEAN
                   /\ \A w \in Users : Holds(w)' => b'[w] \in Bufs /\ want'[w] \in Blocks
<1>d. SUFFICES Rest
  BY <1>b DEF TypeOK, Holds
<1> USE <1>c DEF CacheInv, TypeOK, At, cache
<1>1. ASSUME NEW u \in Users, NEW n \in Blocks, GetBuf(u, n) PROVE Rest
  <2>1. CASE Cached(n) # {}
    <3> DEFINE i == Min(Cached(n))
    <3>1. i \in Bufs /\ Hit(u, n, i)
      BY <1>1, <2>1, FirstBuf DEF GetBuf, Cached
    <3> HIDE DEF i
    <3> QED BY <1>1, <3>1 DEF GetBuf, Hit, Holds
  <2>2. CASE Cached(n) = {}
    <3> DEFINE i == Min(Unused)
    <3>1. i \in Bufs /\ Take(u, n, i)
      BY <1>1, <2>2, FirstBuf DEF GetBuf, Unused
    <3> HIDE DEF i
    <3> QED BY <1>1, <3>1 DEF GetBuf, Take, Holds
  <2> QED BY <2>1, <2>2
<1>2. ASSUME NEW u \in Users, NEW n \in Blocks, GetBufPanic(u, n) PROVE Rest
  BY <1>2 DEF GetBufPanic, Holds
<1>3. ASSUME NEW u \in Users, Check(u) PROVE Rest
  BY <1>3 DEF Check, Holds
<1>4. ASSUME NEW u \in Users, Transfer(u) PROVE Rest
  BY <1>4 DEF Transfer, Holds
<1>5. ASSUME NEW u \in Users, ReadReturn(u) PROVE Rest
  BY <1>5 DEF ReadReturn, Holds
<1>6. ASSUME NEW u \in Users, Change(u) PROVE Rest
  <2>1. /\ b[u] \in Bufs /\ want[u] \in Blocks
        /\ changes' = changes + 1 /\ changes' \in 0 .. MaxChanges
    BY <1>6, MaxChangesAssumption DEF Change, Holds
  <2>2. data[b[u]] \cup {<<want[u], changes + 1>>} \in Content
    BY <2>1 DEF Content
  <2>3. data' \in [Bufs -> Content]
    BY <1>6, <2>1, <2>2 DEF Change
  <2> QED BY <1>6, <2>1, <2>3 DEF Change, Holds
<1>7. ASSUME NEW u \in Users, WriteStart(u) PROVE Rest
  BY <1>7 DEF WriteStart, Holds
<1>8. ASSUME NEW u \in Users, WriteTransfer(u) PROVE Rest
  BY <1>8 DEF WriteTransfer, Holds
<1>9. ASSUME NEW u \in Users, WriteReturn(u) PROVE Rest
  BY <1>9 DEF WriteReturn, Holds
<1>10. ASSUME NEW u \in Users, BioFree(u) PROVE Rest
  <2>1. b[u] \in Bufs /\ Drop(b[u])
    BY <1>10 DEF BioFree, Holds
  <2>2. ref' \in [Bufs -> Int]
    BY <2>1 DEF Drop
  <2>3. bno' \in [Bufs -> Blocks \cup {0}] /\ valid' \in [Bufs -> BOOLEAN]
    BY <2>1 DEF Drop
  <2>4. data' \in [Bufs -> Content]
    <3>1. {} \in Content
      BY DEF Content
    <3> QED BY <2>1, <3>1 DEF Drop
  <2> QED BY <1>10, <2>2, <2>3, <2>4 DEF BioFree, Holds
<1>11. ASSUME NEW u \in Users, NEW v \in Users, BioDup(u, v) PROVE Rest
  BY <1>11 DEF BioDup, Holds
<1>12. CASE UNCHANGED vars
  BY <1>12 DEF vars, local, Holds
<1> QED BY <1>1, <1>2, <1>3, <1>4, <1>5, <1>6, <1>7, <1>8, <1>9, <1>10,
           <1>11, <1>12 DEF Next

\* Every step keeps the numbers of the buffers.  get_buf() renames a buffer only
\* when its count says that it has no user, bio_free() clears it for the last one.
LEMMA BlockStep ==
  ASSUME CacheInv, [Next]_vars
  PROVE  KeepsBlock' /\ OneBuf' /\ FreeClean'
<1>a. TypeOK /\ RefExact
  BY DEF CacheInv
<1> USE <1>a DEF CacheInv, TypeOK, At, cache, KeepsBlock, OneBuf, FreeClean
<1>1. ASSUME NEW u \in Users, NEW n \in Blocks, GetBuf(u, n) PROVE KeepsBlock' /\ OneBuf' /\ FreeClean'
  <2>1. CASE Cached(n) # {}
    <3> DEFINE i == Min(Cached(n))
    <3>1. i \in Bufs /\ Hit(u, n, i) /\ bno[i] = n
      BY <1>1, <2>1, FirstBuf DEF GetBuf, Cached
    <3> HIDE DEF i
    <3> QED BY <1>1, <3>1 DEF GetBuf, Hit, Holds
  <2>2. CASE Cached(n) = {}
    <3> DEFINE i == Min(Unused)
    <3>1. i \in Bufs /\ Take(u, n, i) /\ ref[i] = 0
      BY <1>1, <2>2, FirstBuf DEF GetBuf, Unused
    <3>2. \A j \in Bufs : bno[j] # n
      BY <2>2 DEF Cached
    <3> HIDE DEF i
    <3>3. \A v \in Users : ~ (Holds(v) /\ b[v] = i)
      BY <3>1, CountFacts DEF UsersOf
    <3> QED BY <1>1, <3>1, <3>2, <3>3 DEF GetBuf, Take, Holds
  <2> QED BY <2>1, <2>2
<1>2. ASSUME NEW u \in Users, NEW n \in Blocks, GetBufPanic(u, n) PROVE KeepsBlock' /\ OneBuf' /\ FreeClean'
  BY <1>2 DEF GetBufPanic, Holds
<1>3. ASSUME NEW u \in Users, Check(u) PROVE KeepsBlock' /\ OneBuf' /\ FreeClean'
  BY <1>3 DEF Check, Holds
<1>4. ASSUME NEW u \in Users, Transfer(u) PROVE KeepsBlock' /\ OneBuf' /\ FreeClean'
  BY <1>4 DEF Transfer, Holds
<1>5. ASSUME NEW u \in Users, ReadReturn(u) PROVE KeepsBlock' /\ OneBuf' /\ FreeClean'
  <2>1. b[u] \in Bufs /\ Holds(u)
    BY <1>5 DEF ReadReturn, Holds
  <2>2. ref[b[u]] # 0
    BY <2>1, CountFacts DEF UsersOf
  <2> QED BY <1>5, <2>1, <2>2 DEF ReadReturn, Holds
<1>6. ASSUME NEW u \in Users, Change(u) PROVE KeepsBlock' /\ OneBuf' /\ FreeClean'
  BY <1>6 DEF Change, Holds
<1>7. ASSUME NEW u \in Users, WriteStart(u) PROVE KeepsBlock' /\ OneBuf' /\ FreeClean'
  BY <1>7 DEF WriteStart, Holds
<1>8. ASSUME NEW u \in Users, WriteTransfer(u) PROVE KeepsBlock' /\ OneBuf' /\ FreeClean'
  BY <1>8 DEF WriteTransfer, Holds
<1>9. ASSUME NEW u \in Users, WriteReturn(u) PROVE KeepsBlock' /\ OneBuf' /\ FreeClean'
  <2>1. b[u] \in Bufs /\ Holds(u)
    BY <1>9 DEF WriteReturn, Holds
  <2>2. ref[b[u]] # 0
    BY <2>1, CountFacts DEF UsersOf
  <2> QED BY <1>9, <2>1, <2>2 DEF WriteReturn, Holds
<1>10. ASSUME NEW u \in Users, BioFree(u) PROVE KeepsBlock' /\ OneBuf' /\ FreeClean'
  <2>1. b[u] \in Bufs /\ Drop(b[u]) /\ Holds(u) /\ pc' = [pc EXCEPT ![u] = "idle"]
    BY <1>10 DEF BioFree, Holds
  <2>2. \A v \in Users : Holds(v) /\ v # u /\ b[v] = b[u] => ref[b[u]] # 1
    <3>1. u \in UsersOf(b[u])
      BY <2>1 DEF UsersOf
    <3>2. ref[b[u]] = 1 => UsersOf(b[u]) = {u}
      BY <2>1, <3>1, CountFacts
    <3> QED BY <3>2 DEF UsersOf
  <2>3. KeepsBlock'
    BY <1>10, <2>1, <2>2 DEF BioFree, Drop, Holds
  <2>4. OneBuf'
    BY <2>1 DEF Drop
  <2>5. FreeClean'
    BY <2>1 DEF Drop
  <2> QED BY <2>3, <2>4, <2>5
<1>11. ASSUME NEW u \in Users, NEW v \in Users, BioDup(u, v) PROVE KeepsBlock' /\ OneBuf' /\ FreeClean'
  <2>1. b[u] \in Bufs /\ Holds(u)
    BY <1>11 DEF BioDup, Holds
  <2> QED BY <1>11, <2>1 DEF BioDup, Holds
<1>12. CASE UNCHANGED vars
  BY <1>12 DEF vars, local, Holds
<1> QED BY <1>1, <1>2, <1>3, <1>4, <1>5, <1>6, <1>7, <1>8, <1>9, <1>10,
           <1>11, <1>12 DEF Next

\* Every step keeps the data of the buffers good.  Two reads of one buffer may
\* overlap: the second one fetches what the users of the first have written.
LEMMA GoodDataStep ==
  ASSUME CacheInv, [Next]_vars
  PROVE  GoodData'
<1> DEFINE G1 == \A i \in Bufs : valid[i] /\ bno[i] # 0 => Good(i)
<1> DEFINE G2 == \A u \in Users : (Using(u) \/ pc[u] = "read") /\ want[u] # 0 => Good(b[u])
<1> DEFINE G3 == \A n \in Blocks \ {0} : \A c \in disk[n] : c[1] = n
<1>a. TypeOK /\ RefExact /\ G1 /\ G2 /\ G3
  BY DEF CacheInv, GoodData
<1>b. SUFFICES G1' /\ G2' /\ G3'
  BY DEF GoodData
<1> USE <1>a DEF CacheInv, TypeOK, At, cache
<1>1. ASSUME NEW u \in Users, NEW n \in Blocks, GetBuf(u, n) PROVE G1' /\ G2' /\ G3'
  <2>1. CASE Cached(n) # {}
    <3> DEFINE i == Min(Cached(n))
    <3>1. i \in Bufs /\ Hit(u, n, i) /\ bno[i] = n
      BY <1>1, <2>1, FirstBuf DEF GetBuf, Cached
    <3> HIDE DEF i
    <3>2. UNCHANGED <<bno, valid, data, disk>> /\ pc' = [pc EXCEPT ![u] = "check"]
      BY <1>1, <3>1 DEF GetBuf, Hit
    <3>3. \A j : Good(j)' <=> Good(j)
      BY <3>2 DEF Good
    <3>4. \A v \in Users : Using(v)' \/ pc'[v] = "read" =>
             /\ Using(v) \/ pc[v] = "read"
             /\ b'[v] = b[v] /\ want'[v] = want[v]
      BY <1>1, <3>1, <3>2 DEF Hit, Using
    <3> QED BY <3>2, <3>3, <3>4
  <2>2. CASE Cached(n) = {}
    <3> DEFINE i == Min(Unused)
    <3>1. i \in Bufs /\ Take(u, n, i) /\ ref[i] = 0
      BY <1>1, <2>2, FirstBuf DEF GetBuf, Unused
    <3>2. \A j \in Bufs : bno[j] # n
      BY <2>2 DEF Cached
    <3> HIDE DEF i
    <3>3. ~valid[i] /\ \A v \in Users : ~ (Holds(v) /\ b[v] = i)
      BY <3>1, CountFacts DEF UsersOf, FreeClean
    <3>4. /\ bno' = [bno EXCEPT ![i] = n] /\ UNCHANGED <<valid, data, disk>>
          /\ pc' = [pc EXCEPT ![u] = "check"] /\ b' = [b EXCEPT ![u] = i]
          /\ want' = [want EXCEPT ![u] = n]
      BY <1>1, <3>1 DEF GetBuf, Take
    <3>5. \A j \in Bufs : j # i => (Good(j)' <=> Good(j))
      BY <3>1, <3>4 DEF Good
    <3>6. \A v \in Users : Using(v)' \/ pc'[v] = "read" => v # u /\ Holds(v) /\ b[v] # i
      BY <3>3, <3>4 DEF Using, Holds
    <3>7. G1'
      BY <3>1, <3>3, <3>4, <3>5
    <3>8. G2'
      BY <3>4, <3>5, <3>6 DEF Using, Holds
    <3>9. G3'
      BY <3>4
    <3> QED BY <3>7, <3>8, <3>9
  <2> QED BY <2>1, <2>2
<1>2. ASSUME NEW u \in Users, NEW n \in Blocks, GetBufPanic(u, n) PROVE G1' /\ G2' /\ G3'
  BY <1>2 DEF GetBufPanic, Using, Good
<1>3. ASSUME NEW u \in Users, Check(u) PROVE G1' /\ G2' /\ G3'
  <2>1. b[u] \in Bufs /\ bno[b[u]] = want[u]
    BY <1>3 DEF Check, Holds, KeepsBlock
  <2> QED BY <1>3, <2>1 DEF Check, Using, Good
<1>4. ASSUME NEW u \in Users, Transfer(u) PROVE G1' /\ G2' /\ G3'
  <2>1. b[u] \in Bufs /\ bno[b[u]] = want[u] /\ want[u] \in Blocks
    BY <1>4 DEF Transfer, Holds, KeepsBlock
  <2>2. /\ data' = [data EXCEPT ![b[u]] = disk[want[u]]]
        /\ pc' = [pc EXCEPT ![u] = "read"] /\ UNCHANGED <<bno, valid, disk, b, want>>
    BY <1>4 DEF Transfer
  <2>3. \A j \in Bufs : bno[j] # 0 /\ (j = b[u] \/ Good(j)) => Good(j)'
    BY <2>1, <2>2 DEF Good
  <2>4. G1' /\ G3'
    BY <2>2, <2>3
  <2>5. \A v \in Users : Using(v)' \/ pc'[v] = "read" =>
           Holds(v) /\ (v = u \/ Using(v) \/ pc[v] = "read")
    BY <1>4, <2>2 DEF Transfer, Using, Holds
  <2>6. G2'
    BY <2>1, <2>2, <2>3, <2>5 DEF KeepsBlock
  <2> QED BY <2>4, <2>6
<1>5. ASSUME NEW u \in Users, ReadReturn(u) PROVE G1' /\ G2' /\ G3'
  <2>1. b[u] \in Bufs /\ bno[b[u]] = want[u]
    BY <1>5 DEF ReadReturn, Holds, KeepsBlock
  <2>2. /\ valid' = [valid EXCEPT ![b[u]] = TRUE]
        /\ pc[u] = "read" /\ pc' = [pc EXCEPT ![u] = "got"]
        /\ UNCHANGED <<bno, data, disk, b, want>>
    BY <1>5 DEF ReadReturn
  <2>3. want[u] # 0 => Good(b[u])
    BY <2>2 DEF Using
  <2>4. \A j \in Bufs : Good(j)' <=> Good(j)
    BY <2>2 DEF Good
  <2>5. G1' /\ G3'
    BY <2>1, <2>2, <2>3, <2>4
  <2>6. \A v \in Users : Using(v)' \/ pc'[v] = "read" => Using(v) \/ pc[v] = "read"
    BY <2>2 DEF Using
  <2>7. \A v \in Users : Using(v) \/ pc[v] = "read" => b[v] \in Bufs
    BY DEF Using, Holds
  <2>8. G2'
    BY <2>2, <2>4, <2>6, <2>7
  <2> QED BY <2>5, <2>8
<1>6. ASSUME NEW u \in Users, Change(u) PROVE G1' /\ G2' /\ G3'
  <2>1. b[u] \in Bufs /\ bno[b[u]] = want[u]
    BY <1>6 DEF Change, Holds, KeepsBlock
  <2>2. /\ data' = [data EXCEPT ![b[u]] = data[b[u]] \cup {<<want[u], changes + 1>>}]
        /\ pc' = [pc EXCEPT ![u] = "changed"] /\ pc[u] = "got"
        /\ UNCHANGED <<bno, valid, disk, b, want>>
    BY <1>6 DEF Change
  <2>3. \A j \in Bufs : Good(j) => Good(j)'
    BY <2>1, <2>2 DEF Good
  <2>4. G1' /\ G3'
    BY <2>2, <2>3
  <2>5. \A v \in Users : Using(v)' \/ pc'[v] = "read" => Using(v) \/ pc[v] = "read"
    BY <2>2 DEF Using
  <2>6. \A v \in Users : Using(v) \/ pc[v] = "read" => b[v] \in Bufs
    BY DEF Using, Holds
  <2>7. G2'
    BY <2>2, <2>3, <2>5, <2>6
  <2> QED BY <2>4, <2>7
<1>7. ASSUME NEW u \in Users, WriteStart(u) PROVE G1' /\ G2' /\ G3'
  BY <1>7 DEF WriteStart, Using, Good
<1>8. ASSUME NEW u \in Users, WriteTransfer(u) PROVE G1' /\ G2' /\ G3'
  <2>1. b[u] \in Bufs /\ bno[b[u]] = want[u] /\ want[u] \in Blocks
    BY <1>8 DEF WriteTransfer, Holds, KeepsBlock
  <2>2. /\ disk' = [disk EXCEPT ![want[u]] = data[b[u]]]
        /\ pc' = [pc EXCEPT ![u] = "written"] /\ pc[u] = "writing"
        /\ UNCHANGED <<bno, valid, data, b, want>>
    BY <1>8, <2>1 DEF WriteTransfer
  <2>3. want[u] # 0 => Good(b[u])
    BY <2>2 DEF Using
  <2>4. \A j \in Bufs : bno[j] # 0 /\ Good(j) => Good(j)'
    BY <2>1, <2>2 DEF Good, OneBuf
  <2>5. G1'
    BY <2>2, <2>4
  <2>6. G3'
    BY <2>1, <2>2, <2>3 DEF Good
  <2>7. \A v \in Users : Using(v)' \/ pc'[v] = "read" =>
           Holds(v) /\ (Using(v) \/ pc[v] = "read")
    BY <2>2 DEF Using, Holds
  <2>8. G2'
    BY <2>2, <2>4, <2>7 DEF KeepsBlock
  <2> QED BY <2>5, <2>6, <2>8
<1>9. ASSUME NEW u \in Users, WriteReturn(u) PROVE G1' /\ G2' /\ G3'
  <2>1. b[u] \in Bufs /\ bno[b[u]] = want[u]
    BY <1>9 DEF WriteReturn, Holds, KeepsBlock
  <2>2. /\ valid' = [valid EXCEPT ![b[u]] = TRUE]
        /\ pc[u] = "written" /\ pc' = [pc EXCEPT ![u] = "got"]
        /\ UNCHANGED <<bno, data, disk, b, want>>
    BY <1>9 DEF WriteReturn
  <2>3. want[u] # 0 => Good(b[u])
    BY <2>2 DEF Using
  <2>4. \A j \in Bufs : Good(j)' <=> Good(j)
    BY <2>2 DEF Good
  <2>5. G1' /\ G3'
    BY <2>1, <2>2, <2>3, <2>4
  <2>6. \A v \in Users : Using(v)' \/ pc'[v] = "read" => Using(v) \/ pc[v] = "read"
    BY <2>2 DEF Using
  <2>7. \A v \in Users : Using(v) \/ pc[v] = "read" => b[v] \in Bufs
    BY DEF Using, Holds
  <2>8. G2'
    BY <2>2, <2>4, <2>6, <2>7
  <2> QED BY <2>5, <2>8
<1>10. ASSUME NEW u \in Users, BioFree(u) PROVE G1' /\ G2' /\ G3'
  <2>1. /\ b[u] \in Bufs /\ Drop(b[u]) /\ Holds(u) /\ pc' = [pc EXCEPT ![u] = "idle"]
        /\ b' = [b EXCEPT ![u] = NoBuf] /\ want' = [want EXCEPT ![u] = 0] /\ UNCHANGED disk
    BY <1>10 DEF BioFree, Holds
  <2>2. \A v \in Users : Holds(v) /\ v # u /\ b[v] = b[u] => ref[b[u]] # 1
    <3>1. u \in UsersOf(b[u])
      BY <2>1 DEF UsersOf
    <3>2. ref[b[u]] = 1 => UsersOf(b[u]) = {u}
      BY <2>1, <3>1, CountFacts
    <3> QED BY <3>2 DEF UsersOf
  <2>3. \A j \in Bufs : j # b[u] \/ ref[b[u]] # 1 =>
           bno'[j] = bno[j] /\ valid'[j] = valid[j] /\ (Good(j)' <=> Good(j))
    BY <2>1 DEF Drop, Good
  <2>4. ref[b[u]] = 1 => bno'[b[u]] = 0
    BY <2>1 DEF Drop
  <2>5. G1'
    BY <2>3, <2>4
  <2>6. G3'
    BY <2>1
  <2>7. \A v \in Users : Using(v)' \/ pc'[v] = "read" =>
           /\ v # u /\ Holds(v) /\ b'[v] = b[v] /\ want'[v] = want[v] /\ b[v] \in Bufs
           /\ Using(v) \/ pc[v] = "read"
    BY <2>1 DEF Using, Holds
  <2>8. G2'
    BY <2>2, <2>3, <2>7
  <2> QED BY <2>5, <2>6, <2>8
<1>11. ASSUME NEW u \in Users, NEW v \in Users, BioDup(u, v) PROVE G1' /\ G2' /\ G3'
  <2>1. b[u] \in Bufs /\ bno[b[u]] = want[u]
    BY <1>11 DEF BioDup, Holds, KeepsBlock
  <2> QED BY <1>11, <2>1 DEF BioDup, Using, Good
<1>12. CASE UNCHANGED vars
  BY <1>12 DEF vars, local, Using, Good
<1> QED BY <1>1, <1>2, <1>3, <1>4, <1>5, <1>6, <1>7, <1>8, <1>9, <1>10,
           <1>11, <1>12 DEF Next

\* Initially no buffer is in use.
LEMMA InitInv == Init => CacheInv
<1> SUFFICES ASSUME Init PROVE CacheInv
  OBVIOUS
<1>1. Cardinality(Users) \in Nat /\ Cardinality({}) = 0
  BY UsersAssumption, FS_CardinalityType, FS_EmptySet
<1>2. TypeOK
  <2>1. {} \in Content /\ \A n \in Blocks : {<<n, 0>>} \in Content
    BY MaxChangesAssumption DEF Content
  <2>2. data \in [Bufs -> Content] /\ disk \in [Blocks -> Content]
    BY <2>1 DEF Init
  <2>3. bno \in [Bufs -> Blocks \cup {0}] /\ valid \in [Bufs -> BOOLEAN]
    BY DEF Init
  <2>4. ref \in [Bufs -> 0 .. Cardinality(Users)]
    <3>1. 0 \in 0 .. Cardinality(Users)
      BY <1>1
    <3> QED BY <3>1 DEF Init
  <2>5. changes \in 0 .. MaxChanges
    <3>1. changes = 0
      BY DEF Init
    <3> QED BY <3>1, MaxChangesAssumption
  <2>6. panic \in BOOLEAN
    BY DEF Init
  <2> QED BY <2>2, <2>3, <2>4, <2>5, <2>6 DEF Init, TypeOK, Holds
<1>3. RefExact
  <2>1. \A i \in Bufs : {u \in Users : Holds(u) /\ b[u] = i} = {}
    BY DEF Init, Holds
  <2> QED BY <1>1, <2>1 DEF Init, RefExact
<1>4. KeepsBlock /\ OneBuf /\ FreeClean /\ GoodData
  BY DEF Init, KeepsBlock, OneBuf, FreeClean, GoodData, Holds, Using, Good
<1> QED BY <1>2, <1>3, <1>4 DEF CacheInv

\* The parts of CacheInv are preserved together by every operation of the cache.
THEOREM CacheInvariant == Spec => []CacheInv
<1>1. CacheInv /\ [Next]_vars => CacheInv'
  BY TypeOKStep, RefExactStep, BlockStep, GoodDataStep DEF CacheInv
<1> QED BY <1>1, InitInv, PTL DEF Spec

\* All users of a block share one buffer, which stays the buffer of that block
\* while anyone uses it, for any number of buffers, blocks and users.
THEOREM OneBuffer == Spec => []OneBufPerBlock
<1>1. CacheInv => OneBufPerBlock
  BY DEF CacheInv, TypeOK, KeepsBlock, OneBuf, OneBufPerBlock
<1> QED BY <1>1, CacheInvariant, PTL

\* ref is the number of users of a buffer: bio_free() clears it for the last one.
THEOREM CountExact == Spec => []RefExact
<1>1. CacheInv => RefExact
  BY DEF CacheInv
<1> QED BY <1>1, CacheInvariant, PTL

\* bio_read() returns every change that has reached the disk, and only changes
\* of the block that was asked for.
THEOREM ReadsWrites == Spec => []SeesWrites
<1>1. CacheInv => SeesWrites
  BY DEF CacheInv, TypeOK, KeepsBlock, GoodData, Good, SeesWrites, Using, Holds
<1> QED BY <1>1, CacheInvariant, PTL

\* bio_write() never takes a change off the disk again.
THEOREM WritesStay == Spec => NoWriteUndone
<1>1. CacheInv /\ [Next]_vars => [\A n \in Blocks \ {0} : disk[n] \subseteq disk'[n]]_vars
  <2> SUFFICES ASSUME CacheInv, Next PROVE \A n \in Blocks \ {0} : disk[n] \subseteq disk'[n]
    OBVIOUS
  <2>1. ASSUME NEW u \in Users, WriteTransfer(u)
        PROVE  \A n \in Blocks \ {0} : disk[n] \subseteq disk'[n]
    <3>1. disk' = [disk EXCEPT ![bno[b[u]]] = data[b[u]]] /\ Using(u)
      BY <2>1 DEF WriteTransfer, At, Using
    <3>2. bno[b[u]] = want[u] /\ (want[u] # 0 => disk[bno[b[u]]] \subseteq data[b[u]])
      BY <3>1 DEF CacheInv, KeepsBlock, GoodData, Good, Using, Holds
    <3> QED BY <3>1, <3>2 DEF CacheInv, TypeOK
  <2>2. CASE UNCHANGED disk
    BY <2>2
  <2>3. UNCHANGED disk \/ \E u \in Users : WriteTransfer(u)
    BY DEF Next, GetBuf, GetBufPanic, Check, Transfer, ReadReturn, Change, WriteStart,
           WriteReturn, BioFree, BioDup
  <2> QED BY <2>1, <2>2, <2>3
<1> QED BY <1>1, CacheInvariant, PTL DEF Spec, NoWriteUndone

=============================================================================
