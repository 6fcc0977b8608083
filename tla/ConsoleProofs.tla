---------------------------- MODULE ConsoleProofs ---------------------------
(***************************************************************************)
(* PendingLine and StoresInside for every set of readers and of buffers,   *)
(* all sizes of reads, any FIFO and lines of any length: the memory behind *)
(* readbuf is the edited line, nobody sleeps on a finished one, and what   *)
(* is stored outside of a buffer is stored in the ways that are named.     *)
(*                                                                         *)
(* Edited is a recursive function of the line.  What it does with one more *)
(* character is proved by taking the least position at which two of these  *)
(* functions would differ.                                                 *)
(***************************************************************************)
EXTENDS Console, SequenceTheorems, WellFoundedInduction, TLAPS

LineType ==
    /\ readbuf \in Bufs \cup Wild \cup {NULL}
    /\ mem \in Seq(Chars) /\ typed \in Seq(Chars) /\ rx \in Seq(Chars)
    /\ bufc \in Nat /\ bufc <= Len(mem)
    /\ bufsz \in Nat
    /\ c \in Chars

\* Nobody sleeps on a line that has ended or on a full buffer.
NotDone ==
    /\ \A i \in 1 .. bufc : mem[i] # "LF"
    /\ bufsz > 0 => bufc < bufsz /\ Len(mem) <= bufsz

LineInv ==
    /\ LineType
    /\ state \in [Procs -> {"out", "SLEEPING", "RUNNABLE", "dead"}]
    /\ readbuf # NULL => /\ SubSeq(mem, 1, bufc) = Edited(typed)
                         /\ Asleep => NotDone

-----------------------------------------------------------------------------
(* Edited.                                                                 *)

\* A set of natural numbers has a least element.
LEMMA Least ==
  ASSUME NEW S \in SUBSET Nat, S # {}
  PROVE  \E x \in S : \A y \in S : x <= y
<1> DEFINE R == {p \in Nat \X Nat : p[1] < p[2]}
<1>1. IsWellFoundedOn(R, Nat)
  BY NatLessThanWellFounded DEF OpToRel
<1> HIDE DEF R
<1>2. PICK x \in S : \A y \in S : ~ (<<y, x>> \in R)
  BY <1>1, WFMin
<1>3. ASSUME NEW y \in S PROVE x <= y
  <2>1. x \in Nat /\ y \in Nat
    OBVIOUS
  <2>2. y < x => <<y, x>> \in R
    BY <2>1 DEF R
  <2> QED BY <1>2, <2>1, <2>2
<1> QED BY <1>3

LEMMA KeyedType ==
  ASSUME NEW l \in Seq(Chars), NEW ch \in Chars
  PROVE  Keyed(l, ch) \in Seq(Chars)
<1>1. "LF" \in Chars /\ Len(l) \in Nat /\ \A i \in 1 .. Len(l) : l[i] \in Chars
  BY LenProperties, ElementOfSeq DEF Chars
<1>2. /\ Append(l, "LF") \in Seq(Chars) /\ Append(l, ch) \in Seq(Chars)
  BY <1>1, AppendProperties
<1>3. SubSeq(l, 1, Len(l) - 1) \in Seq(Chars)
  <2>1. \A i \in 1 .. Len(l) - 1 : l[i] \in Chars
    BY <1>1
  <2> QED BY <1>1, <2>1, SubSeqProperties
<1> QED BY <1>2, <1>3 DEF Keyed

\* f lists what the first m characters of s make, one after the other.
Stages(f, s, m) == f[0] = <<>> /\ \A i \in 1 .. m : f[i] = Keyed(f[i - 1], s[i])

\* The local function of Edited.
After(s) ==
    CHOOSE f : f = [i \in 0 .. Len(s) |-> IF i = 0 THEN <<>> ELSE Keyed(f[i - 1], s[i])]

LEMMA StagesExist ==
  ASSUME NEW s \in Seq(Chars), NEW m \in 0 .. Len(s)
  PROVE  \E f \in [0 .. m -> Seq(Chars)] : Stages(f, s, m)
<1> DEFINE Bad == {k \in Nat : k <= Len(s)
                                /\ ~ \E f \in [0 .. k -> Seq(Chars)] : Stages(f, s, k)}
<1>0. Len(s) \in Nat /\ m \in Nat /\ <<>> \in Seq(Chars)
  BY LenProperties, EmptySeq
<1> SUFFICES ASSUME m \in Bad PROVE FALSE
  BY <1>0
<1>1. PICK k \in Bad : \A j \in Bad : k <= j
  BY Least
<1>2. CASE k = 0
  <2> DEFINE f == [i \in 0 .. 0 |-> <<>>]
  <2>1. f \in [0 .. 0 -> Seq(Chars)]
    BY <1>0
  <2>2. f[0] = <<>> /\ 1 .. 0 = {}
    OBVIOUS
  <2> HIDE DEF f
  <2>3. Stages(f, s, 0)
    BY <2>2 DEF Stages
  <2> QED BY <1>2, <2>1, <2>3
<1>3. CASE k # 0
  <2>1. k - 1 \in Nat /\ k - 1 \notin Bad /\ k - 1 <= Len(s) /\ k \in 1 .. Len(s)
    BY <1>0, <1>1, <1>3, SMTT(20)
  <2>2. PICK f \in [0 .. k - 1 -> Seq(Chars)] : Stages(f, s, k - 1)
    BY <2>1
  <2>3. f[k - 1] \in Seq(Chars) /\ s[k] \in Chars
    BY <2>1, ElementOfSeq
  <2>4. PICK e \in Seq(Chars) : e = Keyed(f[k - 1], s[k])
    BY <2>3, KeyedType
  <2> DEFINE g == [i \in 0 .. k |-> IF i = k THEN e ELSE f[i]]
  <2>5. g \in [0 .. k -> Seq(Chars)]
    BY <2>1
  <2>6. g[0] = <<>> /\ g[k] = e /\ \A i \in 0 .. k - 1 : g[i] = f[i]
    BY <1>3, <2>1, <2>2 DEF Stages
  <2> HIDE DEF g
  <2>7. ASSUME NEW i \in 1 .. k PROVE g[i] = Keyed(g[i - 1], s[i])
    <3>1. CASE i = k
      <4>1. k - 1 \in 0 .. k - 1
        BY <2>1
      <4>2. g[k - 1] = f[k - 1]
        BY <2>6, <4>1
      <4> QED BY <2>4, <2>6, <3>1, <4>2
    <3>2. CASE i # k
      <4>1. i \in 1 .. k - 1 /\ i \in 0 .. k - 1 /\ i - 1 \in 0 .. k - 1
        BY <2>1, <3>2
      <4>2. g[i] = f[i] /\ g[i - 1] = f[i - 1]
        BY <2>6, <4>1
      <4>3. f[i] = Keyed(f[i - 1], s[i])
        BY <2>2, <4>1 DEF Stages
      <4> QED BY <4>2, <4>3
    <3> QED BY <3>1, <3>2
  <2>8. Stages(g, s, k)
    BY <2>6, <2>7 DEF Stages
  <2> QED BY <2>5, <2>8
<1> QED BY <1>2, <1>3

LEMMA AfterFacts ==
  ASSUME NEW s \in Seq(Chars)
  PROVE  Stages(After(s), s, Len(s)) /\ After(s) \in [0 .. Len(s) -> Seq(Chars)]
<1> DEFINE D(f) == [i \in 0 .. Len(s) |-> IF i = 0 THEN <<>> ELSE Keyed(f[i - 1], s[i])]
           L == CHOOSE f : f = D(f)
<1>0. Len(s) \in Nat /\ Len(s) \in 0 .. Len(s)
  BY LenProperties
<1>1. After(s) = L
  BY DEF After
<1>2. PICK f \in [0 .. Len(s) -> Seq(Chars)] : Stages(f, s, Len(s))
  BY <1>0, StagesExist
<1>3. f = D(f)
  <2>1. ASSUME NEW i \in 0 .. Len(s)
        PROVE  f[i] = IF i = 0 THEN <<>> ELSE Keyed(f[i - 1], s[i])
    <3>1. i # 0 => i \in 1 .. Len(s)
      BY <1>0
    <3> QED BY <1>2, <3>1 DEF Stages
  <2> QED BY <2>1
<1>4. L = D(L)
  BY <1>3
<1> HIDE DEF L
<1>5. ASSUME NEW i \in 0 .. Len(s)
      PROVE  L[i] = IF i = 0 THEN <<>> ELSE Keyed(L[i - 1], s[i])
  BY <1>4
<1>6. Stages(L, s, Len(s))
  <2>1. \A i \in 1 .. Len(s) : i \in 0 .. Len(s) /\ i # 0
    BY <1>0
  <2> QED BY <1>0, <1>5, <2>1 DEF Stages
<1>7. ASSUME NEW i \in 0 .. Len(s) PROVE L[i] = f[i]
  <2> DEFINE Bad == {k \in Nat : k <= Len(s) /\ L[k] # f[k]}
  <2> SUFFICES ASSUME i \in Bad PROVE FALSE
    BY <1>0
  <2>1. PICK k \in Bad : \A j \in Bad : k <= j
    BY Least
  <2>2. k # 0
    BY <1>2, <1>6 DEF Stages
  <2>3. k - 1 \in Nat /\ k - 1 \notin Bad /\ k - 1 <= Len(s) /\ k \in 1 .. Len(s)
    BY <1>0, <2>1, <2>2
  <2>4. L[k - 1] = f[k - 1] /\ L[k] # f[k]
    BY <2>3
  <2> QED BY <1>2, <1>6, <2>3, <2>4 DEF Stages
<1>8. L = f
  <2>1. L = [i \in 0 .. Len(s) |-> L[i]]
    BY <1>4
  <2> QED BY <1>7, <2>1
<1> QED BY <1>1, <1>6, <1>2, <1>8

LEMMA EditedIs ==
  ASSUME NEW s PROVE Edited(s) = After(s)[Len(s)]
BY DEF Edited, After

LEMMA EditedEmpty == Edited(<<>>) = <<>>
<1>1. <<>> \in Seq(Chars) /\ Len(<<>>) = 0
  BY EmptySeq
<1>2. Stages(After(<<>>), <<>>, 0)
  BY <1>1, AfterFacts
<1> QED BY <1>1, <1>2, EditedIs DEF Stages

\* One more character.
LEMMA EditedAppend ==
  ASSUME NEW s \in Seq(Chars), NEW ch \in Chars
  PROVE  /\ Edited(Append(s, ch)) = Keyed(Edited(s), ch)
         /\ Edited(s) \in Seq(Chars)
<1>1. PICK t \in Seq(Chars) : t = Append(s, ch)
  BY AppendProperties
<1>2. /\ Len(s) \in Nat /\ Len(t) = Len(s) + 1 /\ t[Len(s) + 1] = ch
      /\ \A i \in 1 .. Len(s) : t[i] = s[i]
  BY <1>1, AppendProperties, LenProperties
<1>3. Stages(After(s), s, Len(s)) /\ After(s) \in [0 .. Len(s) -> Seq(Chars)]
  BY AfterFacts
<1>4. Stages(After(t), t, Len(s) + 1)
  BY <1>2, AfterFacts
<1>5. ASSUME NEW i \in 0 .. Len(s) PROVE After(t)[i] = After(s)[i]
  <2> DEFINE Bad == {k \in Nat : k <= Len(s) /\ After(t)[k] # After(s)[k]}
  <2> SUFFICES ASSUME i \in Bad PROVE FALSE
    BY <1>2
  <2>1. PICK k \in Bad : \A j \in Bad : k <= j
    BY Least
  <2>2. k # 0
    BY <1>3, <1>4 DEF Stages
  <2>3. /\ k - 1 \in Nat /\ k - 1 \notin Bad /\ k - 1 <= Len(s) /\ k \in 1 .. Len(s)
        /\ k \in 1 .. Len(s) + 1
    BY <1>2, <2>1, <2>2
  <2>4. After(t)[k - 1] = After(s)[k - 1] /\ After(t)[k] # After(s)[k] /\ t[k] = s[k]
    BY <1>2, <2>3
  <2> QED BY <1>3, <1>4, <2>3, <2>4 DEF Stages
<1>6. Len(s) \in 0 .. Len(s) /\ Len(s) + 1 \in 1 .. Len(s) + 1 /\ (Len(s) + 1) - 1 = Len(s)
  BY <1>2
<1>7. After(t)[Len(s) + 1] = Keyed(After(t)[Len(s)], ch)
  BY <1>2, <1>4, <1>6 DEF Stages
<1>8. After(t)[Len(s)] = After(s)[Len(s)] /\ After(s)[Len(s)] \in Seq(Chars)
  BY <1>3, <1>5, <1>6
<1> QED BY <1>1, <1>2, <1>7, <1>8, EditedIs

-----------------------------------------------------------------------------
(* One character in consoleintr().                                         *)

LEMMA NewlineType ==
  ASSUME NEW ch \in Chars
  PROVE  Newline(ch) \in Chars /\ (ch # "CR" => Newline(ch) = ch)
BY DEF Newline, Chars

\* readbuf[i] = ch behind the first i characters.
LEMMA StoredFacts ==
  ASSUME NEW s \in Seq(Chars), NEW i \in 0 .. Len(s), NEW ch \in Chars
  PROVE  /\ Stored(s, i, ch) \in Seq(Chars) /\ i + 1 <= Len(Stored(s, i, ch))
         /\ Len(Stored(s, i, ch)) <= Len(s) \/ Len(Stored(s, i, ch)) = i + 1
         /\ \A j \in 1 .. i : Stored(s, i, ch)[j] = s[j]
         /\ Stored(s, i, ch)[i + 1] = ch
<1>1. Len(s) \in Nat
  BY LenProperties
<1>2. CASE i < Len(s)
  <2>1. i + 1 \in 1 .. Len(s) /\ \A j \in 1 .. i : j \in 1 .. Len(s) /\ j # i + 1
    BY <1>1, <1>2
  <2>2. Stored(s, i, ch) = [s EXCEPT ![i + 1] = ch]
    BY <1>2 DEF Stored
  <2>3. /\ [s EXCEPT ![i + 1] = ch] \in Seq(Chars)
        /\ Len([s EXCEPT ![i + 1] = ch]) = Len(s)
        /\ \A j \in 1 .. Len(s) :
              [s EXCEPT ![i + 1] = ch][j] = IF j = i + 1 THEN ch ELSE s[j]
    BY <2>1, ExceptSeq
  <2> QED BY <1>1, <1>2, <2>1, <2>2, <2>3
<1>3. CASE ~(i < Len(s))
  <2>1. i = Len(s) /\ Stored(s, i, ch) = Append(s, ch)
    BY <1>1, <1>3 DEF Stored
  <2> QED BY <1>1, <2>1, AppendProperties
<1> QED BY <1>2, <1>3

LEMMA PrefixFacts ==
  ASSUME NEW s \in Seq(Chars), NEW n \in 0 .. Len(s)
  PROVE  /\ SubSeq(s, 1, n) \in Seq(Chars) /\ Len(SubSeq(s, 1, n)) = n
         /\ \A i \in 1 .. n : SubSeq(s, 1, n)[i] = s[i]
<1>1. Len(s) \in Nat /\ n \in Int /\ 1 \in Int
  BY LenProperties
<1>2. \A i \in 1 .. n : s[i] \in Chars
  BY <1>1, ElementOfSeq
<1>3. /\ SubSeq(s, 1, n) \in Seq(Chars)
      /\ Len(SubSeq(s, 1, n)) = IF 1 <= n THEN n - 1 + 1 ELSE 0
      /\ \A i \in 1 .. n - 1 + 1 : SubSeq(s, 1, n)[i] = s[1 + i - 1]
  BY <1>1, <1>2, SubSeqProperties
<1> QED BY <1>1, <1>3

\* A prefix of a prefix.
LEMMA PrefixShorter ==
  ASSUME NEW s \in Seq(Chars), NEW n \in 1 .. Len(s)
  PROVE  SubSeq(SubSeq(s, 1, n), 1, n - 1) = SubSeq(s, 1, n - 1)
<1>1. Len(s) \in Nat /\ n \in 0 .. Len(s) /\ n - 1 \in 0 .. Len(s) /\ n - 1 \in 0 .. n
  BY LenProperties
<1>2. PICK t \in Seq(Chars) : t = SubSeq(s, 1, n)
  BY <1>1, PrefixFacts
<1>3. Len(t) = n /\ \A i \in 1 .. n : t[i] = s[i]
  BY <1>1, <1>2, PrefixFacts
<1>4. PICK u \in Seq(Chars) : u = SubSeq(t, 1, n - 1)
  BY <1>1, <1>3, PrefixFacts
<1>5. PICK v \in Seq(Chars) : v = SubSeq(s, 1, n - 1)
  BY <1>1, PrefixFacts
<1>6. /\ Len(u) = n - 1 /\ Len(v) = n - 1
      /\ \A i \in 1 .. n - 1 : u[i] = t[i] /\ v[i] = s[i]
  BY <1>1, <1>3, <1>4, <1>5, PrefixFacts
<1>7. \A i \in 1 .. Len(u) : u[i] = v[i]
  BY <1>1, <1>3, <1>6
<1> QED BY <1>2, <1>4, <1>5, <1>6, <1>7, SeqEqual

\* A prefix and the character stored behind it.
LEMMA PrefixLonger ==
  ASSUME NEW s \in Seq(Chars), NEW n \in 0 .. Len(s), NEW ch \in Chars
  PROVE  SubSeq(Stored(s, n, ch), 1, n + 1) = Append(SubSeq(s, 1, n), ch)
<1>1. Len(s) \in Nat /\ n \in Nat
  BY LenProperties
<1>2. PICK t \in Seq(Chars) : t = Stored(s, n, ch)
  BY StoredFacts
<1>3. /\ n + 1 \in 0 .. Len(t) /\ t[n + 1] = ch
      /\ \A i \in 1 .. n : t[i] = s[i]
  <2>1. Len(t) \in Nat
    BY LenProperties
  <2>2. n + 1 <= Len(t) /\ t[n + 1] = ch /\ \A i \in 1 .. n : t[i] = s[i]
    BY <1>2, StoredFacts
  <2> QED BY <1>1, <2>1, <2>2
<1>4. PICK u \in Seq(Chars) : u = SubSeq(t, 1, n + 1)
  BY <1>3, PrefixFacts
<1>5. PICK v \in Seq(Chars) : v = SubSeq(s, 1, n)
  BY PrefixFacts
<1>6. PICK w \in Seq(Chars) : w = Append(v, ch)
  BY AppendProperties
<1>7. Len(u) = n + 1 /\ \A i \in 1 .. n + 1 : u[i] = t[i]
  BY <1>3, <1>4, PrefixFacts
<1>8. Len(v) = n /\ \A i \in 1 .. n : v[i] = s[i]
  BY <1>5, PrefixFacts
<1>9. Len(w) = n + 1 /\ w[n + 1] = ch /\ \A i \in 1 .. n : w[i] = v[i]
  BY <1>6, <1>8, AppendProperties
<1>10. ASSUME NEW i \in 1 .. Len(u) PROVE u[i] = w[i]
  <2>1. i \in 1 .. n \/ i = n + 1
    BY <1>1, <1>7
  <2> QED BY <1>1, <1>3, <1>7, <1>8, <1>9, <2>1
<1> QED BY <1>2, <1>4, <1>5, <1>6, <1>7, <1>9, <1>10, SeqEqual

\* consoleintr() does to the buffer what Keyed does to the line.
LEMMA EditFacts ==
  ASSUME LineType, Edit
  PROVE  /\ mem' \in Seq(Chars) /\ bufc' \in Nat /\ bufc' <= Len(mem')
         /\ SubSeq(mem', 1, bufc') = Keyed(SubSeq(mem, 1, bufc), c)
         /\ bufc' <= bufc + 1
         /\ Len(mem') <= Len(mem) \/ Len(mem') = bufc'
         /\ \A i \in 1 .. bufc' : mem'[i] = "LF" =>
               Newline(c) = "LF" \/ (i \in 1 .. bufc /\ mem[i] = "LF")
<1> DEFINE ch == Newline(c)
           pre == SubSeq(mem, 1, bufc)
<1>1. /\ mem \in Seq(Chars) /\ bufc \in Nat /\ bufc <= Len(mem) /\ c \in Chars
      /\ Len(mem) \in Nat /\ bufc \in 0 .. Len(mem)
  BY LenProperties DEF LineType
<1>2. ch \in Chars /\ (c # "CR" => ch = c) /\ (c = "CR" => ch = "LF")
  BY <1>1, NewlineType DEF Newline
<1>3. pre \in Seq(Chars) /\ Len(pre) = bufc
  BY <1>1, PrefixFacts
<1>4. CASE ch = "BACKSPACE"
  <2>1. c = "BACKSPACE" /\ mem' = mem /\ bufc' = IF bufc > 0 THEN bufc - 1 ELSE 0
    BY <1>2, <1>4 DEF Edit
  <2>2. Keyed(pre, c) = SubSeq(pre, 1, Len(pre) - 1)
    BY <2>1 DEF Keyed
  <2>3. CASE bufc > 0
    <3>1. bufc \in 1 .. Len(mem) /\ bufc' = bufc - 1
      BY <1>1, <2>1, <2>3
    <3>2. SubSeq(pre, 1, bufc - 1) = SubSeq(mem, 1, bufc - 1)
      BY <1>1, <3>1, PrefixShorter
    <3>3. SubSeq(mem', 1, bufc') = Keyed(pre, c)
      BY <1>3, <2>1, <2>2, <3>1, <3>2
    <3> HIDE DEF pre, ch
    <3> QED BY <1>1, <2>1, <3>1, <3>3 DEF pre
  <2>4. CASE ~(bufc > 0)
    <3>1. bufc = 0 /\ bufc' = 0
      BY <1>1, <2>1, <2>4
    <3>2. SubSeq(mem, 1, 0) = <<>> /\ SubSeq(pre, 1, 0 - 1) = <<>>
      BY SubSeqEmpty
    <3>3. SubSeq(mem', 1, bufc') = Keyed(pre, c)
      BY <1>3, <2>1, <2>2, <3>1, <3>2
    <3> HIDE DEF pre, ch
    <3> QED BY <1>1, <2>1, <3>1, <3>3 DEF pre
  <2> QED BY <2>3, <2>4
<1>5. CASE ch = "EOT"
  <2>1. c = "EOT" /\ mem' = mem /\ bufc' = bufc
    BY <1>2, <1>5 DEF Edit
  <2>2. Keyed(pre, c) = pre
    BY <2>1 DEF Keyed
  <2> HIDE DEF ch
  <2> QED BY <1>1, <2>1, <2>2
<1>6. CASE ch \notin {"BACKSPACE", "EOT"}
  <2>1. mem' = Stored(mem, bufc, ch) /\ bufc' = bufc + 1
    BY <1>6 DEF Edit
  <2>2. Keyed(pre, c) = Append(pre, ch)
    BY <1>2, <1>6 DEF Keyed
  <2> HIDE DEF ch, pre
  <2> DEFINE st == Stored(mem, bufc, ch)
  <2>3. /\ st \in Seq(Chars) /\ bufc + 1 <= Len(st)
        /\ Len(st) <= Len(mem) \/ Len(st) = bufc + 1
        /\ \A j \in 1 .. bufc : st[j] = mem[j]
        /\ st[bufc + 1] = ch
    <3>1. ch \in Chars /\ bufc \in 0 .. Len(mem) /\ mem \in Seq(Chars)
      BY <1>1, <1>2
    <3> QED BY <3>1, StoredFacts
  <2>4. SubSeq(st, 1, bufc + 1) = Append(pre, ch)
    BY <1>1, <1>2, PrefixLonger DEF pre
  <2> HIDE DEF st
  <2>0. mem' = st /\ bufc' = bufc + 1
    BY <2>1 DEF st
  <2>5. ASSUME NEW i \in 1 .. bufc', mem'[i] = "LF"
        PROVE  ch = "LF" \/ (i \in 1 .. bufc /\ mem[i] = "LF")
    <3>1. i \in 1 .. bufc \/ i = bufc + 1
      BY <1>1, <2>0
    <3> QED BY <2>0, <2>3, <2>5, <3>1
  <2>6. SubSeq(mem', 1, bufc') = Keyed(pre, c)
    BY <2>0, <2>2, <2>4
  <2>7. /\ mem' \in Seq(Chars) /\ bufc' \in Nat /\ bufc' <= Len(mem') /\ bufc' <= bufc + 1
        /\ Len(mem') <= Len(mem) \/ Len(mem') = bufc'
    BY <1>1, <2>0, <2>3
  <2> QED BY <2>5, <2>6, <2>7 DEF ch, pre
<1> QED BY <1>4, <1>5, <1>6

-----------------------------------------------------------------------------
(* The invariant.                                                          *)

\* Steps that leave the pending read alone and put nobody to sleep.
LEMMA QuietLine ==
  ASSUME LineInv, UNCHANGED <<cs, mem, typed, chan>>, rx' \in Seq(Chars), c' \in Chars,
         state' \in [Procs -> {"out", "SLEEPING", "RUNNABLE", "dead"}],
         \A p \in Procs : state'[p] = "SLEEPING" => state[p] = "SLEEPING"
  PROVE  LineInv'
<1>1. Asleep' => Asleep
  BY DEF Asleep, cs
<1> QED BY <1>1 DEF LineInv, LineType, NotDone, cs

LEMMA LineStep ==
  ASSUME LineInv, [Next]_vars
  PROVE  LineInv'
<1>0. /\ LineType /\ state \in [Procs -> {"out", "SLEEPING", "RUNNABLE", "dead"}]
      /\ rx \in Seq(Chars) /\ c \in Chars /\ "NUL" \in Chars
  BY DEF LineInv, LineType, Chars
<1> USE DEF port
<1>1. ASSUME NEW p \in Procs, NEW n \in Sizes, csread(p, n) PROVE LineInv'
  <2>1. /\ readbuf' \in Bufs \cup Wild \cup {NULL} /\ bufc' = 0 /\ bufsz' = n /\ mem' = <<>> /\ typed' = <<>>
        /\ state' = [state EXCEPT ![p] = "SLEEPING"] /\ rx' = rx /\ c' = c
    BY <1>1 DEF csread
  <2>2. <<>> \in Seq(Chars) /\ Len(<<>>) = 0 /\ n \in Nat
    BY EmptySeq, SizesAssumption
  <2>3. LineType' /\ state' \in [Procs -> {"out", "SLEEPING", "RUNNABLE", "dead"}]
    BY <1>0, <2>1, <2>2 DEF LineType
  <2>4. SubSeq(mem', 1, bufc') = Edited(typed')
    <3>1. SubSeq(<<>>, 1, 0) = <<>>
      BY SubSeqEmpty
    <3> QED BY <2>1, <3>1, EditedEmpty
  <2>5. NotDone'
    <3>1. 1 .. 0 = {}
      OBVIOUS
    <3> QED BY <2>1, <2>2, <3>1 DEF NotDone
  <2> QED BY <2>3, <2>4, <2>5 DEF LineInv
<1>2. ASSUME NEW p \in Procs, Returns(p) PROVE LineInv'
  <2>1. /\ readbuf' = NULL /\ bufc' = 0 /\ bufsz' = 0 /\ mem' = <<>> /\ typed' = <<>>
        /\ state' = [state EXCEPT ![p] = "out"] /\ rx' = rx /\ c' = c
    BY <1>2 DEF Returns
  <2>2. <<>> \in Seq(Chars) /\ Len(<<>>) = 0
    BY EmptySeq
  <2>3. LineType' /\ state' \in [Procs -> {"out", "SLEEPING", "RUNNABLE", "dead"}]
    BY <1>0, <2>1, <2>2 DEF LineType
  <2> QED BY <2>1, <2>3 DEF LineInv
<1>3. ASSUME NEW p \in Procs, Dies(p) PROVE LineInv'
  BY <1>0, <1>3, QuietLine DEF Dies
<1>4. ASSUME NEW p \in Procs, kill(p) PROVE LineInv'
  BY <1>0, <1>4, QuietLine DEF kill
<1>5. CASE cswrite
  BY <1>0, <1>5, QuietLine DEF cswrite
<1>6. ASSUME NEW ch \in Chars, Arrives(ch) PROVE LineInv'
  <2>1. rx' \in Seq(Chars)
    BY <1>0, <1>6, AppendProperties DEF Arrives
  <2> QED BY <1>0, <1>6, <2>1, QuietLine DEF Arrives
<1>7. CASE IrqTaken
  BY <1>0, <1>7, QuietLine DEF IrqTaken
<1>8. CASE uart_getc
  <2>1. rx' \in Seq(Chars) /\ c' \in Chars
    BY <1>0, <1>8, HeadTailProperties DEF uart_getc
  <2> QED BY <1>0, <1>8, <2>1, QuietLine DEF uart_getc
<1>9. CASE consoleintr
  <2>1. UNCHANGED <<readbuf, bufsz, chan, rx>> /\ c' = "NUL"
    BY <1>9 DEF consoleintr
  <2>2. CASE Ignored
    BY <1>0, <2>1, <2>2, QuietLine DEF Ignored, cs
  <2>3. CASE Faults
    BY <1>0, <2>1, <2>3, QuietLine DEF Faults, cs
  <2>4. CASE Offered
    <3>1. /\ readbuf # NULL /\ Edit /\ typed' = Append(typed, c)
          /\ state' = IF Wakes(Newline(c), bufc') THEN Woken ELSE state
      BY <2>4 DEF Offered
    <3>2. /\ mem' \in Seq(Chars) /\ bufc' \in Nat /\ bufc' <= Len(mem')
          /\ SubSeq(mem', 1, bufc') = Keyed(SubSeq(mem, 1, bufc), c)
          /\ bufc' <= bufc + 1
          /\ Len(mem') <= Len(mem) \/ Len(mem') = bufc'
          /\ \A i \in 1 .. bufc' : mem'[i] = "LF" =>
                Newline(c) = "LF" \/ (i \in 1 .. bufc /\ mem[i] = "LF")
      BY <1>0, <3>1, EditFacts
    <3>3. typed \in Seq(Chars) /\ SubSeq(mem, 1, bufc) = Edited(typed)
      BY <3>1 DEF LineInv, LineType
    <3>4. typed' \in Seq(Chars) /\ Edited(typed') = Keyed(Edited(typed), c)
      BY <1>0, <3>1, <3>3, AppendProperties, EditedAppend
    <3>5. LineType'
      BY <1>0, <2>1, <3>2, <3>4 DEF LineType
    <3>6. SubSeq(mem', 1, bufc') = Edited(typed')
      BY <3>2, <3>3, <3>4
    <3>7. state' \in [Procs -> {"out", "SLEEPING", "RUNNABLE", "dead"}]
      <4>1. Woken \in [Procs -> {"out", "SLEEPING", "RUNNABLE", "dead"}]
        BY <1>0 DEF Woken
      <4> QED BY <1>0, <3>1, <4>1
    <3>8. ASSUME Asleep' PROVE Asleep /\ ~Wakes(Newline(c), bufc')
      <4>1. PICK p \in Procs : state'[p] = "SLEEPING" /\ chan'[p] = readbuf'
        BY <3>8 DEF Asleep
      <4>2. chan[p] = readbuf
        BY <2>1, <4>1
      <4>3. Woken[p] # "SLEEPING"
        BY <4>2 DEF Woken
      <4>4. ~Wakes(Newline(c), bufc') /\ state[p] = "SLEEPING"
        BY <3>1, <4>1, <4>3
      <4> QED BY <4>2, <4>4 DEF Asleep
    <3>9. ASSUME Asleep' PROVE NotDone'
      <4>1. NotDone /\ bufc \in Nat /\ bufsz \in Nat /\ Len(mem) \in Nat
        BY <3>1, <3>8, <3>9, LenProperties DEF LineInv, LineType
      <4>2. Newline(c) # "LF" /\ bufc' # bufsz
        BY <3>8, <3>9 DEF Wakes
      <4>3. \A i \in 1 .. bufc' : mem'[i] # "LF"
        BY <3>2, <4>1, <4>2 DEF NotDone
      <4>4. bufsz > 0 => bufc' < bufsz /\ Len(mem') <= bufsz
        <5>1. Len(mem') \in Nat
          BY <3>2, LenProperties
        <5> QED BY <3>2, <4>1, <4>2, <5>1 DEF NotDone
      <4> QED BY <2>1, <4>3, <4>4 DEF NotDone
    <3> QED BY <2>1, <3>5, <3>6, <3>7, <3>9 DEF LineInv
  <2> QED BY <1>9, <2>2, <2>3, <2>4 DEF consoleintr
<1>10. CASE Clear
  BY <1>0, <1>10, QuietLine DEF Clear
<1>11. CASE UNCHANGED vars
  BY <1>0, <1>11, QuietLine DEF vars
<1> QED BY <1>1, <1>2, <1>3, <1>4, <1>5, <1>6, <1>7, <1>8, <1>9, <1>10, <1>11 DEF Next

\* LineInv holds in every state: csread() starts with an empty line, and
\* consoleintr() edits the memory behind readbuf as the line is edited and wakes
\* whoever sleeps on readbuf when the line ends or the buffer is full.
THEOREM LineInvariant == Spec => []LineInv
<1>1. Init => LineInv
  <2> SUFFICES ASSUME Init PROVE LineInv
    OBVIOUS
  <2>1. <<>> \in Seq(Chars) /\ Len(<<>>) = 0
    BY EmptySeq
  <2> QED BY <2>1 DEF Init, LineInv, LineType, Chars
<1>2. LineInv /\ [Next]_vars => LineInv'
  BY LineStep
<1> QED BY <1>1, <1>2, PTL DEF Spec

\* From readbuf[0] on, memory is the line that was typed, edited, and the reader is
\* awake once the line has ended or, if it asked for any, once it has got all the
\* characters it asked for (csread, consoleintr).
THEOREM LineKept == Spec => []PendingLine
<1>1. LineInv => PendingLine
  BY DEF LineInv, PendingLine, NotDone
<1> QED BY <1>1, LineInvariant, PTL

\* As long as its reader sleeps, what consoleintr() stores is within the length of
\* the read, except for a read of 0 characters; it is behind the page of the buffer
\* only if the buffer is.
THEOREM StoresKept == Spec => []StoresInside
<1>1. ASSUME LineInv PROVE StoresInside
  <2> SUFFICES ASSUME readbuf # NULL, Asleep, Outside, bufsz # 0
               PROVE  Room[readbuf] < bufsz /\ Len(mem) <= bufsz
    BY DEF StoresInside
  <2>1. /\ NotDone /\ bufsz \in Nat /\ Len(mem) \in Nat /\ readbuf \in Bufs \cup Wild
    BY <1>1, LenProperties DEF LineInv, LineType
  <2>2. Room[readbuf] \in Nat
    BY <2>1, RoomAssumption
  <2>3. Len(mem) <= bufsz
    BY <2>1 DEF NotDone
  <2>4. Len(mem) > Room[readbuf]
    BY <2>1, <2>2, <2>3 DEF Outside
  <2> QED BY <2>1, <2>2, <2>3, <2>4
<1> QED BY <1>1, LineInvariant, PTL
=============================================================================
