----------------------------- MODULE FileProofs -----------------------------
(***************************************************************************)
(* Theorems about File: the inductive invariant FileInv, that no file is   *)
(* leaked and that descriptors stay what they were opened as.              *)
(***************************************************************************)
EXTENDS File, FiniteSetTheorems, WellFoundedInduction, TLAPS

Mode == SUBSET (UNION Modes)
PCs == {"user", "walk", "fill", "wipe", "exit", "exitwipe", "io"}

FileRec == [ref : Nat, ino : Inodes \cup {NULL}, off : Nat, mode : Mode]
ArgRec == [f : Files \cup {NULL}, fd : 0 .. NOFILE, ino : Inodes \cup {NULL},
           mode : Mode, dir : BOOLEAN]
DescRec == [ino : Inodes \cup {NULL, -1}, mode : Mode]

\* The locals of close() between the two halves.
Locals(f, fd) == [NoArg EXCEPT !.f = f, !.fd = fd]

FileTypeOK ==
    /\ file \in [Files -> FileRec]
    /\ ofile \in [Procs -> [Fds -> Files \cup {NULL}]]
    /\ state \in [Procs -> {"unused", "live", "zombie"}]
    /\ pc \in [Procs -> PCs]
    /\ arg \in [Procs -> ArgRec]
    /\ desc \in [Procs -> [Fds -> DescRec]]
    /\ lost \in SUBSET Files
    /\ broken \in BOOLEAN
    /\ \A p \in Procs :
          /\ pc[p] \in {"fill", "wipe", "exitwipe", "io"} => arg[p].f \in Files
          /\ pc[p] \in {"wipe", "exitwipe"} => arg[p].fd \in Fds

\* Only a live process is in a call; close() and exitproc() have forgotten the
\* descriptors behind them, and a process that is gone has none.
LifeInv ==
    \A p \in Procs :
        /\ state[p] # "live" => pc[p] = "user" /\ desc[p] = NoDescs
        /\ \A fd \in Fds : desc[p][fd] # NoDesc => ofile[p][fd] # NULL
        /\ pc[p] \in {"wipe", "exitwipe"} => desc[p][arg[p].fd] = NoDesc
        /\ pc[p] \in {"exit", "exitwipe"} =>
              \A fd \in Fds : fd < arg[p].fd => desc[p][fd] = NoDesc

\* The references that no descriptor stands for: at most one, and that one is
\* open()'s, before it has found a descriptor or after it has failed.
BoundInv ==
    \A f \in Files :
        /\ file[f].ref <= Owed(f)
        /\ file[f].ref <= Cardinality(Open(f)) + 1

\* Before anything went wrong: the counts are exact, and a descriptor stands for
\* what was opened.
Exact == \A f \in Files : file[f].ref = Owed(f)
Faithful ==
    \A p \in Procs, fd \in Fds :
        desc[p][fd] # NoDesc => ofile[p][fd] # NULL /\ DescOf(ofile[p][fd]) = desc[p][fd]

\* open() has its file alone, and a file that is about to be cleared is not in use.
TransitInv ==
    \A p \in Procs :
        /\ pc[p] = "fill" => file[arg[p].f].ref = 1 /\ file[arg[p].f].mode = {}
        /\ pc[p] \in {"wipe", "exitwipe"} => file[arg[p].f].ref = 0

\* alloc_file() finds no access mode of an earlier user.
CleanInv ==
    \A f \in Files : file[f].ref = 0 /\ ~InTransit(f) => file[f].mode = {}

ExactInv == ~broken => Exact /\ Faithful /\ TransitInv /\ CleanInv

FileInv == FileTypeOK /\ LifeInv /\ BoundInv /\ ExactInv

-----------------------------------------------------------------------------
(* Searches and counts.                                                    *)

\* Least finds the smallest element of every non-empty set of naturals.
LEMMA LeastIn ==
  ASSUME NEW S \in SUBSET Nat, S # {}
  PROVE  Least(S) \in S /\ \A y \in S : Least(S) <= y
<1> DEFINE R == {p \in Nat \X Nat : p[1] < p[2]}
<1>1. IsWellFoundedOn(R, Nat)
  BY NatLessThanWellFounded DEF OpToRel
<1> HIDE DEF R
<1>2. PICK x \in S : \A y \in S : ~ (<<y, x>> \in R)
  BY <1>1, WFMin
<1>3. ASSUME NEW y \in S PROVE x <= y
  <2>1. x \in Nat /\ y \in Nat
    OBVIOUS
  <2>2. y < x => <<y, x>> \in R
    BY <2>1 DEF R
  <2> QED BY <1>2, <2>1, <2>2
<1> QED BY <1>3 DEF Least

\* The three searches of file.c end at what they look for.
LEMMA Searches ==
  /\ Unused # {} => Least(Unused) \in Unused
  /\ \A p : Free(p) # {} => Least(Free(p)) \in Free(p)
  /\ \A p : Rest(p) # {} => /\ Least(Rest(p)) \in Rest(p)
                            /\ \A fd \in Rest(p) : Least(Rest(p)) <= fd
<1>1. Files \subseteq Nat /\ Fds \subseteq Nat
  BY NumbersAssumption DEF Files, Fds
<1>2. Unused \in SUBSET Nat /\ \A p : Free(p) \in SUBSET Nat /\ Rest(p) \in SUBSET Nat
  BY <1>1 DEF Unused, Free, Rest
<1> QED BY <1>2, LeastIn

\* Sets of descriptors and of processes can be counted.
LEMMA Countable ==
  /\ \A S \in SUBSET (Procs \X Fds) :
        IsFiniteSet(S) /\ Cardinality(S) \in Nat /\ (Cardinality(S) = 0 <=> S = {})
  /\ \A S \in SUBSET Procs :
        IsFiniteSet(S) /\ Cardinality(S) \in Nat /\ (Cardinality(S) = 0 <=> S = {})
<1>1. IsFiniteSet(Fds)
  BY NumbersAssumption, FS_Interval DEF Fds
<1>2. IsFiniteSet(Procs \X Fds) /\ IsFiniteSet(Procs)
  BY <1>1, ProcsAssumption, FS_Product
<1>3. \A S \in SUBSET (Procs \X Fds) : IsFiniteSet(S)
  BY <1>2, FS_Subset
<1>4. \A S \in SUBSET Procs : IsFiniteSet(S)
  BY <1>2, FS_Subset
<1> QED BY <1>3, <1>4, FS_CardinalityType, FS_EmptySet

\* One element more, one element less.
LEMMA CountOne ==
  ASSUME NEW S, IsFiniteSet(S), Cardinality(S) \in Nat, NEW x
  PROVE  /\ x \notin S => Cardinality(S \cup {x}) = Cardinality(S) + 1
         /\ x \in S => Cardinality(S \ {x}) = Cardinality(S) - 1
         /\ x \notin S => S \ {x} = S
<1>1. x \notin S => Cardinality(S \cup {x}) = Cardinality(S) + 1
  BY FS_AddElement
<1>2. x \in S => Cardinality(S \ {x}) = Cardinality(S) - 1
  BY FS_RemoveElement
<1>3. x \notin S => S \ {x} = S
  OBVIOUS
<1> QED BY <1>1, <1>2, <1>3

\* What is counted.
LEMMA Counted ==
  /\ \A f : Open(f) \in SUBSET (Procs \X Fds) /\ Taking(f) \in SUBSET Procs
  /\ \A f : \A p \in Procs, fd \in Fds :
        <<p, fd>> \in Open(f) <=> desc[p][fd] # NoDesc /\ ofile[p][fd] = f
BY DEF Open, Taking

-----------------------------------------------------------------------------
(* Types.                                                                  *)

\* The records and their updates.
LEMMA FileRecs ==
  /\ Zero \in FileRec /\ Zero.ref = 0 /\ Zero.mode = {}
  /\ \A r \in FileRec : /\ r.ref \in Nat /\ r.ino \in Inodes \cup {NULL}
                        /\ r.off \in Nat /\ r.mode \in Mode
BY DEF FileRec, Zero, Mode, NULL

\* A struct file with another reference count.
LEMMA RefRec ==
  ASSUME NEW r \in FileRec, NEW n \in Nat
  PROVE  /\ [r EXCEPT !.ref = n] \in FileRec /\ [r EXCEPT !.ref = n].ref = n
         /\ [r EXCEPT !.ref = n].ino = r.ino /\ [r EXCEPT !.ref = n].mode = r.mode
BY DEF FileRec

\* read() and write() move the offset and nothing else.
LEMMA OffRec ==
  ASSUME NEW r \in FileRec, NEW n \in Nat
  PROVE  /\ [r EXCEPT !.off = n] \in FileRec /\ [r EXCEPT !.off = n].ref = r.ref
         /\ [r EXCEPT !.off = n].ino = r.ino /\ [r EXCEPT !.off = n].mode = r.mode
BY DEF FileRec

\* What open() makes of a struct file.
LEMMA OpenedRec ==
  ASSUME NEW r \in FileRec, NEW ino \in Inodes \cup {NULL}, NEW m \in Mode
  PROVE  /\ Opened(r, ino, m) \in FileRec /\ Opened(r, ino, m).ref = r.ref
         /\ Opened(r, ino, m).ino = ino /\ Opened(r, ino, m).mode = r.mode \cup m
BY DEF FileRec, Opened, Mode

\* The locals of a call and their updates.
LEMMA ArgRecs ==
  /\ NoArg \in ArgRec
  /\ \A a \in ArgRec : /\ a.f \in Files \cup {NULL} /\ a.fd \in 0 .. NOFILE
                       /\ a.ino \in Inodes \cup {NULL} /\ a.mode \in Mode
BY NumbersAssumption DEF ArgRec, NoArg, Mode, NULL

\* alloc_file() and read() remember the file.
LEMMA ArgF ==
  ASSUME NEW a \in ArgRec, NEW f \in Files
  PROVE  /\ [a EXCEPT !.f = f] \in ArgRec /\ [a EXCEPT !.f = f].f = f
         /\ [a EXCEPT !.f = f].fd = a.fd
BY DEF ArgRec

\* exitproc() remembers the next descriptor.
LEMMA ArgFd ==
  ASSUME NEW fd \in Fds
  PROVE  /\ [NoArg EXCEPT !.fd = fd + 1] \in ArgRec
         /\ [NoArg EXCEPT !.fd = fd + 1].fd = fd + 1
<1>1. fd + 1 \in 0 .. NOFILE
  BY NumbersAssumption DEF Fds
<1> QED BY <1>1, ArgRecs DEF ArgRec

\* close() remembers the file and the descriptor.
LEMMA ArgFFd ==
  ASSUME NEW f \in Files, NEW fd \in Fds
  PROVE  Locals(f, fd) \in ArgRec /\ Locals(f, fd).f = f /\ Locals(f, fd).fd = fd
<1>1. fd \in 0 .. NOFILE
  BY NumbersAssumption DEF Fds
<1> QED BY <1>1, ArgRecs DEF ArgRec, Locals

\* open() remembers its arguments.
LEMMA ArgOpen ==
  ASSUME NEW ino \in Inodes, NEW mode \in Modes, NEW dir \in BOOLEAN
  PROVE  [NoArg EXCEPT !.ino = ino, !.mode = mode, !.dir = dir] \in ArgRec
<1>1. mode \in Mode
  BY DEF Mode
<1> QED BY <1>1, ArgRecs DEF ArgRec

\* Nothing a descriptor stands for is NoDesc: inode numbers are not negative.
LEMMA DescRecs ==
  /\ NoDesc \in DescRec
  /\ \A ino \in Inodes \cup {NULL}, m \in Mode :
        /\ [ino |-> ino, mode |-> m] \in DescRec /\ [ino |-> ino, mode |-> m] # NoDesc
  /\ NoFds \in [Fds -> Files \cup {NULL}] /\ NoDescs \in [Fds -> DescRec]
  /\ NULL \notin Files
BY InodesAssumption DEF DescRec, NoDesc, Mode, NULL, NoFds, NoDescs, Files

\* A descriptor stands for something exactly when it refers to a file.
LEMMA DescOfType ==
  ASSUME FileTypeOK, NEW f \in Files \cup {NULL}
  PROVE  DescOf(f) \in DescRec /\ (DescOf(f) = NoDesc <=> f = NULL)
<1>1. CASE f = NULL
  BY <1>1, DescRecs DEF DescOf
<1>2. CASE f # NULL
  <2>1. file[f] \in FileRec
    BY <1>2 DEF FileTypeOK
  <2>2. file[f].ino \in Inodes \cup {NULL} /\ file[f].mode \in Mode
    BY <2>1, FileRecs
  <2> QED BY <1>2, <2>2, DescRecs DEF DescOf
<1> QED BY <1>1, <1>2

\* A step moves process p to s with the locals a.
LEMMA MoveType ==
  ASSUME FileTypeOK, NEW p \in Procs, NEW s \in PCs, NEW a \in ArgRec,
         pc' = [pc EXCEPT ![p] = s], arg' = [arg EXCEPT ![p] = a],
         s \in {"fill", "wipe", "exitwipe", "io"} => a.f \in Files,
         s \in {"wipe", "exitwipe"} => a.fd \in Fds,
         file' \in [Files -> FileRec], ofile' \in [Procs -> [Fds -> Files \cup {NULL}]],
         state' \in [Procs -> {"unused", "live", "zombie"}],
         desc' \in [Procs -> [Fds -> DescRec]], lost' \in SUBSET Files, broken' \in BOOLEAN
  PROVE  FileTypeOK'
BY DEF FileTypeOK

\* close() and exitproc() drop a reference.
LEMMA DropType ==
  ASSUME FileTypeOK, NEW p \in Procs, NEW fd \in Fds,
         Drop(p, fd, "wipe", "user") \/ Drop(p, fd, "exitwipe", "exit")
  PROVE  FileTypeOK'
<1> USE DEF FileTypeOK, PCs
<1> DEFINE f == ofile[p][fd]
<1>1. f \in Files
  BY DEF Drop
<1>2. file[f].ref \in Nat
  BY <1>1, FileRecs
<1>3. file' \in [Files -> FileRec]
  <2>1. CASE file[f].ref = 0
    BY <2>1 DEF Drop
  <2>2. CASE file[f].ref # 0
    <3>1. file' = [file EXCEPT ![f] = [file[f] EXCEPT !.ref = file[f].ref - 1]]
      BY <2>2 DEF Drop
    <3>2. file[f].ref - 1 \in Nat
      BY <1>2, <2>2
    <3>3. [file[f] EXCEPT !.ref = file[f].ref - 1] \in FileRec
      BY <1>1, <3>2, RefRec
    <3> QED BY <1>1, <3>1, <3>3
  <2> QED BY <2>1, <2>2
<1>4. desc' \in [Procs -> [Fds -> DescRec]]
  <2>1. desc' = [desc EXCEPT ![p][fd] = NoDesc] /\ NoDesc \in DescRec
    BY DescRecs DEF Drop
  <2> QED BY <2>1
<1>8. broken' \in BOOLEAN
  BY DEF Drop
<1>5. /\ pc' = [pc EXCEPT ![p] = pc'[p]] /\ pc'[p] \in {"user", "wipe", "exit", "exitwipe"}
      /\ UNCHANGED <<ofile, state, lost>>
  BY DEF Drop, Goto
<1> DEFINE a == CASE pc'[p] = "user" -> NoArg
                  [] pc'[p] = "exit" -> [NoArg EXCEPT !.fd = fd + 1]
                  [] OTHER -> [NoArg EXCEPT !.f = f, !.fd = fd]
<1>6. arg' = [arg EXCEPT ![p] = a]
  BY DEF Drop
<1>7. a \in ArgRec /\ (pc'[p] \in {"wipe", "exitwipe"} => a.f \in Files /\ a.fd \in Fds)
  <2>1. CASE pc'[p] = "user"
    BY <2>1, ArgRecs
  <2>2. CASE pc'[p] = "exit"
    <3>1. a = [NoArg EXCEPT !.fd = fd + 1]
      BY <2>2
    <3> QED BY <2>2, <3>1, ArgFd
  <2>3. CASE pc'[p] \in {"wipe", "exitwipe"}
    <3>1. a = Locals(f, fd)
      BY <2>3 DEF Locals
    <3> QED BY <1>1, <3>1, ArgFFd
  <2> QED BY <1>5, <2>1, <2>2, <2>3
<1> HIDE DEF a, f
<1> QED BY <1>3, <1>4, <1>5, <1>6, <1>7, <1>8, MoveType

\* They clear the file and the descriptor.
LEMMA WipeType ==
  ASSUME FileTypeOK, NEW p \in Procs,
         Wipe(p, "wipe", "user") \/ Wipe(p, "exitwipe", "exit")
  PROVE  FileTypeOK'
<1> USE DEF FileTypeOK, PCs
<1>1. arg[p].f \in Files /\ arg[p].fd \in Fds
  BY DEF Wipe
<1>2. /\ file' = [file EXCEPT ![arg[p].f] = Zero]
      /\ ofile' = [ofile EXCEPT ![p][arg[p].fd] = NULL] /\ UNCHANGED <<state, desc, lost, broken>>
  BY DEF Wipe
<1>3. file' \in [Files -> FileRec] /\ ofile' \in [Procs -> [Fds -> Files \cup {NULL}]]
  BY <1>1, <1>2, FileRecs
<1>4. \E s \in {"user", "exit"}, a \in ArgRec :
         pc' = [pc EXCEPT ![p] = s] /\ arg' = [arg EXCEPT ![p] = a]
  <2>1. [NoArg EXCEPT !.fd = arg[p].fd + 1] \in ArgRec /\ NoArg \in ArgRec
    BY <1>1, ArgFd, ArgRecs
  <2> QED BY <2>1 DEF Wipe, Goto
<1> QED BY <1>2, <1>3, <1>4, MoveType

\* fork() counts the descriptors that refer to a file.
LEMMA RefsNat ==
  ASSUME NEW p, NEW f
  PROVE  /\ IsFiniteSet({fd \in Fds : ofile[p][fd] = f})
         /\ RefsFrom(p, f) \in Nat
<1>1. IsFiniteSet(Fds)
  BY NumbersAssumption, FS_Interval DEF Fds
<1>2. IsFiniteSet({fd \in Fds : ofile[p][fd] = f})
  BY <1>1, FS_Subset
<1> QED BY <1>2, FS_CardinalityType DEF RefsFrom

\* Every step keeps the types.
LEMMA TypeStep ==
  ASSUME FileInv, [Next]_vars
  PROVE  FileTypeOK'
<1> USE DEF FileInv, FileTypeOK, PCs, Goto
<1>1. ASSUME NEW p \in Procs, NEW ino \in Inodes, NEW mode \in Modes, NEW dir \in BOOLEAN, OpenStart(p, ino, mode, dir)
      PROVE  FileTypeOK'
  <2> DEFINE a == [NoArg EXCEPT !.ino = ino, !.mode = mode, !.dir = dir]
  <2>1. a \in ArgRec
    BY ArgOpen
  <2>2. arg' = [arg EXCEPT ![p] = a]
    BY <1>1 DEF OpenStart
  <2> HIDE DEF a
  <2> QED BY <1>1, <2>1, <2>2, MoveType DEF OpenStart
<1>2. ASSUME NEW p \in Procs, alloc_file(p) PROVE FileTypeOK'
  <2>1. CASE Unused = {}
    <3>1. /\ pc' = [pc EXCEPT ![p] = "user"] /\ arg' = [arg EXCEPT ![p] = NoArg]
          /\ UNCHANGED <<file, broken, ofile, state, desc, lost>>
      BY <1>2, <2>1 DEF alloc_file
    <3> QED BY <3>1, ArgRecs, MoveType
  <2>2. CASE Unused # {}
    <3> DEFINE x == Least(Unused)
    <3> DEFINE a == [arg[p] EXCEPT !.f = x]
    <3>1. x \in Files
      BY <2>2, Searches DEF Unused
    <3>2. /\ file' = [file EXCEPT ![x] = [file[x] EXCEPT !.ref = 1]]
          /\ arg' = [arg EXCEPT ![p] = a] /\ pc' = [pc EXCEPT ![p] = "fill"]
          /\ broken' = (broken \/ InTransit(x)) /\ UNCHANGED <<ofile, state, desc, lost>>
      BY <1>2, <2>2 DEF alloc_file
    <3>3. a \in ArgRec /\ a.f = x
      BY <3>1, ArgF
    <3>4. [file[x] EXCEPT !.ref = 1] \in FileRec
      BY <3>1, RefRec
    <3> HIDE DEF x, a
    <3>5. file' \in [Files -> FileRec] /\ broken' \in BOOLEAN
      BY <3>1, <3>2, <3>4
    <3> QED BY <3>1, <3>2, <3>3, <3>5, MoveType
  <2> QED BY <2>1, <2>2
<1>3. ASSUME NEW p \in Procs, OpenFill(p) PROVE FileTypeOK'
  <2> DEFINE f == arg[p].f
  <2>1. f \in Files /\ arg[p].ino \in Inodes \cup {NULL} /\ arg[p].mode \in Mode
    BY <1>3, ArgRecs DEF OpenFill
  <2>2. /\ file' = [file EXCEPT ![f] = Opened(file[f], arg[p].ino, arg[p].mode)]
        /\ pc' = [pc EXCEPT ![p] = "user"] /\ arg' = [arg EXCEPT ![p] = NoArg]
        /\ UNCHANGED <<state, broken>>
    BY <1>3 DEF OpenFill
  <2>3. file' \in [Files -> FileRec]
    <3>1. Opened(file[f], arg[p].ino, arg[p].mode) \in FileRec
      BY <2>1, OpenedRec
    <3> QED BY <2>1, <2>2, <3>1
  <2>4. /\ ofile' \in [Procs -> [Fds -> Files \cup {NULL}]]
        /\ desc' \in [Procs -> [Fds -> DescRec]] /\ lost' \in SUBSET Files
    <3>1. CASE (arg[p].dir /\ arg[p].ino \notin Dirs) \/ Free(p) = {}
      BY <1>3, <2>1, <3>1 DEF OpenFill
    <3>2. CASE ~ ((arg[p].dir /\ arg[p].ino \notin Dirs) \/ Free(p) = {})
      <4> DEFINE fd == Least(Free(p))
      <4> DEFINE d == [ino |-> arg[p].ino, mode |-> arg[p].mode]
      <4>1. fd \in Fds /\ d \in DescRec
        BY <2>1, <3>2, Searches, DescRecs DEF Free
      <4>2. /\ ofile' = [ofile EXCEPT ![p][fd] = f] /\ desc' = [desc EXCEPT ![p][fd] = d]
            /\ UNCHANGED lost
        BY <1>3, <3>2 DEF OpenFill
      <4> HIDE DEF fd, d, f
      <4> QED BY <2>1, <4>1, <4>2
    <3> QED BY <3>1, <3>2
  <2> QED BY <2>2, <2>3, <2>4, ArgRecs, MoveType
<1>4. ASSUME NEW p \in Procs, NEW fd \in Fds, close(p, fd) PROVE FileTypeOK'
  BY <1>4, DropType DEF close
<1>5. ASSUME NEW p \in Procs, NEW fd \in Fds, dup(p, fd) PROVE FileTypeOK'
  <2> DEFINE f == ofile[p][fd]
  <2> DEFINE new == Least(Free(p))
  <2>1. f \in Files
    BY <1>5 DEF dup
  <2>5. new \in Fds
    BY <1>5, Searches DEF dup, Free
  <2>2. /\ ofile' = [ofile EXCEPT ![p][new] = f] /\ desc' = [desc EXCEPT ![p][new] = DescOf(f)]
        /\ file' = [file EXCEPT ![f] = [file[f] EXCEPT !.ref = file[f].ref + 1]]
        /\ broken' = (broken \/ InTransit(f)) /\ UNCHANGED <<state, pc, arg, lost>>
    BY <1>5 DEF dup
  <2>3. DescOf(f) \in DescRec
    BY <2>1, DescOfType
  <2>4. [file[f] EXCEPT !.ref = file[f].ref + 1] \in FileRec
    <3>1. file[f] \in FileRec /\ file[f].ref + 1 \in Nat
      BY <2>1, FileRecs
    <3> QED BY <3>1, RefRec
  <2> HIDE DEF f, new
  <2> QED BY <2>1, <2>2, <2>3, <2>4, <2>5
<1>6. ASSUME NEW p \in Procs, NEW fd \in Fds, NEW how, IoStart(p, fd, how)
      PROVE  FileTypeOK'
  <2> DEFINE a == [NoArg EXCEPT !.f = ofile[p][fd]]
  <2>1. a \in ArgRec /\ a.f \in Files
    <3>1. ofile[p][fd] \in Files
      BY <1>6 DEF IoStart
    <3> QED BY <3>1, ArgRecs, ArgF
  <2>2. arg' = [arg EXCEPT ![p] = a]
    BY <1>6 DEF IoStart
  <2> HIDE DEF a
  <2> QED BY <1>6, <2>1, <2>2, MoveType DEF IoStart
<1>7. ASSUME NEW p \in Procs, CloseWipe(p) PROVE FileTypeOK'
  BY <1>7, WipeType DEF CloseWipe
<1>8. ASSUME NEW p \in Procs, exit(p) PROVE FileTypeOK'
  BY <1>8, ArgRecs, MoveType DEF exit
<1>9. ASSUME NEW p \in Procs, ExitClose(p) PROVE FileTypeOK'
  <2>1. Least(Rest(p)) \in Fds
    BY <1>9, Searches DEF ExitClose, Rest
  <2> QED BY <1>9, <2>1, DropType DEF ExitClose
<1>10. ASSUME NEW p \in Procs, ExitWipe(p) PROVE FileTypeOK'
  BY <1>10, WipeType DEF ExitWipe
<1>11. ASSUME NEW p \in Procs, ExitZombie(p) PROVE FileTypeOK'
  BY <1>11, ArgRecs, MoveType DEF ExitZombie
<1>12. ASSUME NEW p \in Procs, Reap(p) PROVE FileTypeOK'
  BY <1>12, DescRecs DEF Reap
<1>13. ASSUME NEW p \in Procs, NEW q \in Procs, fork(p, q) PROVE FileTypeOK'
  <2>1. \A fd \in Fds : DescOf(ofile[p][fd]) \in DescRec
    BY DescOfType
  <2>2. desc' \in [Procs -> [Fds -> DescRec]]
    BY <1>13, <2>1 DEF fork
  <2>3. file' \in [Files -> FileRec]
    <3>1. \A f \in Files : RefsFrom(p, f) \in Nat
      BY RefsNat
    <3>2. \A f \in Files : [file[f] EXCEPT !.ref = file[f].ref + RefsFrom(p, f)] \in FileRec
      <4> TAKE f \in Files
      <4>1. file[f] \in FileRec /\ file[f].ref + RefsFrom(p, f) \in Nat
        BY <3>1, FileRecs
      <4> QED BY <4>1, RefRec
    <3> QED BY <1>13, <3>2 DEF fork
  <2> QED BY <1>13, <2>2, <2>3 DEF fork
<1>14. ASSUME NEW p \in Procs, NEW n \in 0 .. 1, IoDone(p, n) PROVE FileTypeOK'
  <2>1. arg[p].f \in Files
    BY <1>14 DEF IoDone
  <2>2. [file[arg[p].f] EXCEPT !.off = file[arg[p].f].off + n] \in FileRec
    <3>1. file[arg[p].f] \in FileRec /\ file[arg[p].f].off + n \in Nat
      BY <2>1, FileRecs
    <3> QED BY <3>1, OffRec
  <2>3. file' \in [Files -> FileRec]
    BY <1>14, <2>1, <2>2 DEF IoDone
  <2> QED BY <1>14, <2>3, ArgRecs, MoveType DEF IoDone
<1>15. CASE UNCHANGED vars
  BY <1>15 DEF vars
<1> QED BY <1>1, <1>2, <1>3, <1>4, <1>5, <1>6, <1>7, <1>8, <1>9, <1>10,
           <1>11, <1>12, <1>13, <1>14, <1>15
        DEF Next, Step

-----------------------------------------------------------------------------
(* Who is in a call, and which descriptors it has left behind.             *)

\* Dropping a reference forgets the descriptor: close(), and exitproc() for its next one.
LEMMA DropLife ==
  ASSUME FileTypeOK, LifeInv, NEW p \in Procs, NEW fd \in Fds, state[p] = "live",
         \/ Drop(p, fd, "wipe", "user")
         \/ Drop(p, fd, "exitwipe", "exit") /\ \A x \in Fds : x < fd => desc[p][x] = NoDesc
  PROVE  LifeInv'
<1> DEFINE a == arg'[p]
<1>1. /\ desc' = [desc EXCEPT ![p][fd] = NoDesc] /\ UNCHANGED <<ofile, state>>
      /\ ofile[p][fd] \in Files
      /\ \A r \in Procs \ {p} : pc'[r] = pc[r] /\ arg'[r] = arg[r]
  BY DEF Drop, Goto, FileTypeOK
<1>2. /\ pc'[p] \in {"wipe", "exitwipe"} => a.fd = fd
      /\ pc'[p] = "exit" => a.fd = fd + 1
  <2>1. ASSUME pc'[p] \in {"wipe", "exitwipe"} PROVE a = Locals(ofile[p][fd], fd)
    BY <2>1 DEF Drop, FileTypeOK, Locals
  <2>2. ASSUME pc'[p] = "exit" PROVE a = [NoArg EXCEPT !.fd = fd + 1]
    BY <2>2 DEF Drop, FileTypeOK
  <2>3. Locals(ofile[p][fd], fd).fd = fd
    BY <1>1, ArgFFd
  <2>4. [NoArg EXCEPT !.fd = fd + 1].fd = fd + 1
    BY ArgFd
  <2> QED BY <2>1, <2>2, <2>3, <2>4
<1>3. \A x \in Fds : desc'[p][x] = IF x = fd THEN NoDesc ELSE desc[p][x]
  BY <1>1 DEF FileTypeOK
<1>4. pc'[p] \in {"exit", "exitwipe"} => \A x \in Fds : x < a.fd => desc'[p][x] = NoDesc
  <2>1. ASSUME pc'[p] \in {"exit", "exitwipe"} PROVE \A x \in Fds : x < fd => desc[p][x] = NoDesc
    BY <2>1 DEF Drop, Goto, FileTypeOK
  <2>2. \A x \in Fds : x < fd + 1 => x < fd \/ x = fd
    BY DEF Fds
  <2> QED BY <1>2, <1>3, <2>1, <2>2
<1> HIDE DEF a
<1>5. \A r \in Procs \ {p} : desc'[r] = desc[r]
  BY <1>1 DEF FileTypeOK
<1> QED BY <1>1, <1>2, <1>3, <1>4, <1>5 DEF LifeInv, a

\* Clearing the file leaves the descriptors of LifeInv alone.
LEMMA WipeLife ==
  ASSUME FileTypeOK, LifeInv, NEW p \in Procs,
         Wipe(p, "wipe", "user") \/ Wipe(p, "exitwipe", "exit")
  PROVE  LifeInv'
<1>1. arg[p].fd \in Fds /\ desc[p][arg[p].fd] = NoDesc
  BY DEF Wipe, FileTypeOK, LifeInv
<1>2. /\ ofile' = [ofile EXCEPT ![p][arg[p].fd] = NULL] /\ UNCHANGED <<state, desc>>
      /\ \A r \in Procs \ {p} : pc'[r] = pc[r] /\ arg'[r] = arg[r]
      /\ pc'[p] \in {"user", "exit"} /\ pc[p] \in {"wipe", "exitwipe"}
  BY DEF Wipe, Goto, FileTypeOK
<1>3. pc'[p] = "exit" => pc[p] = "exitwipe" /\ arg'[p].fd = arg[p].fd + 1
  <2>1. ASSUME pc'[p] = "exit" PROVE pc[p] = "exitwipe" /\ arg'[p] = [NoArg EXCEPT !.fd = arg[p].fd + 1]
    BY <2>1 DEF Wipe, Goto, FileTypeOK
  <2> QED BY <1>1, <2>1, ArgFd
<1>4. pc'[p] = "exit" => \A x \in Fds : x < arg'[p].fd => desc[p][x] = NoDesc
  <2>1. \A x \in Fds : x < arg[p].fd + 1 => x < arg[p].fd \/ x = arg[p].fd
    BY <1>1 DEF Fds
  <2> QED BY <1>1, <1>3, <2>1 DEF LifeInv
<1>5. state[p] = "live"
  BY <1>2 DEF LifeInv, FileTypeOK
<1> QED BY <1>1, <1>2, <1>4, <1>5 DEF LifeInv, FileTypeOK

\* Every step keeps LifeInv; exitproc()'s loop skips only descriptors that are free.
LEMMA LifeStep ==
  ASSUME FileInv, [Next]_vars
  PROVE  LifeInv'
<1> USE DEF FileInv, FileTypeOK, LifeInv, Goto, InUser
<1>1. ASSUME NEW p \in Procs, NEW ino \in Inodes, NEW mode \in Modes, NEW dir \in BOOLEAN, OpenStart(p, ino, mode, dir)
      PROVE  LifeInv'
  BY <1>1 DEF OpenStart
<1>2. ASSUME NEW p \in Procs, alloc_file(p) PROVE LifeInv'
  <2>1. /\ pc[p] = "walk" /\ UNCHANGED <<ofile, state, desc>>
        /\ pc'[p] \in {"user", "fill"} /\ \A r \in Procs \ {p} : pc'[r] = pc[r] /\ arg'[r] = arg[r]
    BY <1>2 DEF alloc_file
  <2> QED BY <2>1
<1>3. ASSUME NEW p \in Procs, OpenFill(p) PROVE LifeInv'
  <2>1. /\ pc' = [pc EXCEPT ![p] = "user"] /\ UNCHANGED state /\ pc[p] = "fill"
        /\ arg' = [arg EXCEPT ![p] = NoArg]
    BY <1>3 DEF OpenFill
  <2>2. CASE UNCHANGED <<ofile, desc>>
    BY <2>1, <2>2
  <2>3. CASE ~ UNCHANGED <<ofile, desc>>
    <3> DEFINE fd == Least(Free(p))
    <3> DEFINE d == [ino |-> arg[p].ino, mode |-> arg[p].mode]
    <3>1. /\ Free(p) # {} /\ ofile' = [ofile EXCEPT ![p][fd] = arg[p].f]
          /\ desc' = [desc EXCEPT ![p][fd] = d]
      BY <1>3, <2>3 DEF OpenFill
    <3>2. fd \in Fds /\ arg[p].f \in Files /\ NULL \notin Files /\ state[p] = "live"
      BY <2>1, <3>1, Searches, DescRecs DEF Free
    <3> HIDE DEF fd, d
    <3> QED BY <2>1, <3>1, <3>2
  <2> QED BY <2>2, <2>3
<1>4. ASSUME NEW p \in Procs, NEW fd \in Fds, close(p, fd) PROVE LifeInv'
  BY <1>4, DropLife DEF close, InUser
<1>5. ASSUME NEW p \in Procs, NEW fd \in Fds, dup(p, fd) PROVE LifeInv'
  <2> DEFINE f == ofile[p][fd]
  <2> DEFINE new == Least(Free(p))
  <2>1. f \in Files /\ f # NULL /\ pc[p] = "user" /\ state[p] = "live"
    BY <1>5 DEF dup
  <2>3. new \in Fds
    BY <1>5, Searches DEF dup, Free
  <2>2. /\ ofile' = [ofile EXCEPT ![p][new] = f] /\ desc' = [desc EXCEPT ![p][new] = DescOf(f)]
        /\ UNCHANGED <<state, pc, arg>>
    BY <1>5 DEF dup
  <2> HIDE DEF f, new
  <2> QED BY <2>1, <2>2, <2>3
<1>6. ASSUME NEW p \in Procs, NEW fd \in Fds, NEW how, IoStart(p, fd, how)
      PROVE  LifeInv'
  BY <1>6 DEF IoStart
<1>7. ASSUME NEW p \in Procs, CloseWipe(p) PROVE LifeInv'
  BY <1>7, WipeLife DEF CloseWipe
<1>8. ASSUME NEW p \in Procs, exit(p) PROVE LifeInv'
  <2>1. /\ pc' = [pc EXCEPT ![p] = "exit"] /\ arg' = [arg EXCEPT ![p] = NoArg] /\ state[p] = "live"
        /\ UNCHANGED <<ofile, state, desc>>
    BY <1>8 DEF exit, InUser
  <2>2. \A fd \in Fds : ~ (fd < NoArg.fd)
    BY DEF NoArg, Fds
  <2> QED BY <2>1, <2>2
<1>9. ASSUME NEW p \in Procs, ExitClose(p) PROVE LifeInv'
  <2> DEFINE fd == Least(Rest(p))
  <2>1. fd \in Fds /\ \A x \in Fds : x < fd /\ x >= arg[p].fd => ofile[p][x] = NULL
    <3>1. fd \in Rest(p) /\ \A x \in Rest(p) : fd <= x
      BY <1>9, Searches DEF ExitClose
    <3>2. fd \in Fds
      BY <3>1 DEF Rest
    <3>3. ASSUME NEW x \in Fds, x < fd, x >= arg[p].fd PROVE ofile[p][x] = NULL
      <4>1. x \notin Rest(p)
        BY <3>1, <3>2, <3>3 DEF Fds
      <4> QED BY <3>3, <4>1 DEF Rest
    <3> QED BY <3>2, <3>3
  <2>2. Drop(p, fd, "exitwipe", "exit") /\ pc[p] = "exit" /\ state[p] = "live"
    BY <1>9 DEF ExitClose
  <2>3. \A x \in Fds : x < fd => desc[p][x] = NoDesc
    <3>1. arg[p].fd \in Int /\ Fds \subseteq Int
      BY ArgRecs DEF Fds
    <3> QED BY <2>1, <2>2, <3>1
  <2> HIDE DEF fd
  <2> QED BY <2>1, <2>2, <2>3, DropLife
<1>10. ASSUME NEW p \in Procs, ExitWipe(p) PROVE LifeInv'
  BY <1>10, WipeLife DEF ExitWipe
<1>11. ASSUME NEW p \in Procs, ExitZombie(p) PROVE LifeInv'
  <2>1. desc[p] = NoDescs
    <3>1. \A fd \in Fds : desc[p][fd] = NoDesc
      <4>1. arg[p].fd \in Int /\ Fds \subseteq Int
        BY ArgRecs DEF Fds
      <4> QED BY <1>11, <4>1 DEF ExitZombie, Rest
    <3> QED BY <3>1 DEF NoDescs
  <2> QED BY <1>11, <2>1 DEF ExitZombie
<1>12. ASSUME NEW p \in Procs, Reap(p) PROVE LifeInv'
  BY <1>12, DescRecs DEF Reap, NoDescs
<1>13. ASSUME NEW p \in Procs, NEW q \in Procs, fork(p, q) PROVE LifeInv'
  <2>1. \A fd \in Fds : DescOf(ofile[p][fd]) = NoDesc <=> ofile[p][fd] = NULL
    BY DescOfType
  <2>2. state[q] = "unused" /\ pc[q] = "user" /\ UNCHANGED <<pc, arg>>
    BY <1>13 DEF fork
  <2>3. /\ state' = [state EXCEPT ![q] = "live"] /\ ofile' = [ofile EXCEPT ![q] = ofile[p]]
        /\ desc' = [desc EXCEPT ![q] = [fd \in Fds |-> DescOf(ofile[p][fd])]]
    BY <1>13 DEF fork
  <2> QED BY <2>1, <2>2, <2>3
<1>14. ASSUME NEW p \in Procs, NEW n \in 0 .. 1, IoDone(p, n) PROVE LifeInv'
  BY <1>14, ArgRecs DEF IoDone
<1>15. CASE UNCHANGED vars
  BY <1>15 DEF vars
<1> QED BY <1>1, <1>2, <1>3, <1>4, <1>5, <1>6, <1>7, <1>8, <1>9, <1>10,
           <1>11, <1>12, <1>13, <1>14, <1>15
        DEF Next, Step

-----------------------------------------------------------------------------
(* The counts, one lemma per operation that changes them.                  *)

Transit == {"fill", "wipe", "exitwipe"}

\* Sets of descriptors are compared descriptor by descriptor.
LEMMA PairsEqual ==
  ASSUME NEW S \in SUBSET (Procs \X Fds), NEW T \in SUBSET (Procs \X Fds),
         \A p \in Procs, fd \in Fds : <<p, fd>> \in S <=> <<p, fd>> \in T
  PROVE  S = T
OBVIOUS

\* The numbers that the invariants are about.
LEMMA Numbers ==
  ASSUME FileTypeOK, NEW f \in Files
  PROVE  /\ IsFiniteSet(Open(f)) /\ Cardinality(Open(f)) \in Nat
         /\ IsFiniteSet(Taking(f)) /\ Cardinality(Taking(f)) \in Nat
         /\ Cardinality(Open(f)) = 0 <=> Open(f) = {}
         /\ Cardinality(Taking(f)) = 0 <=> Taking(f) = {}
         /\ file[f] \in FileRec /\ file[f].ref \in Nat
<1>1. file[f] \in FileRec
  BY DEF FileTypeOK
<1> QED BY <1>1, Counted, Countable, FileRecs

\* A file with no reference is nobody's; open() has its file alone.
LEMMA Alone ==
  ASSUME FileTypeOK, Exact, NEW f \in Files
  PROVE  /\ file[f].ref = 0 => Open(f) = {} /\ Taking(f) = {} /\ f \notin lost
         /\ \A p \in Taking(f) : file[f].ref = 1 => Open(f) = {} /\ Taking(f) = {p} /\ f \notin lost
<1>1. file[f].ref = Cardinality(Open(f)) + Cardinality(Taking(f)) + IF f \in lost THEN 1 ELSE 0
  BY DEF Exact, Owed
<1>2. ASSUME file[f].ref = 0 PROVE Open(f) = {} /\ Taking(f) = {} /\ f \notin lost
  BY <1>1, <1>2, Numbers
<1>3. ASSUME NEW p \in Taking(f), file[f].ref = 1
      PROVE  Open(f) = {} /\ Taking(f) = {p} /\ f \notin lost
  <2>1. Cardinality(Taking(f)) # 0
    BY <1>3, Numbers
  <2>2. Cardinality(Taking(f)) = 1 /\ Cardinality(Open(f)) = 0 /\ f \notin lost
    BY <1>1, <1>3, <2>1, Numbers
  <2>3. PICK r : Taking(f) = {r}
    BY <2>2, Numbers, FS_Singleton
  <2> QED BY <1>3, <2>2, <2>3, Numbers
<1> QED BY <1>2, <1>3

\* A step that leaves the references, the open descriptors and the files that are
\* changing hands alone.
LEMMA Quiet ==
  ASSUME FileTypeOK, BoundInv, ExactInv,
         \A f \in Files : /\ file'[f].ref = file[f].ref /\ file'[f].ino = file[f].ino
                          /\ file'[f].mode = file[f].mode,
         \A r \in Procs, x \in Fds :
            /\ desc'[r][x] = desc[r][x]
            /\ desc[r][x] # NoDesc => ofile'[r][x] = ofile[r][x],
         \A r \in Procs : pc'[r] \in Transit \/ pc[r] \in Transit =>
            pc'[r] = pc[r] /\ arg'[r].f = arg[r].f,
         UNCHANGED <<lost, broken>>
  PROVE  BoundInv' /\ ExactInv'
<1>1. ASSUME NEW f PROVE Open(f)' = Open(f)
  <2>1. Open(f)' \in SUBSET (Procs \X Fds) /\ Open(f) \in SUBSET (Procs \X Fds)
    BY DEF Open
  <2>2. \A r \in Procs, x \in Fds : <<r, x>> \in Open(f)' <=> <<r, x>> \in Open(f)
    BY DEF Open
  <2> QED BY <2>1, <2>2, PairsEqual
<1>2. ASSUME NEW f PROVE Taking(f)' = Taking(f) /\ (InTransit(f)' <=> InTransit(f))
  BY DEF Taking, InTransit, Transit
<1>3. \A f \in Files : Owed(f)' = Owed(f)
  BY <1>1, <1>2 DEF Owed
<1>4. BoundInv'
  BY <1>1, <1>3 DEF BoundInv
<1>5. ASSUME ~broken PROVE Exact' /\ Faithful' /\ TransitInv' /\ CleanInv'
  <2>1. Exact /\ Faithful /\ TransitInv /\ CleanInv
    BY <1>5 DEF ExactInv
  <2>2. Exact'
    BY <1>3, <2>1 DEF Exact
  <2>3. Faithful'
    <3>1. \A f \in Files \cup {NULL} : DescOf(f)' = DescOf(f)
      BY DEF DescOf
    <3>2. \A r \in Procs, x \in Fds : ofile[r][x] \in Files \cup {NULL}
      BY DEF FileTypeOK
    <3> QED BY <2>1, <3>1, <3>2 DEF Faithful
  <2>4. TransitInv'
    <3>1. ASSUME NEW r \in Procs, pc'[r] \in Transit
          PROVE  pc'[r] = pc[r] /\ arg'[r].f = arg[r].f /\ arg[r].f \in Files
      BY <3>1 DEF FileTypeOK, Transit
    <3>2. ASSUME NEW r \in Procs, pc'[r] = "fill"
          PROVE  file'[arg'[r].f].ref = 1 /\ file'[arg'[r].f].mode = {}
      BY <2>1, <3>1, <3>2 DEF TransitInv, Transit
    <3>3. ASSUME NEW r \in Procs, pc'[r] \in {"wipe", "exitwipe"}
          PROVE  file'[arg'[r].f].ref = 0
      BY <2>1, <3>1, <3>3 DEF TransitInv, Transit
    <3> QED BY <3>2, <3>3 DEF TransitInv
  <2>5. CleanInv'
    BY <1>2, <2>1 DEF CleanInv
  <2> QED BY <2>2, <2>3, <2>4, <2>5
<1> QED BY <1>4, <1>5 DEF ExactInv

\* A step of process p that touches one file, f: what is to be shown about f.
LEMMA Local ==
  ASSUME FileTypeOK, FileTypeOK', LifeInv', BoundInv, ExactInv,
         NEW p \in Procs, NEW f \in Files,
         \A r \in Procs \ {p} : pc'[r] = pc[r] /\ arg'[r].f = arg[r].f,
         pc[p] \in Transit => arg[p].f = f,
         pc'[p] \in Transit => arg'[p].f = f,
         \A r \in Procs, x \in Fds :
            \/ desc'[r][x] = desc[r][x] /\ ofile'[r][x] = ofile[r][x]
            \/ /\ desc[r][x] = NoDesc \/ ofile[r][x] = f
               /\ desc'[r][x] = NoDesc \/ ofile'[r][x] = f,
         \A g \in Files \ {f} : file'[g] = file[g] /\ (g \in lost' <=> g \in lost),
         file'[f].ref <= Owed(f)',
         file'[f].ref <= Cardinality(Open(f)') + 1,
         broken => broken',
         ~broken' => file'[f].ref = Owed(f)',
         ~broken' => \A r \in Procs : pc'[r] \in Transit /\ arg'[r].f = f =>
            /\ pc'[r] = "fill" => file'[f].ref = 1 /\ file'[f].mode = {}
            /\ pc'[r] # "fill" => file'[f].ref = 0,
         ~broken' => (file'[f].ref = 0 /\ ~InTransit(f)' => file'[f].mode = {}),
         ~broken' => \A r \in Procs, x \in Fds :
            desc'[r][x] # NoDesc /\ ofile'[r][x] = f =>
               desc'[r][x] = [ino |-> file'[f].ino, mode |-> file'[f].mode]
  PROVE  BoundInv' /\ ExactInv'
<1>1. ASSUME NEW g \in Files \ {f} PROVE Open(g)' = Open(g)
  <2>1. Open(g)' \in SUBSET (Procs \X Fds) /\ Open(g) \in SUBSET (Procs \X Fds)
    BY DEF Open
  <2>2. \A r \in Procs, x \in Fds : <<r, x>> \in Open(g)' <=> <<r, x>> \in Open(g)
    BY DEF Open
  <2> QED BY <2>1, <2>2, PairsEqual
<1>2. ASSUME NEW g \in Files \ {f} PROVE Taking(g)' = Taking(g) /\ (InTransit(g)' <=> InTransit(g))
  <2>1. \A r \in Procs : pc'[r] = "fill" /\ arg'[r].f = g <=> pc[r] = "fill" /\ arg[r].f = g
    BY DEF Transit
  <2>2. \A r \in Procs : pc'[r] \in Transit /\ arg'[r].f = g <=> pc[r] \in Transit /\ arg[r].f = g
    BY DEF Transit
  <2> QED BY <2>1, <2>2 DEF Taking, InTransit, Transit
<1>3. \A g \in Files \ {f} : Owed(g)' = Owed(g)
  BY <1>1, <1>2 DEF Owed
<1>4. BoundInv'
  BY <1>1, <1>3 DEF BoundInv
<1>5. ASSUME ~broken' PROVE Exact' /\ Faithful' /\ TransitInv' /\ CleanInv'
  <2>1. Exact /\ Faithful /\ TransitInv /\ CleanInv
    BY <1>5 DEF ExactInv
  <2>2. Exact'
    BY <1>3, <1>5, <2>1 DEF Exact
  <2>3. Faithful'
    <3> SUFFICES ASSUME NEW r \in Procs, NEW x \in Fds, desc'[r][x] # NoDesc
                 PROVE  ofile'[r][x] # NULL /\ DescOf(ofile[r][x])' = desc'[r][x]
      BY DEF Faithful
    <3>1. ofile'[r][x] \in Files /\ ofile'[r][x] # NULL
      BY DEF FileTypeOK, LifeInv
    <3>2. CASE ofile'[r][x] = f
      BY <1>5, <3>1, <3>2 DEF DescOf
    <3>3. CASE ofile'[r][x] # f
      <4>1. desc'[r][x] = desc[r][x] /\ ofile'[r][x] = ofile[r][x]
        BY <3>3
      <4>2. DescOf(ofile[r][x]) = desc[r][x]
        BY <2>1, <4>1 DEF Faithful
      <4>3. file'[ofile[r][x]] = file[ofile[r][x]]
        BY <3>1, <3>3, <4>1
      <4> QED BY <3>1, <4>1, <4>2, <4>3 DEF DescOf
    <3> QED BY <3>2, <3>3
  <2>4. TransitInv'
    <3>1. ASSUME NEW r \in Procs, pc'[r] \in Transit, arg'[r].f # f
          PROVE  /\ pc'[r] = pc[r] /\ arg'[r].f = arg[r].f /\ arg[r].f \in Files
                 /\ file'[arg[r].f] = file[arg[r].f]
      BY <3>1 DEF FileTypeOK, Transit
    <3>2. ASSUME NEW r \in Procs, pc'[r] = "fill"
          PROVE  file'[arg'[r].f].ref = 1 /\ file'[arg'[r].f].mode = {}
      BY <1>5, <2>1, <3>1, <3>2 DEF TransitInv, Transit
    <3>3. ASSUME NEW r \in Procs, pc'[r] \in {"wipe", "exitwipe"}
          PROVE  file'[arg'[r].f].ref = 0
      BY <1>5, <2>1, <3>1, <3>3 DEF TransitInv, Transit
    <3> QED BY <3>2, <3>3 DEF TransitInv
  <2>5. CleanInv'
    BY <1>2, <1>5, <2>1 DEF CleanInv
  <2> QED BY <2>2, <2>3, <2>4, <2>5
<1> QED BY <1>4, <1>5 DEF ExactInv

\* Before anything went wrong, no process is about to fill in or to clear a file
\* that a descriptor is open on.
LEMMA OpenSettled ==
  ASSUME FileTypeOK, Exact, TransitInv, NEW f \in Files, Open(f) # {}
  PROVE  ~InTransit(f) /\ file[f].ref > 0
<1>1. file[f].ref > 0
  BY Alone, Numbers
<1>2. ASSUME NEW r \in Procs, pc[r] \in Transit, arg[r].f = f PROVE FALSE
  <2>1. CASE pc[r] = "fill"
    <3>1. r \in Taking(f) /\ file[f].ref = 1
      BY <1>2, <2>1 DEF Taking, TransitInv
    <3> QED BY <3>1, Alone
  <2>2. CASE pc[r] \in {"wipe", "exitwipe"}
    BY <1>1, <1>2, <2>2 DEF TransitInv
  <2> QED BY <1>2, <2>1, <2>2 DEF Transit
<1> QED BY <1>1, <1>2 DEF InTransit, Transit

\* The counts after a step.
LEMMA SetCounts ==
  /\ \A f : Open(f)' \in SUBSET (Procs \X Fds) /\ Taking(f)' \in SUBSET Procs
  /\ \A f : Cardinality(Open(f)') \in Nat /\ Cardinality(Taking(f)') \in Nat
  /\ \A f : Owed(f)' = Cardinality(Open(f)') + Cardinality(Taking(f)')
                       + IF f \in lost' THEN 1 ELSE 0
<1>1. \A f : Open(f)' \in SUBSET (Procs \X Fds) /\ Taking(f)' \in SUBSET Procs
  BY DEF Open, Taking
<1>2. \A f : Owed(f)' = Cardinality(Open(f)') + Cardinality(Taking(f)')
                       + IF f \in lost' THEN 1 ELSE 0
  BY DEF Owed
<1> QED BY <1>1, <1>2, Countable

\* One descriptor more is open on f.
LEMMA OpenPlus ==
  ASSUME FileTypeOK, FileTypeOK', NEW p \in Procs, NEW x \in Fds, NEW f \in Files,
         ofile[p][x] = NULL, ofile'[p][x] = f, desc'[p][x] # NoDesc,
         \A r \in Procs, y \in Fds : <<r, y>> # <<p, x>> =>
            desc'[r][y] = desc[r][y] /\ ofile'[r][y] = ofile[r][y]
  PROVE  Cardinality(Open(f)') = Cardinality(Open(f)) + 1
<1>1. Open(f)' = Open(f) \cup {<<p, x>>}
  <2>1. /\ Open(f)' \in SUBSET (Procs \X Fds)
        /\ Open(f) \cup {<<p, x>>} \in SUBSET (Procs \X Fds)
    BY DEF Open
  <2>2. \A r \in Procs, y \in Fds :
           <<r, y>> \in Open(f)' <=> <<r, y>> \in Open(f) \cup {<<p, x>>}
    BY DEF Open
  <2> HIDE DEF Open
  <2> QED BY <2>1, <2>2, PairsEqual
<1>2. <<p, x>> \notin Open(f)
  BY DescRecs DEF Open
<1> QED BY <1>1, <1>2, Numbers, CountOne

\* One descriptor is forgotten.
LEMMA OpenMinus ==
  ASSUME FileTypeOK, FileTypeOK', NEW p \in Procs, NEW x \in Fds, NEW f \in Files,
         desc'[p][x] = NoDesc, UNCHANGED ofile,
         \A r \in Procs, y \in Fds : <<r, y>> # <<p, x>> => desc'[r][y] = desc[r][y]
  PROVE  /\ <<p, x>> \in Open(f) => Cardinality(Open(f)') = Cardinality(Open(f)) - 1
         /\ <<p, x>> \notin Open(f) => Open(f)' = Open(f)
<1>1. Open(f)' = Open(f) \ {<<p, x>>}
  <2>1. /\ Open(f)' \in SUBSET (Procs \X Fds)
        /\ Open(f) \ {<<p, x>>} \in SUBSET (Procs \X Fds)
    BY DEF Open
  <2>2. \A r \in Procs, y \in Fds :
           <<r, y>> \in Open(f)' <=> <<r, y>> \in Open(f) \ {<<p, x>>}
    BY DEF Open
  <2> HIDE DEF Open
  <2> QED BY <2>1, <2>2, PairsEqual
<1> QED BY <1>1, Numbers, CountOne

\* alloc_file() takes f for an open().
LEMMA TakingPlus ==
  ASSUME FileTypeOK, NEW p \in Procs, NEW f \in Files, pc[p] # "fill",
         pc'[p] = "fill", arg'[p].f = f,
         \A r \in Procs \ {p} : pc'[r] = pc[r] /\ arg'[r].f = arg[r].f
  PROVE  Cardinality(Taking(f)') = Cardinality(Taking(f)) + 1
<1>1. Taking(f)' = Taking(f) \cup {p} /\ p \notin Taking(f)
  BY DEF Taking
<1> QED BY <1>1, Numbers, CountOne

\* open() has filled in its file.
LEMMA TakingMinus ==
  ASSUME FileTypeOK, NEW p \in Procs, NEW f \in Files, pc[p] = "fill", arg[p].f = f,
         pc'[p] # "fill",
         \A r \in Procs \ {p} : pc'[r] = pc[r] /\ arg'[r].f = arg[r].f
  PROVE  Cardinality(Taking(f)') = Cardinality(Taking(f)) - 1
<1>1. Taking(f)' = Taking(f) \ {p} /\ p \in Taking(f)
  BY DEF Taking
<1> QED BY <1>1, Numbers, CountOne

\* close() and exitproc() drop a reference: the one of the descriptor, unless it
\* was closed before.
LEMMA DropCount ==
  ASSUME FileInv, FileTypeOK', LifeInv', NEW p \in Procs, NEW fd \in Fds,
         pc[p] \notin Transit,
         Drop(p, fd, "wipe", "user") \/ Drop(p, fd, "exitwipe", "exit")
  PROVE  BoundInv' /\ ExactInv'
<1> USE DEF FileInv
<1>1. PICK f \in Files : f = ofile[p][fd]
  BY DEF Drop, FileTypeOK
<1>2. /\ UNCHANGED <<ofile, state, lost>> /\ desc'[p][fd] = NoDesc
      /\ \A r \in Procs, y \in Fds : <<r, y>> # <<p, fd>> => desc'[r][y] = desc[r][y]
  BY <1>1 DEF Drop, FileTypeOK
<1>8. /\ broken => broken'
      /\ ~broken' => ~broken /\ (file[f].ref > 0 => desc[p][fd] # NoDesc)
      /\ ~broken' => UNCHANGED broken
  BY <1>1 DEF Drop, FileTypeOK
<1>3. /\ \A r \in Procs \ {p} : pc'[r] = pc[r] /\ arg'[r].f = arg[r].f
      /\ pc'[p] \in Transit => arg'[p].f = f
      /\ file[f].ref = 1 <=> pc'[p] \in {"wipe", "exitwipe"}
      /\ pc'[p] # "fill"
  <2>1. ASSUME pc'[p] \in Transit PROVE arg'[p] = Locals(f, fd)
    BY <1>1, <2>1 DEF Drop, Goto, FileTypeOK, Transit, Locals
  <2>2. Locals(f, fd).f = f
    BY <1>1, ArgFFd
  <2>3. \A r \in Procs \ {p} : pc'[r] = pc[r] /\ arg'[r] = arg[r]
    BY <1>1 DEF Drop, Goto, FileTypeOK
  <2>4. (file[f].ref = 1 <=> pc'[p] \in {"wipe", "exitwipe"}) /\ pc'[p] # "fill"
    BY <1>1 DEF Drop, Goto, FileTypeOK
  <2> QED BY <2>1, <2>2, <2>3, <2>4
<1>4. file[f].ref \in Nat /\ file[f] \in FileRec
  BY <1>1, Numbers
<1>5. /\ <<p, fd>> \in Open(f) <=> desc[p][fd] # NoDesc
      /\ <<p, fd>> \in Open(f) => Cardinality(Open(f)') = Cardinality(Open(f)) - 1
      /\ <<p, fd>> \notin Open(f) => Open(f)' = Open(f)
      /\ Taking(f)' = Taking(f)
  <2>1. <<p, fd>> \in Open(f) <=> desc[p][fd] # NoDesc
    BY <1>1, Counted
  <2>2. Taking(f)' = Taking(f)
    BY <1>3 DEF Taking, Transit
  <2> QED BY <1>1, <1>2, <2>1, <2>2, OpenMinus
<1>9. \A r \in Procs, x \in Fds :
         \/ desc'[r][x] = desc[r][x] /\ ofile'[r][x] = ofile[r][x]
         \/ /\ desc[r][x] = NoDesc \/ ofile[r][x] = f
            /\ desc'[r][x] = NoDesc \/ ofile'[r][x] = f
  BY <1>1, <1>2
<1>6. ASSUME file[f].ref = 0 PROVE BoundInv' /\ ExactInv'
  <2>1. file' = file
    BY <1>1, <1>6 DEF Drop
  <2>2. CASE ~broken'
    <3>1. desc[p][fd] = NoDesc
      <4>1. Exact
        BY <1>8, <2>2 DEF ExactInv
      <4> QED BY <1>1, <1>5, <1>6, <4>1, Alone
    <3>2. \A r \in Procs, y \in Fds : desc'[r][y] = desc[r][y]
      BY <1>2, <3>1
    <3>3. UNCHANGED <<lost, broken>>
      BY <1>2, <1>8, <2>2
    <3>4. \A r \in Procs : pc'[r] \in Transit \/ pc[r] \in Transit =>
             pc'[r] = pc[r] /\ arg'[r].f = arg[r].f
      BY <1>3, <1>6 DEF Transit, FileTypeOK
    <3> QED BY <1>2, <2>1, <3>2, <3>3, <3>4, Quiet
  <2>3. CASE broken'
    <3>1. file'[f].ref <= Owed(f)' /\ file'[f].ref <= Cardinality(Open(f)') + 1
      BY <1>6, <2>1, SetCounts
    <3> QED BY <1>1, <1>2, <1>3, <2>1, <1>8, <2>3, <1>9, <3>1, Local
  <2> QED BY <1>2, <2>2, <2>3
<1>7. ASSUME file[f].ref # 0 PROVE BoundInv' /\ ExactInv'
  <2>1. /\ file' = [file EXCEPT ![f] = [file[f] EXCEPT !.ref = file[f].ref - 1]]
        /\ file[f].ref - 1 \in Nat
    BY <1>1, <1>4, <1>7 DEF Drop
  <2>2. /\ file'[f].ref = file[f].ref - 1 /\ file'[f].ino = file[f].ino
        /\ file'[f].mode = file[f].mode /\ \A g \in Files \ {f} : file'[g] = file[g]
    <3>1. file'[f] = [file[f] EXCEPT !.ref = file[f].ref - 1]
      BY <1>1, <2>1 DEF FileTypeOK
    <3>2. \A g \in Files \ {f} : file'[g] = file[g]
      BY <2>1 DEF FileTypeOK
    <3>3. LET r == [file[f] EXCEPT !.ref = file[f].ref - 1]
          IN  r.ref = file[f].ref - 1 /\ r.ino = file[f].ino /\ r.mode = file[f].mode
      BY <1>4, <2>1, RefRec
    <3> QED BY <3>1, <3>2, <3>3
  <2>3. /\ file[f].ref <= Cardinality(Open(f)) + Cardinality(Taking(f)) + IF f \in lost THEN 1 ELSE 0
        /\ file[f].ref <= Cardinality(Open(f)) + 1
    BY <1>1 DEF BoundInv, Owed
  <2>4. file'[f].ref <= Owed(f)' /\ file'[f].ref <= Cardinality(Open(f)') + 1
    <3>1. Cardinality(Open(f)) \in Nat /\ Cardinality(Taking(f)) \in Nat
      BY <1>1, Numbers
    <3> QED BY <1>2, <1>4, <1>5, <2>2, <2>3, <3>1, SetCounts
  <2>5. ASSUME ~broken'
        PROVE  /\ file'[f].ref = Owed(f)' /\ ~InTransit(f)
               /\ \A r \in Procs, x \in Fds : desc[r][x] # NoDesc /\ ofile[r][x] = f =>
                     desc[r][x] = [ino |-> file[f].ino, mode |-> file[f].mode]
    <3>1. Exact /\ TransitInv /\ Faithful /\ <<p, fd>> \in Open(f)
      BY <1>8, <1>4, <1>5, <1>7, <2>5 DEF ExactInv
    <3>2. file[f].ref = Cardinality(Open(f)) + Cardinality(Taking(f)) + IF f \in lost THEN 1 ELSE 0
      BY <1>1, <3>1 DEF Exact, Owed
    <3>3. Cardinality(Open(f)) \in Nat /\ Cardinality(Taking(f)) \in Nat
      BY <1>1, Numbers
    <3>4. ~InTransit(f)
      BY <1>1, <3>1, OpenSettled
    <3>5. \A r \in Procs, x \in Fds : desc[r][x] # NoDesc /\ ofile[r][x] = f =>
             desc[r][x] = [ino |-> file[f].ino, mode |-> file[f].mode]
      BY <1>1, <3>1, DescRecs DEF Faithful, DescOf
    <3> QED BY <1>2, <1>5, <2>2, <3>1, <3>2, <3>3, <3>4, <3>5, SetCounts
  <2>6. ~broken' => \A r \in Procs : pc'[r] \in Transit /\ arg'[r].f = f =>
          r = p /\ pc'[r] # "fill" /\ file'[f].ref = 0
    BY <1>3, <2>2, <2>5 DEF InTransit, Transit
  <2>7. ~broken' => (file'[f].ref = 0 /\ ~InTransit(f)' => file'[f].mode = {})
    BY <1>3, <1>4, <2>2 DEF InTransit, Transit
  <2>8. ~broken' => \A r \in Procs, x \in Fds :
            desc'[r][x] # NoDesc /\ ofile'[r][x] = f =>
               desc'[r][x] = [ino |-> file'[f].ino, mode |-> file'[f].mode]
    BY <1>1, <1>2, <2>2, <2>5
  <2>10. ~broken' => file'[f].ref = Owed(f)'
    BY <2>5
  <2>11. ~broken' => \A r \in Procs : pc'[r] \in Transit /\ arg'[r].f = f =>
            /\ pc'[r] = "fill" => file'[f].ref = 1 /\ file'[f].mode = {}
            /\ pc'[r] # "fill" => file'[f].ref = 0
    BY <2>6
  <2> QED BY <1>1, <1>2, <1>3, <2>2, <2>4, <2>7, <1>8, <2>8, <1>9, <2>10, <2>11, Local
<1> QED BY <1>6, <1>7

\* close() and exitproc() clear the file: nobody's, unless something went wrong.
LEMMA WipeCount ==
  ASSUME FileInv, FileTypeOK', LifeInv', NEW p \in Procs,
         Wipe(p, "wipe", "user") \/ Wipe(p, "exitwipe", "exit")
  PROVE  BoundInv' /\ ExactInv'
<1> USE DEF FileInv
<1>1. PICK f \in Files, fd \in Fds : f = arg[p].f /\ fd = arg[p].fd /\ desc[p][fd] = NoDesc
  BY DEF Wipe, FileTypeOK, LifeInv
<1>2. /\ ofile' = [ofile EXCEPT ![p][fd] = NULL] /\ UNCHANGED <<desc, lost, broken>>
      /\ \A r \in Procs \ {p} : pc'[r] = pc[r] /\ arg'[r].f = arg[r].f
      /\ pc[p] \in {"wipe", "exitwipe"} /\ pc'[p] \in {"user", "exit"}
  BY <1>1 DEF Wipe, Goto, FileTypeOK
<1>3. file'[f].ref = 0 /\ file'[f].mode = {} /\ \A g \in Files \ {f} : file'[g] = file[g]
  <2>1. file' = [file EXCEPT ![f] = Zero]
    BY <1>1 DEF Wipe
  <2>2. file'[f] = Zero /\ \A g \in Files \ {f} : file'[g] = file[g]
    BY <2>1 DEF FileTypeOK
  <2> QED BY <2>2, FileRecs
<1>4. \A r \in Procs, x \in Fds :
         \/ desc'[r][x] = desc[r][x] /\ ofile'[r][x] = ofile[r][x]
         \/ /\ desc[r][x] = NoDesc \/ ofile[r][x] = f
            /\ desc'[r][x] = NoDesc \/ ofile'[r][x] = f
  BY <1>1, <1>2 DEF FileTypeOK
<1>5. file'[f].ref <= Owed(f)' /\ file'[f].ref <= Cardinality(Open(f)') + 1
  BY <1>3, SetCounts
<1>6. ASSUME ~broken'
      PROVE  /\ Owed(f)' = 0
             /\ \A r \in Procs : pc'[r] = "fill" => arg'[r].f # f
             /\ \A r \in Procs, x \in Fds : ~ (desc'[r][x] # NoDesc /\ ofile'[r][x] = f)
  <2>1. Exact /\ TransitInv
    BY <1>2, <1>6 DEF ExactInv
  <2>2. file[f].ref = 0
    BY <1>1, <1>2, <2>1 DEF TransitInv
  <2>3. Open(f) = {} /\ Taking(f) = {} /\ f \notin lost
    BY <2>1, <2>2, Alone
  <2>4. \A r \in Procs : pc'[r] = "fill" => arg'[r].f # f
    BY <1>2, <2>3 DEF Taking
  <2>5. \A r \in Procs, x \in Fds : ~ (desc'[r][x] # NoDesc /\ ofile'[r][x] = f)
    <3>1. \A r \in Procs, x \in Fds : ~ (desc[r][x] # NoDesc /\ ofile[r][x] = f)
      BY <2>3, Counted
    <3> QED BY <1>1, <1>2, <3>1 DEF FileTypeOK
  <2>6. Open(f)' = {} /\ Taking(f)' = {}
    <3>1. Taking(f)' = {}
      BY <2>4 DEF Taking
    <3>2. Open(f)' = {}
      BY <2>5 DEF Open
    <3> QED BY <3>1, <3>2
  <2> QED BY <1>2, <2>3, <2>4, <2>5, <2>6, SetCounts, Countable
<1>7. ~broken' => file'[f].ref = Owed(f)'
  BY <1>3, <1>6
<1>8. ~broken' => \A r \in Procs : pc'[r] \in Transit /\ arg'[r].f = f =>
         /\ pc'[r] = "fill" => file'[f].ref = 1 /\ file'[f].mode = {}
         /\ pc'[r] # "fill" => file'[f].ref = 0
  BY <1>3, <1>6
<1>9. ~broken' => \A r \in Procs, x \in Fds :
         desc'[r][x] # NoDesc /\ ofile'[r][x] = f =>
            desc'[r][x] = [ino |-> file'[f].ino, mode |-> file'[f].mode]
  BY <1>6
<1>10. /\ pc[p] \in Transit => arg[p].f = f
       /\ pc'[p] \in Transit => arg'[p].f = f
  BY <1>1, <1>2 DEF Transit
<1> QED BY <1>2, <1>3, <1>4, <1>5, <1>7, <1>8, <1>9, <1>10, Local, ZenonT(30)

\* alloc_file() takes the first file with no reference.
LEMMA AllocCount ==
  ASSUME FileInv, FileTypeOK', LifeInv', NEW p \in Procs, alloc_file(p), Unused # {}
  PROVE  BoundInv' /\ ExactInv'
<1> USE DEF FileInv
<1>1. PICK f \in Files : f = Least(Unused) /\ file[f].ref = 0
  BY Searches DEF Unused
<1>2. /\ file' = [file EXCEPT ![f] = [file[f] EXCEPT !.ref = 1]]
      /\ arg' = [arg EXCEPT ![p] = [arg[p] EXCEPT !.f = f]]
      /\ pc[p] = "walk" /\ pc' = [pc EXCEPT ![p] = "fill"]
      /\ UNCHANGED <<ofile, desc, lost>>
  BY <1>1 DEF alloc_file, Goto
<1>3. (broken => broken') /\ (~broken' => ~broken /\ ~InTransit(f))
  BY <1>1 DEF alloc_file
<1>4. /\ \A r \in Procs \ {p} : pc'[r] = pc[r] /\ arg'[r].f = arg[r].f
      /\ pc'[p] = "fill" /\ arg'[p].f = f
  <2>1. [arg[p] EXCEPT !.f = f].f = f
    BY ArgF DEF FileTypeOK
  <2>2. arg'[p] = [arg[p] EXCEPT !.f = f] /\ \A r \in Procs \ {p} : arg'[r] = arg[r]
    BY <1>2 DEF FileTypeOK
  <2> QED BY <1>2, <2>1, <2>2 DEF FileTypeOK
<1>5. /\ file'[f].ref = 1 /\ file'[f].mode = file[f].mode
      /\ \A g \in Files \ {f} : file'[g] = file[g]
  <2>1. [file[f] EXCEPT !.ref = 1].ref = 1 /\ [file[f] EXCEPT !.ref = 1].mode = file[f].mode
    BY RefRec, Numbers
  <2>2. file'[f] = [file[f] EXCEPT !.ref = 1] /\ \A g \in Files \ {f} : file'[g] = file[g]
    BY <1>2 DEF FileTypeOK
  <2> QED BY <2>1, <2>2
<1>6. Open(f)' = Open(f) /\ Cardinality(Taking(f)') = Cardinality(Taking(f)) + 1
  <2>1. Open(f)' = Open(f)
    BY <1>2 DEF Open
  <2>2. Cardinality(Taking(f)') = Cardinality(Taking(f)) + 1
    BY <1>2, <1>4, TakingPlus
  <2> QED BY <2>1, <2>2
<1>7. file'[f].ref <= Owed(f)' /\ file'[f].ref <= Cardinality(Open(f)') + 1
  BY <1>5, <1>6, SetCounts, Numbers
<1>8. ASSUME ~broken'
      PROVE  /\ Owed(f)' = 1 /\ Open(f) = {} /\ file[f].mode = {}
  <2>1. Exact /\ CleanInv /\ ~InTransit(f)
    BY <1>3, <1>8 DEF ExactInv
  <2>2. Open(f) = {} /\ Taking(f) = {} /\ f \notin lost
    BY <1>1, <2>1, Alone
  <2>3. Cardinality(Open(f)) = 0 /\ Cardinality(Taking(f)) = 0
    BY <2>2, Numbers
  <2>4. file[f].mode = {}
    BY <1>1, <2>1 DEF CleanInv
  <2>5. Cardinality(Open(f)') = 0 /\ Cardinality(Taking(f)') = 1 /\ f \notin lost'
    BY <1>2, <1>6, <2>2, <2>3
  <2>6. Owed(f)' = 1
    BY <2>5, SetCounts
  <2> QED BY <2>2, <2>4, <2>6
<1>9. ~broken' => file'[f].ref = Owed(f)'
  BY <1>5, <1>8
<1>10. ~broken' => \A r \in Procs : pc'[r] \in Transit /\ arg'[r].f = f =>
         /\ pc'[r] = "fill" => file'[f].ref = 1 /\ file'[f].mode = {}
         /\ pc'[r] # "fill" => file'[f].ref = 0
  BY <1>3, <1>4, <1>5, <1>8 DEF InTransit, Transit
<1>11. ~broken' => (file'[f].ref = 0 /\ ~InTransit(f)' => file'[f].mode = {})
  BY <1>5
<1>12. ~broken' => \A r \in Procs, x \in Fds :
         desc'[r][x] # NoDesc /\ ofile'[r][x] = f =>
            desc'[r][x] = [ino |-> file'[f].ino, mode |-> file'[f].mode]
  <2>1. \A r \in Procs, x \in Fds : desc'[r][x] # NoDesc /\ ofile'[r][x] = f => <<r, x>> \in Open(f)
    BY <1>2, Counted
  <2> QED BY <1>8, <2>1
<1>13. /\ \A r \in Procs, x \in Fds : desc'[r][x] = desc[r][x] /\ ofile'[r][x] = ofile[r][x]
       /\ pc[p] \notin Transit
  BY <1>2 DEF Transit
<1> QED BY <1>2, <1>3, <1>4, <1>5, <1>7, <1>9, <1>10, <1>11, <1>12, <1>13, Local

\* open() has filled in its file and takes a descriptor, or fails and keeps it.
LEMMA FillCount ==
  ASSUME FileInv, FileTypeOK', LifeInv', NEW p \in Procs, OpenFill(p)
  PROVE  BoundInv' /\ ExactInv'
<1> USE DEF FileInv
<1>1. PICK f \in Files : f = arg[p].f
  BY DEF OpenFill, FileTypeOK
<1>2. arg[p].ino \in Inodes \cup {NULL} /\ arg[p].mode \in Mode
  BY ArgRecs DEF FileTypeOK
<1>3. /\ pc[p] = "fill" /\ pc'[p] = "user" /\ UNCHANGED broken
      /\ \A r \in Procs \ {p} : pc'[r] = pc[r] /\ arg'[r].f = arg[r].f
  BY DEF OpenFill, Goto, FileTypeOK
<1>4. /\ file'[f].ref = file[f].ref /\ file'[f].ino = arg[p].ino
      /\ file'[f].mode = file[f].mode \cup arg[p].mode
      /\ \A g \in Files \ {f} : file'[g] = file[g]
  <2>1. file' = [file EXCEPT ![f] = Opened(file[f], arg[p].ino, arg[p].mode)]
    BY <1>1 DEF OpenFill
  <2>2. /\ file'[f] = Opened(file[f], arg[p].ino, arg[p].mode)
        /\ \A g \in Files \ {f} : file'[g] = file[g]
    BY <2>1 DEF FileTypeOK
  <2>3. file[f] \in FileRec
    BY Numbers
  <2> QED BY <1>2, <2>2, <2>3, OpenedRec
<1>5. Cardinality(Taking(f)') = Cardinality(Taking(f)) - 1
  BY <1>1, <1>3, TakingMinus
<1>6. /\ file[f].ref <= Cardinality(Open(f)) + Cardinality(Taking(f)) + IF f \in lost THEN 1 ELSE 0
      /\ file[f].ref <= Cardinality(Open(f)) + 1
  BY DEF BoundInv, Owed
<1>7. ASSUME ~broken'
      PROVE  /\ file[f].ref = 1 /\ file[f].mode = {} /\ f \notin lost /\ Open(f) = {}
             /\ Cardinality(Taking(f)') = 0 /\ Cardinality(Open(f)) = 0
             /\ \A r \in Procs : ~ (pc'[r] \in Transit /\ arg'[r].f = f)
  <2>1. Exact /\ TransitInv
    BY <1>3, <1>7 DEF ExactInv
  <2>2. file[f].ref = 1 /\ file[f].mode = {} /\ p \in Taking(f)
    BY <1>1, <1>3, <2>1 DEF TransitInv, Taking
  <2>3. Open(f) = {} /\ Taking(f) = {p} /\ f \notin lost
    BY <2>1, <2>2, Alone
  <2>4. \A r \in Procs : ~ (pc'[r] \in Transit /\ arg'[r].f = f)
    <3> SUFFICES ASSUME NEW r \in Procs, pc'[r] \in Transit, arg'[r].f = f PROVE FALSE
      OBVIOUS
    <3>1. r # p /\ pc[r] \in Transit /\ arg[r].f = f
      BY <1>3 DEF Transit
    <3>2. CASE pc[r] = "fill"
      BY <2>3, <3>1, <3>2 DEF Taking
    <3>3. CASE pc[r] # "fill"
      <4>1. pc[r] \in {"wipe", "exitwipe"}
        BY <3>1, <3>3 DEF Transit
      <4> QED BY <2>1, <2>2, <3>1, <4>1 DEF TransitInv
    <3> QED BY <3>2, <3>3
  <2>5. Taking(f)' = {}
    BY <2>4 DEF Taking, Transit
  <2> QED BY <2>2, <2>3, <2>4, <2>5, SetCounts, Countable, Numbers
<1>8. Cardinality(Open(f)) \in Nat /\ Cardinality(Taking(f)) \in Nat /\ file[f].ref \in Nat
      /\ Cardinality(Taking(f)') \in Nat
  BY Numbers, SetCounts
<1>9. /\ ~broken' => \A r \in Procs : pc'[r] \in Transit /\ arg'[r].f = f =>
            /\ pc'[r] = "fill" => file'[f].ref = 1 /\ file'[f].mode = {}
            /\ pc'[r] # "fill" => file'[f].ref = 0
      /\ ~broken' => (file'[f].ref = 0 /\ ~InTransit(f)' => file'[f].mode = {})
  BY <1>4, <1>7
<1>14. /\ broken => broken'
       /\ pc[p] \in Transit => arg[p].f = f
       /\ pc'[p] \in Transit => arg'[p].f = f
       /\ \A r \in Procs \ {p} : pc'[r] = pc[r] /\ arg'[r].f = arg[r].f
  BY <1>1, <1>3 DEF Transit
<1>10. ASSUME UNCHANGED <<ofile, desc>>, lost' = lost \cup {f} PROVE BoundInv' /\ ExactInv'
  <2>1. Open(f)' = Open(f) /\ f \in lost'
    BY <1>10 DEF Open
  <2>2. Owed(f)' = Cardinality(Open(f)) + Cardinality(Taking(f)') + 1
    BY <2>1, SetCounts
  <2>3. file'[f].ref <= Owed(f)' /\ file'[f].ref <= Cardinality(Open(f)') + 1
    BY <1>4, <1>6, <1>8, <2>1, <2>2
  <2>4. ~broken' => file'[f].ref = Owed(f)'
    BY <1>4, <1>7, <2>2
  <2>5. ~broken' => \A r \in Procs, x \in Fds :
           desc'[r][x] # NoDesc /\ ofile'[r][x] = f =>
              desc'[r][x] = [ino |-> file'[f].ino, mode |-> file'[f].mode]
    <3>1. \A r \in Procs, x \in Fds : desc'[r][x] # NoDesc /\ ofile'[r][x] = f => <<r, x>> \in Open(f)
      BY <1>10, Counted
    <3> QED BY <1>7, <3>1
  <2>6. \A r \in Procs, x \in Fds :
           \/ desc'[r][x] = desc[r][x] /\ ofile'[r][x] = ofile[r][x]
           \/ /\ desc[r][x] = NoDesc \/ ofile[r][x] = f
              /\ desc'[r][x] = NoDesc \/ ofile'[r][x] = f
    BY <1>10
  <2>7. \A g \in Files \ {f} : g \in lost' <=> g \in lost
    BY <1>10
  <2> QED BY <1>4, <1>9, <1>14, <2>3, <2>4, <2>5, <2>6, <2>7, Local, ZenonT(30)
<1>11. ASSUME NEW fd \in Fds, ofile[p][fd] = NULL, ofile' = [ofile EXCEPT ![p][fd] = f],
              desc' = [desc EXCEPT ![p][fd] = [ino |-> arg[p].ino, mode |-> arg[p].mode]],
              UNCHANGED lost
       PROVE  BoundInv' /\ ExactInv'
  <2>1. /\ ofile'[p][fd] = f /\ desc'[p][fd] = [ino |-> arg[p].ino, mode |-> arg[p].mode]
        /\ desc'[p][fd] # NoDesc /\ desc[p][fd] = NoDesc
        /\ \A r \in Procs, y \in Fds : <<r, y>> # <<p, fd>> =>
              desc'[r][y] = desc[r][y] /\ ofile'[r][y] = ofile[r][y]
    <3>1. [ino |-> arg[p].ino, mode |-> arg[p].mode] # NoDesc
      BY <1>2, DescRecs
    <3>2. desc[p][fd] = NoDesc
      BY <1>11 DEF LifeInv
    <3> DEFINE d == [ino |-> arg[p].ino, mode |-> arg[p].mode]
    <3>3. /\ ofile'[p][fd] = f /\ desc'[p][fd] = d
          /\ \A r \in Procs, y \in Fds : <<r, y>> # <<p, fd>> =>
                desc'[r][y] = desc[r][y] /\ ofile'[r][y] = ofile[r][y]
      <4>1. desc' = [desc EXCEPT ![p][fd] = d] /\ ofile' = [ofile EXCEPT ![p][fd] = f]
        BY <1>11
      <4> HIDE DEF d
      <4> QED BY <4>1 DEF FileTypeOK
    <3> QED BY <3>1, <3>2, <3>3
  <2>2. Cardinality(Open(f)') = Cardinality(Open(f)) + 1
    BY <1>11, <2>1, OpenPlus
  <2>3. Owed(f)' = Cardinality(Open(f)) + 1 + Cardinality(Taking(f)') + IF f \in lost THEN 1 ELSE 0
    BY <1>11, <2>2, SetCounts
  <2>4. file'[f].ref <= Owed(f)' /\ file'[f].ref <= Cardinality(Open(f)') + 1
    BY <1>4, <1>5, <1>6, <1>8, <2>2, <2>3
  <2>5. ~broken' => file'[f].ref = Owed(f)'
    BY <1>4, <1>7, <2>3
  <2>6. ~broken' => \A r \in Procs, x \in Fds :
           desc'[r][x] # NoDesc /\ ofile'[r][x] = f =>
              desc'[r][x] = [ino |-> file'[f].ino, mode |-> file'[f].mode]
    <3>1. \A r \in Procs, x \in Fds : desc'[r][x] # NoDesc /\ ofile'[r][x] = f =>
             <<r, x>> \in Open(f) \/ (r = p /\ x = fd)
      BY <2>1, Counted
    <3>2. ~broken' => file'[f].mode = arg[p].mode
      BY <1>4, <1>7
    <3> QED BY <1>4, <1>7, <2>1, <3>1, <3>2
  <2>7. \A r \in Procs, x \in Fds :
           \/ desc'[r][x] = desc[r][x] /\ ofile'[r][x] = ofile[r][x]
           \/ /\ desc[r][x] = NoDesc \/ ofile[r][x] = f
              /\ desc'[r][x] = NoDesc \/ ofile'[r][x] = f
    BY <2>1
  <2>8. \A g \in Files \ {f} : g \in lost' <=> g \in lost
    BY <1>11
  <2> QED BY <1>4, <1>9, <1>14, <2>4, <2>5, <2>6, <2>7, <2>8, Local, ZenonT(30)
<1>12. CASE (arg[p].dir /\ arg[p].ino \notin Dirs) \/ Free(p) = {}
  <2>1. UNCHANGED <<ofile, desc>> /\ lost' = lost \cup {f}
    BY <1>1, <1>12 DEF OpenFill
  <2> QED BY <1>10, <2>1
<1>13. CASE ~ ((arg[p].dir /\ arg[p].ino \notin Dirs) \/ Free(p) = {})
  <2>1. PICK fd \in Fds : fd = Least(Free(p)) /\ ofile[p][fd] = NULL
    BY <1>13, Searches DEF Free
  <2>2. /\ ofile' = [ofile EXCEPT ![p][fd] = f]
        /\ desc' = [desc EXCEPT ![p][fd] = [ino |-> arg[p].ino, mode |-> arg[p].mode]]
        /\ UNCHANGED lost
    BY <1>1, <1>13, <2>1 DEF OpenFill
  <2> QED BY <1>11, <2>1, <2>2
<1> QED BY <1>12, <1>13

\* dup() takes one more descriptor for the file.
LEMMA DupCount ==
  ASSUME FileInv, FileTypeOK', LifeInv', NEW p \in Procs, NEW fd \in Fds, dup(p, fd)
  PROVE  BoundInv' /\ ExactInv'
<1> USE DEF FileInv
<1>1. PICK f \in Files : f = ofile[p][fd]
  BY DEF dup, FileTypeOK
<1>2. PICK new \in Fds : new = Least(Free(p)) /\ ofile[p][new] = NULL
  BY Searches DEF Free, dup
<1>3. /\ ofile' = [ofile EXCEPT ![p][new] = f] /\ desc' = [desc EXCEPT ![p][new] = DescOf(f)]
      /\ file' = [file EXCEPT ![f] = [file[f] EXCEPT !.ref = file[f].ref + 1]]
      /\ UNCHANGED <<pc, arg, lost>> /\ pc[p] = "user"
  BY <1>1, <1>2 DEF dup, InUser
<1>4. (broken => broken') /\ (~broken' => ~broken /\ ~InTransit(f))
  BY <1>1 DEF dup
<1>5. /\ file[f].ref \in Nat /\ file[f] \in FileRec /\ Cardinality(Open(f)) \in Nat
      /\ Cardinality(Taking(f)) \in Nat
  BY Numbers
<1>6. /\ file'[f].ref = file[f].ref + 1 /\ file'[f].ino = file[f].ino
      /\ file'[f].mode = file[f].mode /\ \A g \in Files \ {f} : file'[g] = file[g]
  <2>1. /\ file'[f] = [file[f] EXCEPT !.ref = file[f].ref + 1]
        /\ \A g \in Files \ {f} : file'[g] = file[g]
    BY <1>3 DEF FileTypeOK
  <2>2. file[f].ref + 1 \in Nat
    BY <1>5
  <2> QED BY <1>5, <2>1, <2>2, RefRec
<1>7. /\ ofile'[p][new] = f /\ desc'[p][new] = DescOf(f) /\ desc'[p][new] # NoDesc
      /\ desc[p][new] = NoDesc
      /\ \A r \in Procs, y \in Fds : <<r, y>> # <<p, new>> =>
            desc'[r][y] = desc[r][y] /\ ofile'[r][y] = ofile[r][y]
  <2>1. DescOf(f) # NoDesc
    BY DescOfType, DescRecs
  <2> QED BY <1>2, <1>3, <2>1 DEF FileTypeOK, LifeInv
<1>8. Cardinality(Open(f)') = Cardinality(Open(f)) + 1 /\ Taking(f)' = Taking(f)
  <2>1. Cardinality(Open(f)') = Cardinality(Open(f)) + 1
    BY <1>2, <1>7, OpenPlus
  <2>2. Taking(f)' = Taking(f)
    BY <1>3 DEF Taking
  <2> QED BY <2>1, <2>2
<1>9. Owed(f)' = Owed(f) + 1 /\ Owed(f) \in Nat
  BY <1>3, <1>5, <1>8, SetCounts DEF Owed
<1>10. file'[f].ref <= Owed(f)' /\ file'[f].ref <= Cardinality(Open(f)') + 1
  BY <1>5, <1>6, <1>8, <1>9 DEF BoundInv
<1>11. ~broken' => file'[f].ref = Owed(f)'
  BY <1>4, <1>6, <1>9 DEF ExactInv, Exact
<1>12. /\ ~broken' => \A r \in Procs : pc'[r] \in Transit /\ arg'[r].f = f =>
            /\ pc'[r] = "fill" => file'[f].ref = 1 /\ file'[f].mode = {}
            /\ pc'[r] # "fill" => file'[f].ref = 0
       /\ ~broken' => (file'[f].ref = 0 /\ ~InTransit(f)' => file'[f].mode = {})
  BY <1>3, <1>4, <1>5, <1>6 DEF InTransit, Transit
<1>13. ~broken' => \A r \in Procs, x \in Fds :
         desc'[r][x] # NoDesc /\ ofile'[r][x] = f =>
            desc'[r][x] = [ino |-> file'[f].ino, mode |-> file'[f].mode]
  <2>1. DescOf(f) = [ino |-> file'[f].ino, mode |-> file'[f].mode]
    BY <1>6, DescRecs DEF DescOf
  <2>2. ~broken' => \A r \in Procs, x \in Fds :
           desc[r][x] # NoDesc /\ ofile[r][x] = f => desc[r][x] = DescOf(f)
    BY <1>4 DEF ExactInv, Faithful
  <2> QED BY <1>7, <2>1, <2>2
<1>14. /\ \A r \in Procs, x \in Fds :
            \/ desc'[r][x] = desc[r][x] /\ ofile'[r][x] = ofile[r][x]
            \/ /\ desc[r][x] = NoDesc \/ ofile[r][x] = f
               /\ desc'[r][x] = NoDesc \/ ofile'[r][x] = f
       /\ \A g \in Files \ {f} : g \in lost' <=> g \in lost
       /\ pc[p] \notin Transit /\ pc'[p] \notin Transit
       /\ \A r \in Procs \ {p} : pc'[r] = pc[r] /\ arg'[r].f = arg[r].f
  BY <1>3, <1>7 DEF Transit
<1> QED BY <1>4, <1>6, <1>10, <1>11, <1>12, <1>13, <1>14, Local

\* fork() gives the child a descriptor for each of the parent's.
LEMMA ForkCount ==
  ASSUME FileInv, FileTypeOK', LifeInv', NEW p \in Procs, NEW q \in Procs, fork(p, q)
  PROVE  BoundInv' /\ ExactInv'
<1> USE DEF FileInv
<1>1. /\ ofile' = [ofile EXCEPT ![q] = ofile[p]]
      /\ desc' = [desc EXCEPT ![q] = [fd \in Fds |-> DescOf(ofile[p][fd])]]
      /\ UNCHANGED <<pc, arg, lost>>
  BY DEF fork
<1>2. (broken => broken') /\ (~broken' => ~broken /\ \A fd \in Fds : ~InTransit(ofile[p][fd]))
  BY DEF fork
<1>3. ASSUME NEW f \in Files
      PROVE  /\ file'[f].ref = file[f].ref + RefsFrom(p, f) /\ file'[f].ino = file[f].ino
             /\ file'[f].mode = file[f].mode
  <2>1. file'[f] = [file[f] EXCEPT !.ref = file[f].ref + RefsFrom(p, f)]
    BY DEF fork
  <2>2. file[f] \in FileRec /\ file[f].ref + RefsFrom(p, f) \in Nat
    <3>1. RefsFrom(p, f) \in Nat
      BY RefsNat
    <3>2. file[f] \in FileRec /\ file[f].ref \in Nat
      BY Numbers
    <3> QED BY <3>1, <3>2
  <2> QED BY <2>1, <2>2, RefRec
<1>4. desc[q] = NoDescs
  BY DEF fork, LifeInv
<1>5. ASSUME NEW f \in Files
      PROVE  Cardinality(Open(f)') = Cardinality(Open(f)) + RefsFrom(p, f)
  <2> DEFINE K == {fd \in Fds : ofile[p][fd] = f}
  <2> DEFINE New == {q} \X K
  <2>1. IsFiniteSet(K) /\ RefsFrom(p, f) = Cardinality(K) /\ Cardinality(K) \in Nat
    BY RefsNat, FS_CardinalityType DEF RefsFrom
  <2>2. Open(f)' = Open(f) \cup New
    <3>1. Open(f)' \in SUBSET (Procs \X Fds) /\ Open(f) \cup New \in SUBSET (Procs \X Fds)
      BY SetCounts, Counted
    <3>2. ASSUME NEW r \in Procs, NEW x \in Fds
          PROVE  <<r, x>> \in Open(f)' <=> <<r, x>> \in Open(f) \cup New
      <4>1. <<r, x>> \in Open(f)' <=> desc'[r][x] # NoDesc /\ ofile'[r][x] = f
        BY DEF Open
      <4>2. <<r, x>> \in Open(f) <=> desc[r][x] # NoDesc /\ ofile[r][x] = f
        BY Counted
      <4>3. <<r, x>> \in New <=> r = q /\ ofile[p][x] = f
        OBVIOUS
      <4>4. CASE r = q
        <5>1. desc[r][x] = NoDesc
          BY <1>4, <4>4 DEF NoDescs
        <5>2. desc'[r][x] = DescOf(ofile[p][x]) /\ ofile'[r][x] = ofile[p][x]
          BY <1>1, <4>4 DEF FileTypeOK
        <5>3. ofile[p][x] = f => DescOf(ofile[p][x]) # NoDesc
          BY DescOfType, DescRecs
        <5> QED BY <4>1, <4>2, <4>3, <4>4, <5>1, <5>2, <5>3
      <4>5. CASE r # q
        <5>1. desc'[r][x] = desc[r][x] /\ ofile'[r][x] = ofile[r][x]
          BY <1>1, <4>5 DEF FileTypeOK
        <5> QED BY <4>1, <4>2, <4>3, <4>5, <5>1
      <4> QED BY <4>4, <4>5
    <3> HIDE DEF New
    <3> QED BY <3>1, <3>2, PairsEqual
  <2>3. IsFiniteSet({q}) /\ Cardinality({q}) = 1
    BY FS_Singleton
  <2>4. IsFiniteSet(New) /\ Cardinality(New) = Cardinality(K)
    <3>1. IsFiniteSet(New) /\ Cardinality(New) = Cardinality({q}) * Cardinality(K)
      BY <2>1, <2>3, FS_Product
    <3> QED BY <2>1, <2>3, <3>1
  <2>5. Open(f) \cap New = {}
    BY <1>4 DEF NoDescs, Open
  <2>6. Cardinality({}) = 0
    BY FS_EmptySet
  <2> HIDE DEF New, K
  <2>7. /\ Cardinality(Open(f) \cup New)
              = Cardinality(Open(f)) + Cardinality(New) - Cardinality(Open(f) \cap New)
        /\ Cardinality(Open(f)) \in Nat
    BY <2>4, Numbers, FS_Union
  <2>8. Cardinality(Open(f) \cap New) = 0
    BY <2>5, <2>6
  <2>9. Cardinality(Open(f)') = Cardinality(Open(f) \cup New)
    BY <2>2
  <2> QED BY <2>1, <2>4, <2>7, <2>8, <2>9
<1>6. ASSUME NEW f PROVE Taking(f)' = Taking(f) /\ (InTransit(f)' <=> InTransit(f))
  BY <1>1 DEF Taking, InTransit
<1>7. ASSUME NEW f \in Files
      PROVE  /\ Owed(f)' = Owed(f) + RefsFrom(p, f) /\ Owed(f) \in Nat
             /\ RefsFrom(p, f) \in Nat /\ file[f].ref \in Nat /\ Cardinality(Open(f)) \in Nat
  <2>1. /\ Cardinality(Open(f)) \in Nat /\ Cardinality(Taking(f)) \in Nat
        /\ RefsFrom(p, f) \in Nat /\ file[f].ref \in Nat
    BY Numbers, RefsNat
  <2> QED BY <1>1, <1>5, <1>6, <2>1, SetCounts DEF Owed
<1>8. BoundInv'
  <2> SUFFICES ASSUME NEW f \in Files
               PROVE  file'[f].ref <= Owed(f)' /\ file'[f].ref <= Cardinality(Open(f)') + 1
    BY DEF BoundInv
  <2>1. file[f].ref <= Owed(f) /\ file[f].ref <= Cardinality(Open(f)) + 1
    BY DEF BoundInv
  <2> QED BY <1>3, <1>5, <1>7, <2>1
<1>9. ASSUME ~broken' PROVE Exact' /\ Faithful' /\ TransitInv' /\ CleanInv'
  <2>1. Exact /\ Faithful /\ TransitInv /\ CleanInv
    BY <1>2, <1>9 DEF ExactInv
  <2>2. Exact'
    BY <1>3, <1>7, <2>1 DEF Exact
  <2>3. Faithful'
    <3>1. \A f \in Files \cup {NULL} : DescOf(f)' = DescOf(f)
      BY <1>3 DEF DescOf
    <3>2. \A r \in Procs, x \in Fds : ofile[r][x] \in Files \cup {NULL}
      BY DEF FileTypeOK
    <3> SUFFICES ASSUME NEW r \in Procs, NEW x \in Fds, desc'[r][x] # NoDesc
                 PROVE  ofile'[r][x] # NULL /\ DescOf(ofile[r][x])' = desc'[r][x]
      BY DEF Faithful
    <3>3. ofile'[r][x] # NULL
      BY DEF LifeInv
    <3>4. CASE r = q
      <4>1. desc'[r][x] = DescOf(ofile[p][x]) /\ ofile'[r][x] = ofile[p][x]
        BY <1>1, <3>4 DEF FileTypeOK
      <4> QED BY <3>1, <3>2, <3>3, <4>1 DEF DescOf
    <3>5. CASE r # q
      <4>1. desc'[r][x] = desc[r][x] /\ ofile'[r][x] = ofile[r][x]
        BY <1>1, <3>5 DEF FileTypeOK
      <4>2. DescOf(ofile[r][x]) = desc[r][x]
        BY <2>1, <4>1 DEF Faithful
      <4> QED BY <3>1, <3>2, <3>3, <4>1, <4>2 DEF DescOf
    <3> QED BY <3>4, <3>5
  <2>4. TransitInv'
    <3>1. ASSUME NEW r \in Procs, pc[r] \in Transit
          PROVE  arg[r].f \in Files /\ file'[arg[r].f].ref = file[arg[r].f].ref
      <4>1. PICK f \in Files : f = arg[r].f
        BY <3>1 DEF FileTypeOK, Transit
      <4>2. \A fd \in Fds : ofile[p][fd] # f
        <5>1. InTransit(f)
          BY <3>1, <4>1 DEF InTransit, Transit
        <5> QED BY <1>2, <1>9, <5>1
      <4>3. RefsFrom(p, f) = 0
        <5>1. {fd \in Fds : ofile[p][fd] = f} = {}
          BY <4>2
        <5> QED BY <5>1, FS_EmptySet DEF RefsFrom
      <4> QED BY <1>3, <1>7, <4>1, <4>3
    <3>2. \A r \in Procs : pc[r] \in Transit => file'[arg[r].f].mode = file[arg[r].f].mode
      BY <1>3, <3>1
    <3> QED BY <1>1, <2>1, <3>1, <3>2 DEF TransitInv, Transit
  <2>5. CleanInv'
    <3> SUFFICES ASSUME NEW f \in Files, file'[f].ref = 0, ~InTransit(f)'
                 PROVE  file'[f].mode = {}
      BY DEF CleanInv
    <3>1. file[f].ref = 0
      BY <1>3, <1>7
    <3> QED BY <1>3, <1>6, <2>1, <3>1 DEF CleanInv
  <2> QED BY <2>2, <2>3, <2>4, <2>5
<1> QED BY <1>8, <1>9 DEF ExactInv

\* Every step keeps the counts.
LEMMA CountStep ==
  ASSUME FileInv, [Next]_vars
  PROVE  BoundInv' /\ ExactInv'
<1> USE DEF FileInv
<1>0. FileTypeOK' /\ LifeInv'
  BY TypeStep, LifeStep
<1>1. ASSUME NEW p \in Procs, NEW ino \in Inodes, NEW mode \in Modes, NEW dir \in BOOLEAN,
             OpenStart(p, ino, mode, dir)
      PROVE  BoundInv' /\ ExactInv'
  <2>1. /\ UNCHANGED <<file, ofile, desc, lost, broken>> /\ pc[p] = "user" /\ pc'[p] = "walk"
        /\ \A r \in Procs \ {p} : pc'[r] = pc[r] /\ arg'[r] = arg[r]
    BY <1>1 DEF OpenStart, InUser, Goto, FileTypeOK
  <2> QED BY <2>1, Quiet DEF Transit
<1>2. ASSUME NEW p \in Procs, alloc_file(p) PROVE BoundInv' /\ ExactInv'
  <2>1. CASE Unused = {}
    <3>1. /\ UNCHANGED <<file, ofile, desc, lost, broken>> /\ pc[p] = "walk" /\ pc'[p] = "user"
          /\ \A r \in Procs \ {p} : pc'[r] = pc[r] /\ arg'[r] = arg[r]
      BY <1>2, <2>1 DEF alloc_file, Goto, FileTypeOK
    <3> QED BY <3>1, Quiet DEF Transit
  <2> QED BY <1>0, <1>2, <2>1, AllocCount
<1>3. ASSUME NEW p \in Procs, OpenFill(p) PROVE BoundInv' /\ ExactInv'
  BY <1>0, <1>3, FillCount
<1>4. ASSUME NEW p \in Procs, NEW fd \in Fds, close(p, fd) PROVE BoundInv' /\ ExactInv'
  <2>1. pc[p] \notin Transit
    BY <1>4 DEF close, InUser, Transit
  <2> QED BY <1>0, <1>4, <2>1, DropCount DEF close
<1>5. ASSUME NEW p \in Procs, NEW fd \in Fds, dup(p, fd) PROVE BoundInv' /\ ExactInv'
  BY <1>0, <1>5, DupCount
<1>6. ASSUME NEW p \in Procs, NEW fd \in Fds, NEW how, IoStart(p, fd, how)
      PROVE  BoundInv' /\ ExactInv'
  <2>1. /\ UNCHANGED <<file, ofile, desc, lost, broken>> /\ pc[p] = "user" /\ pc'[p] = "io"
        /\ \A r \in Procs \ {p} : pc'[r] = pc[r] /\ arg'[r] = arg[r]
    BY <1>6 DEF IoStart, InUser, Goto, FileTypeOK
  <2> QED BY <2>1, Quiet DEF Transit
<1>7. ASSUME NEW p \in Procs, CloseWipe(p) PROVE BoundInv' /\ ExactInv'
  BY <1>0, <1>7, WipeCount DEF CloseWipe
<1>8. ASSUME NEW p \in Procs, exit(p) PROVE BoundInv' /\ ExactInv'
  <2>1. /\ UNCHANGED <<file, ofile, desc, lost, broken>> /\ pc[p] = "user" /\ pc'[p] = "exit"
        /\ \A r \in Procs \ {p} : pc'[r] = pc[r] /\ arg'[r] = arg[r]
    BY <1>8 DEF exit, InUser, Goto, FileTypeOK
  <2> QED BY <2>1, Quiet DEF Transit
<1>9. ASSUME NEW p \in Procs, ExitClose(p) PROVE BoundInv' /\ ExactInv'
  <2>1. Least(Rest(p)) \in Fds /\ pc[p] \notin Transit
    BY <1>9, Searches DEF ExitClose, Rest, Transit
  <2> QED BY <1>0, <1>9, <2>1, DropCount DEF ExitClose
<1>10. ASSUME NEW p \in Procs, ExitWipe(p) PROVE BoundInv' /\ ExactInv'
  BY <1>0, <1>10, WipeCount DEF ExitWipe
<1>11. ASSUME NEW p \in Procs, ExitZombie(p) PROVE BoundInv' /\ ExactInv'
  <2>1. /\ UNCHANGED <<file, ofile, desc, lost, broken>> /\ pc[p] = "exit" /\ pc'[p] = "user"
        /\ \A r \in Procs \ {p} : pc'[r] = pc[r] /\ arg'[r] = arg[r]
    BY <1>11 DEF ExitZombie, Goto, FileTypeOK
  <2> QED BY <2>1, Quiet DEF Transit
<1>12. ASSUME NEW p \in Procs, Reap(p) PROVE BoundInv' /\ ExactInv'
  <2>1. desc[p] = NoDescs
    BY <1>12 DEF Reap, LifeInv
  <2>2. UNCHANGED <<file, pc, arg, lost, broken, desc>>
    BY <1>12, <2>1 DEF Reap, FileTypeOK
  <2>3. \A r \in Procs, x \in Fds : desc[r][x] # NoDesc => ofile'[r][x] = ofile[r][x]
    BY <1>12, <2>1 DEF Reap, FileTypeOK, NoDescs
  <2> QED BY <2>2, <2>3, Quiet
<1>13. ASSUME NEW p \in Procs, NEW q \in Procs, fork(p, q) PROVE BoundInv' /\ ExactInv'
  BY <1>0, <1>13, ForkCount
<1>14. ASSUME NEW p \in Procs, NEW n \in 0 .. 1, IoDone(p, n) PROVE BoundInv' /\ ExactInv'
  <2>1. PICK f \in Files : f = arg[p].f
    BY <1>14 DEF IoDone, FileTypeOK
  <2>2. /\ UNCHANGED <<ofile, desc, lost, broken>> /\ pc[p] = "io" /\ pc'[p] = "user"
        /\ \A r \in Procs \ {p} : pc'[r] = pc[r] /\ arg'[r] = arg[r]
    BY <1>14 DEF IoDone, Goto, FileTypeOK
  <2>3. \A g \in Files : /\ file'[g].ref = file[g].ref /\ file'[g].ino = file[g].ino
                         /\ file'[g].mode = file[g].mode
    <3>1. /\ file'[f] = [file[f] EXCEPT !.off = file[f].off + n]
          /\ \A g \in Files \ {f} : file'[g] = file[g]
      BY <1>14, <2>1 DEF IoDone, FileTypeOK
    <3>2. file[f] \in FileRec /\ file[f].off + n \in Nat
      BY Numbers, FileRecs
    <3>3. /\ file'[f].ref = file[f].ref /\ file'[f].ino = file[f].ino
          /\ file'[f].mode = file[f].mode
      BY <3>1, <3>2, OffRec
    <3> QED BY <3>1, <3>3
  <2> QED BY <2>2, <2>3, Quiet DEF Transit
<1>15. CASE UNCHANGED vars
  BY <1>15, Quiet DEF vars
<1> QED BY <1>1, <1>2, <1>3, <1>4, <1>5, <1>6, <1>7, <1>8, <1>9, <1>10,
           <1>11, <1>12, <1>13, <1>14, <1>15
        DEF Next, Step

-----------------------------------------------------------------------------
(* The theorems.                                                           *)

\* The table starts empty.
LEMMA InitInv == Init => FileInv
<1> SUFFICES ASSUME Init PROVE FileInv
  OBVIOUS
<1>1. FileTypeOK
  BY ArgRecs, DescRecs, FileRecs DEF Init, FileTypeOK, PCs
<1>2. LifeInv
  BY DescRecs DEF Init, LifeInv, NoDescs
<1>3. \A f \in Files : Open(f) = {} /\ Taking(f) = {} /\ f \notin lost
  BY DEF Init, Open, Taking, NoDescs
<1>4. \A f \in Files : Cardinality(Open(f)) = 0 /\ Owed(f) = 0
  BY <1>3, FS_EmptySet DEF Owed
<1>5. \A f \in Files : file[f].ref = 0 /\ file[f].mode = {}
  BY FileRecs DEF Init
<1>6. BoundInv /\ Exact
  BY <1>4, <1>5 DEF BoundInv, Exact
<1>7. Faithful /\ TransitInv /\ CleanInv
  BY <1>5 DEF Init, Faithful, TransitInv, CleanInv, NoDescs
<1> QED BY <1>1, <1>2, <1>6, <1>7 DEF FileInv, ExactInv

\* FileInv holds in every state: the types, who is in a call, the references that
\* nobody stands for, and the exact counts as long as no file has been taken from
\* a process that has it open.
THEOREM FileInvariant == Spec => []FileInv
<1>1. FileInv /\ [Next]_vars => FileInv'
  BY TypeStep, LifeStep, CountStep DEF FileInv
<1> QED BY InitInv, <1>1, PTL DEF Spec

\* For any number of processes, files and CPUs: no reference is left that neither a
\* descriptor, nor an open() under way, nor a failed open() stands for, whatever is
\* closed twice or concurrently (alloc_file, open, close, dup and fork in file.c,
\* exitproc and freeproc in proc.c).
THEOREM NothingLeaks == Spec => []NoLeak
<1>1. FileInv => NoLeak
  BY DEF FileInv, BoundInv, NoLeak
<1> QED BY <1>1, FileInvariant, PTL

\* For any number of processes, files and CPUs: a double close, a copy of a file that
\* changes hands and a file cleared late are the only ways in which a process loses
\* what it has opened (close, dup_file and alloc_file in file.c).
THEOREM DescriptorsSound == Spec => []DescriptorSound
<1>1. FileInv => DescriptorSound
  BY DEF FileInv, ExactInv, Exact, Faithful, DescriptorSound
<1> QED BY <1>1, FileInvariant, PTL

=============================================================================
