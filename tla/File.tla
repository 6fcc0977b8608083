-------------------------------- MODULE File --------------------------------
(***************************************************************************)
(* Open files (kernel/file.c): the table of struct file that all processes *)
(* share, the descriptors of each process, and the calls on them: open,    *)
(* close, dup, read, write, fork, clone and exit.                          *)
(*                                                                         *)
(* A call is cut where it releases ftable.lk and goes on to work on the    *)
(* file, and where it sleeps in the file system.  On one CPU the kernel    *)
(* does not switch processes other than by sleeping, so that at most NCPU  *)
(* processes are between two steps that do not sleep.                      *)
(***************************************************************************)
EXTENDS Integers, FiniteSets

CONSTANTS
    Procs, First,   \* slots of the process table; the first process
    NCPU,
    NFILE, NOFILE,  \* sizes of the table and of p->ofile
    Inodes,         \* what path2inode() finds
    Dirs,           \* those that are directories
    Modes,          \* access modes: sets of "r" and "w"
    MaxOff          \* bound on offsets

NULL == 0

ASSUME NumbersAssumption == NFILE \in Nat \ {0} /\ NOFILE \in Nat \ {0} /\ NCPU \in Nat \ {0}
ASSUME ProcsAssumption == IsFiniteSet(Procs)
ASSUME InodesAssumption == Inodes \subseteq Nat \ {NULL} /\ Dirs \subseteq Inodes

Files == 1 .. NFILE
Fds == 0 .. NOFILE - 1
Zero == [ref |-> 0, ino |-> NULL, off |-> 0, mode |-> {}]

VARIABLES
    file,       \* ftable.file
    ofile,      \* the descriptors of each process
    state,      \* of each slot: "unused", "live", "zombie"
    pc,         \* where each process is
    arg,        \* locals of its call: file, descriptor, inode, mode
    \* history:
    desc,       \* what each process has opened and not closed
    lost,       \* files that a failing open() has kept
    broken      \* a file was taken from somebody who has it open

vars == <<file, ofile, state, pc, arg, desc, lost, broken>>

NoArg == [f |-> NULL, fd |-> 0, ino |-> NULL, mode |-> {}, dir |-> FALSE]
NoFds == [fd \in Fds |-> NULL]
NoDesc == [ino |-> -1, mode |-> {}]
NoDescs == [fd \in Fds |-> NoDesc]

Init ==
    /\ file = [f \in Files |-> Zero]
    /\ ofile = [p \in Procs |-> NoFds]
    /\ state = [p \in Procs |-> IF p = First THEN "live" ELSE "unused"]
    /\ pc = [p \in Procs |-> "user"]
    /\ arg = [p \in Procs |-> NoArg]
    /\ desc = [p \in Procs |-> NoDescs]
    /\ lost = {}
    /\ broken = FALSE

\* A CPU is free for p: the others that are in the middle of a step without a
\* sleep hold one each.
HasCpu(p) == Cardinality({q \in Procs \ {p} : pc[q] \in {"fill", "wipe", "exit", "exitwipe"}}) < NCPU

InUser(p) == state[p] = "live" /\ pc[p] = "user" /\ HasCpu(p)
Goto(p, l) == pc' = [pc EXCEPT ![p] = l]

\* Some process is about to clear f, or to fill it in.
InTransit(f) == \E q \in Procs : pc[q] \in {"wipe", "exitwipe", "fill"} /\ arg[q].f = f
Least(S) == CHOOSE x \in S : \A y \in S : x <= y

-----------------------------------------------------------------------------
(* open().                                                                 *)

\* path2inode() sleeps; its result is an inode, or none.
OpenStart(p, ino, mode, dir) ==
    /\ InUser(p)
    /\ arg' = [arg EXCEPT ![p] = [NoArg EXCEPT !.ino = ino, !.mode = mode, !.dir = dir]]
    /\ Goto(p, "walk")
    /\ UNCHANGED <<file, ofile, state, desc, lost, broken>>

Unused == {f \in Files : file[f].ref = 0}

alloc_file(p) ==
    /\ pc[p] = "walk" /\ HasCpu(p)
    /\ IF Unused = {}
       THEN /\ Goto(p, "user")
            /\ arg' = [arg EXCEPT ![p] = NoArg]
            /\ UNCHANGED <<file, broken>>
       ELSE /\ file' = [file EXCEPT ![Least(Unused)].ref = 1]
            /\ arg' = [arg EXCEPT ![p].f = Least(Unused)]
            /\ Goto(p, "fill")
            /\ broken' = (broken \/ InTransit(Least(Unused)))
    /\ UNCHANGED <<ofile, state, desc, lost>>

Free(p) == {fd \in Fds : ofile[p][fd] = NULL}

\* readable and writable are set, never cleared.
Opened(f, ino, mode) == [f EXCEPT !.ino = ino, !.off = 0, !.mode = @ \cup mode]

\* The fields, the two tests that may fail, and the descriptor.
OpenFill(p) ==
    LET f == arg[p].f
        fails == (arg[p].dir /\ arg[p].ino \notin Dirs) \/ Free(p) = {}
        fd == Least(Free(p))
    IN /\ pc[p] = "fill"
       /\ file' = [file EXCEPT ![f] = Opened(@, arg[p].ino, arg[p].mode)]
       /\ IF fails
          THEN /\ lost' = lost \cup {f}
               /\ UNCHANGED <<ofile, desc>>
          ELSE /\ ofile' = [ofile EXCEPT ![p][fd] = f]
               /\ desc' = [desc EXCEPT ![p][fd] = [ino |-> arg[p].ino, mode |-> arg[p].mode]]
               /\ UNCHANGED lost
       /\ Goto(p, "user")
       /\ arg' = [arg EXCEPT ![p] = NoArg]
       /\ UNCHANGED <<state, broken>>

-----------------------------------------------------------------------------
(* close(), by a program and for every descriptor in exitproc().           *)

\* With ftable.lk: the reference is dropped.  A file that others refer to keeps
\* its place in ofile.  The process goes on at wipe, or at next.
Drop(p, fd, wipe, next) ==
    LET f == ofile[p][fd]
        ref == file[f].ref
    IN /\ f # NULL
       /\ file' = IF ref = 0 THEN file ELSE [file EXCEPT ![f].ref = ref - 1]
       /\ Goto(p, IF ref = 1 THEN wipe ELSE next)
       /\ arg' = [arg EXCEPT ![p] =
                    CASE pc'[p] = "user" -> NoArg
                      [] pc'[p] = "exit" -> [NoArg EXCEPT !.fd = fd + 1]
                      [] OTHER -> [NoArg EXCEPT !.f = f, !.fd = fd]]
       /\ desc' = [desc EXCEPT ![p][fd] = NoDesc]
       /\ broken' = (broken \/ (ref > 0 /\ desc[p][fd] = NoDesc))
       /\ UNCHANGED <<ofile, state, lost>>

\* After release(): the descriptor and the file are cleared.
Wipe(p, wipe, next) ==
    /\ pc[p] = wipe
    /\ ofile' = [ofile EXCEPT ![p][arg[p].fd] = NULL]
    /\ file' = [file EXCEPT ![arg[p].f] = Zero]
    /\ Goto(p, next)
    /\ arg' = [arg EXCEPT ![p] = IF next = "user" THEN NoArg
                                 ELSE [NoArg EXCEPT !.fd = arg[p].fd + 1]]
    /\ UNCHANGED <<state, desc, lost, broken>>

close(p, fd) == InUser(p) /\ Drop(p, fd, "wipe", "user")
CloseWipe(p) == Wipe(p, "wipe", "user")

\* Mutant: the loop begins one too late.
RestFrom1(p) == {fd \in Fds : fd > arg[p].fd /\ ofile[p][fd] # NULL}

\* exitproc(): the descriptors from arg.fd on are still to be closed.
Rest(p) == {fd \in Fds : fd >= arg[p].fd /\ ofile[p][fd] # NULL}

exit(p) ==
    /\ InUser(p) /\ p # First
    /\ arg' = [arg EXCEPT ![p] = NoArg]
    /\ Goto(p, "exit")
    /\ UNCHANGED <<file, ofile, state, desc, lost, broken>>

ExitClose(p) ==
    /\ pc[p] = "exit" /\ Rest(p) # {}
    /\ Drop(p, Least(Rest(p)), "exitwipe", "exit")

ExitWipe(p) == Wipe(p, "exitwipe", "exit")

ExitZombie(p) ==
    /\ pc[p] = "exit" /\ Rest(p) = {}
    /\ state' = [state EXCEPT ![p] = "zombie"]
    /\ Goto(p, "user")
    /\ arg' = [arg EXCEPT ![p] = NoArg]
    /\ UNCHANGED <<file, ofile, desc, lost, broken>>

\* freeproc(), from wait()
Reap(p) ==
    /\ state[p] = "zombie"
    /\ state' = [state EXCEPT ![p] = "unused"]
    /\ ofile' = [ofile EXCEPT ![p] = NoFds]
    /\ desc' = [desc EXCEPT ![p] = NoDescs]
    /\ UNCHANGED <<file, pc, arg, lost, broken>>

-----------------------------------------------------------------------------
(* dup(), fork() and clone().                                              *)

\* What a descriptor of f stands for.
DescOf(f) == IF f = NULL THEN NoDesc ELSE [ino |-> file[f].ino, mode |-> file[f].mode]

dup(p, fd) ==
    LET f == ofile[p][fd]
        newfd == Least(Free(p))
    IN /\ InUser(p) /\ f # NULL /\ Free(p) # {}
       /\ ofile' = [ofile EXCEPT ![p][newfd] = f]
       /\ file' = [file EXCEPT ![f].ref = @ + 1]
       /\ desc' = [desc EXCEPT ![p][newfd] = DescOf(f)]
       /\ broken' = (broken \/ InTransit(f))
       /\ UNCHANGED <<state, pc, arg, lost>>

\* Mutant: the child has the descriptors, the files do not know it.
RefsFromNone(p, f) == 0

\* The descriptors of p that refer to f.
RefsFrom(p, f) == Cardinality({fd \in Fds : ofile[p][fd] = f})

\* fork() and clone() into slot q: dup_file() of each descriptor.
fork(p, q) ==
    /\ InUser(p) /\ state[q] = "unused"
    /\ state' = [state EXCEPT ![q] = "live"]
    /\ ofile' = [ofile EXCEPT ![q] = ofile[p]]
    /\ file' = [f \in Files |-> [file[f] EXCEPT !.ref = @ + RefsFrom(p, f)]]
    /\ desc' = [desc EXCEPT ![q] = [fd \in Fds |-> DescOf(ofile[p][fd])]]
    /\ broken' = (broken \/ \E fd \in Fds : InTransit(ofile[p][fd]))
    /\ UNCHANGED <<pc, arg, lost>>

-----------------------------------------------------------------------------
(* read() and write(): read_inode() and write_inode() sleep.               *)

IoStart(p, fd, how) ==
    LET f == ofile[p][fd]
    IN /\ InUser(p) /\ f # NULL /\ how \in file[f].mode /\ file[f].ino # NULL
       /\ arg' = [arg EXCEPT ![p] = [NoArg EXCEPT !.f = f]]
       /\ Goto(p, "io")
       /\ UNCHANGED <<file, ofile, state, desc, lost, broken>>

\* n bytes have been moved.
IoDone(p, n) ==
    /\ pc[p] = "io" /\ HasCpu(p)
    /\ file[arg[p].f].off + n <= MaxOff
    /\ file' = [file EXCEPT ![arg[p].f].off = @ + n]
    /\ Goto(p, "user")
    /\ arg' = [arg EXCEPT ![p] = NoArg]
    /\ UNCHANGED <<ofile, state, desc, lost, broken>>

Step(p) ==
    \/ \E ino \in Inodes, mode \in Modes, dir \in BOOLEAN : OpenStart(p, ino, mode, dir)
    \/ alloc_file(p) \/ OpenFill(p)
    \/ \E fd \in Fds : close(p, fd) \/ dup(p, fd) \/ IoStart(p, fd, "r") \/ IoStart(p, fd, "w")
    \/ CloseWipe(p)
    \/ exit(p) \/ ExitClose(p) \/ ExitWipe(p) \/ ExitZombie(p) \/ Reap(p)
    \/ \E q \in Procs : fork(p, q)
    \/ \E n \in 0 .. 1 : IoDone(p, n)

Next == \E p \in Procs : Step(p)

Spec == Init /\ [][Next]_vars

-----------------------------------------------------------------------------
(* Properties.                                                             *)

\* The descriptors that are open on f, and the open() that has just taken it.
Open(f) == {x \in Procs \X Fds : desc[x[1]][x[2]] # NoDesc /\ ofile[x[1]][x[2]] = f}
Taking(f) == {p \in Procs : pc[p] = "fill" /\ arg[p].f = f}
Owed(f) == Cardinality(Open(f)) + Cardinality(Taking(f)) + IF f \in lost THEN 1 ELSE 0

\* No file is kept in use that no process has open, but for the ones that a
\* failing open() has lost: when all processes have exited, the table is empty.
\* Whatever is closed twice or concurrently (alloc_file, close, dup_file).
NoLeak == \A f \in Files : file[f].ref <= Owed(f)

\* A descriptor that a process has opened and not closed is the file it opened,
\* with its access mode and with one reference for each descriptor; unless
\* somebody closes a descriptor again that close() has left in ofile, or copies
\* it while the file changes hands, or close() clears a file that another CPU has
\* taken since it was given up.  These are the only ways to lose a file.
DescriptorSound ==
    ~broken =>
        /\ \A f \in Files : file[f].ref = Owed(f)
        /\ \A p \in Procs, fd \in Fds :
            desc[p][fd] # NoDesc => ofile[p][fd] # NULL /\ DescOf(ofile[p][fd]) = desc[p][fd]
=============================================================================
