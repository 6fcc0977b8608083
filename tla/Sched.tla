------------------------------- MODULE Sched --------------------------------
(***************************************************************************)
(* Processes of the kernel: the per-CPU scheduler loops and the life of a  *)
(* process (kernel/proc.c), the entries into the kernel that drive it      *)
(* (kernel/trap.c), and the one client that sleeps with a lock of its own, *)
(* a disk request and its interrupt (kernel/driver/virtio.c).              *)
(*                                                                         *)
(* Every spin lock is taken and given back in one step, as Spinlock shows  *)
(* it may be; a critical section is one step unless it contains a          *)
(* cswitch() or takes a second lock.  proctable.lk stays held across       *)
(* cswitch(): the side that resumes releases it, on whichever CPU it is.   *)
(***************************************************************************)
EXTENDS Integers, FiniteSets

CONSTANTS
    NPROC,      \* slots of proctable
    CPUs,       \* CPU numbers; device interrupts go to CPU 0
    Calls,      \* what user code does: system calls and exceptions
    InitCalls,  \* what the init process does
    NREQ,       \* disk requests that fit the virtqueue: NQUEUE \div 3
    OOM,        \* may kalloc() find the free list empty?
    MaxPid      \* bound: at most this many processes are ever created

\* "fault": a data abort.  "abort": an exception that panics.  "other": what leads
\* to sigcheck() and nothing else of this module.
AllCalls == {"exit", "fork", "clone", "wait", "waitpid", "kill", "fault", "io",
             "abort", "other"}

ASSUME NPROCAssumption == NPROC \in Nat \ {0}
ASSUME CPUsAssumption == CPUs \subseteq Nat /\ IsFiniteSet(CPUs) /\ 0 \in CPUs
ASSUME CallsAssumption == Calls \subseteq AllCalls /\ InitCalls \subseteq AllCalls
ASSUME NREQAssumption == NREQ \in Nat
ASSUME MaxPidAssumption == MaxPid \in Nat
ASSUME OOMAssumption == OOM \in BOOLEAN

Procs == 0 .. NPROC - 1
Reqs == 1 .. NREQ
initproc == 0       \* &proctable.procs[0]
DevCpu == 0         \* the CPU the GIC routes device interrupts to
NULL == -1
Buf == NPROC        \* the buffer every disk request is for: one sleep channel

States == {"UNUSED", "CREATED", "RUNNING", "RUNNABLE", "SLEEPING", "ZOMBIE"}
Live == {"RUNNING", "RUNNABLE", "SLEEPING"}

\* Where the thread of a process is, on a CPU or saved by cswitch().
PCs == {"none", "user", "forkret", "sigcheck",
        "y_acquire", "y_switch", "y_resume",                      \* yield
        "f_slot", "f_pid", "f_mem", "f_publish", "f_fail",        \* fork, clone
        "w_scan", "freeproc",                                     \* wait, waitpid
        "s_acquire", "s_release", "s_switch", "s_resume", "s_relock", "s_sig",
        "k_pget", "k_sig", "k_wake",                              \* kill
        "d_submit", "d_done",                                     \* virtio_blk_op
        "x_free", "x_acquire", "x_switch", "dead"}                \* exitproc

VARIABLES
    \* proctable.procs[]
    state, pid, parent, chan, sig, kstack, th,
    \* the kernel stack of each process: resume point and local variables
    pc,
    call,           \* the system call in progress
    arg,            \* its pid argument
    obj,            \* a struct proc * local: new in fork, p in killproc, cp in wait
    req,            \* d0 of virtio_blk_op
    \* struct cpu, and where each CPU is
    cur,            \* cpu->proc; NULL: the CPU executes schedule()
    spc,            \* point of schedule()
    scan,           \* i of schedule()
    hpc,            \* point of virtio_blk_intr(), on top of all that, or "idle"
    irq,            \* IRQs unmasked?
    cli_depth, intr_enabled,
    \* who holds which lock
    lk,             \* proctable.lk
    disklk,         \* disk.lk
    kalloclk,       \* kallocator.lk, when kalloc() returned without releasing it
    \* the rest
    rstate,         \* each disk request
    nextpid,        \* pidalloc.pid
    panic           \* the message the kernel stopped with, or "none"

table == <<state, pid, parent, chan, sig, kstack, th>>
local == <<call, arg, obj, req>>
cpuv == <<cur, spc, scan, hpc>>
cli == <<irq, cli_depth, intr_enabled>>
locks == <<lk, disklk, kalloclk>>
rest == <<rstate, nextpid, panic>>
vars == <<table, pc, local, cpuv, cli, locks, rest>>

Panics == {"none", "already held", "invalid release", "init exit",
           "unreachable", "virtq kokatu", "user exception"}

TableType ==
    /\ state \in [Procs -> States]
    /\ pid \in [Procs -> Nat]
    /\ parent \in [Procs -> Procs \cup {NULL}]
    /\ chan \in [Procs -> Procs \cup {Buf, NULL}]
    /\ sig \in [Procs -> BOOLEAN]
    /\ kstack \in [Procs -> BOOLEAN]
    /\ th \in [Procs -> BOOLEAN]
PcType == pc \in [Procs -> PCs]
LocalType ==
    /\ call \in [Procs -> AllCalls \cup {"none"}]
    /\ arg \in [Procs -> Nat]
    /\ obj \in [Procs -> Procs \cup {NULL}]
    /\ req \in [Procs -> Reqs \cup {NULL}]
CpuType ==
    /\ cur \in [CPUs -> Procs \cup {NULL}]
    /\ spc \in [CPUs -> {"top", "acquire", "scan"}]
    /\ scan \in [CPUs -> 0 .. NPROC]
    /\ hpc \in [CPUs -> {"idle", "h_acquire", "h_loop", "h_wakeup"}]
CliType ==
    /\ irq \in [CPUs -> BOOLEAN]
    /\ cli_depth \in [CPUs -> Nat]
    /\ intr_enabled \in [CPUs -> BOOLEAN]
LockType == {lk, disklk, kalloclk} \subseteq CPUs \cup {NULL}
RestType ==
    /\ rstate \in [Reqs -> {"free", "sent", "used", "done"}]
    /\ nextpid \in Nat
    /\ panic \in Panics

TypeOK ==
    /\ TableType /\ PcType /\ LocalType
    /\ CpuType /\ CliType /\ LockType /\ RestType

\* main() after proc_init() and userproc_init(): init is RUNNABLE in slot 0,
\* and every CPU enters schedule().
Init ==
    /\ state = [p \in Procs |-> IF p = initproc THEN "RUNNABLE" ELSE "UNUSED"]
    /\ pid = [p \in Procs |-> 0]
    /\ parent = [p \in Procs |-> NULL]
    /\ chan = [p \in Procs |-> NULL]
    /\ sig = [p \in Procs |-> FALSE]
    /\ kstack = [p \in Procs |-> p = initproc]
    /\ th = [p \in Procs |-> FALSE]
    /\ pc = [p \in Procs |-> IF p = initproc THEN "forkret" ELSE "none"]
    /\ call = [p \in Procs |-> "none"]
    /\ arg = [p \in Procs |-> 0]
    /\ obj = [p \in Procs |-> NULL]
    /\ req = [p \in Procs |-> NULL]
    /\ cur = [c \in CPUs |-> NULL]
    /\ spc = [c \in CPUs |-> "top"]
    /\ scan = [c \in CPUs |-> 0]
    /\ hpc = [c \in CPUs |-> "idle"]
    /\ irq = [c \in CPUs |-> FALSE]
    /\ cli_depth = [c \in CPUs |-> 0]
    /\ intr_enabled = [c \in CPUs |-> FALSE]
    /\ lk = NULL
    /\ disklk = NULL
    /\ kalloclk = NULL
    /\ rstate = [r \in Reqs |-> "free"]
    /\ nextpid = 1
    /\ panic = "none"

-----------------------------------------------------------------------------
(* Vocabulary.                                                             *)

\* CPU c executes process p at from / the scheduler loop at from.
At(c, p, from) ==
    panic = "none" /\ hpc[c] = "idle" /\ cur[c] = p /\ pc[p] = from
SchedAt(c, from) ==
    panic = "none" /\ hpc[c] = "idle" /\ cur[c] = NULL /\ spc[c] = from
Goto(p, to) == pc' = [pc EXCEPT ![p] = to]

\* pushcli() and popcli().  intr_enabled is dead at depth 0; it is then FALSE.
pushcli(c) ==
    /\ cli_depth' = [cli_depth EXCEPT ![c] = @ + 1]
    /\ IF cli_depth[c] = 0
       THEN /\ intr_enabled' = [intr_enabled EXCEPT ![c] = irq[c]]
            /\ irq' = [irq EXCEPT ![c] = FALSE]
       ELSE UNCHANGED <<intr_enabled, irq>>

\* Mutant: the mask is restored whatever the depth.
popcliAlwaysUnmasks(c) ==
    /\ cli_depth' = [cli_depth EXCEPT ![c] = @ - 1]
    /\ irq' = [irq EXCEPT ![c] = @ \/ intr_enabled[c]]
    /\ UNCHANGED intr_enabled

popcli(c) ==
    /\ cli_depth' = [cli_depth EXCEPT ![c] = @ - 1]
    /\ IF cli_depth[c] = 1
       THEN /\ irq' = [irq EXCEPT ![c] = @ \/ intr_enabled[c]]
            /\ intr_enabled' = [intr_enabled EXCEPT ![c] = FALSE]
       ELSE UNCHANGED <<intr_enabled, irq>>

\* acquire() and release() of proctable.lk.  A whole critical section in one
\* step only needs the lock to be free; it leaves lock and mask as they were.
acquire(c) == lk = NULL /\ lk' = c /\ pushcli(c)
release(c) == lk = c /\ lk' = NULL /\ popcli(c)
Critical == lk = NULL /\ UNCHANGED <<locks, cli>>

\* The first process of a set in table order.
First(i, S) == i \in S /\ \A j \in S : i <= j

\* wakeup_acquired(ch).
Woken(ch) ==
    [q \in Procs |-> IF state[q] = "SLEEPING" /\ chan[q] = ch
                     THEN "RUNNABLE" ELSE state[q]]

\* cswitch(&p->context, &mycpu()->scheduler), and what schedule() does next:
\* cpu->proc = NULL.
SwitchToScheduler(c, p, resume) ==
    /\ Goto(p, resume)
    /\ cur' = [cur EXCEPT ![c] = NULL]
    /\ UNCHANGED <<table, local, spc, scan, hpc, cli, locks, rest>>

-----------------------------------------------------------------------------
(* schedule()                                                              *)

SchedTop(c) ==
    /\ SchedAt(c, "top")
    /\ irq' = [irq EXCEPT ![c] = TRUE]
    /\ spc' = [spc EXCEPT ![c] = "acquire"]
    /\ UNCHANGED <<table, pc, local, cur, scan, hpc, cli_depth, intr_enabled,
                   locks, rest>>

SchedAcquire(c) ==
    /\ SchedAt(c, "acquire")
    /\ acquire(c)
    /\ spc' = [spc EXCEPT ![c] = "scan"]
    /\ scan' = [scan EXCEPT ![c] = 0]
    /\ UNCHANGED <<table, pc, local, cur, hpc, disklk, kalloclk, rest>>

\* The slots the loop has still to look at.
Ahead(c) == {q \in Procs : q >= scan[c] /\ state[q] = "RUNNABLE"}

\* The next RUNNABLE slot is entered with the lock held.
SchedDispatch(c) ==
    /\ SchedAt(c, "scan")
    /\ \E p \in Procs :
          /\ First(p, Ahead(c))
          /\ state' = [state EXCEPT ![p] = "RUNNING"]
          /\ cur' = [cur EXCEPT ![c] = p]
          /\ scan' = [scan EXCEPT ![c] = p + 1]
    /\ UNCHANGED <<pid, parent, chan, sig, kstack, th, pc, local, spc, hpc,
                   cli, locks, rest>>

SchedRelease(c) ==
    /\ SchedAt(c, "scan")
    /\ Ahead(c) = {}
    /\ release(c)
    /\ spc' = [spc EXCEPT ![c] = "top"]
    /\ scan' = [scan EXCEPT ![c] = 0]
    /\ UNCHANGED <<table, pc, local, cur, hpc, disklk, kalloclk, rest>>

-----------------------------------------------------------------------------
(* Traps from user mode and the way back.                                  *)

\* Entry into the kernel masks IRQs.
TrapTo(c, p, to) ==
    /\ At(c, p, "user")
    /\ Goto(p, to)
    /\ irq' = [irq EXCEPT ![c] = FALSE]

\* Mutant: no yield() in uirq_handler().
TimerIrqNoYield(c, p) ==
    /\ TrapTo(c, p, "sigcheck")
    /\ UNCHANGED <<table, local, cpuv, cli_depth, intr_enabled, locks, rest>>

\* uirq_handler() for the timer: yield unless a signal is pending.
TimerIrq(c, p) ==
    /\ TrapTo(c, p, IF sig[p] THEN "sigcheck" ELSE "y_acquire")
    /\ UNCHANGED <<table, local, cpuv, cli_depth, intr_enabled, locks, rest>>

\* usync_handler(): the system call, or handle_data_abort() which calls
\* killproc() on the process itself.
EntryOf(s) ==
    CASE s = "exit" -> "x_free"
      [] s \in {"fork", "clone"} -> "f_slot"
      [] s \in {"wait", "waitpid"} -> "w_scan"
      [] s = "kill" -> "k_pget"
      [] s = "fault" -> "k_sig"
      [] s = "io" -> "d_submit"
      [] s = "other" -> "sigcheck"

UserCalls(p) == IF p = initproc THEN InitCalls ELSE Calls

\* usync_handler() of the exceptions it returns from.
Syscall(c, p) ==
    \E s \in UserCalls(p) \ {"abort"} :
        /\ s \in {"fork", "clone"} => nextpid < MaxPid
        /\ TrapTo(c, p, EntryOf(s))
        /\ call' = [call EXCEPT ![p] = s]
        /\ \E n \in IF s \in {"waitpid", "kill"} THEN 1 .. nextpid - 1 ELSE {0} :
              arg' = [arg EXCEPT ![p] = n]
        /\ obj' = [obj EXCEPT ![p] = IF s = "fault" THEN p ELSE NULL]
        /\ UNCHANGED <<table, req, cpuv, cli_depth, intr_enabled, locks, rest>>

\* sigcheck() at the end of both handlers, then restorereg and eret.
Forget(p) ==
    /\ call' = [call EXCEPT ![p] = "none"]
    /\ arg' = [arg EXCEPT ![p] = 0]
    /\ obj' = [obj EXCEPT ![p] = NULL]
    /\ req' = [req EXCEPT ![p] = NULL]

Sigcheck(c, p) ==
    /\ At(c, p, "sigcheck")
    /\ IF sig[p]
       THEN /\ sig' = [sig EXCEPT ![p] = FALSE]
            /\ Goto(p, "x_free")
            /\ UNCHANGED irq
       ELSE /\ UNCHANGED sig
            /\ Goto(p, "user")
            /\ irq' = [irq EXCEPT ![c] = TRUE]
    /\ Forget(p)
    /\ UNCHANGED <<state, pid, parent, chan, kstack, th, cpuv, cli_depth,
                   intr_enabled, locks, rest>>

\* Mutant: schedule_tail() keeps the lock.
ForkretKeepsLock(c, p) ==
    /\ At(c, p, "forkret")
    /\ Goto(p, "user")
    /\ irq' = [irq EXCEPT ![c] = TRUE]
    /\ UNCHANGED <<table, local, cpuv, cli_depth, intr_enabled, locks, rest>>

\* A new process starts in schedule_tail(), which releases proctable.lk, and
\* leaves for user mode.
Forkret(c, p) ==
    /\ At(c, p, "forkret")
    /\ lk = c
    /\ lk' = NULL
    /\ cli_depth' = [cli_depth EXCEPT ![c] = @ - 1]
    /\ intr_enabled' = [intr_enabled EXCEPT ![c] = @ /\ cli_depth[c] # 1]
    /\ Goto(p, "user")
    /\ irq' = [irq EXCEPT ![c] = TRUE]
    /\ UNCHANGED <<table, local, cpuv, disklk, kalloclk, rest>>

-----------------------------------------------------------------------------
(* yield()                                                                 *)

\* Mutant: the state is changed without the lock.
YieldUnlocked(c, p) ==
    /\ At(c, p, "y_acquire")
    /\ state' = [state EXCEPT ![p] = "RUNNABLE"]
    /\ Goto(p, "y_switch")
    /\ UNCHANGED <<pid, parent, chan, sig, kstack, th, local, cpuv, cli, locks,
                   rest>>

YieldAcquire(c, p) ==
    /\ At(c, p, "y_acquire")
    /\ acquire(c)
    /\ state' = [state EXCEPT ![p] = "RUNNABLE"]
    /\ Goto(p, "y_switch")
    /\ UNCHANGED <<pid, parent, chan, sig, kstack, th, local, cpuv, disklk,
                   kalloclk, rest>>

YieldSwitch(c, p) ==
    At(c, p, "y_switch") /\ SwitchToScheduler(c, p, "y_resume")

YieldResume(c, p) ==
    /\ At(c, p, "y_resume")
    /\ release(c)
    /\ Goto(p, "sigcheck")
    /\ UNCHANGED <<table, local, cpuv, disklk, kalloclk, rest>>

-----------------------------------------------------------------------------
(* fork() and clone()                                                      *)

\* newproc(): the first UNUSED slot becomes CREATED.
NewprocSlot(c, p) ==
    /\ At(c, p, "f_slot")
    /\ Critical
    /\ LET unused == {q \in Procs : state[q] = "UNUSED"} IN
       \/ /\ unused = {}
          /\ Goto(p, "sigcheck")
          /\ UNCHANGED <<state, obj>>
       \/ \E n \in Procs :
             /\ First(n, unused)
             /\ state' = [state EXCEPT ![n] = "CREATED"]
             /\ obj' = [obj EXCEPT ![p] = n]
             /\ Goto(p, "f_pid")
    /\ UNCHANGED <<pid, parent, chan, sig, kstack, th, call, arg, req, cpuv,
                   rest>>

NewprocPid(c, p) ==
    /\ At(c, p, "f_pid")
    /\ pid' = [pid EXCEPT ![obj[p]] = nextpid]
    /\ nextpid' = nextpid + 1
    /\ Goto(p, "f_mem")
    /\ UNCHANGED <<state, parent, chan, sig, kstack, th, local, cpuv, cli,
                   locks, rstate, panic>>

\* newproc()'s two kalloc() and cp_userspace()'s, all successful: the new
\* process has a kernel stack and will start in forkret.
NewprocMem(c, p) ==
    /\ At(c, p, "f_mem")
    /\ kalloclk = NULL
    /\ kstack' = [kstack EXCEPT ![obj[p]] = TRUE]
    /\ pc' = [pc EXCEPT ![obj[p]] = "forkret", ![p] = "f_publish"]
    /\ UNCHANGED <<state, pid, parent, chan, sig, th, local, cpuv, cli, locks,
                   rest>>

\* kalloc() returns NULL and keeps kallocator.lk.  newproc() gives up and
\* leaves the slot CREATED; fork() frees the slot when cp_userspace() failed.
NewprocNoMem(c, p) ==
    /\ OOM
    /\ At(c, p, "f_mem")
    /\ kalloclk = NULL
    /\ kalloclk' = c
    /\ pushcli(c)
    /\ \/ /\ UNCHANGED kstack
          /\ Goto(p, "sigcheck")
       \/ /\ kstack' = [kstack EXCEPT ![obj[p]] = TRUE]
          /\ Goto(p, "sigcheck")
       \/ /\ call[p] = "fork"
          /\ kstack' = [kstack EXCEPT ![obj[p]] = TRUE]
          /\ Goto(p, "f_fail")
    /\ UNCHANGED <<state, pid, parent, chan, sig, th, local, cpuv, lk, disklk,
                   rest>>

ForkPublish(c, p) ==
    /\ At(c, p, "f_publish")
    /\ Critical
    /\ state' = [state EXCEPT ![obj[p]] = "RUNNABLE"]
    /\ parent' = [parent EXCEPT ![obj[p]] = p]
    /\ th' = [th EXCEPT ![obj[p]] = @ \/ call[p] = "clone"]
    /\ Goto(p, "sigcheck")
    /\ UNCHANGED <<pid, chan, sig, kstack, local, cpuv, rest>>

ForkFail(c, p) ==
    /\ At(c, p, "f_fail")
    /\ acquire(c)
    /\ Goto(p, "freeproc")
    /\ UNCHANGED <<table, local, cpuv, disklk, kalloclk, rest>>

-----------------------------------------------------------------------------
(* sleep()                                                                 *)

\* Mutant: p->chan is not set.
FallAsleepNoChan(p, ch) ==
    /\ state' = [state EXCEPT ![p] = "SLEEPING"]
    /\ Goto(p, "s_switch")
    /\ UNCHANGED chan

\* The end of sleep()'s first half: the caller holds proctable.lk.
FallAsleep(p, ch) ==
    /\ chan' = [chan EXCEPT ![p] = ch]
    /\ state' = [state EXCEPT ![p] = "SLEEPING"]
    /\ Goto(p, "s_switch")

\* Mutant: disk.lk is released before proctable.lk is taken.
SleepReleasesFirst(c, p) ==
    /\ At(c, p, "s_acquire")
    /\ IF disklk = c
       THEN /\ disklk' = NULL
            /\ popcli(c)
            /\ UNCHANGED <<state, chan, pc, lk>>
       ELSE acquire(c) /\ FallAsleep(p, Buf) /\ UNCHANGED disklk
    /\ UNCHANGED <<pid, parent, sig, kstack, th, local, cpuv, kalloclk, rest>>

\* sleep(buf, &disk.lk): proctable.lk is taken before disk.lk is released.
SleepAcquire(c, p) ==
    /\ At(c, p, "s_acquire")
    /\ acquire(c)
    /\ Goto(p, "s_release")
    /\ UNCHANGED <<table, local, cpuv, disklk, kalloclk, rest>>

SleepRelease(c, p) ==
    /\ At(c, p, "s_release")
    /\ disklk = c
    /\ disklk' = NULL
    /\ popcli(c)
    /\ FallAsleep(p, Buf)
    /\ UNCHANGED <<pid, parent, sig, kstack, th, local, cpuv, lk, kalloclk,
                   rest>>

SleepSwitch(c, p) ==
    At(c, p, "s_switch") /\ SwitchToScheduler(c, p, "s_resume")

SleepResume(c, p) ==
    /\ At(c, p, "s_resume")
    /\ chan' = [chan EXCEPT ![p] = NULL]
    /\ release(c)
    /\ Goto(p, IF call[p] = "io" THEN "s_relock" ELSE "s_sig")
    /\ UNCHANGED <<state, pid, parent, sig, kstack, th, local, cpuv, disklk,
                   kalloclk, rest>>

\* Mutant: the lock is taken without pushcli().
SleepRelockNoCli(c, p) ==
    /\ At(c, p, "s_relock")
    /\ disklk = NULL
    /\ disklk' = c
    /\ Goto(p, "s_sig")
    /\ UNCHANGED <<table, local, cpuv, cli, lk, kalloclk, rest>>

SleepRelock(c, p) ==
    /\ At(c, p, "s_relock")
    /\ disklk = NULL
    /\ disklk' = c
    /\ pushcli(c)
    /\ Goto(p, "s_sig")
    /\ UNCHANGED <<table, local, cpuv, lk, kalloclk, rest>>

\* sigcheck(p) inside sleep(): exitproc() starts with disk.lk held.
SleepSigcheck(c, p) ==
    /\ At(c, p, "s_sig")
    /\ IF sig[p]
       THEN /\ sig' = [sig EXCEPT ![p] = FALSE]
            /\ Goto(p, "x_free")
            /\ Forget(p)
       ELSE /\ Goto(p, IF call[p] = "io" THEN "d_done" ELSE "w_scan")
            /\ UNCHANGED <<sig, local>>
    /\ UNCHANGED <<state, pid, parent, chan, kstack, th, cpuv, cli, locks,
                   rest>>

-----------------------------------------------------------------------------
(* wait() and waitpid()                                                    *)

\* The zombies the call is for: waitpid() does not ask whose child it is.
Waited(p) ==
    {q \in Procs : /\ state[q] = "ZOMBIE"
                   /\ IF call[p] = "wait" THEN parent[q] = p
                                          ELSE pid[q] = arg[p]}

WaitScan(c, p) ==
    /\ At(c, p, "w_scan")
    /\ acquire(c)
    /\ \/ /\ Waited(p) = {}
          /\ FallAsleep(p, p)
          /\ UNCHANGED obj
       \/ \E q \in Procs :
             /\ First(q, Waited(p))
             /\ obj' = [obj EXCEPT ![p] = q]
             /\ Goto(p, "freeproc")
             /\ UNCHANGED <<state, chan>>
    /\ UNCHANGED <<pid, parent, sig, kstack, th, call, arg, req, cpuv, disklk,
                   kalloclk, rest>>

\* freeproc(obj) and release(): kfree() of the kernel stack needs
\* kallocator.lk, the memset clears the slot.
Freeproc(c, p) ==
    /\ At(c, p, "freeproc")
    /\ kalloclk = NULL
    /\ release(c)
    /\ state' = [state EXCEPT ![obj[p]] = "UNUSED"]
    /\ pid' = [pid EXCEPT ![obj[p]] = 0]
    /\ parent' = [parent EXCEPT ![obj[p]] = NULL]
    /\ chan' = [chan EXCEPT ![obj[p]] = NULL]
    /\ sig' = [sig EXCEPT ![obj[p]] = FALSE]
    /\ kstack' = [kstack EXCEPT ![obj[p]] = FALSE]
    /\ th' = [th EXCEPT ![obj[p]] = FALSE]
    /\ pc' = [pc EXCEPT ![obj[p]] = "none", ![p] = "sigcheck"]
    /\ UNCHANGED <<local, cpuv, disklk, kalloclk, rest>>

-----------------------------------------------------------------------------
(* kill(): pget() and killproc().                                          *)

\* pget() searches every slot, whatever its state, and drops the lock.
KillPget(c, p) ==
    /\ At(c, p, "k_pget")
    /\ Critical
    /\ LET found == {q \in Procs : pid[q] = arg[p]} IN
       \/ /\ found = {}
          /\ Goto(p, "sigcheck")
          /\ UNCHANGED obj
       \/ \E q \in Procs :
             /\ First(q, found)
             /\ obj' = [obj EXCEPT ![p] = q]
             /\ Goto(p, "k_sig")
    /\ UNCHANGED <<table, call, arg, req, cpuv, rest>>

KillSig(c, p) ==
    /\ At(c, p, "k_sig")
    /\ sig' = [sig EXCEPT ![obj[p]] = TRUE]
    /\ Goto(p, "k_wake")
    /\ UNCHANGED <<state, pid, parent, chan, kstack, th, local, cpuv, cli,
                   locks, rest>>

KillWake(c, p) ==
    /\ At(c, p, "k_wake")
    /\ Critical
    /\ state' = [state EXCEPT ![obj[p]] = IF @ = "SLEEPING" THEN "RUNNABLE"
                                                            ELSE @]
    /\ Goto(p, "sigcheck")
    /\ UNCHANGED <<pid, parent, chan, sig, kstack, th, local, cpuv, rest>>

-----------------------------------------------------------------------------
(* exitproc()                                                              *)

\* free_userspace() takes kallocator.lk unless p is a thread; close() of the
\* files is File's.
ExitFree(c, p) ==
    /\ At(c, p, "x_free")
    /\ p # initproc
    /\ th[p] \/ kalloclk = NULL
    /\ Goto(p, "x_acquire")
    /\ Forget(p)
    /\ UNCHANGED <<table, cpuv, cli, locks, rest>>

\* Mutant: the children keep their parent.
reparentNobody(p) == parent

reparent(p) ==
    [q \in Procs |-> IF parent[q] = p THEN initproc ELSE parent[q]]

\* Mutant: the state is changed without the lock.
ExitUnlocked(c, p) ==
    /\ At(c, p, "x_acquire")
    /\ parent' = reparent(p)
    /\ state' = [Woken(parent'[p]) EXCEPT ![p] = "ZOMBIE"]
    /\ Goto(p, "x_switch")
    /\ UNCHANGED <<pid, chan, sig, kstack, th, local, cpuv, cli, locks, rest>>

\* Mutant: wakeup_acquired(p) instead of wakeup_acquired(p->parent).
ExitWakesSelf(c, p) ==
    /\ At(c, p, "x_acquire")
    /\ acquire(c)
    /\ parent' = reparent(p)
    /\ state' = [Woken(p) EXCEPT ![p] = "ZOMBIE"]
    /\ Goto(p, "x_switch")
    /\ UNCHANGED <<pid, chan, sig, kstack, th, local, cpuv, disklk, kalloclk,
                   rest>>

ExitAcquire(c, p) ==
    /\ At(c, p, "x_acquire")
    /\ acquire(c)
    /\ parent' = reparent(p)
    /\ state' = [Woken(parent'[p]) EXCEPT ![p] = "ZOMBIE"]
    /\ Goto(p, "x_switch")
    /\ UNCHANGED <<pid, chan, sig, kstack, th, local, cpuv, disklk, kalloclk,
                   rest>>

ExitSwitch(c, p) ==
    At(c, p, "x_switch") /\ SwitchToScheduler(c, p, "dead")

-----------------------------------------------------------------------------
(* virtio_blk_op(), virtio_blk_intr() and the device.                      *)

DiskSubmit(c, p) ==
    /\ At(c, p, "d_submit")
    /\ disklk = NULL
    /\ disklk' = c
    /\ pushcli(c)
    /\ \E r \in Reqs :
          /\ First(r, {q \in Reqs : rstate[q] = "free"})
          /\ rstate' = [rstate EXCEPT ![r] = "sent"]
          /\ req' = [req EXCEPT ![p] = r]
    /\ Goto(p, "d_done")
    /\ UNCHANGED <<table, call, arg, obj, cpuv, lk, kalloclk, nextpid, panic>>

\* while(!done) sleep(); done = 0; free_desc(); release().
DiskDone(c, p) ==
    /\ At(c, p, "d_done")
    /\ IF rstate[req[p]] = "done"
       THEN /\ rstate' = [rstate EXCEPT ![req[p]] = "free"]
            /\ disklk = c
            /\ disklk' = NULL
            /\ popcli(c)
            /\ Goto(p, "sigcheck")
       ELSE /\ Goto(p, "s_acquire")
            /\ UNCHANGED <<rstate, disklk, cli>>
    /\ UNCHANGED <<table, local, cpuv, lk, kalloclk, nextpid, panic>>

\* The device finishes a request and raises its interrupt.
DeviceDone(r) ==
    /\ panic = "none"
    /\ rstate[r] = "sent"
    /\ rstate' = [rstate EXCEPT ![r] = "used"]
    /\ UNCHANGED <<table, pc, local, cpuv, cli, locks, nextpid, panic>>

\* The device interrupt, in user mode or in the kernel.
DeviceIrq(c) ==
    /\ panic = "none"
    /\ c = DevCpu
    /\ hpc[c] = "idle"
    /\ irq[c]
    /\ \E r \in Reqs : rstate[r] = "used"
    /\ hpc' = [hpc EXCEPT ![c] = "h_acquire"]
    /\ irq' = [irq EXCEPT ![c] = FALSE]
    /\ UNCHANGED <<table, pc, local, cur, spc, scan, cli_depth, intr_enabled,
                   locks, rest>>

IntrAt(c, from) == panic = "none" /\ hpc[c] = from

IntrAcquire(c) ==
    /\ IntrAt(c, "h_acquire")
    /\ disklk = NULL
    /\ disklk' = c
    /\ pushcli(c)
    /\ hpc' = [hpc EXCEPT ![c] = "h_loop"]
    /\ UNCHANGED <<table, pc, local, cur, spc, scan, lk, kalloclk, rest>>

IntrUsed(c, r) ==
    /\ IntrAt(c, "h_loop")
    /\ rstate[r] = "used"
    /\ rstate' = [rstate EXCEPT ![r] = "done"]
    /\ hpc' = [hpc EXCEPT ![c] = "h_wakeup"]
    /\ UNCHANGED <<table, pc, local, cur, spc, scan, cli, locks, nextpid,
                   panic>>

\* Mutant: info[d0].buf is cleared before wakeup().
IntrWakesNull(c) ==
    /\ IntrAt(c, "h_wakeup")
    /\ Critical
    /\ state' = Woken(NULL)
    /\ hpc' = [hpc EXCEPT ![c] = "h_loop"]
    /\ UNCHANGED <<pid, parent, chan, sig, kstack, th, pc, local, cur, spc,
                   scan, rest>>

IntrWakeup(c) ==
    /\ IntrAt(c, "h_wakeup")
    /\ Critical
    /\ state' = Woken(Buf)
    /\ hpc' = [hpc EXCEPT ![c] = "h_loop"]
    /\ UNCHANGED <<pid, parent, chan, sig, kstack, th, pc, local, cur, spc,
                   scan, rest>>

\* release(&disk.lk) and the return from the interrupt: into the kernel with
\* IRQs unmasked again, or on to the end of uirq_handler().
InUser(c) == cur[c] # NULL /\ pc[cur[c]] = "user"

IntrReturn(c) ==
    /\ IntrAt(c, "h_loop")
    /\ \A r \in Reqs : rstate[r] # "used"
    /\ disklk = c
    /\ disklk' = NULL
    /\ cli_depth' = [cli_depth EXCEPT ![c] = @ - 1]
    /\ intr_enabled' = [intr_enabled EXCEPT ![c] = @ /\ cli_depth[c] # 1]
    /\ hpc' = [hpc EXCEPT ![c] = "idle"]
    /\ IF InUser(c)
       THEN Goto(cur[c], "sigcheck") /\ UNCHANGED irq
       ELSE irq' = [irq EXCEPT ![c] = TRUE] /\ UNCHANGED pc
    /\ UNCHANGED <<table, local, cur, spc, scan, lk, kalloclk, rest>>

-----------------------------------------------------------------------------
(* The kernel's assertions.                                                *)

\* The lock that the next instruction of CPU c acquires is its own already.
WantsTable(c) ==
    \/ hpc[c] = "h_wakeup"
    \/ SchedAt(c, "acquire")
    \/ \E p \in Procs, i \in {"y_acquire", "f_slot", "f_publish", "f_fail",
                              "s_acquire", "w_scan", "k_pget", "k_wake",
                              "x_acquire"} : At(c, p, i)
WantsDisk(c) ==
    \/ hpc[c] = "h_acquire"
    \/ \E p \in Procs, i \in {"d_submit", "s_relock"} : At(c, p, i)
WantsKalloc(c) ==
    \E p \in Procs :
        \/ At(c, p, "f_mem") \/ At(c, p, "freeproc")
        \/ At(c, p, "x_free") /\ ~th[p] /\ p # initproc

AlreadyHeld(c) ==
    /\ \/ lk = c /\ WantsTable(c)
       \/ disklk = c /\ WantsDisk(c)
       \/ kalloclk = c /\ WantsKalloc(c)
    /\ panic' = "already held"

\* The lock that the next instruction of CPU c releases is not its own.
InvalidRelease(c) ==
    /\ \/ lk # c /\ SchedAt(c, "scan") /\ Ahead(c) = {}
       \/ lk # c /\ \E p \in Procs, i \in {"y_resume", "s_resume", "forkret",
                                           "freeproc"} : At(c, p, i)
       \/ disklk # c /\ \E p \in Procs :
             \/ At(c, p, "s_release")
             \/ At(c, p, "d_done") /\ rstate[req[p]] = "done"
    /\ panic' = "invalid release"

\* usync_handler() of an instruction abort, a misaligned sp or an exception it
\* does not know, and ksync_handler() of a system call that follows a bad pointer
\* without copyin() or copyout().
UserException(c, p) ==
    /\ At(c, p, "user")
    /\ "abort" \in UserCalls(p)
    /\ panic' = "user exception"

OtherPanic(c) ==
    \E p \in Procs :
        \/ UserException(c, p)
        \/ At(c, p, "x_free") /\ p = initproc /\ panic' = "init exit"
        \/ At(c, p, "dead") /\ panic' = "unreachable"
        \/ /\ At(c, p, "d_submit") /\ disklk = NULL
           /\ \A r \in Reqs : rstate[r] # "free"
           /\ panic' = "virtq kokatu"

Panic(c) ==
    /\ panic = "none"
    /\ AlreadyHeld(c) \/ InvalidRelease(c) \/ OtherPanic(c)
    /\ UNCHANGED <<table, pc, local, cpuv, cli, locks, rstate, nextpid>>

-----------------------------------------------------------------------------
SchedStep(c) ==
    SchedTop(c) \/ SchedAcquire(c) \/ SchedDispatch(c) \/ SchedRelease(c)

KernelStep(c, p) ==
    \/ Sigcheck(c, p) \/ Forkret(c, p)
    \/ YieldAcquire(c, p) \/ YieldSwitch(c, p) \/ YieldResume(c, p)
    \/ NewprocSlot(c, p) \/ NewprocPid(c, p) \/ NewprocMem(c, p)
    \/ NewprocNoMem(c, p) \/ ForkPublish(c, p) \/ ForkFail(c, p)
    \/ SleepAcquire(c, p) \/ SleepRelease(c, p) \/ SleepSwitch(c, p)
    \/ SleepResume(c, p) \/ SleepRelock(c, p) \/ SleepSigcheck(c, p)
    \/ WaitScan(c, p) \/ Freeproc(c, p)
    \/ KillPget(c, p) \/ KillSig(c, p) \/ KillWake(c, p)
    \/ ExitFree(c, p) \/ ExitAcquire(c, p) \/ ExitSwitch(c, p)
    \/ DiskSubmit(c, p) \/ DiskDone(c, p)

IntrStep(c) ==
    \/ DeviceIrq(c) \/ IntrAcquire(c) \/ IntrWakeup(c) \/ IntrReturn(c)
    \/ \E r \in Reqs : IntrUsed(c, r)

\* What CPU c does of itself: the interrupted code and the handler above it.
TaskStep(c) == SchedStep(c) \/ \E p \in Procs : KernelStep(c, p)
CpuStep(c) == TaskStep(c) \/ IntrStep(c) \/ Panic(c)

Next ==
    \/ \E c \in CPUs :
          \/ CpuStep(c)
          \/ \E p \in Procs : TimerIrq(c, p) \/ Syscall(c, p)
    \/ \E r \in Reqs : DeviceDone(r)

Spec == Init /\ [][Next]_vars

\* A CPU executes its next instruction, also between two interrupts, and a
\* CPU that finds a lock free again and again gets it; the timer interrupts
\* user code again and again; a pending device interrupt is taken, and its
\* handler goes on; the disk answers.  User code owes no system call.
Fairness ==
    /\ \A c \in CPUs : SF_vars(TaskStep(c))
    /\ SF_vars(IntrStep(DevCpu))
    /\ \A c \in CPUs : SF_vars(\E p \in Procs : TimerIrq(c, p))
    /\ \A r \in Reqs : WF_vars(DeviceDone(r))

FairSpec == Spec /\ Fairness

-----------------------------------------------------------------------------
(* Safety.                                                                 *)

\* No two CPUs execute on the same kernel stack, and no kernel stack is freed
\* while a CPU is on it: yield(), sleep() and exitproc() keep proctable.lk
\* until they are off their stack, so no other CPU can dispatch the process
\* or reap it before.
StackSafe ==
    \A c \in CPUs : cur[c] # NULL =>
        /\ kstack[cur[c]]
        /\ state[cur[c]] \in Live \cup {"ZOMBIE"}
        /\ \A d \in CPUs \ {c} : cur[d] # cur[c]

\* Between critical sections, RUNNING means being executed by some CPU: no
\* process is lost between the scheduler and the kernel paths that sleep.
RunningOnCpu ==
    lk = NULL => \A p \in Procs :
        state[p] = "RUNNING" <=> \E c \in CPUs : cur[c] = p

\* Every process but init, zombies included, has a live parent that can still
\* wait() for it: exitproc() hands its children over before it dies.
NoOrphan ==
    \A p \in Procs \ {initproc} :
        state[p] \in Live \cup {"ZOMBIE"} =>
            parent[p] # NULL /\ state[parent[p]] \in Live

\* No lost wake-up in wait() and waitpid(): a process does not sleep while a
\* child it waits for is a zombie.  (Not for init, which exitproc() does not
\* wake for the zombies it inherits.)
NoLostWait ==
    \A p \in Procs \ {initproc} :
        state[p] = "SLEEPING" /\ call[p] \in {"wait", "waitpid"} =>
            \A q \in Waited(p) : parent[q] # p

\* No lost wake-up in virtio_blk_op(): a process does not sleep on a request
\* that is done, unless the interrupt handler is just about to wake it.
NoLostCompletion ==
    \A p \in Procs :
        state[p] = "SLEEPING" /\ call[p] = "io" /\ rstate[req[p]] = "done"
            => hpc[DevCpu] = "h_wakeup"

\* No assertion of spinlock.c, proc.c and virtio.c fails, unless kalloc() has
\* kept its lock: every release() is by the owner, on the CPU where the lock was
\* taken or handed over; no CPU takes a lock twice; a zombie is never dispatched.
\* The exceptions of user code that the kernel panics on are no such assertion.
NoPanic == kalloclk = NULL => panic \in {"none", "user exception"}

\* acquire()'s assertion alone.
NeverAlreadyHeld == panic # "already held"

\* The nesting count of a CPU is the number of locks it holds, through every
\* context switch: the count is per CPU and the lock changes hands between a
\* process and the scheduler of the same CPU.
B(b) == IF b THEN 1 ELSE 0
CliBalanced ==
    \A c \in CPUs :
        cli_depth[c] = B(lk = c) + B(disklk = c) + B(kalloclk = c)

\* A CPU that holds proctable.lk or disk.lk takes no interrupt, and user code
\* runs with no lock held, the count at 0 and IRQs unmasked.
LockDiscipline ==
    \A c \in CPUs :
        /\ c \in {lk, disklk} => ~irq[c]
        /\ InUser(c) /\ hpc[c] = "idle" =>
              c \notin {lk, disklk, kalloclk} /\ cli_depth[c] = 0 /\ irq[c]

-----------------------------------------------------------------------------
(* The inductive invariant behind StackSafe and RunningOnCpu: how a         *)
(* process, its slot, its CPU and proctable.lk belong together at every    *)
(* point of the code.                                                      *)

OnCpu(p) == \E c \in CPUs : cur[c] = p

\* Points at which the code is inside a critical section of proctable.lk.
SwitchPCs == {"y_switch", "s_switch", "x_switch"}
ResumePCs == {"y_resume", "s_resume", "forkret", "dead"}
HoldPCs == SwitchPCs \cup ResumePCs \cup {"s_release", "freeproc"}
\* Points at which fork() works on a slot of its own.
ForkPCs == {"f_pid", "f_mem", "f_publish", "f_fail"}

\* No process is on two CPUs.
CurInjective ==
    \A c, d \in CPUs : cur[c] # NULL /\ cur[c] = cur[d] => c = d

\* A process on a CPU is RUNNING, or about to leave it with the lock held.
CurState ==
    \A c \in CPUs : cur[c] # NULL =>
        /\ spc[c] = "scan"
        /\ \/ state[cur[c]] = "RUNNING" /\ pc[cur[c]] \notin SwitchPCs
           \/ state[cur[c]] = "RUNNABLE" /\ pc[cur[c]] = "y_switch"
           \/ state[cur[c]] = "SLEEPING" /\ pc[cur[c]] = "s_switch"
           \/ state[cur[c]] = "ZOMBIE" /\ pc[cur[c]] = "x_switch"

\* The lock is held at the points that rely on it.
LockHeld ==
    \A c \in CPUs :
        /\ cur[c] = NULL /\ spc[c] = "scan" => lk = c
        /\ cur[c] # NULL /\ pc[cur[c]] \in HoldPCs => lk = c

\* A process that is off its CPU was saved by cswitch() or has not started.
Saved ==
    \A p \in Procs :
        state[p] \in Live \cup {"ZOMBIE"} /\ ~OnCpu(p) =>
            state[p] # "RUNNING" /\ pc[p] \in ResumePCs

\* The slot that fork() is filling is CREATED, the slot that is being freed
\* is CREATED or ZOMBIE, and no two CPUs work on the same one.
SlotOwned ==
    \A c \in CPUs : cur[c] # NULL =>
        /\ pc[cur[c]] \in ForkPCs => state[obj[cur[c]]] = "CREATED"
        /\ pc[cur[c]] = "freeproc" =>
              state[obj[cur[c]]] \in {"CREATED", "ZOMBIE"}
        /\ pc[cur[c]] \in ForkPCs \cup {"freeproc"} =>
              /\ obj[cur[c]] \in Procs
              /\ \A d \in CPUs \ {c} :
                    cur[d] # NULL /\ pc[cur[d]] \in ForkPCs \cup {"freeproc"} =>
                        obj[cur[d]] # obj[cur[c]]

\* Whatever can run has a kernel stack.
HasStack ==
    /\ \A p \in Procs : state[p] \in Live \cup {"ZOMBIE"} => kstack[p]
    /\ \A c \in CPUs :
          cur[c] # NULL /\ pc[cur[c]] = "f_publish" =>
              kstack[obj[cur[c]]] /\ pc[obj[cur[c]]] = "forkret"

SchedInv ==
    CurInjective /\ CurState /\ LockHeld /\ Saved /\ SlotOwned /\ HasStack

-----------------------------------------------------------------------------
(* Liveness.                                                               *)

\* Round-robin: a runnable process gets a CPU.
NoStarvation ==
    \A p \in Procs : state[p] = "RUNNABLE" ~> state[p] # "RUNNABLE"

\* A parent in wait() reaps its zombie child (init excepted, see NoLostWait).
ZombieReaped ==
    \A p \in Procs \ {initproc}, q \in Procs :
        (call[p] = "wait" /\ state[q] = "ZOMBIE" /\ parent[q] = p) ~>
            ~(call[p] = "wait" /\ state[q] = "ZOMBIE" /\ parent[q] = p)

\* A disk operation returns.
DiskOpReturns == \A p \in Procs : call[p] = "io" ~> call[p] # "io"
=============================================================================
