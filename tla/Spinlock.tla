------------------------------ MODULE Spinlock ------------------------------
(***************************************************************************)
(* The spin locks of kernel/spinlock.c, one step per memory access or      *)
(* system-register access.  Two activities share a CPU: the task (a        *)
(* process in the kernel or in user mode, or the scheduler loop) and the   *)
(* interrupt handler that may interrupt it while IRQs are unmasked.        *)
(*                                                                         *)
(* Memory is sequentially consistent here.  The exclusive monitor of       *)
(* ldaxrb/stxrb and the event register of sevl/wfe are modelled by what    *)
(* the loop in acquire() relies on: a store to the lock clears every other *)
(* monitor on it, and clearing a monitor is a wake-up event.               *)
(***************************************************************************)
EXTENDS Integers, FiniteSets

CONSTANTS
    CPUs,       \* the CPU numbers that cpuid() returns
    Locks       \* lock identities, in the order in which callers nest them

ASSUME CPUsAssumption == CPUs \subseteq Nat /\ IsFiniteSet(CPUs)
ASSUME LocksAssumption == Locks \subseteq Nat \ {0} /\ IsFiniteSet(Locks)

Levels == {"task", "irq"}
Acts == CPUs \X Levels
NoCpu == -1     \* lk->cpuid of a lock nobody owns
NoLock == 0     \* no monitor, no argument

PCs == {"run",                                              \* between calls
        "push_load", "push_store", "push_save", "push_mask",    \* pushcli
        "acq_chk_lock", "acq_chk_cpu", "wfe", "ldaxrb", "stxrb", "own",
        "rel_chk_lock", "rel_chk_cpu", "disown", "unlock",
        "pop_dec", "pop_unmask", "panic"}

VARIABLES
    lock,           \* lk->lock
    cpuid,          \* lk->cpuid
    cli_depth,      \* struct cpu: pushcli nesting
    intr_enabled,   \* struct cpu: IRQ mask found by the outermost pushcli
    irq,            \* DAIF.I of each CPU: TRUE when IRQs are unmasked
    mon,            \* the lock each CPU's exclusive monitor is on, or NoLock
    ev,             \* the event register of each CPU
    running,        \* which activity each CPU executes
    pc,             \* program counter of each activity
    arg,            \* the lk argument of the call in progress
    tmp,            \* register: cli_depth as loaded by pushcli
    held,           \* the locks each activity has taken and not given back
    base            \* IRQ mask in force outside every critical section

vars == <<lock, cpuid, cli_depth, intr_enabled, irq, mon, ev, running, pc,
          arg, tmp, held, base>>

lockvars == <<lock, cpuid, mon, ev, held>>
clivars == <<cli_depth, intr_enabled, irq, base>>

TypeOK ==
    /\ lock \in [Locks -> {0, 1}]
    /\ cpuid \in [Locks -> CPUs \cup {NoCpu}]
    /\ cli_depth \in [CPUs -> Nat]
    /\ intr_enabled \in [CPUs -> BOOLEAN]
    /\ irq \in [CPUs -> BOOLEAN]
    /\ mon \in [CPUs -> Locks \cup {NoLock}]
    /\ ev \in [CPUs -> BOOLEAN]
    /\ running \in [CPUs -> Levels]
    /\ pc \in [Acts -> PCs]
    /\ arg \in [Acts -> Locks \cup {NoLock}]
    /\ tmp \in [Acts -> Nat]
    /\ held \in [Acts -> SUBSET Locks]
    /\ base \in [CPUs -> BOOLEAN]

\* lock_init() on every lock; cpus[] zeroed by proc_init().
Init ==
    /\ lock = [l \in Locks |-> 0]
    /\ cpuid = [l \in Locks |-> NoCpu]
    /\ cli_depth = [c \in CPUs |-> 0]
    /\ intr_enabled = [c \in CPUs |-> FALSE]
    /\ irq \in [CPUs -> BOOLEAN]
    /\ mon = [c \in CPUs |-> NoLock]
    /\ ev = [c \in CPUs |-> FALSE]
    /\ running = [c \in CPUs |-> "task"]
    /\ pc = [a \in Acts |-> "run"]
    /\ arg = [a \in Acts |-> NoLock]
    /\ tmp = [a \in Acts |-> 0]
    /\ held = [a \in Acts |-> {}]
    /\ base = irq

-----------------------------------------------------------------------------
\* Activity a is the one its CPU executes, and it is at from; it goes to to.
At(a, from) == running[a[1]] = a[2] /\ pc[a] = from
Goto(a, to) == pc' = [pc EXCEPT ![a] = to]

\* The registers of a call are dead once it has returned.
Clear(a, to) ==
    /\ arg' = [arg EXCEPT ![a] = IF to = "run" THEN NoLock ELSE @]
    /\ tmp' = [tmp EXCEPT ![a] = IF to = "run" THEN 0 ELSE @]
Step(a, from, to) == At(a, from) /\ Goto(a, to)

\* A store by CPU c to the lock byte of l: the monitors that other CPUs have
\* on it are cleared, which sends those CPUs an event.
Store(c, l, v) ==
    /\ lock' = [lock EXCEPT ![l] = v]
    /\ mon' = [d \in CPUs |-> IF mon[d] = l THEN NoLock ELSE mon[d]]
    /\ ev' = [d \in CPUs |-> ev[d] \/ (d # c /\ mon[d] = l)]

-----------------------------------------------------------------------------
(* The callers.  They take locks in increasing order, so no two activities *)
(* wait for each other, and give them back in any order: sleep() releases  *)
(* the outer lock while it keeps proctable.lk.                             *)

Acquire(a, l) ==
    /\ Step(a, "run", "push_load")
    /\ \A m \in held[a] : m < l
    /\ arg' = [arg EXCEPT ![a] = l]
    /\ UNCHANGED <<lockvars, clivars, running, tmp>>

Release(a, l) ==
    /\ Step(a, "run", "rel_chk_lock")
    /\ l \in held[a]
    /\ arg' = [arg EXCEPT ![a] = l]
    /\ UNCHANGED <<lockvars, clivars, running, tmp>>

\* pushcli(): depth++ is a load and a store with IRQs still unmasked.
PushLoad(a) ==
    /\ Step(a, "push_load", "push_store")
    /\ tmp' = [tmp EXCEPT ![a] = cli_depth[a[1]]]
    /\ UNCHANGED <<lockvars, clivars, running, arg>>

\* Mutant: the test of the old depth is lost, every pushcli saves the mask.
PushStoreAlwaysSaves(a) ==
    /\ Step(a, "push_store", "push_save")
    /\ cli_depth' = [cli_depth EXCEPT ![a[1]] = tmp[a] + 1]
    /\ UNCHANGED <<lockvars, intr_enabled, irq, base, running, arg, tmp>>

PushStore(a) ==
    /\ At(a, "push_store")
    /\ Goto(a, IF tmp[a] = 0 THEN "push_save" ELSE "acq_chk_lock")
    /\ cli_depth' = [cli_depth EXCEPT ![a[1]] = tmp[a] + 1]
    /\ UNCHANGED <<lockvars, intr_enabled, irq, base, running, arg, tmp>>

PushSave(a) ==
    /\ Step(a, "push_save", "push_mask")
    /\ intr_enabled' = [intr_enabled EXCEPT ![a[1]] = irq[a[1]]]
    /\ UNCHANGED <<lockvars, cli_depth, irq, base, running, arg, tmp>>

\* Mutant: disable_irq() is missing.
PushMaskMissing(a) ==
    /\ Step(a, "push_mask", "acq_chk_lock")
    /\ UNCHANGED <<lockvars, clivars, running, arg, tmp>>

PushMask(a) ==
    /\ Step(a, "push_mask", "acq_chk_lock")
    /\ irq' = [irq EXCEPT ![a[1]] = FALSE]
    /\ UNCHANGED <<lockvars, cli_depth, intr_enabled, base, running, arg, tmp>>

\* Mutant: no sevl before the first wfe.
AcqCheckLockNoSevl(a) ==
    /\ At(a, "acq_chk_lock")
    /\ Goto(a, IF lock[arg[a]] = 1 THEN "acq_chk_cpu" ELSE "wfe")
    /\ UNCHANGED <<lockvars, clivars, running, arg, tmp>>

\* if(holding(lk)) panic(): two loads.  The assembly starts with sevl, which
\* sets the event register so that the first wfe falls through.
AcqCheckLock(a) ==
    /\ At(a, "acq_chk_lock")
    /\ Goto(a, IF lock[arg[a]] = 1 THEN "acq_chk_cpu" ELSE "wfe")
    /\ ev' = [ev EXCEPT ![a[1]] = @ \/ lock[arg[a]] = 0]
    /\ UNCHANGED <<lock, cpuid, mon, held, clivars, running, arg, tmp>>

AcqCheckCpu(a) ==
    /\ At(a, "acq_chk_cpu")
    /\ Goto(a, IF cpuid[arg[a]] = a[1] THEN "panic" ELSE "wfe")
    /\ ev' = [ev EXCEPT ![a[1]] = TRUE]
    /\ UNCHANGED <<lock, cpuid, mon, held, clivars, running, arg, tmp>>

\* wfe completes on an event.  (A core may also complete it for no reason:
\* the ldaxrb that follows then finds the lock taken and comes back.)
Wfe(a) ==
    /\ Step(a, "wfe", "ldaxrb")
    /\ ev[a[1]]
    /\ ev' = [ev EXCEPT ![a[1]] = FALSE]
    /\ UNCHANGED <<lock, cpuid, mon, held, clivars, running, arg, tmp>>

\* Mutant: the first cbnz is missing.
LdaxrbIgnoresLock(a) ==
    /\ Step(a, "ldaxrb", "stxrb")
    /\ mon' = [mon EXCEPT ![a[1]] = arg[a]]
    /\ UNCHANGED <<lock, cpuid, ev, held, clivars, running, arg, tmp>>

Ldaxrb(a) ==
    /\ At(a, "ldaxrb")
    /\ Goto(a, IF lock[arg[a]] = 0 THEN "stxrb" ELSE "wfe")
    /\ mon' = [mon EXCEPT ![a[1]] = arg[a]]
    /\ UNCHANGED <<lock, cpuid, ev, held, clivars, running, arg, tmp>>

\* Mutant: a plain store, which always succeeds.
StxrbPlainStore(a) ==
    /\ Step(a, "stxrb", "own")
    /\ Store(a[1], arg[a], 1)
    /\ held' = [held EXCEPT ![a] = @ \cup {arg[a]}]
    /\ UNCHANGED <<cpuid, clivars, running, arg, tmp>>

\* stxrb stores only while the CPU's monitor is still on the lock.
Stxrb(a) ==
    /\ At(a, "stxrb")
    /\ IF mon[a[1]] = arg[a]
       THEN /\ Goto(a, "own")
            /\ Store(a[1], arg[a], 1)
            /\ held' = [held EXCEPT ![a] = @ \cup {arg[a]}]
       ELSE /\ Goto(a, "ldaxrb")
            /\ UNCHANGED <<lock, mon, ev, held>>
    /\ UNCHANGED <<cpuid, clivars, running, arg, tmp>>

Own(a) ==
    /\ Step(a, "own", "run")
    /\ cpuid' = [cpuid EXCEPT ![arg[a]] = a[1]]
    /\ Clear(a, "run")
    /\ UNCHANGED <<lock, mon, ev, held, clivars, running>>

\* release(): if(!holding(lk)) panic(), again two loads.
RelCheckLock(a) ==
    /\ At(a, "rel_chk_lock")
    /\ Goto(a, IF lock[arg[a]] = 1 THEN "rel_chk_cpu" ELSE "panic")
    /\ UNCHANGED <<lockvars, clivars, running, arg, tmp>>

RelCheckCpu(a) ==
    /\ At(a, "rel_chk_cpu")
    /\ Goto(a, IF cpuid[arg[a]] = a[1] THEN "disown" ELSE "panic")
    /\ UNCHANGED <<lockvars, clivars, running, arg, tmp>>

Disown(a) ==
    /\ Step(a, "disown", "unlock")
    /\ cpuid' = [cpuid EXCEPT ![arg[a]] = NoCpu]
    /\ UNCHANGED <<lock, mon, ev, held, clivars, running, arg, tmp>>

Unlock(a) ==
    /\ Step(a, "unlock", "pop_dec")
    /\ Store(a[1], arg[a], 0)
    /\ held' = [held EXCEPT ![a] = @ \ {arg[a]}]
    /\ UNCHANGED <<cpuid, clivars, running, arg, tmp>>

\* Mutant: the mask is restored whatever the depth.
PopDecAlwaysUnmasks(a) ==
    /\ Step(a, "pop_dec", "pop_unmask")
    /\ cli_depth' = [cli_depth EXCEPT ![a[1]] = @ - 1]
    /\ UNCHANGED <<lockvars, intr_enabled, irq, base, running, arg, tmp>>

\* popcli(): panics at depth 0; the last one restores the mask.
PopDec(a) ==
    /\ At(a, "pop_dec")
    /\ Goto(a, IF cli_depth[a[1]] = 0 THEN "panic"
               ELSE IF cli_depth[a[1]] = 1 THEN "pop_unmask" ELSE "run")
    /\ cli_depth' = [cli_depth EXCEPT ![a[1]] = IF @ = 0 THEN 0 ELSE @ - 1]
    /\ Clear(a, pc'[a])
    /\ UNCHANGED <<lockvars, intr_enabled, irq, base, running>>

PopUnmask(a) ==
    /\ Step(a, "pop_unmask", "run")
    /\ irq' = [irq EXCEPT ![a[1]] = @ \/ intr_enabled[a[1]]]
    /\ Clear(a, "run")
    /\ UNCHANGED <<lockvars, cli_depth, intr_enabled, base, running>>

-----------------------------------------------------------------------------
(* Exceptions.                                                             *)

\* An IRQ is taken between any two instructions of the task while unmasked;
\* the hardware masks further ones.  (pc "run" with no handler in progress.)
IrqEntry(c) ==
    /\ irq[c]
    /\ running[c] = "task"
    /\ pc[<<c, "task">>] # "panic"
    /\ running' = [running EXCEPT ![c] = "irq"]
    /\ irq' = [irq EXCEPT ![c] = FALSE]
    /\ UNCHANGED <<lockvars, cli_depth, intr_enabled, base, pc, arg, tmp>>

\* The handler returns with every lock given back; eret restores the mask,
\* clears the exclusive monitor and sets the event register.
Eret(c) ==
    /\ At(<<c, "irq">>, "run")
    /\ held[<<c, "irq">>] = {}
    /\ running' = [running EXCEPT ![c] = "task"]
    /\ irq' = [irq EXCEPT ![c] = TRUE]
    /\ mon' = [mon EXCEPT ![c] = NoLock]
    /\ ev' = [ev EXCEPT ![c] = TRUE]
    /\ UNCHANGED <<lock, cpuid, held, cli_depth, intr_enabled, base, pc, arg,
                   tmp>>

\* A task that holds nothing enters or leaves the kernel by a system call or
\* by schedule()'s enable_irq(): the mask it runs with changes.
TrapBoundary(c) ==
    /\ At(<<c, "task">>, "run")
    /\ held[<<c, "task">>] = {}
    /\ irq' = [irq EXCEPT ![c] = ~@]
    /\ base' = [base EXCEPT ![c] = ~@]
    /\ UNCHANGED <<lockvars, cli_depth, intr_enabled, running, pc, arg, tmp>>

-----------------------------------------------------------------------------
\* The instructions of acquire() and release() after the call.
CallStep(a) ==
    \/ PushLoad(a) \/ PushStore(a) \/ PushSave(a) \/ PushMask(a)
    \/ AcqCheckLock(a) \/ AcqCheckCpu(a)
    \/ Wfe(a) \/ Ldaxrb(a) \/ Stxrb(a) \/ Own(a)
    \/ RelCheckLock(a) \/ RelCheckCpu(a) \/ Disown(a) \/ Unlock(a)
    \/ PopDec(a) \/ PopUnmask(a)

Next ==
    \/ \E a \in Acts :
          \/ CallStep(a)
          \/ \E l \in Locks : Acquire(a, l) \/ Release(a, l)
    \/ \E c \in CPUs : IrqEntry(c) \/ Eret(c) \/ TrapBoundary(c)

Spec == Init /\ [][Next]_vars

-----------------------------------------------------------------------------
(* Properties.                                                             *)

\* No two activities are past stxrb and before stlrb of the same lock.
MutualExclusion ==
    \A a, b \in Acts : a # b => held[a] \cap held[b] = {}

\* None of "already held", "invalid release" and "popcli" fires for callers
\* that pair their calls: holding() never mistakes another CPU's lock, or a
\* lock half way through acquire() or release(), for its own.
NoPanic == \A a \in Acts : pc[a] # "panic"

\* An IRQ handler can never run on top of a critical section of its CPU,
\* where it would spin for ever on a lock the interrupted task holds.
IrqMaskedWhileHeld ==
    \A a \in Acts : held[a] # {} => ~irq[a[1]]

\* Whatever the nesting, the order of the releases and the interrupts taken
\* inside pushcli, the IRQ mask and the nesting count are back to what they
\* were once an activity holds nothing.
IrqRestored ==
    \A c \in CPUs :
        /\ At(<<c, "task">>, "run") /\ held[<<c, "task">>] = {}
              => irq[c] = base[c] /\ cli_depth[c] = 0
        /\ At(<<c, "irq">>, "run") => ~irq[c]

\* A CPU that waits in wfe without a pending event has its monitor on a lock
\* that is taken: the release it waits for will wake it.
NoLostEvent ==
    \A a \in Acts :
        At(a, "wfe") /\ ~ev[a[1]] =>
            mon[a[1]] = arg[a] /\ lock[arg[a]] = 1

\* The lock as its callers see it: owned from stxrb to stlrb.
owner ==
    [l \in Locks |-> IF \E a \in Acts : l \in held[a]
                     THEN CHOOSE a \in Acts : l \in held[a] ELSE <<>>]
Abs == INSTANCE AbstractLock WITH NoAct <- <<>>

\* acquire() and release() behave as indivisible steps of a lock with one
\* owner.
ImplementsLock == Abs!Spec
=============================================================================
