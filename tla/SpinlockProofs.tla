--------------------------- MODULE SpinlockProofs ---------------------------
(***************************************************************************)
(* Theorems about Spinlock: the inductive invariant SpinInv, the safety    *)
(* properties it implies, and the refinement of AbstractLock.              *)
(***************************************************************************)
EXTENDS Spinlock, FiniteSetTheorems, TLAPS

Task(c) == <<c, "task">>
Irq(c) == <<c, "irq">>

\* Where an activity is on its way to lock arg, and where it has it.
Taking == {"push_load", "push_store", "push_save", "push_mask", "acq_chk_lock",
           "acq_chk_cpu", "wfe", "ldaxrb", "stxrb"}
Having == {"own", "rel_chk_lock", "rel_chk_cpu", "disown", "unlock"}

\* Outside every critical section, as far as the IRQ mask goes.
Open(a) ==
    /\ held[a] = {}
    /\ pc[a] \in {"run", "push_load", "push_store", "push_save", "push_mask"}

\* The calls of pushcli() that activity a has not undone yet: one for each lock
\* it holds, and one for the lock it is taking or has just given back.
Nest(a) ==
    Cardinality(held[a])
        + IF pc[a] \in {"push_save", "push_mask", "acq_chk_lock", "acq_chk_cpu",
                        "wfe", "ldaxrb", "stxrb", "pop_dec"} THEN 1 ELSE 0

CallInv ==
    \A a \in Acts :
        /\ pc[a] # "panic"
        /\ pc[a] \in Taking => arg[a] \in Locks \ held[a]
        /\ pc[a] \in Having => arg[a] \in held[a]
        /\ pc[a] \in {"push_save", "push_mask", "pop_unmask"} => held[a] = {}

\* The lock byte says whether somebody holds the lock.
LockInv ==
    /\ MutualExclusion
    /\ \A l \in Locks : lock[l] = 1 <=> \E a \in Acts : l \in held[a]

\* cpuid is the owner's CPU, but right after stxrb and right before stlrb.
OwnerInv ==
    /\ \A c \in CPUs, l \in Locks :
          cpuid[l] = c => l \in held[Task(c)] \cup held[Irq(c)]
    /\ \A a \in Acts : \A l \in held[a] :
          cpuid[l] = a[1] \/ (pc[a] \in {"own", "unlock"} /\ arg[a] = l)
    /\ \A a \in Acts : pc[a] = "unlock" => cpuid[arg[a]] = NoCpu

\* A handler that does not run has returned; a task that does not run was
\* interrupted outside its critical sections, with IRQs unmasked.
SuspendOn(c) ==
    /\ running[c] = "task" => pc[Irq(c)] = "run" /\ held[Irq(c)] = {}
    /\ running[c] = "irq" => Open(Task(c)) /\ base[c] /\ ~irq[c]

\* The nesting count, also as pushcli() has loaded it.
DepthOn(c) ==
    /\ cli_depth[c] = Nest(Task(c)) + Nest(Irq(c))
    /\ pc[Task(c)] = "push_store" => tmp[Task(c)] = Nest(Task(c))
    /\ pc[Irq(c)] = "push_store" => tmp[Irq(c)] = Nest(Task(c)) + Nest(Irq(c))
    /\ pc[Irq(c)] \in {"push_save", "push_mask", "pop_unmask"} => Nest(Task(c)) = 0

\* The mask, and the one that the outermost popcli() will restore.
MaskOn(c) ==
    /\ running[c] = "task" /\ Open(Task(c)) => irq[c] = base[c]
    /\ running[c] = "task" /\ ~Open(Task(c)) => ~irq[c] /\ intr_enabled[c] = base[c]
    /\ pc[Task(c)] = "push_mask" => intr_enabled[c] = base[c]
    /\ Nest(Task(c)) = 0 /\ (~Open(Irq(c)) \/ pc[Irq(c)] = "push_mask")
          => ~intr_enabled[c]

CpuInv == \A c \in CPUs : SuspendOn(c) /\ DepthOn(c) /\ MaskOn(c)

\* The monitor notices every store between ldaxrb and stxrb, or before wfe.
MonitorInv ==
    /\ NoLostEvent
    /\ \A a \in Acts : pc[a] = "stxrb" /\ mon[a[1]] = arg[a] => lock[arg[a]] = 0

SpinInv ==
    /\ TypeOK /\ CallInv /\ LockInv /\ OwnerInv
    /\ CpuInv /\ MonitorInv

-----------------------------------------------------------------------------
\* The activities are the tasks and the handlers of the CPUs.
LEMMA ActsFacts ==
  /\ \A a \in Acts : a[1] \in CPUs /\ a[2] \in Levels
  /\ \A a \in Acts : \/ a = Task(a[1]) /\ a[2] = "task"
                     \/ a = Irq(a[1]) /\ a[2] = "irq"
  /\ \A c \in CPUs : /\ Task(c) \in Acts /\ Task(c)[1] = c /\ Task(c)[2] = "task"
                     /\ Irq(c) \in Acts /\ Irq(c)[1] = c /\ Irq(c)[2] = "irq"
  /\ \A c \in CPUs : Task(c) # Irq(c)
BY DEF Acts, Levels, Task, Irq

\* What the count of an activity tells about the locks it holds.
LEMMA NestFacts ==
  ASSUME TypeOK, NEW a \in Acts
  PROVE  /\ IsFiniteSet(held[a])
         /\ Cardinality(held[a]) \in Nat /\ Nest(a) \in Nat
         /\ Cardinality(held[a]) = 0 <=> held[a] = {}
         /\ Nest(a) >= Cardinality(held[a])
<1>1. held[a] \in SUBSET Locks
  BY DEF TypeOK
<1>2. IsFiniteSet(held[a])
  BY <1>1, LocksAssumption, FS_Subset
<1>3. Cardinality(held[a]) \in Nat /\ (Cardinality(held[a]) = 0 <=> held[a] = {})
  BY <1>2, FS_CardinalityType, FS_EmptySet
<1> QED BY <1>2, <1>3 DEF Nest

\* Every step keeps the types; stxrb stores to a lock because of CallInv.
LEMMA TypeOKStep ==
  ASSUME SpinInv, [Next]_vars
  PROVE  TypeOK'
<1> USE ActsFacts
        DEF SpinInv, TypeOK, lockvars, clivars, Step, At, Goto, Clear, Store
<1> USE DEF Levels, PCs
<1>1. ASSUME NEW a \in Acts, NEW l \in Locks, Acquire(a, l) PROVE TypeOK'
  BY <1>1 DEF Acquire
<1>2. ASSUME NEW a \in Acts, NEW l \in Locks, Release(a, l) PROVE TypeOK'
  BY <1>2 DEF Release
<1>3. ASSUME NEW a \in Acts, PushLoad(a) PROVE TypeOK'
  BY <1>3 DEF PushLoad
<1>4. ASSUME NEW a \in Acts, PushStore(a) PROVE TypeOK'
  BY <1>4 DEF PushStore
<1>5. ASSUME NEW a \in Acts, PushSave(a) PROVE TypeOK'
  BY <1>5 DEF PushSave
<1>6. ASSUME NEW a \in Acts, PushMask(a) PROVE TypeOK'
  BY <1>6 DEF PushMask
<1>7. ASSUME NEW a \in Acts, AcqCheckLock(a) PROVE TypeOK'
  BY <1>7 DEF AcqCheckLock
<1>8. ASSUME NEW a \in Acts, AcqCheckCpu(a) PROVE TypeOK'
  BY <1>8 DEF AcqCheckCpu
<1>9. ASSUME NEW a \in Acts, Wfe(a) PROVE TypeOK'
  BY <1>9 DEF Wfe
<1>10. ASSUME NEW a \in Acts, Ldaxrb(a) PROVE TypeOK'
  BY <1>10 DEF Ldaxrb
<1>11. ASSUME NEW a \in Acts, Stxrb(a) PROVE TypeOK'
  <2>1. CASE mon[a[1]] = arg[a]
    <3>1. arg[a] \in Locks
      BY <1>11, <2>1 DEF Stxrb, CallInv, Taking
    <3>2. lock' = [lock EXCEPT ![arg[a]] = 1] /\ lock' \in [Locks -> {0, 1}]
      BY <1>11, <2>1, <3>1 DEF Stxrb
    <3>3. mon' = [d \in CPUs |-> IF mon[d] = arg[a] THEN NoLock ELSE mon[d]]
      BY <1>11, <2>1 DEF Stxrb
    <3>4. mon' \in [CPUs -> Locks \cup {NoLock}]
      BY <3>3
    <3>5. ev' = [d \in CPUs |-> ev[d] \/ (d # a[1] /\ mon[d] = arg[a])]
      BY <1>11, <2>1 DEF Stxrb
    <3>6. ev' \in [CPUs -> BOOLEAN]
      BY <3>5
    <3>7. held' = [held EXCEPT ![a] = held[a] \cup {arg[a]}]
      BY <1>11, <2>1 DEF Stxrb
    <3>8. held[a] \cup {arg[a]} \in SUBSET Locks
      BY <3>1
    <3>9. held' \in [Acts -> SUBSET Locks]
      BY <3>7, <3>8
    <3>10. pc' = [pc EXCEPT ![a] = "own"] /\ pc' \in [Acts -> PCs]
      BY <1>11, <2>1 DEF Stxrb
    <3> QED BY <1>11, <3>2, <3>4, <3>6, <3>9, <3>10, SMTT(20) DEF Stxrb
  <2> QED BY <1>11, <2>1, SMTT(20) DEF Stxrb
<1>12. ASSUME NEW a \in Acts, Own(a) PROVE TypeOK'
  BY <1>12 DEF Own
<1>13. ASSUME NEW a \in Acts, RelCheckLock(a) PROVE TypeOK'
  BY <1>13 DEF RelCheckLock
<1>14. ASSUME NEW a \in Acts, RelCheckCpu(a) PROVE TypeOK'
  BY <1>14 DEF RelCheckCpu
<1>15. ASSUME NEW a \in Acts, Disown(a) PROVE TypeOK'
  BY <1>15 DEF Disown
<1>16. ASSUME NEW a \in Acts, Unlock(a) PROVE TypeOK'
  BY <1>16, ZenonT(30) DEF Unlock
<1>17. ASSUME NEW a \in Acts, PopDec(a) PROVE TypeOK'
  <2>1. pc'[a] \in {"panic", "pop_unmask", "run"} /\ pc' \in [Acts -> PCs]
    BY <1>17 DEF PopDec
  <2>2. cli_depth' \in [CPUs -> Nat]
    <3>1. cli_depth[a[1]] \in Nat
      OBVIOUS
    <3>2. (IF cli_depth[a[1]] = 0 THEN 0 ELSE cli_depth[a[1]] - 1) \in Nat
      BY <3>1
    <3> QED BY <1>17, <3>2 DEF PopDec
  <2> QED BY <1>17, <2>1, <2>2 DEF PopDec
<1>18. ASSUME NEW a \in Acts, PopUnmask(a) PROVE TypeOK'
  BY <1>18 DEF PopUnmask
<1>19. ASSUME NEW c \in CPUs, IrqEntry(c) PROVE TypeOK'
  BY <1>19 DEF IrqEntry
<1>20. ASSUME NEW c \in CPUs, Eret(c) PROVE TypeOK'
  BY <1>20 DEF Eret
<1>21. ASSUME NEW c \in CPUs, TrapBoundary(c) PROVE TypeOK'
  BY <1>21 DEF TrapBoundary
<1>22. CASE UNCHANGED vars
  BY <1>22 DEF vars
<1> QED BY <1>1, <1>2, <1>3, <1>4, <1>5, <1>6, <1>7, <1>8, <1>9, <1>10,
           <1>11, <1>12, <1>13, <1>14, <1>15, <1>16, <1>17, <1>18, <1>19,
           <1>20, <1>21, <1>22
        DEF Next, CallStep

\* Every step keeps the locks and arguments right.  That no check panics comes
\* from LockInv, OwnerInv and the nesting count.
LEMMA CallInvStep ==
  ASSUME SpinInv, [Next]_vars
  PROVE  CallInv'
<1> USE ActsFacts
        DEF SpinInv, TypeOK, lockvars, clivars, Step, At, Goto, Clear, Store
<1> USE DEF CallInv, Taking, Having
<1>1. ASSUME NEW a \in Acts, NEW l \in Locks, Acquire(a, l) PROVE CallInv'
  BY <1>1, LocksAssumption DEF Acquire
<1>2. ASSUME NEW a \in Acts, NEW l \in Locks, Release(a, l) PROVE CallInv'
  BY <1>2 DEF Release
<1>3. ASSUME NEW a \in Acts, PushLoad(a) PROVE CallInv'
  BY <1>3 DEF PushLoad
<1>4. ASSUME NEW a \in Acts, PushStore(a) PROVE CallInv'
  <2>1. tmp[a] = 0 => held[a] = {}
    <3>1. pc[a] = "push_store"
      BY <1>4 DEF PushStore
    <3>3. tmp[a] = Nest(a) \/ tmp[a] = Nest(Task(a[1])) + Nest(a)
      BY <3>1 DEF CpuInv, DepthOn
    <3> QED BY <3>3, NestFacts
  <2> QED BY <1>4, <2>1 DEF PushStore
<1>5. ASSUME NEW a \in Acts, PushSave(a) PROVE CallInv'
  BY <1>5 DEF PushSave
<1>6. ASSUME NEW a \in Acts, PushMask(a) PROVE CallInv'
  BY <1>6 DEF PushMask
<1>7. ASSUME NEW a \in Acts, AcqCheckLock(a) PROVE CallInv'
  BY <1>7 DEF AcqCheckLock
<1>8. ASSUME NEW a \in Acts, AcqCheckCpu(a) PROVE CallInv'
  <2>1. cpuid[arg[a]] # a[1]
    <3>1. arg[a] \in Locks \ held[a] /\ running[a[1]] = a[2] /\ pc[a] = "acq_chk_cpu"
      BY <1>8 DEF AcqCheckCpu
    <3>2. CASE a[2] = "task"
      BY <3>1, <3>2 DEF OwnerInv, CpuInv, SuspendOn
    <3>3. CASE a[2] = "irq"
      BY <3>1, <3>3 DEF OwnerInv, CpuInv, SuspendOn, Open
    <3> QED BY <3>2, <3>3 DEF Levels
  <2> QED BY <1>8, <2>1 DEF AcqCheckCpu
<1>9. ASSUME NEW a \in Acts, Wfe(a) PROVE CallInv'
  BY <1>9 DEF Wfe
<1>10. ASSUME NEW a \in Acts, Ldaxrb(a) PROVE CallInv'
  BY <1>10 DEF Ldaxrb
<1>11. ASSUME NEW a \in Acts, Stxrb(a) PROVE CallInv'
  BY <1>11 DEF Stxrb
<1>12. ASSUME NEW a \in Acts, Own(a) PROVE CallInv'
  BY <1>12 DEF Own
<1>13. ASSUME NEW a \in Acts, RelCheckLock(a) PROVE CallInv'
  BY <1>13 DEF RelCheckLock, LockInv
<1>14. ASSUME NEW a \in Acts, RelCheckCpu(a) PROVE CallInv'
  BY <1>14 DEF RelCheckCpu, OwnerInv
<1>15. ASSUME NEW a \in Acts, Disown(a) PROVE CallInv'
  BY <1>15 DEF Disown
<1>16. ASSUME NEW a \in Acts, Unlock(a) PROVE CallInv'
  BY <1>16 DEF Unlock
<1>17. ASSUME NEW a \in Acts, PopDec(a) PROVE CallInv'
  <2>1. pc[a] = "pop_dec" /\ Nest(a) = Cardinality(held[a]) + 1
    BY <1>17 DEF PopDec, Nest
  <2>2. Nest(Task(a[1])) \in Nat /\ Nest(Irq(a[1])) \in Nat
    BY NestFacts
  <2> HIDE DEF TypeOK, CallInv
  <2>3. cli_depth[a[1]] >= Nest(a) /\ cli_depth[a[1]] \in Nat
    BY <2>2 DEF CpuInv, DepthOn
  <2>4. cli_depth[a[1]] # 0 /\ (cli_depth[a[1]] = 1 => held[a] = {})
    BY <2>1, <2>3, NestFacts
  <2> QED BY <1>17, <2>4 DEF PopDec, TypeOK, CallInv
<1>18. ASSUME NEW a \in Acts, PopUnmask(a) PROVE CallInv'
  BY <1>18 DEF PopUnmask
<1>19. ASSUME NEW c \in CPUs, IrqEntry(c) PROVE CallInv'
  BY <1>19 DEF IrqEntry
<1>20. ASSUME NEW c \in CPUs, Eret(c) PROVE CallInv'
  BY <1>20 DEF Eret
<1>21. ASSUME NEW c \in CPUs, TrapBoundary(c) PROVE CallInv'
  BY <1>21 DEF TrapBoundary
<1>22. CASE UNCHANGED vars
  BY <1>22 DEF vars
<1> QED BY <1>1, <1>2, <1>3, <1>4, <1>5, <1>6, <1>7, <1>8, <1>9, <1>10,
           <1>11, <1>12, <1>13, <1>14, <1>15, <1>16, <1>17, <1>18, <1>19,
           <1>20, <1>21, <1>22
        DEF Next, CallStep

\* Every step keeps the lock byte and mutual exclusion.  stxrb finds the lock
\* free because the monitor would have been cleared otherwise.
LEMMA LockInvStep ==
  ASSUME SpinInv, [Next]_vars
  PROVE  LockInv'
<1> USE ActsFacts
        DEF SpinInv, TypeOK, lockvars, clivars, Step, At, Goto, Clear, Store
<1> USE DEF LockInv, MutualExclusion
<1>1. ASSUME NEW a \in Acts, NEW l \in Locks, Acquire(a, l) PROVE LockInv'
  BY <1>1 DEF Acquire
<1>2. ASSUME NEW a \in Acts, NEW l \in Locks, Release(a, l) PROVE LockInv'
  BY <1>2 DEF Release
<1>3. ASSUME NEW a \in Acts, PushLoad(a) PROVE LockInv'
  BY <1>3 DEF PushLoad
<1>4. ASSUME NEW a \in Acts, PushStore(a) PROVE LockInv'
  BY <1>4 DEF PushStore
<1>5. ASSUME NEW a \in Acts, PushSave(a) PROVE LockInv'
  BY <1>5 DEF PushSave
<1>6. ASSUME NEW a \in Acts, PushMask(a) PROVE LockInv'
  BY <1>6 DEF PushMask
<1>7. ASSUME NEW a \in Acts, AcqCheckLock(a) PROVE LockInv'
  BY <1>7 DEF AcqCheckLock
<1>8. ASSUME NEW a \in Acts, AcqCheckCpu(a) PROVE LockInv'
  BY <1>8 DEF AcqCheckCpu
<1>9. ASSUME NEW a \in Acts, Wfe(a) PROVE LockInv'
  BY <1>9 DEF Wfe
<1>10. ASSUME NEW a \in Acts, Ldaxrb(a) PROVE LockInv'
  BY <1>10 DEF Ldaxrb
<1>11. ASSUME NEW a \in Acts, Stxrb(a) PROVE LockInv'
  <2>1. CASE mon[a[1]] = arg[a]
    <3>1. arg[a] \in Locks /\ lock[arg[a]] = 0
      BY <1>11, <2>1 DEF Stxrb, CallInv, Taking, MonitorInv
    <3>2. \A b \in Acts : arg[a] \notin held[b]
      BY <3>1, SMTT(20)
    <3>3. /\ held' = [held EXCEPT ![a] = held[a] \cup {arg[a]}]
          /\ lock' = [lock EXCEPT ![arg[a]] = 1]
      BY <1>11, <2>1 DEF Stxrb
    <3> QED BY <3>1, <3>2, <3>3
  <2> QED BY <1>11, <2>1 DEF Stxrb
<1>12. ASSUME NEW a \in Acts, Own(a) PROVE LockInv'
  BY <1>12 DEF Own
<1>13. ASSUME NEW a \in Acts, RelCheckLock(a) PROVE LockInv'
  BY <1>13 DEF RelCheckLock
<1>14. ASSUME NEW a \in Acts, RelCheckCpu(a) PROVE LockInv'
  BY <1>14 DEF RelCheckCpu
<1>15. ASSUME NEW a \in Acts, Disown(a) PROVE LockInv'
  BY <1>15 DEF Disown
<1>16. ASSUME NEW a \in Acts, Unlock(a) PROVE LockInv'
  <2>1. arg[a] \in held[a]
    BY <1>16 DEF Unlock, CallInv, Having
  <2>2. /\ held' = [held EXCEPT ![a] = held[a] \ {arg[a]}]
        /\ lock' = [lock EXCEPT ![arg[a]] = 0]
    BY <1>16 DEF Unlock
  <2>3. \A b \in Acts : b # a => arg[a] \notin held[b]
    BY <2>1
  <2> QED BY <2>1, <2>2, <2>3
<1>17. ASSUME NEW a \in Acts, PopDec(a) PROVE LockInv'
  BY <1>17 DEF PopDec
<1>18. ASSUME NEW a \in Acts, PopUnmask(a) PROVE LockInv'
  BY <1>18 DEF PopUnmask
<1>19. ASSUME NEW c \in CPUs, IrqEntry(c) PROVE LockInv'
  BY <1>19 DEF IrqEntry
<1>20. ASSUME NEW c \in CPUs, Eret(c) PROVE LockInv'
  BY <1>20 DEF Eret
<1>21. ASSUME NEW c \in CPUs, TrapBoundary(c) PROVE LockInv'
  BY <1>21 DEF TrapBoundary
<1>22. CASE UNCHANGED vars
  BY <1>22 DEF vars
<1> QED BY <1>1, <1>2, <1>3, <1>4, <1>5, <1>6, <1>7, <1>8, <1>9, <1>10,
           <1>11, <1>12, <1>13, <1>14, <1>15, <1>16, <1>17, <1>18, <1>19,
           <1>20, <1>21, <1>22
        DEF Next, CallStep

\* Every step keeps cpuid.
LEMMA OwnerInvStep ==
  ASSUME SpinInv, [Next]_vars
  PROVE  OwnerInv'
<1> USE ActsFacts
        DEF SpinInv, TypeOK, lockvars, clivars, Step, At, Goto, Clear, Store
<1> USE DEF OwnerInv
<1>1. ASSUME NEW a \in Acts, NEW l \in Locks, Acquire(a, l) PROVE OwnerInv'
  BY <1>1 DEF Acquire
<1>2. ASSUME NEW a \in Acts, NEW l \in Locks, Release(a, l) PROVE OwnerInv'
  BY <1>2 DEF Release
<1>3. ASSUME NEW a \in Acts, PushLoad(a) PROVE OwnerInv'
  BY <1>3 DEF PushLoad
<1>4. ASSUME NEW a \in Acts, PushStore(a) PROVE OwnerInv'
  BY <1>4 DEF PushStore
<1>5. ASSUME NEW a \in Acts, PushSave(a) PROVE OwnerInv'
  BY <1>5 DEF PushSave
<1>6. ASSUME NEW a \in Acts, PushMask(a) PROVE OwnerInv'
  BY <1>6 DEF PushMask
<1>7. ASSUME NEW a \in Acts, AcqCheckLock(a) PROVE OwnerInv'
  BY <1>7 DEF AcqCheckLock
<1>8. ASSUME NEW a \in Acts, AcqCheckCpu(a) PROVE OwnerInv'
  BY <1>8 DEF AcqCheckCpu
<1>9. ASSUME NEW a \in Acts, Wfe(a) PROVE OwnerInv'
  BY <1>9 DEF Wfe
<1>10. ASSUME NEW a \in Acts, Ldaxrb(a) PROVE OwnerInv'
  BY <1>10 DEF Ldaxrb
<1>11. ASSUME NEW a \in Acts, Stxrb(a) PROVE OwnerInv'
  <2>1. CASE mon[a[1]] = arg[a]
    <3>1. /\ held' = [held EXCEPT ![a] = held[a] \cup {arg[a]}]
          /\ pc' = [pc EXCEPT ![a] = "own"] /\ pc[a] = "stxrb"
          /\ UNCHANGED <<cpuid, arg>>
      BY <1>11, <2>1 DEF Stxrb
    <3>2. \A c \in CPUs, l \in Locks :
             cpuid'[l] = c => l \in held'[Task(c)] \cup held'[Irq(c)]
      BY <3>1
    <3>3. \A b \in Acts : \A l \in held'[b] :
             cpuid'[l] = b[1] \/ (pc'[b] \in {"own", "unlock"} /\ arg'[b] = l)
      BY <3>1
    <3>4. \A b \in Acts : pc'[b] = "unlock" => cpuid'[arg'[b]] = NoCpu
      BY <3>1
    <3> QED BY <3>2, <3>3, <3>4
  <2> QED BY <1>11, <2>1 DEF Stxrb
<1>12. ASSUME NEW a \in Acts, Own(a) PROVE OwnerInv'
  <2>1. /\ cpuid' = [cpuid EXCEPT ![arg[a]] = a[1]] /\ UNCHANGED held
        /\ pc' = [pc EXCEPT ![a] = "run"] /\ arg' = [arg EXCEPT ![a] = NoLock]
        /\ pc[a] = "own"
    BY <1>12 DEF Own
  <2>2. arg[a] \in held[a] /\ \A b \in Acts : b # a => arg[a] \notin held[b]
    BY <2>1 DEF CallInv, Having, LockInv, MutualExclusion
  <2>3. a = Task(a[1]) \/ a = Irq(a[1])
    BY DEF Levels, Task, Irq
  <2>4. \A b \in Acts : pc[b] = "unlock" => arg[b] \in held[b]
    BY DEF CallInv, Having
  <2>5. \A c \in CPUs, l \in Locks :
           cpuid'[l] = c => l \in held'[Task(c)] \cup held'[Irq(c)]
    BY <2>1, <2>2, <2>3
  <2>6. \A b \in Acts : \A l \in held'[b] :
           cpuid'[l] = b[1] \/ (pc'[b] \in {"own", "unlock"} /\ arg'[b] = l)
    BY <2>1, <2>2
  <2>7. \A b \in Acts : pc'[b] = "unlock" => cpuid'[arg'[b]] = NoCpu
    BY <2>1, <2>2, <2>4
  <2> QED BY <2>5, <2>6, <2>7
<1>13. ASSUME NEW a \in Acts, RelCheckLock(a) PROVE OwnerInv'
  BY <1>13 DEF RelCheckLock
<1>14. ASSUME NEW a \in Acts, RelCheckCpu(a) PROVE OwnerInv'
  BY <1>14 DEF RelCheckCpu
<1>15. ASSUME NEW a \in Acts, Disown(a) PROVE OwnerInv'
  <2>1. /\ cpuid' = [cpuid EXCEPT ![arg[a]] = NoCpu] /\ UNCHANGED <<held, arg>>
        /\ pc' = [pc EXCEPT ![a] = "unlock"] /\ pc[a] = "disown"
    BY <1>15 DEF Disown
  <2>2. arg[a] \in held[a] /\ \A b \in Acts : b # a => arg[a] \notin held[b]
    BY <2>1 DEF CallInv, Having, LockInv, MutualExclusion
  <2>3. NoCpu \notin CPUs
    BY CPUsAssumption DEF NoCpu
  <2>4. \A c \in CPUs, l \in Locks :
           cpuid'[l] = c => l \in held'[Task(c)] \cup held'[Irq(c)]
    BY <2>1, <2>3
  <2>5. \A b \in Acts : \A l \in held'[b] :
           cpuid'[l] = b[1] \/ (pc'[b] \in {"own", "unlock"} /\ arg'[b] = l)
    BY <2>1, <2>2
  <2>6. \A b \in Acts : pc'[b] = "unlock" => cpuid'[arg'[b]] = NoCpu
    BY <2>1, <2>2
  <2> QED BY <2>4, <2>5, <2>6
<1>16. ASSUME NEW a \in Acts, Unlock(a) PROVE OwnerInv'
  <2>1. /\ held' = [held EXCEPT ![a] = held[a] \ {arg[a]}]
        /\ UNCHANGED <<cpuid, arg>>
        /\ pc' = [pc EXCEPT ![a] = "pop_dec"] /\ pc[a] = "unlock"
    BY <1>16 DEF Unlock
  <2>2. cpuid[arg[a]] = NoCpu /\ NoCpu \notin CPUs
    BY <2>1, CPUsAssumption DEF NoCpu
  <2> QED BY <2>1, <2>2
<1>17. ASSUME NEW a \in Acts, PopDec(a) PROVE OwnerInv'
  BY <1>17 DEF PopDec
<1>18. ASSUME NEW a \in Acts, PopUnmask(a) PROVE OwnerInv'
  BY <1>18 DEF PopUnmask
<1>19. ASSUME NEW c \in CPUs, IrqEntry(c) PROVE OwnerInv'
  BY <1>19 DEF IrqEntry
<1>20. ASSUME NEW c \in CPUs, Eret(c) PROVE OwnerInv'
  BY <1>20 DEF Eret
<1>21. ASSUME NEW c \in CPUs, TrapBoundary(c) PROVE OwnerInv'
  BY <1>21 DEF TrapBoundary
<1>22. CASE UNCHANGED vars
  BY <1>22 DEF vars
<1> QED BY <1>1, <1>2, <1>3, <1>4, <1>5, <1>6, <1>7, <1>8, <1>9, <1>10,
           <1>11, <1>12, <1>13, <1>14, <1>15, <1>16, <1>17, <1>18, <1>19,
           <1>20, <1>21, <1>22
        DEF Next, CallStep

\* Every step keeps the state of each CPU.  An instruction of one CPU leaves the
\* others alone; on its own CPU it is the task's or the handler's.
LEMMA CpuInvStep ==
  ASSUME SpinInv, [Next]_vars
  PROVE  CpuInv'
<1> DEFINE On(c) == SuspendOn(c) /\ DepthOn(c) /\ MaskOn(c)
<1> SUFFICES ASSUME NEW c \in CPUs PROVE On(c)'
  BY DEF CpuInv
<1>a. TypeOK /\ On(c)
  BY DEF SpinInv, CpuInv
<1>b. /\ Nest(Task(c)) \in Nat /\ Nest(Irq(c)) \in Nat
      /\ Cardinality(held[Task(c)]) \in Nat /\ Cardinality(held[Irq(c)]) \in Nat
      /\ Cardinality(held[Task(c)]) = 0 <=> held[Task(c)] = {}
      /\ Cardinality(held[Irq(c)]) = 0 <=> held[Irq(c)] = {}
  BY <1>a, NestFacts, ActsFacts
<1>c. /\ \A a \in Acts : pc'[a] # "panic"
      /\ \A a \in Acts : pc[a] \in {"own", "unlock"} => arg[a] \in held[a]
      /\ \A a \in Acts : pc[a] = "stxrb" => arg[a] \notin held[a]
      /\ \A a \in Acts : pc[a] \in {"push_save", "pop_unmask"} => held[a] = {}
  BY CallInvStep DEF SpinInv, CallInv, Having, Taking
<1>d. \A a \in Acts : IsFiniteSet(held[a])
  BY <1>a, NestFacts
<1> HIDE DEF On
<1> USE <1>a, <1>b, ActsFacts
        DEF TypeOK, lockvars, clivars, Step, At, Goto, Clear, Store
<1>1. ASSUME NEW a \in Acts, NEW l \in Locks, Acquire(a, l) PROVE On(c)'
  BY <1>1 DEF Acquire, On, SuspendOn, DepthOn, MaskOn, Open, Nest
<1>2. ASSUME NEW a \in Acts, NEW l \in Locks, Release(a, l) PROVE On(c)'
  BY <1>2 DEF Release, On, SuspendOn, DepthOn, MaskOn, Open, Nest
<1>3. ASSUME NEW a \in Acts, PushLoad(a) PROVE On(c)'
  <2>1. CASE c # a[1]
    BY <1>3, <2>1 DEF PushLoad, On, SuspendOn, DepthOn, MaskOn, Open, Nest
  <2>2. CASE a = Task(c)
    BY <1>3, <2>2 DEF PushLoad, On, SuspendOn, DepthOn, MaskOn, Open, Nest
  <2>3. CASE a = Irq(c)
    BY <1>3, <2>3 DEF PushLoad, On, SuspendOn, DepthOn, MaskOn, Open, Nest
  <2>4. c # a[1] \/ a = Task(c) \/ a = Irq(c)
    BY ActsFacts
  <2> QED BY <2>1, <2>2, <2>3, <2>4
<1>4. ASSUME NEW a \in Acts, PushStore(a) PROVE On(c)'
  <2>1. CASE c # a[1]
    BY <1>4, <2>1 DEF PushStore, On, SuspendOn, DepthOn, MaskOn, Open, Nest
  <2>2. CASE a = Task(c)
    BY <1>4, <2>2 DEF PushStore, On, SuspendOn, DepthOn, MaskOn, Open, Nest
  <2>3. CASE a = Irq(c)
    <3>1. SuspendOn(c)'
      BY <1>4, <2>3 DEF PushStore, On, SuspendOn, DepthOn, MaskOn, Open, Nest
    <3>2. DepthOn(c)'
      <4>1. Nest(Task(c))' = Nest(Task(c)) /\ Nest(Irq(c))' = Nest(Irq(c)) + 1
        BY <1>4, <2>3 DEF PushStore, Nest
      <4>2. tmp[a] = Nest(Task(c)) + Nest(Irq(c)) /\ cli_depth'[c] = tmp[a] + 1
        BY <1>4, <2>3 DEF PushStore, On, DepthOn
      <4>3. pc'[a] = IF tmp[a] = 0 THEN "push_save" ELSE "acq_chk_lock"
        BY <1>4 DEF PushStore
      <4>4. pc'[Task(c)] = pc[Task(c)] /\ tmp' = tmp
        BY <1>4, <2>3 DEF PushStore
      <4>5. tmp[a] = 0 => Nest(Task(c)) = 0
        BY <4>2
      <4>6. cli_depth'[c] = Nest(Task(c))' + Nest(Irq(c))'
        BY <4>1, <4>2
      <4>7. pc[Task(c)] = "push_store" => tmp[Task(c)] = Nest(Task(c))
        BY DEF On, DepthOn
      <4> QED BY <2>3, <4>1, <4>3, <4>4, <4>5, <4>6, <4>7 DEF DepthOn
    <3>3. MaskOn(c)'
      BY <1>4, <2>3 DEF PushStore, On, SuspendOn, DepthOn, MaskOn, Open, Nest
    <3> QED BY <3>1, <3>2, <3>3 DEF On
  <2>4. c # a[1] \/ a = Task(c) \/ a = Irq(c)
    BY ActsFacts
  <2> QED BY <2>1, <2>2, <2>3, <2>4
<1>5. ASSUME NEW a \in Acts, PushSave(a) PROVE On(c)'
  <2>1. CASE c # a[1]
    BY <1>5, <2>1 DEF PushSave, On, SuspendOn, DepthOn, MaskOn, Open, Nest
  <2>2. CASE a = Task(c)
    <3>1. SuspendOn(c)'
      BY <1>5, <2>2 DEF PushSave, On, SuspendOn, DepthOn, MaskOn, Open, Nest
    <3>2. DepthOn(c)'
      BY <1>5, <2>2 DEF PushSave, On, SuspendOn, DepthOn, MaskOn, Open, Nest
    <3>3. MaskOn(c)'
      <4>1. /\ running[c] = "task" /\ pc[a] = "push_save"
            /\ Open(Task(c)) /\ Open(Task(c))'
        BY <1>5, <2>2, <1>c DEF PushSave, Open
      <4>2. irq[c] = base[c]
        BY <4>1 DEF On, MaskOn
      <4>3. /\ intr_enabled'[c] = irq[c] /\ UNCHANGED <<irq, base, running, held>>
            /\ pc'[Irq(c)] = pc[Irq(c)] /\ Open(Irq(c))' = Open(Irq(c))
        BY <1>5, <2>2 DEF PushSave, Open
      <4>4. intr_enabled'[c] = base'[c] /\ irq'[c] = base'[c]
        BY <4>2, <4>3
      <4>5. Nest(Task(c))' = Cardinality(held[Task(c)]) + 1
        BY <1>5, <2>2 DEF PushSave, Nest
      <4> QED BY <4>1, <4>4, <4>5 DEF MaskOn
    <3> QED BY <3>1, <3>2, <3>3 DEF On
  <2>3. CASE a = Irq(c)
    BY <1>5, <2>3 DEF PushSave, On, SuspendOn, DepthOn, MaskOn, Open, Nest
  <2>4. c # a[1] \/ a = Task(c) \/ a = Irq(c)
    BY ActsFacts
  <2> QED BY <2>1, <2>2, <2>3, <2>4
<1>6. ASSUME NEW a \in Acts, PushMask(a) PROVE On(c)'
  <2>1. CASE c # a[1]
    BY <1>6, <2>1 DEF PushMask, On, SuspendOn, DepthOn, MaskOn, Open, Nest
  <2>2. CASE a = Task(c)
    BY <1>6, <2>2 DEF PushMask, On, SuspendOn, DepthOn, MaskOn, Open, Nest
  <2>3. CASE a = Irq(c)
    BY <1>6, <2>3, ZenonT(30) DEF PushMask, On, SuspendOn, DepthOn, MaskOn, Open, Nest
  <2>4. c # a[1] \/ a = Task(c) \/ a = Irq(c)
    BY ActsFacts
  <2> QED BY <2>1, <2>2, <2>3, <2>4
<1>7. ASSUME NEW a \in Acts, AcqCheckLock(a) PROVE On(c)'
  BY <1>7 DEF AcqCheckLock, On, SuspendOn, DepthOn, MaskOn, Open, Nest
<1>8. ASSUME NEW a \in Acts, AcqCheckCpu(a) PROVE On(c)'
  <2>1. CASE c # a[1]
    BY <1>8, <2>1, SMTT(20) DEF AcqCheckCpu, On, SuspendOn, DepthOn, MaskOn, Open, Nest
  <2>2. CASE a = Task(c)
    <3>1. SuspendOn(c)'
      BY <1>8, <2>2 DEF AcqCheckCpu, On, SuspendOn, DepthOn, MaskOn, Open, Nest
    <3>2. DepthOn(c)'
      <4>1. pc'[a] = "wfe"
        BY <1>8, <1>c DEF AcqCheckCpu
      <4> QED BY <1>8, <2>2, <4>1 DEF AcqCheckCpu, On, DepthOn, Nest
    <3>3. MaskOn(c)'
      BY <1>8, <2>2 DEF AcqCheckCpu, On, SuspendOn, DepthOn, MaskOn, Open, Nest
    <3> QED BY <3>1, <3>2, <3>3 DEF On
  <2>3. CASE a = Irq(c)
    <3>1. SuspendOn(c)'
      BY <1>8, <2>3 DEF AcqCheckCpu, On, SuspendOn, DepthOn, MaskOn, Open, Nest
    <3>2. DepthOn(c)'
      <4>1. pc'[a] = "wfe"
        BY <1>8, <1>c DEF AcqCheckCpu
      <4> QED BY <1>8, <2>3, <4>1 DEF AcqCheckCpu, On, DepthOn, Nest
    <3>3. MaskOn(c)'
      BY <1>8, <2>3 DEF AcqCheckCpu, On, SuspendOn, DepthOn, MaskOn, Open, Nest
    <3> QED BY <3>1, <3>2, <3>3 DEF On
  <2>4. c # a[1] \/ a = Task(c) \/ a = Irq(c)
    BY ActsFacts
  <2> QED BY <2>1, <2>2, <2>3, <2>4
<1>9. ASSUME NEW a \in Acts, Wfe(a) PROVE On(c)'
  BY <1>9 DEF Wfe, On, SuspendOn, DepthOn, MaskOn, Open, Nest
<1>10. ASSUME NEW a \in Acts, Ldaxrb(a) PROVE On(c)'
  BY <1>10 DEF Ldaxrb, On, SuspendOn, DepthOn, MaskOn, Open, Nest
<1>11. ASSUME NEW a \in Acts, Stxrb(a) PROVE On(c)'
  <2>1. CASE c # a[1]
    BY <1>11, <2>1 DEF Stxrb, On, SuspendOn, DepthOn, MaskOn, Open, Nest
  <2>2. CASE a = Task(c)
    <3>1. SuspendOn(c)'
      BY <1>11, <2>2 DEF Stxrb, On, SuspendOn, DepthOn, MaskOn, Open, Nest
    <3>2. DepthOn(c)'
      <4>1. CASE mon[a[1]] = arg[a]
        <5>1. /\ held' = [held EXCEPT ![a] = held[a] \cup {arg[a]}]
              /\ pc' = [pc EXCEPT ![a] = "own"] /\ pc[a] = "stxrb"
              /\ UNCHANGED <<tmp, cli_depth>>
          BY <1>11, <4>1 DEF Stxrb
        <5>2. Cardinality(held'[a]) = Cardinality(held[a]) + 1
          <6>1. held'[a] = held[a] \cup {arg[a]} /\ arg[a] \notin held[a]
            BY <5>1, <1>c
          <6>2. IsFiniteSet(held[a])
            BY <1>d
          <6> HIDE <1>a, <1>b, ActsFacts
          <6> QED BY <6>1, <6>2, FS_AddElement
        <5>3. Nest(Task(c))' = Nest(Task(c)) /\ Nest(Irq(c))' = Nest(Irq(c))
          BY <2>2, <5>1, <5>2 DEF Nest
        <5> QED BY <2>2, <5>1, <5>3 DEF On, DepthOn
      <4> QED BY <1>11, <2>2, <4>1 DEF Stxrb, On, DepthOn, Nest
    <3>3. MaskOn(c)'
      BY <1>11, <2>2 DEF Stxrb, On, SuspendOn, DepthOn, MaskOn, Open, Nest
    <3> QED BY <3>1, <3>2, <3>3 DEF On
  <2>3. CASE a = Irq(c)
    <3>1. SuspendOn(c)'
      BY <1>11, <2>3 DEF Stxrb, On, SuspendOn, DepthOn, MaskOn, Open, Nest
    <3>2. DepthOn(c)'
      <4>1. CASE mon[a[1]] = arg[a]
        <5>1. /\ held' = [held EXCEPT ![a] = held[a] \cup {arg[a]}]
              /\ pc' = [pc EXCEPT ![a] = "own"] /\ pc[a] = "stxrb"
              /\ UNCHANGED <<tmp, cli_depth>>
          BY <1>11, <4>1 DEF Stxrb
        <5>2. Cardinality(held'[a]) = Cardinality(held[a]) + 1
          <6>1. held'[a] = held[a] \cup {arg[a]} /\ arg[a] \notin held[a]
            BY <5>1, <1>c
          <6>2. IsFiniteSet(held[a])
            BY <1>d
          <6> HIDE <1>a, <1>b, ActsFacts
          <6> QED BY <6>1, <6>2, FS_AddElement
        <5>3. Nest(Irq(c))' = Nest(Irq(c)) /\ Nest(Task(c))' = Nest(Task(c))
          BY <2>3, <5>1, <5>2 DEF Nest
        <5> QED BY <2>3, <5>1, <5>3 DEF On, DepthOn
      <4> QED BY <1>11, <2>3, <4>1 DEF Stxrb, On, DepthOn, Nest
    <3>3. MaskOn(c)'
      BY <1>11, <2>3 DEF Stxrb, On, SuspendOn, DepthOn, MaskOn, Open, Nest
    <3> QED BY <3>1, <3>2, <3>3 DEF On
  <2>4. c # a[1] \/ a = Task(c) \/ a = Irq(c)
    BY ActsFacts
  <2> QED BY <2>1, <2>2, <2>3, <2>4
<1>12. ASSUME NEW a \in Acts, Own(a) PROVE On(c)'
  <2>1. CASE c # a[1]
    BY <1>12, <2>1 DEF Own, On, SuspendOn, DepthOn, MaskOn, Open, Nest
  <2>2. CASE a = Task(c)
    <3>1. SuspendOn(c)'
      BY <1>12, <2>2 DEF Own, On, SuspendOn, DepthOn, MaskOn, Open, Nest
    <3>2. DepthOn(c)'
      BY <1>12, <2>2 DEF Own, On, SuspendOn, DepthOn, MaskOn, Open, Nest
    <3>3. MaskOn(c)'
      <4>1. held'[a] # {} /\ UNCHANGED <<irq, base, intr_enabled, running>>
        BY <1>12, <1>c DEF Own
      <4>2. running[c] = "task" /\ ~Open(Task(c)) /\ ~Open(Task(c))'
        BY <1>12, <2>2, <4>1 DEF Own, Open
      <4>3. ~irq[c] /\ intr_enabled[c] = base[c]
        BY <4>2 DEF On, MaskOn
      <4>4. Nest(Task(c))' # 0 /\ pc'[Task(c)] = "run"
        BY <1>12, <2>2, <4>1 DEF Own, Nest
      <4> QED BY <4>1, <4>2, <4>3, <4>4 DEF MaskOn
    <3> QED BY <3>1, <3>2, <3>3 DEF On
  <2>3. CASE a = Irq(c)
    BY <1>12, <2>3 DEF Own, On, SuspendOn, DepthOn, MaskOn, Open, Nest
  <2>4. c # a[1] \/ a = Task(c) \/ a = Irq(c)
    BY ActsFacts
  <2> QED BY <2>1, <2>2, <2>3, <2>4
<1>13. ASSUME NEW a \in Acts, RelCheckLock(a) PROVE On(c)'
  BY <1>13 DEF RelCheckLock, On, SuspendOn, DepthOn, MaskOn, Open, Nest
<1>14. ASSUME NEW a \in Acts, RelCheckCpu(a) PROVE On(c)'
  BY <1>14, SMTT(20) DEF RelCheckCpu, On, SuspendOn, DepthOn, MaskOn, Open, Nest
<1>15. ASSUME NEW a \in Acts, Disown(a) PROVE On(c)'
  BY <1>15 DEF Disown, On, SuspendOn, DepthOn, MaskOn, Open, Nest
<1>16. ASSUME NEW a \in Acts, Unlock(a) PROVE On(c)'
  <2>1. CASE c # a[1]
    BY <1>16, <2>1, SMTT(20) DEF Unlock, On, SuspendOn, DepthOn, MaskOn, Open, Nest
  <2>2. CASE a = Task(c)
    <3>1. SuspendOn(c)'
      BY <1>16, <2>2 DEF Unlock, On, SuspendOn, DepthOn, MaskOn, Open, Nest
    <3>2. DepthOn(c)'
      <4>1. /\ held' = [held EXCEPT ![a] = held[a] \ {arg[a]}]
            /\ pc' = [pc EXCEPT ![a] = "pop_dec"] /\ pc[a] = "unlock"
            /\ UNCHANGED <<tmp, cli_depth>>
        BY <1>16 DEF Unlock
      <4>2. Cardinality(held'[a]) = Cardinality(held[a]) - 1
        <5>1. held'[a] = held[a] \ {arg[a]} /\ arg[a] \in held[a]
          BY <4>1, <1>c
        <5>2. IsFiniteSet(held[a])
          BY <1>d
        <5> HIDE <1>a, <1>b, ActsFacts
        <5> QED BY <5>1, <5>2, FS_RemoveElement
      <4>3. Nest(Task(c))' = Nest(Task(c))
        BY <2>2, <4>1, <4>2 DEF Nest
      <4>4. Nest(Irq(c))' = Nest(Irq(c))
        BY <2>2, <4>1 DEF Nest
      <4> QED BY <2>2, <4>1, <4>3, <4>4 DEF On, DepthOn
    <3>3. MaskOn(c)'
      BY <1>16, <2>2 DEF Unlock, On, SuspendOn, DepthOn, MaskOn, Open, Nest
    <3> QED BY <3>1, <3>2, <3>3 DEF On
  <2>3. CASE a = Irq(c)
    <3>1. SuspendOn(c)'
      BY <1>16, <2>3 DEF Unlock, On, SuspendOn, DepthOn, MaskOn, Open, Nest
    <3>2. DepthOn(c)'
      <4>1. /\ held' = [held EXCEPT ![a] = held[a] \ {arg[a]}]
            /\ pc' = [pc EXCEPT ![a] = "pop_dec"] /\ pc[a] = "unlock"
            /\ UNCHANGED <<tmp, cli_depth>>
        BY <1>16 DEF Unlock
      <4>2. Cardinality(held'[a]) = Cardinality(held[a]) - 1
        <5>1. held'[a] = held[a] \ {arg[a]} /\ arg[a] \in held[a]
          BY <4>1, <1>c
        <5>2. IsFiniteSet(held[a])
          BY <1>d
        <5> HIDE <1>a, <1>b, ActsFacts
        <5> QED BY <5>1, <5>2, FS_RemoveElement
      <4>3. Nest(Irq(c))' = Nest(Irq(c))
        BY <2>3, <4>1, <4>2 DEF Nest
      <4>4. Nest(Task(c))' = Nest(Task(c))
        BY <2>3, <4>1 DEF Nest
      <4> QED BY <2>3, <4>1, <4>3, <4>4 DEF On, DepthOn
    <3>3. MaskOn(c)'
      BY <1>16, <2>3 DEF Unlock, On, SuspendOn, DepthOn, MaskOn, Open, Nest
    <3> QED BY <3>1, <3>2, <3>3 DEF On
  <2>4. c # a[1] \/ a = Task(c) \/ a = Irq(c)
    BY ActsFacts
  <2> QED BY <2>1, <2>2, <2>3, <2>4
<1>17. ASSUME NEW a \in Acts, PopDec(a) PROVE On(c)'
  <2>1. CASE c # a[1]
    BY <1>17, <2>1 DEF PopDec, On, SuspendOn, DepthOn, MaskOn, Open, Nest
  <2>2. CASE a = Task(c)
    <3>1. SuspendOn(c)'
      BY <1>17, <2>2 DEF PopDec, On, SuspendOn, DepthOn, MaskOn, Open, Nest
    <3>2. DepthOn(c)'
      <4>1. /\ cli_depth[c] # 0 /\ cli_depth'[c] = cli_depth[c] - 1
            /\ pc'[a] = IF cli_depth[c] = 1 THEN "pop_unmask" ELSE "run"
            /\ pc[a] = "pop_dec" /\ pc'[Irq(c)] = pc[Irq(c)]
            /\ tmp'[Irq(c)] = tmp[Irq(c)] /\ UNCHANGED held
        BY <1>17, <2>2, <1>c DEF PopDec
      <4>2. Nest(Task(c))' = Nest(Task(c)) - 1 /\ Nest(Irq(c))' = Nest(Irq(c))
        BY <2>2, <4>1 DEF Nest
      <4>3. Nest(Task(c)) >= 1
        BY <2>2, <4>1 DEF Nest
      <4>4. /\ cli_depth'[c] = Nest(Task(c))' + Nest(Irq(c))'
            /\ cli_depth[c] = 1 => Nest(Irq(c)) = 0
        BY <4>1, <4>2, <4>3 DEF On, DepthOn
      <4>5. pc[Irq(c)] = "run"
        BY <1>17, <2>2 DEF PopDec, On, SuspendOn, DepthOn
      <4> QED BY <2>2, <4>1, <4>2, <4>4, <4>5 DEF DepthOn
    <3>3. MaskOn(c)'
      BY <1>17, <2>2 DEF PopDec, On, SuspendOn, DepthOn, MaskOn, Open, Nest
    <3> QED BY <3>1, <3>2, <3>3 DEF On
  <2>3. CASE a = Irq(c)
    <3>1. SuspendOn(c)'
      BY <1>17, <2>3 DEF PopDec, On, SuspendOn, DepthOn, MaskOn, Open, Nest
    <3>2. DepthOn(c)'
      <4>1. /\ cli_depth[c] # 0 /\ cli_depth'[c] = cli_depth[c] - 1
            /\ pc'[a] = IF cli_depth[c] = 1 THEN "pop_unmask" ELSE "run"
            /\ pc[a] = "pop_dec" /\ pc'[Task(c)] = pc[Task(c)]
            /\ tmp'[Task(c)] = tmp[Task(c)] /\ UNCHANGED held
        BY <1>17, <2>3, <1>c DEF PopDec
      <4>2. Nest(Irq(c))' = Nest(Irq(c)) - 1 /\ Nest(Task(c))' = Nest(Task(c))
        BY <2>3, <4>1 DEF Nest
      <4>3. Nest(Irq(c)) >= 1
        BY <2>3, <4>1 DEF Nest
      <4>4. /\ cli_depth'[c] = Nest(Task(c))' + Nest(Irq(c))'
            /\ cli_depth[c] = 1 => Nest(Task(c)) = 0
        BY <4>1, <4>2, <4>3 DEF On, DepthOn
      <4>5. pc[Task(c)] = "push_store" => tmp[Task(c)] = Nest(Task(c))
        BY <1>17, <2>3 DEF PopDec, On, SuspendOn, DepthOn
      <4> QED BY <2>3, <4>1, <4>2, <4>4, <4>5 DEF DepthOn
    <3>3. MaskOn(c)'
      BY <1>17, <2>3 DEF PopDec, On, SuspendOn, DepthOn, MaskOn, Open, Nest
    <3> QED BY <3>1, <3>2, <3>3 DEF On
  <2>4. c # a[1] \/ a = Task(c) \/ a = Irq(c)
    BY ActsFacts
  <2> QED BY <2>1, <2>2, <2>3, <2>4
<1>18. ASSUME NEW a \in Acts, PopUnmask(a) PROVE On(c)'
  <2>1. CASE c # a[1]
    BY <1>18, <2>1 DEF PopUnmask, On, SuspendOn, DepthOn, MaskOn, Open, Nest
  <2>2. CASE a = Task(c)
    <3>1. SuspendOn(c)'
      BY <1>18, <2>2 DEF PopUnmask, On, SuspendOn, DepthOn, MaskOn, Open, Nest
    <3>2. DepthOn(c)'
      BY <1>18, <2>2 DEF PopUnmask, On, SuspendOn, DepthOn, MaskOn, Open, Nest
    <3>3. MaskOn(c)'
      <4>1. /\ irq'[c] = (irq[c] \/ intr_enabled[c])
            /\ UNCHANGED <<base, intr_enabled, running, held>>
        BY <1>18, <2>2 DEF PopUnmask
      <4>2. running[c] = "task" /\ ~Open(Task(c)) /\ pc'[Task(c)] = "run"
        BY <1>18, <2>2 DEF PopUnmask, Open
      <4>3. ~irq[c] /\ intr_enabled[c] = base[c]
        BY <4>2 DEF On, MaskOn
      <4>4. held[Task(c)] = {} /\ Open(Task(c))'
        BY <1>18, <2>2, <1>c, <4>1, <4>2 DEF PopUnmask, Open
      <4>5. irq'[c] = base'[c]
        BY <4>1, <4>3
      <4>6. pc'[Irq(c)] = "run" /\ held'[Irq(c)] = {} /\ Open(Irq(c))'
        BY <1>18, <2>2, <4>1, <4>2 DEF PopUnmask, On, SuspendOn, Open
      <4> QED BY <4>2, <4>4, <4>5, <4>6 DEF MaskOn
    <3> QED BY <3>1, <3>2, <3>3 DEF On
  <2>3. CASE a = Irq(c)
    <3>1. SuspendOn(c)'
      BY <1>18, <2>3 DEF PopUnmask, On, SuspendOn, DepthOn, MaskOn, Open, Nest
    <3>2. DepthOn(c)'
      BY <1>18, <2>3 DEF PopUnmask, On, SuspendOn, DepthOn, MaskOn, Open, Nest
    <3>3. MaskOn(c)'
      BY <1>18, <2>3 DEF PopUnmask, On, SuspendOn, DepthOn, MaskOn, Open, Nest
    <3> QED BY <3>1, <3>2, <3>3 DEF On
  <2>4. c # a[1] \/ a = Task(c) \/ a = Irq(c)
    BY ActsFacts
  <2> QED BY <2>1, <2>2, <2>3, <2>4
<1>19. ASSUME NEW d \in CPUs, IrqEntry(d) PROVE On(c)'
  <2>1. CASE c # d
    BY <1>19, <2>1 DEF IrqEntry, On, SuspendOn, DepthOn, MaskOn, Open, Nest
  <2>2. CASE c = d
    <3>1. SuspendOn(c)'
      <4>1. running[c] = "task" /\ irq[c] /\ UNCHANGED <<base, held, pc>>
        BY <1>19, <2>2 DEF IrqEntry
      <4>2. Open(Task(c)) /\ irq[c] = base[c]
        BY <4>1 DEF On, MaskOn
      <4>3. ~irq'[c] /\ running'[c] = "irq"
        BY <1>19, <2>2 DEF IrqEntry
      <4>4. base'[c] /\ Open(Task(c))'
        BY <4>1, <4>2 DEF Open
      <4> QED BY <4>3, <4>4 DEF SuspendOn
    <3>2. DepthOn(c)'
      BY <1>19, <2>2 DEF IrqEntry, On, SuspendOn, DepthOn, MaskOn, Open, Nest, Task, Irq
    <3>3. MaskOn(c)'
      <4>1. UNCHANGED <<base, held, pc, intr_enabled>> /\ running'[c] = "irq"
        BY <1>19, <2>2 DEF IrqEntry
      <4>2. Nest(Task(c))' = Nest(Task(c)) /\ Open(Irq(c))' = Open(Irq(c))
        BY <4>1 DEF Nest, Open
      <4> QED BY <4>1, <4>2 DEF On, MaskOn
    <3> QED BY <3>1, <3>2, <3>3 DEF On
  <2> QED BY <2>1, <2>2
<1>20. ASSUME NEW d \in CPUs, Eret(d) PROVE On(c)'
  <2>1. CASE c # d
    BY <1>20, <2>1 DEF Eret, On, SuspendOn, DepthOn, MaskOn, Open, Nest
  <2>2. CASE c = d
    <3>1. SuspendOn(c)'
      BY <1>20, <2>2, ZenonT(30) DEF Eret, On, SuspendOn, DepthOn, MaskOn, Open, Nest, Task, Irq
    <3>2. DepthOn(c)'
      BY <1>20, <2>2 DEF Eret, On, SuspendOn, DepthOn, MaskOn, Open, Nest, Task, Irq
    <3>3. MaskOn(c)'
      BY <1>20, <2>2, ZenonT(30) DEF Eret, On, SuspendOn, DepthOn, MaskOn, Open, Nest, Task, Irq
    <3> QED BY <3>1, <3>2, <3>3 DEF On
  <2> QED BY <2>1, <2>2
<1>21. ASSUME NEW d \in CPUs, TrapBoundary(d) PROVE On(c)'
  <2>1. CASE c # d
    BY <1>21, <2>1 DEF TrapBoundary, On, SuspendOn, DepthOn, MaskOn, Open, Nest
  <2>2. CASE c = d
    <3>1. SuspendOn(c)'
      BY <1>21, <2>2 DEF TrapBoundary, On, SuspendOn, DepthOn, MaskOn, Open, Nest, Task, Irq
    <3>2. DepthOn(c)'
      BY <1>21, <2>2 DEF TrapBoundary, On, SuspendOn, DepthOn, MaskOn, Open, Nest, Task, Irq
    <3>3. MaskOn(c)'
      <4>1. /\ running[c] = "task" /\ Open(Task(c))
            /\ UNCHANGED <<running, held, pc, intr_enabled>>
        BY <1>21, <2>2 DEF TrapBoundary, Open, Task
      <4>2. irq[c] = base[c] /\ irq'[c] = ~irq[c] /\ base'[c] = ~base[c]
        BY <1>21, <2>2, <4>1 DEF TrapBoundary, On, MaskOn
      <4>3. irq'[c] = base'[c]
        BY <4>2
      <4>4. /\ Nest(Task(c))' = Nest(Task(c)) /\ Open(Irq(c))' = Open(Irq(c))
            /\ Open(Task(c))' /\ pc'[Task(c)] # "push_mask"
        BY <1>21, <2>2, <4>1 DEF TrapBoundary, Nest, Open, Task
      <4> QED BY <4>1, <4>3, <4>4 DEF On, MaskOn
    <3> QED BY <3>1, <3>2, <3>3 DEF On
  <2> QED BY <2>1, <2>2
<1>22. CASE UNCHANGED vars
  BY <1>22 DEF vars, On, SuspendOn, DepthOn, MaskOn, Open, Nest
<1> QED BY <1>1, <1>2, <1>3, <1>4, <1>5, <1>6, <1>7, <1>8, <1>9, <1>10,
           <1>11, <1>12, <1>13, <1>14, <1>15, <1>16, <1>17, <1>18, <1>19,
           <1>20, <1>21, <1>22
        DEF Next, CallStep

\* Every step keeps the monitors: a store clears those on the lock it changes
\* and sends their CPUs an event.
LEMMA MonitorInvStep ==
  ASSUME SpinInv, [Next]_vars
  PROVE  MonitorInv'
<1> USE ActsFacts
        DEF SpinInv, TypeOK, lockvars, clivars, Step, At, Goto, Clear, Store
<1> DEFINE MonitorOn(b) ==
             /\ At(b, "wfe") /\ ~ev[b[1]] => mon[b[1]] = arg[b] /\ lock[arg[b]] = 1
             /\ pc[b] = "stxrb" /\ mon[b[1]] = arg[b] => lock[arg[b]] = 0
<1>m. \A b \in Acts : MonitorOn(b)
  BY DEF MonitorInv, NoLostEvent
<1>a. \A a, b \in Acts : running[a[1]] = a[2] /\ b # a /\ b[1] = a[1]
          => pc[b] \notin {"wfe", "stxrb"}
  <2> SUFFICES ASSUME NEW a \in Acts, NEW b \in Acts,
                      running[a[1]] = a[2], b # a, b[1] = a[1]
               PROVE  pc[b] \notin {"wfe", "stxrb"}
    OBVIOUS
  <2>1. CASE a = Task(a[1]) /\ b = Irq(a[1])
    BY <2>1 DEF CpuInv, SuspendOn
  <2>2. CASE a = Irq(a[1]) /\ b = Task(a[1])
    BY <2>2, SMTT(20) DEF CpuInv, SuspendOn, Open
  <2> QED BY <2>1, <2>2
<1>b. \A b \in Acts : pc[b] \in {"wfe", "stxrb"} => arg[b] # NoLock
  BY LocksAssumption DEF CallInv, Taking, NoLock
<1>c. \A c \in CPUs : running[c] = "task" => pc[Irq(c)] = "run"
  BY DEF CpuInv, SuspendOn
<1> HIDE DEF MonitorOn
<1> USE <1>m
<1>1. ASSUME NEW a \in Acts, NEW l \in Locks, Acquire(a, l) PROVE MonitorInv'
  BY <1>1 DEF Acquire, MonitorInv, NoLostEvent
<1>2. ASSUME NEW a \in Acts, NEW l \in Locks, Release(a, l) PROVE MonitorInv'
  BY <1>2 DEF Release, MonitorInv, NoLostEvent
<1>3. ASSUME NEW a \in Acts, PushLoad(a) PROVE MonitorInv'
  BY <1>3 DEF PushLoad, MonitorInv, NoLostEvent
<1>4. ASSUME NEW a \in Acts, PushStore(a) PROVE MonitorInv'
  BY <1>4 DEF PushStore, MonitorInv, NoLostEvent
<1>5. ASSUME NEW a \in Acts, PushSave(a) PROVE MonitorInv'
  BY <1>5 DEF PushSave, MonitorInv, NoLostEvent
<1>6. ASSUME NEW a \in Acts, PushMask(a) PROVE MonitorInv'
  BY <1>6 DEF PushMask, MonitorInv, NoLostEvent
<1>7. ASSUME NEW a \in Acts, AcqCheckLock(a) PROVE MonitorInv'
  <2> SUFFICES ASSUME NEW b \in Acts PROVE MonitorOn(b)'
    BY DEF MonitorInv, NoLostEvent, MonitorOn
  <2>1. CASE b = a
    <3>1. arg[a] \in Locks /\ lock[arg[a]] \in {0, 1}
      BY <1>7 DEF AcqCheckLock, CallInv, Taking
    <3>2. /\ pc'[a] \in {"wfe", "acq_chk_cpu"}
          /\ pc'[a] = "wfe" => lock[arg[a]] = 0 /\ ev'[a[1]]
      BY <1>7, <3>1 DEF AcqCheckLock
    <3> QED BY <2>1, <3>2 DEF MonitorOn
  <2>2. CASE b # a /\ b[1] = a[1]
    <3>1. pc'[b] = pc[b] /\ pc[b] \notin {"wfe", "stxrb"}
      BY <1>7, <2>2, <1>a DEF AcqCheckLock
    <3> QED BY <3>1 DEF MonitorOn
  <2>3. CASE b[1] # a[1]
    BY <1>7, <2>3 DEF AcqCheckLock, MonitorOn
  <2> QED BY <2>1, <2>2, <2>3
<1>8. ASSUME NEW a \in Acts, AcqCheckCpu(a) PROVE MonitorInv'
  BY <1>8 DEF AcqCheckCpu, MonitorInv, NoLostEvent
<1>9. ASSUME NEW a \in Acts, Wfe(a) PROVE MonitorInv'
  BY <1>9 DEF Wfe, MonitorInv, NoLostEvent
<1>10. ASSUME NEW a \in Acts, Ldaxrb(a) PROVE MonitorInv'
  <2> SUFFICES ASSUME NEW b \in Acts PROVE MonitorOn(b)'
    BY DEF MonitorInv, NoLostEvent, MonitorOn
  <2>1. CASE b = a
    <3>1. arg[a] \in Locks /\ lock[arg[a]] \in {0, 1}
      BY <1>10 DEF Ldaxrb, CallInv, Taking
    <3>2. /\ pc'[a] = IF lock[arg[a]] = 0 THEN "stxrb" ELSE "wfe"
          /\ mon'[a[1]] = arg[a] /\ UNCHANGED <<arg, lock>>
      BY <1>10 DEF Ldaxrb
    <3> QED BY <2>1, <3>1, <3>2 DEF MonitorOn
  <2>2. CASE b # a /\ b[1] = a[1]
    <3>1. pc'[b] = pc[b] /\ pc[b] \notin {"wfe", "stxrb"}
      BY <1>10, <2>2, <1>a DEF Ldaxrb
    <3> QED BY <3>1 DEF MonitorOn
  <2>3. CASE b[1] # a[1]
    BY <1>10, <2>3 DEF Ldaxrb, MonitorOn
  <2> QED BY <2>1, <2>2, <2>3
<1>11. ASSUME NEW a \in Acts, Stxrb(a) PROVE MonitorInv'
  <2>1. CASE mon[a[1]] = arg[a]
    <3> SUFFICES ASSUME NEW b \in Acts PROVE MonitorOn(b)'
      BY DEF MonitorInv, NoLostEvent, MonitorOn
    <3>1. /\ lock' = [lock EXCEPT ![arg[a]] = 1]
          /\ mon' = [d \in CPUs |-> IF mon[d] = arg[a] THEN NoLock ELSE mon[d]]
          /\ ev' = [d \in CPUs |-> ev[d] \/ (d # a[1] /\ mon[d] = arg[a])]
          /\ pc' = [pc EXCEPT ![a] = "own"] /\ UNCHANGED <<arg, running>>
      BY <1>11, <2>1 DEF Stxrb
    <3>2. CASE b = a
      BY <3>1, <3>2 DEF MonitorOn
    <3>3. CASE b # a /\ b[1] = a[1]
      <4>1. pc'[b] = pc[b] /\ pc[b] \notin {"wfe", "stxrb"}
        BY <1>11, <3>1, <3>3, <1>a DEF Stxrb
      <4> QED BY <4>1 DEF MonitorOn
    <3>4. CASE b[1] # a[1] /\ mon[b[1]] = arg[a]
      <4>1. ev'[b[1]] /\ mon'[b[1]] = NoLock
        BY <3>1, <3>4
      <4>2. pc[b] = "stxrb" => arg[b] # NoLock
        BY <1>b
      <4>3. pc'[b] = pc[b] /\ arg'[b] = arg[b]
        BY <3>1, <3>4
      <4> QED BY <4>1, <4>2, <4>3 DEF MonitorOn
    <3>5. CASE b[1] # a[1] /\ mon[b[1]] # arg[a]
      <4>1. ev'[b[1]] = ev[b[1]] /\ mon'[b[1]] = mon[b[1]]
        BY <3>1, <3>5
      <4>2. pc'[b] = pc[b] /\ arg'[b] = arg[b] /\ running'[b[1]] = running[b[1]]
        BY <3>1, <3>5
      <4>3. mon[b[1]] = arg[b] => lock'[arg[b]] = lock[arg[b]]
        BY <3>1, <3>5
      <4>4. MonitorOn(b)
        OBVIOUS
      <4> QED BY <4>1, <4>2, <4>3, <4>4 DEF MonitorOn
    <3> QED BY <3>2, <3>3, <3>4, <3>5
  <2>2. CASE mon[a[1]] # arg[a]
    BY <1>11, <2>2 DEF Stxrb, MonitorInv, NoLostEvent, MonitorOn
  <2> QED BY <2>1, <2>2
<1>12. ASSUME NEW a \in Acts, Own(a) PROVE MonitorInv'
  BY <1>12 DEF Own, MonitorInv, NoLostEvent
<1>13. ASSUME NEW a \in Acts, RelCheckLock(a) PROVE MonitorInv'
  BY <1>13 DEF RelCheckLock, MonitorInv, NoLostEvent
<1>14. ASSUME NEW a \in Acts, RelCheckCpu(a) PROVE MonitorInv'
  BY <1>14 DEF RelCheckCpu, MonitorInv, NoLostEvent
<1>15. ASSUME NEW a \in Acts, Disown(a) PROVE MonitorInv'
  BY <1>15 DEF Disown, MonitorInv, NoLostEvent
<1>16. ASSUME NEW a \in Acts, Unlock(a) PROVE MonitorInv'
  <2> SUFFICES ASSUME NEW b \in Acts PROVE MonitorOn(b)'
    BY DEF MonitorInv, NoLostEvent, MonitorOn
  <2>1. /\ lock' = [lock EXCEPT ![arg[a]] = 0]
        /\ mon' = [d \in CPUs |-> IF mon[d] = arg[a] THEN NoLock ELSE mon[d]]
        /\ ev' = [d \in CPUs |-> ev[d] \/ (d # a[1] /\ mon[d] = arg[a])]
        /\ pc' = [pc EXCEPT ![a] = "pop_dec"] /\ UNCHANGED <<arg, running>>
    BY <1>16 DEF Unlock
  <2>2. CASE b = a
    BY <2>1, <2>2 DEF MonitorOn
  <2>3. CASE b # a /\ b[1] = a[1]
    <3>1. pc'[b] = pc[b] /\ pc[b] \notin {"wfe", "stxrb"}
      BY <1>16, <2>1, <2>3, <1>a DEF Unlock
    <3> QED BY <3>1 DEF MonitorOn
  <2>4. CASE b[1] # a[1] /\ mon[b[1]] = arg[a]
    <3>1. ev'[b[1]] /\ mon'[b[1]] = NoLock
      BY <2>1, <2>4
    <3>2. pc[b] = "stxrb" => arg[b] # NoLock
      BY <1>b
    <3>3. pc'[b] = pc[b] /\ arg'[b] = arg[b]
      BY <2>1, <2>4
    <3> QED BY <3>1, <3>2, <3>3 DEF MonitorOn
  <2>5. CASE b[1] # a[1] /\ mon[b[1]] # arg[a]
    <3>1. ev'[b[1]] = ev[b[1]] /\ mon'[b[1]] = mon[b[1]]
      BY <2>1, <2>5
    <3>2. pc'[b] = pc[b] /\ arg'[b] = arg[b] /\ running'[b[1]] = running[b[1]]
      BY <2>1, <2>5
    <3>3. mon[b[1]] = arg[b] => lock'[arg[b]] = lock[arg[b]]
      BY <2>1, <2>5
    <3>4. MonitorOn(b)
      OBVIOUS
    <3> QED BY <3>1, <3>2, <3>3, <3>4 DEF MonitorOn
  <2> QED BY <2>2, <2>3, <2>4, <2>5
<1>17. ASSUME NEW a \in Acts, PopDec(a) PROVE MonitorInv'
  BY <1>17 DEF PopDec, MonitorInv, NoLostEvent
<1>18. ASSUME NEW a \in Acts, PopUnmask(a) PROVE MonitorInv'
  BY <1>18 DEF PopUnmask, MonitorInv, NoLostEvent
<1>19. ASSUME NEW c \in CPUs, IrqEntry(c) PROVE MonitorInv'
  <2>1. pc[Irq(c)] = "run" /\ running' = [running EXCEPT ![c] = "irq"]
    BY <1>19, <1>c DEF IrqEntry
  <2> SUFFICES ASSUME NEW b \in Acts PROVE MonitorOn(b)'
    BY DEF MonitorInv, NoLostEvent, MonitorOn
  <2>2. CASE b = Task(c)
    BY <1>19, <2>1, <2>2 DEF IrqEntry, MonitorOn
  <2>3. CASE b = Irq(c)
    BY <1>19, <2>1, <2>3 DEF IrqEntry, MonitorOn
  <2>4. CASE b[1] # c
    BY <1>19, <2>1, <2>4 DEF IrqEntry, MonitorOn
  <2> QED BY <2>2, <2>3, <2>4, SMTT(20)
<1>20. ASSUME NEW c \in CPUs, Eret(c) PROVE MonitorInv'
  <2>1. pc[Irq(c)] = "run" /\ UNCHANGED <<pc, arg, lock>>
    BY <1>20 DEF Eret, Irq
  <2> SUFFICES ASSUME NEW b \in Acts PROVE MonitorOn(b)'
    BY DEF MonitorInv, NoLostEvent, MonitorOn
  <2>2. CASE b = Task(c)
    <3>1. ev'[c] /\ mon'[c] = NoLock
      BY <1>20 DEF Eret
    <3>2. pc[b] = "stxrb" => arg[b] # NoLock
      BY <1>b
    <3> QED BY <2>1, <2>2, <3>1, <3>2 DEF MonitorOn
  <2>3. CASE b = Irq(c)
    BY <2>1, <2>3 DEF MonitorOn
  <2>4. CASE b[1] # c
    BY <1>20, <2>1, <2>4 DEF Eret, MonitorOn
  <2> QED BY <2>2, <2>3, <2>4, SMTT(20)
<1>21. ASSUME NEW c \in CPUs, TrapBoundary(c) PROVE MonitorInv'
  BY <1>21 DEF TrapBoundary, MonitorInv, NoLostEvent
<1>22. CASE UNCHANGED vars
  BY <1>22 DEF vars, MonitorInv, NoLostEvent
<1> QED BY <1>1, <1>2, <1>3, <1>4, <1>5, <1>6, <1>7, <1>8, <1>9, <1>10,
           <1>11, <1>12, <1>13, <1>14, <1>15, <1>16, <1>17, <1>18, <1>19,
           <1>20, <1>21, <1>22
        DEF Next, CallStep

\* Initially every lock is free and every count is 0.
LEMMA InitInv == Init => SpinInv
<1> SUFFICES ASSUME Init PROVE SpinInv
  OBVIOUS
<1> USE ActsFacts DEF Init
<1>1. TypeOK
  BY DEF TypeOK, PCs, Levels
<1>2. CallInv /\ LockInv /\ MonitorInv
  BY DEF CallInv, Taking, Having, LockInv, MutualExclusion, MonitorInv, NoLostEvent, At
<1>3. OwnerInv
  BY CPUsAssumption DEF OwnerInv, NoCpu
<1>4. CpuInv
  <2> SUFFICES ASSUME NEW c \in CPUs PROVE SuspendOn(c) /\ DepthOn(c) /\ MaskOn(c)
    BY DEF CpuInv
  <2>1. Nest(Task(c)) = 0 /\ Nest(Irq(c)) = 0
    BY FS_EmptySet DEF Nest
  <2>2. Open(Task(c)) /\ Open(Irq(c))
    BY DEF Open
  <2>3. SuspendOn(c)
    BY DEF SuspendOn
  <2>4. DepthOn(c)
    BY <2>1 DEF DepthOn
  <2>5. MaskOn(c)
    BY <2>2 DEF MaskOn
  <2> QED BY <2>3, <2>4, <2>5
<1> QED BY <1>1, <1>2, <1>3, <1>4 DEF SpinInv

\* The parts of SpinInv are preserved together by every instruction of
\* acquire() and release(), by interrupt entry and return and by the traps.
THEOREM SpinInvariant == Spec => []SpinInv
<1>1. SpinInv /\ [Next]_vars => SpinInv'
  BY TypeOKStep, CallInvStep, LockInvStep, OwnerInvStep, CpuInvStep, MonitorInvStep
     DEF SpinInv
<1> QED BY <1>1, InitInv, PTL DEF Spec

\* acquire() gives a lock to at most one activity, whatever the number of CPUs
\* and locks and wherever interrupts are taken.
THEOREM Exclusive == Spec => []MutualExclusion
<1>1. SpinInv => MutualExclusion
  BY DEF SpinInv, LockInv
<1> QED BY <1>1, SpinInvariant, PTL

\* None of the panics of acquire(), release() and popcli() is reached.
THEOREM NeverPanics == Spec => []NoPanic
<1>1. SpinInv => NoPanic
  BY DEF SpinInv, CallInv, NoPanic
<1> QED BY <1>1, SpinInvariant, PTL

\* While an activity holds a lock, IRQs are masked on its CPU.
THEOREM Masked == Spec => []IrqMaskedWhileHeld
<1>1. SpinInv => IrqMaskedWhileHeld
  <2> SUFFICES ASSUME SpinInv, NEW a \in Acts, held[a] # {} PROVE ~irq[a[1]]
    BY DEF IrqMaskedWhileHeld
  <2>1. SuspendOn(a[1]) /\ MaskOn(a[1]) /\ running[a[1]] \in Levels
    BY ActsFacts DEF SpinInv, CpuInv, TypeOK
  <2>2. CASE running[a[1]] = "task"
    BY <2>1, <2>2, ActsFacts DEF SuspendOn, MaskOn, Open
  <2>3. CASE running[a[1]] = "irq"
    BY <2>1, <2>3 DEF SuspendOn
  <2> QED BY <2>1, <2>2, <2>3 DEF Levels
<1> QED BY <1>1, SpinInvariant, PTL

\* popcli() of the last lock restores the mask that the first pushcli() found,
\* and the nesting count is 0 again.
THEOREM MaskRestored == Spec => []IrqRestored
<1>1. SpinInv => IrqRestored
  <2> SUFFICES ASSUME SpinInv, NEW c \in CPUs
               PROVE  /\ At(Task(c), "run") /\ held[Task(c)] = {}
                            => irq[c] = base[c] /\ cli_depth[c] = 0
                      /\ At(Irq(c), "run") => ~irq[c]
    BY DEF IrqRestored, Task, Irq
  <2>1. SuspendOn(c) /\ MaskOn(c) /\ DepthOn(c)
    BY DEF SpinInv, CpuInv
  <2>2. ASSUME At(Task(c), "run"), held[Task(c)] = {}
        PROVE  irq[c] = base[c] /\ cli_depth[c] = 0
    <3>1. running[c] = "task" /\ pc[Task(c)] = "run" /\ pc[Irq(c)] = "run" /\ held[Irq(c)] = {}
      BY <2>1, <2>2, ActsFacts DEF At, SuspendOn
    <3>2. Nest(Task(c)) = 0 /\ Nest(Irq(c)) = 0
      BY <2>2, <3>1, FS_EmptySet DEF Nest
    <3>3. irq[c] = base[c]
      BY <2>1, <2>2, <3>1 DEF MaskOn, Open
    <3> QED BY <2>1, <3>2, <3>3 DEF DepthOn
  <2>3. At(Irq(c), "run") => ~irq[c]
    BY <2>1, ActsFacts DEF At, SuspendOn
  <2> QED BY <2>2, <2>3
<1> QED BY <1>1, SpinInvariant, PTL

\* A CPU never waits in wfe for an event that has already been sent.
THEOREM EventKept == Spec => []NoLostEvent
<1>1. SpinInv => NoLostEvent
  BY DEF SpinInv, MonitorInv
<1> QED BY <1>1, SpinInvariant, PTL

\* The owner of a lock is the activity that holds it.
LEMMA OwnerIs ==
  ASSUME SpinInv, NEW l \in Locks
  PROVE  /\ \A a \in Acts : l \in held[a] => owner[l] = a
         /\ (\A a \in Acts : l \notin held[a]) => owner[l] = <<>>
<1>1. ASSUME NEW a \in Acts, l \in held[a] PROVE owner[l] = a
  <2>1. \A b \in Acts : l \in held[b] => b = a
    BY <1>1 DEF SpinInv, LockInv, MutualExclusion
  <2> QED BY <1>1, <2>1 DEF owner
<1>2. ASSUME \A a \in Acts : l \notin held[a] PROVE owner[l] = <<>>
  BY <1>2 DEF owner
<1> QED BY <1>1, <1>2

\* A step that changes nobody's hold on a lock leaves its owner alone.
LEMMA OwnerKept ==
  ASSUME SpinInv, NEW l \in Locks,
         \A a \in Acts : l \in held'[a] <=> l \in held[a]
  PROVE  owner'[l] = owner[l]
<1>1. CASE \E a \in Acts : l \in held[a]
  <2>1. PICK a \in Acts : l \in held[a]
    BY <1>1
  <2>2. owner[l] = a
    BY <2>1, OwnerIs
  <2>3. \A b \in Acts : l \in held'[b] <=> b = a
    BY <2>1 DEF SpinInv, LockInv, MutualExclusion
  <2>4. owner'[l] = a
    BY <2>3 DEF owner
  <2> QED BY <2>2, <2>4
<1>2. CASE \A a \in Acts : l \notin held[a]
  BY <1>2 DEF owner
<1> QED BY <1>1, <1>2

\* The instructions of acquire() and release() implement a lock that is taken
\* and given back in one step: stxrb takes it, stlrb gives it back.
THEOREM Refinement == Spec => ImplementsLock
<1>1. Init => Abs!Init
  BY ActsFacts DEF Init, Abs!Init, owner
<1>2. SpinInv /\ SpinInv' /\ [Next]_vars => [Abs!Next]_owner
  <2> SUFFICES ASSUME SpinInv, SpinInv', [Next]_vars PROVE [Abs!Next]_owner
    OBVIOUS
  <2>1. CASE UNCHANGED held
    BY <2>1 DEF owner
  <2>2. ASSUME NEW a \in Acts, Stxrb(a), held' # held PROVE Abs!Next
    <3>1. /\ held' = [held EXCEPT ![a] = held[a] \cup {arg[a]}]
          /\ pc[a] = "stxrb" /\ mon[a[1]] = arg[a]
      BY <2>2 DEF Stxrb, At
    <3>2. arg[a] \in Locks /\ lock[arg[a]] = 0
      BY <3>1 DEF SpinInv, CallInv, Taking, MonitorInv
    <3>3. \A b \in Acts : arg[a] \notin held[b]
      BY <3>2 DEF SpinInv, LockInv
    <3>4. owner[arg[a]] = <<>>
      BY <3>2, <3>3, OwnerIs
    <3>5. owner' = [owner EXCEPT ![arg[a]] = a]
      <4>1. \A b \in Acts : held'[b] = IF b = a THEN held[b] \cup {arg[a]} ELSE held[b]
        BY <3>1 DEF SpinInv, TypeOK
      <4>2. owner'[arg[a]] = a
        <5>1. \A b \in Acts : arg[a] \in held'[b] <=> b = a
          BY <3>3, <4>1
        <5> QED BY <5>1, <3>2 DEF owner
      <4>3. \A l \in Locks : l # arg[a] => \A b \in Acts : l \in held'[b] <=> l \in held[b]
        BY <4>1
      <4>4. \A l \in Locks : l # arg[a] => owner'[l] = owner[l]
        <5> SUFFICES ASSUME NEW l \in Locks, l # arg[a] PROVE owner'[l] = owner[l]
          OBVIOUS
        <5>1. \A b \in Acts : l \in held'[b] <=> l \in held[b]
          BY <4>3
        <5> QED BY <5>1, OwnerKept
      <4> QED BY <4>2, <4>4, <3>2 DEF owner
    <3> QED BY <3>2, <3>4, <3>5 DEF Abs!Next, Abs!Acquire
  <2>3. ASSUME NEW a \in Acts, Unlock(a) PROVE Abs!Next
    <3>1. held' = [held EXCEPT ![a] = held[a] \ {arg[a]}] /\ pc[a] = "unlock"
      BY <2>3 DEF Unlock, Step, At
    <3>2. arg[a] \in held[a] /\ arg[a] \in Locks
      BY <3>1 DEF SpinInv, CallInv, Having, TypeOK
    <3>3. owner[arg[a]] = a
      BY <3>2, OwnerIs
    <3>4. \A b \in Acts : held'[b] = IF b = a THEN held[b] \ {arg[a]} ELSE held[b]
      BY <3>1 DEF SpinInv, TypeOK
    <3>5. owner'[arg[a]] = <<>>
      <4>1. \A b \in Acts : arg[a] \notin held'[b]
        <5>1. \A b \in Acts : b # a => arg[a] \notin held[b]
          BY <3>2 DEF SpinInv, LockInv, MutualExclusion
        <5> QED BY <3>4, <5>1
      <4> QED BY <4>1, <3>2 DEF owner
    <3>6. \A l \in Locks : l # arg[a] => owner'[l] = owner[l]
      <4> SUFFICES ASSUME NEW l \in Locks, l # arg[a] PROVE owner'[l] = owner[l]
        OBVIOUS
      <4>1. \A b \in Acts : l \in held'[b] <=> l \in held[b]
        BY <3>4
      <4> QED BY <4>1, OwnerKept
    <3>7. owner' = [owner EXCEPT ![arg[a]] = <<>>]
      BY <3>2, <3>5, <3>6 DEF owner
    <3> QED BY <3>2, <3>3, <3>7 DEF Abs!Next, Abs!Release
  <2>4. ASSUME held' # held
        PROVE  \E a \in Acts : Stxrb(a) \/ Unlock(a)
    BY <2>4 DEF Next, CallStep, vars, lockvars, Acquire, Release, PushLoad, PushStore,
       PushSave, PushMask, AcqCheckLock, AcqCheckCpu, Wfe, Ldaxrb, Own, RelCheckLock,
       RelCheckCpu, Disown, PopDec, PopUnmask, IrqEntry, Eret, TrapBoundary
  <2> QED BY <2>1, <2>2, <2>3, <2>4
<1> QED BY <1>1, <1>2, SpinInvariant, PTL DEF Spec, ImplementsLock, Abs!Spec

=============================================================================
