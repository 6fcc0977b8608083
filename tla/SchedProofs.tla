---------------------------- MODULE SchedProofs -----------------------------
(***************************************************************************)
(* For every number of slots, CPUs and requests and every mix of system    *)
(* calls: type correctness and the counting of locks; SchedInv, and with   *)
(* it StackSafe and RunningOnCpu; then parents and children: nobody is     *)
(* orphaned, and no parent sleeps through the exit of a child it waits     *)
(* for; then who holds which lock, and what follows from it.               *)
(***************************************************************************)
EXTENDS Sched, FiniteSetTheorems, TLAPS

-----------------------------------------------------------------------------
(* Types, and pushcli() against popcli().                                  *)

USE DEF Procs, Reqs, NULL, Buf, initproc, DevCpu

\* A lock that changes from free to held by c, with the count of c.
Takes(c) ==
    \/ lk = NULL /\ lk' = c /\ UNCHANGED <<disklk, kalloclk>>
    \/ disklk = NULL /\ disklk' = c /\ UNCHANGED <<lk, kalloclk>>
    \/ kalloclk = NULL /\ kalloclk' = c /\ UNCHANGED <<lk, disklk>>

\* The reverse.
Gives(c) ==
    \/ lk = c /\ lk' = NULL /\ UNCHANGED <<disklk, kalloclk>>
    \/ disklk = c /\ disklk' = NULL /\ UNCHANGED <<lk, kalloclk>>

\* acquire(): a lock taken with pushcli() keeps the count equal to the number
\* of locks held.
LEMMA Take ==
  ASSUME CliType, LockType, CliBalanced, NEW c \in CPUs, pushcli(c), Takes(c)
  PROVE  CliType' /\ LockType' /\ CliBalanced'
<1> USE CPUsAssumption
<1>1. cli_depth' = [cli_depth EXCEPT ![c] = cli_depth[c] + 1]
  BY DEF pushcli
<1>2. irq' \in [CPUs -> BOOLEAN] /\ intr_enabled' \in [CPUs -> BOOLEAN]
  <2>1. CASE cli_depth[c] = 0
    BY <2>1, Zenon DEF CliType, pushcli
  <2>2. CASE cli_depth[c] # 0
    BY <2>2 DEF CliType, pushcli
  <2> QED BY <2>1, <2>2
<1>3. LockType'
  BY DEF LockType, Takes
<1>4. ASSUME NEW d \in CPUs
      PROVE  cli_depth'[d] = B(lk' = d) + B(disklk' = d) + B(kalloclk' = d)
  <2>1. cli_depth[d] = B(lk = d) + B(disklk = d) + B(kalloclk = d)
    BY DEF CliBalanced
  <2>2. CASE lk = NULL /\ lk' = c /\ UNCHANGED <<disklk, kalloclk>>
    BY <1>1, <2>1, <2>2 DEF B, CliType
  <2>3. CASE disklk = NULL /\ disklk' = c /\ UNCHANGED <<lk, kalloclk>>
    BY <1>1, <2>1, <2>3 DEF B, CliType
  <2>4. CASE kalloclk = NULL /\ kalloclk' = c /\ UNCHANGED <<lk, disklk>>
    BY <1>1, <2>1, <2>4 DEF B, CliType
  <2> QED BY <2>2, <2>3, <2>4 DEF Takes
<1>5. cli_depth' \in [CPUs -> Nat]
  BY <1>1 DEF CliType
<1> QED BY <1>2, <1>3, <1>4, <1>5 DEF CliType, CliBalanced

\* The count of a CPU that gives a lock back is not 0, and it stays equal to
\* the number of locks held.
LEMMA Give ==
  ASSUME CliType, LockType, CliBalanced, NEW c \in CPUs, Gives(c),
         cli_depth' = [cli_depth EXCEPT ![c] = cli_depth[c] - 1]
  PROVE  cli_depth' \in [CPUs -> Nat] /\ LockType' /\ CliBalanced'
<1> USE CPUsAssumption
<1>1. cli_depth[c] \in Nat \ {0}
  BY DEF CliBalanced, B, Gives
<1>2. cli_depth' \in [CPUs -> Nat]
  BY <1>1 DEF CliType
<1>3. LockType'
  BY DEF LockType, Gives
<1>4. ASSUME NEW d \in CPUs
      PROVE  cli_depth'[d] = B(lk' = d) + B(disklk' = d) + B(kalloclk' = d)
  <2>1. cli_depth[d] = B(lk = d) + B(disklk = d) + B(kalloclk = d)
    BY DEF CliBalanced
  <2>2. CASE lk = c /\ lk' = NULL /\ UNCHANGED <<disklk, kalloclk>>
    BY <2>1, <2>2 DEF B, CliType
  <2>3. CASE disklk = c /\ disklk' = NULL /\ UNCHANGED <<lk, kalloclk>>
    BY <2>1, <2>3 DEF B, CliType
  <2> QED BY <2>2, <2>3 DEF Gives
<1> QED BY <1>2, <1>3, <1>4 DEF CliBalanced

\* release(): the same with popcli().
LEMMA GivePopcli ==
  ASSUME CliType, LockType, CliBalanced, NEW c \in CPUs, Gives(c), popcli(c)
  PROVE  CliType' /\ LockType' /\ CliBalanced'
<1>1. cli_depth' = [cli_depth EXCEPT ![c] = cli_depth[c] - 1]
  BY DEF popcli
<1>2. irq' \in [CPUs -> BOOLEAN] /\ intr_enabled' \in [CPUs -> BOOLEAN]
  <2>1. CASE cli_depth[c] = 1
    BY <2>1, Zenon DEF CliType, popcli
  <2>2. CASE cli_depth[c] # 1
    BY <2>2 DEF CliType, popcli
  <2> QED BY <2>1, <2>2
<1> QED BY <1>1, <1>2, Give DEF CliType

LEMMA DataStep ==
  ASSUME TypeOK, Next
  PROVE  TableType' /\ PcType' /\ LocalType' /\ CpuType' /\ RestType'
<1> USE NPROCAssumption, CPUsAssumption, CallsAssumption, NREQAssumption
<1> USE DEF TypeOK, table, local, cpuv, cli, locks, rest
<1> DEFINE Data == TableType /\ PcType /\ LocalType /\ CpuType /\ RestType
<1>1. ASSUME NEW c \in CPUs, SchedTop(c) PROVE Data'
  BY <1>1 DEF TableType, PcType, LocalType, CpuType, RestType, States, PCs, AllCalls, Panics, SchedTop, SchedAt
<1>2. ASSUME NEW c \in CPUs, SchedAcquire(c) PROVE Data'
  <2>1. CpuType'
    BY <1>2 DEF CpuType, SchedAcquire, SchedAt, acquire, pushcli
  <2> QED
    BY <1>2, <2>1 DEF TableType, PcType, LocalType, RestType, SchedAcquire
<1>3. ASSUME NEW c \in CPUs, SchedDispatch(c) PROVE Data'
  <2>1. TableType'
    BY <1>3 DEF TableType, States, SchedDispatch, SchedAt, First, Ahead
  <2>2. CpuType'
    BY <1>3 DEF CpuType, SchedDispatch, SchedAt, First, Ahead
  <2> QED
    BY <1>3, <2>1, <2>2 DEF PcType, LocalType, RestType, SchedDispatch
<1>4. ASSUME NEW c \in CPUs, SchedRelease(c) PROVE Data'
  <2>1. CpuType'
    BY <1>4 DEF CpuType, SchedRelease, SchedAt, release, popcli
  <2> QED
    BY <1>4, <2>1 DEF TableType, PcType, LocalType, RestType, SchedRelease
<1>5. ASSUME NEW c \in CPUs, NEW p \in Procs, Sigcheck(c, p) PROVE Data'
  <2>1. TableType'
    BY <1>5 DEF TableType, States, Sigcheck, At, Goto, Forget
  <2>2. PcType'
    BY <1>5 DEF PcType, PCs, Sigcheck, At, Goto, Forget
  <2>3. LocalType'
    BY <1>5 DEF LocalType, AllCalls, Sigcheck, At, Goto, Forget
  <2> QED
    BY <1>5, <2>1, <2>2, <2>3 DEF CpuType, RestType, Sigcheck
<1>6. ASSUME NEW c \in CPUs, NEW p \in Procs, Forkret(c, p) PROVE Data'
  BY <1>6 DEF TableType, PcType, LocalType, CpuType, RestType, States, PCs, AllCalls, Panics, Forkret, At, Goto
<1>7. ASSUME NEW c \in CPUs, NEW p \in Procs, YieldAcquire(c, p) PROVE Data'
  BY <1>7 DEF TableType, PcType, LocalType, CpuType, RestType, States, PCs, AllCalls, Panics, YieldAcquire, At, Goto, acquire, pushcli
<1>8. ASSUME NEW c \in CPUs, NEW p \in Procs, YieldSwitch(c, p) PROVE Data'
  BY <1>8 DEF TableType, PcType, LocalType, CpuType, RestType, States, PCs, AllCalls, Panics, YieldSwitch, At, Goto, SwitchToScheduler
<1>9. ASSUME NEW c \in CPUs, NEW p \in Procs, YieldResume(c, p) PROVE Data'
  BY <1>9 DEF TableType, PcType, LocalType, CpuType, RestType, States, PCs, AllCalls, Panics, YieldResume, At, Goto, release, popcli
<1>10. ASSUME NEW c \in CPUs, NEW p \in Procs, NewprocSlot(c, p) PROVE Data'
  <2>1. TableType'
    BY <1>10 DEF TableType, States, NewprocSlot, At, Goto, Critical, First
  <2>2. PcType'
    BY <1>10 DEF PcType, PCs, NewprocSlot, At, Goto, Critical, First
  <2>3. LocalType'
    BY <1>10, SMTT(20) DEF LocalType, AllCalls, NewprocSlot, At, Goto, Critical, First
  <2> QED
    BY <1>10, <2>1, <2>2, <2>3 DEF CpuType, RestType, NewprocSlot
<1>11. ASSUME NEW c \in CPUs, NEW p \in Procs, NewprocPid(c, p) PROVE Data'
  <2>1. TableType'
    BY <1>11 DEF TableType, States, NewprocPid, At, Goto, LocalType, RestType
  <2>2. PcType'
    BY <1>11 DEF PcType, PCs, NewprocPid, At, Goto
  <2>3. RestType'
    BY <1>11 DEF RestType, Panics, NewprocPid, At, Goto
  <2> QED
    BY <1>11, <2>1, <2>2, <2>3 DEF LocalType, CpuType, NewprocPid
<1>12. ASSUME NEW c \in CPUs, NEW p \in Procs, NewprocMem(c, p) PROVE Data'
  BY <1>12 DEF TableType, PcType, LocalType, CpuType, RestType, States, PCs, AllCalls, Panics, NewprocMem, At, Goto
<1>13. ASSUME NEW c \in CPUs, NEW p \in Procs, NewprocNoMem(c, p) PROVE Data'
  <2>1. TableType'
    BY <1>13 DEF TableType, States, NewprocNoMem, At, Goto, pushcli
  <2>2. PcType'
    BY <1>13 DEF PcType, PCs, NewprocNoMem, At, Goto, pushcli
  <2> QED
    BY <1>13, <2>1, <2>2 DEF LocalType, CpuType, RestType, NewprocNoMem
<1>14. ASSUME NEW c \in CPUs, NEW p \in Procs, ForkPublish(c, p) PROVE Data'
  BY <1>14 DEF TableType, PcType, LocalType, CpuType, RestType, States, PCs, AllCalls, Panics, ForkPublish, At, Goto, Critical
<1>15. ASSUME NEW c \in CPUs, NEW p \in Procs, ForkFail(c, p) PROVE Data'
  BY <1>15 DEF TableType, PcType, LocalType, CpuType, RestType, States, PCs, AllCalls, Panics, ForkFail, At, Goto, acquire, pushcli
<1>16. ASSUME NEW c \in CPUs, NEW p \in Procs, SleepAcquire(c, p) PROVE Data'
  BY <1>16 DEF TableType, PcType, LocalType, CpuType, RestType, States, PCs, AllCalls, Panics, SleepAcquire, At, Goto, acquire, pushcli
<1>17. ASSUME NEW c \in CPUs, NEW p \in Procs, SleepRelease(c, p) PROVE Data'
  BY <1>17 DEF TableType, PcType, LocalType, CpuType, RestType, States, PCs, AllCalls, Panics, SleepRelease, At, Goto, popcli, FallAsleep
<1>18. ASSUME NEW c \in CPUs, NEW p \in Procs, SleepSwitch(c, p) PROVE Data'
  BY <1>18 DEF TableType, PcType, LocalType, CpuType, RestType, States, PCs, AllCalls, Panics, SleepSwitch, At, Goto, SwitchToScheduler
<1>19. ASSUME NEW c \in CPUs, NEW p \in Procs, SleepResume(c, p) PROVE Data'
  BY <1>19 DEF TableType, PcType, LocalType, CpuType, RestType, States, PCs, AllCalls, Panics, SleepResume, At, Goto, release, popcli
<1>20. ASSUME NEW c \in CPUs, NEW p \in Procs, SleepRelock(c, p) PROVE Data'
  BY <1>20 DEF TableType, PcType, LocalType, CpuType, RestType, States, PCs, AllCalls, Panics, SleepRelock, At, Goto, pushcli
<1>21. ASSUME NEW c \in CPUs, NEW p \in Procs, SleepSigcheck(c, p) PROVE Data'
  <2>1. TableType'
    BY <1>21 DEF TableType, States, SleepSigcheck, At, Goto, Forget
  <2>2. PcType'
    BY <1>21 DEF PcType, PCs, SleepSigcheck, At, Goto, Forget
  <2>3. LocalType'
    <3>1. CASE sig[p]
      BY <1>21, <3>1, ZenonT(30) DEF LocalType, SleepSigcheck, Forget
    <3>2. CASE ~sig[p]
      BY <1>21, <3>2 DEF LocalType, SleepSigcheck
    <3> QED BY <3>1, <3>2
  <2> QED
    BY <1>21, <2>1, <2>2, <2>3 DEF CpuType, RestType, SleepSigcheck
<1>22. ASSUME NEW c \in CPUs, NEW p \in Procs, WaitScan(c, p) PROVE Data'
  <2>1. TableType'
    BY <1>22 DEF TableType, States, WaitScan, At, Goto, acquire, pushcli, FallAsleep, First, Waited
  <2>2. PcType'
    BY <1>22 DEF PcType, PCs, WaitScan, At, Goto, acquire, pushcli, FallAsleep, First, Waited
  <2>3. LocalType'
    BY <1>22, SMTT(20)
    DEF LocalType, AllCalls, WaitScan, At, Goto, acquire, pushcli, FallAsleep, First, Waited
  <2> QED
    BY <1>22, <2>1, <2>2, <2>3 DEF CpuType, RestType, WaitScan
<1>23. ASSUME NEW c \in CPUs, NEW p \in Procs, Freeproc(c, p) PROVE Data'
  BY <1>23 DEF TableType, PcType, LocalType, CpuType, RestType, States, PCs, AllCalls, Panics, Freeproc, At, Goto, release, popcli
<1>24. ASSUME NEW c \in CPUs, NEW p \in Procs, KillPget(c, p) PROVE Data'
  <2>1. PcType'
    BY <1>24 DEF PcType, PCs, KillPget, At, Goto, Critical, First
  <2>2. LocalType'
    <3>1. obj' = obj \/ \E q \in Procs : obj' = [obj EXCEPT ![p] = q]
      BY <1>24, Zenon DEF KillPget
    <3>2. call' = call /\ arg' = arg /\ req' = req
      BY <1>24, Zenon DEF KillPget
    <3> QED BY <3>1, <3>2 DEF LocalType
  <2> QED
    BY <1>24, <2>1, <2>2 DEF TableType, CpuType, RestType, KillPget
<1>25. ASSUME NEW c \in CPUs, NEW p \in Procs, KillSig(c, p) PROVE Data'
  BY <1>25 DEF TableType, PcType, LocalType, CpuType, RestType, States, PCs, AllCalls, Panics, KillSig, At, Goto
<1>26. ASSUME NEW c \in CPUs, NEW p \in Procs, KillWake(c, p) PROVE Data'
  <2>1. TableType'
    BY <1>26 DEF TableType, States, KillWake, At, Goto, Critical
  <2>2. PcType'
    BY <1>26 DEF PcType, PCs, KillWake, At, Goto, Critical
  <2> QED
    BY <1>26, <2>1, <2>2 DEF LocalType, CpuType, RestType, KillWake
<1>27. ASSUME NEW c \in CPUs, NEW p \in Procs, ExitFree(c, p) PROVE Data'
  BY <1>27 DEF TableType, PcType, LocalType, CpuType, RestType, States, PCs, AllCalls, Panics, ExitFree, At, Goto, Forget
<1>28. ASSUME NEW c \in CPUs, NEW p \in Procs, ExitAcquire(c, p) PROVE Data'
  <2>1. TableType'
    BY <1>28 DEF TableType, States, ExitAcquire, At, Goto, acquire, pushcli, Woken, reparent
  <2>2. PcType'
    BY <1>28 DEF PcType, PCs, ExitAcquire, At, Goto, acquire, pushcli, Woken, reparent
  <2> QED
    BY <1>28, <2>1, <2>2 DEF LocalType, CpuType, RestType, ExitAcquire
<1>29. ASSUME NEW c \in CPUs, NEW p \in Procs, ExitSwitch(c, p) PROVE Data'
  BY <1>29 DEF TableType, PcType, LocalType, CpuType, RestType, States, PCs, AllCalls, Panics, ExitSwitch, At, Goto, SwitchToScheduler
<1>30. ASSUME NEW c \in CPUs, NEW p \in Procs, DiskSubmit(c, p) PROVE Data'
  <2>1. PcType'
    BY <1>30 DEF PcType, PCs, DiskSubmit, At, Goto, pushcli, First
  <2>2. LocalType'
    BY <1>30 DEF LocalType, AllCalls, DiskSubmit, At, Goto, pushcli, First
  <2>3. RestType'
    BY <1>30 DEF RestType, Panics, DiskSubmit, At, Goto, pushcli, First
  <2> QED
    BY <1>30, <2>1, <2>2, <2>3 DEF TableType, CpuType, DiskSubmit
<1>31. ASSUME NEW c \in CPUs, NEW p \in Procs, DiskDone(c, p) PROVE Data'
  <2>1. PcType'
    BY <1>31 DEF PcType, PCs, DiskDone, At, Goto, popcli
  <2>2. RestType'
    BY <1>31 DEF RestType, Panics, DiskDone, At, Goto, popcli
  <2> QED
    BY <1>31, <2>1, <2>2 DEF TableType, LocalType, CpuType, DiskDone
<1>32. ASSUME NEW c \in CPUs, NEW p \in Procs, TimerIrq(c, p) PROVE Data'
  BY <1>32 DEF TableType, PcType, LocalType, CpuType, RestType, States, PCs, AllCalls, Panics, TimerIrq, At, Goto, TrapTo
<1>33. ASSUME NEW c \in CPUs, NEW p \in Procs, Syscall(c, p) PROVE Data'
  <2>1. PcType'
    <3>1. PICK s \in AllCalls \ {"abort"} : TrapTo(c, p, EntryOf(s))
      BY <1>33 DEF Syscall, UserCalls
    <3>2. EntryOf(s) \in PCs
      BY <3>1 DEF EntryOf, AllCalls, PCs
    <3> QED BY <3>1, <3>2 DEF PcType, TrapTo, Goto
  <2>2. LocalType'
    BY <1>33 DEF LocalType, AllCalls, UserCalls, Syscall, At, Goto, TrapTo, EntryOf
  <2> QED
    BY <1>33, <2>1, <2>2 DEF TableType, CpuType, RestType, Syscall
<1>34. ASSUME NEW c \in CPUs, DeviceIrq(c) PROVE Data'
  BY <1>34 DEF TableType, PcType, LocalType, CpuType, RestType, States, PCs, AllCalls, Panics, DeviceIrq
<1>35. ASSUME NEW c \in CPUs, IntrAcquire(c) PROVE Data'
  BY <1>35 DEF TableType, PcType, LocalType, CpuType, RestType, States, PCs, AllCalls, Panics, IntrAcquire, IntrAt, pushcli
<1>36. ASSUME NEW c \in CPUs, IntrWakeup(c) PROVE Data'
  BY <1>36 DEF TableType, PcType, LocalType, CpuType, RestType, States, PCs, AllCalls, Panics, IntrWakeup, IntrAt, Critical, Woken
<1>37. ASSUME NEW c \in CPUs, IntrReturn(c) PROVE Data'
  <2>1. PcType'
    BY <1>37 DEF PcType, PCs, IntrReturn, Goto, IntrAt, InUser
  <2>2. CpuType'
    BY <1>37 DEF CpuType, IntrReturn, Goto, IntrAt, InUser
  <2> QED
    BY <1>37, <2>1, <2>2 DEF TableType, LocalType, RestType, IntrReturn
<1>38. ASSUME NEW c \in CPUs, NEW r \in Reqs, IntrUsed(c, r) PROVE Data'
  BY <1>38 DEF TableType, PcType, LocalType, CpuType, RestType, States, PCs, AllCalls, Panics, IntrUsed, IntrAt
<1>39. ASSUME NEW c \in CPUs, Panic(c) PROVE Data'
  BY <1>39 DEF TableType, PcType, LocalType, CpuType, RestType, States, PCs, AllCalls, Panics, Panic, AlreadyHeld, InvalidRelease, OtherPanic, UserException
<1>40. ASSUME NEW r \in Reqs, DeviceDone(r) PROVE Data'
  BY <1>40 DEF TableType, PcType, LocalType, CpuType, RestType, States, PCs, AllCalls, Panics, DeviceDone
<1> QED BY <1>1, <1>2, <1>3, <1>4, <1>5, <1>6, <1>7, <1>8, <1>9, <1>10, <1>11, <1>12, <1>13, <1>14, <1>15, <1>16, <1>17, <1>18, <1>19, <1>20, <1>21, <1>22, <1>23, <1>24, <1>25, <1>26, <1>27, <1>28, <1>29, <1>30, <1>31, <1>32, <1>33, <1>34, <1>35, <1>36, <1>37, <1>38, <1>39, <1>40 DEF Next, CpuStep, TaskStep, SchedStep, KernelStep, IntrStep

LEMMA LockStep ==
  ASSUME TypeOK, CliBalanced, Next
  PROVE  CliType' /\ LockType' /\ CliBalanced'
<1> USE CPUsAssumption DEF table, local, cpuv, cli, locks, rest
<1> DEFINE Goal == CliType /\ LockType /\ CliBalanced
<1>1. ASSUME NEW c \in CPUs, SchedTop(c) PROVE Goal'
  BY <1>1 DEF TypeOK, CliType, LockType, CliBalanced, SchedTop, SchedAt
<1>2. ASSUME NEW c \in CPUs, SchedAcquire(c) PROVE Goal'
  BY <1>2, Take DEF TypeOK, SchedAcquire, acquire, Takes
<1>3. ASSUME NEW c \in CPUs, SchedDispatch(c) PROVE Goal'
  BY <1>3 DEF TypeOK, CliType, LockType, CliBalanced, SchedDispatch, SchedAt, First, Ahead
<1>4. ASSUME NEW c \in CPUs, SchedRelease(c) PROVE Goal'
  BY <1>4, GivePopcli DEF TypeOK, SchedRelease, release, Gives
<1>5. ASSUME NEW c \in CPUs, NEW p \in Procs, Sigcheck(c, p) PROVE Goal'
  BY <1>5 DEF TypeOK, CliType, LockType, CliBalanced, Sigcheck, At, Goto, Forget
<1>6. ASSUME NEW c \in CPUs, NEW p \in Procs, Forkret(c, p) PROVE Goal'
  <2>1. cli_depth' \in [CPUs -> Nat] /\ LockType' /\ CliBalanced'
    BY <1>6, Give DEF TypeOK, Forkret, Gives
  <2>2. irq' \in [CPUs -> BOOLEAN] /\ intr_enabled' \in [CPUs -> BOOLEAN]
    BY <1>6, Zenon DEF Forkret, TypeOK, CliType
  <2> QED BY <2>1, <2>2 DEF CliType
<1>7. ASSUME NEW c \in CPUs, NEW p \in Procs, YieldAcquire(c, p) PROVE Goal'
  BY <1>7, Take DEF TypeOK, YieldAcquire, acquire, Takes
<1>8. ASSUME NEW c \in CPUs, NEW p \in Procs, YieldSwitch(c, p) PROVE Goal'
  BY <1>8 DEF TypeOK, CliType, LockType, CliBalanced, YieldSwitch, At, Goto, SwitchToScheduler
<1>9. ASSUME NEW c \in CPUs, NEW p \in Procs, YieldResume(c, p) PROVE Goal'
  BY <1>9, GivePopcli DEF TypeOK, YieldResume, release, Gives
<1>10. ASSUME NEW c \in CPUs, NEW p \in Procs, NewprocSlot(c, p) PROVE Goal'
  BY <1>10 DEF TypeOK, CliType, LockType, CliBalanced, NewprocSlot, At, Goto, Critical, First
<1>11. ASSUME NEW c \in CPUs, NEW p \in Procs, NewprocPid(c, p) PROVE Goal'
  BY <1>11 DEF TypeOK, CliType, LockType, CliBalanced, NewprocPid, At, Goto
<1>12. ASSUME NEW c \in CPUs, NEW p \in Procs, NewprocMem(c, p) PROVE Goal'
  BY <1>12 DEF TypeOK, CliType, LockType, CliBalanced, NewprocMem, At, Goto
<1>13. ASSUME NEW c \in CPUs, NEW p \in Procs, NewprocNoMem(c, p) PROVE Goal'
  BY <1>13, Take DEF TypeOK, NewprocNoMem, Takes
<1>14. ASSUME NEW c \in CPUs, NEW p \in Procs, ForkPublish(c, p) PROVE Goal'
  BY <1>14 DEF TypeOK, CliType, LockType, CliBalanced, ForkPublish, At, Goto, Critical
<1>15. ASSUME NEW c \in CPUs, NEW p \in Procs, ForkFail(c, p) PROVE Goal'
  BY <1>15, Take DEF TypeOK, ForkFail, acquire, Takes
<1>16. ASSUME NEW c \in CPUs, NEW p \in Procs, SleepAcquire(c, p) PROVE Goal'
  BY <1>16, Take DEF TypeOK, SleepAcquire, acquire, Takes
<1>17. ASSUME NEW c \in CPUs, NEW p \in Procs, SleepRelease(c, p) PROVE Goal'
  BY <1>17, GivePopcli DEF TypeOK, SleepRelease, Gives
<1>18. ASSUME NEW c \in CPUs, NEW p \in Procs, SleepSwitch(c, p) PROVE Goal'
  BY <1>18 DEF TypeOK, CliType, LockType, CliBalanced, SleepSwitch, At, Goto, SwitchToScheduler
<1>19. ASSUME NEW c \in CPUs, NEW p \in Procs, SleepResume(c, p) PROVE Goal'
  BY <1>19, GivePopcli DEF TypeOK, SleepResume, release, Gives
<1>20. ASSUME NEW c \in CPUs, NEW p \in Procs, SleepRelock(c, p) PROVE Goal'
  BY <1>20, Take DEF TypeOK, SleepRelock, Takes
<1>21. ASSUME NEW c \in CPUs, NEW p \in Procs, SleepSigcheck(c, p) PROVE Goal'
  BY <1>21 DEF TypeOK, CliType, LockType, CliBalanced, SleepSigcheck, At, Goto, Forget
<1>22. ASSUME NEW c \in CPUs, NEW p \in Procs, WaitScan(c, p) PROVE Goal'
  BY <1>22, Take DEF TypeOK, WaitScan, acquire, Takes
<1>23. ASSUME NEW c \in CPUs, NEW p \in Procs, Freeproc(c, p) PROVE Goal'
  BY <1>23, GivePopcli DEF TypeOK, Freeproc, release, Gives
<1>24. ASSUME NEW c \in CPUs, NEW p \in Procs, KillPget(c, p) PROVE Goal'
  BY <1>24 DEF TypeOK, CliType, LockType, CliBalanced, KillPget, At, Goto, Critical, First
<1>25. ASSUME NEW c \in CPUs, NEW p \in Procs, KillSig(c, p) PROVE Goal'
  BY <1>25 DEF TypeOK, CliType, LockType, CliBalanced, KillSig, At, Goto
<1>26. ASSUME NEW c \in CPUs, NEW p \in Procs, KillWake(c, p) PROVE Goal'
  BY <1>26 DEF TypeOK, CliType, LockType, CliBalanced, KillWake, At, Goto, Critical
<1>27. ASSUME NEW c \in CPUs, NEW p \in Procs, ExitFree(c, p) PROVE Goal'
  BY <1>27 DEF TypeOK, CliType, LockType, CliBalanced, ExitFree, At, Goto, Forget
<1>28. ASSUME NEW c \in CPUs, NEW p \in Procs, ExitAcquire(c, p) PROVE Goal'
  BY <1>28, Take DEF TypeOK, ExitAcquire, acquire, Takes
<1>29. ASSUME NEW c \in CPUs, NEW p \in Procs, ExitSwitch(c, p) PROVE Goal'
  BY <1>29 DEF TypeOK, CliType, LockType, CliBalanced, ExitSwitch, At, Goto, SwitchToScheduler
<1>30. ASSUME NEW c \in CPUs, NEW p \in Procs, DiskSubmit(c, p) PROVE Goal'
  BY <1>30, Take DEF TypeOK, DiskSubmit, Takes
<1>31. ASSUME NEW c \in CPUs, NEW p \in Procs, DiskDone(c, p) PROVE Goal'
  <2>1. CASE rstate[req[p]] = "done"
    BY <1>31, <2>1, GivePopcli DEF TypeOK, DiskDone, Gives
  <2>2. CASE rstate[req[p]] # "done"
    BY <1>31, <2>2 DEF TypeOK, DiskDone, CliType, LockType, CliBalanced
  <2> QED BY <2>1, <2>2
<1>32. ASSUME NEW c \in CPUs, NEW p \in Procs, TimerIrq(c, p) PROVE Goal'
  BY <1>32 DEF TypeOK, CliType, LockType, CliBalanced, TimerIrq, At, Goto, TrapTo
<1>33. ASSUME NEW c \in CPUs, NEW p \in Procs, Syscall(c, p) PROVE Goal'
  BY <1>33 DEF TypeOK, CliType, LockType, CliBalanced, Syscall, At, Goto, TrapTo, EntryOf
<1>34. ASSUME NEW c \in CPUs, DeviceIrq(c) PROVE Goal'
  BY <1>34 DEF TypeOK, CliType, LockType, CliBalanced, DeviceIrq
<1>35. ASSUME NEW c \in CPUs, IntrAcquire(c) PROVE Goal'
  BY <1>35, Take DEF TypeOK, IntrAcquire, Takes
<1>36. ASSUME NEW c \in CPUs, IntrWakeup(c) PROVE Goal'
  BY <1>36 DEF TypeOK, CliType, LockType, CliBalanced, IntrWakeup, IntrAt, Critical, Woken
<1>37. ASSUME NEW c \in CPUs, IntrReturn(c) PROVE Goal'
  <2>1. cli_depth' \in [CPUs -> Nat] /\ LockType' /\ CliBalanced'
    BY <1>37, Give DEF TypeOK, IntrReturn, Gives
  <2>2. irq' \in [CPUs -> BOOLEAN] /\ intr_enabled' \in [CPUs -> BOOLEAN]
    BY <1>37, Zenon DEF IntrReturn, TypeOK, CliType
  <2> QED BY <2>1, <2>2 DEF CliType
<1>38. ASSUME NEW c \in CPUs, NEW r \in Reqs, IntrUsed(c, r) PROVE Goal'
  BY <1>38 DEF TypeOK, CliType, LockType, CliBalanced, IntrUsed, IntrAt
<1>39. ASSUME NEW c \in CPUs, Panic(c) PROVE Goal'
  BY <1>39 DEF TypeOK, CliType, LockType, CliBalanced, Panic, AlreadyHeld, InvalidRelease, OtherPanic
<1>40. ASSUME NEW r \in Reqs, DeviceDone(r) PROVE Goal'
  BY <1>40 DEF TypeOK, CliType, LockType, CliBalanced, DeviceDone
<1> QED BY <1>1, <1>2, <1>3, <1>4, <1>5, <1>6, <1>7, <1>8, <1>9, <1>10, <1>11, <1>12, <1>13, <1>14, <1>15, <1>16, <1>17, <1>18, <1>19, <1>20, <1>21, <1>22, <1>23, <1>24, <1>25, <1>26, <1>27, <1>28, <1>29, <1>30, <1>31, <1>32, <1>33, <1>34, <1>35, <1>36, <1>37, <1>38, <1>39, <1>40 DEF Next, CpuStep, TaskStep, SchedStep, KernelStep, IntrStep

\* Type correctness, and with it the balance of pushcli() and popcli(): the
\* nesting count of a CPU is the number of locks the CPU holds, so popcli()'s
\* count never goes below 0 and IRQs are unmasked exactly when the last lock
\* is given back, wherever cswitch() has carried the lock.
THEOREM TypeCorrect == Spec => [](TypeOK /\ CliBalanced)
<1>1. Init => TypeOK /\ CliBalanced
  BY NPROCAssumption, CPUsAssumption
  DEF Init, TypeOK, TableType, PcType, LocalType, CpuType, CliType, LockType,
      RestType, CliBalanced, B, States, PCs, AllCalls, Panics
<1>2. TypeOK /\ CliBalanced /\ [Next]_vars => (TypeOK /\ CliBalanced)'
  <2>1. ASSUME TypeOK, CliBalanced, Next PROVE (TypeOK /\ CliBalanced)'
    BY <2>1, DataStep, LockStep DEF TypeOK
  <2>2. ASSUME TypeOK, CliBalanced, UNCHANGED vars
        PROVE  (TypeOK /\ CliBalanced)'
    BY <2>2
    DEF vars, table, local, cpuv, cli, locks, rest, TypeOK, TableType, PcType,
        LocalType, CpuType, CliType, LockType, RestType, CliBalanced
  <2> QED BY <2>1, <2>2
<1> QED BY <1>1, <1>2, PTL DEF Spec

HIDE DEF Procs, Reqs, NULL, Buf, initproc, DevCpu

-----------------------------------------------------------------------------
(* Processes, CPUs and stacks.                                             *)

USE DEF table, local, cpuv, locks, rest

\* What the proof uses of TypeOK.
Shape ==
    /\ state \in [Procs -> States]
    /\ pc \in [Procs -> PCs]
    /\ obj \in [Procs -> Procs \cup {NULL}]
    /\ kstack \in [Procs -> BOOLEAN]
    /\ cur \in [CPUs -> Procs \cup {NULL}]
    /\ spc \in [CPUs -> {"top", "acquire", "scan"}]
    /\ lk \in CPUs \cup {NULL}
    /\ NULL \notin CPUs
    /\ NULL \notin Procs

LEMMA TypeShape == TypeOK => Shape
BY NPROCAssumption, CPUsAssumption
DEF TypeOK, TableType, PcType, LocalType, CpuType, LockType, Shape, NULL, Procs

\* A process that is on a CPU and not RUNNING is about to leave it, and its
\* CPU holds proctable.lk; a slot that is UNUSED or CREATED is on no CPU.
LEMMA OnCpuStates ==
  ASSUME Shape, SchedInv, NEW c \in CPUs, cur[c] # NULL
  PROVE  /\ cur[c] \in Procs
         /\ state[cur[c]] \in Live \cup {"ZOMBIE"}
         /\ state[cur[c]] # "RUNNING" => lk = c /\ pc[cur[c]] \in SwitchPCs
         /\ pc[cur[c]] \notin SwitchPCs => state[cur[c]] = "RUNNING"
BY DEF Shape, SchedInv, CurState, LockHeld, HoldPCs, SwitchPCs, Live

\* Steps that leave alone what SchedInv speaks of.
LEMMA Quiet ==
  ASSUME SchedInv, UNCHANGED <<state, pc, obj, kstack, cur, spc, lk>>
  PROVE  SchedInv'
BY DEF SchedInv, CurInjective, CurState, LockHeld, Saved, OnCpu, SlotOwned,
       HasStack

\* A step of the process p of CPU c that moves p to a point outside the three
\* switches and outside the sections that own a slot, at most wakes sleepers
\* with the lock free, loses no kernel stack, and takes no lock away from
\* another CPU.
LEMMA Moves ==
  ASSUME Shape, SchedInv, NEW c \in CPUs, NEW p \in Procs, NEW to,
         cur[c] = p, pc[p] \notin SwitchPCs,
         pc' = [pc EXCEPT ![p] = to],
         to \notin SwitchPCs \cup ForkPCs \cup {"freeproc"},
         to \in HoldPCs => lk' = c,
         \A d \in CPUs \ {c} : lk = d => lk' = d,
         \A q \in Procs \ {p} : obj'[q] = obj[q],
         \A q \in Procs : kstack[q] => kstack'[q],
         \A q \in Procs :
             \/ state'[q] = state[q]
             \/ lk = NULL /\ state[q] = "SLEEPING" /\ state'[q] = "RUNNABLE",
         UNCHANGED <<cur, spc>>
  PROVE  SchedInv'
<1> USE DEF Shape, SchedInv
<1>1. \A d \in CPUs \ {c} : cur[d] # NULL =>
         /\ cur[d] # p /\ pc'[cur[d]] = pc[cur[d]] /\ obj'[cur[d]] = obj[cur[d]]
         /\ state'[cur[d]] = state[cur[d]]
  BY OnCpuStates DEF CurInjective
<1>2. pc'[p] = to /\ state[p] = "RUNNING" /\ state'[p] = "RUNNING"
  BY OnCpuStates
<1>3. CurInjective' /\ CurState'
  BY <1>1, <1>2 DEF CurInjective, CurState, SwitchPCs
<1>4. LockHeld'
  BY <1>1, <1>2 DEF LockHeld
<1>5. Saved'
  BY <1>2 DEF Saved, OnCpu, Live
<1>6. SlotOwned'
  BY <1>1, <1>2 DEF SlotOwned
<1>7. HasStack'
  BY <1>1, <1>2 DEF HasStack, SlotOwned, ForkPCs, Live
<1> QED BY <1>3, <1>4, <1>5, <1>6, <1>7

\* A process p that takes proctable.lk and leaves its RUNNING state, possibly
\* waking sleepers: yield(), sleep() and exitproc() up to the switch.  Nobody
\* can be half way through a switch when the lock is free or its own.
LEMMA Leaves ==
  ASSUME Shape, SchedInv, NEW c \in CPUs, NEW p \in Procs, NEW to, NEW new,
         cur[c] = p, pc[p] \notin SwitchPCs, lk \in {NULL, c}, lk' = c,
         pc' = [pc EXCEPT ![p] = to],
         \/ to = "y_switch" /\ new = "RUNNABLE"
         \/ to = "s_switch" /\ new = "SLEEPING"
         \/ to = "x_switch" /\ new = "ZOMBIE",
         state'[p] = new,
         \A q \in Procs \ {p} :
             \/ state'[q] = state[q]
             \/ state[q] = "SLEEPING" /\ state'[q] = "RUNNABLE",
         UNCHANGED <<obj, kstack, cur, spc>>
  PROVE  SchedInv'
<1> USE DEF Shape, SchedInv
<1>1. \A d \in CPUs \ {c} : cur[d] # NULL =>
         /\ cur[d] \in Procs \ {p} /\ pc'[cur[d]] = pc[cur[d]]
         /\ state[cur[d]] = "RUNNING" /\ state'[cur[d]] = "RUNNING"
  BY OnCpuStates DEF CurInjective
<1>2. pc'[p] = to /\ state[p] = "RUNNING"
  BY OnCpuStates
<1>3. CurInjective' /\ CurState'
  BY <1>1, <1>2 DEF CurInjective, CurState, SwitchPCs
<1>4. LockHeld'
  BY <1>1, <1>2 DEF LockHeld
<1>5. Saved'
  BY <1>2 DEF Saved, OnCpu, Live
<1>6. \A q \in Procs : state[q] \in {"CREATED", "ZOMBIE"} => state'[q] = state[q]
  BY <1>2
<1>7. SlotOwned'
  BY <1>1, <1>2, <1>6 DEF SlotOwned, ForkPCs
<1>8. HasStack'
  BY <1>1, <1>2, <1>6 DEF HasStack, SlotOwned, ForkPCs, Live
<1> QED BY <1>3, <1>4, <1>5, <1>7, <1>8

\* The switch to the scheduler: the process is off its stack, and the lock it
\* took is now the scheduler's.
LEMMA Switches ==
  ASSUME Shape, SchedInv, NEW c \in CPUs, NEW p \in Procs,
         NEW from \in SwitchPCs, NEW to \in ResumePCs,
         At(c, p, from), SwitchToScheduler(c, p, to)
  PROVE  SchedInv'
<1> USE DEF Shape, SchedInv, At, SwitchToScheduler, Goto
<1>1. lk = c /\ state[p] # "RUNNING"
  BY OnCpuStates DEF LockHeld, HoldPCs, CurState, SwitchPCs
<1>2. \A d \in CPUs \ {c} : cur'[d] = cur[d] /\ cur[d] # p
  BY DEF CurInjective
<1>3. CurInjective' /\ CurState'
  BY <1>2 DEF CurInjective, CurState
<1>4. LockHeld'
  BY <1>1, <1>2 DEF LockHeld
<1>5. Saved'
  <2> SUFFICES ASSUME NEW q \in Procs, state[q] \in Live \cup {"ZOMBIE"},
                      ~OnCpu(q)'
               PROVE  state[q] # "RUNNING" /\ pc'[q] \in ResumePCs
    BY DEF Saved
  <2>1. CASE q = p
    BY <1>1, <2>1
  <2>2. CASE q # p
    <3>1. ~OnCpu(q)
      BY <2>2 DEF OnCpu
    <3> QED BY <2>2, <3>1 DEF Saved
  <2> QED BY <2>1, <2>2
<1>6. SlotOwned'
  BY <1>2 DEF SlotOwned
<1>7. HasStack'
  BY <1>2 DEF HasStack, SlotOwned, CurState, ForkPCs, SwitchPCs, ResumePCs
<1> QED BY <1>3, <1>4, <1>5, <1>6, <1>7

\* wakeup() and the end of killproc(): with the lock free, a process on a CPU
\* is RUNNING, so whoever is woken has been saved.
LEMMA Wakes ==
  ASSUME Shape, SchedInv, lk = NULL,
         \A q \in Procs :
             \/ state'[q] = state[q]
             \/ state[q] = "SLEEPING" /\ state'[q] = "RUNNABLE",
         UNCHANGED <<pc, obj, kstack, cur, spc, lk>>
  PROVE  SchedInv'
<1> USE DEF Shape, SchedInv
<1>1. \A d \in CPUs : cur[d] # NULL =>
         /\ cur[d] \in Procs /\ state'[cur[d]] = state[cur[d]]
  BY OnCpuStates
<1>2. CurInjective' /\ CurState'
  BY <1>1 DEF CurInjective, CurState
<1>3. LockHeld'
  BY DEF LockHeld
<1>4. Saved'
  BY DEF Saved, OnCpu, Live
<1>5. SlotOwned'
  BY DEF SlotOwned
<1>6. HasStack'
  BY DEF HasStack, Live
<1> QED BY <1>2, <1>3, <1>4, <1>5, <1>6

\* schedule() outside its scan.
LEMMA Schedules ==
  ASSUME Shape, SchedInv, NEW c \in CPUs, cur[c] = NULL,
         \/ lk \in {NULL, c} /\ lk' = c
         \/ spc'[c] # "scan" /\ \A d \in CPUs \ {c} : lk = d => lk' = d,
         \A d \in CPUs \ {c} : spc'[d] = spc[d],
         UNCHANGED <<state, pc, obj, kstack, cur>>
  PROVE  SchedInv'
<1> USE DEF Shape, SchedInv
<1>1. CurInjective' /\ CurState'
  BY DEF CurInjective, CurState
<1>2. LockHeld'
  BY DEF LockHeld
<1>3. Saved' /\ SlotOwned' /\ HasStack'
  BY DEF Saved, OnCpu, SlotOwned, HasStack
<1> QED BY <1>1, <1>2, <1>3

\* The process schedule() enters is on no CPU: a RUNNABLE process on a CPU has
\* not left it yet, and its CPU would hold the lock.
LEMMA Dispatches ==
  ASSUME Shape, SchedInv, NEW c \in CPUs, SchedDispatch(c)
  PROVE  SchedInv'
<1> USE DEF Shape, SchedInv
<1>1. PICK p \in Procs : /\ state[p] = "RUNNABLE"
                         /\ state' = [state EXCEPT ![p] = "RUNNING"]
                         /\ cur' = [cur EXCEPT ![c] = p]
  BY DEF SchedDispatch, First, Ahead
<1>2. cur[c] = NULL /\ spc[c] = "scan" /\ UNCHANGED <<pc, obj, kstack, spc, lk>>
  BY DEF SchedDispatch, SchedAt
<1>3. lk = c
  BY <1>2 DEF LockHeld
<1>4. \A d \in CPUs : cur[d] # p
  BY <1>1, <1>2, <1>3, OnCpuStates
<1>5. pc[p] \in ResumePCs
  BY <1>1, <1>4 DEF Saved, OnCpu, Live
<1>6. CurInjective'
  BY <1>1, <1>2, <1>4 DEF CurInjective
<1>7. CurState'
  BY <1>1, <1>2, <1>4, <1>5 DEF CurState, ResumePCs, SwitchPCs
<1>8. LockHeld'
  BY <1>1, <1>2, <1>3 DEF LockHeld
<1>9. Saved'
  <2> SUFFICES ASSUME NEW q \in Procs, state'[q] \in Live \cup {"ZOMBIE"},
                      ~OnCpu(q)'
               PROVE  state'[q] # "RUNNING" /\ pc[q] \in ResumePCs
    BY <1>2 DEF Saved
  <2>1. q # p /\ ~OnCpu(q)
    BY <1>1, <1>2 DEF OnCpu
  <2> QED BY <1>1, <2>1 DEF Saved
<1>10. \A q \in Procs : state[q] \in {"CREATED", "ZOMBIE"} => state'[q] = state[q]
  BY <1>1
<1>11. SlotOwned'
  BY <1>1, <1>2, <1>5, <1>10 DEF SlotOwned, ForkPCs, ResumePCs
<1>12. HasStack'
  BY <1>1, <1>2, <1>5, <1>10 DEF HasStack, ResumePCs, Live
<1> QED BY <1>6, <1>7, <1>8, <1>9, <1>11, <1>12

\* A step of fork() between taking a slot and publishing it: the slot stays
\* CREATED and is nobody else's.
LEMMA Forks ==
  ASSUME Shape, SchedInv, NEW c \in CPUs, NEW p \in Procs, NEW to,
         cur[c] = p, pc[p] \in ForkPCs,
         \/ to \in ForkPCs \ {"f_publish"} /\ lk' = lk
         \/ to = "freeproc" /\ lk = NULL /\ lk' = c,
         pc' = [pc EXCEPT ![p] = to],
         \A q \in Procs : kstack[q] => kstack'[q],
         UNCHANGED <<state, obj, cur, spc>>
  PROVE  SchedInv'
<1> USE DEF Shape, SchedInv
<1>1. \A d \in CPUs \ {c} : cur[d] # NULL =>
         cur[d] # p /\ pc'[cur[d]] = pc[cur[d]]
  BY DEF CurInjective
<1>2. /\ pc'[p] = to /\ to \notin SwitchPCs
      /\ pc[p] \notin SwitchPCs
      /\ to \in HoldPCs => lk' = c
  BY DEF ForkPCs, SwitchPCs, HoldPCs, ResumePCs
<1>3. CurInjective' /\ CurState'
  BY <1>1, <1>2 DEF CurInjective, CurState, SwitchPCs
<1>4. LockHeld'
  BY <1>1, <1>2 DEF LockHeld
<1>5. Saved'
  BY DEF Saved, OnCpu
<1>6. SlotOwned'
  BY <1>1, <1>2 DEF SlotOwned
<1>7. HasStack'
  BY <1>1, <1>2 DEF HasStack, SlotOwned, CurState, ForkPCs
<1> QED BY <1>3, <1>4, <1>5, <1>6, <1>7

\* newproc() takes an UNUSED slot: it is on no CPU and no other CPU owns it.
LEMMA TakesSlot ==
  ASSUME Shape, SchedInv, NEW c \in CPUs, NEW p \in Procs, NEW n \in Procs,
         cur[c] = p, pc[p] = "f_slot", state[n] = "UNUSED",
         pc' = [pc EXCEPT ![p] = "f_pid"],
         state' = [state EXCEPT ![n] = "CREATED"],
         obj' = [obj EXCEPT ![p] = n],
         UNCHANGED <<kstack, cur, spc, lk>>
  PROVE  SchedInv'
<1> USE DEF Shape, SchedInv
<1>1. \A d \in CPUs : cur[d] # NULL => cur[d] # n
  BY OnCpuStates DEF Live
<1>2. \A d \in CPUs \ {c} : cur[d] # NULL =>
         /\ cur[d] # p /\ pc'[cur[d]] = pc[cur[d]] /\ obj'[cur[d]] = obj[cur[d]]
         /\ state'[cur[d]] = state[cur[d]]
  BY <1>1 DEF CurInjective
<1>3. pc'[p] = "f_pid" /\ obj'[p] = n /\ state'[p] = state[p] /\ state'[n] = "CREATED"
  BY <1>1
<1>4. CurInjective' /\ CurState'
  BY <1>2, <1>3 DEF CurInjective, CurState, SwitchPCs
<1>5. LockHeld'
  BY <1>2, <1>3 DEF LockHeld, HoldPCs, SwitchPCs, ResumePCs
<1>6. Saved'
  BY DEF Saved, OnCpu, Live
<1>7. SlotOwned'
  BY <1>2, <1>3 DEF SlotOwned, ForkPCs
<1>8. HasStack'
  BY <1>2, <1>3 DEF HasStack, Live, SlotOwned, ForkPCs, CurState
<1> QED BY <1>4, <1>5, <1>6, <1>7, <1>8

\* newproc() fills the slot: the new process has a stack and will start in
\* forkret.
LEMMA FillsSlot ==
  ASSUME Shape, SchedInv, NEW c \in CPUs, NEW p \in Procs, NewprocMem(c, p)
  PROVE  SchedInv'
<1> USE DEF Shape, SchedInv, NewprocMem, At
<1> DEFINE n == obj[p]
<1>1. n \in Procs /\ state[n] = "CREATED"
  BY DEF SlotOwned, ForkPCs
<1>2. \A d \in CPUs : cur[d] # NULL => cur[d] # n
  BY <1>1, OnCpuStates DEF Live
<1>3. \A d \in CPUs \ {c} : cur[d] # NULL =>
         cur[d] # p /\ pc'[cur[d]] = pc[cur[d]]
  BY <1>2 DEF CurInjective
<1>4. pc'[p] = "f_publish" /\ pc'[n] = "forkret" /\ kstack'[n]
  BY <1>1, <1>2
<1>5. CurInjective' /\ CurState'
  BY <1>3, <1>4 DEF CurInjective, CurState, SwitchPCs
<1>6. LockHeld'
  BY <1>3, <1>4 DEF LockHeld, HoldPCs, SwitchPCs, ResumePCs
<1>7. Saved'
  BY <1>1 DEF Saved, OnCpu, Live
<1>8. SlotOwned'
  BY <1>3, <1>4 DEF SlotOwned, ForkPCs
<1>9. HasStack'
  <2>1. \A q \in Procs : kstack[q] => kstack'[q]
    BY <1>1
  <2>2. ASSUME NEW d \in CPUs \ {c}, cur[d] # NULL, pc[cur[d]] = "f_publish"
        PROVE  obj[cur[d]] # p /\ obj[cur[d]] # n /\ obj[cur[d]] \in Procs
    BY <2>2, OnCpuStates DEF SlotOwned, ForkPCs, Live
  <2> QED BY <1>3, <1>4, <2>1, <2>2, ZenonT(30) DEF HasStack
<1> QED BY <1>5, <1>6, <1>7, <1>8, <1>9

\* fork() publishes the slot: what becomes RUNNABLE is on no CPU, has a stack
\* and starts in forkret, and the CPU gives the slot up.
LEMMA Publishes ==
  ASSUME Shape, SchedInv, NEW c \in CPUs, NEW p \in Procs, ForkPublish(c, p)
  PROVE  SchedInv'
<1> USE DEF Shape, SchedInv, ForkPublish, At, Goto, Critical
<1> DEFINE n == obj[p]
<1>1. n \in Procs /\ state[n] = "CREATED" /\ kstack[n] /\ pc[n] = "forkret"
  BY DEF SlotOwned, ForkPCs, HasStack
<1>2. \A d \in CPUs : cur[d] # NULL => cur[d] # n
  BY <1>1, OnCpuStates DEF Live
<1>3. \A d \in CPUs \ {c} : cur[d] # NULL =>
         /\ cur[d] # p /\ pc'[cur[d]] = pc[cur[d]]
         /\ state'[cur[d]] = state[cur[d]]
  BY <1>2 DEF CurInjective
<1>4. pc'[p] = "sigcheck" /\ pc'[n] = "forkret" /\ state'[p] = state[p]
  BY <1>1, <1>2
<1>5. CurInjective' /\ CurState'
  BY <1>3, <1>4 DEF CurInjective, CurState, SwitchPCs
<1>6. LockHeld'
  BY <1>3, <1>4 DEF LockHeld, HoldPCs, SwitchPCs, ResumePCs
<1>7. Saved'
  BY <1>1, <1>4 DEF Saved, OnCpu, Live, ResumePCs
<1>8. ASSUME NEW d \in CPUs \ {c}, cur[d] # NULL,
             pc[cur[d]] \in ForkPCs \cup {"freeproc"}
      PROVE  obj[cur[d]] # n
  BY <1>8 DEF SlotOwned, ForkPCs
<1>9. SlotOwned'
  BY <1>3, <1>4, <1>8 DEF SlotOwned, ForkPCs
<1>10. HasStack'
  BY <1>1, <1>3, <1>4, <1>8 DEF HasStack, Live, SlotOwned, ForkPCs, CurState
<1> QED BY <1>5, <1>6, <1>7, <1>9, <1>10

\* wait() chooses a zombie: the lock was free, so no other CPU is freeing it.
LEMMA ChoosesZombie ==
  ASSUME Shape, SchedInv, NEW c \in CPUs, NEW p \in Procs, NEW z \in Procs,
         cur[c] = p, pc[p] = "w_scan", state[z] = "ZOMBIE",
         lk = NULL, lk' = c,
         pc' = [pc EXCEPT ![p] = "freeproc"],
         obj' = [obj EXCEPT ![p] = z],
         UNCHANGED <<state, kstack, cur, spc>>
  PROVE  SchedInv'
<1> USE DEF Shape, SchedInv
<1>1. \A d \in CPUs \ {c} : cur[d] # NULL =>
         /\ cur[d] # p /\ pc'[cur[d]] = pc[cur[d]] /\ obj'[cur[d]] = obj[cur[d]]
         /\ pc[cur[d]] # "freeproc"
  BY DEF CurInjective, LockHeld, HoldPCs
<1>2. pc'[p] = "freeproc" /\ obj'[p] = z
  OBVIOUS
<1>3. CurInjective' /\ CurState'
  BY <1>1, <1>2 DEF CurInjective, CurState, SwitchPCs
<1>4. LockHeld'
  BY <1>1, <1>2 DEF LockHeld
<1>5. Saved'
  BY DEF Saved, OnCpu
<1>6. SlotOwned'
  BY <1>1, <1>2 DEF SlotOwned, ForkPCs
<1>7. HasStack'
  BY <1>1, <1>2 DEF HasStack, SlotOwned, ForkPCs, CurState
<1> QED BY <1>3, <1>4, <1>5, <1>6, <1>7

\* freeproc(): a zombie still on its stack would have its CPU hold the lock,
\* and the lock is the caller's.
LEMMA Frees ==
  ASSUME Shape, SchedInv, NEW c \in CPUs, NEW p \in Procs, Freeproc(c, p)
  PROVE  SchedInv'
<1> USE DEF Shape, SchedInv, Freeproc, At, release
<1> DEFINE z == obj[p]
<1>1. z \in Procs /\ state[z] \in {"CREATED", "ZOMBIE"} /\ lk = c
  BY DEF SlotOwned
<1>2. \A d \in CPUs : cur[d] # NULL => cur[d] # z
  BY <1>1, OnCpuStates DEF Live, SwitchPCs
<1>3. \A d \in CPUs \ {c} : cur[d] # NULL =>
         /\ cur[d] # p /\ pc'[cur[d]] = pc[cur[d]]
         /\ state'[cur[d]] = state[cur[d]]
  BY <1>2 DEF CurInjective
<1>4. pc'[p] = "sigcheck" /\ pc'[z] = "none" /\ state'[p] = state[p]
  BY <1>1, <1>2
<1>5. CurInjective' /\ CurState'
  BY <1>3, <1>4 DEF CurInjective, CurState, SwitchPCs
<1>6. LockHeld'
  BY <1>1, <1>3, <1>4 DEF LockHeld, HoldPCs, SwitchPCs, ResumePCs
<1>7. Saved'
  BY <1>1, <1>4 DEF Saved, OnCpu, Live
<1>8. ASSUME NEW d \in CPUs \ {c}, cur[d] # NULL,
             pc[cur[d]] \in ForkPCs \cup {"freeproc"}
      PROVE  obj[cur[d]] # z
  BY <1>8 DEF SlotOwned
<1>9. SlotOwned'
  BY <1>3, <1>4, <1>8 DEF SlotOwned, ForkPCs
<1>10. HasStack'
  BY <1>1, <1>3, <1>4, <1>8 DEF HasStack, Live, SlotOwned, ForkPCs, CurState
<1> QED BY <1>5, <1>6, <1>7, <1>9, <1>10

LEMMA SchedInvStep ==
  ASSUME Shape, SchedInv, Next
  PROVE  SchedInv'
<1> USE DEF Shape, SwitchPCs, ForkPCs, HoldPCs, ResumePCs
<1>1. ASSUME NEW c \in CPUs, SchedTop(c)
      PROVE  SchedInv'
  BY <1>1, Schedules DEF SchedTop, SchedAt
<1>2. ASSUME NEW c \in CPUs, SchedAcquire(c)
      PROVE  SchedInv'
  BY <1>2, Schedules DEF SchedAcquire, SchedAt, acquire
<1>3. ASSUME NEW c \in CPUs, SchedDispatch(c)
      PROVE  SchedInv'
  BY <1>3, Dispatches
<1>4. ASSUME NEW c \in CPUs, SchedRelease(c)
      PROVE  SchedInv'
  BY <1>4, Schedules DEF SchedRelease, SchedAt, release
<1>5. ASSUME NEW c \in CPUs, NEW p \in Procs, Sigcheck(c, p)
      PROVE  SchedInv'
  BY <1>5, Moves DEF Sigcheck, At, Goto, Forget
<1>6. ASSUME NEW c \in CPUs, NEW p \in Procs, Forkret(c, p)
      PROVE  SchedInv'
  BY <1>6, Moves DEF Forkret, At, Goto
<1>7. ASSUME NEW c \in CPUs, NEW p \in Procs, YieldResume(c, p)
      PROVE  SchedInv'
  BY <1>7, Moves DEF YieldResume, At, Goto, release
<1>8. ASSUME NEW c \in CPUs, NEW p \in Procs, SleepAcquire(c, p)
      PROVE  SchedInv'
  BY <1>8, Moves DEF SleepAcquire, At, Goto, acquire
<1>9. ASSUME NEW c \in CPUs, NEW p \in Procs, SleepResume(c, p)
      PROVE  SchedInv'
  BY <1>9, Moves DEF SleepResume, At, Goto, release
<1>10. ASSUME NEW c \in CPUs, NEW p \in Procs, SleepRelock(c, p)
      PROVE  SchedInv'
  BY <1>10, Moves DEF SleepRelock, At, Goto
<1>11. ASSUME NEW c \in CPUs, NEW p \in Procs, SleepSigcheck(c, p)
      PROVE  SchedInv'
  BY <1>11, Moves DEF SleepSigcheck, At, Goto, Forget
<1>12. ASSUME NEW c \in CPUs, NEW p \in Procs, KillPget(c, p)
      PROVE  SchedInv'
  <2>1. \A q \in Procs \ {p} : obj'[q] = obj[q]
    BY <1>12 DEF KillPget
  <2>2. cur[c] = p /\ pc[p] = "k_pget" /\ UNCHANGED <<state, kstack, cur, spc, lk>>
    BY <1>12 DEF KillPget, At, Critical
  <2>3. CASE Goto(p, "sigcheck")
    BY <2>1, <2>2, <2>3, Moves DEF Goto
  <2>4. CASE Goto(p, "k_sig")
    BY <2>1, <2>2, <2>4, Moves DEF Goto
  <2> QED BY <1>12, <2>3, <2>4 DEF KillPget
<1>13. ASSUME NEW c \in CPUs, NEW p \in Procs, KillSig(c, p)
      PROVE  SchedInv'
  BY <1>13, Moves DEF KillSig, At, Goto
<1>14. ASSUME NEW c \in CPUs, NEW p \in Procs, KillWake(c, p)
      PROVE  SchedInv'
  BY <1>14, Moves DEF KillWake, At, Goto, Critical
<1>15. ASSUME NEW c \in CPUs, NEW p \in Procs, ExitFree(c, p)
      PROVE  SchedInv'
  BY <1>15, Moves DEF ExitFree, At, Goto, Forget
<1>16. ASSUME NEW c \in CPUs, NEW p \in Procs, DiskSubmit(c, p)
      PROVE  SchedInv'
  BY <1>16, Moves DEF DiskSubmit, At, Goto
<1>17. ASSUME NEW c \in CPUs, NEW p \in Procs, DiskDone(c, p)
      PROVE  SchedInv'
  BY <1>17, Moves DEF DiskDone, At, Goto
<1>18. ASSUME NEW c \in CPUs, NEW p \in Procs, TimerIrq(c, p)
      PROVE  SchedInv'
  BY <1>18, Moves DEF TimerIrq, At, Goto, TrapTo
<1>19. ASSUME NEW c \in CPUs, NEW p \in Procs, Syscall(c, p)
      PROVE  SchedInv'
  <2>1. PICK s \in AllCalls \ {"abort"} : TrapTo(c, p, EntryOf(s))
    BY <1>19, CallsAssumption DEF Syscall, UserCalls
  <2>2. EntryOf(s) \in {"x_free", "f_slot", "w_scan", "k_pget", "k_sig", "d_submit", "sigcheck"}
    BY <2>1 DEF EntryOf, AllCalls
  <2>3. \A q \in Procs \ {p} : obj'[q] = obj[q]
    BY <1>19 DEF Syscall
  <2>4. cur[c] = p /\ pc[p] = "user" /\ UNCHANGED <<state, kstack, cur, spc, lk>>
    BY <1>19 DEF Syscall, TrapTo, At
  <2>5. pc' = [pc EXCEPT ![p] = EntryOf(s)]
    BY <2>1 DEF TrapTo, Goto
  <2>6. /\ pc[p] \notin SwitchPCs
        /\ EntryOf(s) \notin SwitchPCs \cup ForkPCs \cup {"freeproc"} \cup HoldPCs
    BY <2>2, <2>4 DEF SwitchPCs, ForkPCs, HoldPCs
  <2> QED BY <2>3, <2>4, <2>5, <2>6, Moves
<1>20. ASSUME NEW c \in CPUs, NEW p \in Procs, YieldAcquire(c, p)
      PROVE  SchedInv'
  BY <1>20, Leaves DEF YieldAcquire, At, Goto, acquire
<1>21. ASSUME NEW c \in CPUs, NEW p \in Procs, SleepRelease(c, p)
      PROVE  SchedInv'
  <2>1. lk = c
    BY <1>21 DEF SleepRelease, At, SchedInv, LockHeld
  <2> QED BY <1>21, <2>1, Leaves DEF SleepRelease, FallAsleep, At, Goto
<1>22. ASSUME NEW c \in CPUs, NEW p \in Procs, ExitAcquire(c, p)
      PROVE  SchedInv'
  BY <1>22, Leaves DEF ExitAcquire, At, Goto, acquire, Woken
<1>23. ASSUME NEW c \in CPUs, NEW p \in Procs, YieldSwitch(c, p)
      PROVE  SchedInv'
  BY <1>23, Switches DEF YieldSwitch
<1>24. ASSUME NEW c \in CPUs, NEW p \in Procs, SleepSwitch(c, p)
      PROVE  SchedInv'
  BY <1>24, Switches DEF SleepSwitch
<1>25. ASSUME NEW c \in CPUs, NEW p \in Procs, ExitSwitch(c, p)
      PROVE  SchedInv'
  BY <1>25, Switches DEF ExitSwitch
<1>26. ASSUME NEW c \in CPUs, NEW p \in Procs, NewprocSlot(c, p)
      PROVE  SchedInv'
  <2>1. CASE {q \in Procs : state[q] = "UNUSED"} = {}
    BY <1>26, <2>1, Moves DEF NewprocSlot, At, Goto, Critical, First
  <2>2. CASE {q \in Procs : state[q] = "UNUSED"} # {}
    BY <1>26, <2>2, TakesSlot DEF NewprocSlot, At, Goto, Critical, First
  <2> QED BY <2>1, <2>2
<1>27. ASSUME NEW c \in CPUs, NEW p \in Procs, NewprocPid(c, p)
      PROVE  SchedInv'
  BY <1>27, Forks DEF NewprocPid, At, Goto
<1>28. ASSUME NEW c \in CPUs, NEW p \in Procs, NewprocMem(c, p)
      PROVE  SchedInv'
  BY <1>28, FillsSlot
<1>29. ASSUME NEW c \in CPUs, NEW p \in Procs, NewprocNoMem(c, p)
      PROVE  SchedInv'
  <2>1. \A q \in Procs : kstack[q] => kstack'[q]
    BY <1>29 DEF NewprocNoMem
  <2>2. CASE Goto(p, "sigcheck")
    BY <1>29, <2>1, <2>2, Moves DEF NewprocNoMem, At, Goto
  <2>3. CASE Goto(p, "f_fail")
    BY <1>29, <2>1, <2>3, Forks DEF NewprocNoMem, At, Goto
  <2> QED BY <1>29, <2>2, <2>3 DEF NewprocNoMem
<1>30. ASSUME NEW c \in CPUs, NEW p \in Procs, ForkPublish(c, p)
      PROVE  SchedInv'
  BY <1>30, Publishes
<1>31. ASSUME NEW c \in CPUs, NEW p \in Procs, ForkFail(c, p)
      PROVE  SchedInv'
  BY <1>31, Forks DEF ForkFail, At, Goto, acquire
<1>32. ASSUME NEW c \in CPUs, NEW p \in Procs, WaitScan(c, p)
      PROVE  SchedInv'
  <2>1. CASE Waited(p) = {}
    BY <1>32, <2>1, Leaves DEF WaitScan, FallAsleep, At, Goto, acquire, First
  <2>2. CASE Waited(p) # {}
    BY <1>32, <2>2, ChoosesZombie DEF WaitScan, Waited, At, Goto, acquire, First
  <2> QED BY <2>1, <2>2
<1>33. ASSUME NEW c \in CPUs, NEW p \in Procs, Freeproc(c, p)
      PROVE  SchedInv'
  BY <1>33, Frees
<1>34. ASSUME NEW c \in CPUs, DeviceIrq(c)
      PROVE  SchedInv'
  BY <1>34, Quiet DEF DeviceIrq
<1>35. ASSUME NEW c \in CPUs, IntrAcquire(c)
      PROVE  SchedInv'
  BY <1>35, Quiet DEF IntrAcquire
<1>36. ASSUME NEW c \in CPUs, NEW r \in Reqs, IntrUsed(c, r)
      PROVE  SchedInv'
  BY <1>36, Quiet DEF IntrUsed
<1>37. ASSUME NEW c \in CPUs, IntrWakeup(c)
      PROVE  SchedInv'
  BY <1>37, Wakes DEF IntrWakeup, Critical, Woken
<1>38. ASSUME NEW c \in CPUs, IntrReturn(c)
      PROVE  SchedInv'
  <2>1. CASE InUser(c)
    BY <1>38, <2>1, Moves DEF IntrReturn, InUser, Goto
  <2>2. CASE ~InUser(c)
    BY <1>38, <2>2, Quiet DEF IntrReturn
  <2> QED BY <2>1, <2>2
<1>39. ASSUME NEW c \in CPUs, Panic(c)
      PROVE  SchedInv'
  BY <1>39, Quiet DEF Panic
<1>40. ASSUME NEW r \in Reqs, DeviceDone(r)
      PROVE  SchedInv'
  BY <1>40, Quiet DEF DeviceDone
<1> QED
  BY <1>1, <1>2, <1>3, <1>4, <1>5, <1>6, <1>7, <1>8, <1>9,
     <1>10, <1>11, <1>12, <1>13, <1>14, <1>15, <1>16, <1>17, <1>18,
     <1>19, <1>20, <1>21, <1>22, <1>23, <1>24, <1>25, <1>26, <1>27,
     <1>28, <1>29, <1>30, <1>31, <1>32, <1>33, <1>34, <1>35, <1>36,
     <1>37, <1>38, <1>39, <1>40
  DEF Next, CpuStep, TaskStep, SchedStep, KernelStep, IntrStep

\* The relation between processes, slots, CPUs and proctable.lk that the rest
\* of the scheduler's safety follows from.
THEOREM SchedSafe == Spec => []SchedInv
<1>1. Init => SchedInv
  <2> SUFFICES ASSUME Init PROVE SchedInv
    OBVIOUS
  <2>1. \A c \in CPUs : cur[c] = NULL /\ spc[c] = "top"
    BY DEF Init
  <2>2. \A p \in Procs : state[p] \in Live \cup {"ZOMBIE"} =>
           state[p] = "RUNNABLE" /\ pc[p] = "forkret" /\ kstack[p]
    BY DEF Init, Live
  <2> QED
    BY <2>1, <2>2
    DEF SchedInv, CurInjective, CurState, LockHeld, Saved, SlotOwned, HasStack,
        ResumePCs
<1>2. TypeOK /\ SchedInv /\ [Next]_vars => SchedInv'
  <2>1. ASSUME TypeOK, SchedInv, Next PROVE SchedInv'
    BY <2>1, TypeShape, SchedInvStep
  <2>2. ASSUME SchedInv, UNCHANGED vars PROVE SchedInv'
    BY <2>2, Quiet DEF vars
  <2> QED BY <2>1, <2>2
<1> QED BY <1>1, <1>2, TypeCorrect, PTL DEF Spec

\* No kernel stack is ever used by two CPUs or freed under one, for any number
\* of slots and CPUs: yield(), sleep() and exitproc() keep proctable.lk until
\* the switch is over.
THEOREM StackSafety == Spec => []StackSafe
<1>1. TypeOK /\ SchedInv => StackSafe
  BY TypeShape, OnCpuStates
  DEF Shape, SchedInv, CurInjective, HasStack, StackSafe
<1> QED BY <1>1, TypeCorrect, SchedSafe, PTL

\* Whenever proctable.lk is free, the processes that are RUNNING are exactly
\* the ones on a CPU.
THEOREM RunningSafety == Spec => []RunningOnCpu
<1>1. TypeOK /\ SchedInv => RunningOnCpu
  BY TypeShape, OnCpuStates
  DEF Shape, SchedInv, Saved, OnCpu, Live, RunningOnCpu
<1> QED BY <1>1, TypeCorrect, SchedSafe, PTL

-----------------------------------------------------------------------------
(* Parents and children.                                                   *)

\* The system call that a process can be in at a point of the code.
CallOk(at, s, n) ==
    /\ at = "w_scan" => s \in {"wait", "waitpid"}
    /\ at \in {"s_switch", "s_resume", "s_sig"} => s \in {"io", "wait", "waitpid"}
    /\ at \in {"d_submit", "d_done", "s_acquire", "s_release", "s_relock"} => s = "io"
    /\ at = "k_pget" => n # 0
CallAt == \A p \in Procs : CallOk(pc[p], call[p], arg[p])

\* A sleeper sleeps on the channel of its call, until it is woken.
SleepAt ==
    \A p \in Procs : state[p] = "SLEEPING" =>
        /\ call[p] \in {"io", "wait", "waitpid"}
        /\ chan[p] = IF call[p] = "io" THEN Buf ELSE p

\* init does not exit: exitproc() panics before it gets so far.
InitLive == state[initproc] \in Live /\ pc[initproc] \notin {"x_acquire", "x_switch"}

\* exitproc() comes back from its switch for nobody: only zombies are there.
DeadZombie == \A p \in Procs : pc[p] \in {"x_switch", "dead"} => state[p] = "ZOMBIE"

LifeInv == CallAt /\ SleepAt /\ InitLive /\ DeadZombie /\ NoOrphan /\ NoLostWait

\* What the proofs use of TypeOK.
LifeShape ==
    /\ Shape
    /\ call \in [Procs -> AllCalls \cup {"none"}]
    /\ arg \in [Procs -> Nat]
    /\ parent \in [Procs -> Procs \cup {NULL}]
    /\ chan \in [Procs -> Procs \cup {Buf, NULL}]
    /\ pid \in [Procs -> Nat]
    /\ initproc \in Procs

\* TypeOK has all of it.
LEMMA TypeLifeShape == TypeOK => LifeShape
BY NPROCAssumption, TypeShape, SMTT(20)
DEF TypeOK, TableType, LocalType, LifeShape, Procs, initproc

-----------------------------------------------------------------------------
(* Which call a process is in.                                             *)

\* A step that moves p to another point of the code.
LEMMA CallMoves ==
  ASSUME CallAt, pc \in [Procs -> PCs], NEW p \in Procs, NEW to,
         pc' = [pc EXCEPT ![p] = to], CallOk(to, call'[p], arg'[p]),
         \A q \in Procs \ {p} : call'[q] = call[q] /\ arg'[q] = arg[q]
  PROVE  CallAt'
BY DEF CallAt

\* A step that leaves the points and the calls alone.
LEMMA CallSame ==
  ASSUME CallAt, UNCHANGED <<pc, call, arg>>
  PROVE  CallAt'
BY DEF CallAt

\* Every step keeps CallAt.
LEMMA CallStep ==
  ASSUME LifeShape, CallAt, Next
  PROVE  CallAt'
<1> USE DEF LifeShape, Shape, NULL
<1>1. ASSUME NEW c \in CPUs, SchedTop(c) PROVE CallAt'
  BY <1>1, CallSame DEF SchedTop, SchedAt
<1>2. ASSUME NEW c \in CPUs, SchedAcquire(c) PROVE CallAt'
  BY <1>2, CallSame DEF SchedAcquire, SchedAt, acquire
<1>3. ASSUME NEW c \in CPUs, SchedDispatch(c) PROVE CallAt'
  BY <1>3, CallSame DEF SchedDispatch, SchedAt
<1>4. ASSUME NEW c \in CPUs, SchedRelease(c) PROVE CallAt'
  BY <1>4, CallSame DEF SchedRelease, SchedAt, release
<1>5. ASSUME NEW c \in CPUs, NEW p \in Procs, Sigcheck(c, p) PROVE CallAt'
  BY <1>5, CallMoves DEF Sigcheck, At, Goto, Forget, CallOk, CallAt
<1>6. ASSUME NEW c \in CPUs, NEW p \in Procs, Forkret(c, p) PROVE CallAt'
  BY <1>6, CallMoves DEF Forkret, At, Goto, CallOk, CallAt
<1>7. ASSUME NEW c \in CPUs, NEW p \in Procs, YieldAcquire(c, p) PROVE CallAt'
  BY <1>7, CallMoves DEF YieldAcquire, At, Goto, CallOk, CallAt
<1>8. ASSUME NEW c \in CPUs, NEW p \in Procs, YieldSwitch(c, p) PROVE CallAt'
  BY <1>8, CallMoves DEF YieldSwitch, At, Goto, SwitchToScheduler, CallOk, CallAt
<1>9. ASSUME NEW c \in CPUs, NEW p \in Procs, YieldResume(c, p) PROVE CallAt'
  BY <1>9, CallMoves DEF YieldResume, At, Goto, CallOk, CallAt
<1>10. ASSUME NEW c \in CPUs, NEW p \in Procs, NewprocSlot(c, p) PROVE CallAt'
  <2>1. UNCHANGED <<call, arg>> /\ (Goto(p, "sigcheck") \/ Goto(p, "f_pid"))
    BY <1>10 DEF NewprocSlot
  <2> QED BY <2>1, CallMoves DEF Goto, CallOk
<1>11. ASSUME NEW c \in CPUs, NEW p \in Procs, NewprocPid(c, p) PROVE CallAt'
  BY <1>11, CallMoves DEF NewprocPid, At, Goto, CallOk, CallAt
<1>12. ASSUME NEW c \in CPUs, NEW p \in Procs, NewprocMem(c, p) PROVE CallAt'
  <2>1. /\ UNCHANGED <<call, arg>>
        /\ \A q \in Procs : pc'[q] \in {pc[q], "forkret", "f_publish"}
    BY <1>12 DEF NewprocMem, At, Goto
  <2> QED BY <2>1 DEF CallAt, CallOk
<1>13. ASSUME NEW c \in CPUs, NEW p \in Procs, NewprocNoMem(c, p) PROVE CallAt'
  BY <1>13, CallMoves DEF NewprocNoMem, At, Goto, CallOk, CallAt
<1>14. ASSUME NEW c \in CPUs, NEW p \in Procs, ForkPublish(c, p) PROVE CallAt'
  BY <1>14, CallMoves DEF ForkPublish, At, Goto, CallOk, CallAt
<1>15. ASSUME NEW c \in CPUs, NEW p \in Procs, ForkFail(c, p) PROVE CallAt'
  BY <1>15, CallMoves DEF ForkFail, At, Goto, CallOk, CallAt
<1>16. ASSUME NEW c \in CPUs, NEW p \in Procs, SleepAcquire(c, p) PROVE CallAt'
  BY <1>16, CallMoves DEF SleepAcquire, At, Goto, CallOk, CallAt
<1>17. ASSUME NEW c \in CPUs, NEW p \in Procs, SleepRelease(c, p) PROVE CallAt'
  BY <1>17, CallMoves DEF SleepRelease, At, Goto, FallAsleep, CallOk, CallAt
<1>18. ASSUME NEW c \in CPUs, NEW p \in Procs, SleepSwitch(c, p) PROVE CallAt'
  BY <1>18, CallMoves DEF SleepSwitch, At, Goto, SwitchToScheduler, CallOk, CallAt
<1>19. ASSUME NEW c \in CPUs, NEW p \in Procs, SleepResume(c, p) PROVE CallAt'
  BY <1>19, CallMoves DEF SleepResume, At, Goto, CallOk, CallAt
<1>20. ASSUME NEW c \in CPUs, NEW p \in Procs, SleepRelock(c, p) PROVE CallAt'
  BY <1>20, CallMoves DEF SleepRelock, At, Goto, CallOk, CallAt
<1>21. ASSUME NEW c \in CPUs, NEW p \in Procs, SleepSigcheck(c, p) PROVE CallAt'
  BY <1>21, CallMoves DEF SleepSigcheck, At, Goto, Forget, CallOk, CallAt
<1>22. ASSUME NEW c \in CPUs, NEW p \in Procs, WaitScan(c, p) PROVE CallAt'
  BY <1>22, CallMoves DEF WaitScan, At, Goto, FallAsleep, CallOk, CallAt
<1>23. ASSUME NEW c \in CPUs, NEW p \in Procs, Freeproc(c, p) PROVE CallAt'
  <2>1. /\ UNCHANGED <<call, arg>>
        /\ \A q \in Procs : pc'[q] \in {pc[q], "none", "sigcheck"}
    BY <1>23 DEF Freeproc, At, Goto
  <2> QED BY <2>1 DEF CallAt, CallOk
<1>24. ASSUME NEW c \in CPUs, NEW p \in Procs, KillPget(c, p) PROVE CallAt'
  <2>1. UNCHANGED <<call, arg>> /\ (Goto(p, "sigcheck") \/ Goto(p, "k_sig"))
    BY <1>24 DEF KillPget
  <2> QED BY <2>1, CallMoves DEF Goto, CallOk
<1>25. ASSUME NEW c \in CPUs, NEW p \in Procs, KillSig(c, p) PROVE CallAt'
  BY <1>25, CallMoves DEF KillSig, At, Goto, CallOk, CallAt
<1>26. ASSUME NEW c \in CPUs, NEW p \in Procs, KillWake(c, p) PROVE CallAt'
  BY <1>26, CallMoves DEF KillWake, At, Goto, CallOk, CallAt
<1>27. ASSUME NEW c \in CPUs, NEW p \in Procs, ExitFree(c, p) PROVE CallAt'
  BY <1>27, CallMoves DEF ExitFree, At, Goto, Forget, CallOk, CallAt
<1>28. ASSUME NEW c \in CPUs, NEW p \in Procs, ExitAcquire(c, p) PROVE CallAt'
  BY <1>28, CallMoves DEF ExitAcquire, At, Goto, CallOk, CallAt
<1>29. ASSUME NEW c \in CPUs, NEW p \in Procs, ExitSwitch(c, p) PROVE CallAt'
  BY <1>29, CallMoves DEF ExitSwitch, At, Goto, SwitchToScheduler, CallOk, CallAt
<1>30. ASSUME NEW c \in CPUs, NEW p \in Procs, DiskSubmit(c, p) PROVE CallAt'
  BY <1>30, CallMoves DEF DiskSubmit, At, Goto, CallOk, CallAt
<1>31. ASSUME NEW c \in CPUs, NEW p \in Procs, DiskDone(c, p) PROVE CallAt'
  BY <1>31, CallMoves DEF DiskDone, At, Goto, CallOk, CallAt
<1>32. ASSUME NEW c \in CPUs, NEW p \in Procs, TimerIrq(c, p) PROVE CallAt'
  BY <1>32, CallMoves DEF TimerIrq, At, Goto, TrapTo, CallOk, CallAt
<1>33. ASSUME NEW c \in CPUs, NEW p \in Procs, Syscall(c, p) PROVE CallAt'
  <2>1. PICK s \in AllCalls \ {"abort"} :
           /\ TrapTo(c, p, EntryOf(s)) /\ call' = [call EXCEPT ![p] = s]
           /\ \E n \in IF s \in {"waitpid", "kill"} THEN 1 .. nextpid - 1 ELSE {0} :
                 arg' = [arg EXCEPT ![p] = n]
    BY <1>33, CallsAssumption DEF Syscall, UserCalls
  <2>2. PICK n : arg' = [arg EXCEPT ![p] = n] /\ (s = "kill" => n \in 1 .. nextpid - 1)
    BY <2>1
  <2>3. pc' = [pc EXCEPT ![p] = EntryOf(s)]
    BY <2>1 DEF TrapTo, Goto
  <2>4. call'[p] = s /\ arg'[p] = n
    BY <2>1, <2>2
  <2>5. CallOk(EntryOf(s), s, n)
    BY <2>2 DEF CallOk, EntryOf, AllCalls
  <2>6. \A q \in Procs \ {p} : call'[q] = call[q] /\ arg'[q] = arg[q]
    BY <2>1, <2>2
  <2> QED BY <2>3, <2>4, <2>5, <2>6, CallMoves
<1>34. ASSUME NEW c \in CPUs, DeviceIrq(c) PROVE CallAt'
  BY <1>34, CallSame DEF DeviceIrq
<1>35. ASSUME NEW c \in CPUs, IntrAcquire(c) PROVE CallAt'
  BY <1>35, CallSame DEF IntrAcquire
<1>36. ASSUME NEW c \in CPUs, IntrWakeup(c) PROVE CallAt'
  BY <1>36, CallSame DEF IntrWakeup, Critical
<1>37. ASSUME NEW c \in CPUs, IntrReturn(c) PROVE CallAt'
  <2>1. CASE InUser(c)
    BY <1>37, <2>1, CallMoves DEF IntrReturn, InUser, Goto, CallOk
  <2>2. CASE ~InUser(c)
    BY <1>37, <2>2, CallSame DEF IntrReturn
  <2> QED BY <2>1, <2>2
<1>38. ASSUME NEW c \in CPUs, Panic(c) PROVE CallAt'
  BY <1>38, CallSame DEF Panic
<1>39. ASSUME NEW c \in CPUs, NEW r \in Reqs, IntrUsed(c, r) PROVE CallAt'
  BY <1>39, CallSame DEF IntrUsed
<1>40. ASSUME NEW r \in Reqs, DeviceDone(r) PROVE CallAt'
  BY <1>40, CallSame DEF DeviceDone
<1> QED
  BY <1>1, <1>2, <1>3, <1>4, <1>5, <1>6, <1>7, <1>8, <1>9,
     <1>10, <1>11, <1>12, <1>13, <1>14, <1>15, <1>16, <1>17, <1>18,
     <1>19, <1>20, <1>21, <1>22, <1>23, <1>24, <1>25, <1>26, <1>27,
     <1>28, <1>29, <1>30, <1>31, <1>32, <1>33, <1>34, <1>35, <1>36,
     <1>37, <1>38, <1>39, <1>40
  DEF Next, CpuStep, TaskStep, SchedStep, KernelStep, IntrStep

-----------------------------------------------------------------------------
(* Sleepers, zombies and their parents.                                    *)

FamilyInv == SleepAt /\ InitLive /\ DeadZombie /\ NoOrphan /\ NoLostWait

\* A step after which nobody is asleep, a zombie or a parent who was not, and
\* which leaves alone what a sleeper waits for.
LEMMA FamilyQuiet ==
  ASSUME LifeShape, FamilyInv, UNCHANGED parent,
         \A q \in Procs :
             \/ state'[q] = state[q]
             \/ state[q] \in Live /\ state'[q] \in {"RUNNING", "RUNNABLE"}
             \/ state[q] \in {"UNUSED", "CREATED"} /\ state'[q] \in {"UNUSED", "CREATED"},
         \A q \in Procs : state[q] = "ZOMBIE" => pid'[q] = pid[q],
         \A q \in Procs : state[q] = "SLEEPING" =>
             call'[q] = call[q] /\ arg'[q] = arg[q] /\ chan'[q] = chan[q],
         \A q \in Procs : pc'[q] \in {"x_switch", "dead"} => pc[q] \in {"x_switch", "dead"},
         pc'[initproc] \notin {"x_acquire", "x_switch"}
  PROVE  FamilyInv'
<1> USE DEF FamilyInv, LifeShape, Shape
<1>1. SleepAt'
  BY DEF SleepAt
<1>2. InitLive'
  BY DEF InitLive, Live
<1>3. DeadZombie'
  BY DEF DeadZombie, Live
<1>4. NoOrphan'
  BY DEF NoOrphan, Live
<1>5. NoLostWait'
  BY DEF NoLostWait, Waited, Live
<1> QED BY <1>1, <1>2, <1>3, <1>4, <1>5

\* The same for a step of the process p of CPU c to another point of the code.
LEMMA FamilyMoves ==
  ASSUME LifeShape, SchedInv, FamilyInv, NEW c \in CPUs, NEW p \in Procs,
         cur[c] = p, pc[p] \notin SwitchPCs, \A q \in Procs \ {p} : pc'[q] = pc[q],
         pc'[p] \notin {"x_switch", "dead"}, pc'[p] = "x_acquire" => p # initproc,
         UNCHANGED parent,
         \A q \in Procs :
             \/ state'[q] = state[q]
             \/ state[q] \in Live /\ state'[q] \in {"RUNNING", "RUNNABLE"}
             \/ state[q] \in {"UNUSED", "CREATED"} /\ state'[q] \in {"UNUSED", "CREATED"},
         \A q \in Procs : state[q] = "ZOMBIE" => pid'[q] = pid[q],
         \A q \in Procs \ {p} : call'[q] = call[q] /\ arg'[q] = arg[q] /\ chan'[q] = chan[q]
  PROVE  FamilyInv'
<1> USE DEF LifeShape, Shape
<1>1. state[p] = "RUNNING"
  BY OnCpuStates
<1>2. \A q \in Procs : pc'[q] \in {"x_switch", "dead"} => pc[q] \in {"x_switch", "dead"}
  OBVIOUS
<1>3. pc'[initproc] \notin {"x_acquire", "x_switch"}
  BY DEF FamilyInv, InitLive
<1>4. \A q \in Procs : state[q] = "SLEEPING" =>
         call'[q] = call[q] /\ arg'[q] = arg[q] /\ chan'[q] = chan[q]
  BY <1>1
<1> QED BY <1>2, <1>3, <1>4, FamilyQuiet

\* A slot that fork() is filling or wait() is freeing is neither a sleeper nor a
\* parent, nor init's.
LEMMA SlotFree ==
  ASSUME LifeShape, SchedInv, FamilyInv, NEW c \in CPUs, NEW p \in Procs, cur[c] = p,
         pc[p] \in ForkPCs \cup {"freeproc"}
  PROVE  /\ obj[p] \in Procs /\ obj[p] # p /\ obj[p] # initproc
         /\ state[obj[p]] \in {"CREATED", "ZOMBIE"}
         /\ pc[p] \in ForkPCs => state[obj[p]] = "CREATED"
         /\ state[p] = "RUNNING"
         /\ \A q \in Procs \ {initproc} :
               state[q] \in Live \cup {"ZOMBIE"} => parent[q] # obj[p]
<1> USE DEF LifeShape, Shape, FamilyInv
<1>1. cur[c] # NULL /\ state[p] = "RUNNING"
  BY OnCpuStates DEF ForkPCs, SwitchPCs
<1>2. obj[p] \in Procs /\ state[obj[p]] \in {"CREATED", "ZOMBIE"}
  BY <1>1 DEF SchedInv, SlotOwned
<1>3. pc[p] \in ForkPCs => state[obj[p]] = "CREATED"
  BY <1>1 DEF SchedInv, SlotOwned
<1>4. obj[p] # initproc
  BY <1>2 DEF InitLive, Live
<1>5. \A q \in Procs \ {initproc} : state[q] \in Live \cup {"ZOMBIE"} => parent[q] # obj[p]
  BY <1>2 DEF NoOrphan, Live
<1> QED BY <1>1, <1>2, <1>3, <1>4, <1>5

\* A process falls asleep on the channel of its call; in wait(), with no child to
\* wait for.
LEMMA FallsAsleep ==
  ASSUME LifeShape, SchedInv, FamilyInv, NEW c \in CPUs, NEW p \in Procs, NEW ch,
         cur[c] = p, pc[p] \notin SwitchPCs, FallAsleep(p, ch),
         \/ call[p] = "io" /\ ch = Buf
         \/ call[p] \in {"wait", "waitpid"} /\ ch = p /\ Waited(p) = {},
         UNCHANGED <<parent, pid, call, arg>>
  PROVE  FamilyInv'
<1> USE DEF LifeShape, Shape, FamilyInv
<1>1. state[p] = "RUNNING"
  BY OnCpuStates
<1>2. /\ state' = [state EXCEPT ![p] = "SLEEPING"] /\ chan' = [chan EXCEPT ![p] = ch]
      /\ pc' = [pc EXCEPT ![p] = "s_switch"]
  BY DEF FallAsleep, Goto
<1>3. SleepAt'
  BY <1>2 DEF SleepAt
<1>4. InitLive' /\ DeadZombie'
  BY <1>1, <1>2 DEF InitLive, DeadZombie, Live
<1>5. NoOrphan'
  BY <1>1, <1>2 DEF NoOrphan, Live
<1>6. NoLostWait'
  <2>1. ASSUME NEW r \in Procs PROVE Waited(r)' = Waited(r)
    BY <1>1, <1>2 DEF Waited
  <2> QED BY <1>2, <2>1 DEF NoLostWait
<1> QED BY <1>3, <1>4, <1>5, <1>6

\* exitproc(): the children are handed over to init, and the parent is awake.
LEMMA FamilyExit ==
  ASSUME LifeShape, SchedInv, FamilyInv, NEW c \in CPUs, NEW p \in Procs, ExitAcquire(c, p)
  PROVE  FamilyInv'
<1> USE DEF LifeShape, Shape, FamilyInv
<1>1. state[p] = "RUNNING" /\ p # initproc
  BY OnCpuStates DEF ExitAcquire, At, SwitchPCs, InitLive
<1>2. /\ parent' = reparent(p) /\ pc' = [pc EXCEPT ![p] = "x_switch"]
      /\ UNCHANGED <<pid, call, arg, chan>>
  BY DEF ExitAcquire, Goto
<1>3. \A q \in Procs : parent'[q] = IF parent[q] = p THEN initproc ELSE parent[q]
  BY <1>2 DEF reparent
<1>4. /\ state'[p] = "ZOMBIE"
      /\ \A q \in Procs \ {p} :
            state'[q] = IF state[q] = "SLEEPING" /\ chan[q] = parent'[p]
                        THEN "RUNNABLE" ELSE state[q]
  BY DEF ExitAcquire, Woken
<1>5. SleepAt'
  BY <1>2, <1>4 DEF SleepAt
<1>6. InitLive' /\ DeadZombie'
  BY <1>1, <1>2, <1>4 DEF InitLive, DeadZombie, Live
<1>7. NoOrphan'
  <2> SUFFICES ASSUME NEW q \in Procs \ {initproc}, state'[q] \in Live \cup {"ZOMBIE"}
               PROVE  parent'[q] # NULL /\ state'[parent'[q]] \in Live
    BY DEF NoOrphan
  <2>1. state[q] \in Live \cup {"ZOMBIE"}
    BY <1>1, <1>4 DEF Live
  <2>2. parent[q] # NULL /\ state[parent[q]] \in Live /\ state[initproc] \in Live
    BY <2>1 DEF NoOrphan, InitLive
  <2>3. \A r \in Procs \ {p} : state[r] \in Live => state'[r] \in Live
    BY <1>4 DEF Live
  <2> QED BY <1>1, <1>3, <2>2, <2>3
<1>8. NoLostWait'
  <2> SUFFICES ASSUME NEW r \in Procs \ {initproc}, state'[r] = "SLEEPING",
                      call[r] \in {"wait", "waitpid"}, NEW q \in Waited(r)', parent'[q] = r
               PROVE  FALSE
    BY <1>2 DEF NoLostWait
  <2>1. q \in Procs /\ state'[q] = "ZOMBIE" /\ parent[q] = r
    BY <1>3 DEF Waited
  <2>2. r # p /\ state[r] = "SLEEPING" /\ chan[r] # parent'[p] /\ chan[r] = r
    BY <1>4 DEF SleepAt
  <2>3. CASE q = p
    BY <2>2, <2>3
  <2>4. CASE q # p
    <3>1. state[q] = "ZOMBIE"
      BY <1>4, <2>1, <2>4
    <3>2. q \in Waited(r)
      BY <1>2, <2>1, <3>1 DEF Waited
    <3> QED BY <2>1, <2>2, <3>2 DEF NoLostWait
  <2> QED BY <2>3, <2>4
<1> QED BY <1>5, <1>6, <1>7, <1>8

\* fork() publishes the child with its parent.
LEMMA FamilyFork ==
  ASSUME LifeShape, SchedInv, FamilyInv, NEW c \in CPUs, NEW p \in Procs, ForkPublish(c, p)
  PROVE  FamilyInv'
<1> USE DEF LifeShape, Shape, FamilyInv
<1> DEFINE n == obj[p]
<1>1. /\ n \in Procs /\ n # p /\ n # initproc /\ state[n] = "CREATED" /\ state[p] = "RUNNING"
      /\ \A q \in Procs \ {initproc} : state[q] \in Live \cup {"ZOMBIE"} => parent[q] # n
  BY SlotFree DEF ForkPublish, At, ForkPCs
<1>2. /\ state' = [state EXCEPT ![n] = "RUNNABLE"] /\ parent' = [parent EXCEPT ![n] = p]
      /\ pc' = [pc EXCEPT ![p] = "sigcheck"] /\ UNCHANGED <<pid, call, arg, chan>>
  BY DEF ForkPublish, Goto
<1> HIDE DEF n
<1>3. SleepAt'
  BY <1>1, <1>2 DEF SleepAt
<1>4. InitLive' /\ DeadZombie'
  BY <1>1, <1>2 DEF InitLive, DeadZombie, Live
<1>5. NoOrphan'
  BY <1>1, <1>2 DEF NoOrphan, Live
<1>6. NoLostWait'
  BY <1>1, <1>2 DEF NoLostWait, Waited
<1> QED BY <1>3, <1>4, <1>5, <1>6

\* freeproc() clears the slot of a process that is nobody's parent.
LEMMA FamilyFree ==
  ASSUME LifeShape, SchedInv, FamilyInv, NEW c \in CPUs, NEW p \in Procs, Freeproc(c, p)
  PROVE  FamilyInv'
<1> USE DEF LifeShape, Shape, FamilyInv
<1> DEFINE n == obj[p]
<1>1. /\ n \in Procs /\ n # p /\ n # initproc /\ state[n] \in {"CREATED", "ZOMBIE"}
      /\ \A q \in Procs \ {initproc} : state[q] \in Live \cup {"ZOMBIE"} => parent[q] # n
  BY SlotFree DEF Freeproc, At, ForkPCs
<1>2. /\ state' = [state EXCEPT ![n] = "UNUSED"] /\ parent' = [parent EXCEPT ![n] = NULL]
      /\ pid' = [pid EXCEPT ![n] = 0] /\ chan' = [chan EXCEPT ![n] = NULL]
      /\ pc' = [pc EXCEPT ![n] = "none", ![p] = "sigcheck"] /\ UNCHANGED <<call, arg>>
  BY DEF Freeproc
<1> HIDE DEF n
<1>3. SleepAt'
  BY <1>1, <1>2 DEF SleepAt
<1>4. InitLive' /\ DeadZombie'
  BY <1>1, <1>2 DEF InitLive, DeadZombie, Live
<1>5. NoOrphan'
  BY <1>1, <1>2 DEF NoOrphan, Live
<1>6. NoLostWait'
  BY <1>1, <1>2 DEF NoLostWait, Waited
<1> QED BY <1>3, <1>4, <1>5, <1>6

\* Every step keeps the families together.
LEMMA FamilyStep ==
  ASSUME LifeShape, SchedInv, CallAt, FamilyInv, Next
  PROVE  FamilyInv'
<1> USE DEF SwitchPCs, ForkPCs
<1>0. Shape
  BY DEF LifeShape
<1>1. ASSUME NEW c \in CPUs, SchedTop(c) PROVE FamilyInv'
  BY <1>1, FamilyQuiet DEF SchedTop, SchedAt, FamilyInv, InitLive, Live
<1>2. ASSUME NEW c \in CPUs, SchedAcquire(c) PROVE FamilyInv'
  BY <1>2, FamilyQuiet DEF SchedAcquire, SchedAt, acquire, FamilyInv, InitLive, Live
<1>3. ASSUME NEW c \in CPUs, SchedDispatch(c) PROVE FamilyInv'
  <2>1. \A q \in Procs :
           state'[q] = state[q] \/ (state[q] = "RUNNABLE" /\ state'[q] = "RUNNING")
    BY <1>3 DEF SchedDispatch, First, Ahead, LifeShape, Shape
  <2>2. UNCHANGED <<parent, pid, call, arg, chan, pc>>
    BY <1>3 DEF SchedDispatch, LifeShape, Shape
  <2> QED BY <2>1, <2>2, FamilyQuiet DEF FamilyInv, InitLive, Live
<1>4. ASSUME NEW c \in CPUs, SchedRelease(c) PROVE FamilyInv'
  BY <1>4, FamilyQuiet DEF SchedRelease, SchedAt, release, FamilyInv, InitLive, Live
<1>5. ASSUME NEW c \in CPUs, NEW p \in Procs, Sigcheck(c, p) PROVE FamilyInv'
  BY <1>5, FamilyMoves DEF Sigcheck, At, Goto, Forget, LifeShape, Shape, Live
<1>6. ASSUME NEW c \in CPUs, NEW p \in Procs, Forkret(c, p) PROVE FamilyInv'
  <2>1. /\ cur[c] = p /\ pc[p] = "forkret" /\ pc'[p] = "user"
        /\ \A q \in Procs \ {p} : pc'[q] = pc[q]
        /\ UNCHANGED <<state, parent, pid, call, arg, chan>>
    BY <1>6 DEF Forkret, At, Goto, LifeShape, Shape
  <2> QED BY <2>1, FamilyMoves
<1>7. ASSUME NEW c \in CPUs, NEW p \in Procs, YieldAcquire(c, p) PROVE FamilyInv'
  <2>1. /\ cur[c] = p /\ pc[p] = "y_acquire" /\ pc'[p] = "y_switch"
        /\ \A q \in Procs \ {p} : pc'[q] = pc[q]
        /\ UNCHANGED <<parent, pid, call, arg, chan>>
        /\ \A q \in Procs \ {p} : state'[q] = state[q]
        /\ state[p] = "RUNNING" /\ state'[p] = "RUNNABLE"
    BY <1>7, <1>0, OnCpuStates DEF YieldAcquire, At, Goto, LifeShape, Shape
  <2> QED BY <2>1, FamilyMoves DEF Live
<1>8. ASSUME NEW c \in CPUs, NEW p \in Procs, YieldSwitch(c, p) PROVE FamilyInv'
  BY <1>8, FamilyQuiet DEF YieldSwitch, At, Goto, SwitchToScheduler, FamilyInv, InitLive, Live
<1>9. ASSUME NEW c \in CPUs, NEW p \in Procs, YieldResume(c, p) PROVE FamilyInv'
  <2>1. /\ cur[c] = p /\ pc[p] = "y_resume" /\ pc'[p] = "sigcheck"
        /\ \A q \in Procs \ {p} : pc'[q] = pc[q]
        /\ UNCHANGED <<state, parent, pid, call, arg, chan>>
    BY <1>9 DEF YieldResume, At, Goto, LifeShape, Shape
  <2> QED BY <2>1, FamilyMoves
<1>10. ASSUME NEW c \in CPUs, NEW p \in Procs, NewprocSlot(c, p) PROVE FamilyInv'
  <2>1. /\ UNCHANGED <<call, arg, chan, parent, pid>> /\ cur[c] = p /\ pc[p] = "f_slot"
        /\ (Goto(p, "sigcheck") \/ Goto(p, "f_pid"))
    BY <1>10 DEF NewprocSlot, At, LifeShape, Shape
  <2>2. \A q \in Procs : state'[q] = state[q] \/ (state[q] = "UNUSED" /\ state'[q] = "CREATED")
    BY <1>10 DEF NewprocSlot, First, LifeShape, Shape
  <2> QED BY <2>1, <2>2, FamilyMoves DEF Goto, LifeShape, Shape
<1>11. ASSUME NEW c \in CPUs, NEW p \in Procs, NewprocPid(c, p) PROVE FamilyInv'
  <2>1. obj[p] \in Procs /\ state[obj[p]] = "CREATED"
    BY <1>11, SlotFree DEF NewprocPid, At
  <2> QED BY <1>11, <2>1, FamilyMoves DEF NewprocPid, At, Goto
<1>12. ASSUME NEW c \in CPUs, NEW p \in Procs, NewprocMem(c, p) PROVE FamilyInv'
  <2>1. obj[p] \in Procs /\ obj[p] # initproc
    BY <1>12, SlotFree DEF NewprocMem, At
  <2>2. /\ \A q \in Procs : pc'[q] \in {pc[q], "forkret", "f_publish"}
        /\ UNCHANGED <<state, parent, pid, call, arg, chan>>
    BY <1>12 DEF NewprocMem, LifeShape, Shape
  <2> QED BY <2>2, FamilyQuiet DEF FamilyInv, InitLive, LifeShape
<1>13. ASSUME NEW c \in CPUs, NEW p \in Procs, NewprocNoMem(c, p) PROVE FamilyInv'
  BY <1>13, FamilyMoves DEF NewprocNoMem, At, Goto, LifeShape, Shape, Live
<1>14. ASSUME NEW c \in CPUs, NEW p \in Procs, ForkPublish(c, p) PROVE FamilyInv'
  BY <1>14, FamilyFork
<1>15. ASSUME NEW c \in CPUs, NEW p \in Procs, ForkFail(c, p) PROVE FamilyInv'
  <2>1. /\ cur[c] = p /\ pc[p] = "f_fail" /\ pc'[p] = "freeproc"
        /\ \A q \in Procs \ {p} : pc'[q] = pc[q]
        /\ UNCHANGED <<state, parent, pid, call, arg, chan>>
    BY <1>15 DEF ForkFail, At, Goto, LifeShape, Shape
  <2> QED BY <2>1, FamilyMoves
<1>16. ASSUME NEW c \in CPUs, NEW p \in Procs, SleepAcquire(c, p) PROVE FamilyInv'
  <2>1. /\ cur[c] = p /\ pc[p] = "s_acquire" /\ pc'[p] = "s_release"
        /\ \A q \in Procs \ {p} : pc'[q] = pc[q]
        /\ UNCHANGED <<state, parent, pid, call, arg, chan>>
    BY <1>16 DEF SleepAcquire, At, Goto, LifeShape, Shape
  <2> QED BY <2>1, FamilyMoves
<1>17. ASSUME NEW c \in CPUs, NEW p \in Procs, SleepRelease(c, p) PROVE FamilyInv'
  BY <1>17, FallsAsleep DEF SleepRelease, LifeShape, Shape, At, LifeInv, CallAt, CallOk
<1>18. ASSUME NEW c \in CPUs, NEW p \in Procs, SleepSwitch(c, p) PROVE FamilyInv'
  BY <1>18, FamilyQuiet DEF SleepSwitch, At, Goto, SwitchToScheduler, FamilyInv, InitLive, Live
<1>19. ASSUME NEW c \in CPUs, NEW p \in Procs, SleepResume(c, p) PROVE FamilyInv'
  <2>1. /\ cur[c] = p /\ pc[p] = "s_resume"
        /\ pc'[p] = IF call[p] = "io" THEN "s_relock" ELSE "s_sig"
        /\ \A q \in Procs \ {p} : pc'[q] = pc[q]
        /\ UNCHANGED <<state, parent, pid, call, arg>>
        /\ \A q \in Procs \ {p} : chan'[q] = chan[q]
    BY <1>19 DEF SleepResume, At, Goto, LifeShape, Shape
  <2> QED BY <2>1, FamilyMoves
<1>20. ASSUME NEW c \in CPUs, NEW p \in Procs, SleepRelock(c, p) PROVE FamilyInv'
  <2>1. /\ cur[c] = p /\ pc[p] = "s_relock" /\ pc'[p] = "s_sig"
        /\ \A q \in Procs \ {p} : pc'[q] = pc[q]
        /\ UNCHANGED <<state, parent, pid, call, arg, chan>>
    BY <1>20 DEF SleepRelock, At, Goto, LifeShape, Shape
  <2> QED BY <2>1, FamilyMoves
<1>21. ASSUME NEW c \in CPUs, NEW p \in Procs, SleepSigcheck(c, p) PROVE FamilyInv'
  BY <1>21, FamilyMoves DEF SleepSigcheck, At, Goto, Forget, LifeShape, Shape, Live
<1>22. ASSUME NEW c \in CPUs, NEW p \in Procs, WaitScan(c, p) PROVE FamilyInv'
  <2>1. /\ call[p] \in {"wait", "waitpid"} /\ cur[c] = p /\ pc[p] = "w_scan"
        /\ UNCHANGED <<parent, pid, call, arg>>
    BY <1>22 DEF WaitScan, At, CallAt, CallOk, LifeShape, Shape
  <2>2. CASE Waited(p) = {}
    <3>1. FallAsleep(p, p)
      BY <1>22, <2>2 DEF WaitScan, First, LifeShape, Shape
    <3> QED BY <2>1, <2>2, <3>1, FallsAsleep
  <2>3. CASE Waited(p) # {}
    <3>1. Goto(p, "freeproc") /\ UNCHANGED <<state, chan>>
      BY <1>22, <2>3 DEF WaitScan, LifeShape, Shape
    <3> QED BY <2>1, <3>1, FamilyMoves DEF Goto
  <2> QED BY <2>2, <2>3
<1>23. ASSUME NEW c \in CPUs, NEW p \in Procs, Freeproc(c, p) PROVE FamilyInv'
  BY <1>23, FamilyFree
<1>24. ASSUME NEW c \in CPUs, NEW p \in Procs, KillPget(c, p) PROVE FamilyInv'
  <2>1. /\ UNCHANGED <<call, arg, chan, parent, pid>> /\ cur[c] = p /\ pc[p] = "k_pget"
        /\ (Goto(p, "sigcheck") \/ Goto(p, "k_sig"))
    BY <1>24 DEF KillPget, At, LifeShape, Shape
  <2>2. \A q \in Procs : state'[q] = state[q] \/ (state[q] = "UNUSED" /\ state'[q] = "CREATED")
    BY <1>24 DEF KillPget, First, LifeShape, Shape
  <2> QED BY <2>1, <2>2, FamilyMoves DEF Goto, LifeShape, Shape
<1>25. ASSUME NEW c \in CPUs, NEW p \in Procs, KillSig(c, p) PROVE FamilyInv'
  <2>1. /\ cur[c] = p /\ pc[p] = "k_sig" /\ pc'[p] = "k_wake"
        /\ \A q \in Procs \ {p} : pc'[q] = pc[q]
        /\ UNCHANGED <<state, parent, pid, call, arg, chan>>
    BY <1>25 DEF KillSig, At, Goto, LifeShape, Shape
  <2> QED BY <2>1, FamilyMoves
<1>26. ASSUME NEW c \in CPUs, NEW p \in Procs, KillWake(c, p) PROVE FamilyInv'
  <2>1. /\ cur[c] = p /\ pc[p] = "k_wake" /\ pc'[p] = "sigcheck"
        /\ \A q \in Procs \ {p} : pc'[q] = pc[q]
        /\ UNCHANGED <<parent, pid, call, arg, chan>>
        /\ \A q \in Procs :
              state'[q] = state[q] \/ (state[q] = "SLEEPING" /\ state'[q] = "RUNNABLE")
    BY <1>26 DEF KillWake, At, Goto, LifeShape, Shape
  <2> QED BY <2>1, FamilyMoves DEF Live
<1>27. ASSUME NEW c \in CPUs, NEW p \in Procs, ExitFree(c, p) PROVE FamilyInv'
  <2>1. /\ cur[c] = p /\ pc[p] = "x_free" /\ pc'[p] = "x_acquire"
        /\ \A q \in Procs \ {p} : pc'[q] = pc[q]
        /\ UNCHANGED <<state, parent, pid, chan>>
        /\ p # initproc /\ \A q \in Procs \ {p} : call'[q] = call[q] /\ arg'[q] = arg[q]
    BY <1>27 DEF ExitFree, At, Goto, Forget, LifeShape, Shape
  <2> QED BY <2>1, FamilyMoves
<1>28. ASSUME NEW c \in CPUs, NEW p \in Procs, ExitAcquire(c, p) PROVE FamilyInv'
  BY <1>28, FamilyExit
<1>29. ASSUME NEW c \in CPUs, NEW p \in Procs, ExitSwitch(c, p) PROVE FamilyInv'
  BY <1>29, FamilyQuiet DEF ExitSwitch, At, Goto, SwitchToScheduler, FamilyInv, InitLive, Live
<1>30. ASSUME NEW c \in CPUs, NEW p \in Procs, DiskSubmit(c, p) PROVE FamilyInv'
  <2>1. /\ cur[c] = p /\ pc[p] = "d_submit" /\ pc'[p] = "d_done"
        /\ \A q \in Procs \ {p} : pc'[q] = pc[q]
        /\ UNCHANGED <<state, parent, pid, call, arg, chan>>
    BY <1>30 DEF DiskSubmit, At, Goto, LifeShape, Shape
  <2> QED BY <2>1, FamilyMoves
<1>31. ASSUME NEW c \in CPUs, NEW p \in Procs, DiskDone(c, p) PROVE FamilyInv'
  BY <1>31, FamilyMoves DEF DiskDone, At, Goto, LifeShape, Shape, Live
<1>32. ASSUME NEW c \in CPUs, NEW p \in Procs, TimerIrq(c, p) PROVE FamilyInv'
  BY <1>32, FamilyMoves DEF TimerIrq, At, Goto, TrapTo, LifeShape, Shape, Live
<1>33. ASSUME NEW c \in CPUs, NEW p \in Procs, Syscall(c, p) PROVE FamilyInv'
  <2>1. PICK s \in AllCalls \ {"abort"} : TrapTo(c, p, EntryOf(s))
    BY <1>33, CallsAssumption DEF Syscall, UserCalls, LifeShape, Shape
  <2>2. EntryOf(s) \in {"x_free", "f_slot", "w_scan", "k_pget", "k_sig", "d_submit", "sigcheck"}
    BY <2>1 DEF EntryOf, AllCalls, LifeShape, Shape
  <2>3. /\ \A q \in Procs \ {p} : call'[q] = call[q] /\ arg'[q] = arg[q]
        /\ cur[c] = p /\ pc[p] = "user" /\ UNCHANGED <<state, parent, pid, chan>>
    BY <1>33 DEF Syscall, TrapTo, At, LifeShape, Shape
  <2>4. pc'[p] = EntryOf(s) /\ \A q \in Procs \ {p} : pc'[q] = pc[q]
    BY <2>1 DEF TrapTo, Goto, LifeShape, Shape
  <2> QED BY <2>2, <2>3, <2>4, FamilyMoves
<1>34. ASSUME NEW c \in CPUs, DeviceIrq(c) PROVE FamilyInv'
  BY <1>34, FamilyQuiet DEF DeviceIrq, FamilyInv, InitLive, Live
<1>35. ASSUME NEW c \in CPUs, IntrAcquire(c) PROVE FamilyInv'
  BY <1>35, FamilyQuiet DEF IntrAcquire, FamilyInv, InitLive, Live
<1>36. ASSUME NEW c \in CPUs, IntrWakeup(c) PROVE FamilyInv'
  BY <1>36, FamilyQuiet DEF IntrWakeup, Critical, FamilyInv, InitLive, Live, Woken
<1>37. ASSUME NEW c \in CPUs, IntrReturn(c) PROVE FamilyInv'
  <2>1. CASE InUser(c)
    BY <1>37, <2>1, FamilyMoves DEF IntrReturn, InUser, Goto, LifeShape, Shape
  <2>2. CASE ~InUser(c)
    BY <1>37, <2>2, FamilyQuiet DEF IntrReturn, FamilyInv, InitLive
  <2> QED BY <2>1, <2>2
<1>38. ASSUME NEW c \in CPUs, Panic(c) PROVE FamilyInv'
  BY <1>38, FamilyQuiet DEF Panic, FamilyInv, InitLive, Live
<1>39. ASSUME NEW c \in CPUs, NEW r \in Reqs, IntrUsed(c, r) PROVE FamilyInv'
  BY <1>39, FamilyQuiet DEF IntrUsed, FamilyInv, InitLive, Live
<1>40. ASSUME NEW r \in Reqs, DeviceDone(r) PROVE FamilyInv'
  BY <1>40, FamilyQuiet DEF DeviceDone, FamilyInv, InitLive, Live
<1> QED
  BY <1>1, <1>2, <1>3, <1>4, <1>5, <1>6, <1>7, <1>8, <1>9,
     <1>10, <1>11, <1>12, <1>13, <1>14, <1>15, <1>16, <1>17, <1>18,
     <1>19, <1>20, <1>21, <1>22, <1>23, <1>24, <1>25, <1>26, <1>27,
     <1>28, <1>29, <1>30, <1>31, <1>32, <1>33, <1>34, <1>35, <1>36,
     <1>37, <1>38, <1>39, <1>40
  DEF Next, CpuStep, TaskStep, SchedStep, KernelStep, IntrStep

-----------------------------------------------------------------------------
(* The theorems.                                                           *)

\* LifeInv holds in every state, whatever the programs call and whoever is killed.
THEOREM LifeSafe == Spec => []LifeInv
<1>1. Init => LifeInv
  <2> SUFFICES ASSUME Init PROVE LifeInv
    OBVIOUS
  <2>1. \A p \in Procs : /\ state[p] = IF p = initproc THEN "RUNNABLE" ELSE "UNUSED"
                         /\ pc[p] \in {"forkret", "none"}
    BY DEF Init
  <2>2. initproc \in Procs
    BY NPROCAssumption DEF initproc, Procs, LifeShape, Shape
  <2> QED BY <2>1, <2>2
          DEF LifeInv, CallAt, CallOk, SleepAt, InitLive, DeadZombie, NoOrphan,
              NoLostWait, Live
<1>2. TypeOK /\ SchedInv /\ LifeInv /\ [Next]_vars => LifeInv'
  <2> SUFFICES ASSUME TypeOK, SchedInv, LifeInv, [Next]_vars PROVE LifeInv'
    OBVIOUS
  <2>1. LifeShape /\ CallAt /\ FamilyInv
    BY TypeLifeShape DEF LifeInv, FamilyInv
  <2>2. CASE Next
    BY <2>1, <2>2, CallStep, FamilyStep DEF LifeInv, FamilyInv
  <2>3. CASE UNCHANGED vars
    <3>1. UNCHANGED <<state, parent, pid, call, arg, chan, pc>>
      BY <2>3 DEF vars
    <3> QED BY <2>1, <3>1, CallSame, FamilyQuiet DEF LifeInv, FamilyInv, InitLive
  <2> QED BY <2>2, <2>3
<1> QED BY <1>1, <1>2, TypeCorrect, SchedSafe, PTL DEF Spec, LifeShape, Shape

\* No process is ever without a live parent that can wait() for it: fork() names the
\* parent, and exitproc() hands its children to init, which does not exit.
THEOREM NobodyOrphaned == Spec => []NoOrphan
<1>1. LifeInv => NoOrphan
  BY DEF LifeInv
<1> QED BY <1>1, LifeSafe, PTL

\* No parent but init sleeps in wait() or waitpid() while a child that it waits for is a
\* zombie: exitproc() wakes the parent in the section in which it becomes one.
THEOREM WaitNotLost == Spec => []NoLostWait
<1>1. LifeInv => NoLostWait
  BY DEF LifeInv
<1> QED BY <1>1, LifeSafe, PTL

-----------------------------------------------------------------------------
(* proctable.lk, disk.lk and the interrupt mask: which CPU holds which     *)
(* lock can be read off the code that the CPU executes.  From that follow  *)
(* the lock discipline, that no completion of the disk is slept through,   *)
(* and that the kernel's assertions hold.                                  *)
(*                                                                         *)
(* All of it until kalloc() has kept its lock (kalloclk = NULL), and for   *)
(* systems in which no process that a signal can reach sleeps on the disk: *)
(* sigcheck() in sleep() would start exitproc() with disk.lk held.         *)

USE DEF table, local, cpuv, cli, locks, rest

\* What the programs do not call, and what init does not.
NoDisk == "io" \notin Calls \cup InitCalls
NoSignals == {"kill", "fault"} \cap (Calls \cup InitCalls) = {}
Tame == NoDisk \/ NoSignals
InitStays == {"exit", "fault"} \cap InitCalls = {}

\* Without disk calls the disk is idle; without signals none is pending.
DiskIdle == (\A p \in Procs : call[p] # "io") /\ (\A r \in Reqs : rstate[r] = "free")
SignalsIdle == \A p \in Procs : ~sig[p] /\ pc[p] \notin {"k_pget", "k_sig"}
MixInv == (NoDisk => DiskIdle) /\ (NoSignals => SignalsIdle)

\* The points of virtio_blk_op(), and of sleep() in it, with disk.lk held.
DiskPoint(at, s) ==
    at \in {"d_done", "s_acquire", "s_release"} \/ (at = "s_sig" /\ s = "io")
InDisk(c) == cur[c] # NULL /\ DiskPoint(pc[cur[c]], call[cur[c]])

\* CPU c is inside a critical section of proctable.lk, or in the handler inside
\* one of disk.lk.
InTable(c) == IF cur[c] = NULL THEN spc[c] = "scan" ELSE pc[cur[c]] \in HoldPCs
InHandler(c) == hpc[c] \in {"h_loop", "h_wakeup"}

\* The locks of a CPU are those of the code it executes, and it is masked while it
\* holds one.  (LockHeld is the other half of the first line.)
PlaceAt(c) ==
    /\ lk = c => hpc[c] = "idle" /\ InTable(c)
    /\ disklk = c <=> InHandler(c) \/ InDisk(c)
    /\ hpc[c] # "idle" => c = DevCpu /\ ~InDisk(c)
    /\ irq[c] => lk # c /\ disklk # c /\ hpc[c] = "idle"
    /\ InUser(c) /\ hpc[c] = "idle" => irq[c]
PlaceInv == \A c \in CPUs : PlaceAt(c)

\* A process that has seen its request not done, and is on its way to sleep, is
\* still right.
NotDone ==
    \A c \in CPUs : cur[c] # NULL /\ pc[cur[c]] \in {"s_acquire", "s_release"} =>
        rstate[req[cur[c]]] # "done"

\* Every request in use is that of a process in virtio_blk_op().
DiskPCs == {"d_done", "s_acquire", "s_release", "s_switch", "s_resume", "s_relock", "s_sig"}
InOp(p, r) == state[p] \in Live /\ call[p] = "io" /\ pc[p] \in DiskPCs /\ req[p] = r
ReqInv == \A r \in Reqs : rstate[r] # "free" => \E p \in Procs : InOp(p, r)

\* An init that does not exit is not killed: its pid is 0, for which kill() does not
\* look.
InitInv ==
    /\ pc[initproc] # "x_free" /\ ~sig[initproc] /\ pid[initproc] = 0
    /\ \A p \in Procs : pc[p] = "k_sig" => obj[p] # initproc

\* What the proofs use of TypeOK.
LockShape ==
    /\ LifeShape
    /\ CliType
    /\ hpc \in [CPUs -> {"idle", "h_acquire", "h_loop", "h_wakeup"}]
    /\ disklk \in CPUs \cup {NULL}
    /\ sig \in [Procs -> BOOLEAN]
    /\ req \in [Procs -> Reqs \cup {NULL}]
    /\ rstate \in [Reqs -> {"free", "sent", "used", "done"}]

\* TypeOK has all of it.
LEMMA TypeLockShape == TypeOK => LockShape
BY TypeLifeShape
DEF TypeOK, TableType, LocalType, CpuType, LockType, RestType, LockShape

-----------------------------------------------------------------------------
(* The mask.                                                               *)

\* pushcli() masks: either the count was 0, or the CPU held a lock and was masked.
LEMMA Pushes ==
  ASSUME LockShape, CliBalanced, PlaceInv, kalloclk = NULL, NEW c \in CPUs, pushcli(c)
  PROVE  /\ ~irq'[c]
         /\ \A d \in CPUs \ {c} : irq'[d] = irq[d]
<1> USE DEF LockShape, LifeShape, Shape, CliType
<1>1. CASE cli_depth[c] = 0
  BY <1>1 DEF pushcli
<1>2. CASE cli_depth[c] # 0
  <2>1. lk = c \/ disklk = c
    BY <1>2 DEF CliBalanced, B
  <2>2. ~irq[c]
    BY <2>1 DEF PlaceInv, PlaceAt
  <2> QED BY <1>2, <2>2 DEF pushcli
<1> QED BY <1>1, <1>2

\* popcli() unmasks only with the last lock.
LEMMA Pops ==
  ASSUME LockShape, CliBalanced', PlaceInv, kalloclk' = NULL, NEW c \in CPUs, popcli(c),
         lk' = c => lk = c, disklk' = c => disklk = c
  PROVE  /\ irq'[c] => lk' # c /\ disklk' # c
         /\ \A d \in CPUs \ {c} : irq'[d] = irq[d]
<1> USE DEF LockShape, LifeShape, Shape, CliType
<1>1. CASE cli_depth[c] = 1
  <2>1. cli_depth'[c] = 0
    BY <1>1 DEF popcli
  <2>2. lk' # c /\ disklk' # c
    BY <2>1 DEF CliBalanced, B
  <2> QED BY <1>1, <2>2 DEF popcli
<1>2. CASE cli_depth[c] # 1
  <2>1. irq' = irq
    BY <1>2 DEF popcli
  <2> QED BY <2>1 DEF PlaceInv, PlaceAt
<1> QED BY <1>1, <1>2

-----------------------------------------------------------------------------
(* Where the locks are.                                                    *)

\* What PlaceInv says of a process on its CPU.
LEMMA Here ==
  ASSUME LockShape, SchedInv, PlaceInv, NEW c \in CPUs, NEW p \in Procs,
         cur[c] = p, hpc[c] = "idle"
  PROVE  /\ lk = c <=> pc[p] \in HoldPCs
         /\ disklk = c <=> DiskPoint(pc[p], call[p])
         /\ irq[c] => lk # c /\ disklk # c
         /\ pc[p] = "user" => irq[c]
BY DEF PlaceInv, PlaceAt, InTable, InHandler, InDisk, InUser, SchedInv, LockHeld,
       LockShape, LifeShape, Shape

\* The other CPUs, when a step is one of CPU c.
LEMMA Elsewhere ==
  ASSUME LockShape, PlaceInv, NEW c \in CPUs,
         \A d \in CPUs \ {c} :
             /\ irq'[d] = irq[d] /\ cur'[d] = cur[d] /\ spc'[d] = spc[d] /\ hpc'[d] = hpc[d]
             /\ lk' = d <=> lk = d
             /\ disklk' = d <=> disklk = d
             /\ cur[d] # NULL => pc'[cur[d]] = pc[cur[d]] /\ call'[cur[d]] = call[cur[d]]
  PROVE  \A d \in CPUs \ {c} : PlaceAt(d)'
<1> SUFFICES ASSUME NEW d \in CPUs, d # c PROVE PlaceAt(d)'
  OBVIOUS
<1>1. /\ irq'[d] = irq[d] /\ cur'[d] = cur[d] /\ spc'[d] = spc[d] /\ hpc'[d] = hpc[d]
      /\ lk' = d <=> lk = d
      /\ disklk' = d <=> disklk = d
      /\ cur[d] # NULL => pc'[cur[d]] = pc[cur[d]] /\ call'[cur[d]] = call[cur[d]]
  OBVIOUS
<1>2. PlaceAt(d)
  BY DEF PlaceInv
<1>3. (InTable(d)' <=> InTable(d)) /\ (InDisk(d)' <=> InDisk(d)) /\ (InUser(d)' <=> InUser(d))
  BY <1>1 DEF InTable, InDisk, InUser
<1> QED BY <1>1, <1>2, <1>3 DEF PlaceAt, InHandler

\* A step of the process p of CPU c to another point of the code.
LEMMA PlaceMoves ==
  ASSUME LockShape, SchedInv, PlaceInv, NEW c \in CPUs, NEW p \in Procs,
         cur[c] = p, hpc[c] = "idle", UNCHANGED <<cur, spc, hpc>>,
         \A q \in Procs \ {p} : pc'[q] = pc[q] /\ call'[q] = call[q],
         \A d \in CPUs \ {c} :
             irq'[d] = irq[d] /\ (lk' = d <=> lk = d) /\ (disklk' = d <=> disklk = d),
         lk' = c => pc'[p] \in HoldPCs,
         disklk' = c <=> DiskPoint(pc'[p], call'[p]),
         irq'[c] => lk' # c /\ disklk' # c,
         pc'[p] = "user" => irq'[c]
  PROVE  PlaceInv'
<1> USE DEF LockShape, LifeShape, Shape
<1>1. \A d \in CPUs \ {c} :
         cur[d] # NULL => pc'[cur[d]] = pc[cur[d]] /\ call'[cur[d]] = call[cur[d]]
  BY DEF SchedInv, CurInjective
<1>2. \A d \in CPUs \ {c} : PlaceAt(d)'
  BY <1>1, Elsewhere
<1>3. PlaceAt(c)'
  BY DEF PlaceAt, InTable, InHandler, InDisk, InUser
<1> QED BY <1>2, <1>3 DEF PlaceInv

\* fork() prepares the kernel stack of a slot that is on no CPU.
LEMMA PlaceNew ==
  ASSUME LockShape, SchedInv, PlaceInv, NEW c \in CPUs, NEW p \in Procs, NewprocMem(c, p)
  PROVE  PlaceInv'
<1> USE DEF LockShape, LifeShape, Shape
<1>1. PICK n \in Procs : n = obj[p] /\ state[n] = "CREATED"
  BY DEF NewprocMem, At, SchedInv, SlotOwned, ForkPCs
<1>2. /\ cur[c] = p /\ hpc[c] = "idle" /\ pc[p] = "f_mem"
      /\ pc' = [pc EXCEPT ![n] = "forkret", ![p] = "f_publish"]
      /\ UNCHANGED <<cur, spc, hpc, lk, disklk, irq, call>>
  BY <1>1 DEF NewprocMem, At
<1>3. \A d \in CPUs : cur[d] # n
  BY <1>1, OnCpuStates DEF Live
<1>4. \A d \in CPUs \ {c} : cur[d] # NULL => pc'[cur[d]] = pc[cur[d]]
  BY <1>2, <1>3 DEF SchedInv, CurInjective
<1>5. \A d \in CPUs \ {c} : PlaceAt(d)'
  BY <1>2, <1>4, Elsewhere
<1>6. PlaceAt(c)'
  BY <1>2, Here DEF PlaceAt, InTable, InHandler, InDisk, InUser, DiskPoint, HoldPCs,
                    SwitchPCs, ResumePCs
<1> QED BY <1>5, <1>6 DEF PlaceInv

\* freeproc() clears a slot that is on no CPU: a zombie on its way off one would hold
\* the lock.
LEMMA PlaceFree ==
  ASSUME LockShape, SchedInv, CliBalanced', kalloclk' = NULL, PlaceInv,
         NEW c \in CPUs, NEW p \in Procs, Freeproc(c, p)
  PROVE  PlaceInv'
<1> USE DEF LockShape, LifeShape, Shape
<1>1. PICK n \in Procs : n = obj[p] /\ state[n] \in {"CREATED", "ZOMBIE"}
  BY DEF Freeproc, At, SchedInv, SlotOwned
<1>2. /\ cur[c] = p /\ hpc[c] = "idle" /\ pc[p] = "freeproc" /\ lk = c /\ lk' = NULL
      /\ pc' = [pc EXCEPT ![n] = "none", ![p] = "sigcheck"]
      /\ UNCHANGED <<cur, spc, hpc, disklk, call>>
  BY <1>1 DEF Freeproc, At, release
<1>3. \A d \in CPUs \ {c} : cur[d] # n
  BY <1>1, <1>2, OnCpuStates
<1>4. \A d \in CPUs \ {c} : cur[d] # NULL => pc'[cur[d]] = pc[cur[d]]
  BY <1>2, <1>3 DEF SchedInv, CurInjective
<1>5. (irq'[c] => lk' # c /\ disklk' # c) /\ \A d \in CPUs \ {c} : irq'[d] = irq[d]
  BY <1>2, Pops DEF Freeproc, release
<1>6. \A d \in CPUs \ {c} : PlaceAt(d)'
  BY <1>2, <1>4, <1>5, Elsewhere
<1>7. PlaceAt(c)'
  BY <1>2, <1>5, Here DEF PlaceAt, InTable, InHandler, InDisk, InUser, DiskPoint
<1> QED BY <1>6, <1>7 DEF PlaceInv

\* cswitch() to the scheduler: the CPU keeps proctable.lk.
LEMMA PlaceSwitch ==
  ASSUME LockShape, SchedInv, PlaceInv, NEW c \in CPUs, NEW p \in Procs,
         NEW from \in SwitchPCs, NEW to \in ResumePCs,
         At(c, p, from), SwitchToScheduler(c, p, to)
  PROVE  PlaceInv'
<1> USE DEF LockShape, LifeShape, Shape
<1>1. /\ cur[c] = p /\ hpc[c] = "idle" /\ pc[p] = from /\ spc[c] = "scan"
      /\ cur' = [cur EXCEPT ![c] = NULL] /\ pc' = [pc EXCEPT ![p] = to]
      /\ UNCHANGED <<spc, hpc, lk, disklk, irq, call>>
  BY DEF At, SwitchToScheduler, Goto, SchedInv, CurState
<1>2. \A d \in CPUs \ {c} : cur[d] # NULL => pc'[cur[d]] = pc[cur[d]]
  BY <1>1 DEF SchedInv, CurInjective
<1>3. \A d \in CPUs \ {c} : PlaceAt(d)'
  BY <1>1, <1>2, Elsewhere
<1>4. PlaceAt(c)'
  BY <1>1, Here DEF PlaceAt, InTable, InHandler, InDisk, InUser, DiskPoint, SwitchPCs
<1> QED BY <1>3, <1>4 DEF PlaceInv

\* A step of schedule() on CPU c.
LEMMA PlaceSchedules ==
  ASSUME LockShape, PlaceInv, NEW c \in CPUs, cur[c] = NULL, hpc[c] = "idle",
         UNCHANGED <<cur, hpc, disklk, pc, call>>,
         \A d \in CPUs \ {c} : irq'[d] = irq[d] /\ (lk' = d <=> lk = d) /\ spc'[d] = spc[d],
         lk' = c => spc'[c] = "scan",
         irq'[c] => lk' # c
  PROVE  PlaceInv'
<1> USE DEF LockShape, LifeShape, Shape
<1>1. \A d \in CPUs \ {c} : PlaceAt(d)'
  BY Elsewhere
<1>2. PlaceAt(c)'
  BY DEF PlaceInv, PlaceAt, InTable, InHandler, InDisk, InUser
<1> QED BY <1>1, <1>2 DEF PlaceInv

\* The top of the loop unmasks, without a lock.
LEMMA PlaceTop ==
  ASSUME LockShape, PlaceInv, NEW c \in CPUs, SchedTop(c)
  PROVE  PlaceInv'
<1> USE DEF LockShape, LifeShape, Shape
<1>1. /\ cur[c] = NULL /\ hpc[c] = "idle" /\ spc[c] = "top"
      /\ UNCHANGED <<cur, hpc, lk, disklk, pc, call>>
      /\ \A d \in CPUs \ {c} : irq'[d] = irq[d] /\ spc'[d] = spc[d]
  BY DEF SchedTop, SchedAt, CliType
<1>2. lk # c
  BY <1>1 DEF PlaceInv, PlaceAt, InTable
<1> QED BY <1>1, <1>2, PlaceSchedules

\* schedule() takes proctable.lk.
LEMMA PlaceAcquire ==
  ASSUME LockShape, CliBalanced, PlaceInv, kalloclk = NULL, NEW c \in CPUs, SchedAcquire(c)
  PROVE  PlaceInv'
<1> USE DEF LockShape, LifeShape, Shape
<1>1. /\ cur[c] = NULL /\ hpc[c] = "idle" /\ lk = NULL /\ lk' = c /\ spc'[c] = "scan"
      /\ UNCHANGED <<cur, hpc, disklk, pc, call>>
      /\ \A d \in CPUs \ {c} : spc'[d] = spc[d]
  BY DEF SchedAcquire, SchedAt, acquire
<1>2. ~irq'[c] /\ \A d \in CPUs \ {c} : irq'[d] = irq[d]
  BY Pushes DEF SchedAcquire, acquire
<1> QED BY <1>1, <1>2, PlaceSchedules

\* schedule() gives it back at the end of the scan.
LEMMA PlaceRelease ==
  ASSUME LockShape, CliBalanced', PlaceInv, kalloclk' = NULL, NEW c \in CPUs, SchedRelease(c)
  PROVE  PlaceInv'
<1> USE DEF LockShape, LifeShape, Shape
<1>1. /\ cur[c] = NULL /\ hpc[c] = "idle" /\ lk = c /\ lk' = NULL
      /\ UNCHANGED <<cur, hpc, disklk, pc, call>>
      /\ \A d \in CPUs \ {c} : spc'[d] = spc[d]
  BY DEF SchedRelease, SchedAt, release
<1>2. \A d \in CPUs \ {c} : irq'[d] = irq[d]
  BY <1>1, Pops DEF SchedRelease, release
<1> QED BY <1>1, <1>2, PlaceSchedules

\* The process that schedule() enters is on no CPU, and comes out of a switch or starts.
LEMMA Entered ==
  ASSUME LockShape, SchedInv, NEW c \in CPUs, SchedDispatch(c)
  PROVE  /\ cur[c] = NULL /\ hpc[c] = "idle" /\ spc[c] = "scan" /\ lk = c
         /\ UNCHANGED <<spc, hpc, lk, disklk, irq, pc, call, req, rstate>>
         /\ \E p \in Procs : /\ state[p] = "RUNNABLE" /\ pc[p] \in ResumePCs
                             /\ state' = [state EXCEPT ![p] = "RUNNING"]
                             /\ cur' = [cur EXCEPT ![c] = p]
<1> USE DEF LockShape, LifeShape, Shape
<1>1. PICK p \in Procs : /\ state[p] = "RUNNABLE" /\ cur' = [cur EXCEPT ![c] = p]
                         /\ state' = [state EXCEPT ![p] = "RUNNING"]
  BY DEF SchedDispatch, First, Ahead
<1>2. /\ cur[c] = NULL /\ hpc[c] = "idle" /\ spc[c] = "scan" /\ lk = c
      /\ UNCHANGED <<spc, hpc, lk, disklk, irq, pc, call, req, rstate>>
  BY DEF SchedDispatch, SchedAt, SchedInv, LockHeld
<1>3. ~OnCpu(p)
  BY <1>1, <1>2, OnCpuStates DEF OnCpu
<1>4. pc[p] \in ResumePCs
  BY <1>1, <1>3 DEF SchedInv, Saved, Live
<1> QED BY <1>1, <1>2, <1>4

\* It goes on with proctable.lk held.
LEMMA PlaceDispatch ==
  ASSUME LockShape, SchedInv, PlaceInv, NEW c \in CPUs, SchedDispatch(c)
  PROVE  PlaceInv'
<1> USE DEF LockShape, LifeShape, Shape
<1>1. PICK p \in Procs : pc[p] \in ResumePCs /\ cur' = [cur EXCEPT ![c] = p]
  BY Entered
<1>2. /\ cur[c] = NULL /\ hpc[c] = "idle" /\ spc[c] = "scan" /\ lk = c
      /\ UNCHANGED <<spc, hpc, lk, disklk, irq, pc, call>>
  BY Entered
<1>3. \A d \in CPUs \ {c} : PlaceAt(d)'
  BY <1>1, <1>2, Elsewhere
<1>4. PlaceAt(c) /\ ~InDisk(c)
  BY <1>2 DEF PlaceInv, InDisk
<1>5. PlaceAt(c)'
  BY <1>1, <1>2, <1>4
  DEF PlaceAt, InTable, InHandler, InDisk, InUser, DiskPoint, HoldPCs, ResumePCs
<1> QED BY <1>3, <1>5 DEF PlaceInv

\* A step of the interrupt handler on CPU c, which leaves the interrupted code alone.
LEMMA PlaceHandles ==
  ASSUME LockShape, PlaceInv, NEW c \in CPUs, UNCHANGED <<cur, spc, lk, pc, call>>,
         \A d \in CPUs \ {c} :
             irq'[d] = irq[d] /\ hpc'[d] = hpc[d] /\ (disklk' = d <=> disklk = d)
  PROVE  /\ \A d \in CPUs \ {c} : PlaceAt(d)'
         /\ PlaceAt(c)
         /\ InTable(c)' <=> InTable(c)
         /\ InDisk(c)' <=> InDisk(c)
         /\ InUser(c)' <=> InUser(c)
<1> USE DEF LockShape, LifeShape, Shape
<1>1. \A d \in CPUs \ {c} : PlaceAt(d)'
  BY Elsewhere
<1> QED BY <1>1 DEF PlaceInv, InTable, InDisk, InUser

\* An interrupt finds its CPU unmasked, and so without a lock.
LEMMA PlaceIrq ==
  ASSUME LockShape, PlaceInv, NEW c \in CPUs, DeviceIrq(c)
  PROVE  PlaceInv'
<1> USE DEF LockShape, LifeShape, Shape
<1>1. /\ c = DevCpu /\ hpc[c] = "idle" /\ irq[c] /\ hpc'[c] = "h_acquire" /\ ~irq'[c]
      /\ UNCHANGED <<cur, spc, lk, disklk, pc, call>>
      /\ \A d \in CPUs \ {c} : irq'[d] = irq[d] /\ hpc'[d] = hpc[d]
  BY DEF DeviceIrq, CliType
<1>2. \A d \in CPUs \ {c} : PlaceAt(d)'
  BY <1>1, PlaceHandles
<1>3. PlaceAt(c)'
  BY <1>1, PlaceHandles DEF PlaceAt, InHandler
<1> QED BY <1>2, <1>3 DEF PlaceInv

\* The handler takes disk.lk.
LEMMA PlaceHandler ==
  ASSUME LockShape, CliBalanced, PlaceInv, kalloclk = NULL, NEW c \in CPUs, IntrAcquire(c)
  PROVE  PlaceInv'
<1> USE DEF LockShape, LifeShape, Shape
<1>1. /\ hpc[c] = "h_acquire" /\ hpc'[c] = "h_loop" /\ disklk = NULL /\ disklk' = c
      /\ UNCHANGED <<cur, spc, lk, pc, call>>
      /\ \A d \in CPUs \ {c} : hpc'[d] = hpc[d]
  BY DEF IntrAcquire, IntrAt
<1>2. ~irq'[c] /\ \A d \in CPUs \ {c} : irq'[d] = irq[d]
  BY Pushes DEF IntrAcquire
<1>3. \A d \in CPUs \ {c} : PlaceAt(d)'
  BY <1>1, <1>2, PlaceHandles
<1>4. PlaceAt(c)'
  BY <1>1, <1>2, PlaceHandles DEF PlaceAt, InHandler
<1> QED BY <1>3, <1>4 DEF PlaceInv

\* The return from the handler: to the end of uirq_handler(), or to code that was
\* interrupted unmasked.
LEMMA PlaceReturn ==
  ASSUME LockShape, SchedInv, PlaceInv, NEW c \in CPUs, IntrReturn(c)
  PROVE  PlaceInv'
<1> USE DEF LockShape, LifeShape, Shape
<1>1. /\ hpc[c] = "h_loop" /\ hpc'[c] = "idle" /\ disklk = c /\ disklk' = NULL
      /\ UNCHANGED <<cur, spc, lk, call>>
      /\ \A d \in CPUs \ {c} : hpc'[d] = hpc[d]
  BY DEF IntrReturn, IntrAt
<1>2. lk # c /\ ~InDisk(c) /\ ~irq[c]
  BY <1>1 DEF PlaceInv, PlaceAt
<1>3. CASE InUser(c)
  <2>1. /\ UNCHANGED irq /\ cur[c] \in Procs /\ pc'[cur[c]] = "sigcheck"
        /\ \A q \in Procs \ {cur[c]} : pc'[q] = pc[q]
    BY <1>3 DEF IntrReturn, InUser, Goto
  <2>2. \A d \in CPUs \ {c} : cur[d] # NULL => pc'[cur[d]] = pc[cur[d]]
    BY <1>3, <2>1 DEF SchedInv, CurInjective
  <2>3. \A d \in CPUs \ {c} : PlaceAt(d)'
    BY <1>1, <2>1, <2>2, Elsewhere
  <2>4. PlaceAt(c)'
    BY <1>1, <1>2, <2>1 DEF PlaceAt, InTable, InHandler, InDisk, InUser, DiskPoint
  <2> QED BY <2>3, <2>4 DEF PlaceInv
<1>4. CASE ~InUser(c)
  <2>1. UNCHANGED pc /\ irq'[c] /\ \A d \in CPUs \ {c} : irq'[d] = irq[d]
    BY <1>4 DEF IntrReturn, CliType
  <2>2. \A d \in CPUs \ {c} : PlaceAt(d)'
    BY <1>1, <2>1, PlaceHandles
  <2>3. PlaceAt(c)'
    BY <1>1, <1>2, <2>1, PlaceHandles DEF PlaceAt, InHandler
  <2> QED BY <2>2, <2>3 DEF PlaceInv
<1> QED BY <1>3, <1>4

\* Every step keeps the locks where the code is.
LEMMA PlaceStep ==
  ASSUME LockShape, SchedInv, CallAt, MixInv, Tame, CliBalanced, CliBalanced',
         kalloclk = NULL, kalloclk' = NULL, PlaceInv, Next
  PROVE  PlaceInv'
<1>1. ASSUME NEW c \in CPUs, SchedTop(c) PROVE PlaceInv'
  BY <1>1, PlaceTop
<1>2. ASSUME NEW c \in CPUs, SchedAcquire(c) PROVE PlaceInv'
  BY <1>2, PlaceAcquire
<1>3. ASSUME NEW c \in CPUs, SchedDispatch(c) PROVE PlaceInv'
  BY <1>3, PlaceDispatch
<1>4. ASSUME NEW c \in CPUs, SchedRelease(c) PROVE PlaceInv'
  BY <1>4, PlaceRelease
<1>5. ASSUME NEW c \in CPUs, NEW p \in Procs, Sigcheck(c, p) PROVE PlaceInv'
  <2>1. /\ cur[c] = p /\ hpc[c] = "idle" /\ pc[p] = "sigcheck" /\ pc'[p] \in {"user", "x_free"}
        /\ UNCHANGED <<cur, spc, hpc>> /\ UNCHANGED <<lk, disklk>>
        /\ \A q \in Procs \ {p} : pc'[q] = pc[q] /\ call'[q] = call[q]
    BY <1>5 DEF Sigcheck, At, Goto, Forget, LockShape, LifeShape, Shape
  <2>2. (pc'[p] = "user" => irq'[c]) /\ \A d \in CPUs \ {c} : irq'[d] = irq[d]
    BY <1>5 DEF CliType, Sigcheck, At, Goto, Forget, LockShape, LifeShape, Shape
  <2> QED BY <2>1, <2>2, Here, PlaceMoves
    DEF DiskPoint, HoldPCs, SwitchPCs, ResumePCs, LockShape, LifeShape, Shape
<1>6. ASSUME NEW c \in CPUs, NEW p \in Procs, Forkret(c, p) PROVE PlaceInv'
  <2>1. /\ cur[c] = p /\ hpc[c] = "idle" /\ pc[p] = "forkret" /\ pc'[p] = "user"
        /\ UNCHANGED <<cur, spc, hpc>> /\ lk = c /\ lk' = NULL /\ UNCHANGED disklk
        /\ \A q \in Procs \ {p} : pc'[q] = pc[q] /\ call'[q] = call[q]
    BY <1>6 DEF Forkret, At, Goto, LockShape, LifeShape, Shape
  <2>2. irq'[c] /\ \A d \in CPUs \ {c} : irq'[d] = irq[d]
    BY <1>6 DEF CliType, Forkret, At, Goto, LockShape, LifeShape, Shape
  <2> QED BY <2>1, <2>2, Here, PlaceMoves
    DEF DiskPoint, HoldPCs, SwitchPCs, ResumePCs, LockShape, LifeShape, Shape
<1>7. ASSUME NEW c \in CPUs, NEW p \in Procs, YieldAcquire(c, p) PROVE PlaceInv'
  <2>1. /\ cur[c] = p /\ hpc[c] = "idle" /\ pc[p] = "y_acquire" /\ pc'[p] = "y_switch"
        /\ UNCHANGED <<cur, spc, hpc>> /\ lk = NULL /\ lk' = c /\ UNCHANGED disklk
        /\ \A q \in Procs \ {p} : pc'[q] = pc[q] /\ call'[q] = call[q]
    BY <1>7 DEF YieldAcquire, At, Goto, acquire, LockShape, LifeShape, Shape
  <2>2. ~irq'[c] /\ \A d \in CPUs \ {c} : irq'[d] = irq[d]
    BY <1>7, <2>1, Pushes DEF YieldAcquire, acquire, LockShape, LifeShape, Shape
  <2> QED BY <2>1, <2>2, Here, PlaceMoves
    DEF DiskPoint, HoldPCs, SwitchPCs, ResumePCs, LockShape, LifeShape, Shape
<1>8. ASSUME NEW c \in CPUs, NEW p \in Procs, YieldSwitch(c, p) PROVE PlaceInv'
  BY <1>8, PlaceSwitch DEF YieldSwitch, SwitchPCs, ResumePCs
<1>9. ASSUME NEW c \in CPUs, NEW p \in Procs, YieldResume(c, p) PROVE PlaceInv'
  <2>1. /\ cur[c] = p /\ hpc[c] = "idle" /\ pc[p] = "y_resume" /\ pc'[p] = "sigcheck"
        /\ UNCHANGED <<cur, spc, hpc>> /\ lk = c /\ lk' = NULL /\ UNCHANGED disklk
        /\ \A q \in Procs \ {p} : pc'[q] = pc[q] /\ call'[q] = call[q]
    BY <1>9 DEF YieldResume, At, Goto, release, LockShape, LifeShape, Shape
  <2>2. (irq'[c] => lk' # c /\ disklk' # c) /\ \A d \in CPUs \ {c} : irq'[d] = irq[d]
    BY <1>9, <2>1, Pops DEF YieldResume, release, LockShape, LifeShape, Shape
  <2> QED BY <2>1, <2>2, Here, PlaceMoves
    DEF DiskPoint, HoldPCs, SwitchPCs, ResumePCs, LockShape, LifeShape, Shape
<1>10. ASSUME NEW c \in CPUs, NEW p \in Procs, NewprocSlot(c, p) PROVE PlaceInv'
  <2>1. /\ cur[c] = p /\ hpc[c] = "idle" /\ pc[p] = "f_slot" /\ pc'[p] \in {"sigcheck", "f_pid"}
        /\ UNCHANGED <<cur, spc, hpc>> /\ UNCHANGED <<lk, disklk>>
        /\ \A q \in Procs \ {p} : pc'[q] = pc[q] /\ call'[q] = call[q]
    BY <1>10 DEF NewprocSlot, At, Goto, First, Critical, LockShape, LifeShape, Shape
  <2>2. UNCHANGED irq
    BY <1>10 DEF NewprocSlot, At, Goto, First, Critical, LockShape, LifeShape, Shape
  <2> QED BY <2>1, <2>2, Here, PlaceMoves
    DEF DiskPoint, HoldPCs, SwitchPCs, ResumePCs, LockShape, LifeShape, Shape
<1>11. ASSUME NEW c \in CPUs, NEW p \in Procs, NewprocPid(c, p) PROVE PlaceInv'
  <2>1. /\ cur[c] = p /\ hpc[c] = "idle" /\ pc[p] = "f_pid" /\ pc'[p] = "f_mem"
        /\ UNCHANGED <<cur, spc, hpc>> /\ UNCHANGED <<lk, disklk>>
        /\ \A q \in Procs \ {p} : pc'[q] = pc[q] /\ call'[q] = call[q]
    BY <1>11 DEF NewprocPid, At, Goto, LockShape, LifeShape, Shape
  <2>2. UNCHANGED irq
    BY <1>11 DEF NewprocPid, At, Goto, LockShape, LifeShape, Shape
  <2> QED BY <2>1, <2>2, Here, PlaceMoves
    DEF DiskPoint, HoldPCs, SwitchPCs, ResumePCs, LockShape, LifeShape, Shape
<1>12. ASSUME NEW c \in CPUs, NEW p \in Procs, NewprocMem(c, p) PROVE PlaceInv'
  BY <1>12, PlaceNew
<1>13. ASSUME NEW c \in CPUs, NEW p \in Procs, NewprocNoMem(c, p) PROVE PlaceInv'
  BY <1>13 DEF NewprocNoMem, LockShape, LifeShape, Shape
<1>14. ASSUME NEW c \in CPUs, NEW p \in Procs, ForkPublish(c, p) PROVE PlaceInv'
  <2>1. /\ cur[c] = p /\ hpc[c] = "idle" /\ pc[p] = "f_publish" /\ pc'[p] = "sigcheck"
        /\ UNCHANGED <<cur, spc, hpc>> /\ UNCHANGED <<lk, disklk>>
        /\ \A q \in Procs \ {p} : pc'[q] = pc[q] /\ call'[q] = call[q]
    BY <1>14 DEF ForkPublish, At, Goto, Critical, LockShape, LifeShape, Shape
  <2>2. UNCHANGED irq
    BY <1>14 DEF ForkPublish, At, Goto, Critical, LockShape, LifeShape, Shape
  <2> QED BY <2>1, <2>2, Here, PlaceMoves
    DEF DiskPoint, HoldPCs, SwitchPCs, ResumePCs, LockShape, LifeShape, Shape
<1>15. ASSUME NEW c \in CPUs, NEW p \in Procs, ForkFail(c, p) PROVE PlaceInv'
  <2>1. /\ cur[c] = p /\ hpc[c] = "idle" /\ pc[p] = "f_fail" /\ pc'[p] = "freeproc"
        /\ UNCHANGED <<cur, spc, hpc>> /\ lk = NULL /\ lk' = c /\ UNCHANGED disklk
        /\ \A q \in Procs \ {p} : pc'[q] = pc[q] /\ call'[q] = call[q]
    BY <1>15 DEF ForkFail, At, Goto, acquire, LockShape, LifeShape, Shape
  <2>2. ~irq'[c] /\ \A d \in CPUs \ {c} : irq'[d] = irq[d]
    BY <1>15, <2>1, Pushes DEF ForkFail, acquire, LockShape, LifeShape, Shape
  <2> QED BY <2>1, <2>2, Here, PlaceMoves
    DEF DiskPoint, HoldPCs, SwitchPCs, ResumePCs, LockShape, LifeShape, Shape
<1>16. ASSUME NEW c \in CPUs, NEW p \in Procs, SleepAcquire(c, p) PROVE PlaceInv'
  <2>1. /\ cur[c] = p /\ hpc[c] = "idle" /\ pc[p] = "s_acquire" /\ pc'[p] = "s_release"
        /\ UNCHANGED <<cur, spc, hpc>> /\ lk = NULL /\ lk' = c /\ UNCHANGED disklk
        /\ \A q \in Procs \ {p} : pc'[q] = pc[q] /\ call'[q] = call[q]
    BY <1>16 DEF SleepAcquire, At, Goto, acquire, LockShape, LifeShape, Shape
  <2>2. ~irq'[c] /\ \A d \in CPUs \ {c} : irq'[d] = irq[d]
    BY <1>16, <2>1, Pushes DEF SleepAcquire, acquire, LockShape, LifeShape, Shape
  <2> QED BY <2>1, <2>2, Here, PlaceMoves
    DEF DiskPoint, HoldPCs, SwitchPCs, ResumePCs, LockShape, LifeShape, Shape
<1>17. ASSUME NEW c \in CPUs, NEW p \in Procs, SleepRelease(c, p) PROVE PlaceInv'
  <2>1. /\ cur[c] = p /\ hpc[c] = "idle" /\ pc[p] = "s_release" /\ pc'[p] = "s_switch"
        /\ UNCHANGED <<cur, spc, hpc>> /\ disklk = c /\ disklk' = NULL /\ UNCHANGED lk
        /\ \A q \in Procs \ {p} : pc'[q] = pc[q] /\ call'[q] = call[q]
    BY <1>17 DEF SleepRelease, At, Goto, FallAsleep, LockShape, LifeShape, Shape
  <2>2. (irq'[c] => lk' # c /\ disklk' # c) /\ \A d \in CPUs \ {c} : irq'[d] = irq[d]
    BY <1>17, <2>1, Pops DEF SleepRelease, LockShape, LifeShape, Shape
  <2> QED BY <2>1, <2>2, Here, PlaceMoves
    DEF DiskPoint, HoldPCs, SwitchPCs, ResumePCs, LockShape, LifeShape, Shape
<1>18. ASSUME NEW c \in CPUs, NEW p \in Procs, SleepSwitch(c, p) PROVE PlaceInv'
  BY <1>18, PlaceSwitch DEF SleepSwitch, SwitchPCs, ResumePCs
<1>19. ASSUME NEW c \in CPUs, NEW p \in Procs, SleepResume(c, p) PROVE PlaceInv'
  <2>1. /\ cur[c] = p /\ hpc[c] = "idle" /\ pc[p] = "s_resume"
        /\ pc'[p] = IF call[p] = "io" THEN "s_relock" ELSE "s_sig"
        /\ UNCHANGED <<cur, spc, hpc, call>> /\ lk = c /\ lk' = NULL /\ UNCHANGED disklk
        /\ \A q \in Procs \ {p} : pc'[q] = pc[q]
    BY <1>19 DEF SleepResume, At, Goto, release, LockShape, LifeShape, Shape
  <2>2. (irq'[c] => lk' # c /\ disklk' # c) /\ \A d \in CPUs \ {c} : irq'[d] = irq[d]
    BY <1>19, <2>1, Pops DEF SleepResume, release, LockShape, LifeShape, Shape
  <2> QED BY <2>1, <2>2, Here, PlaceMoves
    DEF DiskPoint, HoldPCs, SwitchPCs, ResumePCs, LockShape, LifeShape, Shape
<1>20. ASSUME NEW c \in CPUs, NEW p \in Procs, SleepRelock(c, p) PROVE PlaceInv'
  <2>1. /\ cur[c] = p /\ hpc[c] = "idle" /\ pc[p] = "s_relock" /\ pc'[p] = "s_sig"
        /\ UNCHANGED <<cur, spc, hpc>> /\ disklk = NULL /\ disklk' = c /\ UNCHANGED lk
        /\ \A q \in Procs \ {p} : pc'[q] = pc[q] /\ call'[q] = call[q]
    BY <1>20 DEF SleepRelock, At, Goto, LockShape, LifeShape, Shape
  <2>2. ~irq'[c] /\ \A d \in CPUs \ {c} : irq'[d] = irq[d]
    BY <1>20, <2>1, Pushes DEF SleepRelock, LockShape, LifeShape, Shape
  <2>3. call[p] = "io" /\ call' = call
    BY <1>20, <2>1 DEF SleepRelock, CallAt, CallOk
  <2> QED BY <2>1, <2>2, <2>3, Here, PlaceMoves, SMTT(20)
    DEF DiskPoint, HoldPCs, SwitchPCs, ResumePCs, LockShape, LifeShape, Shape
<1>21. ASSUME NEW c \in CPUs, NEW p \in Procs, SleepSigcheck(c, p) PROVE PlaceInv'
  <2>1. call[p] = "io" => ~sig[p]
    BY DEF Tame, MixInv, DiskIdle, SignalsIdle
  <2>2. call[p] \in {"io", "wait", "waitpid"}
    BY <1>21 DEF SleepSigcheck, At, CallAt, CallOk
  <2>3. /\ cur[c] = p /\ hpc[c] = "idle" /\ pc[p] = "s_sig"
        /\ call[p] = "io" => pc'[p] = "d_done"
        /\ call[p] # "io" => pc'[p] \in {"w_scan", "x_free"}
        /\ UNCHANGED <<cur, spc, hpc, lk, disklk, irq>>
        /\ \A q \in Procs \ {p} : pc'[q] = pc[q] /\ call'[q] = call[q]
    BY <1>21, <2>1, <2>2 DEF SleepSigcheck, At, Goto, Forget, LockShape, LifeShape, Shape
  <2> QED BY <2>2, <2>3, Here, PlaceMoves
    DEF DiskPoint, HoldPCs, SwitchPCs, ResumePCs, LockShape, LifeShape, Shape
<1>22. ASSUME NEW c \in CPUs, NEW p \in Procs, WaitScan(c, p) PROVE PlaceInv'
  <2>1. /\ cur[c] = p /\ hpc[c] = "idle" /\ pc[p] = "w_scan" /\ pc'[p] \in {"s_switch", "freeproc"}
        /\ UNCHANGED <<cur, spc, hpc>> /\ lk = NULL /\ lk' = c /\ UNCHANGED disklk
        /\ \A q \in Procs \ {p} : pc'[q] = pc[q] /\ call'[q] = call[q]
    BY <1>22
    DEF WaitScan, At, Goto, FallAsleep, First, acquire, LockShape, LifeShape, Shape
  <2>2. ~irq'[c] /\ \A d \in CPUs \ {c} : irq'[d] = irq[d]
    BY <1>22, <2>1, Pushes DEF WaitScan, acquire, LockShape, LifeShape, Shape
  <2> QED BY <2>1, <2>2, Here, PlaceMoves
    DEF DiskPoint, HoldPCs, SwitchPCs, ResumePCs, LockShape, LifeShape, Shape
<1>23. ASSUME NEW c \in CPUs, NEW p \in Procs, Freeproc(c, p) PROVE PlaceInv'
  BY <1>23, PlaceFree
<1>24. ASSUME NEW c \in CPUs, NEW p \in Procs, KillPget(c, p) PROVE PlaceInv'
  <2>1. /\ cur[c] = p /\ hpc[c] = "idle" /\ pc[p] = "k_pget" /\ pc'[p] \in {"sigcheck", "k_sig"}
        /\ UNCHANGED <<cur, spc, hpc>> /\ UNCHANGED <<lk, disklk>>
        /\ \A q \in Procs \ {p} : pc'[q] = pc[q] /\ call'[q] = call[q]
    BY <1>24 DEF KillPget, At, Goto, First, Critical, LockShape, LifeShape, Shape
  <2>2. UNCHANGED irq
    BY <1>24 DEF KillPget, At, Goto, First, Critical, LockShape, LifeShape, Shape
  <2> QED BY <2>1, <2>2, Here, PlaceMoves
    DEF DiskPoint, HoldPCs, SwitchPCs, ResumePCs, LockShape, LifeShape, Shape
<1>25. ASSUME NEW c \in CPUs, NEW p \in Procs, KillSig(c, p) PROVE PlaceInv'
  <2>1. /\ cur[c] = p /\ hpc[c] = "idle" /\ pc[p] = "k_sig" /\ pc'[p] = "k_wake"
        /\ UNCHANGED <<cur, spc, hpc>> /\ UNCHANGED <<lk, disklk>>
        /\ \A q \in Procs \ {p} : pc'[q] = pc[q] /\ call'[q] = call[q]
    BY <1>25 DEF KillSig, At, Goto, LockShape, LifeShape, Shape
  <2>2. UNCHANGED irq
    BY <1>25 DEF KillSig, At, Goto, LockShape, LifeShape, Shape
  <2> QED BY <2>1, <2>2, Here, PlaceMoves
    DEF DiskPoint, HoldPCs, SwitchPCs, ResumePCs, LockShape, LifeShape, Shape
<1>26. ASSUME NEW c \in CPUs, NEW p \in Procs, KillWake(c, p) PROVE PlaceInv'
  <2>1. /\ cur[c] = p /\ hpc[c] = "idle" /\ pc[p] = "k_wake" /\ pc'[p] = "sigcheck"
        /\ UNCHANGED <<cur, spc, hpc>> /\ UNCHANGED <<lk, disklk>>
        /\ \A q \in Procs \ {p} : pc'[q] = pc[q] /\ call'[q] = call[q]
    BY <1>26 DEF KillWake, At, Goto, Critical, LockShape, LifeShape, Shape
  <2>2. UNCHANGED irq
    BY <1>26 DEF KillWake, At, Goto, Critical, LockShape, LifeShape, Shape
  <2> QED BY <2>1, <2>2, Here, PlaceMoves
    DEF DiskPoint, HoldPCs, SwitchPCs, ResumePCs, LockShape, LifeShape, Shape
<1>27. ASSUME NEW c \in CPUs, NEW p \in Procs, ExitFree(c, p) PROVE PlaceInv'
  <2>1. /\ cur[c] = p /\ hpc[c] = "idle" /\ pc[p] = "x_free" /\ pc'[p] = "x_acquire"
        /\ UNCHANGED <<cur, spc, hpc>> /\ UNCHANGED <<lk, disklk>>
        /\ \A q \in Procs \ {p} : pc'[q] = pc[q] /\ call'[q] = call[q]
    BY <1>27 DEF ExitFree, At, Goto, Forget, LockShape, LifeShape, Shape
  <2>2. UNCHANGED irq
    BY <1>27 DEF ExitFree, At, Goto, Forget, LockShape, LifeShape, Shape
  <2> QED BY <2>1, <2>2, Here, PlaceMoves
    DEF DiskPoint, HoldPCs, SwitchPCs, ResumePCs, LockShape, LifeShape, Shape
<1>28. ASSUME NEW c \in CPUs, NEW p \in Procs, ExitAcquire(c, p) PROVE PlaceInv'
  <2>1. /\ cur[c] = p /\ hpc[c] = "idle" /\ pc[p] = "x_acquire" /\ pc'[p] = "x_switch"
        /\ UNCHANGED <<cur, spc, hpc>> /\ lk = NULL /\ lk' = c /\ UNCHANGED disklk
        /\ \A q \in Procs \ {p} : pc'[q] = pc[q] /\ call'[q] = call[q]
    BY <1>28 DEF ExitAcquire, At, Goto, acquire, LockShape, LifeShape, Shape
  <2>2. ~irq'[c] /\ \A d \in CPUs \ {c} : irq'[d] = irq[d]
    BY <1>28, <2>1, Pushes DEF ExitAcquire, acquire, LockShape, LifeShape, Shape
  <2> QED BY <2>1, <2>2, Here, PlaceMoves
    DEF DiskPoint, HoldPCs, SwitchPCs, ResumePCs, LockShape, LifeShape, Shape
<1>29. ASSUME NEW c \in CPUs, NEW p \in Procs, ExitSwitch(c, p) PROVE PlaceInv'
  BY <1>29, PlaceSwitch DEF ExitSwitch, SwitchPCs, ResumePCs
<1>30. ASSUME NEW c \in CPUs, NEW p \in Procs, DiskSubmit(c, p) PROVE PlaceInv'
  <2>1. /\ cur[c] = p /\ hpc[c] = "idle" /\ pc[p] = "d_submit" /\ pc'[p] = "d_done"
        /\ UNCHANGED <<cur, spc, hpc>> /\ disklk = NULL /\ disklk' = c /\ UNCHANGED lk
        /\ \A q \in Procs \ {p} : pc'[q] = pc[q] /\ call'[q] = call[q]
    BY <1>30 DEF DiskSubmit, At, Goto, LockShape, LifeShape, Shape
  <2>2. ~irq'[c] /\ \A d \in CPUs \ {c} : irq'[d] = irq[d]
    BY <1>30, <2>1, Pushes DEF DiskSubmit, LockShape, LifeShape, Shape
  <2> QED BY <2>1, <2>2, Here, PlaceMoves
    DEF DiskPoint, HoldPCs, SwitchPCs, ResumePCs, LockShape, LifeShape, Shape
<1>31. ASSUME NEW c \in CPUs, NEW p \in Procs, DiskDone(c, p) PROVE PlaceInv'
  <2>1. /\ cur[c] = p /\ hpc[c] = "idle" /\ pc[p] = "d_done"
        /\ UNCHANGED <<cur, spc, hpc, lk, call>>
        /\ \A q \in Procs \ {p} : pc'[q] = pc[q]
    BY <1>31 DEF DiskDone, At, Goto, LockShape, LifeShape, Shape
  <2>2. CASE rstate[req[p]] = "done"
    <3>1. pc'[p] = "sigcheck" /\ disklk = c /\ disklk' = NULL
      BY <1>31, <2>2 DEF DiskDone, Goto, LockShape, LifeShape, Shape
    <3>2. (irq'[c] => lk' # c /\ disklk' # c) /\ \A d \in CPUs \ {c} : irq'[d] = irq[d]
      BY <1>31, <2>1, <2>2, <3>1, Pops DEF DiskDone, LockShape, LifeShape, Shape
    <3> QED BY <2>1, <3>1, <3>2, Here, PlaceMoves
      DEF DiskPoint, HoldPCs, SwitchPCs, ResumePCs, LockShape, LifeShape, Shape
  <2>3. CASE rstate[req[p]] # "done"
    <3>1. pc'[p] = "s_acquire" /\ UNCHANGED <<disklk, irq>>
      BY <1>31, <2>3 DEF DiskDone, Goto, LockShape, LifeShape, Shape
    <3> QED BY <2>1, <3>1, Here, PlaceMoves
      DEF DiskPoint, HoldPCs, SwitchPCs, ResumePCs, LockShape, LifeShape, Shape
  <2> QED BY <2>2, <2>3
<1>32. ASSUME NEW c \in CPUs, NEW p \in Procs, TimerIrq(c, p) PROVE PlaceInv'
  <2>1. /\ cur[c] = p /\ hpc[c] = "idle" /\ pc[p] = "user" /\ pc'[p] \in {"sigcheck", "y_acquire"}
        /\ UNCHANGED <<cur, spc, hpc>> /\ UNCHANGED <<lk, disklk>>
        /\ \A q \in Procs \ {p} : pc'[q] = pc[q] /\ call'[q] = call[q]
    BY <1>32 DEF TimerIrq, At, Goto, TrapTo, LockShape, LifeShape, Shape
  <2>2. ~irq'[c] /\ \A d \in CPUs \ {c} : irq'[d] = irq[d]
    BY <1>32 DEF CliType, TimerIrq, At, Goto, TrapTo, LockShape, LifeShape, Shape
  <2> QED BY <2>1, <2>2, Here, PlaceMoves
    DEF DiskPoint, HoldPCs, SwitchPCs, ResumePCs, LockShape, LifeShape, Shape
<1>33. ASSUME NEW c \in CPUs, NEW p \in Procs, Syscall(c, p) PROVE PlaceInv'
  <2>1. PICK s \in AllCalls \ {"abort"} : TrapTo(c, p, EntryOf(s))
    BY <1>33, CallsAssumption DEF Syscall, UserCalls
  <2>2. EntryOf(s) \in {"x_free", "f_slot", "w_scan", "k_pget", "k_sig", "d_submit", "sigcheck"}
    BY DEF EntryOf, AllCalls
  <2>3. /\ cur[c] = p /\ hpc[c] = "idle" /\ pc[p] = "user" /\ pc'[p] = EntryOf(s)
        /\ UNCHANGED <<cur, spc, hpc, lk, disklk>>
        /\ \A q \in Procs \ {p} : pc'[q] = pc[q] /\ call'[q] = call[q]
        /\ ~irq'[c] /\ \A d \in CPUs \ {c} : irq'[d] = irq[d]
    BY <1>33, <2>1 DEF Syscall, TrapTo, At, Goto, CliType, LockShape, LifeShape, Shape
  <2> QED BY <2>2, <2>3, Here, PlaceMoves
    DEF DiskPoint, HoldPCs, SwitchPCs, ResumePCs, LockShape, LifeShape, Shape
<1>34. ASSUME NEW c \in CPUs, DeviceIrq(c) PROVE PlaceInv'
  BY <1>34, PlaceIrq
<1>35. ASSUME NEW c \in CPUs, IntrAcquire(c) PROVE PlaceInv'
  BY <1>35, PlaceHandler
<1>36. ASSUME NEW c \in CPUs, IntrWakeup(c) PROVE PlaceInv'
  <2>1. UNCHANGED <<lk, disklk, irq, cur, spc, pc, call>> /\ hpc[c] = "h_wakeup"
        /\ hpc' = [hpc EXCEPT ![c] = "h_loop"]
    BY <1>36 DEF IntrWakeup, IntrAt, Critical
  <2> QED BY <2>1
    DEF PlaceInv, PlaceAt, InTable, InDisk, InHandler, InUser, LockShape, LifeShape, Shape
<1>37. ASSUME NEW c \in CPUs, IntrReturn(c) PROVE PlaceInv'
  BY <1>37, PlaceReturn
<1>38. ASSUME NEW c \in CPUs, Panic(c) PROVE PlaceInv'
  <2>1. UNCHANGED <<lk, disklk, irq, cur, spc, pc, call>> /\ UNCHANGED hpc
    BY <1>38 DEF Panic
  <2> QED BY <2>1 DEF PlaceInv, PlaceAt, InTable, InDisk, InHandler, InUser
<1>39. ASSUME NEW c \in CPUs, NEW r \in Reqs, IntrUsed(c, r) PROVE PlaceInv'
  <2>1. UNCHANGED <<lk, disklk, irq, cur, spc, pc, call>> /\ hpc[c] = "h_loop"
        /\ hpc' = [hpc EXCEPT ![c] = "h_wakeup"]
    BY <1>39 DEF IntrUsed, IntrAt
  <2> QED BY <2>1
    DEF PlaceInv, PlaceAt, InTable, InDisk, InHandler, InUser, LockShape, LifeShape, Shape
<1>40. ASSUME NEW r \in Reqs, DeviceDone(r) PROVE PlaceInv'
  <2>1. UNCHANGED <<lk, disklk, irq, cur, spc, pc, call>> /\ UNCHANGED hpc
    BY <1>40 DEF DeviceDone
  <2> QED BY <2>1 DEF PlaceInv, PlaceAt, InTable, InDisk, InHandler, InUser
<1> QED
  BY <1>1, <1>2, <1>3, <1>4, <1>5, <1>6, <1>7, <1>8, <1>9,
     <1>10, <1>11, <1>12, <1>13, <1>14, <1>15, <1>16, <1>17, <1>18,
     <1>19, <1>20, <1>21, <1>22, <1>23, <1>24, <1>25, <1>26, <1>27,
     <1>28, <1>29, <1>30, <1>31, <1>32, <1>33, <1>34, <1>35, <1>36,
     <1>37, <1>38, <1>39, <1>40
  DEF Next, CpuStep, TaskStep, SchedStep, KernelStep, IntrStep

-----------------------------------------------------------------------------
(* Calls that are not made.                                                *)

\* A step that starts no disk call, moves no request of an idle disk and sends no signal.
LEMMA MixQuiet ==
  ASSUME MixInv,
         DiskIdle => UNCHANGED rstate /\ \A p \in Procs : call'[p] = "io" => call[p] = "io",
         SignalsIdle => \A p \in Procs :
             /\ sig'[p] => sig[p]
             /\ pc'[p] \in {"k_pget", "k_sig"} => pc[p] \in {"k_pget", "k_sig"}
  PROVE  MixInv'
BY DEF MixInv, DiskIdle, SignalsIdle

\* Every step keeps the disk and the signals idle that no program calls for.
LEMMA MixStep ==
  ASSUME LockShape, CallAt, MixInv, Next
  PROVE  MixInv'
<1>1. ASSUME NEW c \in CPUs, SchedTop(c) PROVE MixInv'
  BY <1>1, MixQuiet DEF SchedTop, SchedAt, LockShape, LifeShape, Shape
<1>2. ASSUME NEW c \in CPUs, SchedAcquire(c) PROVE MixInv'
  BY <1>2, MixQuiet DEF SchedAcquire, SchedAt, acquire, LockShape, LifeShape, Shape
<1>3. ASSUME NEW c \in CPUs, SchedDispatch(c) PROVE MixInv'
  BY <1>3, MixQuiet DEF SchedDispatch, SchedAt, LockShape, LifeShape, Shape
<1>4. ASSUME NEW c \in CPUs, SchedRelease(c) PROVE MixInv'
  BY <1>4, MixQuiet DEF SchedRelease, SchedAt, release, LockShape, LifeShape, Shape
<1>5. ASSUME NEW c \in CPUs, NEW p \in Procs, Sigcheck(c, p) PROVE MixInv'
  BY <1>5, MixQuiet DEF Sigcheck, At, Goto, Forget, LockShape, LifeShape, Shape
<1>6. ASSUME NEW c \in CPUs, NEW p \in Procs, Forkret(c, p) PROVE MixInv'
  BY <1>6, MixQuiet DEF Forkret, At, Goto, LockShape, LifeShape, Shape
<1>7. ASSUME NEW c \in CPUs, NEW p \in Procs, YieldAcquire(c, p) PROVE MixInv'
  BY <1>7, MixQuiet DEF YieldAcquire, At, Goto, acquire, LockShape, LifeShape, Shape
<1>8. ASSUME NEW c \in CPUs, NEW p \in Procs, YieldSwitch(c, p) PROVE MixInv'
  BY <1>8, MixQuiet
  DEF YieldSwitch, At, Goto, SwitchToScheduler, LockShape, LifeShape, Shape
<1>9. ASSUME NEW c \in CPUs, NEW p \in Procs, YieldResume(c, p) PROVE MixInv'
  BY <1>9, MixQuiet DEF YieldResume, At, Goto, release, LockShape, LifeShape, Shape
<1>10. ASSUME NEW c \in CPUs, NEW p \in Procs, NewprocSlot(c, p) PROVE MixInv'
  BY <1>10, MixQuiet
  DEF NewprocSlot, At, Goto, First, Critical, LockShape, LifeShape, Shape
<1>11. ASSUME NEW c \in CPUs, NEW p \in Procs, NewprocPid(c, p) PROVE MixInv'
  BY <1>11, MixQuiet DEF NewprocPid, At, Goto, LockShape, LifeShape, Shape
<1>12. ASSUME NEW c \in CPUs, NEW p \in Procs, NewprocMem(c, p) PROVE MixInv'
  BY <1>12, MixQuiet DEF NewprocMem, At, Goto, LockShape, LifeShape, Shape
<1>13. ASSUME NEW c \in CPUs, NEW p \in Procs, NewprocNoMem(c, p) PROVE MixInv'
  BY <1>13, MixQuiet DEF NewprocNoMem, At, Goto, LockShape, LifeShape, Shape
<1>14. ASSUME NEW c \in CPUs, NEW p \in Procs, ForkPublish(c, p) PROVE MixInv'
  BY <1>14, MixQuiet DEF ForkPublish, At, Goto, Critical, LockShape, LifeShape, Shape
<1>15. ASSUME NEW c \in CPUs, NEW p \in Procs, ForkFail(c, p) PROVE MixInv'
  BY <1>15, MixQuiet DEF ForkFail, At, Goto, acquire, LockShape, LifeShape, Shape
<1>16. ASSUME NEW c \in CPUs, NEW p \in Procs, SleepAcquire(c, p) PROVE MixInv'
  BY <1>16, MixQuiet DEF SleepAcquire, At, Goto, acquire, LockShape, LifeShape, Shape
<1>17. ASSUME NEW c \in CPUs, NEW p \in Procs, SleepRelease(c, p) PROVE MixInv'
  BY <1>17, MixQuiet DEF SleepRelease, At, Goto, FallAsleep, LockShape, LifeShape, Shape
<1>18. ASSUME NEW c \in CPUs, NEW p \in Procs, SleepSwitch(c, p) PROVE MixInv'
  BY <1>18, MixQuiet
  DEF SleepSwitch, At, Goto, SwitchToScheduler, LockShape, LifeShape, Shape
<1>19. ASSUME NEW c \in CPUs, NEW p \in Procs, SleepResume(c, p) PROVE MixInv'
  BY <1>19, MixQuiet DEF SleepResume, At, Goto, release, LockShape, LifeShape, Shape
<1>20. ASSUME NEW c \in CPUs, NEW p \in Procs, SleepRelock(c, p) PROVE MixInv'
  BY <1>20, MixQuiet DEF SleepRelock, At, Goto, LockShape, LifeShape, Shape
<1>21. ASSUME NEW c \in CPUs, NEW p \in Procs, SleepSigcheck(c, p) PROVE MixInv'
  BY <1>21, MixQuiet DEF SleepSigcheck, At, Goto, Forget, LockShape, LifeShape, Shape
<1>22. ASSUME NEW c \in CPUs, NEW p \in Procs, WaitScan(c, p) PROVE MixInv'
  BY <1>22, MixQuiet
  DEF WaitScan, At, Goto, FallAsleep, First, acquire, LockShape, LifeShape, Shape
<1>23. ASSUME NEW c \in CPUs, NEW p \in Procs, Freeproc(c, p) PROVE MixInv'
  BY <1>23, MixQuiet DEF Freeproc, At, Goto, release, LockShape, LifeShape, Shape
<1>24. ASSUME NEW c \in CPUs, NEW p \in Procs, KillPget(c, p) PROVE MixInv'
  BY <1>24, MixQuiet DEF KillPget, At, Goto, First, Critical, LockShape, LifeShape, Shape
<1>25. ASSUME NEW c \in CPUs, NEW p \in Procs, KillSig(c, p) PROVE MixInv'
  BY <1>25, MixQuiet DEF KillSig, At, Goto, SignalsIdle, LockShape, LifeShape, Shape
<1>26. ASSUME NEW c \in CPUs, NEW p \in Procs, KillWake(c, p) PROVE MixInv'
  BY <1>26, MixQuiet
  DEF KillWake, At, Goto, Critical, SignalsIdle, LockShape, LifeShape, Shape
<1>27. ASSUME NEW c \in CPUs, NEW p \in Procs, ExitFree(c, p) PROVE MixInv'
  BY <1>27, MixQuiet DEF ExitFree, At, Goto, Forget, LockShape, LifeShape, Shape
<1>28. ASSUME NEW c \in CPUs, NEW p \in Procs, ExitAcquire(c, p) PROVE MixInv'
  BY <1>28, MixQuiet DEF ExitAcquire, At, Goto, acquire, LockShape, LifeShape, Shape
<1>29. ASSUME NEW c \in CPUs, NEW p \in Procs, ExitSwitch(c, p) PROVE MixInv'
  BY <1>29, MixQuiet
  DEF ExitSwitch, At, Goto, SwitchToScheduler, LockShape, LifeShape, Shape
<1>30. ASSUME NEW c \in CPUs, NEW p \in Procs, DiskSubmit(c, p) PROVE MixInv'
  BY <1>30, MixQuiet
  DEF DiskSubmit, At, Goto, CallAt, CallOk, DiskIdle, LockShape, LifeShape, Shape
<1>31. ASSUME NEW c \in CPUs, NEW p \in Procs, DiskDone(c, p) PROVE MixInv'
  BY <1>31, MixQuiet
  DEF DiskDone, At, Goto, CallAt, CallOk, DiskIdle, LockShape, LifeShape, Shape
<1>32. ASSUME NEW c \in CPUs, NEW p \in Procs, TimerIrq(c, p) PROVE MixInv'
  BY <1>32, MixQuiet DEF TimerIrq, At, Goto, TrapTo, LockShape, LifeShape, Shape
<1>33. ASSUME NEW c \in CPUs, NEW p \in Procs, Syscall(c, p) PROVE MixInv'
  <2>1. PICK s \in AllCalls \ {"abort"} :
           /\ s \in Calls \cup InitCalls
           /\ TrapTo(c, p, EntryOf(s)) /\ call' = [call EXCEPT ![p] = s]
    BY <1>33, CallsAssumption DEF Syscall, UserCalls
  <2>2. pc' = [pc EXCEPT ![p] = EntryOf(s)] /\ UNCHANGED <<sig, rstate>>
    BY <1>33, <2>1 DEF Syscall, TrapTo, Goto
  <2>3. NoDisk => s # "io"
    BY <2>1 DEF NoDisk
  <2>4. NoSignals => EntryOf(s) \notin {"k_pget", "k_sig"}
    BY <2>1 DEF NoSignals, EntryOf, AllCalls
  <2> QED BY <2>1, <2>2, <2>3, <2>4
    DEF MixInv, DiskIdle, SignalsIdle, LockShape, LifeShape, Shape
<1>34. ASSUME NEW c \in CPUs, DeviceIrq(c) PROVE MixInv'
  BY <1>34, MixQuiet DEF DeviceIrq, LockShape, LifeShape, Shape
<1>35. ASSUME NEW c \in CPUs, IntrAcquire(c) PROVE MixInv'
  BY <1>35, MixQuiet DEF IntrAcquire, LockShape, LifeShape, Shape
<1>36. ASSUME NEW c \in CPUs, IntrWakeup(c) PROVE MixInv'
  BY <1>36, MixQuiet DEF IntrWakeup, Critical, LockShape, LifeShape, Shape
<1>37. ASSUME NEW c \in CPUs, IntrReturn(c) PROVE MixInv'
  BY <1>37, MixQuiet DEF IntrReturn, Goto, InUser, LockShape, LifeShape, Shape
<1>38. ASSUME NEW c \in CPUs, Panic(c) PROVE MixInv'
  BY <1>38, MixQuiet DEF Panic, LockShape, LifeShape, Shape
<1>39. ASSUME NEW c \in CPUs, NEW r \in Reqs, IntrUsed(c, r) PROVE MixInv'
  BY <1>39, MixQuiet DEF IntrUsed, DiskIdle, LockShape, LifeShape, Shape
<1>40. ASSUME NEW r \in Reqs, DeviceDone(r) PROVE MixInv'
  BY <1>40, MixQuiet DEF DeviceDone, DiskIdle, LockShape, LifeShape, Shape
<1> QED
  BY <1>1, <1>2, <1>3, <1>4, <1>5, <1>6, <1>7, <1>8, <1>9,
     <1>10, <1>11, <1>12, <1>13, <1>14, <1>15, <1>16, <1>17, <1>18,
     <1>19, <1>20, <1>21, <1>22, <1>23, <1>24, <1>25, <1>26, <1>27,
     <1>28, <1>29, <1>30, <1>31, <1>32, <1>33, <1>34, <1>35, <1>36,
     <1>37, <1>38, <1>39, <1>40
  DEF Next, CpuStep, TaskStep, SchedStep, KernelStep, IntrStep

-----------------------------------------------------------------------------
(* Requests and their processes.                                           *)

\* sleep() leaves a process at its switch, or behind it.
SleepPc == \A p \in Procs : state[p] = "SLEEPING" => pc[p] \in {"s_switch", "s_resume"}

\* In virtio_blk_op() a process has a request.
ReqAt == \A p \in Procs : call[p] = "io" /\ pc[p] \in DiskPCs => req[p] \in Reqs

DiskInv == SleepPc /\ ReqAt /\ NotDone /\ NoLostCompletion /\ ReqInv

\* A step that puts nobody to sleep, takes nobody out of virtio_blk_op() and leaves the
\* requests alone.
LEMMA DiskQuiet ==
  ASSUME LockShape, DiskInv, UNCHANGED rstate,
         hpc[DevCpu] = "h_wakeup" => hpc'[DevCpu] = "h_wakeup",
         \A q \in Procs : state'[q] = "SLEEPING" =>
             /\ state[q] = "SLEEPING" /\ call'[q] = call[q] /\ req'[q] = req[q]
             /\ pc'[q] \in {"s_switch", "s_resume"},
         \A q \in Procs : call'[q] = "io" /\ pc'[q] \in DiskPCs =>
             call[q] = "io" /\ pc[q] \in DiskPCs /\ req'[q] = req[q],
         \A q \in Procs : state[q] \in Live /\ call[q] = "io" /\ pc[q] \in DiskPCs =>
             /\ state'[q] \in Live /\ call'[q] = "io" /\ pc'[q] \in DiskPCs
             /\ req'[q] = req[q],
         \A d \in CPUs : cur'[d] # NULL /\ pc'[cur'[d]] \in {"s_acquire", "s_release"} =>
             /\ cur'[d] = cur[d] /\ pc[cur[d]] \in {"s_acquire", "s_release"}
             /\ req'[cur[d]] = req[cur[d]]
  PROVE  DiskInv'
<1> USE DEF LockShape, LifeShape, Shape, DiskInv
<1>1. SleepPc'
  BY DEF SleepPc
<1>2. ReqAt'
  BY DEF ReqAt
<1>3. NotDone'
  BY DEF NotDone
<1>4. NoLostCompletion'
  BY DEF NoLostCompletion
<1>5. ReqInv'
  BY DEF ReqInv, InOp
<1> QED BY <1>1, <1>2, <1>3, <1>4, <1>5

\* A step of the process p of CPU c outside virtio_blk_op(), inside it, or of a call
\* that is not for the disk.
LEMMA DiskMoves ==
  ASSUME LockShape, SchedInv, DiskInv, NEW c \in CPUs, NEW p \in Procs,
         cur[c] = p, pc[p] \notin SwitchPCs, UNCHANGED <<cur, hpc, rstate>>,
         \A q \in Procs \ {p} : pc'[q] = pc[q] /\ call'[q] = call[q] /\ req'[q] = req[q],
         \A q \in Procs :
             /\ state'[q] = "SLEEPING" => state[q] = "SLEEPING"
             /\ state[q] \in Live => state'[q] \in Live \/ (q = p /\ pc[p] \notin DiskPCs),
         \/ pc[p] \notin DiskPCs /\ pc'[p] \notin DiskPCs
         \/ /\ pc[p] \in DiskPCs /\ pc'[p] \in DiskPCs /\ UNCHANGED <<call, req>>
            /\ pc'[p] # "s_acquire" /\ (pc'[p] = "s_release" => pc[p] = "s_acquire")
         \/ call[p] # "io" /\ call'[p] # "io" /\ pc'[p] \notin {"s_acquire", "s_release"}
  PROVE  DiskInv'
<1> USE DEF LockShape, LifeShape, Shape
<1>1. state[p] = "RUNNING"
  BY OnCpuStates
<1>2. \A q \in Procs : state'[q] = "SLEEPING" =>
         /\ state[q] = "SLEEPING" /\ call'[q] = call[q] /\ req'[q] = req[q]
         /\ pc'[q] \in {"s_switch", "s_resume"}
  BY <1>1 DEF DiskInv, SleepPc
<1>3. \A q \in Procs : call'[q] = "io" /\ pc'[q] \in DiskPCs =>
         call[q] = "io" /\ pc[q] \in DiskPCs /\ req'[q] = req[q]
  OBVIOUS
<1>4. \A q \in Procs : state[q] \in Live /\ call[q] = "io" /\ pc[q] \in DiskPCs =>
         state'[q] \in Live /\ call'[q] = "io" /\ pc'[q] \in DiskPCs /\ req'[q] = req[q]
  OBVIOUS
<1>5. \A d \in CPUs : cur'[d] # NULL /\ pc'[cur'[d]] \in {"s_acquire", "s_release"} =>
         /\ cur'[d] = cur[d] /\ pc[cur[d]] \in {"s_acquire", "s_release"}
         /\ req'[cur[d]] = req[cur[d]]
  BY DEF DiskPCs
<1> QED BY <1>2, <1>3, <1>4, <1>5, DiskQuiet

\* A slot changes that belongs to no process: fork() and freeproc().
LEMMA DiskSlot ==
  ASSUME LockShape, SchedInv, DiskInv, NEW c \in CPUs, NEW p \in Procs, cur[c] = p,
         pc[p] \in ForkPCs \cup {"freeproc"},
         \A q \in Procs : pc'[q] \in {pc[q], "forkret", "f_publish", "none", "sigcheck"},
         \A q \in Procs \ {p, obj[p]} : pc'[q] = pc[q],
         \A q \in Procs : state'[q] = state[q] \/ (q = obj[p] /\ state'[q] = "UNUSED"),
         UNCHANGED <<cur, hpc, rstate, call, req>>
  PROVE  DiskInv'
<1> USE DEF LockShape, LifeShape, Shape
<1>1. /\ obj[p] \in Procs /\ state[obj[p]] \in {"CREATED", "ZOMBIE"}
      /\ state[p] = "RUNNING"
  BY OnCpuStates DEF SchedInv, SlotOwned, ForkPCs, SwitchPCs
<1>2. \A q \in Procs : state'[q] = "SLEEPING" =>
         state[q] = "SLEEPING" /\ pc'[q] \in {"s_switch", "s_resume"}
  BY <1>1 DEF DiskInv, SleepPc
<1>3. \A q \in Procs : pc'[q] \in DiskPCs => pc'[q] = pc[q]
  BY DEF DiskPCs
<1>4. \A q \in Procs : state[q] \in Live /\ pc[q] \in DiskPCs =>
         state'[q] \in Live /\ pc'[q] \in DiskPCs
  BY <1>1 DEF DiskPCs, Live, ForkPCs
<1> QED BY <1>2, <1>3, <1>4, DiskQuiet DEF DiskPCs

\* Falling asleep in wait(), or with the request not done.
LEMMA DiskSleeps ==
  ASSUME LockShape, SchedInv, DiskInv, NEW c \in CPUs, NEW p \in Procs, NEW ch,
         cur[c] = p, pc[p] \notin SwitchPCs, FallAsleep(p, ch),
         \/ call[p] # "io"
         \/ pc[p] = "s_release",
         UNCHANGED <<cur, hpc, rstate, call, req>>
  PROVE  DiskInv'
<1> USE DEF LockShape, LifeShape, Shape, DiskInv
<1>1. /\ pc' = [pc EXCEPT ![p] = "s_switch"] /\ state' = [state EXCEPT ![p] = "SLEEPING"]
  BY DEF FallAsleep, Goto
<1>2. state[p] = "RUNNING"
  BY OnCpuStates
<1>3. call[p] = "io" => rstate[req[p]] # "done" /\ pc[p] \in DiskPCs
  BY DEF NotDone, DiskPCs
<1>4. SleepPc'
  BY <1>1 DEF SleepPc
<1>5. ReqAt'
  BY <1>1, <1>3 DEF ReqAt
<1>6. NotDone'
  BY <1>1 DEF NotDone
<1>7. NoLostCompletion'
  BY <1>1, <1>3 DEF NoLostCompletion
<1>8. ReqInv'
  BY <1>1 DEF ReqInv, InOp, DiskPCs, Live
<1> QED BY <1>4, <1>5, <1>6, <1>7, <1>8

\* cswitch() to the scheduler.
LEMMA DiskSwitch ==
  ASSUME LockShape, SchedInv, DiskInv, NEW c \in CPUs, NEW p \in Procs,
         NEW from \in SwitchPCs, NEW to \in ResumePCs, from = "s_switch" <=> to = "s_resume",
         At(c, p, from), SwitchToScheduler(c, p, to)
  PROVE  DiskInv'
<1> USE DEF LockShape, LifeShape, Shape
<1>1. /\ cur[c] = p /\ pc[p] = from /\ pc' = [pc EXCEPT ![p] = to]
      /\ cur' = [cur EXCEPT ![c] = NULL] /\ UNCHANGED <<state, hpc, rstate, call, req>>
  BY DEF At, SwitchToScheduler, Goto
<1>2. \A q \in Procs : state'[q] = "SLEEPING" => pc'[q] \in {"s_switch", "s_resume"}
  BY <1>1 DEF DiskInv, SleepPc, SwitchPCs
<1>3. pc[p] \in DiskPCs <=> pc'[p] \in DiskPCs
  BY <1>1 DEF DiskPCs, SwitchPCs, ResumePCs
<1>4. \A d \in CPUs : cur'[d] # NULL /\ pc'[cur'[d]] \in {"s_acquire", "s_release"} =>
         cur'[d] = cur[d] /\ pc[cur[d]] \in {"s_acquire", "s_release"}
  BY <1>1 DEF ResumePCs
<1> QED BY <1>1, <1>2, <1>3, <1>4, DiskQuiet

\* Nobody else is on its way to sleep on a request while disk.lk is free or p's.
LEMMA DiskLockExcludes ==
  ASSUME LockShape, SchedInv, PlaceInv, NEW c \in CPUs, disklk \in {NULL, c},
         NEW d \in CPUs \ {c}, cur[d] # NULL
  PROVE  pc[cur[d]] \notin {"s_acquire", "s_release"}
BY DEF PlaceInv, PlaceAt, InDisk, DiskPoint, LockShape, LifeShape, Shape

\* A request is sent.
LEMMA DiskSends ==
  ASSUME LockShape, SchedInv, PlaceInv, DiskInv, CallAt, NEW c \in CPUs, NEW p \in Procs,
         DiskSubmit(c, p)
  PROVE  DiskInv'
<1> USE DEF LockShape, LifeShape, Shape, DiskInv
<1>1. PICK r \in Reqs : /\ rstate[r] = "free" /\ rstate' = [rstate EXCEPT ![r] = "sent"]
                        /\ req' = [req EXCEPT ![p] = r]
  BY DEF DiskSubmit, First
<1>2. /\ cur[c] = p /\ pc[p] = "d_submit" /\ pc' = [pc EXCEPT ![p] = "d_done"]
      /\ disklk = NULL /\ UNCHANGED <<state, cur, hpc, call>>
  BY DEF DiskSubmit, At, Goto
<1>3. state[p] = "RUNNING" /\ call[p] = "io"
  BY <1>2, OnCpuStates DEF SwitchPCs, CallAt, CallOk
<1>4. SleepPc' /\ ReqAt'
  BY <1>1, <1>2, <1>3 DEF SleepPc, ReqAt, DiskPCs
<1>5. NotDone'
  <2>1. \A d \in CPUs : cur[d] # NULL => pc'[cur[d]] \notin {"s_acquire", "s_release"}
    BY <1>2, DiskLockExcludes
  <2> QED BY <1>2, <2>1 DEF NotDone
<1>6. NoLostCompletion'
  <2> SUFFICES ASSUME NEW q \in Procs, state[q] = "SLEEPING", call[q] = "io",
                      rstate'[req'[q]] = "done"
               PROVE  hpc[DevCpu] = "h_wakeup"
    BY <1>2 DEF NoLostCompletion
  <2>1. q # p /\ req'[q] = req[q] /\ req[q] \in Reqs
    BY <1>1, <1>3 DEF SleepPc, ReqAt, DiskPCs
  <2> QED BY <1>1, <2>1 DEF NoLostCompletion
<1>7. ReqInv'
  <2> SUFFICES ASSUME NEW s \in Reqs, rstate'[s] # "free" PROVE \E q \in Procs : InOp(q, s)'
    BY DEF ReqInv
  <2>1. CASE s = r
    BY <1>1, <1>2, <1>3, <2>1 DEF InOp, DiskPCs, Live
  <2>2. CASE s # r
    <3>1. PICK q \in Procs : InOp(q, s)
      BY <1>1, <2>2 DEF ReqInv
    <3>2. q # p
      BY <1>2, <3>1 DEF InOp, DiskPCs
    <3> QED BY <1>1, <1>2, <3>1, <3>2 DEF InOp
  <2> QED BY <2>1, <2>2
<1> QED BY <1>4, <1>5, <1>6, <1>7

\* The request is done and given back, or the process goes to sleep on it.
LEMMA DiskAnswers ==
  ASSUME LockShape, SchedInv, PlaceInv, DiskInv, CallAt, NEW c \in CPUs, NEW p \in Procs,
         DiskDone(c, p)
  PROVE  DiskInv'
<1> USE DEF LockShape, LifeShape, Shape, DiskInv
<1>1. cur[c] = p /\ hpc[c] = "idle" /\ pc[p] = "d_done" /\ UNCHANGED <<state, cur, hpc, call, req>>
  BY DEF DiskDone, At
<1>2. state[p] = "RUNNING" /\ call[p] = "io" /\ disklk = c /\ req[p] \in Reqs
  BY <1>1, OnCpuStates, Here DEF SwitchPCs, CallAt, CallOk, DiskPoint, ReqAt, DiskPCs
<1>3. \A d \in CPUs \ {c} : cur[d] # NULL => pc[cur[d]] \notin {"s_acquire", "s_release"}
  BY <1>2, DiskLockExcludes
<1>4. CASE rstate[req[p]] = "done"
  <2>1. PICK r \in Reqs : /\ r = req[p] /\ rstate' = [rstate EXCEPT ![r] = "free"]
                          /\ pc' = [pc EXCEPT ![p] = "sigcheck"]
    BY <1>2, <1>4 DEF DiskDone, Goto
  <2>2. SleepPc' /\ ReqAt'
    BY <1>1, <1>2, <2>1 DEF SleepPc, ReqAt, DiskPCs
  <2>3. NotDone'
    BY <1>1, <1>3, <2>1 DEF NotDone
  <2>4. NoLostCompletion'
    <3> SUFFICES ASSUME NEW q \in Procs, state[q] = "SLEEPING", call[q] = "io",
                        rstate'[req[q]] = "done"
                 PROVE  hpc[DevCpu] = "h_wakeup"
      BY <1>1 DEF NoLostCompletion
    <3>1. req[q] \in Reqs
      BY DEF SleepPc, ReqAt, DiskPCs
    <3> QED BY <2>1, <3>1 DEF NoLostCompletion
  <2>5. ReqInv'
    <3> SUFFICES ASSUME NEW s \in Reqs, rstate'[s] # "free"
                 PROVE  \E q \in Procs : InOp(q, s)'
      BY DEF ReqInv
    <3>1. s # r /\ rstate[s] # "free"
      BY <2>1
    <3>2. PICK q \in Procs : InOp(q, s)
      BY <3>1 DEF ReqInv
    <3>3. q # p
      BY <2>1, <3>1, <3>2 DEF InOp
    <3> QED BY <1>1, <2>1, <3>2, <3>3 DEF InOp
  <2> QED BY <2>2, <2>3, <2>4, <2>5
<1>5. CASE rstate[req[p]] # "done"
  <2>1. UNCHANGED rstate /\ pc' = [pc EXCEPT ![p] = "s_acquire"]
    BY <1>5 DEF DiskDone, Goto
  <2>2. SleepPc' /\ ReqAt'
    BY <1>1, <1>2, <2>1 DEF SleepPc, ReqAt, DiskPCs
  <2>3. NotDone'
    BY <1>1, <1>3, <1>5, <2>1 DEF NotDone
  <2>4. NoLostCompletion'
    BY <1>1, <2>1 DEF NoLostCompletion
  <2>5. ReqInv'
    BY <1>1, <2>1 DEF ReqInv, InOp, DiskPCs
  <2> QED BY <2>2, <2>3, <2>4, <2>5
<1> QED BY <1>4, <1>5

\* The device finishes a request.
LEMMA DiskServes ==
  ASSUME LockShape, DiskInv, CallAt, NEW r \in Reqs, DeviceDone(r)
  PROVE  DiskInv'
<1> USE DEF LockShape, LifeShape, Shape, DiskInv
<1>1. /\ rstate[r] = "sent" /\ rstate' = [rstate EXCEPT ![r] = "used"]
      /\ UNCHANGED <<state, pc, call, req, cur, hpc>>
  BY DEF DeviceDone
<1>2. SleepPc' /\ ReqAt'
  BY <1>1 DEF SleepPc, ReqAt
<1>3. \A s \in Reqs : rstate'[s] = "done" => rstate[s] = "done"
  BY <1>1
<1>4. NotDone'
  <2> SUFFICES ASSUME NEW d \in CPUs, cur[d] # NULL, pc[cur[d]] \in {"s_acquire", "s_release"}
               PROVE  rstate'[req[cur[d]]] # "done"
    BY <1>1 DEF NotDone
  <2>1. req[cur[d]] \in Reqs
    BY DEF CallAt, CallOk, ReqAt, DiskPCs
  <2> QED BY <1>3, <2>1 DEF NotDone
<1>5. NoLostCompletion'
  <2> SUFFICES ASSUME NEW q \in Procs, state[q] = "SLEEPING", call[q] = "io",
                      rstate'[req[q]] = "done"
               PROVE  hpc[DevCpu] = "h_wakeup"
    BY <1>1 DEF NoLostCompletion
  <2>1. req[q] \in Reqs
    BY DEF SleepPc, ReqAt, DiskPCs
  <2> QED BY <1>3, <2>1 DEF NoLostCompletion
<1>6. ReqInv'
  BY <1>1 DEF ReqInv, InOp
<1> QED BY <1>2, <1>4, <1>5, <1>6

\* The handler marks a request done: nobody is on the way to sleep on one, and the
\* wake-up comes next.
LEMMA DiskMarks ==
  ASSUME LockShape, SchedInv, PlaceInv, DiskInv, NEW c \in CPUs, NEW r \in Reqs, IntrUsed(c, r)
  PROVE  DiskInv'
<1> USE DEF LockShape, LifeShape, Shape, DiskInv
<1>1. /\ hpc[c] = "h_loop" /\ hpc'[c] = "h_wakeup" /\ rstate[r] = "used"
      /\ rstate' = [rstate EXCEPT ![r] = "done"] /\ UNCHANGED <<state, pc, call, req, cur>>
  BY DEF IntrUsed, IntrAt
<1>2. c = DevCpu /\ disklk = c /\ ~InDisk(c)
  BY <1>1 DEF PlaceInv, PlaceAt, InHandler
<1>3. \A d \in CPUs : cur[d] # NULL => pc[cur[d]] \notin {"s_acquire", "s_release"}
  BY <1>2, DiskLockExcludes DEF InDisk, DiskPoint
<1>4. SleepPc' /\ ReqAt'
  BY <1>1 DEF SleepPc, ReqAt
<1>5. NotDone'
  BY <1>1, <1>3 DEF NotDone
<1>6. NoLostCompletion'
  BY <1>1, <1>2 DEF NoLostCompletion
<1>7. ReqInv'
  BY <1>1 DEF ReqInv, InOp
<1> QED BY <1>4, <1>5, <1>6, <1>7

\* wakeup(buf) in the handler wakes every process that sleeps on a request.
LEMMA DiskWakes ==
  ASSUME LockShape, DiskInv, SleepAt, NEW c \in CPUs, IntrWakeup(c)
  PROVE  DiskInv'
<1> USE DEF LockShape, LifeShape, Shape, DiskInv
<1>1. /\ \A q \in Procs : state'[q] = IF state[q] = "SLEEPING" /\ chan[q] = Buf
                                      THEN "RUNNABLE" ELSE state[q]
      /\ UNCHANGED <<pc, call, req, cur, rstate>>
  BY DEF IntrWakeup, Woken
<1>2. \A q \in Procs : state'[q] = "SLEEPING" => state[q] = "SLEEPING" /\ call[q] # "io"
  BY <1>1 DEF SleepAt
<1>3. \A q \in Procs : state[q] \in Live => state'[q] \in Live
  BY <1>1 DEF Live
<1>4. SleepPc' /\ ReqAt'
  BY <1>1, <1>2 DEF SleepPc, ReqAt
<1>5. NotDone'
  BY <1>1 DEF NotDone
<1>6. NoLostCompletion'
  BY <1>1, <1>2 DEF NoLostCompletion
<1>7. ReqInv'
  BY <1>1, <1>3 DEF ReqInv, InOp
<1> QED BY <1>4, <1>5, <1>6, <1>7

\* Every step keeps requests and processes together.
LEMMA DiskStep ==
  ASSUME LockShape, SchedInv, CallAt, SleepAt, MixInv, Tame, PlaceInv, DiskInv, Next
  PROVE  DiskInv'
<1>1. ASSUME NEW c \in CPUs, SchedTop(c) PROVE DiskInv'
  <2>1. UNCHANGED <<state, pc, call, req, cur, hpc, rstate>>
    BY <1>1 DEF SchedTop, SchedAt
  <2> QED BY <2>1, DiskQuiet DEF DiskInv, SleepPc
<1>2. ASSUME NEW c \in CPUs, SchedAcquire(c) PROVE DiskInv'
  <2>1. UNCHANGED <<state, pc, call, req, cur, hpc, rstate>>
    BY <1>2 DEF SchedAcquire, SchedAt, acquire
  <2> QED BY <2>1, DiskQuiet DEF DiskInv, SleepPc
<1>3. ASSUME NEW c \in CPUs, SchedDispatch(c) PROVE DiskInv'
  <2>1. PICK p \in Procs : /\ state[p] = "RUNNABLE" /\ pc[p] \in ResumePCs
                           /\ state' = [state EXCEPT ![p] = "RUNNING"]
                           /\ cur' = [cur EXCEPT ![c] = p]
    BY <1>3, Entered
  <2>2. UNCHANGED <<pc, call, req, hpc, rstate>>
    BY <1>3, Entered
  <2> QED BY <2>1, <2>2, DiskQuiet
    DEF DiskInv, SleepPc, ResumePCs, Live, LockShape, LifeShape, Shape
<1>4. ASSUME NEW c \in CPUs, SchedRelease(c) PROVE DiskInv'
  <2>1. UNCHANGED <<state, pc, call, req, cur, hpc, rstate>>
    BY <1>4 DEF SchedRelease, SchedAt, release
  <2> QED BY <2>1, DiskQuiet DEF DiskInv, SleepPc
<1>5. ASSUME NEW c \in CPUs, NEW p \in Procs, Sigcheck(c, p) PROVE DiskInv'
  <2>1. /\ cur[c] = p /\ pc[p] = "sigcheck" /\ pc'[p] \in {"user", "x_free"}
        /\ UNCHANGED <<state, cur, hpc, rstate>>
        /\ \A q \in Procs \ {p} : pc'[q] = pc[q] /\ call'[q] = call[q] /\ req'[q] = req[q]
    BY <1>5 DEF Sigcheck, At, Goto, Forget, LockShape, LifeShape, Shape
  <2> QED BY <2>1, DiskMoves DEF SwitchPCs, DiskPCs, Live
<1>6. ASSUME NEW c \in CPUs, NEW p \in Procs, Forkret(c, p) PROVE DiskInv'
  <2>1. /\ cur[c] = p /\ pc[p] = "forkret" /\ pc'[p] = "user"
        /\ UNCHANGED <<state, cur, hpc, rstate, call, req>>
        /\ \A q \in Procs \ {p} : pc'[q] = pc[q]
    BY <1>6 DEF Forkret, At, Goto, LockShape, LifeShape, Shape
  <2> QED BY <2>1, DiskMoves DEF SwitchPCs, DiskPCs, Live
<1>7. ASSUME NEW c \in CPUs, NEW p \in Procs, YieldAcquire(c, p) PROVE DiskInv'
  <2>1. /\ cur[c] = p /\ pc[p] = "y_acquire" /\ pc'[p] = "y_switch"
        /\ UNCHANGED <<cur, hpc, rstate, call, req>>
        /\ \A q \in Procs \ {p} : pc'[q] = pc[q]
    BY <1>7 DEF YieldAcquire, At, Goto, acquire, LockShape, LifeShape, Shape
  <2>2. \A q \in Procs : state'[q] = state[q] \/ (q = p /\ state'[q] = "RUNNABLE")
    BY <1>7 DEF YieldAcquire, LockShape, LifeShape, Shape
  <2> QED BY <2>1, <2>2, DiskMoves DEF SwitchPCs, DiskPCs, Live
<1>8. ASSUME NEW c \in CPUs, NEW p \in Procs, YieldSwitch(c, p) PROVE DiskInv'
  BY <1>8, DiskSwitch DEF YieldSwitch, SwitchPCs, ResumePCs
<1>9. ASSUME NEW c \in CPUs, NEW p \in Procs, YieldResume(c, p) PROVE DiskInv'
  <2>1. /\ cur[c] = p /\ pc[p] = "y_resume" /\ pc'[p] = "sigcheck"
        /\ UNCHANGED <<state, cur, hpc, rstate, call, req>>
        /\ \A q \in Procs \ {p} : pc'[q] = pc[q]
    BY <1>9 DEF YieldResume, At, Goto, release, LockShape, LifeShape, Shape
  <2> QED BY <2>1, DiskMoves DEF SwitchPCs, DiskPCs, Live
<1>10. ASSUME NEW c \in CPUs, NEW p \in Procs, NewprocSlot(c, p) PROVE DiskInv'
  <2>1. /\ cur[c] = p /\ pc[p] = "f_slot" /\ pc'[p] \in {"sigcheck", "f_pid"}
        /\ UNCHANGED <<cur, hpc, rstate, call, req>>
        /\ \A q \in Procs \ {p} : pc'[q] = pc[q]
    BY <1>10 DEF NewprocSlot, At, Goto, First, Critical, LockShape, LifeShape, Shape
  <2>2. \A q \in Procs : state'[q] = state[q] \/ (state[q] = "UNUSED" /\ state'[q] = "CREATED")
    BY <1>10 DEF NewprocSlot, First, LockShape, LifeShape, Shape
  <2> QED BY <2>1, <2>2, DiskMoves DEF SwitchPCs, DiskPCs, Live
<1>11. ASSUME NEW c \in CPUs, NEW p \in Procs, NewprocPid(c, p) PROVE DiskInv'
  <2>1. /\ cur[c] = p /\ pc[p] = "f_pid" /\ pc'[p] = "f_mem"
        /\ UNCHANGED <<state, cur, hpc, rstate, call, req>>
        /\ \A q \in Procs \ {p} : pc'[q] = pc[q]
    BY <1>11 DEF NewprocPid, At, Goto, LockShape, LifeShape, Shape
  <2> QED BY <2>1, DiskMoves DEF SwitchPCs, DiskPCs, Live
<1>12. ASSUME NEW c \in CPUs, NEW p \in Procs, NewprocMem(c, p) PROVE DiskInv'
  <2>1. /\ cur[c] = p /\ pc[p] = "f_mem" /\ UNCHANGED <<state, cur, hpc, rstate, call, req>>
        /\ \A q \in Procs : pc'[q] \in {pc[q], "forkret", "f_publish"}
        /\ \A q \in Procs \ {p, obj[p]} : pc'[q] = pc[q]
    BY <1>12 DEF NewprocMem, At, LockShape, LifeShape, Shape
  <2> QED BY <2>1, DiskSlot DEF ForkPCs
<1>13. ASSUME NEW c \in CPUs, NEW p \in Procs, NewprocNoMem(c, p) PROVE DiskInv'
  <2>1. /\ cur[c] = p /\ pc[p] = "f_mem" /\ pc'[p] \in {"sigcheck", "f_fail"}
        /\ UNCHANGED <<state, cur, hpc, rstate, call, req>>
        /\ \A q \in Procs \ {p} : pc'[q] = pc[q]
    BY <1>13 DEF NewprocNoMem, At, Goto, LockShape, LifeShape, Shape
  <2> QED BY <2>1, DiskMoves DEF SwitchPCs, DiskPCs, Live
<1>14. ASSUME NEW c \in CPUs, NEW p \in Procs, ForkPublish(c, p) PROVE DiskInv'
  <2>1. /\ cur[c] = p /\ pc[p] = "f_publish" /\ pc'[p] = "sigcheck"
        /\ UNCHANGED <<cur, hpc, rstate, call, req>>
        /\ \A q \in Procs \ {p} : pc'[q] = pc[q]
    BY <1>14 DEF ForkPublish, At, Goto, Critical, LockShape, LifeShape, Shape
  <2>2. \A q \in Procs : state'[q] = state[q] \/ state'[q] = "RUNNABLE"
    BY <1>14 DEF ForkPublish, LockShape, LifeShape, Shape
  <2> QED BY <2>1, <2>2, DiskMoves DEF SwitchPCs, DiskPCs, Live
<1>15. ASSUME NEW c \in CPUs, NEW p \in Procs, ForkFail(c, p) PROVE DiskInv'
  <2>1. /\ cur[c] = p /\ pc[p] = "f_fail" /\ pc'[p] = "freeproc"
        /\ UNCHANGED <<state, cur, hpc, rstate, call, req>>
        /\ \A q \in Procs \ {p} : pc'[q] = pc[q]
    BY <1>15 DEF ForkFail, At, Goto, acquire, LockShape, LifeShape, Shape
  <2> QED BY <2>1, DiskMoves DEF SwitchPCs, DiskPCs, Live
<1>16. ASSUME NEW c \in CPUs, NEW p \in Procs, SleepAcquire(c, p) PROVE DiskInv'
  <2>1. /\ cur[c] = p /\ pc[p] = "s_acquire" /\ pc'[p] = "s_release"
        /\ UNCHANGED <<state, cur, hpc, rstate, call, req>>
        /\ \A q \in Procs \ {p} : pc'[q] = pc[q]
    BY <1>16 DEF SleepAcquire, At, Goto, acquire, LockShape, LifeShape, Shape
  <2> QED BY <2>1, DiskMoves DEF SwitchPCs, DiskPCs, Live
<1>17. ASSUME NEW c \in CPUs, NEW p \in Procs, SleepRelease(c, p) PROVE DiskInv'
  <2>1. /\ cur[c] = p /\ pc[p] = "s_release" /\ FallAsleep(p, Buf)
        /\ UNCHANGED <<cur, hpc, rstate, call, req>>
    BY <1>17 DEF SleepRelease, At
  <2> QED BY <2>1, DiskSleeps DEF SwitchPCs
<1>18. ASSUME NEW c \in CPUs, NEW p \in Procs, SleepSwitch(c, p) PROVE DiskInv'
  BY <1>18, DiskSwitch DEF SleepSwitch, SwitchPCs, ResumePCs
<1>19. ASSUME NEW c \in CPUs, NEW p \in Procs, SleepResume(c, p) PROVE DiskInv'
  <2>1. /\ cur[c] = p /\ pc[p] = "s_resume" /\ pc'[p] \in {"s_relock", "s_sig"}
        /\ UNCHANGED <<state, cur, hpc, rstate, call, req>>
        /\ \A q \in Procs \ {p} : pc'[q] = pc[q]
    BY <1>19 DEF SleepResume, At, Goto, release, LockShape, LifeShape, Shape
  <2> QED BY <2>1, DiskMoves DEF SwitchPCs, DiskPCs, Live
<1>20. ASSUME NEW c \in CPUs, NEW p \in Procs, SleepRelock(c, p) PROVE DiskInv'
  <2>1. /\ cur[c] = p /\ pc[p] = "s_relock" /\ pc'[p] = "s_sig"
        /\ UNCHANGED <<state, cur, hpc, rstate, call, req>>
        /\ \A q \in Procs \ {p} : pc'[q] = pc[q]
    BY <1>20 DEF SleepRelock, At, Goto, LockShape, LifeShape, Shape
  <2> QED BY <2>1, DiskMoves DEF SwitchPCs, DiskPCs, Live
<1>21. ASSUME NEW c \in CPUs, NEW p \in Procs, SleepSigcheck(c, p) PROVE DiskInv'
  <2>1. /\ cur[c] = p /\ pc[p] = "s_sig" /\ UNCHANGED <<state, cur, hpc, rstate>>
        /\ \A q \in Procs \ {p} : pc'[q] = pc[q] /\ call'[q] = call[q] /\ req'[q] = req[q]
    BY <1>21 DEF SleepSigcheck, At, Goto, Forget, LockShape, LifeShape, Shape
  <2>2. CASE call[p] = "io"
    <3>1. ~sig[p]
      BY <2>2 DEF Tame, MixInv, DiskIdle, SignalsIdle
    <3>2. pc'[p] = "d_done" /\ UNCHANGED <<call, req>>
      BY <1>21, <2>2, <3>1 DEF SleepSigcheck, Goto, LockShape, LifeShape, Shape
    <3> QED BY <2>1, <3>2, DiskMoves DEF SwitchPCs, DiskPCs, Live
  <2>3. CASE call[p] # "io"
    <3>1. call'[p] # "io" /\ pc'[p] \in {"x_free", "w_scan"}
      BY <1>21, <2>3 DEF SleepSigcheck, Goto, Forget, LockShape, LifeShape, Shape
    <3> QED BY <2>1, <2>3, <3>1, DiskMoves DEF SwitchPCs, Live
  <2> QED BY <2>2, <2>3
<1>22. ASSUME NEW c \in CPUs, NEW p \in Procs, WaitScan(c, p) PROVE DiskInv'
  <2>1. /\ call[p] # "io" /\ cur[c] = p /\ pc[p] = "w_scan"
        /\ UNCHANGED <<cur, hpc, rstate, call, req>>
    BY <1>22 DEF WaitScan, At, CallAt, CallOk
  <2>2. CASE FallAsleep(p, p)
    BY <2>1, <2>2, DiskSleeps DEF SwitchPCs
  <2>3. CASE Goto(p, "freeproc") /\ UNCHANGED state
    BY <2>1, <2>3, DiskMoves DEF Goto, SwitchPCs, LockShape, LifeShape, Shape
  <2> QED BY <1>22, <2>2, <2>3 DEF WaitScan
<1>23. ASSUME NEW c \in CPUs, NEW p \in Procs, Freeproc(c, p) PROVE DiskInv'
  <2>1. /\ cur[c] = p /\ pc[p] = "freeproc" /\ UNCHANGED <<cur, hpc, rstate, call, req>>
        /\ \A q \in Procs : pc'[q] \in {pc[q], "none", "sigcheck"}
        /\ \A q \in Procs \ {p, obj[p]} : pc'[q] = pc[q]
        /\ \A q \in Procs : state'[q] = state[q] \/ (q = obj[p] /\ state'[q] = "UNUSED")
    BY <1>23 DEF Freeproc, At, LockShape, LifeShape, Shape
  <2> QED BY <2>1, DiskSlot
<1>24. ASSUME NEW c \in CPUs, NEW p \in Procs, KillPget(c, p) PROVE DiskInv'
  <2>1. /\ cur[c] = p /\ pc[p] = "k_pget" /\ pc'[p] \in {"sigcheck", "k_sig"}
        /\ UNCHANGED <<state, cur, hpc, rstate, call, req>>
        /\ \A q \in Procs \ {p} : pc'[q] = pc[q]
    BY <1>24 DEF KillPget, At, Goto, First, Critical, LockShape, LifeShape, Shape
  <2> QED BY <2>1, DiskMoves DEF SwitchPCs, DiskPCs, Live
<1>25. ASSUME NEW c \in CPUs, NEW p \in Procs, KillSig(c, p) PROVE DiskInv'
  <2>1. /\ cur[c] = p /\ pc[p] = "k_sig" /\ pc'[p] = "k_wake"
        /\ UNCHANGED <<state, cur, hpc, rstate, call, req>>
        /\ \A q \in Procs \ {p} : pc'[q] = pc[q]
    BY <1>25 DEF KillSig, At, Goto, LockShape, LifeShape, Shape
  <2> QED BY <2>1, DiskMoves DEF SwitchPCs, DiskPCs, Live
<1>26. ASSUME NEW c \in CPUs, NEW p \in Procs, KillWake(c, p) PROVE DiskInv'
  <2>1. /\ cur[c] = p /\ pc[p] = "k_wake" /\ pc'[p] = "sigcheck"
        /\ UNCHANGED <<cur, hpc, rstate, call, req>>
        /\ \A q \in Procs \ {p} : pc'[q] = pc[q]
    BY <1>26 DEF KillWake, At, Goto, Critical, LockShape, LifeShape, Shape
  <2>2. \A q \in Procs : state'[q] = state[q] \/ state'[q] = "RUNNABLE"
    BY <1>26 DEF KillWake, LockShape, LifeShape, Shape
  <2> QED BY <2>1, <2>2, DiskMoves DEF SwitchPCs, DiskPCs, Live
<1>27. ASSUME NEW c \in CPUs, NEW p \in Procs, ExitFree(c, p) PROVE DiskInv'
  <2>1. /\ cur[c] = p /\ pc[p] = "x_free" /\ pc'[p] = "x_acquire"
        /\ UNCHANGED <<state, cur, hpc, rstate>>
        /\ \A q \in Procs \ {p} : pc'[q] = pc[q] /\ call'[q] = call[q] /\ req'[q] = req[q]
    BY <1>27 DEF ExitFree, At, Goto, Forget, LockShape, LifeShape, Shape
  <2> QED BY <2>1, DiskMoves DEF SwitchPCs, DiskPCs, Live
<1>28. ASSUME NEW c \in CPUs, NEW p \in Procs, ExitAcquire(c, p) PROVE DiskInv'
  <2>1. /\ cur[c] = p /\ pc[p] = "x_acquire" /\ pc'[p] = "x_switch"
        /\ UNCHANGED <<cur, hpc, rstate, call, req>>
        /\ \A q \in Procs \ {p} : pc'[q] = pc[q]
    BY <1>28 DEF ExitAcquire, At, Goto, acquire, LockShape, LifeShape, Shape
  <2>2. \A q \in Procs : state'[q] \in {state[q], "RUNNABLE"} \/ (q = p /\ state'[q] = "ZOMBIE")
    BY <1>28 DEF ExitAcquire, Woken, Goto, LockShape, LifeShape, Shape
  <2> QED BY <2>1, <2>2, DiskMoves DEF SwitchPCs, DiskPCs, Live
<1>29. ASSUME NEW c \in CPUs, NEW p \in Procs, ExitSwitch(c, p) PROVE DiskInv'
  BY <1>29, DiskSwitch DEF ExitSwitch, SwitchPCs, ResumePCs
<1>30. ASSUME NEW c \in CPUs, NEW p \in Procs, DiskSubmit(c, p) PROVE DiskInv'
  BY <1>30, DiskSends
<1>31. ASSUME NEW c \in CPUs, NEW p \in Procs, DiskDone(c, p) PROVE DiskInv'
  BY <1>31, DiskAnswers
<1>32. ASSUME NEW c \in CPUs, NEW p \in Procs, TimerIrq(c, p) PROVE DiskInv'
  <2>1. /\ cur[c] = p /\ pc[p] = "user" /\ pc'[p] \in {"sigcheck", "y_acquire"}
        /\ UNCHANGED <<state, cur, hpc, rstate, call, req>>
        /\ \A q \in Procs \ {p} : pc'[q] = pc[q]
    BY <1>32 DEF TimerIrq, At, Goto, TrapTo, LockShape, LifeShape, Shape
  <2> QED BY <2>1, DiskMoves DEF SwitchPCs, DiskPCs, Live
<1>33. ASSUME NEW c \in CPUs, NEW p \in Procs, Syscall(c, p) PROVE DiskInv'
  <2>1. PICK s \in AllCalls \ {"abort"} : TrapTo(c, p, EntryOf(s))
    BY <1>33, CallsAssumption DEF Syscall, UserCalls
  <2>2. EntryOf(s) \in {"x_free", "f_slot", "w_scan", "k_pget", "k_sig", "d_submit", "sigcheck"}
    BY DEF EntryOf, AllCalls
  <2>3. /\ cur[c] = p /\ pc[p] = "user" /\ pc'[p] = EntryOf(s)
        /\ UNCHANGED <<state, cur, hpc, rstate>>
        /\ \A q \in Procs \ {p} : pc'[q] = pc[q] /\ call'[q] = call[q] /\ req'[q] = req[q]
    BY <1>33, <2>1 DEF Syscall, TrapTo, At, Goto, LockShape, LifeShape, Shape
  <2> QED BY <2>2, <2>3, DiskMoves DEF SwitchPCs, DiskPCs, Live
<1>34. ASSUME NEW c \in CPUs, DeviceIrq(c) PROVE DiskInv'
  <2>1. /\ hpc[c] # "h_wakeup" /\ (\A d \in CPUs \ {c} : hpc'[d] = hpc[d])
        /\ UNCHANGED <<state, pc, call, req, cur, rstate>>
    BY <1>34 DEF DeviceIrq, IntrAt, LockShape, LifeShape, Shape
  <2> QED BY <2>1, CPUsAssumption, DiskQuiet DEF DiskInv, SleepPc, DevCpu
<1>35. ASSUME NEW c \in CPUs, IntrAcquire(c) PROVE DiskInv'
  <2>1. /\ hpc[c] # "h_wakeup" /\ (\A d \in CPUs \ {c} : hpc'[d] = hpc[d])
        /\ UNCHANGED <<state, pc, call, req, cur, rstate>>
    BY <1>35 DEF IntrAcquire, IntrAt, LockShape, LifeShape, Shape
  <2> QED BY <2>1, CPUsAssumption, DiskQuiet DEF DiskInv, SleepPc, DevCpu
<1>36. ASSUME NEW c \in CPUs, IntrWakeup(c) PROVE DiskInv'
  BY <1>36, DiskWakes
<1>37. ASSUME NEW c \in CPUs, IntrReturn(c) PROVE DiskInv'
  <2>1. /\ hpc[c] # "h_wakeup" /\ (\A d \in CPUs \ {c} : hpc'[d] = hpc[d])
        /\ UNCHANGED <<state, call, req, cur, rstate>>
    BY <1>37 DEF IntrReturn, IntrAt, LockShape, LifeShape, Shape
  <2>2. \A q \in Procs : pc'[q] = pc[q] \/ (pc[q] = "user" /\ pc'[q] = "sigcheck")
    BY <1>37 DEF IntrReturn, InUser, Goto, LockShape, LifeShape, Shape
  <2> QED BY <2>1, <2>2, CPUsAssumption, DiskQuiet
    DEF DiskInv, SleepPc, DiskPCs, DevCpu, LockShape, LifeShape, Shape
<1>38. ASSUME NEW c \in CPUs, Panic(c) PROVE DiskInv'
  <2>1. UNCHANGED <<state, pc, call, req, cur, hpc, rstate>>
    BY <1>38 DEF Panic
  <2> QED BY <2>1, DiskQuiet DEF DiskInv, SleepPc
<1>39. ASSUME NEW c \in CPUs, NEW r \in Reqs, IntrUsed(c, r) PROVE DiskInv'
  BY <1>39, DiskMarks
<1>40. ASSUME NEW r \in Reqs, DeviceDone(r) PROVE DiskInv'
  BY <1>40, DiskServes
<1> QED
  BY <1>1, <1>2, <1>3, <1>4, <1>5, <1>6, <1>7, <1>8, <1>9,
     <1>10, <1>11, <1>12, <1>13, <1>14, <1>15, <1>16, <1>17, <1>18,
     <1>19, <1>20, <1>21, <1>22, <1>23, <1>24, <1>25, <1>26, <1>27,
     <1>28, <1>29, <1>30, <1>31, <1>32, <1>33, <1>34, <1>35, <1>36,
     <1>37, <1>38, <1>39, <1>40
  DEF Next, CpuStep, TaskStep, SchedStep, KernelStep, IntrStep

-----------------------------------------------------------------------------
(* init.                                                                   *)

\* A step that neither signals init nor sends it to exitproc().
LEMMA InitQuiet ==
  ASSUME InitInv, pc'[initproc] = "x_free" => pc[initproc] = "x_free",
         sig'[initproc] => sig[initproc], pid'[initproc] = pid[initproc],
         \A q \in Procs : pc'[q] = "k_sig" =>
             (pc[q] = "k_sig" /\ obj'[q] = obj[q]) \/ obj'[q] # initproc
  PROVE  InitInv'
BY DEF InitInv

\* Every step leaves init alone, if init itself neither exits nor faults.
LEMMA InitStep ==
  ASSUME LockShape, SchedInv, CallAt, InitLive, InitStays, InitInv, Next
  PROVE  InitInv'
<1>1. ASSUME NEW c \in CPUs, SchedTop(c) PROVE InitInv'
  BY <1>1, InitQuiet DEF SchedTop, SchedAt, LockShape, LifeShape, Shape
<1>2. ASSUME NEW c \in CPUs, SchedAcquire(c) PROVE InitInv'
  BY <1>2, InitQuiet DEF SchedAcquire, SchedAt, acquire, LockShape, LifeShape, Shape
<1>3. ASSUME NEW c \in CPUs, SchedDispatch(c) PROVE InitInv'
  BY <1>3, InitQuiet DEF SchedDispatch, SchedAt, LockShape, LifeShape, Shape
<1>4. ASSUME NEW c \in CPUs, SchedRelease(c) PROVE InitInv'
  BY <1>4, InitQuiet DEF SchedRelease, SchedAt, release, LockShape, LifeShape, Shape
<1>5. ASSUME NEW c \in CPUs, NEW p \in Procs, Sigcheck(c, p) PROVE InitInv'
  <2>1. ~sig[initproc]
    BY DEF InitInv
  <2> QED BY <1>5, <2>1, InitQuiet
    DEF Sigcheck, At, Goto, Forget, LockShape, LifeShape, Shape
<1>6. ASSUME NEW c \in CPUs, NEW p \in Procs, Forkret(c, p) PROVE InitInv'
  BY <1>6, InitQuiet DEF Forkret, At, Goto, LockShape, LifeShape, Shape
<1>7. ASSUME NEW c \in CPUs, NEW p \in Procs, YieldAcquire(c, p) PROVE InitInv'
  BY <1>7, InitQuiet DEF YieldAcquire, At, Goto, acquire, LockShape, LifeShape, Shape
<1>8. ASSUME NEW c \in CPUs, NEW p \in Procs, YieldSwitch(c, p) PROVE InitInv'
  BY <1>8, InitQuiet
  DEF YieldSwitch, At, Goto, SwitchToScheduler, LockShape, LifeShape, Shape
<1>9. ASSUME NEW c \in CPUs, NEW p \in Procs, YieldResume(c, p) PROVE InitInv'
  BY <1>9, InitQuiet DEF YieldResume, At, Goto, release, LockShape, LifeShape, Shape
<1>10. ASSUME NEW c \in CPUs, NEW p \in Procs, NewprocSlot(c, p) PROVE InitInv'
  BY <1>10, InitQuiet
  DEF NewprocSlot, At, Goto, First, Critical, LockShape, LifeShape, Shape
<1>11. ASSUME NEW c \in CPUs, NEW p \in Procs, NewprocPid(c, p) PROVE InitInv'
  <2>1. obj[p] # initproc
    BY <1>11
    DEF NewprocPid, At, SchedInv, SlotOwned, ForkPCs, InitLive, Live, LockShape,
        LifeShape, Shape
  <2> QED BY <1>11, <2>1, InitQuiet DEF NewprocPid, At, Goto, LockShape, LifeShape, Shape
<1>12. ASSUME NEW c \in CPUs, NEW p \in Procs, NewprocMem(c, p) PROVE InitInv'
  <2>1. obj[p] # initproc
    BY <1>12
    DEF NewprocMem, At, SchedInv, SlotOwned, ForkPCs, InitLive, Live, LockShape,
        LifeShape, Shape
  <2> QED BY <1>12, <2>1, InitQuiet DEF NewprocMem, At, Goto, LockShape, LifeShape, Shape
<1>13. ASSUME NEW c \in CPUs, NEW p \in Procs, NewprocNoMem(c, p) PROVE InitInv'
  BY <1>13, InitQuiet DEF NewprocNoMem, At, Goto, LockShape, LifeShape, Shape
<1>14. ASSUME NEW c \in CPUs, NEW p \in Procs, ForkPublish(c, p) PROVE InitInv'
  BY <1>14, InitQuiet DEF ForkPublish, At, Goto, Critical, LockShape, LifeShape, Shape
<1>15. ASSUME NEW c \in CPUs, NEW p \in Procs, ForkFail(c, p) PROVE InitInv'
  BY <1>15, InitQuiet DEF ForkFail, At, Goto, acquire, LockShape, LifeShape, Shape
<1>16. ASSUME NEW c \in CPUs, NEW p \in Procs, SleepAcquire(c, p) PROVE InitInv'
  BY <1>16, InitQuiet DEF SleepAcquire, At, Goto, acquire, LockShape, LifeShape, Shape
<1>17. ASSUME NEW c \in CPUs, NEW p \in Procs, SleepRelease(c, p) PROVE InitInv'
  BY <1>17, InitQuiet DEF SleepRelease, At, Goto, FallAsleep, LockShape, LifeShape, Shape
<1>18. ASSUME NEW c \in CPUs, NEW p \in Procs, SleepSwitch(c, p) PROVE InitInv'
  BY <1>18, InitQuiet
  DEF SleepSwitch, At, Goto, SwitchToScheduler, LockShape, LifeShape, Shape
<1>19. ASSUME NEW c \in CPUs, NEW p \in Procs, SleepResume(c, p) PROVE InitInv'
  BY <1>19, InitQuiet DEF SleepResume, At, Goto, release, LockShape, LifeShape, Shape
<1>20. ASSUME NEW c \in CPUs, NEW p \in Procs, SleepRelock(c, p) PROVE InitInv'
  BY <1>20, InitQuiet DEF SleepRelock, At, Goto, LockShape, LifeShape, Shape
<1>21. ASSUME NEW c \in CPUs, NEW p \in Procs, SleepSigcheck(c, p) PROVE InitInv'
  <2>1. ~sig[initproc]
    BY DEF InitInv
  <2> QED BY <1>21, <2>1, InitQuiet
    DEF SleepSigcheck, At, Goto, Forget, LockShape, LifeShape, Shape
<1>22. ASSUME NEW c \in CPUs, NEW p \in Procs, WaitScan(c, p) PROVE InitInv'
  BY <1>22, InitQuiet
  DEF WaitScan, At, Goto, FallAsleep, First, acquire, LockShape, LifeShape, Shape
<1>23. ASSUME NEW c \in CPUs, NEW p \in Procs, Freeproc(c, p) PROVE InitInv'
  <2>1. obj[p] # initproc
    BY <1>23
    DEF Freeproc, At, SchedInv, SlotOwned, ForkPCs, InitLive, Live, LockShape, LifeShape,
        Shape
  <2> QED BY <1>23, <2>1, InitQuiet
    DEF Freeproc, At, Goto, release, LockShape, LifeShape, Shape
<1>24. ASSUME NEW c \in CPUs, NEW p \in Procs, KillPget(c, p) PROVE InitInv'
  <2>1. arg[p] # 0 /\ pid[initproc] = 0
    BY <1>24 DEF KillPget, At, CallAt, CallOk, InitInv
  <2>2. /\ UNCHANGED <<sig, pid>> /\ (\A q \in Procs \ {p} : pc'[q] = pc[q] /\ obj'[q] = obj[q])
        /\ pc'[p] \in {"sigcheck", "k_sig"}
        /\ pc'[p] = "k_sig" => pid[obj'[p]] = arg[p]
    BY <1>24 DEF KillPget, At, Goto, First, LockShape, LifeShape, Shape
  <2> QED BY <2>1, <2>2, InitQuiet DEF LockShape, LifeShape, Shape
<1>25. ASSUME NEW c \in CPUs, NEW p \in Procs, KillSig(c, p) PROVE InitInv'
  <2>1. obj[p] # initproc
    BY <1>25 DEF KillSig, At, InitInv
  <2> QED BY <1>25, <2>1, InitQuiet DEF KillSig, At, Goto, LockShape, LifeShape, Shape
<1>26. ASSUME NEW c \in CPUs, NEW p \in Procs, KillWake(c, p) PROVE InitInv'
  BY <1>26, InitQuiet DEF KillWake, At, Goto, Critical, LockShape, LifeShape, Shape
<1>27. ASSUME NEW c \in CPUs, NEW p \in Procs, ExitFree(c, p) PROVE InitInv'
  BY <1>27, InitQuiet DEF ExitFree, At, Goto, Forget, LockShape, LifeShape, Shape
<1>28. ASSUME NEW c \in CPUs, NEW p \in Procs, ExitAcquire(c, p) PROVE InitInv'
  BY <1>28, InitQuiet DEF ExitAcquire, At, Goto, acquire, LockShape, LifeShape, Shape
<1>29. ASSUME NEW c \in CPUs, NEW p \in Procs, ExitSwitch(c, p) PROVE InitInv'
  BY <1>29, InitQuiet
  DEF ExitSwitch, At, Goto, SwitchToScheduler, LockShape, LifeShape, Shape
<1>30. ASSUME NEW c \in CPUs, NEW p \in Procs, DiskSubmit(c, p) PROVE InitInv'
  BY <1>30, InitQuiet DEF DiskSubmit, At, Goto, LockShape, LifeShape, Shape
<1>31. ASSUME NEW c \in CPUs, NEW p \in Procs, DiskDone(c, p) PROVE InitInv'
  BY <1>31, InitQuiet DEF DiskDone, At, Goto, LockShape, LifeShape, Shape
<1>32. ASSUME NEW c \in CPUs, NEW p \in Procs, TimerIrq(c, p) PROVE InitInv'
  BY <1>32, InitQuiet DEF TimerIrq, At, Goto, TrapTo, LockShape, LifeShape, Shape
<1>33. ASSUME NEW c \in CPUs, NEW p \in Procs, Syscall(c, p) PROVE InitInv'
  <2>1. PICK s \in AllCalls \ {"abort"} :
           /\ s \in IF p = initproc THEN InitCalls ELSE Calls
           /\ TrapTo(c, p, EntryOf(s)) /\ UNCHANGED <<sig, pid>>
           /\ obj' = [obj EXCEPT ![p] = IF s = "fault" THEN p ELSE NULL]
    BY <1>33, CallsAssumption DEF Syscall, UserCalls
  <2>2. p = initproc => EntryOf(s) \notin {"x_free", "k_sig"}
    BY <2>1 DEF InitStays, EntryOf, AllCalls
  <2>3. pc' = [pc EXCEPT ![p] = EntryOf(s)]
    BY <2>1 DEF TrapTo, Goto
  <2>4. obj'[p] # initproc \/ EntryOf(s) # "k_sig"
    BY <2>1, <2>2 DEF EntryOf, AllCalls, LockShape, LifeShape, Shape
  <2> QED BY <2>1, <2>2, <2>3, <2>4, InitQuiet DEF LockShape, LifeShape, Shape
<1>34. ASSUME NEW c \in CPUs, DeviceIrq(c) PROVE InitInv'
  BY <1>34, InitQuiet DEF DeviceIrq, LockShape, LifeShape, Shape
<1>35. ASSUME NEW c \in CPUs, IntrAcquire(c) PROVE InitInv'
  BY <1>35, InitQuiet DEF IntrAcquire, LockShape, LifeShape, Shape
<1>36. ASSUME NEW c \in CPUs, IntrWakeup(c) PROVE InitInv'
  BY <1>36, InitQuiet DEF IntrWakeup, Critical, LockShape, LifeShape, Shape
<1>37. ASSUME NEW c \in CPUs, IntrReturn(c) PROVE InitInv'
  BY <1>37, InitQuiet DEF IntrReturn, Goto, InUser, LockShape, LifeShape, Shape
<1>38. ASSUME NEW c \in CPUs, Panic(c) PROVE InitInv'
  BY <1>38, InitQuiet DEF Panic, LockShape, LifeShape, Shape
<1>39. ASSUME NEW c \in CPUs, NEW r \in Reqs, IntrUsed(c, r) PROVE InitInv'
  BY <1>39, InitQuiet DEF IntrUsed, LockShape, LifeShape, Shape
<1>40. ASSUME NEW r \in Reqs, DeviceDone(r) PROVE InitInv'
  BY <1>40, InitQuiet DEF DeviceDone, LockShape, LifeShape, Shape
<1> QED
  BY <1>1, <1>2, <1>3, <1>4, <1>5, <1>6, <1>7, <1>8, <1>9,
     <1>10, <1>11, <1>12, <1>13, <1>14, <1>15, <1>16, <1>17, <1>18,
     <1>19, <1>20, <1>21, <1>22, <1>23, <1>24, <1>25, <1>26, <1>27,
     <1>28, <1>29, <1>30, <1>31, <1>32, <1>33, <1>34, <1>35, <1>36,
     <1>37, <1>38, <1>39, <1>40
  DEF Next, CpuStep, TaskStep, SchedStep, KernelStep, IntrStep

-----------------------------------------------------------------------------
(* The kernel's assertions.                                                *)

\* With a request for every other process there is one for this process.
LEMMA Pigeonhole ==
  ASSUME LockShape, ReqInv, \A r \in Reqs : rstate[r] # "free", NEW p \in Procs,
         pc[p] = "d_submit"
  PROVE  NREQ < NPROC
<1> SUFFICES ASSUME NREQ >= NPROC PROVE FALSE
  BY NREQAssumption, NPROCAssumption
<1> DEFINE T == Procs \ {p}
           f == [r \in Reqs |-> CHOOSE q \in Procs : InOp(q, r)]
<1>1. \A r \in Reqs : f[r] \in Procs /\ InOp(f[r], r)
  BY DEF ReqInv
<1>2. f \in [Reqs -> T]
  BY <1>1 DEF InOp, DiskPCs
<1>3. IsFiniteSet(Reqs) /\ Cardinality(Reqs) = NREQ
  BY NREQAssumption, FS_Interval DEF Reqs
<1>4. IsFiniteSet(Procs) /\ Cardinality(Procs) = NPROC
  <2>1. NPROC - 1 \in Int /\ ~(0 > NPROC - 1) /\ NPROC - 1 - 0 + 1 = NPROC
    BY NPROCAssumption
  <2> QED BY <2>1, FS_Interval DEF Procs
<1>5. IsFiniteSet(T) /\ Cardinality(T) = NPROC - 1
  BY <1>4, FS_RemoveElement
<1>6. Cardinality(T) < Cardinality(Reqs)
  BY <1>3, <1>5, NREQAssumption, NPROCAssumption
<1> HIDE DEF f, T
<1>7. PICK r, s \in Reqs : r # s /\ f[r] = f[s]
  BY <1>2, <1>3, <1>5, <1>6, FS_PigeonHole
<1> QED BY <1>1, <1>7 DEF InOp

\* acquire() does not find its own lock held.
LEMMA NotHeld ==
  ASSUME LockShape, SchedInv, PlaceInv, kalloclk = NULL, NEW c \in CPUs
  PROVE  ~AlreadyHeld(c)
<1> USE DEF LockShape, LifeShape, Shape
<1>1. PlaceAt(c)
  BY DEF PlaceInv
<1>2. ~(lk = c /\ WantsTable(c))
  BY <1>1 DEF PlaceAt, InTable, WantsTable, SchedAt, At, HoldPCs, SwitchPCs, ResumePCs
<1>3. ~(disklk = c /\ WantsDisk(c))
  BY <1>1 DEF PlaceAt, InHandler, InDisk, DiskPoint, WantsDisk, At
<1> QED BY <1>2, <1>3 DEF AlreadyHeld

\* release() finds the lock its own.
LEMMA ReleaseValid ==
  ASSUME LockShape, SchedInv, PlaceInv, NEW c \in CPUs
  PROVE  ~InvalidRelease(c)
<1> USE DEF LockShape, LifeShape, Shape
<1>1. PlaceAt(c)
  BY DEF PlaceInv
<1>2. ~(lk # c /\ SchedAt(c, "scan"))
  BY DEF SchedAt, SchedInv, LockHeld
<1>3. ~(lk # c /\ \E p \in Procs, i \in {"y_resume", "s_resume", "forkret", "freeproc"} :
                    At(c, p, i))
  BY DEF At, SchedInv, LockHeld, HoldPCs, ResumePCs
<1>4. ~(disklk # c /\ \E p \in Procs : At(c, p, "s_release") \/ At(c, p, "d_done"))
  BY <1>1 DEF PlaceAt, InDisk, DiskPoint, At
<1> QED BY <1>2, <1>3, <1>4 DEF InvalidRelease

\* init does not exit, no zombie is resumed, and only a disk with fewer requests than
\* there are processes runs out of them.
LEMMA OnlyKokatu ==
  ASSUME LockShape, SchedInv, CallAt, DeadZombie, MixInv, PlaceInv, DiskInv, InitInv,
         kalloclk = NULL, NEW c \in CPUs, Panic(c)
  PROVE  \/ panic' = "virtq kokatu" /\ NREQ < NPROC /\ ~NoDisk
         \/ panic' = "user exception" /\ "abort" \in Calls \cup InitCalls
<1> USE DEF LockShape, LifeShape, Shape
<1>1. OtherPanic(c)
  BY NotHeld, ReleaseValid DEF Panic
<1>2. PICK p \in Procs :
         \/ UserException(c, p)
         \/ At(c, p, "x_free") /\ p = initproc
         \/ At(c, p, "dead")
         \/ /\ At(c, p, "d_submit") /\ panic' = "virtq kokatu"
            /\ \A r \in Reqs : rstate[r] # "free"
  BY <1>1 DEF OtherPanic
<1>3. ~(At(c, p, "x_free") /\ p = initproc)
  BY DEF At, InitInv
<1>4. ~At(c, p, "dead")
  BY OnCpuStates DEF At, DeadZombie, SwitchPCs
<1>5. CASE UserException(c, p)
  BY <1>5 DEF UserException, UserCalls
<1>6. CASE ~UserException(c, p)
  <2>1. /\ At(c, p, "d_submit") /\ panic' = "virtq kokatu"
        /\ \A r \in Reqs : rstate[r] # "free"
    BY <1>2, <1>3, <1>4, <1>6
  <2>2. NREQ < NPROC
    BY <2>1, Pigeonhole DEF At, DiskInv
  <2>3. ~NoDisk
    BY <2>1 DEF At, CallAt, CallOk, MixInv, DiskIdle
  <2> QED BY <2>1, <2>2, <2>3
<1> QED BY <1>5, <1>6

\* kallocator.lk is only ever kept by a kalloc() that fails, and then for good, and only
\* a failed assertion stops the kernel.
LEMMA KeepStep ==
  ASSUME Next
  PROVE  /\ UNCHANGED kalloclk \/ (OOM /\ kalloclk' # NULL)
         /\ UNCHANGED panic \/ \E c \in CPUs : Panic(c)
<1>1. ASSUME NEW c \in CPUs, SchedStep(c) PROVE UNCHANGED <<kalloclk, panic>>
  BY <1>1 DEF SchedStep, SchedTop, SchedAcquire, SchedDispatch, SchedRelease
<1>2. ASSUME NEW c \in CPUs, NEW p \in Procs, KernelStep(c, p)
      PROVE  UNCHANGED panic /\ (UNCHANGED kalloclk \/ (OOM /\ kalloclk' # NULL))
  BY <1>2, CPUsAssumption
 
  DEF NULL, Critical, SwitchToScheduler, KernelStep, Sigcheck, Forkret, YieldAcquire,
      YieldSwitch, YieldResume, NewprocSlot,
      NewprocPid, NewprocMem, NewprocNoMem, ForkPublish, ForkFail, SleepAcquire,
      SleepRelease, SleepSwitch, SleepResume, SleepRelock, SleepSigcheck, WaitScan,
      Freeproc, KillPget, KillSig, KillWake, ExitFree, ExitAcquire,
      ExitSwitch, DiskSubmit, DiskDone
<1>3. ASSUME NEW c \in CPUs, IntrStep(c) PROVE UNCHANGED <<kalloclk, panic>>
  BY <1>3
  DEF Critical, IntrStep, DeviceIrq, IntrAcquire, IntrUsed, IntrWakeup, IntrReturn
<1>4. ASSUME NEW c \in CPUs, Panic(c) PROVE UNCHANGED kalloclk
  BY <1>4 DEF Panic
<1>5. ASSUME NEW c \in CPUs, NEW p \in Procs, TimerIrq(c, p) \/ Syscall(c, p)
      PROVE  UNCHANGED <<kalloclk, panic>>
  BY <1>5 DEF TimerIrq, Syscall
<1>6. ASSUME NEW r \in Reqs, DeviceDone(r) PROVE UNCHANGED <<kalloclk, panic>>
  BY <1>6 DEF DeviceDone
<1> QED BY <1>1, <1>2, <1>3, <1>4, <1>5, <1>6 DEF Next, CpuStep, TaskStep

-----------------------------------------------------------------------------
(* The theorems.                                                           *)

\* The types of the scheduler's state.
THEOREM SchedTyped == Spec => []TypeOK
BY TypeCorrect, PTL

\* Until kalloc() fails, MixInv, PlaceInv and DiskInv hold.
LockInv == MixInv /\ (kalloclk = NULL => PlaceInv /\ DiskInv)

\* The locks of every CPU are those of the code it executes, and the requests of the
\* disk those of processes in virtio_blk_op(), if signals and disk calls do not mix.
THEOREM LocksPlaced ==
  ASSUME Tame PROVE Spec => []LockInv
<1>1. Init => LockInv
  <2> SUFFICES ASSUME Init PROVE LockInv
    OBVIOUS
  <2>1. /\ \A p \in Procs : /\ call[p] = "none" /\ ~sig[p] /\ pc[p] \in {"forkret", "none"}
                            /\ state[p] # "SLEEPING"
        /\ \A r \in Reqs : rstate[r] = "free"
        /\ \A c \in CPUs : /\ cur[c] = NULL /\ spc[c] = "top" /\ hpc[c] = "idle" /\ ~irq[c]
                           /\ lk # c /\ disklk # c
    BY CPUsAssumption DEF Init, NULL
  <2>2. MixInv
    BY <2>1 DEF MixInv, DiskIdle, SignalsIdle
  <2>3. PlaceInv
    BY <2>1 DEF PlaceInv, PlaceAt, InTable, InHandler, InDisk, InUser
  <2>4. DiskInv
    BY <2>1 DEF DiskInv, SleepPc, ReqAt, NotDone, NoLostCompletion, ReqInv
  <2> QED BY <2>2, <2>3, <2>4 DEF LockInv
<1>2. TypeOK /\ CliBalanced /\ (TypeOK /\ CliBalanced)' /\ SchedInv /\ LifeInv /\ LockInv
        /\ [Next]_vars => LockInv'
  <2> SUFFICES ASSUME TypeOK, CliBalanced, CliBalanced', SchedInv, LifeInv, LockInv,
                      [Next]_vars
               PROVE  LockInv'
    OBVIOUS
  <2>1. LockShape /\ CallAt /\ SleepAt /\ MixInv
    BY TypeLockShape DEF LifeInv, LockInv
  <2>2. CASE Next
    <3>1. MixInv'
      BY <2>1, <2>2, MixStep
    <3>2. ASSUME kalloclk' = NULL PROVE PlaceInv' /\ DiskInv'
      <4>1. kalloclk = NULL
        BY <2>2, <3>2, KeepStep
      <4>2. PlaceInv /\ DiskInv
        BY <4>1 DEF LockInv
      <4> QED BY <2>1, <2>2, <3>2, <4>1, <4>2, PlaceStep, DiskStep
    <3> QED BY <3>1, <3>2 DEF LockInv
  <2>3. CASE UNCHANGED vars
    BY <2>3
   
    DEF vars, LockInv, MixInv, DiskIdle, SignalsIdle, PlaceInv, PlaceAt, InTable, InHandler,
        InDisk, InUser, DiskInv, SleepPc, ReqAt, NotDone, NoLostCompletion, ReqInv, InOp
  <2> QED BY <2>2, <2>3
<1> QED BY <1>1, <1>2, TypeCorrect, SchedSafe, LifeSafe, PTL DEF Spec

\* A CPU that holds proctable.lk or disk.lk is masked, and user code runs unmasked and
\* without a lock, until kalloc() keeps one.
THEOREM Disciplined ==
  ASSUME Tame PROVE Spec => [](kalloclk = NULL => LockDiscipline)
<1>1. TypeOK /\ CliBalanced /\ SchedInv /\ LockInv => (kalloclk = NULL => LockDiscipline)
  <2> SUFFICES ASSUME TypeOK, CliBalanced, SchedInv, LockInv, kalloclk = NULL, NEW c \in CPUs
               PROVE  /\ c \in {lk, disklk} => ~irq[c]
                      /\ InUser(c) /\ hpc[c] = "idle" =>
                            c \notin {lk, disklk, kalloclk} /\ cli_depth[c] = 0 /\ irq[c]
    BY DEF LockDiscipline
  <2>1. PlaceAt(c) /\ LockShape
    BY TypeLockShape DEF LockInv, PlaceInv
  <2>2. c # kalloclk
    BY <2>1 DEF LockShape, LifeShape, Shape
  <2>3. lk # c /\ disklk # c => cli_depth[c] = 0
    BY <2>2 DEF CliBalanced, B
  <2> QED BY <2>1, <2>2, <2>3 DEF PlaceAt
<1> QED BY <1>1, TypeCorrect, SchedSafe, LocksPlaced, PTL

\* No process sleeps on a request that the handler has marked done, unless the handler is
\* about to wake it: sleep() holds disk.lk from the test to the change of state.
THEOREM CompletionNotLost ==
  ASSUME Tame PROVE Spec => [](kalloclk = NULL => NoLostCompletion)
<1>1. LockInv => (kalloclk = NULL => NoLostCompletion)
  BY DEF LockInv, DiskInv
<1> QED BY <1>1, LocksPlaced, PTL

\* Both without a proviso, if kalloc() never fails.
THEOREM LocksSafe ==
  ASSUME Tame, ~OOM PROVE Spec => [](LockDiscipline /\ NoLostCompletion)
<1>1. Init => kalloclk = NULL
  BY DEF Init
<1>2. kalloclk = NULL /\ [Next]_vars => (kalloclk = NULL)'
  BY KeepStep DEF vars
<1> QED BY <1>1, <1>2, Disciplined, CompletionNotLost, PTL DEF Spec

\* An init that neither exits nor faults is safe from the others.
THEOREM InitSafe ==
  ASSUME InitStays PROVE Spec => []InitInv
<1>1. Init => InitInv
  BY NPROCAssumption DEF Init, InitInv, initproc, Procs
<1>2. TypeOK /\ SchedInv /\ LifeInv /\ InitInv /\ [Next]_vars => InitInv'
  <2> SUFFICES ASSUME TypeOK, SchedInv, LifeInv, InitInv, [Next]_vars PROVE InitInv'
    OBVIOUS
  <2>1. CASE Next
    BY <2>1, TypeLockShape, InitStep DEF LifeInv
  <2>2. CASE UNCHANGED vars
    BY <2>2, InitQuiet DEF vars
  <2> QED BY <2>1, <2>2
<1> QED BY <1>1, <1>2, TypeCorrect, SchedSafe, LifeSafe, PTL DEF Spec

\* The ways in which the kernel may still stop.
OnlyQueueFull ==
    kalloclk = NULL =>
        \/ panic = "none"
        \/ panic = "virtq kokatu" /\ NREQ < NPROC /\ ~NoDisk
        \/ panic = "user exception" /\ "abort" \in Calls \cup InitCalls

\* No assertion about locks, init or zombies fails.  The virtqueue can run out of
\* descriptors, but only if it has room for fewer requests than there are processes.
\* What else stops the kernel is usync_handler() (or ksync_handler()), if user code
\* raises an exception that it answers with panic().
THEOREM AssertionsHold ==
  ASSUME Tame, InitStays PROVE Spec => []OnlyQueueFull
<1>1. Init => OnlyQueueFull
  BY DEF Init, OnlyQueueFull
<1>2. TypeOK /\ SchedInv /\ LifeInv /\ LockInv /\ InitInv /\ OnlyQueueFull /\ [Next]_vars
        => OnlyQueueFull'
  <2> SUFFICES ASSUME TypeOK, SchedInv, LifeInv, LockInv, InitInv, OnlyQueueFull,
                      [Next]_vars, kalloclk' = NULL
               PROVE  \/ panic' = "none"
                      \/ panic' = "virtq kokatu" /\ NREQ < NPROC /\ ~NoDisk
                      \/ panic' = "user exception" /\ "abort" \in Calls \cup InitCalls
    BY DEF OnlyQueueFull
  <2>1. kalloclk = NULL
    BY KeepStep DEF vars
  <2>2. UNCHANGED panic \/ \E c \in CPUs : Panic(c)
    BY KeepStep DEF vars
  <2>3. ASSUME NEW c \in CPUs, Panic(c)
        PROVE  \/ panic' = "virtq kokatu" /\ NREQ < NPROC /\ ~NoDisk
               \/ panic' = "user exception" /\ "abort" \in Calls \cup InitCalls
    BY <2>1, <2>3, TypeLockShape, OnlyKokatu DEF LifeInv, LockInv
  <2> QED BY <2>1, <2>2, <2>3 DEF OnlyQueueFull
<1> QED BY <1>1, <1>2, TypeCorrect, SchedSafe, LifeSafe, LocksPlaced, InitSafe, PTL
  DEF Spec

\* No assertion of spinlock.c, proc.c and virtio.c fails at all, if nobody uses
\* the disk or the virtqueue has room for everybody.
THEOREM NoAssertionFails ==
  ASSUME Tame, InitStays, NoDisk \/ NREQ >= NPROC PROVE Spec => []NoPanic
<1>1. ~(NREQ < NPROC /\ ~NoDisk)
  BY NREQAssumption, NPROCAssumption
<1>2. OnlyQueueFull => NoPanic
  BY <1>1 DEF OnlyQueueFull, NoPanic
<1> QED BY <1>2, AssertionsHold, PTL
=============================================================================
