# aarch64-os: TLA+ specifications

TLA+ models of the kernel in `src/`, model-checked with TLC, and for all of
them but the file system safety theorems proved with TLAPS. `PROJECT.json` maps every definition to the
lines it models and lists the runs, mutants, findings, hazards and theorems.

## 1. Inventory

| Component | State | Operations | Interacts through |
|---|---|---|---|
| Spin locks (`kernel/spinlock.c`) | `lock`, `cpuid` of each lock; `cli_depth`, `intr_enabled` and the IRQ mask of each CPU | `acquire`, `release`, `pushcli`, `popcli`, `holding` | called by everything; interrupts run between their instructions |
| Processes and scheduler (`kernel/proc.c`, `cswitch.S`) | `proctable.procs[]` (state, pid, parent, chan, sig, kstack, th), `cpus[]` (running process, scheduler context), `pidalloc` | `schedule`, `yield`, `sleep`, `wakeup`, `fork`, `clone`, `exit`, `wait`, `waitpid`, `kill`, `exec`, `sbrk` | one lock, `proctable.lk`, that is handed over at every `cswitch()` |
| Traps and system calls (`kernel/trap.c`, `vectortable.S`, `syscall.c`) | trap frame, ELR/SPSR, IRQ handler table | entry, dispatch, `sigcheck`, return | drives the scheduler: the timer yields in user mode only |
| Virtio block driver (`kernel/driver/virtio.c`) | descriptor table with free list, available and used rings, `info[]` | `virtio_blk_op`, `virtio_blk_intr` | `sleep`/`wakeup` on the buffer, device interrupt on CPU 0 |
| Page allocator (`kernel/kalloc.c`) | free list under `kallocator.lk` | `kalloc`, `kfree` | kernel stacks, page tables, user pages |
| Buffer cache (`kernel/buf.c`) | `bcache.buf[]`: block number, references, valid flag and data; only the first two are under `bcache.lk` | `bio_read`, `bio_write`, `bio_dup`, `bio_free` | the disk, ext2 |
| Open files (`kernel/file.c`) | `ftable` with reference counts, per-process fd tables | `open`, `close`, `dup`, `read`, `write` | fork and exit (`dup_file`, `close`), inodes, console |
| Inodes and ext2 (`kernel/fs.c`, `ext2.c`) | inode cache, on-disk bitmaps and inodes | path walk, allocation, read, write | buffer cache |
| Console (`kernel/console.c`) | one pending read: `readbuf`, `bufc`, `bufsz` | `csread`, `consoleintr` | `sleep`/`wakeup`, UART interrupt |
| Virtual memory and exec (`kernel/mm.c`, `elf.c`, `exec`) | page tables | map, unmap, copy, free | threads made by `clone` share a table |
| User heap (`usr/malloc.c`) | first-fit free list | `malloc`, `free`, `morecore` | `sbrk` |
| Drivers (GIC, timer, PSCI, UART), start-up, printing, strings | device registers | programming | configure interrupt routing: devices to CPU 0, a timer per CPU |

What is hard here: several CPUs in one process table; context switches with a
lock held; nesting counts that belong to the CPU and not to the thread;
interrupts between any two instructions of the lock; sleep against wake-up;
signals against sleep; a device that completes out of order; state used
outside its lock (buffer contents, closed files, inodes, bitmaps). Correct means: nobody runs on a stack that
somebody else runs on or that is freed; no wake-up, interrupt or process is
lost; locks exclude and their bookkeeping comes back; allocation structures
lose nothing and give nothing out twice. `PROJECT.json` lists these as hazards,
each at its line.

## 2. Modules

* `AbstractLock` – a lock with one owner, taken and given back in one step.
* `Spinlock` – `kernel/spinlock.c` instruction by instruction; implements
  `AbstractLock`.
* `Sched` – processes, scheduler, traps, and one client that sleeps with a lock
  of its own (a disk operation with its interrupt). Uses locks at the level of
  `AbstractLock`, which the refinement of `Spinlock` justifies.
* `SpinlockProofs`, `SchedProofs`, `VirtioProofs`, `BcacheProofs`, `FileProofs`,
  `ConsoleProofs`, `UMallocProofs`, `MmProofs` – theorems (section 4).
* `Virtio` – the driver's data structures; `sleep` and `wakeup` are the atomic
  pair that `Sched` shows them to be (`NoLostCompletion`).
* `Bcache` – the buffer cache over a disk that transfers blocks at any moment.
* `Ext2` – the file system and its inode cache over written-through blocks.
* `File` – the file table and the descriptors of processes.
* `Mm` – frames, page tables and the calls that build and free address spaces.
* `Console` – the pending read against the UART's interrupt handler.
* `UMalloc` – the heap of user programs.
* `MCSpinlock`, `MCSched`, `MCVirtio`, `MCBcache`, `MCExt2`, `MCFile`, `MCMm`,
  `MCConsole`, `MCUMalloc` – the modules TLC runs.

`fork`, `clone`, `exec` and `exit` appear in three modules, each with the part
of the process it is about: `Sched` has their locking and life cycle, `Mm` the
memory, `File` the descriptors. The parts touch only through the order of the
calls of one process, which every module leaves free.

Definitions whose comment starts with "Mutant:" are deliberately wrong variants
of the definition that follows. They are not used by any specification; each
shows, put in place of the right one, that some property notices the mistake.

### Spinlock

Each CPU has a task and an interrupt handler; an *activity* is one of the two.
`pc` walks through `pushcli` (the `cli_depth++` as a load and a store, with IRQs
still unmasked), `holding` (two loads), the `sevl`/`wfe`/`ldaxrb`/`stxrb` loop,
the assignment of `cpuid`, and back. `IrqEntry` may strike between any two
steps while IRQs are unmasked; `Eret` returns. Callers take locks in increasing
order and release them in any order, which is what `sleep()` does.
`TrapBoundary` changes the mask of a task outside critical sections, as kernel
entry, kernel exit and `schedule()` do; `base` records it. The exclusive
monitor and the event register are modelled by what the loop relies on. Memory
is sequentially consistent: `ldaxrb`, `stlrb` and the data dependency on the
lock byte order everything these steps exchange, with one exception that the
model therefore does not cover, the plain store of `cpuid` in `acquire` as
seen by `holding()` on another CPU (which compares it with its own number and
is right whichever value it sees).

### Sched

`state`, `pid`, `parent`, `chan`, `sig`, `kstack`, `th` are the fields of
`struct proc`. `pc[p]` is where the thread of process `p` is – executing on the
CPU `c` with `cur[c] = p`, or saved by `cswitch()` – and `call`, `arg`, `obj`,
`req` are its locals. `spc` and `scan` are the scheduler loop of a CPU, `hpc`
the disk interrupt handler on top of whatever the CPU was doing. A critical
section is one step unless it contains a switch or takes another lock.
`kstack` says whether the slot has a kernel stack; `freeproc` clears the whole
slot. User code may make any call of `Calls` at any time, and raise any exception:
a data abort (`fault`) kills the process, what else `usync_handler()` returns from
leads to `sigcheck()`. An instruction abort, a misaligned stack pointer and an
exception that it does not know stop the kernel there and then, and so does a
system call that follows a bad pointer without `copyin()` or `copyout()`
(`ksync_handler()`): that is `UserException`. `Panic` is taken when an assertion of
`spinlock.c`, `proc.c` or `virtio.c` fails, which is what `NoPanic` is about. Nothing
happens after either.

The disk is reduced to what sleeping needs: `rstate` of each of `NREQ`
requests, all for one buffer, so every wake-up wakes everyone and they race for
`disk.lk`. A timer interrupt in kernel mode only reloads the timer and is left
out. `kill` and `waitpid` get pids that were handed out, never 0 (init): a
killed init panics by design. `fs_init()` and the path lookup of the first
`schedule_tail()` are left out, and so is `copyout`; user memory is in `Mm`,
descriptors are in `File`.

### Virtio

Descriptors, rings and indices as in the code; a header, buffer or status
address is the thread it belongs to. The indices count modulo `IdxMod`, a
multiple of `NQUEUE` as 2^16 is. `served` is a history variable: the device has
finished the request whose memory the chain points to. The device fetches
chains and finishes them in any order, with status 0.

### Bcache

`bno`, `ref`, `valid` and `data` are the fields of a buffer. `get_buf`,
`bio_dup` and `bio_free` run under `bcache.lk` and are one step; everything
else of `bio_read` and `bio_write` is not under it: the test of `valid`, the
transfer (somewhere inside `virtio_blk_op`, which returns after it by
`Virtio`'s `ReturnsServed`) and the setting of `valid` are steps of their own. A
block's content is the set of the changes made to it. As in `ext2.c`, a user
that changed a buffer writes it before it frees it. Blocks have no lock, so two
users may change one buffer; and a change that is not on the disk yet may be
overwritten by the transfer of a second first reader, which is why the
properties speak of what reached the disk. Block 0 is in the model because a
hole of a file reads it, and left out of the properties because a free buffer
has number 0 too.

### Ext2

`fs` is the disk – the two bitmaps, the inode table `itab`, the entries `ents`
of directory blocks and the bytes `data` of file blocks – and the inode cache
`icache`. `bio_write()` writes through, so a buffer is its block. A directory
block is the list of its entries with their `rec_len`, from which the positions
of the code's byte arithmetic follow; a name is a value with a length. Every
call is a function from one `fs` to the next, as `ext2.c` composes them, and a
call that fails half way keeps what it has done. `Reboot` keeps the disk and
drops the cache.

Blocks have the 1024 bytes that make block 1 the first data block, scaled down
to `BSIZE`. Left out: calls that overlap; a full disk (`ext2_alloc_block()` then
returns a number that no caller tests); files that grow past their direct blocks
(the code stores over the indirect ones; `Writable`); a regular file as parent
directory (`LikeDirectory`); the `major` of a device, which is not on the disk.

Things the code does that the model contains, and the properties exclude by
name: the first allocation returns the used block before the image's first
hole, because bit 0 is block 1 (`Taken`); a write that crosses a block boundary
may lose its tail, because `size` goes down by whole blocks (`Whole`); the NUL
behind a name that ends with its block lands in `bno` (`WrittenTo`); a failed
`mkdir` leaks its inode number and block, and has counted a link in the cache
only; `mkdir("/")` makes an empty name; a walk that meets a file in mid-path
returns it; cache entries are never released, and a walk with a full cache
reads through NULL (`halted`).

### File

`file` is `ftable`, `ofile` each process's descriptors. A call is cut where it
releases `ftable.lk` and goes on with the file, and where it sleeps: `open` is
walk, `alloc_file`, fill; `close` is the drop of the reference and, for the last
one, the clearing after the release. Since the kernel does not preempt itself,
at most `NCPU` processes are inside such a window that does not sleep
(`HasCpu`). `fork()`, which calls `dup_file()` for each descriptor of the parent, is
one step. `desc` is a history of what the programs have opened and not closed.
`lost` are the files of an `open()` that fails after `alloc_file()`. `broken`
records the three ways in which the code takes a file from somebody who has it
open: a descriptor closed again after `close()` left it in `ofile`, a
descriptor copied while its file changes hands, and a file allocated between
`close()`'s release and its `memset`.

### Mm

A frame is a table of `NENT` entries or a page; `mem` has the free set, the
tables and the state of the allocator: `"oom"` after `kalloc()` returned NULL
with its lock held, `"panic"` after an assertion of `mm.c`, `"twice"` after a
double free. Every call works on its own process's frames and on fresh ones,
and is one step; `csread()` is one of them because `uva2ka()` makes the tables of
whatever address it is given. Threads of one process work on one table without a
lock; their calls are taken one after the other.

A file for `exec()` is the sequence of its program headers with `p_type`,
`p_vaddr`, `p_memsz` and `p_filesz`, and any file may be given. `Loaded` is the loop
over the headers with `alloc_userspace()` of each segment; `load_prg` says where
the loop gives up; the new size is the sum of the `p_memsz` (`memsize`). `exec()`
may fail, or be ended by a signal while `read_inode()` sleeps (`execKilled`), after
any of these steps. The code takes for granted that segments begin with a page
and keep clear of each other and of the stack (`Mappable`), since `pagemap()` panics
otherwise, and that their sizes add up to what they cover from page 1 on
(`Laid`), since `fork`, `exec`, `sbrk` and `exit` walk the size from there. A linker
that makes one segment at 0x1000, like the one of `usr/`, sees to both.

`lost` are the frames of the three known leaks: `clone()` forgets the table that
`newproc()` made, an `exec()` that fails frees the root of the new space only, and
an `exec()` that a signal ends frees nothing of it. `misused` records calls for
which the code has no provision:

* `exec` or the end of a process while threads of it live, on the table that is
  freed;
* `exec` or an upward `sbrk` by a thread, whose size is not that of the space;
* a negative `sbrk`, which moves the size and unmaps nothing;
* `exec` of a file that is not `Laid`, or, also where it fails, not `Mappable`.

An upward `sbrk` by a process with threads is not among them: `usr/thread.c` and
`usr/thbench.c` do it, in the second `malloc()`. The threads keep the size they were
cloned with, so `SpaceExact` asks of a thread that at least its size is mapped. What
follows a misuse or an exhausted allocator is not explored. Processes are not so
large that they meet the stack at the end of the address space
(`RoomAssumption`): there is far less memory. Contents of pages, the checks of the
ELF header, kernel mappings and the TLB are left out.

### Console

The critical sections of `cs->lk` – `csread()` up to the sleep, its return,
`consoleintr()` – are one step each, so `lk` shows only in the hands of a reader
that was killed and died in `sleep()` with it, or of a handler that faulted. A
second reader replaces the first, whose wake-up is then gone.

`readbuf` is what `uva2ka()` makes of the user's address: the kernel address of the
first byte, from which `consoleintr()` goes on in physical memory, through the
`Room` that is left of the page into the frame behind it. `mem` is what has been
stored from there on. For an address that is not mapped `uva2ka()` is not NULL
but the offset in the page, unless that is 0: such a `Wild` address is below the
kernel's mapping of memory, and the store to it is a data abort of the kernel
(`Faults`). For NULL the reader sleeps where nobody wakes it.
Two cases are left out: a handler that interrupted `copyin()` or `copyout()`, whose
`fault_handler` then takes the fault for its own, and a buffer whose page is the
last of memory.

`consoleintr()` has no test of the bounds. `StoresInside` names the cases in which
it stores outside of a buffer: after the reader was woken; for a read of 0
characters, whose count never is 0 after a store, so that only a newline or
`^D`, or a BACKSPACE at the start, wakes it; and behind the page of a buffer that
does not end in it.

The UART is modelled from its use and its data sheet: the first character in an
empty FIFO raises the interrupt, output raises the transmit interrupt, and
`UART_ICR` clears both. `uartintr()` clears after it found the FIFO empty, so a
character in between waits for the next interrupt (`Stranded`). `typed` is the
history of the characters offered to the current read.

### UMalloc

Addresses count headers; `ptr` and `size` are the fields in memory, and old
headers stay behind as in the program. A program has one thread in `malloc()`
at a time. `sbrk()` may fail at any time, and moves the break even then, as the
kernel's does, so that areas need not be adjacent. Requests are not so large that
their bytes overflow the `int` of `sbrk()`.

## 3. Runs

| Run | Bounds | Shows |
|---|---|---|
| `spinlock` | 2 CPUs with a handler each, 2 nested locks | mutual exclusion, no assertion fires, IRQs masked while a lock is held, mask and count restored, no lost event, refinement of `AbstractLock` |
| `sched_life` | 2 CPUs, 3 slots, 3 processes after init, allocations that may fail | fork, clone, exit, wait, waitpid, kill, faults and exceptions: stacks are safe, no orphans, no zombie missed by `wait`, no failed assertion before `kalloc` leaked its lock; `SchedInv` is invariant |
| `sched_disk` | 2 CPUs, 3 slots, 2 requests | sleeping with a lock while the interrupt strikes processes, scheduler loops and user code: no lost completion, counts and masks right, every disk operation returns |
| `sched_live` | 2 CPUs, 3 slots | every RUNNABLE process runs; waiting parents reap |
| `sched_kill_disk` | as `sched_disk`, with kill | expected to fail, see below |
| `virtio` | 3 callers, a queue of 6 that two requests fill, indices that wrap at 12 | free list sound, operations return, and only when served |
| `bcache` | 3 users, 2 buffers, 3 blocks with block 0, 3 changes | one buffer per block, exact reference counts, readers see everything that reached the disk, no write undoes another |
| `ext2` | 6 inodes, 17 blocks of 60 bytes, a cache of 3, 2 direct blocks, 11 paths | the tree and the bitmaps stay consistent, the cache agrees with the disk, what is made is found after a reboot, writes land where they belong |
| `file` | 2 processes on 2 CPUs, 2 files, 2 descriptors each | no file leaks but those `open()` loses, descriptors stay sound until `broken` |
| `mm` | 3 processes, 24 frames, tables of 2 entries, pages of 2 bytes, sizes to 5, 7 files | spaces hold what their sizes say, share nothing, every frame is used, free or in a known leak, no assertion fires |
| `console` | 2 readers, 2 buffers and a wild address, reads of 0, 2 and 3, pages that end after 1 and 2 bytes, a FIFO of 1, 3 characters to a read | memory is the edited line, nobody sleeps on a finished line, stores are inside the buffer but in the named cases, a finished line ends the read |
| `heap` | 15 units, requests to 5, growth by 4 | blocks never overlap, no unit is lost, free neighbours are joined |

Why the bounds are enough. Two CPUs suffice for the races between a process and
the code that dispatches, wakes or reaps it; that the stack argument needs no
more is proved. Three slots are a parent, a child that becomes an orphan or a
zombie, and a slot that is used again; `MaxPid` allows that reuse. Two locks are
the depth of nesting around `sleep()`. `NREQ = 2` is what a queue of 8 with
chains of 3 holds; in `virtio` the queue of 6 empties its list, which the code's 8
never does before it panics. In `ext2` inodes, cache entries, directory space
and direct blocks all run out, names fit, just fit and do not fit, and writes
begin at, before and behind block boundaries; its image has one hole in the block bitmap, in front of
the last block, and files of zeros. In `mm` sizes are below, at and
above page boundaries, tables of every level are made and freed, and frames run
out; two files are laid out as `exec()` takes for granted, with one segment and
with two around a header of another type, and five are not: partial pages that
do not add up, a segment that begins inside a page, one that begins at page 2,
two in one page, one that is larger in the file than in memory. In `file` the
table and the descriptors fill up. In `console` a buffer fills and a character
comes too late, a buffer crosses its page and another does not, a read of 0
characters is one whose buffer is never found full, and a character waits in the
FIFO while the handler has another. In `heap` blocks are split, fit exactly, and are joined below,
above and on both sides.

Deadlock is not checked where the system may stop: after a panic or a leaked
`kalloc` lock (`sched_life`, `sched_kill_disk`, `virtio`, `bcache`), after an
exhausted allocator or a misuse (`mm`), after a fault in the handler (`console`), when every process sleeps in a call whose
offset bound is reached (`file`), and when the address space of the heap is used
up (`heap`).

Three runs identify states that differ in nothing their properties or later
steps depend on. `MmView` renames frames: which processes live, their sizes,
what they have mapped, with which tables, what they share, and how many frames are
free or lost.
`FileView` forgets, once `broken` is set, what the files are; only `NoLeak` speaks
of such states, and reading or writing changes no reference. `HeapView` forgets
headers that no list and no block refers to. `bcache` uses the symmetry of its
users.

`sched_kill_disk` shows where the code disagrees with an assertion of its own:
`sleep()` calls `sigcheck()` after re-acquiring the caller's lock, so a process
killed during a disk operation dies holding `disk.lk`, and the next `acquire` of
it on that CPU panics ("already held"), or hangs on another.

Other behaviours that the models contain and the properties leave out by name:

* `pget()` drops the lock, so `killproc()` may signal the next tenant of the slot.
* `p->sig` is not tested before sleeping, so a kill can be lost on a process
  entering `wait()`.
* `kalloc()` returns NULL with its lock held; `fork()`'s error path then panics in
  `kfree()`.
* A third concurrent disk request panics in `alloc_desc()`.
* `exitproc()` does not wake init for the children of an exiting process that are
  zombies already: `NoLostWait` and `ZombieReaped` except init. `waitpid()` on a
  process that is not one's child is woken by nobody.
* A killed reader of the console dies with `cs->lk`, like one of the disk.
* `pagemap()` panics for a segment that does not begin with a page, or that shares a
  page with another, before `load_prg()`, which returns -1 for the first, is called;
  so `exec()` of such a file stops the kernel (`Mappable`).
* An instruction abort or a misaligned stack pointer of user code stops the kernel
  (`UserException`).
* Those of `Ext2`, `File`, `Mm` and `Console` listed with their modules.

### Fairness

`Sched`: each CPU executes its next instruction. Strong fairness of `TaskStep`
is needed because a CPU may be interrupted again and again, and because a spin
lock is contended: it says that a CPU that finds the lock free again and again
gets it, which the exclusive-access loop gives in practice and no lock of this
kind guarantees. The timer is strongly fair per CPU (its compare register is
reloaded at every interrupt), a pending device interrupt is taken, the disk
answers. User code owes nothing: it need not make any system call.
`Virtio`: a process in the driver is scheduled and gets `disk.lk` in the end, the
device works, its interrupt is taken.
`Console`: the CPU that the UART's interrupt is routed to takes it and completes
the handler, which runs with IRQs masked and does not sleep; the scheduler runs
every RUNNABLE reader (`NoStarvation` of `Sched`). Nobody has to type, write or
read.

## 4. Proofs

Each theorem holds for every value of the constants that the named ASSUMEs of
its module allow: `NPROC`, `NBUF`, `NFILE`, `NOFILE`, `NQUEUE`, `FIFO` positive;
CPU numbers, locks, blocks, inodes and read sizes natural; CPUs, locks, users,
callers and processes finitely many; CPU 0 among the CPUs (it takes the devices'
interrupts); `IdxMod` a multiple of `NQUEUE`, as 2^16 is; requests of at least 2 units
and a positive `MINALLOC`; frame numbers natural, `NENT` and `PAGESIZE` positive,
arguments of `sbrk()` any integers, files any sequences of program headers with
natural addresses and sizes (`ProgramsAssumption`), and sizes of processes that end
below the page of the stack (`RoomAssumption`); in `Console` NULL, mapped and wild
addresses apart (`BufsAssumption`) and at least one byte from each to the end of its
page. Whatever else a theorem
needs is written in its ASSUME and explained below. The bounds of the runs
(`MaxPid`, `MaxTyped`, `MaxChanges`) are constants like the others.

### SpinlockProofs

For any number of CPUs and locks. `SpinInv` ties the four things the code keeps
apart: the lock byte and `held` (`LockInv`), `cpuid` and the holder, but between
`stxrb` and the assignment and between the assignment and `stlrb` (`OwnerInv`),
`cli_depth` and the number of `pushcli()` not undone yet by the task and its
handler together (`DepthOn`), and the mask (`MaskOn`). Mutual exclusion alone is
not inductive: that `stxrb` finds the byte 0 needs the exclusive monitor
(`MonitorInv`), and that the count and `intr_enabled` survive an interrupt between
the load and the store of `cli_depth++` needs that a handler gives back all it
takes (`SuspendOn`). From it: `Exclusive`, `NeverPanics`, `Masked`, `MaskRestored`,
`EventKept`, and `Refinement`, which shows `stxrb` and `stlrb` to be the two steps
of `AbstractLock` and all other instructions stutters.

### SchedProofs

For any number of slots, CPUs and requests, every set of calls, and with
allocation failures or without; the theorems about locks, from `LocksPlaced` on,
have hypotheses of their own.

* `TypeCorrect`: `Spec => [](TypeOK /\ CliBalanced)`. Type correctness alone is
  not inductive: that `cli_depth` stays a natural number needs that whoever
  gives a lock back has it counted. Lemmas `Take`, `Give` and `GivePopcli` do
  the counting once; `DataStep` and `LockStep` go through the actions.
  The runs leave `TypeOK` of `Sched` to this proof.
* `SchedSafe`: `Spec => []SchedInv`. `SchedInv` says that no process is on two
  CPUs; that a process on a CPU is RUNNING or at the instruction before a
  switch, with the lock held by that CPU; that a process off its CPU is at a
  resume point; that the slots `fork` fills and `freeproc` clears are CREATED or
  ZOMBIE and owned by one CPU; and that what can run has a stack. One lemma per
  kind of step, then `SchedInvStep` applies them to the actions.
* `StackSafety` and `RunningSafety` follow. The heart is in `Dispatches` and
  `Frees`: a RUNNABLE process or a ZOMBIE that is still on its stack has its CPU
  hold `proctable.lk`, which the dispatcher or the reaper holds itself.
* `NobodyOrphaned` and `WaitNotLost` come from `LifeInv`: which call a process can
  be in at which point, that a sleeper sleeps on the channel of that call, that
  init does not exit, and that a process past its switch in `exitproc()` is a
  zombie. `NoLostWait` is inductive only with the channels: `exitproc()` wakes the
  parent's channel, and it must be the one the parent sleeps on.
* `LocksPlaced`: which CPU holds which lock can be read off the code it executes
  (`PlaceInv`), and every request in use is that of a process in
  `virtio_blk_op()`. From it `Disciplined`, `CompletionNotLost` and `LocksSafe`.
  Two hypotheses are necessary. `Tame`: not both disk calls and signals, for
  `sched_kill_disk` shows that `sigcheck()` in `sleep()` leaves with `disk.lk` held.
  `kalloclk = NULL`: `kalloc()` that returns NULL keeps its lock, and its CPU stays
  masked (`LocksSafe` has `~OOM` instead).
* `AssertionsHold`: with an init that neither exits nor faults (`InitStays`; the
  kernel panics by design otherwise), no assertion about locks, init or zombies
  fails before an allocation does. Two things stop the kernel: an exception of
  user code that `usync_handler()` answers with `panic()`, if user code raises any
  (`"abort" \in Calls \cup InitCalls`), and "virtq kokatu", only if there are more
  processes than requests (`NREQ < NPROC`). The code has 2 requests (`NQUEUE` 8,
  three descriptors each) and 256 processes, so both are real.
  `NoAssertionFails` states the complement.

### VirtioProofs

For every queue size, number of callers and wrap of the indices. `QueueInv` has
who holds `disk.lk` (`HolderInv`); the three linked descriptors of each request,
disjoint and pointing to their caller (`ChainInv`); an enumeration of the free
list (`FreeInv`); the place of each published request, which is one of available
ring, device, used ring and done (`PlaceInv`); and `info[].buf` (`WakeInv`).
`ReturnsServed` needs all of it: a completion is that of the caller only because
the head was in one place only, which holds because its descriptors were
not on the free list, and a ring slot is not overwritten because the requests
under way are fewer than the slots. `FreeListKept`, `OnlyServedReturn`, `QueueTyped`
follow, and `SleeperWoken`: nobody sleeps when its request is done. `QueueSuffices`
shows that three descriptors per caller are enough.

### BcacheProofs, FileProofs, ConsoleProofs

* `CacheInv`: counts are the number of users (`RefExact`), a buffer stays that of
  the block its users asked for, no two buffers are for one block, a free
  buffer is not valid, and the data of a valid buffer has all that is on the
  disk (`GoodData`). The last is the one that needs the others: a second reader
  may read the disk into a buffer that is in use, and what it brings is good only
  because the buffer is still that block's. From it `OneBuffer`, `CountExact`,
  `ReadsWrites` and the action property `WritesStay`.
* `FileInv`: at all times no reference is without somebody who stands for it
  (`BoundInv`); until a file was taken from a process that has it open (`broken`)
  counts are exact, descriptors stand for what was opened, `open()` has its file
  alone and a file about to be cleared is not in use. From it `NothingLeaks`,
  which holds after `broken` too, and `DescriptorsSound`.
* `LineInv`: memory from `readbuf` on is the edited line, for mapped and for wild
  addresses, and while the reader sleeps the line has no newline and, unless the
  read is of 0 characters, the count is below `bufsz` and nothing is stored past
  it (`NotDone`). The last is what `PendingLine` lacks to give `StoresInside`: the
  count goes back at a BACKSPACE, what was stored stays. The proof needs what
  `Edited` does with one more character (`EditedAppend`). From it `LineKept` and
  `StoresKept`.

### UMallocProofs

For heaps, requests and growth of any size. `HeapInv` describes the free list by
the set F of its headers: each is linked to the next one above it and the last
to `base` (`Linked`), no block touches the next (`Spaced`), the blocks in use share
no unit with each other or with the list and have their sizes in their headers
(`Apart`), and together they are what `sbrk()` has given, below the break
(`Below`). The properties are stated with the walks of the code, and so are its
searches; the first half of the module ties the two together: the round from
`freep` meets exactly F (`RoundIs`, `ListedIs`), `free()` stops at the header below
the block (`NeighbourIs`) and `malloc()` at a block that is large enough
(`FirstFitIs`). The second half says what the searches' results are used for:
`GivenIs`, in the two steps of the code (`Above`, `Under`), and `TakenIs` (`TakenAll`,
`TakenEnd`). `Spaced` is what the others need: where a block ends below the next
header, a block put between them can be joined with one neighbour or both, and
the header cut from a block's end is nobody else's. `HeapKept` and `ListKept` follow.

### MmProofs

For any number of frames, processes and entries of a table, and files of any
segments. Neither `SpaceExact` nor `FramesOwned` is inductive: `pagewalk()` follows
whatever entries it finds and `free_table()` frees whatever it meets, so each
is right only because the tables are trees that share nothing. `MmInv` therefore
says, until a misuse or an exhausted allocator, that there is an *owner* of each
frame: nobody (exactly the free frames), the kernel (stacks and what is lost), or
the root of the space the frame is in (`Sound`). That a file is `Laid`, or
`Mappable` where its `exec()` fails, is no assumption of the module but the
condition under which its `exec()` is no misuse.

* `Tree`: each frame of a space has a level and, below the root, a table
  above it and a place in that table; the entry there refers to it (`TreeUp`), and
  an entry that is not empty refers to a frame of the same space whose place it
  is (`TreeDown`). So no two entries refer to one frame. `LinkTree`,
  `UnlinkTree`, `RootTree`, `TakeTree`, `DropTree` and `LoseTree` are the changes of a
  tree one assignment makes; `PagewalkTree`, `MapNewTree` and `UnmapTree` put them
  together to operations, and say which addresses are mapped afterwards
  (`Mapped`). That a new page replaces none, so that "panic" is not reached, is
  that distinct addresses have distinct indices (`PidxInj`).
* Loops: `MapPages`, `CopyPages`, `UnmapPages`, and for `free_table()` `LastTree`,
  `TopTree` and `FreeTable`, which frees exactly the frames of its root once no
  pages are left. They give what each call does with a space: `AllocSpace` (for
  one segment, anywhere), `FillSpace`, `GrowSpace`, `CopySpace`, `FreeSpace`.
* `exec()`: for a file that is `Mappable`, `LoadSpace` follows the loop over the
  headers, and says that after i of them the pages of the first i segments are
  mapped and nothing else; each segment is clear of those before it, or
  `pagemap()` would panic. `NewSpaceAdded` adds the stack; `FailureAdded` goes through
  the points at which `exec()` may fail, the walk of `load_prg()` to a page that is
  not mapped among them. `LaidRegion` is the arithmetic of `Laid`: the new size, a
  sum over the headers, says what is mapped.
* Processes: each live one has mapped the pages of its size and the stack, a thread
  perhaps more (`InSpace`); those that are not threads share no space (`Apart`);
  every space has one of them (`Spaces`); and each slot in use has a stack of its
  own (`Stacks`). So `exec`, `exit` and `sbrk` by a process that is not misusing its
  space concern nobody but its threads (`AloneOwns`), and an `sbrk` leaves them with
  more than they know of. One lemma for each call (`ForkSound`, `CloneSound`,
  `ExecSound`, `SbrkSound`, `ThreadSound` and `ExitSound`, `ReapSound`), `GivenUpSound`
  for a new space that is given up, with its root (`DropRoot`) or whole
  (`LoseRoot`), and `WalkedSound` for tables that a walk makes; each also for an
  allocator that is exhausted half way.

`NeverPanics` (no remap, no unmap of a hole, no double free), `SpacesExact` and
`EveryFrameOwned` follow. The last compares numbers of frames: the frames the walks
of `FramesOwned` reach are those with the root as owner (`SpaceIs`), and the frames
of stacks are as many as the slots in use (`StacksCount`).

### How induction over data is done

`Virtio`'s and `UMalloc`'s walks and `Console`'s `Edited` are recursive functions,
`CHOOSE f : f = [...]`. That such an f exists, and what it is at i, is proved from
the least index at which it would fail (`LeastNat`, `Least`, from the
well-foundedness of < on Nat): `WalkExists` and `LinkFacts`, `StagesExist` and
`AfterFacts`. `Mm`'s loops, which take their body as a parameter, are given names
(`Body`, `LoopOf`); `RoundsExist`, `LoopIs` and `LoopStep` say what they do in each
round, and what a loop comes to is proved for the least number of rounds after
which it would not hold. The searches for the first free slot in `Bcache` and `File` use the
same fact (`MinIn`, `LeastIn`).

### Only model-checked

* Liveness, which is out of the prover's reach: `NoStarvation`, `ZombieReaped`,
  `DiskOpReturns`, `OpReturns`, `ReadReturns`.
* `Ext2`: `TreeSound`, `BlocksOwned`, `DiskCurrent`, `MadeIsFound`, `WriteStores`.
  Every call is a composition of loops over path elements, directory blocks and
  their entries on one large record, and the properties follow paths. Each loop
  would need an invariant of its own.

## 5. Not modelled, and the plan

Model, next:

1. `Trap`: the return path, and the fault handlers of `copyin()` and `copyout()`. `intr_enabled` belongs to the CPU, so kernel code
   can run with IRQs unmasked down to `restorereg`; an interrupt between the
   writes of ELR/SPSR and `eret` overwrites them.
2. Overlapping calls of `Ext2`: bitmaps and directory blocks are read, changed
   and written back over sleeps without a lock, so the properties would have to
   say what survives such a race; nothing in the code says it.

Proofs, next: `BlocksOwned` and `TreeSound` of `Ext2`, with an owner for each
block and inode as `MmProofs` has for frames, and an invariant for each loop over
blocks and directory entries.

Register-level drivers (GIC, timer, PSCI, the UART's set-up), start-up, printing,
string functions and the user programs have no protocol state of their own and
stay out: what they configure (interrupt routing, a timer per CPU) is assumed by
`Sched` and `Console`, what start-up leaves is the `Init` of each module, and user
programs are any sequence of system calls.
