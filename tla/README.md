# Verification of Operating_Systems_2024

The repository holds four x86 xv6 kernels, each with one assignment added, and
two user-level spin locks. This directory models their core in TLA+, checks the
models with TLC on small instances and proves the most important properties
with TLAPS for instances of every size.

`PROJECT.json` lists the components, the runs, the source lines each definition
stands for, the findings, the hazards and the theorems.

## 1. The system

| Component | State | Operations | Hard parts | What makes it correct |
|---|---|---|---|---|
| Filter lock (`Project3_Locking/pthread_lock_linux_patterson.c`) | `Flag`, `Turn`, `shared_resource` | `lock`, `unlock`, `thread_func`, `main` | the scan of `Flag` is not atomic; x86 reorders a store with a later load | one thread in the critical section; no increment lost; every thread finishes |
| Test-and-set lock (`pthread_lock_linux_atomic.c`) | the lock word, `shared_resource` | `lock`, `unlock` | the release is a plain store that may be delayed | the same |
| Processes and scheduling (`Project2/proc.c`, `trap.c`, `sysproc.c`) | `ptable` with the queues L0-L3 and MoQ, `mode`, `ticks`, CPUs, kernel stacks | fork, exit, wait, kill, sleep, yield, the timer interrupt, `boost`, `setpriority`, `setmonopoly`, `monopolize`, `unmonopolize`, `scheduler` | interrupts and two CPUs; half of the new calls take no lock; fork fails half-way; `ticks` wraps and is reset | a process is in one queue, the one its `qlevel` names; one CPU runs it; no exit is missed; nobody starves; the monopoly excludes and ends |
| Threads (`Project3_LWP/proc.c`, `exec.c`) | `pttable` of processes and threads, kernel and user stacks | `thread_create`, `thread_exit`, `thread_join`, fork/exec/exit/wait/kill with threads | state changed without the lock, a sleep without a second look, marks made one by one | a stack is freed once and not while in use; nobody waits for one that has ended; exit ends all threads |
| Copy-on-write (`Project4/vm.c`, `kalloc.c`, `trap.c`, `proc.c`, `exec.c`) | free pages, reference counts, page tables | `sharerouvm`, `cow_handler`, `allocuvm`, `deallocuvm`, fork/exit/wait/sbrk/exec | counts are tested in one critical section and changed in the next, on two CPUs; memory runs out half-way | nobody sees another's writes; counts equal mappings; nothing is freed in use or leaks |
| Page allocator (`Project4/kalloc.c`, `main.c`) | free list, boot stages, stacks of the processors | `kinit1`, `kinit2`, `kalloc`, `kfree`, `countfp`, `startothers` | `kalloc` drops its lock in the middle; the other processors start on a small map | a page has one owner |
| Redo log (`log.c`, the same in all kernels) | header and data blocks on disk, `log.lh`, `outstanding`, `committing`, pinned buffers | `begin_op`, `log_write`, `end_op`, `commit`, `recover_from_log` | a crash between any two disk writes, also during recovery; group commit; a log that fills up | an all-or-nothing disk; durability; nobody sleeps unawaited; a transaction fits the log |
| Buffer cache, sleep locks, disk queue (`bio.c`, `sleeplock.c`, `ide.c`) | LRU list, reference counts, locks, `idequeue` | `bget`, `bread`, `bwrite`, `brelse`, `iderw`, `ideintr` | recycling against waiting; interrupts; failing reads | one buffer per block; what was written last is read; each sleeper is woken |
| Files and directories (`fs.c`, `sysfile.c`, `file.c`) | inodes on disk and in the cache, directory entries, file table, what each process has locked | link, unlink, open, mkdir, mknod, chdir, close, dup, `iput` | last reference against lookup; lock order; crashes in the middle | links equal entries after any crash; references are exact; nobody waits in a circle |
| Contents of files (`fs.c`, `file.c`) | bitmap, block pointers, sizes, offsets | `balloc`, `bfree`, `bmap`, `itrunc`, `readi`, `writei`, `fileread`, `filewrite` | interleaved allocation; the indirect block; pieces of a transaction | a file is a sequence of bytes; a block has one owner |
| Pipes (`pipe.c`) | ring, two counters, two open flags | read, write, close | two kinds of sleepers, closing, killing, counters that wrap | a FIFO; nobody sleeps for nothing |
| Console (`console.c`) | ring with three counters | `consoleintr`, `consoleread` | a full ring, wrapping counters, ^D, ^U | an edited line and a queue of lines; nobody sleeps beside a line |
| Processes of Project1 (`proc.c`, `exec.c`, `vm.c`, `add_syscall.c`) | process table, pages | fork, exit, wait, kill, exec, sbrk, `getgpid` | memory runs out half-way; parents exit | pages are conserved; who can be waited for is |
| Spin locks and interrupts (`spinlock.c`, `proc.c`, `trap.c`) | lock words, `ncli`, `intena`, interrupt flag | `acquire`, `release`, `pushcli`, `popcli`, `sched`, interrupts | the flag belongs to the process, the nesting to the processor | no interrupt under a lock; no panic |
| System call arguments (`syscall.c`, `sysfile.c`) | size and stack pointer of the process | `argint`, `argptr`, `argstr`, `argfd` | sums that wrap around | the kernel stays within the process |
| User heap (`umalloc.c`) | circular list of free blocks | `malloc`, `free`, `morecore` | joining, holes | blocks are disjoint and none is lost |
| Program loading (`exec.c`, `vm.c`) | the new page table, `sz`, `sp` | `exec`, `allocuvm`, `loaduvm`, `copyout` | headers with any numbers, sums that wrap, memory that runs out | every file that can be loaded is, and its image is right |
| Path names (`fs.c`, `string.c`) | bytes of entries, the buffer for a name | `skipelem`, `namex`, `dirlookup`, `dirlink` | names without a nul, stale bytes behind one | a path leads where its elements lead |
| Image builder (`mkfs.c`) | inodes, bitmap, next free block and inode | `ialloc`, `iappend`, `balloc` | the indirect block, sizes at the end of a block | the kernel starts with a sound disk |
| Shell and init (`sh.c`, `init.c`) | processes, their descriptors | the parser, `runcmd`, `main` | ends of pipes in several processes; full tables | a program has the files that the line says; no line waits for itself |
| Keyboard (`kbd.c`) | `shift` | `kbdgetc` | several bytes for one key | a modifier is on while its key is held |
| Filters (`grep.c`, `wc.c`) | buffer, counts | `grep`, `match`, `wc` | input in pieces of any size | the output does not depend on the pieces |
| Boot code, interrupt controllers, other user programs, tests | | | | not modelled (section 8) |

How they interact: a file system call brackets its `log_write`s with `begin_op`
and `end_op`; the log reads and writes through the buffer cache, which calls the
disk driver. Everything that blocks does so through `sleep`/`wakeup` of
`proc.c`; `trap.c` calls the clock and the page-fault handlers of the process
that happens to run.

The hazards of PROJECT.json name the line at which each of these behaviours
bites and the property that watches it.

## 2. Plan

Done: all components of the table above. Left, in this order:

1. Proofs: who can wait for whom in `Fs`; on several processors, the monopoly of `Mlfq`, and
   `Lwp` with the joiner that section 3 names as the only exception.
2. Composition: the log below `Blocks` instead of the count of written blocks.
3. The error paths of `thread_join()` and `growproc()` of Project3_LWP that keep
   `pttable.lock`; two threads of a process in a system call's arguments.

## 3. Modules

| Module | What it is |
|---|---|
| `StoreBuffer` | the x86 store buffer: pending stores and what a load returns (external: the processor) |
| `Mutex` | abstract: one process in its critical section, increments one after the other |
| `FilterLock`, `TasLock`, `MCLocks` | the two locks, every load and store a step; both implement `Mutex` |
| `FilterLockProofs`, `TasLockProofs` | their theorems, and in the latter those of `Lwp` |
| `Mlfq`, `MCMlfq`, `MlfqProofs` | Project2's kernel; small machines and programs for it; its theorems |
| `AtomicDisk` | abstract: a disk that changes all at once and falls back in a crash |
| `Log`, `LogProofs` | log.c, which implements `AtomicDisk`; its theorems |
| `PrivateMemory`, `Cow`, `CowProofs` | abstract: every process has memory of its own; copy-on-write, which implements it; its theorems |
| `Kalloc` | the page allocator and the start of the processors |
| `Lwp` | threads |
| `Channel`, `Pipe`, `PipeProofs` | abstract: a bounded FIFO; pipe.c, which implements it; their theorems, and those of `Console` and `SyscallArgs` |
| `Fs`, `FsPrograms`, `MCFs` | inodes, directories and the calls on them; small trees and programs |
| `ByteFiles`, `Blocks` | abstract: files are sequences of bytes; block allocation and file contents, which implement it |
| `BufCache`, `BufCacheProofs` | buffer cache, sleep locks, disk queue; its theorems, and those of `Blocks` |
| `LineInput`, `Console` | abstract: an edited line and a queue; the console's ring, which implements it |
| `Umalloc` | malloc and free |
| `SpinLock`, `SpinLockProofs` | spin locks, interrupts, the switch between processes; its theorems, and those of `Kalloc` and `Proc` |
| `Proc` | processes and pages of Project1 |
| `SyscallArgs` | arguments of system calls |
| `Loader` | exec(): segments, stack and arguments |
| `Names` | path names and directory entries, byte by byte |
| `Mkfs` | the first image of the disk |
| `Shell` | the shell with its parser, and init |
| `Keyboard`, `Filters` | scan codes; grep and wc |
| `MCKernel` | one small instance of each module from `Cow` on |

`MCKernel` and `MCLocks` hold several instances. A variable chosen
in the first state (`focus`, `lock`) says which of them a behaviour is
one of; the variables of the others stay 0, or as they started. A property names
the instance that it is about. Nothing is lost or gained by it: the state graph is
the disjoint union of the graphs of the instances.

### The locks

The variables are those of the C files. A thread has a program counter, the
locals of `lock()` and one store buffer. A store enters the buffer, or goes to
memory at once if the buffer is empty. `StoreBufferSize = 0` is a machine
without store buffers: all threads on one processor, or a fence after every
store. `main` creates the threads one by one and joins them, so a thread may be
through before the next one exists. Arrays are indexed from 1.

### Mlfq

A critical section of `ptable.lock` is one step: no step of another CPU that
needs the lock can fall inside it, and interrupts are off. Code that touches the
table without the lock is split into its loads and stores: the test of
`timeslice` in `yield()`, `setpriority()`, the four parts of `setmonopoly()` (it
finds the process, removes it from its queue, sets its level, appends it to MoQ),
the test of `mode` in the timer interrupt. `ptlock` is kept only across
`swtch`, where one kernel thread takes the lock and another releases it. A
process has a stack of kernel frames (a system call, and a timer interrupt on
top of it); `Resume` is the code behind `sched()`, and depends on what the
process had called. Files, address spaces and the console are left out; in
their place `MemoryFails` lets `kalloc()` and `copyuvm()` fail at any call.

The arrays of the queues are modelled below `rear` only. A behaviour is followed up to
one of two things. `fault` is a panic, or a `removePCB()` that does not find its process
below `rear`, or an entry behind the array. `overtaken` is a history flag: the step of
another process, or of a boost, has changed a queue in which a `setmonopoly()`, which holds
no lock, has found its place, or has demoted or reaped the process that it moves. What
the code does after that is not harmless. `boost()` and `removePCB()` leave old pointers
behind `rear`, `removePCB()` finds one of them and goes on with a wrong `rear`, down to
-1; a process can then be in MoQ and in a level, MoQ mode can switch to a process
that is not of MoQ, or never end; and a process of level MOQ that a boost has left at the head of
L0 keeps its place there in every `yield()`, so that the others starve. What
the module claims of the monopoly and of starvation it therefore claims up to the overtaking, and
says so in each property. Up to there the loop of `setmonopoly()` over a queue is one
step: nobody can tell it from the single moves of entries. (A scheduler in the middle of
its own loop, on another CPU than such a `setmonopoly()`, is not followed.)

`Calls[n]` is the set of calls the program with pid `n` makes, in any order and
number. The name of the action is that of the function where the function is
one step (`levelSchedule`, `boost`, `Wait`, `Kill`), and begins with it where
it is several (`ForkAlloc`, `ForkStack`, `ForkCopy`).

### Log

A `bwrite()` is one atomic step (a block is one sector). `Crash` is enabled
everywhere; it keeps the disk and nothing else. `cache` is what `bread()` would
return; a buffer that is neither dirty nor locked may be recycled at any time
(`Recycle`). `Modify` is any code between `bread()` and `log_write()`. A call
writes at most MAXOPBLOCKS distinct blocks, which is what `begin_op()` relies
on. Recovery is the `boot` stages: `read_head`, the same `install_trans`, the
cleared header.

### Cow and Kalloc

`Cow` runs every process on a processor of its own. A step is what one critical
section of `kmem.lock` covers, or the code between two: the test of a count, the
free and the decrement of `deallocuvm()` are three steps, as are the parts of
`cow_handler()`. `kalloc()` reads the head of the free list under `kmem.lock`, releases the lock
and takes the page later. `Cow` has both parts: `KallocHead` reads the head, and the step that
takes the page must come after it. A behaviour is followed up to and with the first
step that changes the list under another process that has read its head (`raced`). What
comes then is false for this code: both processes have the same page, and write to it, or a
page is lost. `Kalloc` follows it that far (`kalloc_race`); the properties of `Cow` hold up to there.
`cow_handler()` is called for pages below `sz` that are present: the paths that kill a process for any other
address are left out. `countfp()` is called when there is a free page; on an empty list
it would read through a null pointer. Page tables take pages, too (`NPTE` entries each), so that
`mappages()` fails in the middle. A behaviour counts calls that overlap
(`overlap`), because two sharers that leave together leak a page:
`LeakNeedsOverlap` says that nothing else does.

### Lwp

One CPU, with an interrupt wherever interrupts are on. Taking and releasing
`pttable.lock` delimits the steps; code without it is split at its loads and
stores. A behaviour is followed up to the first step in which a thread runs while a
sibling is in `thread_create()`, `exec()` or `exit()`: these change the table without
the lock, and what happens then is undefined in the code (a stack in use is freed, two
threads get one slot). `lossy` records that a call was cut off or failed half-way. With
two CPUs `OwnStack` fails in 16 steps: a joiner frees the stack of a thread that
has marked itself ZOMBIE and still runs on it (proc.c:878).

### Fs, Blocks and BufCache

In `Fs` a call is in the steps between two lock operations of inodes, with one
transaction around it; a crash brings back the disk as of the last step in which
no call was in progress (what `Log` promises), which is the variable `disk`.
Directory entries are a function from names. `FilesConsistent` leaves out directories
that were used after they were removed (`stray`) and inodes without links that were
open at a crash or put twice at once (`orphans`); both are real.

`Blocks` has the contents: the loop of `writei()` and of `itrunc()` one turn at a
time, with other processes in between; `dirty` counts the blocks of a transaction.
A full disk is `panic` in the code and ends a behaviour.

In `BufCache` a step is a critical section. `Change` is the code that has a buffer and
calls `log_write()`. A failed read leaves the buffer as it was, valid: blocks in
`failed` are the exception of `NothingStale`. Processes ask for a second block in
increasing order, as `bmap()` and `itrunc()` do.

### Pipe and Console

The code between two sleeps is one step of `Pipe`, because `p->lock` is held. In
`Console` every byte is a step. Counters count modulo a small power of two and start so that they
wrap. `kill()` may come at any time; a writer killed when it has just filled the
pipe returns without waking the reader, which `SleepersWait` of `Pipe` excepts.

### SpinLock, Proc, Umalloc, SyscallArgs

`SpinLock` has two locks, taken in one order, processors that are in their
scheduler, in a process or in a handler on top of either, and `sched()` with its
tests. `forkret()` does not set `intena`: `InterruptsKept` speaks of processes that
have returned to user space once. `Proc` counts pages; every `kalloc()` is a step
and fails when there is none left. Nobody kills init. `Umalloc` has one program,
every turn of a loop is a step. `SyscallArgs` lets the memory of the process hold
any value.

### Loader, Names, Mkfs, Shell, Keyboard, Filters

These are sequential but for `Shell`; a step is a turn of a loop, or a call. `Loader`
takes any headers and lengths of arguments; a byte is named by where it comes from,
so that what stands where can be told. `uva2ka()` does not ask whether a page table
is there; in the model it is, so an argument of tens of megabytes, which would lead
`copyout()` into the unmapped part of the address space, is not covered. In `Names`
the buffer for a name is on the stack and holds what stood there before; `tree` is
what has been named, by the first DIRSIZ characters. `Mkfs` has the reference state
of the image: the root directory of an image whose entries fill a block has a size
one block larger than what it has, which `ImageSound` excepts and says is the only case.

In `Shell` the processes of a line interleave at their system calls. A program may end
at any time; `SomeoneRuns` asks for more, that the line gets on when every program
reads its input to the end and waits for its output to be taken, as cat does. The
parser is compared with a grammar that splits a line at its operators. `lost`
records that a fork() or a pipe() of the shell has failed. `Keyboard` has the keys as they are and as
`kbdgetc()` has read them; with both keys of a modifier held the first release
turns it off, which `ModifiersRight` excepts. In `Filters` grep throws away what a
read() brought without an end of a line, so that from a pipe it can lose the
beginning of a line (`broken`); `OutputRight` says that this is the only loss, and
that it always reads to the end.

## 4. Runs

| Run | Instance | Shows |
|---|---|---|
| `filter_lock_live` | 2 threads, buffers of 2 | types and termination on x86 |
| `filter_lock_tso` (violation) | 2 threads, buffers of 2 | it does not exclude on x86 |
| `locks` | test-and-set: 4 threads, 2 increments, buffers of 2; filter: 3 threads, no buffers | both exclude, implement `Mutex` and terminate |
| `mlfq_fork_tree` | 2 CPUs, 4 slots, 3 generations | `OneQueue`, `NoFault`, `OneCpu` |
| `mlfq_failures` | 2 CPUs, failing memory, pid 0, a full table | `NoLostExit` survives a corrupted queue |
| `mlfq_live` | a parent and two children that compute, enter MoQ or exit | the monopoly excludes, and ends, and in MLFQ mode nobody waits for ever, until a `setmonopoly()` is overtaken; a quantum is used up |
| `mlfq_moq_one` (violation) | a parent, one MoQ child | a monopoly of one process ends at once |
| `log` | 2 processes, 3 blocks, the log as mkfs sets it aside: LOGSIZE = 3 blocks, the header one of them | `Atomicity`, `Durable`, `SleepersAwaited`, `SpaceReserved`, `Admitted` |
| `kernel` | one instance of each component of `MCKernel` | the table below |
| `kalloc_race` (violation) | 2 CPUs allocate | a page is given out twice, or lost |
| `fs_deadlock` (violation) | 2 processes: create, link, unlink of one name | they wait for each other |
| `fs_iput` (violation) | 2 processes: open, close, unlink | an inode that nobody uses is not freed |

`kernel`, by property:

| Property | Of | Says |
|---|---|---|
| `References`, `Isolation` | Cow | up to the first race of two `kalloc()`: counts are exact, nothing is freed in use, nothing leaks but for overlaps; it implements `PrivateMemory` |
| `MemoryOwned` | Kalloc, Proc, Umalloc, SyscallArgs, Loader | pages, images and heap blocks have one owner, whatever fails half-way; the kernel stays within the process that calls; exec() loads what can be loaded, as the file says |
| `StacksOwned`, `ThreadsEnd` | Lwp, Proc | up to the first overlap, on one CPU: stacks are owned; joiners, waiters and orphans are seen to; who meets a null grandparent |
| `SleepersWait` | Pipe, Console, BufCache | nobody sleeps for what is there, or will never come |
| `FilesConsistent`, `InodesInUse`, `InodeWaits` | Fs, Names | paths lead where they should, link counts after crashes, reference counts, who can wait for whom |
| `FileBlocks`, `IsByteArray` | Blocks, Mkfs | one owner per block, blocks as the size asks, from the first image on; transactions that fit; implements `ByteFiles` |
| `BlocksCached` | BufCache | one buffer per block; nothing stale |
| `IsChannel`, `IsLineInput` | Pipe, Console | implement `Channel` and `LineInput` |
| `TypedRuns` | Keyboard, Shell, Filters | keys give their characters; the parser is that of the grammar; programs have their files, and lines end; grep and wc do not depend on the pieces |
| `LocksGuarded` | SpinLock | no interrupt under a lock, no panic, the flag follows the process |

Findings:

- `filter_lock_tso`: Flag and Turn are plain stores; two threads pass each other
  while theirs are still buffered.
- `mlfq_moq_one`: `checkMoQ()` takes a MoQ of one process for a finished one.
- `kalloc_race`: `kalloc()` of Project4 releases its lock before it has taken the page.
- `fs_deadlock`: `create()` and `unlink()` put the parent directory with the child
  locked, and `iput()` locks; another `unlink()` has the parent and waits for the child.
- `fs_iput`: `iput()` reads the reference count before it decrements it, in another
  critical section.

The model also has these disagreements, which bound what the passing runs claim
(most are hazards with a note):

- `fork()` of Project2 that fails in `copyuvm()` leaves its slot in L0, so `OneQueue`
  is checked with `MemoryFails = FALSE` only.
- With NPROC processes in one queue `removePCB()` overwrites `rear`; `NoFault` is
  checked with a free slot.
- `setmonopoly()` without a lock can be overtaken by a demotion, a boost or the exit of
  its process; section 3 says what then goes wrong. `OneQueue` and `NoFault` are not checked with it,
  and the properties of `mlfq_live` hold up to the overtaking.
- After a race of two `kalloc()` of Project4 a page has two owners: the properties of `Cow`
  hold up to the race.
- On two CPUs, or when a program calls `yield()` itself, a boost may fall between
  `yield()`'s test of the quantum and the demotion; `DemotedAfterQuantum` is checked
  on one CPU, of programs that do not.
- `setpriority()` does not move a process that stands in L3; `unmonopolize()`
  sets the clock back; `kill(0)` marks a free slot.
- mkfs counts the header among the LOGSIZE blocks of the log, so that its data is one block
  less than `begin_op()` reckons with: calls within their limit can make `log_write()`
  panic, and, since the test is made before the lock is taken, two of them can pass it together and
  `commit()` would write behind the log. The run `log` has that log. Both are reached, as the
  state `fault`, and not followed further. What is claimed is that the array
  `log.lh.block[]` is never overrun (`SpaceReserved`), not that the blocks on the disk suffice.
- The exceptions named in section 3: overlapping sharers (Cow), overlapping exits and
  a second CPU (Lwp), a killed writer (Pipe), removed directories and open files
  without a name (Fs), failed reads (BufCache), `forkret()` (SpinLock), null
  grandparents (Proc), a full root directory (Mkfs), pieces without an end of a line (Filters).

## 5. Bounds

- Three threads are the fewest for which the filter lock has a level that is
  neither the first nor the last; four for the test-and-set lock cost little.
- The quanta of the code are 2, 4, 6 and 8 ticks and the boost comes every 100.
  The runs give 1 tick in L0 and 0 below, and boost every 2 to 4 ticks, so that
  every level, and boosts at every point of a quantum, are reached. `ticks`
  counts modulo `TickModulus`: the wrap of the unsigned counter happens.
- `MaxPid` bounds the pids: no program forks beyond it. There is one slot more than
  processes where the full table is not the question (it is in `mlfq_failures`).
- The log has the smallest size in which one call ends while another is in
  progress: LOGSIZE and the blocks on the disk are both 3, as mkfs makes them equal, and a call
  writes one block. Its two data blocks are fewer than the three blocks that there are, so that it
  fills up. Two values tell old from new.
- Cow: two processes with two pages each and nine pages: sharing, running out in
  `fork`, `exec` and `sbrk`, and a page given to the other process all happen.
- Kalloc: three processors, so that two start one after the other, and two pages
  beyond those of the first 4 MB.
- Lwp: three threads in all with every call and failing memory; four without exec
  and memory failures, so that two siblings of an exiting thread exist.
- Pipe, Console: rings of 2 and 4 bytes, counters modulo 4 and 8, inputs that do not
  fit the ring; two writers, two readers.
- Fs: a tree of two levels, four inodes, three calls of two processes and a crash. The
  violations need the same size.
- Blocks: blocks of two bytes, one direct and two indirect blocks, five on the disk:
  files of full size and a full disk are reached. Three calls.
- BufCache: two buffers for three blocks: recycling with one pinned, and no buffer left.
- Umalloc: a heap of eight units, requests of 1, 2 and 4. SpinLock: two
  processors, two processes. Proc: four processes and four calls, with memory
  for four that do not grow.
- SyscallArgs: addresses of four bits and words of two bytes; every size of a process,
  stack pointer and argument.
- Loader: six pages of 12 bytes, two headers, one argument more than MAXARG; segments
  that overlap, wrap around, do not fit or are not aligned. Names: entries of three
  bytes for names of one to four; two inodes beside the root, so that a place is used
  again. Mkfs: five files; the largest, one byte more, and a root directory that needs
  its indirect block.
- Shell: two of six lines, which have every operator, with six processes, so that the
  table runs full; five descriptors are the fewest that a pipe needs. The parser is
  tried on all lines of four tokens. Keyboard: seven keys and two bytes that wait.
  Filters: texts of five characters and a buffer for three, so that lines are longer than it;
  the matcher on patterns and texts of three.

## 6. Fairness

- Locks: every thread that has something to execute executes it, and a buffered
  store reaches memory (weak fairness of each thread, of each drain and of
  `main`). Nothing is assumed about who wins the lock word: a thread that takes
  the test-and-set lock releases it and does not come back, so the others get it.
- Mlfq: the scheduler and the kernel code of each CPU get on and the timer
  interrupts it again and again. All three are interrupted by one another but take
  far less time than a tick, and a tick stays pending while interrupts are off:
  strong fairness. A handler that has begun ends: weak fairness. No program has to
  make a call.
- Log: `commit()` and the code of a process inside a call get on; a call writes
  only finitely often and then ends, hence strong fairness of `end_op`. Nobody has
  to begin a call and the machine need not crash.
- The modules of `MCKernel` state no fairness. What must not be waited for in vain is
  said as an invariant instead: nobody sleeps whose condition holds or can no longer be
  made true. A reader of a pipe or a console need not ever get anything.

## 7. Proofs

All are for every value of the constants allowed by the module's ASSUME; where a
theorem needs more, the hypothesis is in its statement and named below.

**FilterLockProofs** (StoreBufferSize = 0). `MutualExclusion` is not inductive: it
says nothing of the threads below the last level. `FilterInv` has three parts:
the program point of a thread determines its Flag (`LocalInv`); the last thread to
arrive at a level waits there as long as anyone does, and a level somebody has
passed has a waiting thread or nobody else at or beyond it (`LevelInv`); whoever an
unfinished scan has met below its level is still behind it, unless Turn has been
taken over since (`ScanInv`). Two threads in the critical section would then have a
waiting thread at each of the NUM_THREADS levels, all different and none of them
the first of the two: the pigeonhole principle excludes that (`FilterExcludes`).
Each action has its lemma. Theorems: `InvariantHolds`, `TypeCorrect`,
`MutualExclusionHolds`, and `RefinementHolds`: the lock implements `Mutex`, whose
holder is the thread in the critical section; no increment is lost.

**TasLockProofs** (any size of buffers). `LockInv`: the lock word is 1 exactly
while one thread owns the lock, where owning lasts until the release has drained,
and the release is the last store in the owner's buffer, behind its stores to
`shared_resource`. Theorems: `InvariantHolds`, `TypeCorrect`, `LockInvHolds`,
`MutualExclusionHolds`, and `RefinementHolds`: the holder of `Mutex` is the thread
whose release has not reached memory, its value what that thread would read.

The second half of the module is about `Lwp`: tables of any size, any program, memory that fails at
any call, on one processor (`OneProcessor`; with a second one `OwnStack` is false, see section 3).
That stacks are owned is not inductive, nor is that siblings stop: it takes whose entry is whose,
and who can run while the tables change without the lock. `ThreadInv` says of all behaviours
what the tables are made of (`Tables`) and that a joiner is awaited (`Awaited`), and
up to the first overlap (`Core`):

- Links: a thread is one process's, as its master or in one entry of `workers`
  (`MembersApart`, `MemberEntries`); what a process has in each of its states (`ProcStates`); whoever
  may run has a process that is there (`Homes`).
- Making: an entry that `thread_create()` or `fork()` has taken belongs to that one call and to
  nobody else (`NewEntries`, `NewProcs`); kernel stacks are held by members and by
  the calls that have got one (`StacksHeld`), slots for user stacks likewise (`UserStacks`);
  an entry in use has one of the two, if no call was lost (`Kept`).
- Control: the state of a thread agrees with where its call is (`CallStates`); while a thread
  runs, none of its siblings has been interrupted where it changes `workers` or marks
  its siblings (`OneRuns`); so the loop of `exit()` has ended every thread that it has passed
  (`Exiting`), that of `exec()` has emptied every entry (`Execing`), and a joiner
  finds its worker where it was, or a sibling is in `exec()` (`Joining`).

The steps are of four kinds, with one lemma for each: those that leave the links alone
(`Steady`), that change the entry of one thread that is being made (`Touches`), that remove entries
(`Removes`) and that take new ones (`Makes`); each action is shown to be of a kind. Theorems:
`ThreadInvHolds`, `ThreadTypeCorrect`, `ThreadOwnStackHolds`,
`ThreadOwnUserStackHolds`, `NoLostJoinHolds`, `SiblingsStopHolds` and `LossHasCauseHolds`.

**LogProofs**. `IInv` is `TypeOK /\ LogInv /\ SleepersAwaited`. `LogInv` has five
parts: the calls in progress are counted and there is none during a commit
(`Counted`); `log.lh` is empty between transactions (`Drained`); what differs
between cache and disk is locked, or pinned and in `log.lh` (`Coherent`); the
header on disk is empty before the commit point and equals `log.lh` after it
(`HeaderInv`); the copies made so far are right (`CopyInv`). From it:

- `TypeCorrect`, `LogInvHolds`, `SleepersAwaitedHolds`, `DurableHolds`;
- `AtomicityHolds`: Spec => Disk!AbsSpec with stable <- what recovery would make of
  the disk, view <- what the file system reads. `write_head()` is the one step
  that changes stable (`WriteHeadRefines`: all of `log.lh` is in the log, and
  outside it cache and disk agree); copying to the log is invisible because the
  header is empty, installing because recovery would do the same, and clearing the
  header because everything is at home. A crash is `Fall`, wherever it comes.
- `SpaceReservedHolds`: what is in the transaction and what the calls in progress may still
  add to it is at most LOGSIZE blocks, for every relation of LOGSIZE to the blocks on the disk. So `log.lh.block[]`
  is not overrun, although `log_write()` tests its length before it takes the lock. It says nothing
  of the log on the disk, which is one block short (section 4).

**MlfqProofs** (any processors, queues, programs and clocks; any call may fail for want
of memory). `MInv` adds to the types what the kernel stacks say: which frames a
process can have and what it sleeps in (`Parked`), what a timer interrupt can be on
top of (`Interrupted`), which slots a fork that has not ended keeps (`Allocated`),
who has a parent, and that init has none and stays (`Lineage`), and that the pids
suffice for the forks under way (`PidsLeft`). Theorems: `InvariantHolds`,
`TypeCorrect`, `OneCpuHolds`, and `NoLostExitHolds`: a parent in `wait()` has a child and
no zombie, although half of the system calls take no lock and a queue may be corrupted.

The other theorems need what section 4 says of the code, as a hypothesis:

- `OneQueueHolds`, if no program calls setmonopoly() and fork() gets its memory
  (`Steady`). `OneQueue` counts entries; `QInv` says it piecewise, since a count is no
  use to `removePCB()`: no entry is repeated (`Single`), an entry is a process whose
  qlevel names the queue, and conversely (`InPlace`), nobody is in MoQ (`Unmoved`), a
  pid is that of one slot (`Named`, by which `removePCB()` removes whom it should), and
  nobody is in setmonopoly() (`Settled`). `boost()` is a loop over the queues; what it
  does to each is shown turn by turn.
- `OverrunsWhenFull`, an action property, under `Steady`: a `fault` comes only when
  all NPROC slots are taken. A queue with as many entries as the table has slots has
  every process; this is where `QInv` is used.
- `NoFaultHolds`, under `Steady`, with `MaxPid < NPROC` and no kill(1). It is not
  inductive: init must not exit. `InitStays` says who could make it: nobody has
  killed init, and it is not in exit(). Allocated slots have different pids below `nextpid`
  (`Named`), so that one slot is always free.
- `DemotedHolds`, on one CPU for programs that do not call yield() (`Timed`; with
  setmonopoly() and failing forks). `Quantum`: the code between `yield()`'s test and the
  move to the next queue runs with interrupts off, so that the quantum is still used up, and the
  process still not of MoQ, when it moves.
- `MonopolyIsExclusiveHolds`, on one CPU for the programs of the tests: nobody calls
  yield(), and the first process alone forks, waits and calls setmonopoly(), not for pid 0
  (`Timed`, `Monopolists`; it gets its memory). There `MoqInv` holds although setmonopoly() takes
  no lock and can be interrupted between its four parts, up to the first interruption that
  changes what it works on (`overtaken`). No entry is repeated (`Lone`) and an
  entry is in the queue its qlevel names (`Ordered`); the converse is not true meanwhile, but a
  slot that is free, or that fork() or setmonopoly() has still to append, is in no queue
  (`Apart`), and that code is init's alone (`Ruling`). Between its last two parts the process has
  the level of MoQ and is in no queue, and nobody takes the level away from it
  without overtaking (`Marked`). The process that is being moved
  cannot be demoted at the same time: `removePCB()` would have to find its entry, and `Quantum` says
  that it is not demoted out of MoQ. With `Ordered`, what the scheduler finds in MoQ is of MoQ.

**PipeProofs**, under `Sizes` and `Processes`: the range of the counters is a multiple
of PIPESIZE, as 2^32 is of 512 (without that `nread % PIPESIZE` would jump when a
counter wraps), and each end is held by someone. `PInv` adds to `SleepersWait` that the ring never
holds more than it can and that an end is open exactly while a process has it.
Theorems: `InvariantHolds`, `TypeCorrect`, `SleepersWaitHolds` (with the page freed
once, at the end), and `ChannelHolds`: the ring with its two counters is the FIFO of
`Channel`, through every wrap.

The same arithmetic carries the console (the ring has 128 bytes). `CInv`: r, w and e
follow each other within one ring's length, a ring that is full is all there to be read, the
line that is being typed has no newline in it, and nobody sleeps while r # w. That a
line is read as typed needs the third: ^U and backspace stop at the last newline, and a reader
at the first. `LineInputHolds` (Console implements `LineInput`), `ConsoleTypeCorrect` and
`LineAwaitedHolds` follow, if newline is a byte (`Keys`).

`WithinProcessHolds` and `ArgvFitsHolds` are about `SyscallArgs`, under `Widths`: user memory is
in the lower half of what a uint can address, as KERNBASE is half of 2^32, and a word
and a `struct stat` are smaller than that half. `ArgInv` says what is known at each
fetch; the point is that `addr + 4 > sz` is tested after `addr >= sz`, and
then the sum cannot have wrapped around.

**SpinLockProofs** (any processors and processes; `Named` says that None is neither).
`SInv`: `ncli` counts the locks that a processor has and the one it waits for
(`Counted`); the interrupt flag is, and after the last `release()` will be, that of
the code of the process (`Flagged`), which `sched()` puts back (`Saved`). Theorems:
`InvariantHolds`, `TypeCorrect`, `NeverPanicsHolds`, `InterruptsKeptHolds`,
`OneProcessorHolds` and their conjunction `LocksGuardedHolds`.

`OwnLowStackHolds` is about `Kalloc`, if there are at least as many pages in the low 4 MB
as processors (`LowMemory`). Nothing in `kalloc()` makes its page low, and there it may be given
out twice: `BootInv` says that until kinit2() the free list is what is left of the
first part, from its end, that `main()` is alone with it, and so processor c has
page LowPages - c. Processors that allocate come later.

`ParentsWaitHolds` and `GrandparentKnownHolds` are about `Proc`, for any table and any
amount of memory (`Table`). `ProcInv`: init stays, and every other process has a parent
that lives (`Family`); a fork() has its slot to itself (`Forking`); who sleeps in wait() has a child and no
zombie (`Awaiting`), which exit() keeps, since it wakes the parent and, if it leaves it
zombies, init; who is in a call has the pages of its size (`Present`).

**BufCacheProofs** (any processes, buffers and blocks; `Params`: finitely many processes,
none called None). `OneBuffer` and `NothingStale` are not inductive: `bget()` recycles a
buffer whose count is 0 without a look at its lock or at the queue, so that `BInv`
must say why nobody is left there. A buffer is counted once for each process that has
it or is at it (`Counted`); a lock that is taken is that of one who has the buffer or is
in `iderw()` with it (`Locked`); a buffer in the queue needs the disk, is there once and is
awaited (`QueueOK`), and who is about to queue a buffer finds it not queued and in need
of the disk (`Waits`), whatever wakeups and kills come; and a dirty buffer is
valid (`DirtyValid`), so that a buffer that is taken has nothing the disk does not have.
Theorems: `InvariantHolds`, `TypeCorrect`, `OneBufferHolds`, `NothingStaleHolds`, their
conjunction `BlocksCachedHolds`, and `BufferSleepHolds`. That a search finds the
buffer it asks for (`Least`, `Greatest`) rests on the library's well-founded induction, cited for
the order of the natural numbers.

The second half of the module is about `Blocks`: any processes, inodes, open files and calls, blocks of any size,
any number of direct entries and any disk (`BlockSizes`: MAXOPBLOCKS is at least 6, or
`filewrite()` would cut a write into pieces of no bytes, and an open file has an inode).
That a block has one owner says nothing of what a write under way has done to
the file, or of which entries `itrunc()` has passed. `FileInv` does:

- `Owned`: each position of an inode, direct, indirect or listed in the indirect block, names
  nothing or a block in use; two positions never name the same one; a block in use
  is named. Entries that `itrunc()` has passed still hold their numbers and do not
  count; others may have been given those blocks meanwhile.
- `Covered`: a file has the positions that its bytes ask for up to the end that the
  write has reached (`EndOf`), and no other. So `bmap()` allocates at the end only, and
  `itrunc()` finds an indirect block whenever it has entries.
- `Written`: the bytes of a file that is being written are the ones before and, in the part done so
  far, those of the call.
- `Reserved`: a transaction has written the bitmap, the indirect block and as many blocks of
  the file as its bytes so far touch (`Touched`); a piece of `max` bytes that begins in
  the middle of a block touches one more than max / BSIZE (`PieceFits`).
- `Calling`, `LockedBy`: who has an inode locked, and what a call that was cut into pieces
  still knows of its file.

Each turn of the loops of `writei()` and `itrunc()` has its lemmas: what `bmap()` returns
for every state of the two levels (`BmapMaps`), that no other file is touched
(`OtherBlocks`, `OtherBytes`), and the arithmetic of offsets, blocks and cells (`TurnFacts`).
Theorems: `BlocksTypeCorrect`, `BlocksOwnedHolds`, `SizeCoveredHolds`, `OpFitsHolds` (together the part
of `FileBlocks` that is about `Blocks`), and `BlocksImplementFiles`:
`Bl!Spec => Bl!A!Spec`, where A is `ByteFiles`. A piece takes effect when its inode is
unlocked; a turn of a loop changes the contents of no file, not even those of the file that
it works on (`WriteiKeeps`, `TruncStutters`).

**CowProofs** (any processes, pages and sizes of tables; up to and with the first race of two
`kalloc()`, where a behaviour of the module ends). That counts equal mappings is not
inductive: the test of a count, the free and the decrement are separate steps. `CowInv`
has a part about control (`CtlInv`): where a call can be, whose directory it works
on, and which pages that directory maps by now. A directory is worked on by one
process at a time, so that what a call has read of it still holds at its next step;
nothing of the kind holds of counts. And a part about memory (`MemInv`): counts are
exact but for the entry about to be counted down, no entry maps a free page, an
entry that may be written is its page's only one, a page whose count is one and whose
owner is about to write it has no other entry, whatever the other processes do in
between. Theorems:

- `InvariantHolds`, `ReferencesHold` (`CountsExact`, `NoDangling`, `WritableAlone`,
  `PagesPresent`);
- `IsolationHolds`: Spec => Private!Spec. `ImageInv` says what a fork, exec or sbrk under
  way has made so far. Each action has a lemma that says what the processes read
  after it: nothing has changed for any of them (`QuietStep`), or it is the `Store`,
  the `Replace` or the `Fork` of `PrivateMemory`. A fork takes effect when the child
  becomes RUNNABLE; its parent, which is in fork(), has not written in the meantime.

Only model-checked:

- liveness of every module (fairness and ENABLED are out of the prover's reach);
- of `Cow`, up to the same race: `LeakNeedsOverlap`, and that `nfree` and the counts stay within the number of
  pages and a signed byte, which is counting over all tables;
- of `Kalloc` and `Proc`: that pages are conserved. The free list of `Kalloc` is a chain
  and the pages of `Proc` are a sum over the table: facts about both need induction
  over data;
- `Lwp` on more than one processor;
- `Fs`, `Umalloc`, `Mkfs`, `Keyboard` and the
  processes of `Shell`, where a proof would be as long as that of `Cow` or needs induction
  over lists and files. `Names`, `Filters`, `Loader` and the parser of `Shell` compute over data with recursive
  definitions, about which nothing can be proved for all inputs.

## 8. Not modelled

- Boot code, multiprocessor tables, interrupt controllers and the register programming
  of the drivers: hardware I/O that runs once or in sequence; the screen and the serial
  port; formatting.
- User programs other than those of section 3, which pass their arguments to one system
  call; tests, which are a fifth of the lines.
- In modelled components: devices in `readi()`/`writei()`, `stat`, physical
  addresses (outside of `Cow`), procdump; of the shell, the characters of a token and `cd`.
- Physical torn writes: a sector is written or not.
- The four kernels are copies of one: `fs.c`, `log.c`, `bio.c`, `ide.c`, `pipe.c`,
  `file.c`, `sysfile.c`, `console.c`, `sleeplock.c`, `umalloc.c` and the user programs are the same
  file four times. A definition names the lines of one copy, and holds for the others. The
  lines that the map names are therefore a small part of all lines (a seventh), though they
  are most of what the kernels have of their own state and control; modelling a copy
  again would say nothing new.
