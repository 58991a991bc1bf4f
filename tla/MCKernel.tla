-------------------------------- MODULE MCKernel -------------------------------
(***************************************************************************)
(* One instance of each of the kernel's smaller components.  A behaviour   *)
(* is one of the component that focus names; the others stay as they       *)
(* started.                                                                *)
(***************************************************************************)
EXTENDS Cow, Sequences, FsPrograms

VARIABLES focus,
          freelist, next, boot, ap, slot, stack, started, held, at, r, cnt,
          th, pr, cpu, kt, stacks, fault, lossy, lapped,
          data, nread, nwrite, readopen, writeopen, freed, ends, pat, todo, killed,
          ino, cache, cwd, ofile, file, fpr, disk, panic, stray, orphans, calls, crashes,
          bitmap, blk, addrs, size, ilocked, off, wr, dirty, got, bcalls, full,
          buf, mru, idequeue, drive, bp, has, latest, failed, reads, errors, nobuf,
          ring, rdx, wrx, edx, conslock, rd, typed,
          hdr, freep, brk, live, own, mrun, refused,
          mycpu, owner, ths, panicked,
          ptable, free, cur, ncalls,
          usize, esp, sys, touched,
          job, lines, lost,
          din, ind, sect, freeinode, freeblock, bits, de, work, step,
          shift, fifo, char, down, kheld, caps, twins, lastkey,
          phdr, argv, lix, sz, sp, page, mem, ustack, short, loading,
          program, pattern, input, rest, line, out, broken, count, ended,
          dir, type, name, tree

kallocVars == <<freelist, next, boot, ap, slot, stack, started, held, at, r, cnt>>
lwpVars == <<th, pr, cpu, kt, stacks, fault, lossy, lapped>>
pipeVars == <<data, nread, nwrite, readopen, writeopen, freed, ends, pat, todo, killed>>
fsVars == <<ino, cache, cwd, ofile, file, fpr, disk, panic, stray, orphans, calls, crashes>>
blockVars == <<bitmap, blk, addrs, size, ilocked, off, wr, dirty, got, bcalls, full>>
bufVars == <<buf, mru, idequeue, drive, bp, has, latest, failed, reads, errors, nobuf>>
conVars == <<ring, rdx, wrx, edx, conslock, rd, typed>>
mallocVars == <<hdr, freep, brk, live, own, mrun, refused>>
spinVars == <<mycpu, owner, ths, panicked>>
procVars == <<ptable, free, cur, ncalls>>
argVars == <<usize, esp, sys, touched>>
shellVars == <<job, lines, lost>>
mkfsVars == <<din, ind, sect, freeinode, freeblock, bits, de, work, step>>
kbdVars == <<shift, fifo, char, down, kheld, caps, twins, lastkey>>
filterVars == <<program, pattern, input, rest, line, out, broken, count, ended>>
nameVars == <<dir, type, name, tree>>
loadVars == <<phdr, argv, lix, sz, sp, page, mem, ustack, short, loading>>

threadVars == <<kallocVars, lwpVars, pipeVars>>
diskVars == <<fsVars, blockVars, bufVars>>
smallVars == <<conVars, mallocVars, spinVars, procVars, argVars>>
userVars == <<shellVars, mkfsVars, kbdVars, loadVars, filterVars, nameVars>>

\* Three processors boot, one thread allocates.
KA == INSTANCE Kalloc WITH NCPU <- 3, LowPages <- 4, NPages <- 6, Allocating <- {0}

AllCalls == {"thread_create", "thread_exit", "thread_join", "exit", "exec", "sleep", "wait", "fork", "kill"}

\* Two threads in a process, every call, failing allocations.
L2 == INSTANCE Lwp WITH NPROC <- 2, NTHREAD <- 3, NCPU <- 1, MemoryFails <- TRUE, Calls <- AllCalls,
                        k <- kt, overlap <- lapped

\* Three threads in a process, without exec().
L3 == INSTANCE Lwp WITH NPROC <- 2, NTHREAD <- 4, NCPU <- 1, MemoryFails <- FALSE,
                        Calls <- AllCalls \ {"exec", "sleep", "wait", "fork"}, k <- kt, overlap <- lapped

\* Two writers and a reader; the counters wrap around at 4.
PI == INSTANCE Pipe WITH Writer <- {"w1", "w2"}, Reader <- {"r"}, PIPESIZE <- 2, UintMod <- 4, Byte <- {0, 1},
                         Input <- {<<0>>, <<1, 0, 1>>}, ReadSize <- {1, 3}, ref <- ends, at <- pat

\* Two processes and three calls on a tree of two levels, and a crash.
FS == INSTANCE Fs WITH Proc <- {1, 2}, Inum <- 1 .. 4, NINODE <- 4, NFILE <- 2, NOFILE <- 1, Files <- {"x", "y"},
                       Images <- TreeImages, Syscalls <- TreeCalls, MaxCalls <- 3, MaxCrashes <- 1, pr <- fpr

\* Two processes and three calls on two files, one of them open twice; a file may have
\* three blocks, and the disk has five.
BL == INSTANCE Blocks WITH Proc <- {1, 2}, Inode <- {1, 2}, File <- {1, 2, 3}, IpOf <- <<1, 1, 2>>, BSIZE <- 2, NDIRECT <- 1,
                           NBlocks <- 5, MAXOPBLOCKS <- 6, Byte <- 0 .. 3, Data <- {<<1>>, <<2, 3, 2>>}, ReadSize <- {3},
                           MaxCalls <- 3, free <- bitmap, lock <- ilocked, at <- wr, calls <- bcalls, panic <- full

\* Two processes read three times from three blocks through two buffers.
BC == INSTANCE BufCache WITH Proc <- {1, 2}, NBUF <- 2, Block <- {1, 2, 3}, Val <- {0, 1}, MaxReads <- 3, MaxErrors <- 1,
                             disk <- drive

\* Two readers; the counters wrap around at 8.
CO == INSTANCE Console WITH Reader <- {1, 2}, INPUT_BUF <- 4, UintMod <- 8, Char <- {"a", "nl", "^D", "^H", "^U"},
                            Newline <- "nl", Eof <- "^D", Erase <- "^H", Kill <- "^U", ReadSize <- {1, 3}, MaxTyped <- 5,
                            r <- rdx, w <- wrx, e <- edx, lock <- conslock

\* A heap of eight units.
UM == INSTANCE Umalloc WITH Top <- 10, MinCore <- 3, Units <- {1, 2, 4}, Gap <- 1, run <- mrun

\* Two processors and two processes.
SP == INSTANCE SpinLock WITH CPU <- {1, 2}, Thread <- {1, 2}, cpu <- mycpu

\* Four processes and four calls, with memory for four that do not grow.
PR == INSTANCE Proc WITH NPROC <- 4, NPages <- 12, Base <- 1, MaxSz <- 3, MaxCalls <- 4, nfree <- free

\* Addresses of four bits, two of which make a word.
SA == INSTANCE SyscallArgs WITH UintMod <- 16, KERNBASE <- 8, Word <- 2, StatSize <- 5, MAXARG <- 2, sz <- usize

\* Two of six lines and six processes; the parser on every line of four tokens.
TypedLines == {<<"<", "a", "a", "|", "a", ">", "a">>, <<"a", "&", ";", "a">>, <<"(", "a", "&", ")", "|", "a">>,
               <<"a", "|", "a", "|", "a">>, <<"a", "|", "(", "a", ";", "a", ")">>, <<"a", "<">>}
SH == INSTANCE Shell WITH NPROC <- 6, NOFILE <- 5, MAXARGS <- 3, Lines <- TypedLines, MaxLines <- 2, MaxTokens <- 4

\* Five files of up to three blocks and a byte too many.
MK == INSTANCE Mkfs WITH BSIZE <- 4, NDIRECT <- 1, NINDIRECT <- 2, Dirent <- 2, NINODES <- 6, nmeta <- 5,
                         Sizes <- {0, 4, 5, 13}, MaxFiles <- 5

\* The two ctrl keys, shift, caps lock, a, cursor up, and the shift with a prefix that
\* some keys send along with theirs.
Keys == [e0 : {FALSE}, code : {29, 42, 58, 30}] \cup [e0 : {TRUE}, code : {29, 42, 72}]
KB == INSTANCE Keyboard WITH Key <- Keys, Buffer <- 2, held <- kheld, last <- lastkey

\* Two headers and two arguments, in a memory of six pages.
Segments == [load : {TRUE}, vaddr : {0, 12, 13, 108}, memsz : {0, 13, 25}, filesz : {0, 1, 13}]
            \cup [load : {FALSE}, vaddr : {13}, memsz : {0}, filesz : {1}]
LO == INSTANCE Loader WITH PGSIZE <- 12, KERNBASE <- 72, UintMod <- 120, Word <- 2, MAXARG <- 1, Headers <- Segments,
                           MaxHeaders <- 2, Lengths <- {1, 11, 70}, MaxArgs <- 2, args <- argv, i <- lix

\* Texts of five characters and a buffer of three; the matcher on patterns and texts of three.
Texts == UNION {[1 .. n -> {"a", "sp", "nl", "nul"}] : n \in 0 .. 5}
FI == INSTANCE Filters WITH Program <- {"grep", "wc"}, BufSize <- 4, Input <- Texts, Pattern <- {<<"^", "a", "$">>},
                            PatternChar <- {"a", ".", "*", "^", "$"}, TextChar <- {"a", "$"}, MaxPattern <- 3, MaxText <- 3,
                            buf <- line

\* Names shorter than, as long as and longer than an entry has room for; two inodes beside the root.
Elems == {<<"a">>, <<"a", "b", "b">>, <<"a", "b", "b", "a">>, <<".", ".">>, <<".">>}
UsedPaths == Elems \cup {<<>>, <<"/">>} \cup {<<"/">> \o e \o <<"/", "/">> \o f : e \in Elems, f \in Elems}
NM == INSTANCE Names WITH DIRSIZ <- 3, Char <- {"a", "b", "."}, Inode <- {1, 2, 3}, Path <- UsedPaths

\* A component that is not in focus is absent.
NoKalloc == freelist = 0 /\ next = 0 /\ boot = 0 /\ ap = 0 /\ slot = 0 /\ stack = 0 /\ started = 0 /\ held = 0 /\ at = 0 /\ r = 0 /\ cnt = 0
NoLwp == th = 0 /\ pr = 0 /\ cpu = 0 /\ kt = 0 /\ stacks = 0 /\ fault = 0 /\ lossy = 0 /\ lapped = 0
NoFs == ino = 0 /\ cache = 0 /\ cwd = 0 /\ ofile = 0 /\ file = 0 /\ fpr = 0 /\ disk = 0 /\ panic = 0 /\ stray = 0 /\ orphans = 0 /\ calls = 0 /\ crashes = 0
NoBufs == buf = 0 /\ mru = 0 /\ idequeue = 0 /\ drive = 0 /\ bp = 0 /\ has = 0 /\ latest = 0 /\ failed = 0 /\ reads = 0 /\ errors = 0 /\ nobuf = 0
NoMalloc == hdr = 0 /\ freep = 0 /\ brk = 0 /\ live = 0 /\ own = 0 /\ mrun = 0 /\ refused = 0
NoSpin == mycpu = 0 /\ owner = 0 /\ ths = 0 /\ panicked = 0
NoProcs == ptable = 0 /\ free = 0 /\ cur = 0 /\ ncalls = 0
NoArgs == usize = 0 /\ esp = 0 /\ sys = 0 /\ touched = 0
NoShell == job = 0 /\ lines = 0 /\ lost = 0
NoMkfs == din = 0 /\ ind = 0 /\ sect = 0 /\ freeinode = 0 /\ freeblock = 0 /\ bits = 0 /\ de = 0 /\ work = 0 /\ step = 0
NoKeyboard == shift = 0 /\ fifo = 0 /\ char = 0 /\ down = 0 /\ kheld = 0 /\ caps = 0 /\ twins = 0 /\ lastkey = 0
NoLoader == phdr = 0 /\ argv = 0 /\ lix = 0 /\ sz = 0 /\ sp = 0 /\ page = 0 /\ mem = 0 /\ ustack = 0 /\ short = 0 /\ loading = 0
NoFilters == program = 0 /\ pattern = 0 /\ input = 0 /\ rest = 0 /\ line = 0 /\ out = 0 /\ broken = 0 /\ count = 0 /\ ended = 0
NoNames == dir = 0 /\ type = 0 /\ name = 0 /\ tree = 0
NoPipe == data = 0 /\ nread = 0 /\ nwrite = 0 /\ readopen = 0 /\ writeopen = 0 /\ freed = 0 /\ ends = 0 /\ pat = 0 /\ todo = 0 /\ killed = 0
NoBlocks == bitmap = 0 /\ blk = 0 /\ addrs = 0 /\ size = 0 /\ ilocked = 0 /\ off = 0 /\ wr = 0 /\ dirty = 0 /\ got = 0 /\ bcalls = 0 /\ full = 0
NoConsole == ring = 0 /\ rdx = 0 /\ wrx = 0 /\ edx = 0 /\ conslock = 0 /\ rd = 0 /\ typed = 0
NoCow ==
    /\ nfree = 0 /\ used = 0 /\ ref = 0 /\ content = 0 /\ pt = 0 /\ tabs = 0 /\ proc = 0 /\ k = 0 /\ overlap = 0
    /\ popping = 0 /\ raced = 0

KernelInit ==
    /\ focus \in {"cow", "kalloc", "lwp2", "lwp3", "pipe", "fs", "blocks", "bufcache", "console", "umalloc", "spinlock", "proc", "args",
                 "shell", "mkfs", "keyboard", "loader", "filters", "names"}
    /\ IF focus = "cow" THEN Init ELSE NoCow
    /\ IF focus = "pipe" THEN PI!Init ELSE NoPipe
    /\ IF focus = "blocks" THEN BL!Init ELSE NoBlocks
    /\ IF focus = "console" THEN CO!Init ELSE NoConsole
    /\ IF focus = "kalloc" THEN KA!Init ELSE NoKalloc
    /\ IF focus = "lwp2" THEN L2!Init ELSE IF focus = "lwp3" THEN L3!Init ELSE NoLwp
    /\ IF focus = "fs" THEN FS!Init ELSE NoFs
    /\ IF focus = "bufcache" THEN BC!Init ELSE NoBufs
    /\ IF focus = "umalloc" THEN UM!Init ELSE NoMalloc
    /\ IF focus = "spinlock" THEN SP!Init ELSE NoSpin
    /\ IF focus = "proc" THEN PR!Init ELSE NoProcs
    /\ IF focus = "args" THEN SA!Init ELSE NoArgs
    /\ IF focus = "shell" THEN SH!Init ELSE NoShell
    /\ IF focus = "mkfs" THEN MK!Init ELSE NoMkfs
    /\ IF focus = "keyboard" THEN KB!Init ELSE NoKeyboard
    /\ IF focus = "loader" THEN LO!Init ELSE NoLoader
    /\ IF focus = "filters" THEN FI!Init ELSE NoFilters
    /\ IF focus = "names" THEN NM!Init ELSE NoNames

CowStep == focus = "cow" /\ Next /\ UNCHANGED <<threadVars, diskVars, smallVars, userVars>>

Threads == UNCHANGED <<vars, diskVars, smallVars, userVars>>
KallocStep == focus = "kalloc" /\ KA!Next /\ Threads /\ UNCHANGED <<lwpVars, pipeVars>>
Lwp2Step == focus = "lwp2" /\ L2!Next /\ Threads /\ UNCHANGED <<kallocVars, pipeVars>>
Lwp3Step == focus = "lwp3" /\ L3!Next /\ Threads /\ UNCHANGED <<kallocVars, pipeVars>>
PipeStep == focus = "pipe" /\ PI!Next /\ Threads /\ UNCHANGED <<kallocVars, lwpVars>>

Disk == UNCHANGED <<vars, threadVars, smallVars, userVars>>
FsStep == focus = "fs" /\ FS!Next /\ Disk /\ UNCHANGED <<blockVars, bufVars>>
BlocksStep == focus = "blocks" /\ BL!Next /\ Disk /\ UNCHANGED <<fsVars, bufVars>>
BufStep == focus = "bufcache" /\ BC!Next /\ Disk /\ UNCHANGED <<fsVars, blockVars>>

Small == UNCHANGED <<vars, threadVars, diskVars, userVars>>
ConsoleStep == focus = "console" /\ CO!Next /\ Small /\ UNCHANGED <<mallocVars, spinVars, procVars, argVars>>
MallocStep == focus = "umalloc" /\ UM!Next /\ Small /\ UNCHANGED <<conVars, spinVars, procVars, argVars>>
SpinStep == focus = "spinlock" /\ SP!Next /\ Small /\ UNCHANGED <<conVars, mallocVars, procVars, argVars>>
ProcStep == focus = "proc" /\ PR!Next /\ Small /\ UNCHANGED <<conVars, mallocVars, spinVars, argVars>>
ArgsStep == focus = "args" /\ SA!Next /\ Small /\ UNCHANGED <<conVars, mallocVars, spinVars, procVars>>

Users == UNCHANGED <<vars, threadVars, diskVars, smallVars>>
ShellStep == focus = "shell" /\ SH!Next /\ Users /\ UNCHANGED <<mkfsVars, kbdVars, loadVars, filterVars, nameVars>>
MkfsStep == focus = "mkfs" /\ MK!Next /\ Users /\ UNCHANGED <<shellVars, kbdVars, loadVars, filterVars, nameVars>>
KeyboardStep == focus = "keyboard" /\ KB!Next /\ Users /\ UNCHANGED <<shellVars, mkfsVars, loadVars, filterVars, nameVars>>
LoaderStep == focus = "loader" /\ LO!Next /\ Users /\ UNCHANGED <<shellVars, mkfsVars, kbdVars, filterVars, nameVars>>
FilterStep == focus = "filters" /\ FI!Next /\ Users /\ UNCHANGED <<shellVars, mkfsVars, kbdVars, loadVars, nameVars>>
NameStep == focus = "names" /\ NM!Next /\ Users /\ UNCHANGED <<shellVars, mkfsVars, kbdVars, loadVars, filterVars>>

KernelNext ==
    /\ \/ CowStep \/ KallocStep \/ Lwp2Step \/ Lwp3Step \/ PipeStep \/ FsStep \/ BlocksStep \/ BufStep
       \/ ConsoleStep \/ MallocStep \/ SpinStep \/ ProcStep \/ ArgsStep
       \/ ShellStep \/ MkfsStep \/ KeyboardStep \/ LoaderStep \/ FilterStep \/ NameStep
    /\ UNCHANGED focus

KernelSpec == KernelInit /\ [][KernelNext]_<<focus, vars, threadVars, diskVars, smallVars, userVars>>

--------------------------------------------------------------------------------
(* Properties.  Each is one of the component in focus.                     *)

\* The types of the component in focus.
KernelTypeOK ==
    CASE focus = "cow" -> TypeOK
      [] focus = "kalloc" -> KA!TypeOK
      [] focus = "lwp2" -> L2!TypeOK
      [] focus = "lwp3" -> L3!TypeOK
      [] focus = "pipe" -> PI!TypeOK
      [] focus = "fs" -> FS!TypeOK
      [] focus = "blocks" -> BL!TypeOK
      [] focus = "bufcache" -> BC!TypeOK
      [] focus = "console" -> CO!TypeOK
      [] focus = "umalloc" -> UM!TypeOK
      [] focus = "spinlock" -> SP!TypeOK
      [] focus = "proc" -> PR!TypeOK
      [] focus = "args" -> SA!TypeOK
      [] focus = "shell" -> SH!TypeOK
      [] focus = "mkfs" -> MK!TypeOK
      [] focus = "keyboard" -> KB!TypeOK
      [] focus = "loader" -> LO!TypeOK
      [] focus = "filters" -> FI!TypeOK
      [] focus = "names" -> NM!TypeOK

\* vm.c, copy-on-write: the reference counts are exact, no entry maps a page that
\* is free, and what may be written is mapped once, in every interleaving up to the
\* first race for the free list (kalloc() and PagesConserved); calls that fail or are
\* undone half-way lose no page and leave no hole.
References ==
    focus = "cow" => CountsExact /\ NoDangling /\ WritableAlone /\ LeakNeedsOverlap /\ PagesPresent

\* vm.c: copy-on-write cannot be told from copying; each process has its own memory,
\* up to the first race for the free list.
Isolation ==
    /\ focus = "cow" => Private!Init
    /\ [][focus = "cow" => [Private!Next]_Reads]_<<focus, vars>>

\* kalloc.c, main.c: every page is on the free list, with one thread or the stack
\* of one processor, and these stacks are in the first 4 MB.  proc.c, exec.c, vm.c of
\* Project1: calls that fail half-way lose no page and leave no hole.  umalloc.c: every
\* unit of a heap is in one block, free blocks are joined, and malloc() finds one that is
\* large enough.  syscall.c, sysfile.c: with any arguments the kernel uses only memory of
\* the process that calls, and no more of argv[] than there is.  exec.c, vm.c: exec() makes
\* of every file and arguments that allow it, and of no other, the image they ask for.
MemoryOwned ==
    /\ focus = "kalloc" => KA!PagesConserved /\ KA!OwnLowStack
    /\ focus = "proc" => PR!PagesConserved /\ PR!NoHole
    /\ focus = "umalloc" => UM!HeapSound
    /\ focus = "args" => SA!WithinProcess /\ SA!ArgvFits
    /\ focus = "loader" => LO!ImageLoaded

\* Threads: a thread that may run has a kernel stack and a user stack of its own,
\* none is freed twice, and none is lost unless a call was cut off or failed half-way.
StacksOwned ==
    /\ focus = "lwp2" => L2!OwnStack /\ L2!OwnUserStack /\ L2!LossHasCause
    /\ focus = "lwp3" => L3!OwnStack /\ L3!OwnUserStack /\ L3!LossHasCause

\* thread_join() and wait() do not sleep for one that has ended; after exit() or exec()
\* no other thread of a process runs, and a process that has ended has a parent that can
\* wait for it, which is what getgpid() relies on.
ThreadsEnd ==
    /\ focus = "lwp2" => L2!NoLostJoin /\ L2!SiblingsStop
    /\ focus = "lwp3" => L3!NoLostJoin /\ L3!SiblingsStop
    /\ focus = "proc" => PR!ParentsWait /\ PR!GrandparentKnown

\* pipe.c, console.c, sleeplock.c, ide.c: nobody sleeps on a pipe that he could use or
\* that nobody can use, beside a line that he could read, or for a buffer that is free or
\* that the disk has done; a pipe is freed once, when both ends are closed.
SleepersWait ==
    /\ focus = "pipe" => PI!SleepersWait /\ PI!FreedAtTheEnd
    /\ focus = "console" => CO!LineAwaited
    /\ focus = "bufcache" => BC!BufferSleep

\* pipe.c: a pipe is a first-in first-out queue.
IsChannel ==
    /\ focus = "pipe" => PI!Fifo!Init
    /\ [][focus = "pipe" => [PI!Fifo!Next]_(PI!Fifo!absVars)]_<<focus, pipeVars>>

\* fs.c, sysfile.c: what a crash can bring back has exact link counts and no entry of
\* a free inode, an inode that nobody names or uses is free, and the inode cache
\* agrees with the disk, unless a directory was used after it was removed, or an
\* inode without links was in use at a crash or put by two processes at once.  A path
\* leads where its elements lead, by their first DIRSIZ characters.
FilesConsistent ==
    /\ focus = "fs" => FS!FilesConsistent
    /\ focus = "names" => NM!PathsResolve

\* fs.c: between calls the reference counts are exact and no inode is locked; the
\* kernel panics over a free inode only after a look into a removed directory.
InodesInUse == focus = "fs" => FS!InodesInUse

\* fs.c, sysfile.c: processes that wait for each other's inodes are in the
\* iunlockput() of unlink() or create() or in the iput() of dirlink().
InodeWaits == focus = "fs" => FS!WaitHasCause

\* fs.c, file.c: in every interleaving a block is in one place or free, a file has the
\* blocks that its size asks for, and no call writes more blocks than it has reserved.
\* mkfs.c: so it is on the first image, but for the size of a root directory that fills
\* its last block, and the files have their bytes.
FileBlocks ==
    /\ focus = "blocks" => BL!BlocksOwned /\ BL!SizeCovered /\ BL!OpFits
    /\ focus = "mkfs" => MK!ImageSound

\* fs.c, file.c: a file is a sequence of bytes.
IsByteArray ==
    /\ focus = "blocks" => BL!A!Init
    /\ [][focus = "blocks" => [BL!A!Next]_(BL!A!absVars)]_<<focus, blockVars>>

\* bio.c, ide.c: a block is in one buffer, which one process has at a time, and what was
\* put there last is what is read, unless the disk failed.
BlocksCached == focus = "bufcache" => BC!BlocksCached

\* console.c: the input is a line that is edited and a queue of lines.
IsLineInput ==
    /\ focus = "console" => CO!A!Init
    /\ [][focus = "console" => [CO!A!Next]_(CO!A!absVars)]_<<focus, conVars>>

\* kbd.c, sh.c, init.c: a key gives its character, the parser builds the tree of the
\* grammar, a program gets the input and output of its place in the line, the next line
\* is asked for when it has ended, and no line waits for a pipe that nobody will close.
\* grep.c, wc.c: the output is right in whatever pieces the input comes.
TypedRuns ==
    /\ focus = "keyboard" => KB!ModifiersRight
    /\ focus = "shell" => SH!ParserRight /\ SH!ProgramFds /\ SH!PromptAlone /\ SH!SomeoneRuns
    /\ focus = "filters" => FI!MatcherRight /\ FI!OutputRight

\* spinlock.c, proc.c: no interrupt comes while a lock is held, the flag follows the
\* process over processors, and nothing panics.
LocksGuarded == focus = "spinlock" => SP!LocksGuarded
================================================================================
