---------------------------------- MODULE Log ----------------------------------
(***************************************************************************)
(* log.c, the redo log under the file system (the file is the same in all  *)
(* four kernels), with what it needs of the buffer cache of bio.c.         *)
(*                                                                         *)
(* A write of a block to the disk (bwrite(), which waits for the disk) is  *)
(* one step and is atomic: a block is one sector.  Between any two steps   *)
(* the machine may crash; everything but the disk is lost, and initlog()   *)
(* runs before the first file system call.  A file system call is a        *)
(* begin_op(), any log_write()s of at most MAXOPBLOCKS blocks, an end_op().*)
(***************************************************************************)
EXTENDS Integers, Sequences, FiniteSets

CONSTANTS Op,             \* processes that make file system calls
          Block,          \* the blocks of the file system proper
          Value,          \* contents of a block
          LOGSIZE,
          MAXOPBLOCKS,
          LogBlocks       \* log.size: the blocks mkfs sets aside, the header among them

ASSUME LogAssumption ==
    /\ LOGSIZE \in Nat
    /\ MAXOPBLOCKS \in Nat
    /\ MAXOPBLOCKS <= LOGSIZE
    /\ IsFiniteSet(Op)
    /\ Block # {}
    /\ LogBlocks \in Nat \ {0}

VARIABLES disk,           \* the home locations of the blocks
          logarea,        \* the data blocks of the log, on disk
          header,         \* the header block of the log, on disk: its first n entries
          cache,          \* what bread() returns for a block
          dirty,          \* the buffers with B_DIRTY, which stay in the cache
          lh,             \* log.lh in memory
          outstanding,
          stage,          \* where commit() or recover_from_log() is
          tail,
          pc,             \* where a process is
          buf,            \* the block whose buffer it holds
          written,        \* the blocks its call has written
          fault           \* a panic, or commit() writes behind the log

ondisk == <<disk, logarea, header>>
procs  == <<pc, buf, written>>
vars   == <<ondisk, cache, dirty, lh, outstanding, stage, tail, procs, fault>>

Max == LogBlocks - 1      \* data blocks in the log

ToRecover(s) == {s[n] : n \in DOMAIN s}

\* commit() is running: log.committing.
CommitStages == {"write_log", "write_head", "install", "clear", "committed"}
BootStages   == {"boot", "boot_install", "boot_clear"}
committing   == stage \in CommitStages

Idle == [p \in Op |-> "idle"]

\* A disk made by mkfs, before the first start.
Init ==
    /\ disk \in [Block -> Value]
    /\ logarea \in [1 .. Max -> Value]
    /\ header = <<>>
    /\ cache = disk
    /\ dirty = {}
    /\ lh = <<>>
    /\ outstanding = 0
    /\ stage = "boot"
    /\ tail = 0
    /\ pc = Idle
    /\ buf = [p \in Op |-> CHOOSE b \in Block : TRUE]
    /\ written = [p \in Op |-> {}]
    /\ fault = "none"

Up == fault = "none" /\ stage \notin BootStages

\* p is in the code at.
At(p, at) == Up /\ pc[p] = at

\* The buffers that processes hold locked.
Held == {buf[p] : p \in {q \in Op : pc[q] \in {"check", "record"}}}

-------------------------------------------------------------------------------
(* begin_op() and end_op() *)

Wakeup == [p \in Op |-> IF pc[p] = "asleep" THEN "woken" ELSE pc[p]]

\* Mutant: the space the new call may need is not counted.
NoSpaceForOthers == Len(lh) + outstanding * MAXOPBLOCKS > LOGSIZE

\* The log may run out: every call in progress may still write MAXOPBLOCKS.
NoSpace == Len(lh) + (outstanding + 1) * MAXOPBLOCKS > LOGSIZE

\* Mutant: the call is not counted.
TryBeginUncounted(p) ==
    /\ pc' = [pc EXCEPT ![p] = IF committing \/ NoSpace THEN "asleep" ELSE "active"]
    /\ written' = [written EXCEPT ![p] = {}]
    /\ UNCHANGED <<ondisk, cache, dirty, lh, outstanding, stage, tail, buf, fault>>

\* One round of the loop of begin_op().
TryBegin(p) ==
    /\ \/ /\ committing \/ NoSpace
          /\ pc' = [pc EXCEPT ![p] = "asleep"]
          /\ UNCHANGED outstanding
       \/ /\ ~committing /\ ~NoSpace
          /\ pc' = [pc EXCEPT ![p] = "active"]
          /\ outstanding' = outstanding + 1
    /\ written' = [written EXCEPT ![p] = {}]
    /\ UNCHANGED <<ondisk, cache, dirty, lh, stage, tail, buf, fault>>

begin_op(p) == At(p, "idle") /\ TryBegin(p)
Retry(p)    == At(p, "woken") /\ TryBegin(p)

\* Mutant: outstanding is tested before it is decremented.
end_opLate(p) ==
    /\ At(p, "active")
    /\ outstanding' = outstanding - 1
    /\ pc' = [Wakeup EXCEPT ![p] = IF outstanding = 0 THEN "commit" ELSE "idle"]
    /\ stage' = IF outstanding = 0 THEN "write_log" ELSE stage
    /\ tail' = 0
    /\ UNCHANGED <<ondisk, cache, dirty, lh, buf, written, fault>>

\* The last call in progress commits; the others leave space to those asleep.
end_op(p) ==
    /\ At(p, "active")
    /\ outstanding' = outstanding - 1
    /\ fault' = IF committing THEN "panic" ELSE fault
    /\ \/ /\ outstanding = 1
          /\ pc' = [pc EXCEPT ![p] = "commit"]
          /\ stage' = IF lh = <<>> THEN "committed" ELSE "write_log"
       \/ /\ outstanding # 1
          /\ pc' = [Wakeup EXCEPT ![p] = "idle"]
          /\ UNCHANGED stage
    /\ tail' = 0
    /\ UNCHANGED <<ondisk, cache, dirty, lh, buf, written>>

\* Mutant: nobody is woken after a commit.
EndCommitQuiet(p) ==
    /\ At(p, "commit")
    /\ stage = "committed"
    /\ stage' = "idle"
    /\ pc' = [pc EXCEPT ![p] = "idle"]
    /\ UNCHANGED <<ondisk, cache, dirty, lh, outstanding, tail, buf, written, fault>>

\* ... after commit()
EndCommit(p) ==
    /\ At(p, "commit")
    /\ stage = "committed"
    /\ stage' = "idle"
    /\ pc' = [Wakeup EXCEPT ![p] = "idle"]
    /\ UNCHANGED <<ondisk, cache, dirty, lh, outstanding, tail, buf, written, fault>>

-------------------------------------------------------------------------------
(* log_write() *)

\* The call gets the buffer of b and changes it.
Modify(p) ==
    /\ At(p, "active")
    /\ \E b \in Block \ Held, v \in Value :
          /\ Cardinality(written[p] \cup {b}) <= MAXOPBLOCKS
          /\ cache' = [cache EXCEPT ![b] = v]
          /\ buf' = [buf EXCEPT ![p] = b]
          /\ written' = [written EXCEPT ![p] = @ \cup {b}]
    /\ pc' = [pc EXCEPT ![p] = "check"]
    /\ UNCHANGED <<ondisk, dirty, lh, outstanding, stage, tail, fault>>

\* The two tests of log_write(), without log.lock.
LogWriteCheck(p) ==
    /\ At(p, "check")
    /\ fault' = IF Len(lh) >= LOGSIZE \/ Len(lh) >= LogBlocks - 1 \/ outstanding < 1
                THEN "panic" ELSE fault
    /\ pc' = [pc EXCEPT ![p] = "record"]
    /\ UNCHANGED <<ondisk, cache, dirty, lh, outstanding, stage, tail, buf, written>>

\* Mutant: the buffer is not pinned.
LogWriteUnpinned(p) ==
    /\ At(p, "record")
    /\ lh' = IF buf[p] \in ToRecover(lh) THEN lh ELSE Append(lh, buf[p])
    /\ pc' = [pc EXCEPT ![p] = "active"]
    /\ UNCHANGED <<ondisk, cache, dirty, outstanding, stage, tail, buf, written, fault>>

\* The block is recorded once, and pinned; then brelse().
LogWriteRecord(p) ==
    /\ At(p, "record")
    /\ lh' = IF buf[p] \in ToRecover(lh) THEN lh ELSE Append(lh, buf[p])
    /\ dirty' = dirty \cup {buf[p]}
    /\ pc' = [pc EXCEPT ![p] = "active"]
    /\ UNCHANGED <<ondisk, cache, outstanding, stage, tail, buf, written, fault>>

log_write(p) == LogWriteCheck(p) \/ LogWriteRecord(p)

\* bget() gives the buffer of b to another block; the next bread() of b reads
\* the disk.
Recycle(b) ==
    /\ Up
    /\ b \notin dirty \cup Held
    /\ cache' = [cache EXCEPT ![b] = disk[b]]
    /\ UNCHANGED <<ondisk, dirty, lh, outstanding, stage, tail, procs, fault>>

-------------------------------------------------------------------------------
(* commit() and recover_from_log() *)

\* One block of write_log(), from the cache to the log.  Behind the log is the
\* first block of inodes: what becomes of a disk without it is not followed.
write_log ==
    /\ Up
    /\ stage = "write_log"
    /\ \/ /\ tail < Len(lh) /\ tail < Max
          /\ logarea' = [logarea EXCEPT ![tail + 1] = cache[lh[tail + 1]]]
          /\ tail' = tail + 1
          /\ UNCHANGED <<stage, fault>>
       \/ /\ tail < Len(lh) /\ tail >= Max
          /\ fault' = "overrun"
          /\ UNCHANGED <<logarea, tail, stage>>
       \/ /\ tail = Len(lh)
          /\ stage' = "write_head"
          /\ UNCHANGED <<logarea, tail, fault>>
    /\ UNCHANGED <<disk, header, cache, dirty, lh, outstanding, procs>>

\* write_head(), the real commit
write_head ==
    /\ Up
    /\ stage = "write_head"
    /\ header' = lh
    /\ stage' = "install"
    /\ tail' = 0
    /\ UNCHANGED <<disk, logarea, cache, dirty, lh, outstanding, procs, fault>>

\* One block of install_trans(), from the log through its buffer to its home.
install_trans ==
    /\ fault = "none"
    /\ stage \in {"install", "boot_install"}
    /\ \/ /\ tail < Len(lh)
          /\ LET b == lh[tail + 1]
             IN  /\ cache' = [cache EXCEPT ![b] = logarea[tail + 1]]
                 /\ disk' = [disk EXCEPT ![b] = logarea[tail + 1]]
                 /\ dirty' = dirty \ {b}
          /\ tail' = tail + 1
          /\ UNCHANGED <<lh, stage>>
       \/ /\ tail = Len(lh)
          /\ lh' = <<>>
          /\ stage' = IF stage = "install" THEN "clear" ELSE "boot_clear"
          /\ UNCHANGED <<cache, disk, dirty, tail>>
    /\ UNCHANGED <<logarea, header, outstanding, procs, fault>>

\* write_head() with an empty log.lh
ClearHead ==
    /\ fault = "none"
    /\ stage \in {"clear", "boot_clear"}
    /\ header' = lh
    /\ stage' = IF stage = "clear" THEN "committed" ELSE "idle"
    /\ UNCHANGED <<disk, logarea, cache, dirty, lh, outstanding, tail, procs, fault>>

\* initlog(): read_head()
read_head ==
    /\ fault = "none"
    /\ stage = "boot"
    /\ lh' = header
    /\ stage' = "boot_install"
    /\ tail' = 0
    /\ UNCHANGED <<ondisk, cache, dirty, outstanding, procs, fault>>

\* The machine stops and starts again.
Crash ==
    /\ fault # "overrun"
    /\ cache' = disk
    /\ dirty' = {}
    /\ lh' = <<>>
    /\ outstanding' = 0
    /\ stage' = "boot"
    /\ tail' = 0
    /\ pc' = Idle
    /\ written' = [p \in Op |-> {}]
    /\ fault' = "none"
    /\ UNCHANGED <<ondisk, buf>>

-------------------------------------------------------------------------------

Commit   == write_log \/ write_head \/ install_trans \/ ClearHead \/ read_head
Proc(p)  == Retry(p) \/ end_op(p) \/ EndCommit(p) \/ log_write(p)

Next == \/ Commit
        \/ Crash
        \/ \E p \in Op : begin_op(p) \/ Modify(p) \/ Proc(p)
        \/ \E b \in Block : Recycle(b)

Spec == Init /\ [][Next]_vars

\* A process the kernel has woken or that is in a call gets on, and a call writes
\* only finitely often; nobody has to start a call, the machine need not crash.
FairSpec ==
    /\ Spec
    /\ WF_vars(Commit)
    /\ \A p \in Op : WF_vars(Proc(p)) /\ SF_vars(end_op(p))

-------------------------------------------------------------------------------
(* Properties *)

TypeOK ==
    /\ disk \in [Block -> Value]
    /\ logarea \in [1 .. Max -> Value]
    /\ header \in Seq(Block)
    /\ cache \in [Block -> Value]
    /\ dirty \subseteq Block
    /\ lh \in Seq(Block)
    /\ outstanding \in Nat
    /\ stage \in CommitStages \cup BootStages \cup {"idle"}
    /\ tail \in Nat
    /\ pc \in [Op -> {"idle", "asleep", "woken", "active", "check", "record", "commit"}]
    /\ buf \in [Op -> Block]
    /\ written \in [Op -> SUBSET Block]
    /\ fault \in {"none", "panic", "overrun"}

\* What a restart makes of the disk: the blocks the header names come from the
\* log.
Recovered ==
    [b \in Block |-> IF b \in ToRecover(header)
                     THEN logarea[CHOOSE n \in DOMAIN header : header[n] = b]
                     ELSE disk[b]]

\* What the file system reads, once it is up.
View == IF stage \in BootStages THEN Recovered ELSE cache

Active == {p \in Op : pc[p] \in {"active", "check", "record"}}

\* Crash-safe atomicity: the file system sees, and a restart at any moment
\* brings back, what one all-or-nothing disk would hold.
Disk == INSTANCE AtomicDisk WITH
            stable <- Recovered,
            view   <- View,
            active <- Active
Atomicity == Disk!AbsSpec

\* Entry n of the transaction has been copied to the log, or to its home.
Logged(n)    == \/ stage = "install"
                \/ stage \in {"write_log", "write_head"} /\ n <= tail
Installed(n) == \/ stage \in {"clear", "boot_clear"}
                \/ stage \in {"install", "boot_install"} /\ n <= tail

\* The calls in progress are counted, and there is none during a commit.
Counted ==
    /\ outstanding = Cardinality(Active)
    /\ stage # "idle" => Active = {}

\* log.lh is empty between transactions.
Drained ==
    /\ stage = "idle" /\ Active = {} => lh = <<>>
    /\ stage \in {"boot", "clear", "boot_clear", "committed"} => lh = <<>>

\* What differs between the cache and the disk is held, or pinned and in log.lh.
Coherent ==
    /\ stage \in BootStages => cache = disk /\ dirty = {}
    /\ dirty \subseteq ToRecover(lh)
    /\ \A b \in Block \ (dirty \cup Held) : cache[b] = disk[b]

Distinct(s) == \A m, n \in DOMAIN s : s[m] = s[n] => m = n

\* The header on disk is empty, or names a transaction that fits the log.
HeaderInv ==
    /\ Distinct(lh)
    /\ Distinct(header)
    /\ Len(header) <= Max
    /\ stage \in {"idle", "write_log", "write_head", "committed"} => header = <<>>
    /\ stage \in {"install", "boot_install"} => header = lh

\* The copies made so far.
CopyInv ==
    /\ stage \in {"write_log", "install", "boot_install"} => tail <= Len(lh)
    /\ stage \in {"write_log", "write_head"} => tail <= Max
    /\ stage = "write_head" => tail = Len(lh)
    /\ \A n \in DOMAIN lh : Logged(n) => logarea[n] = cache[lh[n]]
    /\ \A n \in DOMAIN header :
          Installed(n) => disk[header[n]] = logarea[n] /\ header[n] \notin dirty

\* The invariant behind Atomicity: commit() runs alone, and what is in the cache
\* but not on the disk is in log.lh until the log holds it and the header names
\* it.
LogInv == Counted /\ Drained /\ Coherent /\ HeaderInv /\ CopyInv

\* When no call is in progress and no commit is running, everything that
\* finished calls have written is durable.
Durable == stage = "idle" /\ Active = {} => Recovered = cache

\* Whoever sleeps in begin_op() will be woken: a call in progress or a commit
\* is still to end.
SleepersAwaited == (\E p \in Op : pc[p] = "asleep") => committing \/ outstanding > 0

\* The blocks of the transaction that a call in progress has written, with the
\* call: the part of its reservation that it has used.
Recorded == {x \in Active \X ToRecover(lh) : x[2] \in written[x[1]]}

\* What is in the transaction and what the calls in progress may still add to it
\* are at most LOGSIZE blocks, so that log.lh.block[] is not overrun, although
\* log_write() tests its length before it takes the lock: begin_op() admits no
\* call that the others leave no space for, whatever they have written so far.
SpaceReserved ==
    stage \notin BootStages =>
        /\ Len(lh) + outstanding * MAXOPBLOCKS <= LOGSIZE + Cardinality(Recorded)
        /\ Len(lh) <= LOGSIZE

\* A call that sleeps in begin_op() is woken, unless the kernel panics.
Admitted == \A p \in Op : pc[p] = "asleep" ~> pc[p] # "asleep" \/ fault # "none"
===============================================================================
