--------------------------------- MODULE BufCache ------------------------------
(***************************************************************************)
(* The buffer cache (bio.c), the sleep locks of its buffers (sleeplock.c)  *)
(* and the queue of the disk driver (ide.c).                               *)
(*                                                                         *)
(* A step is what is done under bcache.lock, under the spin lock of a sleep *)
(* lock or under idelock.  Processes change a buffer that they have, write *)
(* it (bwrite) or leave it to the log (log_write, which marks it dirty and *)
(* thereby keeps it in the cache), and read a second block while they have *)
(* one, in the order of the block numbers, as bmap() and itrunc() do.      *)
(***************************************************************************)
EXTENDS Naturals, Sequences, FiniteSets, FiniteSetsExt, SequencesExt

CONSTANTS Proc, Block, Val,
          NBUF,         \* the buffers of the cache
          MaxReads,     \* bound: calls of bread() in a behaviour
          MaxErrors     \* bound: errors of the disk in a behaviour

None == 0

Buf == 1 .. NBUF

VARIABLES buf,          \* block, valid, dirty, refcnt, pid of the sleep lock, data
          mru,          \* the buffers, most recently used first
          idequeue,
          disk,
          bp,           \* what a process does: at, the buffer, the block asked for
          has,          \* buffers that a process has got from bread()
          latest,       \* ghost: what was last put into a block
          failed,       \* ghost: blocks that could not be read
          reads, errors, nobuf

bufVars == <<buf, mru, idequeue, disk, bp, has, latest, failed, reads, errors, nobuf>>

Idle == [at |-> "idle", b |-> None]

\* The order that binit() makes: the last buffer first.
Init ==
    /\ buf = [b \in Buf |-> [blk |-> None, valid |-> FALSE, dirty |-> FALSE, refcnt |-> 0, pid |-> None, data |-> 0]]
    /\ mru = [i \in 1 .. NBUF |-> NBUF + 1 - i]
    /\ idequeue = <<>> /\ disk = [k \in Block |-> 0] /\ latest = disk
    /\ bp = [p \in Proc |-> Idle] /\ has = [p \in Proc |-> {}]
    /\ failed = {} /\ reads = 0 /\ errors = 0 /\ nobuf = FALSE

--------------------------------------------------------------------------------
(* bio.c.                                                                  *)

\* Mutant: a buffer that the log still needs is taken.
UnusedClean(b) == buf[b].refcnt = 0

\* "Even if refcnt==0, B_DIRTY indicates a buffer is in use".
Unused(b) == buf[b].refcnt = 0 /\ ~buf[b].dirty

\* A buffer taken for block k: its lock and its data stay.
Recycled(x, k) == [x EXCEPT !.blk = k, !.valid = FALSE, !.dirty = FALSE, !.refcnt = 1]

\* The two loops of bget(), the second from the end of the list.
bget(p, k) ==
    LET cached == {b \in Buf : buf[b].blk = k}
        unused == {i \in Buf : Unused(mru[i])}
        b == IF cached # {} THEN Min(cached) ELSE mru[Max(unused)]
    IN  /\ IF cached = {} /\ unused = {}
           THEN nobuf' = TRUE /\ UNCHANGED <<buf, bp>>
           ELSE /\ buf' = [buf EXCEPT ![b] = IF cached # {} THEN [buf[b] EXCEPT !.refcnt = @ + 1]
                                             ELSE Recycled(buf[b], k)]
                /\ bp' = [bp EXCEPT ![p] = [at |-> "lock", b |-> b]]
                /\ UNCHANGED nobuf

bread(p) ==
    /\ bp[p].at = "idle" /\ reads < MaxReads /\ reads' = reads + 1
    /\ \E k \in Block :
        /\ \A b \in has[p] : buf[b].blk < k
        /\ bget(p, k)
    /\ UNCHANGED <<mru, idequeue, disk, has, latest, failed, errors>>

\* acquiresleep(), and the test of bread().
acquiresleep(p) ==
    LET b == bp[p].b IN
    /\ bp[p].at = "lock"
    /\ IF buf[b].pid # None
       THEN bp' = [bp EXCEPT ![p].at = "lock sleep"] /\ UNCHANGED <<buf, has>>
       ELSE /\ buf' = [buf EXCEPT ![b].pid = p]
            /\ IF buf[b].valid
               THEN bp' = [bp EXCEPT ![p] = Idle] /\ has' = [has EXCEPT ![p] = @ \cup {b}]
               ELSE bp' = [bp EXCEPT ![p].at = "iderw"] /\ has' = has
    /\ UNCHANGED <<mru, idequeue, disk, latest, failed, reads, errors, nobuf>>

\* A process changes a buffer that it has and calls log_write().
Change(p) ==
    /\ bp[p].at = "idle"
    /\ \E b \in has[p], v \in Val :
        /\ v # buf[b].data
        /\ buf' = [buf EXCEPT ![b] = [buf[b] EXCEPT !.data = v, !.dirty = TRUE]]
        /\ latest' = [latest EXCEPT ![buf[b].blk] = v]
    /\ UNCHANGED <<bp, mru, idequeue, disk, has, failed, reads, errors, nobuf>>

\* bwrite() of what was just changed, or of what log_write() has left in the cache.
bwrite(p) ==
    /\ bp[p].at = "idle"
    /\ \E b \in has[p] :
        /\ buf[b].dirty
        /\ bp' = [bp EXCEPT ![p] = [at |-> "iderw", b |-> b]]
    /\ UNCHANGED <<buf, mru, idequeue, disk, has, latest, failed, reads, errors, nobuf>>

\* wakeup(): those who sleep on buffer b in one of the two ways.
Wakeup(how, b) == [p \in Proc |-> IF bp[p] = [at |-> how, b |-> b]
                                 THEN [bp[p] EXCEPT !.at = IF how = "lock sleep" THEN "lock" ELSE "wait"] ELSE bp[p]]

\* brelse(): releasesleep(), then the count.
releasesleep(p) ==
    /\ bp[p].at = "idle"
    /\ \E b \in has[p] :
        /\ has' = [has EXCEPT ![p] = @ \ {b}]
        /\ buf' = [buf EXCEPT ![b].pid = None]
        /\ bp' = [Wakeup("lock sleep", b) EXCEPT ![p] = [at |-> "brelse", b |-> b]]
    /\ UNCHANGED <<mru, idequeue, disk, latest, failed, reads, errors, nobuf>>

\* b becomes the first of the list.
ToFront(b) ==
    LET n == CHOOSE i \in Buf : mru[i] = b
    IN  [i \in Buf |-> IF i = 1 THEN b ELSE IF i <= n THEN mru[i - 1] ELSE mru[i]]

brelse(p) ==
    LET b == bp[p].b IN
    /\ bp[p].at = "brelse"
    /\ buf' = [buf EXCEPT ![b].refcnt = @ - 1]
    /\ mru' = IF buf'[b].refcnt = 0 THEN ToFront(b) ELSE mru
    /\ bp' = [bp EXCEPT ![p] = Idle]
    /\ UNCHANGED <<idequeue, disk, has, latest, failed, reads, errors, nobuf>>

--------------------------------------------------------------------------------
(* ide.c.                                                                  *)

\* Append to idequeue; the disk works on its head.
iderw(p) ==
    /\ bp[p].at = "iderw"
    /\ idequeue' = Append(idequeue, bp[p].b)
    /\ bp' = [bp EXCEPT ![p].at = "disk sleep"]
    /\ UNCHANGED <<buf, mru, disk, has, latest, failed, reads, errors, nobuf>>

\* The end of the loop of iderw(), after a wakeup.
iderwWait(p) ==
    LET b == bp[p].b IN
    /\ bp[p].at = "wait"
    /\ IF buf[b].valid /\ ~buf[b].dirty
       THEN bp' = [bp EXCEPT ![p] = Idle] /\ has' = [has EXCEPT ![p] = @ \cup {b}]
       ELSE bp' = [bp EXCEPT ![p].at = "disk sleep"] /\ has' = has
    /\ UNCHANGED <<buf, mru, idequeue, disk, latest, failed, reads, errors, nobuf>>

\* The disk is done with the head of the queue.  When a read fails the buffer
\* keeps what was in it, and is valid all the same.
ideintr ==
    /\ idequeue # <<>>
    /\ LET b == Head(idequeue)
           k == buf[b].blk
       IN \E error \in BOOLEAN :
            /\ error => ~buf[b].dirty /\ errors < MaxErrors
            /\ errors' = IF error THEN errors + 1 ELSE errors
            /\ disk' = IF buf[b].dirty THEN [disk EXCEPT ![k] = buf[b].data] ELSE disk
            /\ failed' = IF error THEN failed \cup {k} ELSE failed
            /\ buf' = [buf EXCEPT ![b] = [buf[b] EXCEPT !.valid = TRUE, !.dirty = FALSE,
                                                   !.data = IF buf[b].dirty \/ error THEN @ ELSE disk[k]]]
            /\ bp' = Wakeup("disk sleep", b)
    /\ idequeue' = Tail(idequeue)
    /\ UNCHANGED <<mru, has, latest, reads, nobuf>>

\* kill() makes a sleeping process run; it finds its condition false and sleeps again.
kill(p) ==
    /\ bp[p].at \in {"lock sleep", "disk sleep"}
    /\ bp' = [bp EXCEPT ![p].at = IF @ = "lock sleep" THEN "lock" ELSE "wait"]
    /\ UNCHANGED <<buf, mru, idequeue, disk, has, latest, failed, reads, errors, nobuf>>

Next ==
    /\ ~nobuf
    /\ \/ ideintr
       \/ \E p \in Proc : \/ bread(p) \/ acquiresleep(p) \/ Change(p) \/ bwrite(p) \/ releasesleep(p) \/ brelse(p)
                          \/ iderw(p) \/ iderwWait(p) \/ kill(p)

Spec == Init /\ [][Next]_bufVars

--------------------------------------------------------------------------------
(* Properties.                                                             *)

TypeOK ==
    /\ buf \in [Buf -> [blk : Block \cup {None}, valid : BOOLEAN, dirty : BOOLEAN, refcnt : 0 .. Cardinality(Proc),
                        pid : Proc \cup {None}, data : Val]]
    /\ \A p \in Proc : has[p] \subseteq Buf /\ bp[p].b \in Buf \cup {None}
    /\ disk \in [Block -> Val] /\ latest \in [Block -> Val] /\ failed \subseteq Block

\* bio.c: a block is in one buffer; the count of a buffer is that of the processes
\* that have it, wait for it or are about to give it back, and one of them has its lock.
OneBuffer ==
    /\ \A b, c \in Buf : b # c /\ buf[b].blk # None => buf[b].blk # buf[c].blk
    /\ \A b \in Buf :
        /\ buf[b].refcnt = Cardinality({p \in Proc : b \in has[p] \cup {bp[p].b}})
        /\ Cardinality({p \in Proc : b \in has[p]}) <= 1
        /\ \A p \in Proc : b \in has[p] => buf[b].pid = p /\ buf[b].valid
    /\ mru \in [Buf -> Buf] /\ IsInjective(mru)

\* bio.c, ide.c: what was last put into a block is in its buffer when that is valid, and
\* on the disk otherwise, whatever is recycled, unless the disk could not read the block.
NothingStale ==
    \A k \in Block \ failed :
        /\ \A b \in Buf : buf[b].blk = k /\ buf[b].valid => buf[b].data = latest[k] /\ (~buf[b].dirty => disk[k] = latest[k])
        /\ (\A b \in Buf : ~(buf[b].blk = k /\ buf[b].valid)) => disk[k] = latest[k]

\* bio.c: both, which is what the file system asks of its buffers.
BlocksCached == OneBuffer /\ NothingStale

\* sleeplock.c, ide.c: who sleeps for a lock sleeps while another process has it, and who
\* sleeps for the disk has his buffer in the queue, once.
BufferSleep ==
    /\ IsInjective(idequeue)
    /\ \A p \in Proc :
        /\ bp[p].at = "lock sleep" => buf[bp[p].b].pid \notin {None, p}
        /\ bp[p].at = "disk sleep" => buf[bp[p].b].pid = p /\ bp[p].b \in Range(idequeue)
================================================================================
