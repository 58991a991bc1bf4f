----------------------------- MODULE BufCacheProofs ----------------------------
(***************************************************************************)
(* Proofs about BufCache, for any number of processes, buffers and blocks: *)
(* a block is in one buffer, the buffer has what was last put into the     *)
(* block, and nobody sleeps for a lock that is free or for a request that  *)
(* the disk has done.  And about Blocks, for any sizes of blocks and disk  *)
(* and any number of processes and files: a block has one owner, a file    *)
(* the blocks that its size asks for, a transaction room for what it       *)
(* writes; and files are sequences of bytes (ByteFiles).                   *)
(***************************************************************************)
EXTENDS BufCache, Integers, TLAPS, FiniteSetTheorems, SequenceTheorems, WellFoundedInduction

\* None is the name of no process and no block; buffers and blocks start with 0.
Params ==
    /\ IsFiniteSet(Proc) /\ None \notin Proc
    /\ Block \subseteq Nat /\ None \notin Block
    /\ NBUF \in Nat /\ 0 \in Val

-------------------------------------------------------------------------------
(* The inductive invariant *)

Bufs == [blk : Block \cup {None}, valid : BOOLEAN, dirty : BOOLEAN, refcnt : Nat,
         pid : Proc \cup {None}, data : Val]

Places == {"idle", "lock", "lock sleep", "iderw", "disk sleep", "wait", "brelse"}

\* The places of iderw().
Io == {"iderw", "disk sleep", "wait"}

\* Each buffer is in the list, once.
Listed(l) ==
    /\ l \in [Buf -> Buf] /\ IsInjective(l)
    /\ \A b \in Buf : \E i \in Buf : l[i] = b

BufType ==
    /\ buf \in [Buf -> Bufs] /\ Listed(mru)
    /\ idequeue \in Seq(Buf)
    /\ disk \in [Block -> Val] /\ latest \in [Block -> Val] /\ failed \subseteq Block
    /\ bp \in [Proc -> [at : Places, b : Buf \cup {None}]] /\ has \in [Proc -> SUBSET Buf]

\* Who counts in refcnt.
Users(b) == {p \in Proc : b \in has[p] \cup {bp[p].b}}

Counted == \A b \in Buf : buf[b].refcnt = Cardinality(Users(b))

\* A block is in one buffer, and who uses a buffer has it for a block.
OneEach ==
    /\ \A b, c \in Buf : b # c /\ buf[b].blk # None => buf[b].blk # buf[c].blk
    /\ \A b \in Buf : Users(b) # {} \/ buf[b].valid => buf[b].blk # None

\* What a process has, and what it is at.
Holds(p) ==
    /\ bp[p].at = "idle" <=> bp[p].b = None
    /\ bp[p].at \in {"lock", "lock sleep", "brelse"} => bp[p].b \notin has[p]
    /\ bp[p].at \in Io => buf[bp[p].b].pid = p
    /\ \A b \in has[p] : buf[b].pid = p /\ buf[b].valid

\* A lock that is taken is that of a process that has the buffer or waits for the
\* disk to bring it.
Locked ==
    \A b \in Buf : buf[b].pid # None =>
        LET p == buf[b].pid IN b \in has[p] \/ (bp[p].b = b /\ bp[p].at \in Io)

\* A buffer on its way to the disk needs it, and is in the queue once; iderw() never
\* has nothing to do.
ToDo(b) == ~buf[b].valid \/ buf[b].dirty

Queued(b) == \E i \in DOMAIN idequeue : idequeue[i] = b

Awaited(b) == \E p \in Proc : bp[p].b = b /\ bp[p].at \in {"disk sleep", "wait"}

QueueOK ==
    /\ \A i, j \in DOMAIN idequeue : idequeue[i] = idequeue[j] => i = j
    /\ \A b \in Buf : Queued(b) => ToDo(b) /\ Awaited(b)

Waits(p) ==
    /\ bp[p].at = "iderw" => ToDo(bp[p].b) /\ ~Queued(bp[p].b)
    /\ bp[p].at = "disk sleep" => Queued(bp[p].b)
    /\ bp[p].at = "wait" => Queued(bp[p].b) \/ ~ToDo(bp[p].b)

DirtyValid == \A b \in Buf : buf[b].dirty => buf[b].valid

\* Who sleeps for a lock does not have it.
LockAwaited(p) == bp[p].at = "lock sleep" => buf[bp[p].b].pid \notin {None, p}

BInv ==
    /\ BufType /\ Counted /\ OneEach /\ Locked
    /\ \A p \in Proc : Holds(p) /\ Waits(p) /\ LockAwaited(p)
    /\ QueueOK /\ DirtyValid /\ NothingStale

-------------------------------------------------------------------------------
(* Numbers, buffers *)

\* A set of natural numbers has a least element.
LEMMA Least ==
    ASSUME NEW S \in SUBSET Nat, S # {}
    PROVE  Min(S) \in S
<1> DEFINE R == OpToRel(<, Nat)
<1>1. IsWellFoundedOn(R, Nat)
  BY NatLessThanWellFounded
<1>2. \A x, y \in Nat : <<y, x>> \in R <=> y < x
  BY DEF OpToRel
<1> HIDE DEF R
<1>3. PICK x \in S : \A y \in S : ~(<<y, x>> \in R)
  BY <1>1, WFMin
<1>4. \A y \in S : ~(y < x) /\ y \in Nat /\ x \in Nat
  BY <1>2, <1>3
<1>5. \A y \in S : x <= y
  BY <1>4
<1> QED
  BY <1>5 DEF Min

\* A set of buffers, or of places in the list, has a greatest element.
LEMMA Greatest ==
    ASSUME Params, NEW S \in SUBSET Buf, S # {}
    PROVE  Max(S) \in S
<1> DEFINE T == {NBUF - x : x \in S}
<1>1. T \in SUBSET Nat /\ T # {}
  <2>1. \A x \in S : NBUF - x \in Nat
    <3> TAKE x \in S
    <3>1. NBUF \in Nat /\ x \in 1 .. NBUF
      BY DEF Params, Buf
    <3> QED
      BY <3>1
  <2>2. T \subseteq Nat
    BY <2>1
  <2>3. PICK x \in S : TRUE
    OBVIOUS
  <2>4. NBUF - x \in T
    OBVIOUS
  <2> QED
    BY <2>2, <2>4
<1> DEFINE R == OpToRel(<, Nat)
<1>2. IsWellFoundedOn(R, Nat)
  BY NatLessThanWellFounded
<1>3. \A x, y \in Nat : <<y, x>> \in R <=> y < x
  BY DEF OpToRel
<1> HIDE DEF R
<1>4. PICK t \in T : \A y \in T : ~(<<y, t>> \in R)
  BY <1>1, <1>2, WFMin
<1>5. PICK x \in S : t = NBUF - x
  OBVIOUS
<1>6. \A y \in S : NBUF - y \in T /\ NBUF - y \in Nat /\ t \in Nat
  BY <1>1
<1>7. \A y \in S : ~(NBUF - y < t)
  <2> TAKE y \in S
  <2>1. ~(<<NBUF - y, t>> \in R)
    BY <1>4
  <2> QED
    BY <1>3, <1>6, <2>1
<1>8. \A y \in S : x >= y
  BY <1>5, <1>7 DEF Params, Buf
<1> QED
  BY <1>8 DEF Max

LEMMA BufFacts ==
    ASSUME Params
    PROVE  Buf \subseteq Nat /\ None \notin Buf /\ None \notin Proc /\ None \notin Block
  BY DEF Params, Buf, None

\* Buffer b becomes x.
LEMMA SetBuf ==
    ASSUME BufType, NEW b \in Buf, NEW x \in Bufs, buf' = [buf EXCEPT ![b] = x]
    PROVE  /\ buf' \in [Buf -> Bufs] /\ buf'[b] = x
           /\ \A c \in Buf : c # b => buf'[c] = buf[c]
  BY DEF BufType

LEMMA SetPid ==
    ASSUME NEW x \in Bufs, NEW q \in Proc \cup {None}
    PROVE  LET y == [x EXCEPT !.pid = q]
           IN  /\ y \in Bufs /\ y.blk = x.blk /\ y.valid = x.valid /\ y.dirty = x.dirty
               /\ y.refcnt = x.refcnt /\ y.pid = q /\ y.data = x.data
  BY DEF Bufs

LEMMA SetCount ==
    ASSUME NEW x \in Bufs, NEW n \in Nat
    PROVE  LET y == [x EXCEPT !.refcnt = n]
           IN  /\ y \in Bufs /\ y.blk = x.blk /\ y.valid = x.valid /\ y.dirty = x.dirty
               /\ y.refcnt = n /\ y.pid = x.pid /\ y.data = x.data
  BY DEF Bufs

LEMMA RecycledFields ==
    ASSUME NEW x \in Bufs, NEW k \in Block
    PROVE  LET y == Recycled(x, k)
           IN  /\ y \in Bufs /\ y.blk = k /\ ~y.valid /\ ~y.dirty
               /\ y.refcnt = 1 /\ y.pid = x.pid /\ y.data = x.data
<1>1. PICK f \in BOOLEAN : f = FALSE
  OBVIOUS
<1> DEFINE y == Recycled(x, k)
<1>2. y = [x EXCEPT !.blk = k, !.valid = f, !.dirty = f, !.refcnt = 1]
  BY <1>1, Zenon DEF Recycled
<1> HIDE DEF y
<1>3. /\ y \in Bufs /\ y.blk = k /\ y.valid = f /\ y.dirty = f
      /\ y.refcnt = 1 /\ y.pid = x.pid /\ y.data = x.data
  BY <1>2 DEF Bufs
<1> QED
  BY <1>1, <1>3, Zenon DEF y

\* The lock of buffer b changes hands, and nothing else about the buffers.
SameBut(b) ==
    /\ buf'[b].blk = buf[b].blk /\ buf'[b].valid = buf[b].valid /\ buf'[b].dirty = buf[b].dirty
    /\ buf'[b].refcnt = buf[b].refcnt /\ buf'[b].data = buf[b].data

LEMMA PidStep ==
    ASSUME BufType, NEW b \in Buf, NEW q \in Proc \cup {None}, buf' = [buf EXCEPT ![b].pid = q]
    PROVE  /\ buf' \in [Buf -> Bufs] /\ buf'[b].pid = q
           /\ \A c \in Buf : SameBut(c) /\ (c # b => buf'[c].pid = buf[c].pid)
<1> DEFINE y == [buf[b] EXCEPT !.pid = q]
<1>1. buf[b] \in Bufs
  BY DEF BufType
<1>2. /\ y \in Bufs /\ y.blk = buf[b].blk /\ y.valid = buf[b].valid /\ y.dirty = buf[b].dirty
      /\ y.refcnt = buf[b].refcnt /\ y.pid = q /\ y.data = buf[b].data
  BY <1>1, SetPid
<1>3. buf' = [buf EXCEPT ![b] = y]
  OBVIOUS
<1> HIDE DEF y
<1>4. buf' \in [Buf -> Bufs] /\ buf'[b] = y /\ \A c \in Buf : c # b => buf'[c] = buf[c]
  BY <1>2, <1>3, SetBuf
<1>5. SameBut(b)
  BY <1>2, <1>4 DEF SameBut
<1>6. \A c \in Buf : c # b => SameBut(c)
  BY <1>4 DEF SameBut
<1> QED
  BY <1>2, <1>4, <1>5, <1>6

\* Process p comes to another place of its call.
LEMMA SetPlace ==
    ASSUME BufType, NEW p \in Proc, NEW x \in [at : Places, b : Buf \cup {None}],
           bp' = [bp EXCEPT ![p] = x]
    PROVE  /\ bp' \in [Proc -> [at : Places, b : Buf \cup {None}]] /\ bp'[p] = x
           /\ \A q \in Proc : q # p => bp'[q] = bp[q]
  BY DEF BufType

LEMMA IdleFacts == Idle \in [at : Places, b : Buf \cup {None}] /\ Idle.at = "idle" /\ Idle.b = None
  BY DEF Idle, Places

\* What is true of all that a step leaves alone.
LEMMA UsersKept ==
    ASSUME \A p \in Proc, b \in Buf : (b \in has'[p] \/ b = bp'[p].b) <=> (b \in has[p] \/ b = bp[p].b)
    PROVE  \A b \in Buf : Users(b)' = Users(b)
  BY DEF Users

\* The processes that use a buffer are as many as a natural number.
LEMMA UsersFinite ==
    ASSUME Params, NEW b \in Buf
    PROVE  IsFiniteSet(Users(b)) /\ Cardinality(Users(b)) \in Nat
           /\ (Cardinality(Users(b)) = 0 <=> Users(b) = {})
<1>1. Users(b) \subseteq Proc
  BY DEF Users
<1>2. IsFiniteSet(Users(b))
  BY <1>1, FS_Subset DEF Params
<1> QED
  BY <1>2, FS_CardinalityType, FS_EmptySet

\* Process p comes to another place with the buffer that it is at.
LEMMA SetAt ==
    ASSUME BufType, NEW p \in Proc, NEW s \in Places, bp' = [bp EXCEPT ![p].at = s]
    PROVE  /\ bp' \in [Proc -> [at : Places, b : Buf \cup {None}]]
           /\ bp'[p].at = s /\ bp'[p].b = bp[p].b
           /\ \A q \in Proc : q # p => bp'[q] = bp[q]
  BY DEF BufType

\* Who is at something other than idle is at a buffer, and counts.
LEMMA AtBuffer ==
    ASSUME BInv, NEW p \in Proc, bp[p].at # "idle"
    PROVE  bp[p].b \in Buf /\ bp[p].b # None /\ p \in Users(bp[p].b) /\ buf[bp[p].b].blk # None
<1>1. bp[p].b \in Buf /\ bp[p].b # None
  <2>1. Holds(p) /\ bp[p] \in [at : Places, b : Buf \cup {None}]
    BY DEF BInv, BufType
  <2> QED
    BY <2>1 DEF Holds
<1>2. p \in Users(bp[p].b)
  BY DEF Users
<1> QED
  BY <1>1, <1>2 DEF BInv, OneEach

-------------------------------------------------------------------------------
(* The steps *)

\* A step that leaves the buffers but for their locks, the blocks and who uses what.
LEMMA Quiet ==
    ASSUME Params, BInv, UNCHANGED <<disk, latest, failed>>, \A b \in Buf : SameBut(b),
           \A p \in Proc, b \in Buf : (b \in has'[p] \/ b = bp'[p].b) <=> (b \in has[p] \/ b = bp[p].b)
    PROVE  /\ Counted' /\ OneEach' /\ NothingStale' /\ DirtyValid'
           /\ \A b \in Buf : ToDo(b)' <=> ToDo(b)
<1>1. \A b \in Buf : Users(b)' = Users(b)
  BY UsersKept
<1>2. Counted'
  BY <1>1 DEF BInv, Counted, SameBut
<1>3. OneEach'
  BY <1>1 DEF BInv, OneEach, SameBut
<1>4. NothingStale'
  BY DEF BInv, NothingStale, SameBut
<1>5. DirtyValid'
  BY DEF BInv, DirtyValid, SameBut
<1>6. \A b \in Buf : ToDo(b)' <=> ToDo(b)
  BY DEF ToDo, SameBut
<1> QED
  BY <1>2, <1>3, <1>4, <1>5, <1>6

\* Process p has buffer b, or is in iderw() to get it.
Mine(p, b) == b \in has[p] \/ (bp[p].b = b /\ bp[p].at \in Io)

\* Process p waits for the disk to do buffer b.
ForDisk(p, b) == bp[p].b = b /\ bp[p].at \in {"disk sleep", "wait"}

\* A buffer in the queue is that of one process, which waits for it.
LEMMA QueuedFor ==
    ASSUME Params, BInv, NEW p \in Proc, NEW b \in Buf, Queued(b), Mine(p, b) \/ buf[b].pid \in {p, None}
    PROVE  ForDisk(p, b)
<1>1. PICK q \in Proc : bp[q].b = b /\ bp[q].at \in {"disk sleep", "wait"}
  BY DEF BInv, QueueOK, Awaited
<1>2. buf[b].pid = q
  BY <1>1 DEF BInv, Holds, Io
<1>3. Mine(p, b) => buf[b].pid = p
  BY DEF BInv, Holds, Mine
<1>4. q # None
  BY BufFacts
<1> QED
  BY <1>1, <1>2, <1>3, <1>4 DEF ForDisk

\* A step of process p that leaves the buffers and the disk alone.
LEMMA LocalStep ==
    ASSUME Params, BInv, NEW p \in Proc,
           buf' = buf, mru' = mru, idequeue' = idequeue, disk' = disk, latest' = latest, failed' = failed,
           bp' \in [Proc -> [at : Places, b : Buf \cup {None}]], has' \in [Proc -> SUBSET Buf],
           \A q \in Proc : q # p => bp'[q] = bp[q] /\ has'[q] = has[q],
           \A b \in Buf : (b \in has'[p] \/ b = bp'[p].b) <=> (b \in has[p] \/ b = bp[p].b),
           \A b \in Buf : Mine(p, b) => Mine(p, b)',
           \A b \in Buf : ForDisk(p, b) /\ Queued(b) => ForDisk(p, b)',
           Holds(p)', Waits(p)', LockAwaited(p)'
    PROVE  BInv'
<1>1. BufType'
  BY DEF BInv, BufType
<1>2. Counted' /\ OneEach' /\ NothingStale'
  BY Quiet DEF SameBut
<1>3. \A b : (ToDo(b)' <=> ToDo(b)) /\ (Queued(b)' <=> Queued(b))
  BY DEF ToDo, Queued
<1>4. ASSUME NEW q \in Proc PROVE Holds(q)' /\ Waits(q)' /\ LockAwaited(q)'
  <2>1. Holds(q) /\ Waits(q) /\ LockAwaited(q)
    BY DEF BInv
  <2>2. CASE q # p
    BY <1>3, <2>1, <2>2 DEF Holds, Waits, LockAwaited
  <2> QED
    BY <2>2
<1>5. Locked'
  <2> SUFFICES ASSUME NEW b \in Buf, buf[b].pid # None, NEW q, q = buf[b].pid
               PROVE  b \in has'[q] \/ (bp'[q].b = b /\ bp'[q].at \in Io)
    BY DEF Locked
  <2>1. q \in Proc /\ (b \in has[q] \/ (bp[q].b = b /\ bp[q].at \in Io))
    BY DEF BInv, Locked, BufType, Bufs
  <2> QED
    BY <2>1 DEF Mine
<1>6. QueueOK'
  <2>1. ASSUME NEW b \in Buf, Queued(b) PROVE Awaited(b)'
    <3>1. PICK q \in Proc : ForDisk(q, b)
      BY <2>1 DEF BInv, QueueOK, Awaited, ForDisk
    <3>2. ForDisk(q, b)'
      BY <2>1, <3>1 DEF ForDisk
    <3> QED
      BY <3>2 DEF ForDisk, Awaited
  <2> QED
    BY <1>3, <2>1 DEF BInv, QueueOK
<1>7. DirtyValid'
  BY DEF BInv, DirtyValid
<1> QED
  BY <1>1, <1>2, <1>4, <1>5, <1>6, <1>7 DEF BInv

LEMMA KillStep ==
    ASSUME Params, BInv, NEW p \in Proc, kill(p)
    PROVE  BInv'
<1> DEFINE s == IF bp[p].at = "lock sleep" THEN "lock" ELSE "wait"
<1>1. /\ bp[p].at \in {"lock sleep", "disk sleep"} /\ bp' = [bp EXCEPT ![p].at = s]
      /\ buf' = buf /\ mru' = mru /\ idequeue' = idequeue /\ disk' = disk
      /\ has' = has /\ latest' = latest /\ failed' = failed
  BY DEF kill
<1>2. s \in Places /\ s \in {"lock", "wait"} /\ (s = "lock" <=> bp[p].at = "lock sleep")
  BY DEF Places
<1> HIDE DEF s
<1>3. BufType /\ Holds(p) /\ Waits(p)
  BY DEF BInv
<1>4. /\ bp' \in [Proc -> [at : Places, b : Buf \cup {None}]]
      /\ bp'[p].at = s /\ bp'[p].b = bp[p].b
      /\ \A q \in Proc : q # p => bp'[q] = bp[q]
  BY <1>1, <1>2, <1>3, SetAt
<1>5. Holds(p)'
  BY <1>1, <1>2, <1>3, <1>4 DEF Holds, Io
<1>6. Waits(p)' /\ LockAwaited(p)'
  BY <1>1, <1>2, <1>3, <1>4 DEF Waits, LockAwaited, Queued, ToDo
<1>7. has' \in [Proc -> SUBSET Buf]
  BY <1>1, <1>3 DEF BufType
<1>8. \A b \in Buf : Mine(p, b) => Mine(p, b)'
  BY <1>1, <1>2, <1>4 DEF Mine, Io
<1>9. \A b \in Buf : ForDisk(p, b) => ForDisk(p, b)'
  BY <1>1, <1>2, <1>4 DEF ForDisk
<1> QED
  BY <1>1, <1>4, <1>5, <1>6, <1>7, <1>8, <1>9, LocalStep

\* bwrite() comes to iderw() with a buffer that the disk does not have already.
LEMMA BwriteStep ==
    ASSUME Params, BInv, NEW p \in Proc, bwrite(p)
    PROVE  BInv'
<1>1. PICK b \in has[p] : buf[b].dirty /\ bp' = [bp EXCEPT ![p] = [at |-> "iderw", b |-> b]]
  BY DEF bwrite
<1>2. /\ bp[p].at = "idle" /\ buf' = buf /\ mru' = mru /\ idequeue' = idequeue /\ disk' = disk
      /\ has' = has /\ latest' = latest /\ failed' = failed
  BY DEF bwrite
<1>3. BufType /\ Holds(p)
  BY DEF BInv
<1>4. b \in Buf /\ b # None /\ bp[p].b = None /\ buf[b].pid = p
  BY <1>1, <1>2, <1>3, BufFacts DEF BufType, Holds
<1>5. [at |-> "iderw", b |-> b] \in [at : Places, b : Buf \cup {None}]
  BY <1>4 DEF Places
<1>6. /\ bp' \in [Proc -> [at : Places, b : Buf \cup {None}]] /\ bp'[p] = [at |-> "iderw", b |-> b]
      /\ \A q \in Proc : q # p => bp'[q] = bp[q]
  BY <1>1, <1>3, <1>5, SetPlace
<1>7. bp'[p].at = "iderw" /\ bp'[p].b = b
  BY <1>6
<1>8. ~Queued(b)
  BY <1>1, <1>2, <1>4, QueuedFor DEF Mine, ForDisk
<1>9. Holds(p)'
  BY <1>2, <1>3, <1>4, <1>7 DEF Holds, Io
<1>10. Waits(p)' /\ LockAwaited(p)'
  BY <1>1, <1>2, <1>7, <1>8 DEF Waits, LockAwaited, Queued, ToDo
<1>11. has' \in [Proc -> SUBSET Buf]
  BY <1>2, <1>3 DEF BufType
<1>12. \A c \in Buf : (Mine(p, c) => Mine(p, c)') /\ ~ForDisk(p, c)
  BY <1>2, <1>4, <1>7, BufFacts DEF Mine, ForDisk
<1>13. \A c \in Buf : (c \in has'[p] \/ c = bp'[p].b) <=> (c \in has[p] \/ c = bp[p].b)
  BY <1>1, <1>2, <1>4, <1>7, BufFacts
<1> QED
  BY <1>2, <1>6, <1>9, <1>10, <1>11, <1>12, <1>13, LocalStep

\* iderw() returns, or sleeps again.
LEMMA IderwWaitStep ==
    ASSUME Params, BInv, NEW p \in Proc, iderwWait(p)
    PROVE  BInv'
<1> DEFINE b == bp[p].b
<1>1. /\ bp[p].at = "wait" /\ buf' = buf /\ mru' = mru /\ idequeue' = idequeue /\ disk' = disk
      /\ latest' = latest /\ failed' = failed
  BY DEF iderwWait
<1>2. BufType /\ Holds(p) /\ Waits(p)
  BY DEF BInv
<1>3. b \in Buf /\ b # None /\ buf[b].pid = p
  BY <1>1, AtBuffer DEF BInv, Holds, Io
<1>4. CASE ~ToDo(b)
  <2>1. bp' = [bp EXCEPT ![p] = Idle] /\ has' = [has EXCEPT ![p] = @ \cup {b}]
    BY <1>4 DEF iderwWait, ToDo
  <2>2. /\ bp' \in [Proc -> [at : Places, b : Buf \cup {None}]] /\ bp'[p] = Idle
        /\ \A q \in Proc : q # p => bp'[q] = bp[q]
    BY <1>2, <2>1, IdleFacts, SetPlace
  <2>3. bp'[p].at = "idle" /\ bp'[p].b = None
    BY <2>2, IdleFacts
  <2>4. /\ has' \in [Proc -> SUBSET Buf] /\ has'[p] = has[p] \cup {b}
        /\ \A q \in Proc : q # p => has'[q] = has[q]
    BY <1>2, <1>3, <2>1 DEF BufType
  <2>5. Holds(p)'
    BY <1>1, <1>2, <1>3, <1>4, <2>3, <2>4 DEF Holds, Io, ToDo
  <2>6. Waits(p)' /\ LockAwaited(p)'
    BY <2>3 DEF Waits, LockAwaited
  <2>7. ~Queued(b)
    BY <1>3, <1>4 DEF BInv, QueueOK
  <2>8. \A c \in Buf : (Mine(p, c) => Mine(p, c)') /\ (ForDisk(p, c) => ~Queued(c))
    BY <1>1, <2>3, <2>4, <2>7 DEF Mine, ForDisk
  <2>9. \A c \in Buf : (c \in has'[p] \/ c = bp'[p].b) <=> (c \in has[p] \/ c = bp[p].b)
    BY <2>3, <2>4, BufFacts
  <2> QED
    BY <1>1, <2>2, <2>4, <2>5, <2>6, <2>8, <2>9, LocalStep
<1>5. CASE ToDo(b)
  <2>1. bp' = [bp EXCEPT ![p].at = "disk sleep"] /\ has' = has
    BY <1>5 DEF iderwWait, ToDo
  <2>2. /\ bp' \in [Proc -> [at : Places, b : Buf \cup {None}]]
        /\ bp'[p].at = "disk sleep" /\ bp'[p].b = b
        /\ \A q \in Proc : q # p => bp'[q] = bp[q]
    BY <1>2, <2>1, SetAt DEF Places
  <2>3. Holds(p)'
    BY <1>1, <1>2, <1>3, <2>1, <2>2 DEF Holds, Io
  <2>4. Waits(p)' /\ LockAwaited(p)'
    BY <1>1, <1>2, <1>5, <2>2 DEF Waits, LockAwaited, Queued
  <2>5. has' \in [Proc -> SUBSET Buf]
    BY <1>2, <2>1 DEF BufType
  <2>6. \A c \in Buf : (Mine(p, c) => Mine(p, c)') /\ (ForDisk(p, c) => ForDisk(p, c)')
    BY <1>1, <2>1, <2>2 DEF Mine, ForDisk, Io
  <2> QED
    BY <1>1, <2>1, <2>2, <2>3, <2>4, <2>5, <2>6, LocalStep
<1> QED
  BY <1>4, <1>5

\* The request goes to the end of the queue.
LEMMA IderwStep ==
    ASSUME Params, BInv, NEW p \in Proc, iderw(p)
    PROVE  BInv'
<1> DEFINE b == bp[p].b
<1>1. /\ bp[p].at = "iderw" /\ idequeue' = Append(idequeue, b) /\ bp' = [bp EXCEPT ![p].at = "disk sleep"]
      /\ buf' = buf /\ mru' = mru /\ disk' = disk /\ has' = has /\ latest' = latest /\ failed' = failed
  BY DEF iderw
<1>2. BufType /\ Holds(p) /\ Waits(p) /\ QueueOK
  BY DEF BInv
<1>3. b \in Buf /\ ToDo(b) /\ ~Queued(b)
  BY <1>1, <1>2, AtBuffer DEF Waits
<1>4. /\ bp' \in [Proc -> [at : Places, b : Buf \cup {None}]]
      /\ bp'[p].at = "disk sleep" /\ bp'[p].b = b
      /\ \A q \in Proc : q # p => bp'[q] = bp[q]
  BY <1>1, <1>2, SetAt DEF Places
<1> DEFINE n == Len(idequeue)
<1>5. /\ idequeue' \in Seq(Buf) /\ n \in Nat /\ DOMAIN idequeue = 1 .. n /\ DOMAIN idequeue' = 1 .. n + 1
      /\ \A i \in 1 .. n : idequeue'[i] = idequeue[i] /\ idequeue[i] \in Buf
      /\ idequeue'[n + 1] = b
  <2>1. idequeue \in Seq(Buf) /\ idequeue' = Append(idequeue, b)
    BY <1>1, <1>2 DEF BufType
  <2>2. \A i \in 1 .. n : idequeue[i] \in Buf
    BY <2>1, ElementOfSeq
  <2> HIDE DEF b
  <2> QED
    BY <1>3, <2>1, <2>2, AppendProperties
<1> HIDE DEF n
<1>6. BufType'
  BY <1>1, <1>2, <1>4, <1>5 DEF BufType
<1>7. Counted' /\ OneEach' /\ NothingStale' /\ DirtyValid'
  BY <1>1, <1>4, Quiet DEF SameBut
<1>8. \A c : (ToDo(c)' <=> ToDo(c))
  BY <1>1 DEF ToDo
<1>9. \A c : Queued(c)' <=> Queued(c) \/ c = b
  BY <1>5 DEF Queued
<1>10. ASSUME NEW q \in Proc PROVE Holds(q)' /\ Waits(q)' /\ LockAwaited(q)'
  <2>1. Holds(q) /\ Waits(q) /\ LockAwaited(q)
    BY DEF BInv
  <2>2. CASE q # p
    <3>1. bp[q].at = "iderw" => bp[q].b # b
      BY <1>1, <1>2, <2>1, <2>2 DEF Holds, Io
    <3> QED
      BY <1>1, <1>4, <1>8, <1>9, <2>1, <2>2, <3>1 DEF Holds, Waits, LockAwaited
  <2>3. CASE q = p
    <3>1. Holds(p)'
      BY <1>1, <1>2, <1>3, <1>4 DEF Holds, Io
    <3>2. Waits(p)' /\ LockAwaited(p)'
      BY <1>4, <1>9 DEF Waits, LockAwaited
    <3> QED
      BY <2>3, <3>1, <3>2
  <2> QED
    BY <2>2, <2>3
<1>11. Locked'
  <2> SUFFICES ASSUME NEW c \in Buf, buf[c].pid # None, NEW q, q = buf[c].pid
               PROVE  c \in has[q] \/ (bp'[q].b = c /\ bp'[q].at \in Io)
    BY <1>1 DEF Locked
  <2>1. q \in Proc /\ (c \in has[q] \/ (bp[q].b = c /\ bp[q].at \in Io))
    BY <1>2 DEF BInv, Locked, BufType, Bufs
  <2> QED
    BY <1>1, <1>4, <2>1 DEF Io
<1>12. QueueOK'
  <2>1. \A i, j \in DOMAIN idequeue' : idequeue'[i] = idequeue'[j] => i = j
    <3>1. \A i \in 1 .. n : idequeue'[i] # b
      BY <1>3, <1>5 DEF Queued
    <3> QED
      BY <1>2, <1>5, <3>1 DEF QueueOK
  <2>2. \A c \in Buf : Awaited(c) \/ c = b => Awaited(c)'
    BY <1>1, <1>4 DEF Awaited
  <2> QED
    BY <1>2, <1>3, <1>8, <1>9, <2>1, <2>2 DEF QueueOK
<1> QED
  BY <1>6, <1>7, <1>10, <1>11, <1>12 DEF BInv

\* acquiresleep() finds the lock taken, by another process, or takes it.
LEMMA AcquiresleepStep ==
    ASSUME Params, BInv, NEW p \in Proc, acquiresleep(p)
    PROVE  BInv'
<1> DEFINE b == bp[p].b
<1>1. /\ bp[p].at = "lock" /\ mru' = mru /\ idequeue' = idequeue /\ disk' = disk
      /\ latest' = latest /\ failed' = failed
  BY DEF acquiresleep
<1>2. BufType /\ Holds(p) /\ Waits(p) /\ Locked /\ QueueOK
  BY DEF BInv
<1>3. b \in Buf /\ b # None /\ b \notin has[p] /\ has[p] \subseteq Buf
  BY <1>1, <1>2, AtBuffer DEF Holds, BufType
<1>4. buf[b].pid # p
  <2>1. p # None
    BY BufFacts
  <2> QED
    BY <1>1, <1>2, <1>3, <2>1 DEF Locked, Io
<1>5. CASE buf[b].pid # None
  <2>1. bp' = [bp EXCEPT ![p].at = "lock sleep"] /\ buf' = buf /\ has' = has
    BY <1>5 DEF acquiresleep
  <2>2. /\ bp' \in [Proc -> [at : Places, b : Buf \cup {None}]]
        /\ bp'[p].at = "lock sleep" /\ bp'[p].b = b
        /\ \A q \in Proc : q # p => bp'[q] = bp[q]
    BY <1>2, <2>1, SetAt DEF Places
  <2>3. Holds(p)' /\ Waits(p)' /\ LockAwaited(p)'
    BY <1>1, <1>2, <1>3, <1>4, <1>5, <2>1, <2>2 DEF Holds, Waits, LockAwaited, Io
  <2>4. has' \in [Proc -> SUBSET Buf]
    BY <1>2, <2>1 DEF BufType
  <2>5. \A c \in Buf : (Mine(p, c) => Mine(p, c)') /\ ~ForDisk(p, c)
    BY <1>1, <2>1, <2>2 DEF Mine, ForDisk, Io
  <2> QED
    BY <1>1, <2>1, <2>2, <2>3, <2>4, <2>5, LocalStep
<1>6. CASE buf[b].pid = None
  <2>1. /\ buf' = [buf EXCEPT ![b] = [buf[b] EXCEPT !.pid = p]]
        /\ IF buf[b].valid
           THEN bp' = [bp EXCEPT ![p] = Idle] /\ has' = [has EXCEPT ![p] = @ \cup {b}]
           ELSE bp' = [bp EXCEPT ![p].at = "iderw"] /\ has' = has
    BY <1>6 DEF acquiresleep
  <2>2. /\ buf' \in [Buf -> Bufs] /\ buf'[b].pid = p
        /\ \A c \in Buf : SameBut(c) /\ (c # b => buf'[c].pid = buf[c].pid)
    BY <1>2, <1>3, <2>1, PidStep
  <2>3. /\ bp' \in [Proc -> [at : Places, b : Buf \cup {None}]] /\ has' \in [Proc -> SUBSET Buf]
        /\ \A q \in Proc : q # p => bp'[q] = bp[q] /\ has'[q] = has[q]
        /\ \/ /\ buf[b].valid /\ bp'[p].at = "idle" /\ bp'[p].b = None /\ has'[p] = has[p] \cup {b}
           \/ ~buf[b].valid /\ bp'[p].at = "iderw" /\ bp'[p].b = b /\ has'[p] = has[p]
    <3>1. CASE buf[b].valid
      <4>1. /\ bp' \in [Proc -> [at : Places, b : Buf \cup {None}]] /\ bp'[p] = Idle
            /\ \A q \in Proc : q # p => bp'[q] = bp[q]
        BY <1>2, <2>1, <3>1, IdleFacts, SetPlace
      <4>2. /\ has' \in [Proc -> SUBSET Buf] /\ has'[p] = has[p] \cup {b}
            /\ \A q \in Proc : q # p => has'[q] = has[q]
        BY <1>2, <1>3, <2>1, <3>1 DEF BufType
      <4> QED
        BY <3>1, <4>1, <4>2, IdleFacts
    <3>2. CASE ~buf[b].valid
      <4>1. /\ bp' \in [Proc -> [at : Places, b : Buf \cup {None}]]
            /\ bp'[p].at = "iderw" /\ bp'[p].b = b
            /\ \A q \in Proc : q # p => bp'[q] = bp[q]
        BY <1>2, <2>1, <3>2, SetAt DEF Places
      <4> QED
        BY <1>2, <2>1, <3>2, <4>1 DEF BufType
    <3> QED
      BY <3>1, <3>2
  <2>4. BufType'
    BY <1>1, <1>2, <2>2, <2>3 DEF BufType
  <2>5. \A q \in Proc, c \in Buf : (c \in has'[q] \/ c = bp'[q].b) <=> (c \in has[q] \/ c = bp[q].b)
    BY <2>3, BufFacts
  <2>6. /\ Counted' /\ OneEach' /\ NothingStale' /\ DirtyValid'
        /\ \A c \in Buf : ToDo(c)' <=> ToDo(c)
    BY <1>1, <2>2, <2>5, Quiet
  <2>7. \A c : Queued(c)' <=> Queued(c)
    BY <1>1 DEF Queued
  <2>8. ~Queued(b)
    BY <1>1, <1>3, <1>6, QueuedFor DEF ForDisk
  <2>9. ASSUME NEW q \in Proc PROVE Holds(q)' /\ Waits(q)' /\ LockAwaited(q)'
    <3>1. Holds(q) /\ Waits(q) /\ LockAwaited(q) /\ bp[q].b \in Buf \cup {None} /\ has[q] \subseteq Buf
      BY <1>2 DEF BInv, BufType
    <3>2. bp[q].at # "idle" => bp[q].b \in Buf
      BY <3>1 DEF Holds
    <3>3. q # None
      BY BufFacts
    <3>4. CASE q # p
      <4>1. Holds(q)'
        <5>1. bp'[q] = bp[q] /\ has'[q] = has[q]
          BY <2>3, <3>4
        <5>2. ASSUME NEW c \in Buf, buf[c].pid = q PROVE buf'[c].pid = q /\ buf'[c].valid = buf[c].valid
          BY <1>6, <2>2, <3>3, <5>2 DEF SameBut
        <5>3. \A c \in has[q] : buf'[c].pid = q /\ buf'[c].valid
          BY <3>1, <5>2 DEF Holds
        <5>4. bp[q].at \in Io => buf'[bp[q].b].pid = q
          BY <3>1, <3>2, <5>2 DEF Holds, Io
        <5> QED
          BY <3>1, <5>1, <5>3, <5>4 DEF Holds
      <4>2. Waits(q)'
        BY <2>3, <2>6, <2>7, <3>1, <3>2, <3>4 DEF Waits
      <4>3. LockAwaited(q)'
        BY <1>6, <2>2, <2>3, <3>1, <3>2, <3>4 DEF LockAwaited
      <4> QED
        BY <4>1, <4>2, <4>3
    <3>5. CASE q = p
      <4>1. Holds(p)'
        <5>1. ASSUME NEW c \in has[p] PROVE buf'[c].pid = p /\ buf'[c].valid
          BY <1>2, <1>3, <2>2 DEF Holds, SameBut
        <5>2. buf'[b].pid = p /\ buf'[b].valid = buf[b].valid
          BY <1>3, <2>2 DEF SameBut
        <5>3. CASE buf[b].valid /\ bp'[p].at = "idle" /\ bp'[p].b = None /\ has'[p] = has[p] \cup {b}
          <6>1. \A c \in has'[p] : buf'[c].pid = p /\ buf'[c].valid
            BY <5>1, <5>2, <5>3
          <6> QED
            BY <5>3, <6>1 DEF Holds, Io
        <5>4. CASE ~buf[b].valid /\ bp'[p].at = "iderw" /\ bp'[p].b = b /\ has'[p] = has[p]
          BY <1>3, <5>1, <5>2, <5>4 DEF Holds, Io
        <5> QED
          BY <2>3, <5>3, <5>4
      <4>2. Waits(p)' /\ LockAwaited(p)'
        BY <1>3, <2>3, <2>6, <2>7, <2>8 DEF Waits, LockAwaited, ToDo
      <4> QED
        BY <3>5, <4>1, <4>2
    <3> QED
      BY <3>4, <3>5
  <2>10. Locked'
    <3> SUFFICES ASSUME NEW c \in Buf, buf'[c].pid # None, NEW q, q = buf'[c].pid
                 PROVE  c \in has'[q] \/ (bp'[q].b = c /\ bp'[q].at \in Io)
      BY DEF Locked
    <3>1. CASE c = b
      BY <2>2, <2>3, <3>1 DEF Io
    <3>2. CASE c # b
      <4>1. q \in Proc /\ (c \in has[q] \/ (bp[q].b = c /\ bp[q].at \in Io))
        BY <1>2, <2>2, <3>2 DEF Locked, BufType, Bufs
      <4> QED
        BY <1>1, <2>3, <4>1 DEF Io
    <3> QED
      BY <3>1, <3>2
  <2>11. QueueOK'
    <3>1. \A c \in Buf : Awaited(c) => Awaited(c)'
      BY <1>1, <2>3 DEF Awaited
    <3> QED
      BY <1>1, <1>2, <2>6, <2>7, <3>1 DEF QueueOK
  <2> QED
    BY <2>4, <2>6, <2>9, <2>10, <2>11 DEF BInv
<1> QED
  BY <1>5, <1>6

LEMMA PlaceFields ==
    ASSUME NEW r, NEW s, NEW c, r = [at |-> s, b |-> c]
    PROVE  r.at = s /\ r.b = c
  OBVIOUS

LEMMA WakeupFacts ==
    ASSUME BufType, NEW how \in {"lock sleep", "disk sleep"}, NEW b \in Buf
    PROVE  LET new == IF how = "lock sleep" THEN "lock" ELSE "wait"
           IN  /\ Wakeup(how, b) \in [Proc -> [at : Places, b : Buf \cup {None}]]
               /\ \A q \in Proc :
                    /\ Wakeup(how, b)[q].b = bp[q].b
                    /\ bp[q].at = how /\ bp[q].b = b => Wakeup(how, b)[q].at = new
                    /\ bp[q].at # how \/ bp[q].b # b => Wakeup(how, b)[q].at = bp[q].at
<1> DEFINE new == IF how = "lock sleep" THEN "lock" ELSE "wait"
           w == Wakeup(how, b)
<1>1. new \in Places
  BY DEF Places
<1>2. \A q \in Proc : bp[q] \in [at : Places, b : Buf \cup {None}]
  BY DEF BufType
<1>3. w = [q \in Proc |-> IF bp[q] = [at |-> how, b |-> b] THEN [bp[q] EXCEPT !.at = new] ELSE bp[q]]
  BY DEF Wakeup
<1> HIDE DEF w, new
<1>4. ASSUME NEW q \in Proc
      PROVE  /\ w[q] \in [at : Places, b : Buf \cup {None}] /\ w[q].b = bp[q].b
             /\ bp[q].at = how /\ bp[q].b = b => w[q].at = new
             /\ bp[q].at # how \/ bp[q].b # b => w[q].at = bp[q].at
  <2>1. bp[q] \in [at : Places, b : Buf \cup {None}]
    BY <1>2
  <2>2. CASE bp[q] = [at |-> how, b |-> b]
    <3>1. w[q] = [bp[q] EXCEPT !.at = new]
      BY <1>3, <2>2
    <3>2. bp[q].at = how /\ bp[q].b = b
      BY <2>2, PlaceFields
    <3> QED
      BY <1>1, <2>1, <3>1, <3>2
  <2>3. CASE bp[q] # [at |-> how, b |-> b]
    <3>1. w[q] = bp[q]
      BY <1>3, <2>3
    <3>2. bp[q].at # how \/ bp[q].b # b
      BY <2>1, <2>3
    <3> QED
      BY <2>1, <3>1, <3>2
  <2> QED
    BY <2>2, <2>3
<1>5. w \in [Proc -> [at : Places, b : Buf \cup {None}]]
  BY <1>3, <1>4
<1> QED
  BY <1>4, <1>5 DEF w, new

\* releasesleep() wakes all who sleep for the lock.
LEMMA ReleasesleepStep ==
    ASSUME Params, BInv, NEW p \in Proc, releasesleep(p)
    PROVE  BInv'
<1>1. PICK b \in has[p] :
        /\ has' = [has EXCEPT ![p] = @ \ {b}] /\ buf' = [buf EXCEPT ![b].pid = None]
        /\ bp' = [Wakeup("lock sleep", b) EXCEPT ![p] = [at |-> "brelse", b |-> b]]
  BY DEF releasesleep
<1>2. /\ bp[p].at = "idle" /\ mru' = mru /\ idequeue' = idequeue /\ disk' = disk
      /\ latest' = latest /\ failed' = failed
  BY DEF releasesleep
<1>3. BufType /\ Holds(p) /\ Locked /\ QueueOK
  BY DEF BInv
<1>4. b \in Buf /\ b # None /\ bp[p].b = None /\ buf[b].pid = p /\ has[p] \subseteq Buf /\ p # None
  BY <1>1, <1>2, <1>3, BufFacts DEF BufType, Holds
<1>5. /\ buf' \in [Buf -> Bufs] /\ buf'[b].pid = None
      /\ \A c \in Buf : SameBut(c) /\ (c # b => buf'[c].pid = buf[c].pid)
  BY <1>1, <1>3, <1>4, PidStep
<1>6. /\ has' \in [Proc -> SUBSET Buf] /\ has'[p] = has[p] \ {b}
      /\ \A q \in Proc : q # p => has'[q] = has[q]
  BY <1>1, <1>3, <1>4 DEF BufType
<1>7. /\ bp' \in [Proc -> [at : Places, b : Buf \cup {None}]]
      /\ bp'[p].at = "brelse" /\ bp'[p].b = b
      /\ \A q \in Proc : q # p =>
            /\ bp'[q].b = bp[q].b
            /\ bp[q].at = "lock sleep" /\ bp[q].b = b => bp'[q].at = "lock"
            /\ bp[q].at # "lock sleep" \/ bp[q].b # b => bp'[q].at = bp[q].at
  <2> DEFINE w == Wakeup("lock sleep", b)
  <2>1. /\ w \in [Proc -> [at : Places, b : Buf \cup {None}]]
        /\ \A q \in Proc :
              /\ w[q].b = bp[q].b
              /\ bp[q].at = "lock sleep" /\ bp[q].b = b => w[q].at = "lock"
              /\ bp[q].at # "lock sleep" \/ bp[q].b # b => w[q].at = bp[q].at
    BY <1>3, <1>4, WakeupFacts
  <2>2. bp' = [w EXCEPT ![p] = [at |-> "brelse", b |-> b]]
    BY <1>1
  <2> HIDE DEF w
  <2>3. [at |-> "brelse", b |-> b] \in [at : Places, b : Buf \cup {None}]
    BY <1>4 DEF Places
  <2>4. bp'[p] = [at |-> "brelse", b |-> b] /\ \A q \in Proc : q # p => bp'[q] = w[q]
    BY <2>1, <2>2
  <2>5. bp' \in [Proc -> [at : Places, b : Buf \cup {None}]]
    BY <2>1, <2>2, <2>3
  <2>6. bp'[p].at = "brelse" /\ bp'[p].b = b
    BY <2>4, PlaceFields
  <2> QED
    BY <2>1, <2>4, <2>5, <2>6
<1>8. BufType'
  BY <1>2, <1>3, <1>5, <1>6, <1>7 DEF BufType
<1>9. \A q \in Proc, c \in Buf : (c \in has'[q] \/ c = bp'[q].b) <=> (c \in has[q] \/ c = bp[q].b)
  <2> TAKE q \in Proc, c \in Buf
  <2>1. CASE q = p
    BY <1>1, <1>4, <1>6, <1>7, <2>1, BufFacts
  <2>2. CASE q # p
    BY <1>6, <1>7, <2>2
  <2> QED
    BY <2>1, <2>2
<1>10. /\ Counted' /\ OneEach' /\ NothingStale' /\ DirtyValid'
       /\ \A c \in Buf : ToDo(c)' <=> ToDo(c)
  BY <1>2, <1>5, <1>9, Quiet
<1>11. \A c : Queued(c)' <=> Queued(c)
  BY <1>2 DEF Queued
<1>12. ASSUME NEW q \in Proc PROVE Holds(q)' /\ Waits(q)' /\ LockAwaited(q)'
  <2>1. Holds(q) /\ Waits(q) /\ LockAwaited(q) /\ bp[q].b \in Buf \cup {None} /\ has[q] \subseteq Buf
    BY <1>3 DEF BInv, BufType
  <2>2. bp[q].at # "idle" => bp[q].b \in Buf
    BY <2>1 DEF Holds
  <2>3. CASE q # p
    <3>1. \A c \in has[q] : c # b
      BY <1>4, <2>1, <2>3 DEF Holds
    <3>2. \A c \in has[q] : buf'[c].pid = q /\ buf'[c].valid
      BY <1>5, <2>1, <3>1 DEF Holds, SameBut
    <3>3. bp[q].at \in Io => buf'[bp[q].b].pid = q
      BY <1>4, <1>5, <2>1, <2>2, <2>3 DEF Holds, Io
    <3>4. Holds(q)'
      BY <1>6, <1>7, <2>1, <2>3, <3>2, <3>3 DEF Holds, Io
    <3>5. Waits(q)'
      BY <1>7, <1>10, <1>11, <2>1, <2>2, <2>3 DEF Waits
    <3>6. LockAwaited(q)'
      BY <1>5, <1>7, <2>1, <2>2, <2>3 DEF LockAwaited
    <3> QED
      BY <3>4, <3>5, <3>6
  <2>4. CASE q = p
    <3>1. \A c \in has'[p] : buf'[c].pid = p /\ buf'[c].valid
      <4> TAKE c \in has'[p]
      <4>1. c \in has[p] /\ c # b /\ c \in Buf
        BY <1>4, <1>6
      <4>2. buf[c].pid = p /\ buf[c].valid
        BY <1>3, <4>1 DEF Holds
      <4> QED
        BY <1>5, <4>1, <4>2 DEF SameBut
    <3>2. Holds(p)'
      BY <1>4, <1>6, <1>7, <3>1 DEF Holds, Io
    <3>3. Waits(p)' /\ LockAwaited(p)'
      BY <1>7 DEF Waits, LockAwaited
    <3> QED
      BY <2>4, <3>2, <3>3
  <2> QED
    BY <2>3, <2>4
<1>13. Locked'
  <2> SUFFICES ASSUME NEW c \in Buf, buf'[c].pid # None, NEW q, q = buf'[c].pid
               PROVE  c \in has'[q] \/ (bp'[q].b = c /\ bp'[q].at \in Io)
    BY DEF Locked
  <2>1. c # b /\ q = buf[c].pid
    BY <1>5
  <2>2. q \in Proc /\ (c \in has[q] \/ (bp[q].b = c /\ bp[q].at \in Io))
    BY <1>3, <2>1 DEF Locked, BufType, Bufs
  <2> QED
    BY <1>2, <1>6, <1>7, <2>1, <2>2 DEF Io
<1>14. QueueOK'
  <2>1. \A c \in Buf : Awaited(c) => Awaited(c)'
    <3>1. ASSUME NEW q \in Proc, bp[q].at \in {"disk sleep", "wait"}
          PROVE  bp'[q].b = bp[q].b /\ bp'[q].at = bp[q].at
      BY <1>2, <1>7, <3>1
    <3> QED
      BY <3>1 DEF Awaited
  <2> QED
    BY <1>2, <1>3, <1>10, <1>11, <2>1 DEF QueueOK
<1> QED
  BY <1>8, <1>10, <1>12, <1>13, <1>14 DEF BInv

LEMMA ChangedFields ==
    ASSUME NEW x \in Bufs, NEW v \in Val
    PROVE  LET y == [x EXCEPT !.data = v, !.dirty = TRUE]
           IN  /\ y \in Bufs /\ y.blk = x.blk /\ y.valid = x.valid /\ y.dirty
               /\ y.refcnt = x.refcnt /\ y.pid = x.pid /\ y.data = v
<1>1. PICK t \in BOOLEAN : t = TRUE
  OBVIOUS
<1> DEFINE y == [x EXCEPT !.data = v, !.dirty = TRUE]
<1>2. y = [x EXCEPT !.data = v, !.dirty = t]
  BY <1>1, Zenon
<1> HIDE DEF y
<1>3. /\ y \in Bufs /\ y.blk = x.blk /\ y.valid = x.valid /\ y.dirty = t
      /\ y.refcnt = x.refcnt /\ y.pid = x.pid /\ y.data = v
  BY <1>2 DEF Bufs
<1> QED
  BY <1>1, <1>3, Zenon DEF y

\* A process writes into a buffer that it has.
LEMMA ChangeStep ==
    ASSUME Params, BInv, NEW p \in Proc, Change(p)
    PROVE  BInv'
<1>1. PICK b \in has[p], v \in Val :
        /\ buf' = [buf EXCEPT ![b] = [buf[b] EXCEPT !.data = v, !.dirty = TRUE]]
        /\ latest' = [latest EXCEPT ![buf[b].blk] = v]
  BY DEF Change
<1>2. /\ bp[p].at = "idle" /\ bp' = bp /\ has' = has /\ mru' = mru /\ idequeue' = idequeue
      /\ disk' = disk /\ failed' = failed
  BY DEF Change
<1>3. BufType /\ Holds(p) /\ Locked /\ QueueOK /\ OneEach
  BY DEF BInv
<1>4. b \in Buf /\ buf[b].pid = p /\ buf[b].valid /\ buf[b] \in Bufs
  BY <1>1, <1>3 DEF BufType, Holds
<1> DEFINE y == [buf[b] EXCEPT !.data = v, !.dirty = TRUE]
<1>5. /\ y \in Bufs /\ y.blk = buf[b].blk /\ y.valid = buf[b].valid /\ y.dirty
      /\ y.refcnt = buf[b].refcnt /\ y.pid = buf[b].pid /\ y.data = v
  BY <1>4, ChangedFields
<1>6. buf' = [buf EXCEPT ![b] = y]
  BY <1>1
<1> HIDE DEF y
<1>7. /\ buf' \in [Buf -> Bufs] /\ buf'[b] = y /\ \A c \in Buf : c # b => buf'[c] = buf[c]
  BY <1>3, <1>4, <1>5, <1>6, SetBuf
<1>8. \A c \in Buf : /\ buf'[c].blk = buf[c].blk /\ buf'[c].valid = buf[c].valid
                     /\ buf'[c].refcnt = buf[c].refcnt /\ buf'[c].pid = buf[c].pid
                     /\ (ToDo(c) => ToDo(c)')
  <2>1. buf'[b].dirty /\ ToDo(b)'
    BY <1>5, <1>7 DEF ToDo
  <2>2. \A c \in Buf : c # b => ToDo(c)' = ToDo(c)
    BY <1>7 DEF ToDo
  <2> QED
    BY <1>5, <1>7, <2>1, <2>2
<1>9. buf[b].blk \in Block
  BY <1>3, <1>4 DEF OneEach, Bufs
<1>10. /\ latest' \in [Block -> Val] /\ latest'[buf[b].blk] = v
       /\ \A k \in Block : k # buf[b].blk => latest'[k] = latest[k]
  BY <1>1, <1>3, <1>9 DEF BufType
<1>11. BufType'
  BY <1>2, <1>3, <1>7, <1>10 DEF BufType
<1>12. \A c \in Buf : Users(c)' = Users(c)
  BY <1>2, UsersKept
<1>13. Counted' /\ OneEach'
  BY <1>8, <1>12 DEF BInv, Counted, OneEach
<1>14. \A c : Queued(c)' <=> Queued(c)
  BY <1>2 DEF Queued
<1>15. ASSUME NEW q \in Proc PROVE Holds(q)' /\ Waits(q)' /\ LockAwaited(q)'
  <2>1. Holds(q) /\ Waits(q) /\ LockAwaited(q) /\ bp[q].b \in Buf \cup {None} /\ has[q] \subseteq Buf
    BY <1>3 DEF BInv, BufType
  <2>2. bp[q].at # "idle" => bp[q].b \in Buf
    BY <2>1 DEF Holds
  <2>3. \A c \in has[q] : buf'[c].pid = q /\ buf'[c].valid
    BY <1>8, <2>1 DEF Holds
  <2>4. Holds(q)'
    BY <1>2, <1>8, <2>1, <2>2, <2>3 DEF Holds, Io
  <2>5. bp[q].at \in Io => bp[q].b # b
    BY <1>2, <1>4, <2>1 DEF Holds, Io
  <2>6. bp[q].at \in Io => (ToDo(bp[q].b)' <=> ToDo(bp[q].b))
    BY <1>2, <1>7, <2>2, <2>5 DEF ToDo, Io
  <2>7. Waits(q)'
    BY <1>2, <1>14, <2>1, <2>6 DEF Waits, Io
  <2>8. LockAwaited(q)'
    BY <1>2, <1>8, <2>1, <2>2 DEF LockAwaited
  <2> QED
    BY <2>4, <2>7, <2>8
<1>16. Locked'
  BY <1>2, <1>3, <1>8 DEF Locked
<1>17. QueueOK'
  <2>1. \A c : Awaited(c) <=> Awaited(c)'
    BY <1>2 DEF Awaited
  <2> QED
    BY <1>2, <1>3, <1>8, <1>14, <2>1 DEF QueueOK
<1>18. DirtyValid'
  BY <1>4, <1>7, <1>8 DEF BInv, DirtyValid
<1>19. NothingStale'
  <2> SUFFICES ASSUME NEW k \in Block \ failed
               PROVE  /\ \A c \in Buf : buf'[c].blk = k /\ buf'[c].valid =>
                            buf'[c].data = latest'[k] /\ (~buf'[c].dirty => disk[k] = latest'[k])
                      /\ (\A c \in Buf : ~(buf'[c].blk = k /\ buf'[c].valid)) => disk[k] = latest'[k]
    BY <1>2 DEF NothingStale
  <2>1. CASE k = buf[b].blk
    <3>1. \A c \in Buf : buf[c].blk = k => c = b
      BY <1>3, <1>4, <1>9, <2>1, BufFacts DEF OneEach
    <3> QED
      BY <1>4, <1>5, <1>7, <1>8, <1>10, <2>1, <3>1
  <2>2. CASE k # buf[b].blk
    <3>1. latest'[k] = latest[k]
      BY <1>10, <2>2
    <3>2. \A c \in Buf : buf'[c].blk = k => c # b /\ buf'[c] = buf[c]
      BY <1>7, <1>8, <2>2
    <3>3. \A c \in Buf : buf[c].blk = k => buf'[c] = buf[c]
      BY <1>7, <2>2
    <3> QED
      BY <3>1, <3>2, <3>3 DEF BInv, NothingStale
  <2> QED
    BY <2>1, <2>2
<1> QED
  BY <1>11, <1>13, <1>15, <1>16, <1>17, <1>18, <1>19 DEF BInv

\* Moving a buffer to the front of the list loses none.
LEMMA FrontListed ==
    ASSUME Params, Listed(mru), NEW b \in Buf
    PROVE  Listed(ToFront(b))
<1> DEFINE n == CHOOSE i \in Buf : mru[i] = b
           l == ToFront(b)
<1>1. n \in Buf /\ mru[n] = b
  BY DEF Listed
<1>2. l = [i \in Buf |-> IF i = 1 THEN b ELSE IF i <= n THEN mru[i - 1] ELSE mru[i]]
  BY DEF ToFront
<1> HIDE DEF n, l
<1>3. /\ Buf = 1 .. NBUF /\ NBUF \in Nat /\ n \in Nat /\ 1 <= n /\ n <= NBUF
      /\ \A i \in Buf : i \in Nat /\ 1 <= i /\ i <= NBUF
  BY <1>1 DEF Params, Buf
<1>4. /\ mru \in [Buf -> Buf] /\ \A i, j \in Buf : mru[i] = mru[j] => i = j
      /\ \A c \in Buf : \E i \in Buf : mru[i] = c
  BY DEF Listed, IsInjective
<1>5. \A i \in Buf : i # 1 /\ i <= n => i - 1 \in Buf /\ i - 1 # n
  BY <1>3
<1>6. /\ l[1] = b
      /\ \A i \in Buf : i # 1 /\ i <= n => l[i] = mru[i - 1]
      /\ \A i \in Buf : i > n => l[i] = mru[i] /\ i # n /\ i # 1
  BY <1>2, <1>3
<1>7. l \in [Buf -> Buf]
  BY <1>2, <1>4, <1>5
<1>8. \A i \in Buf : i # 1 => l[i] # b
  <2> TAKE i \in Buf
  <2>1. CASE i # 1 /\ i <= n
    BY <1>1, <1>4, <1>5, <1>6, <2>1
  <2>2. CASE i > n
    BY <1>1, <1>4, <1>6, <2>2
  <2> QED
    BY <1>3, <2>1, <2>2
<1>9. ASSUME NEW i \in Buf, NEW j \in Buf, l[i] = l[j], i # 1, j # 1 PROVE i = j
  <2>1. CASE i <= n /\ j <= n
    <3>1. i - 1 = j - 1
      BY <1>4, <1>5, <1>6, <1>9, <2>1
    <3> QED
      BY <1>3, <3>1
  <2>2. CASE i > n /\ j > n
    BY <1>4, <1>6, <1>9, <2>2
  <2>3. CASE i <= n /\ j > n
    <3>1. i - 1 = j
      BY <1>4, <1>5, <1>6, <1>9, <2>3
    <3> QED
      BY <1>3, <2>3, <3>1
  <2>4. CASE i > n /\ j <= n
    <3>1. j - 1 = i
      BY <1>4, <1>5, <1>6, <1>9, <2>4
    <3> QED
      BY <1>3, <2>4, <3>1
  <2> QED
    BY <1>3, <2>1, <2>2, <2>3, <2>4
<1>10. IsInjective(l)
  <2>1. DOMAIN l = Buf
    BY <1>7
  <2> QED
    BY <1>6, <1>8, <1>9, <2>1 DEF IsInjective
<1>11. ASSUME NEW c \in Buf PROVE \E i \in Buf : l[i] = c
  <2>1. CASE c = b
    <3>1. 1 \in Buf
      BY <1>3
    <3> QED
      BY <1>6, <2>1, <3>1
  <2>2. CASE c # b
    <3>1. PICK i \in Buf : mru[i] = c
      BY <1>4
    <3>2. i # n
      BY <1>1, <2>2, <3>1
    <3>3. CASE i < n
      <4>1. i + 1 \in Buf /\ i + 1 # 1 /\ i + 1 <= n /\ (i + 1) - 1 = i
        BY <1>3, <3>3
      <4>2. l[i + 1] = c
        BY <1>6, <3>1, <4>1
      <4> QED
        BY <4>1, <4>2
    <3>4. CASE i > n
      BY <1>6, <3>1, <3>4
    <3> QED
      BY <1>3, <3>2, <3>3, <3>4
  <2> QED
    BY <2>1, <2>2
<1> QED
  BY <1>7, <1>10, <1>11 DEF Listed, l

\* The count falls by one, and a buffer that nobody uses becomes the first.
LEMMA BrelseStep ==
    ASSUME Params, BInv, NEW p \in Proc, brelse(p)
    PROVE  BInv'
<1>0. PICK b : b = bp[p].b
  OBVIOUS
<1> DEFINE n == buf[b].refcnt - 1
           y == [buf[b] EXCEPT !.refcnt = n]
<1>1. /\ bp[p].at = "brelse" /\ buf' = [buf EXCEPT ![b] = y]
      /\ mru' = (IF buf'[b].refcnt = 0 THEN ToFront(b) ELSE mru)
      /\ bp' = [bp EXCEPT ![p] = Idle] /\ has' = has
      /\ idequeue' = idequeue /\ disk' = disk /\ latest' = latest /\ failed' = failed
  BY <1>0 DEF brelse
<1>2. BufType /\ Holds(p) /\ Locked /\ QueueOK /\ OneEach /\ Counted
  BY DEF BInv
<1>3. b \in Buf /\ b # None /\ b \notin has[p] /\ p \in Users(b) /\ buf[b] \in Bufs
  BY <1>0, <1>1, <1>2, AtBuffer DEF Holds, BufType
<1>4. n \in Nat /\ n = Cardinality(Users(b)) - 1
  <2>1. buf[b].refcnt = Cardinality(Users(b)) /\ Cardinality(Users(b)) # 0 /\ Cardinality(Users(b)) \in Nat
    BY <1>2, <1>3, UsersFinite DEF Counted
  <2> QED
    BY <2>1
<1>5. /\ y \in Bufs /\ y.blk = buf[b].blk /\ y.valid = buf[b].valid /\ y.dirty = buf[b].dirty
      /\ y.refcnt = n /\ y.pid = buf[b].pid /\ y.data = buf[b].data
  BY <1>3, <1>4, SetCount
<1> HIDE DEF n, y
<1>6. /\ buf' \in [Buf -> Bufs] /\ buf'[b] = y /\ \A c \in Buf : c # b => buf'[c] = buf[c]
  BY <1>1, <1>2, <1>3, <1>5, SetBuf
<1>7. \A c \in Buf : /\ buf'[c].blk = buf[c].blk /\ buf'[c].valid = buf[c].valid /\ buf'[c].dirty = buf[c].dirty
                     /\ buf'[c].pid = buf[c].pid /\ buf'[c].data = buf[c].data
  BY <1>5, <1>6
<1>8. /\ bp' \in [Proc -> [at : Places, b : Buf \cup {None}]]
      /\ bp'[p].at = "idle" /\ bp'[p].b = None
      /\ \A q \in Proc : q # p => bp'[q] = bp[q]
  BY <1>1, <1>2, IdleFacts, SetPlace
<1>9. BufType'
  <2>1. Listed(mru')
    BY <1>1, <1>2, <1>3, FrontListed DEF BufType
  <2> QED
    BY <1>1, <1>2, <1>6, <1>8, <2>1 DEF BufType
<1>10. Users(b)' = Users(b) \ {p} /\ \A c \in Buf : c # b => Users(c)' = Users(c)
  <2>1. ASSUME NEW q \in Proc, NEW c \in Buf
        PROVE  q \in Users(c)' <=> q \in Users(c) /\ ~(q = p /\ c = b)
    <3>1. CASE q # p
      BY <1>1, <1>8, <3>1 DEF Users
    <3>2. CASE q = p
      BY <1>0, <1>1, <1>3, <1>8, <3>2, BufFacts DEF Users
    <3> QED
      BY <3>1, <3>2
  <2>2. \A c \in Buf : Users(c) \subseteq Proc /\ Users(c)' \subseteq Proc
    BY DEF Users
  <2>3. Users(b)' = Users(b) \ {p}
    BY <1>3, <2>1, <2>2
  <2>4. ASSUME NEW c \in Buf, c # b PROVE Users(c)' = Users(c)
    BY <2>1, <2>2, <2>4
  <2> QED
    BY <2>3, <2>4
<1>11. Counted'
  <2>1. Cardinality(Users(b) \ {p}) = Cardinality(Users(b)) - 1
    BY <1>3, UsersFinite, FS_RemoveElement
  <2> QED
    BY <1>2, <1>4, <1>5, <1>6, <1>10, <2>1 DEF Counted
<1>12. OneEach'
  BY <1>2, <1>7, <1>10 DEF OneEach
<1>13. \A c \in Buf : (ToDo(c)' <=> ToDo(c)) /\ (Queued(c)' <=> Queued(c))
  BY <1>1, <1>7 DEF ToDo, Queued
<1>14. ASSUME NEW q \in Proc PROVE Holds(q)' /\ Waits(q)' /\ LockAwaited(q)'
  <2>1. Holds(q) /\ Waits(q) /\ LockAwaited(q) /\ bp[q].b \in Buf \cup {None} /\ has[q] \subseteq Buf
    BY <1>2 DEF BInv, BufType
  <2>2. bp[q].at # "idle" => bp[q].b \in Buf
    BY <2>1 DEF Holds
  <2>3. \A c \in has'[q] : buf'[c].pid = q /\ buf'[c].valid
    <3> TAKE c \in has'[q]
    <3>1. c \in Buf /\ buf[c].pid = q /\ buf[c].valid
      BY <1>1, <2>1 DEF Holds
    <3> QED
      BY <1>7, <3>1
  <2>4. CASE q # p
    <3>0. bp'[q] = bp[q] /\ has'[q] = has[q]
      BY <1>1, <1>8, <2>4
    <3>1. Holds(q)'
      BY <1>7, <2>1, <2>2, <2>3, <3>0 DEF Holds, Io
    <3>2. Waits(q)'
      BY <1>8, <1>13, <2>1, <2>2, <2>4 DEF Waits
    <3>3. LockAwaited(q)'
      BY <1>7, <1>8, <2>1, <2>2, <2>4 DEF LockAwaited
    <3> QED
      BY <3>1, <3>2, <3>3
  <2>5. CASE q = p
    BY <1>8, <2>3, <2>5 DEF Holds, Waits, LockAwaited, Io
  <2> QED
    BY <2>4, <2>5
<1>15. Locked'
  <2> SUFFICES ASSUME NEW c \in Buf, buf[c].pid # None, NEW q, q = buf[c].pid
               PROVE  c \in has'[q] \/ (bp'[q].b = c /\ bp'[q].at \in Io)
    BY <1>7 DEF Locked
  <2>1. q \in Proc /\ (c \in has[q] \/ (bp[q].b = c /\ bp[q].at \in Io))
    BY <1>2 DEF Locked, BufType, Bufs
  <2> QED
    BY <1>1, <1>8, <2>1 DEF Io
<1>16. QueueOK'
  <2>1. \A c \in Buf : Awaited(c) => Awaited(c)'
    BY <1>1, <1>8 DEF Awaited
  <2> QED
    BY <1>1, <1>2, <1>13, <2>1 DEF QueueOK
<1>17. DirtyValid' /\ NothingStale'
  BY <1>1, <1>7 DEF BInv, DirtyValid, NothingStale
<1> QED
  BY <1>9, <1>11, <1>12, <1>14, <1>15, <1>16, <1>17 DEF BInv

LEMMA DoneFields ==
    ASSUME NEW x \in Bufs, NEW z \in Val
    PROVE  LET y == [x EXCEPT !.valid = TRUE, !.dirty = FALSE, !.data = z]
           IN  /\ y \in Bufs /\ y.blk = x.blk /\ y.valid /\ ~y.dirty
               /\ y.refcnt = x.refcnt /\ y.pid = x.pid /\ y.data = z
<1>1. PICK t \in BOOLEAN : t = TRUE
  OBVIOUS
<1>2. PICK f \in BOOLEAN : f = FALSE
  OBVIOUS
<1> DEFINE y == [x EXCEPT !.valid = TRUE, !.dirty = FALSE, !.data = z]
<1>3. y = [x EXCEPT !.valid = t, !.dirty = f, !.data = z]
  BY <1>1, <1>2, Zenon
<1> HIDE DEF y
<1>4. /\ y \in Bufs /\ y.blk = x.blk /\ y.valid = t /\ y.dirty = f
      /\ y.refcnt = x.refcnt /\ y.pid = x.pid /\ y.data = z
  BY <1>3 DEF Bufs
<1> QED
  BY <1>1, <1>2, <1>4, Zenon DEF y

\* The disk has read or written the first buffer of the queue.
LEMMA IdeintrStep ==
    ASSUME Params, BInv, ideintr
    PROVE  BInv'
<1>0. PICK b, k : b = Head(idequeue) /\ k = buf[b].blk
  OBVIOUS
<1>1. PICK error \in BOOLEAN :
        /\ error => ~buf[b].dirty
        /\ disk' = IF buf[b].dirty THEN [disk EXCEPT ![k] = buf[b].data] ELSE disk
        /\ failed' = IF error THEN failed \cup {k} ELSE failed
        /\ buf' = [buf EXCEPT ![b] = [buf[b] EXCEPT !.valid = TRUE, !.dirty = FALSE,
                                               !.data = IF buf[b].dirty \/ error THEN @ ELSE disk[k]]]
        /\ bp' = Wakeup("disk sleep", b)
  BY <1>0 DEF ideintr
<1>2. /\ idequeue # <<>> /\ idequeue' = Tail(idequeue) /\ mru' = mru /\ has' = has /\ latest' = latest
  BY DEF ideintr
<1>3. BufType /\ Locked /\ QueueOK /\ OneEach /\ Counted /\ DirtyValid /\ NothingStale
  BY DEF BInv
<1>4. b \in Buf /\ Queued(b)
  <2>1. idequeue \in Seq(Buf) /\ 1 \in DOMAIN idequeue /\ b = idequeue[1]
    <3>1. idequeue \in Seq(Buf) /\ Len(idequeue) \in Nat \ {0}
      BY <1>2, <1>3, EmptySeq DEF BufType
    <3> QED
      BY <1>0, <3>1
  <2> QED
    BY <2>1, ElementOfSeq DEF Queued
<1>5. ToDo(b) /\ Awaited(b)
  BY <1>3, <1>4 DEF QueueOK
<1>6. k \in Block /\ k # None /\ buf[b] \in Bufs
  <2>1. Users(b) # {}
    BY <1>5 DEF Awaited, Users
  <2> QED
    BY <1>0, <1>3, <1>4, <2>1 DEF OneEach, BufType, Bufs
<1> DEFINE z == IF buf[b].dirty \/ error THEN buf[b].data ELSE disk[k]
           y == [buf[b] EXCEPT !.valid = TRUE, !.dirty = FALSE, !.data = z]
<1>7. z \in Val
  BY <1>3, <1>6 DEF BufType, Bufs
<1>8. buf' = [buf EXCEPT ![b] = y]
  BY <1>1
<1>9. /\ (buf[b].dirty \/ error => z = buf[b].data)
      /\ (~buf[b].dirty /\ ~error => z = disk[k])
  OBVIOUS
<1> HIDE DEF z
<1>10. /\ y \in Bufs /\ y.blk = buf[b].blk /\ y.valid /\ ~y.dirty
       /\ y.refcnt = buf[b].refcnt /\ y.pid = buf[b].pid /\ y.data = z
  BY <1>6, <1>7, DoneFields
<1> HIDE DEF y
<1>11. /\ buf' \in [Buf -> Bufs] /\ buf'[b] = y /\ \A c \in Buf : c # b => buf'[c] = buf[c]
  BY <1>3, <1>4, <1>8, <1>10, SetBuf
<1>12. \A c \in Buf : /\ buf'[c].blk = buf[c].blk /\ (buf[c].valid => buf'[c].valid)
                      /\ (buf'[c].dirty => buf[c].dirty /\ buf'[c].valid = buf[c].valid)
                      /\ buf'[c].refcnt = buf[c].refcnt /\ buf'[c].pid = buf[c].pid
  BY <1>10, <1>11
<1>13. /\ bp' \in [Proc -> [at : Places, b : Buf \cup {None}]]
       /\ \A q \in Proc :
            /\ bp'[q].b = bp[q].b
            /\ bp[q].at = "disk sleep" /\ bp[q].b = b => bp'[q].at = "wait"
            /\ bp[q].at # "disk sleep" \/ bp[q].b # b => bp'[q].at = bp[q].at
  BY <1>1, <1>3, <1>4, WakeupFacts
<1>14. /\ disk' \in [Block -> Val] /\ \A j \in Block : j # k => disk'[j] = disk[j]
       /\ disk'[k] = IF buf[b].dirty THEN buf[b].data ELSE disk[k]
  <2>1. disk \in [Block -> Val] /\ buf[b].data \in Val
    BY <1>3, <1>6 DEF BufType, Bufs
  <2> QED
    BY <1>1, <1>6, <2>1
<1>15. /\ idequeue' \in Seq(Buf)
       /\ \A c \in Buf : Queued(c)' <=> Queued(c) /\ c # b
       /\ \A i, j \in DOMAIN idequeue' : idequeue'[i] = idequeue'[j] => i = j
  <2> DEFINE n == Len(idequeue)
  <2>1. idequeue \in Seq(Buf) /\ n \in Nat /\ n > 0 /\ b = idequeue[1] /\ DOMAIN idequeue = 1 .. n
    <3>1. idequeue \in Seq(Buf) /\ n \in Nat \ {0}
      BY <1>2, <1>3, EmptySeq DEF BufType
    <3> QED
      BY <1>0, <3>1
  <2>2. /\ idequeue' \in Seq(Buf) /\ DOMAIN idequeue' = 1 .. n - 1
        /\ \A i \in 1 .. n - 1 : idequeue'[i] = idequeue[i + 1]
    <3>1. idequeue' \in Seq(Buf) /\ Len(idequeue') = n - 1 /\ \A i \in 1 .. Len(idequeue') : idequeue'[i] = idequeue[i + 1]
      BY <1>2, <2>1, HeadTailProperties
    <3> QED
      BY <3>1
  <2> HIDE DEF n
  <2>3. \A i, j \in 1 .. n : idequeue[i] = idequeue[j] => i = j
    BY <1>3, <2>1 DEF QueueOK
  <2>4. ASSUME NEW c \in Buf PROVE Queued(c)' <=> Queued(c) /\ c # b
    <3>1. ASSUME NEW i \in 1 .. n, idequeue[i] = c, c # b PROVE Queued(c)'
      <4>1. i # 1
        BY <2>1, <3>1
      <4>2. i - 1 \in 1 .. n - 1 /\ (i - 1) + 1 = i
        BY <2>1, <4>1
      <4>3. idequeue'[i - 1] = c
        BY <2>2, <3>1, <4>2
      <4> QED
        BY <2>2, <4>2, <4>3 DEF Queued
    <3>2. ASSUME NEW i \in 1 .. n - 1, idequeue'[i] = c PROVE Queued(c) /\ c # b
      <4>1. i + 1 \in 1 .. n /\ i + 1 # 1 /\ 1 \in 1 .. n
        BY <2>1
      <4>2. idequeue[i + 1] = c
        BY <2>2, <3>2
      <4> QED
        BY <2>1, <2>3, <4>1, <4>2 DEF Queued
    <3> QED
      BY <2>1, <2>2, <3>1, <3>2 DEF Queued
  <2>5. ASSUME NEW i \in 1 .. n - 1, NEW j \in 1 .. n - 1, idequeue'[i] = idequeue'[j] PROVE i = j
    <3>1. i + 1 \in 1 .. n /\ j + 1 \in 1 .. n
      BY <2>1
    <3>2. idequeue[i + 1] = idequeue[j + 1]
      BY <2>2, <2>5
    <3>3. i + 1 = j + 1
      BY <2>3, <3>1, <3>2
    <3> QED
      BY <2>1, <3>3
  <2> QED
    BY <2>2, <2>4, <2>5
<1>16. failed' \subseteq Block
  BY <1>1, <1>3, <1>6 DEF BufType
<1>17. BufType'
  BY <1>2, <1>3, <1>11, <1>13, <1>14, <1>15, <1>16 DEF BufType
<1>18. \A c \in Buf : Users(c)' = Users(c)
  BY <1>2, <1>13, UsersKept
<1>19. Counted' /\ OneEach'
  <2>1. Counted'
    BY <1>3, <1>12, <1>18 DEF Counted
  <2>2. \A c \in Buf : Users(c) # {} \/ buf'[c].valid => buf'[c].blk # None
    BY <1>0, <1>3, <1>6, <1>11, <1>12 DEF OneEach
  <2> QED
    BY <1>3, <1>12, <1>18, <2>1, <2>2 DEF OneEach
<1>20. ~ToDo(b)' /\ \A c \in Buf : c # b => (ToDo(c)' <=> ToDo(c))
  BY <1>10, <1>11 DEF ToDo
<1>21. ASSUME NEW q \in Proc PROVE Holds(q)' /\ Waits(q)' /\ LockAwaited(q)'
  <2>1. Holds(q) /\ Waits(q) /\ LockAwaited(q) /\ bp[q].b \in Buf \cup {None} /\ has[q] \subseteq Buf
    BY <1>3 DEF BInv, BufType
  <2>2. bp[q].at # "idle" => bp[q].b \in Buf
    BY <2>1 DEF Holds
  <2>3. \A c \in has'[q] : buf'[c].pid = q /\ buf'[c].valid
    <3> TAKE c \in has'[q]
    <3>1. c \in Buf /\ buf[c].pid = q /\ buf[c].valid
      BY <1>2, <2>1 DEF Holds
    <3> QED
      BY <1>12, <3>1
  <2>4. bp'[q].b = bp[q].b /\ (bp'[q].at = bp[q].at \/ (bp[q].at = "disk sleep" /\ bp'[q].at = "wait"))
    BY <1>13
  <2>5. Holds(q)'
    BY <1>2, <1>12, <2>1, <2>2, <2>3, <2>4 DEF Holds, Io
  <2>6. Waits(q)'
    <3>1. CASE bp[q].b = b
      <4>1. bp[q].at # "iderw"
        BY <1>4, <2>1, <3>1 DEF Waits
      <4>2. bp'[q].at # "iderw" /\ bp'[q].at # "disk sleep" /\ bp'[q].b = b
        BY <1>13, <2>4, <3>1, <4>1
      <4> QED
        BY <1>20, <4>2 DEF Waits
    <3>2. CASE bp[q].b # b
      BY <1>13, <1>15, <1>20, <2>1, <2>2, <3>2 DEF Waits
    <3> QED
      BY <3>1, <3>2
  <2>7. LockAwaited(q)'
    BY <1>12, <2>1, <2>2, <2>4 DEF LockAwaited
  <2> QED
    BY <2>5, <2>6, <2>7
<1>22. Locked'
  <2> SUFFICES ASSUME NEW c \in Buf, buf[c].pid # None, NEW q, q = buf[c].pid
               PROVE  c \in has'[q] \/ (bp'[q].b = c /\ bp'[q].at \in Io)
    BY <1>12 DEF Locked
  <2>1. q \in Proc /\ (c \in has[q] \/ (bp[q].b = c /\ bp[q].at \in Io))
    BY <1>3 DEF Locked, BufType, Bufs
  <2> QED
    BY <1>2, <1>13, <2>1 DEF Io
<1>23. QueueOK'
  <2>1. \A c \in Buf : Awaited(c) => Awaited(c)'
    BY <1>13 DEF Awaited
  <2> QED
    BY <1>3, <1>15, <1>20, <2>1 DEF QueueOK
<1>24. DirtyValid'
  BY <1>3, <1>12 DEF DirtyValid
<1>25. NothingStale'
  <2> SUFFICES ASSUME NEW j \in Block \ failed'
               PROVE  /\ \A c \in Buf : buf'[c].blk = j /\ buf'[c].valid =>
                            buf'[c].data = latest[j] /\ (~buf'[c].dirty => disk'[j] = latest[j])
                      /\ (\A c \in Buf : ~(buf'[c].blk = j /\ buf'[c].valid)) => disk'[j] = latest[j]
    BY <1>2 DEF NothingStale
  <2>1. j \in Block \ failed
    BY <1>1
  <2>2. CASE j = k
    <3>1. \A c \in Buf : buf[c].blk = k => c = b
      BY <1>0, <1>3, <1>4, <1>6 DEF OneEach
    <3>2. ~error
      BY <1>1, <2>2
    <3>3. buf[b].dirty => buf[b].data = latest[k]
      BY <1>0, <1>3, <1>4, <2>1, <2>2 DEF DirtyValid, NothingStale
    <3>4. ~buf[b].dirty => disk[k] = latest[k]
      <4>1. ASSUME ~buf[b].dirty PROVE \A c \in Buf : ~(buf[c].blk = k /\ buf[c].valid)
        BY <1>5, <3>1, <4>1 DEF ToDo
      <4> QED
        BY <1>3, <2>1, <2>2, <4>1 DEF NothingStale
    <3>5. y.data = latest[k] /\ disk'[k] = latest[k]
      BY <1>9, <1>10, <1>14, <3>2, <3>3, <3>4
    <3> QED
      BY <1>11, <1>12, <2>2, <3>1, <3>5
  <2>3. CASE j # k
    <3>1. disk'[j] = disk[j]
      BY <1>14, <2>3
    <3>2. \A c \in Buf : buf'[c].blk = j \/ buf[c].blk = j => buf'[c] = buf[c]
      BY <1>0, <1>11, <1>12, <2>3
    <3> QED
      BY <1>3, <2>1, <3>1, <3>2 DEF NothingStale
  <2> QED
    BY <2>2, <2>3
<1> QED
  BY <1>17, <1>19, <1>21, <1>22, <1>23, <1>24, <1>25 DEF BInv

\* bget() finds the block in a buffer, or takes one that nobody uses for it; what that
\* had is on the disk.
LEMMA BreadStep ==
    ASSUME Params, BInv, NEW p \in Proc, bread(p)
    PROVE  BInv'
<1>1. PICK k \in Block : bget(p, k) /\ \A b \in has[p] : buf[b].blk < k
  BY DEF bread
<1>2. /\ bp[p].at = "idle" /\ mru' = mru /\ idequeue' = idequeue /\ disk' = disk /\ has' = has
      /\ latest' = latest /\ failed' = failed
  BY DEF bread
<1>3. BufType /\ Holds(p) /\ Locked /\ QueueOK /\ OneEach /\ Counted /\ DirtyValid /\ NothingStale
  BY DEF BInv
<1>4. k # None /\ k \in Nat /\ bp[p].b = None /\ has[p] \subseteq Buf
  BY <1>2, <1>3, BufFacts DEF Params, Holds, BufType
<1> DEFINE cached == {b \in Buf : buf[b].blk = k}
           unused == {i \in Buf : Unused(mru[i])}
<1>5. CASE cached = {} /\ unused = {}
  <2>1. buf' = buf /\ bp' = bp
    BY <1>1, <1>5 DEF bget
  <2>2. \A b : (ToDo(b)' <=> ToDo(b)) /\ (Queued(b)' <=> Queued(b)) /\ (Awaited(b)' <=> Awaited(b))
               /\ Users(b)' = Users(b)
    BY <1>2, <2>1 DEF ToDo, Queued, Awaited, Users
  <2>3. BufType' /\ Locked' /\ DirtyValid' /\ NothingStale' /\ OneEach' /\ Counted' /\ QueueOK'
    BY <1>2, <1>3, <2>1, <2>2 DEF BufType, Locked, DirtyValid, NothingStale, OneEach, Counted, QueueOK
  <2>4. ASSUME NEW q \in Proc PROVE Holds(q)' /\ Waits(q)' /\ LockAwaited(q)'
    <3>1. Holds(q) /\ Waits(q) /\ LockAwaited(q)
      BY DEF BInv
    <3>2. Holds(q)'
      BY <1>2, <2>1, <3>1 DEF Holds
    <3>3. Waits(q)'
      BY <1>2, <2>1, <3>1 DEF Waits, ToDo, Queued
    <3>4. LockAwaited(q)'
      BY <1>2, <2>1, <3>1 DEF LockAwaited
    <3> QED
      BY <3>2, <3>3, <3>4
  <2> QED
    BY <2>3, <2>4 DEF BInv
<1>6. CASE ~(cached = {} /\ unused = {})
  <2>1. PICK b, y :
          /\ b = (IF cached # {} THEN Min(cached) ELSE mru[Max(unused)])
          /\ y = (IF cached # {} THEN [buf[b] EXCEPT !.refcnt = @ + 1] ELSE Recycled(buf[b], k))
    OBVIOUS
  <2>2. /\ buf' = [buf EXCEPT ![b] = y]
        /\ bp' = [bp EXCEPT ![p] = [at |-> "lock", b |-> b]]
    BY <1>1, <1>6, <2>1 DEF bget
  <2>3. b \in Buf /\ (cached # {} => buf[b].blk = k) /\ (cached = {} => buf[b].refcnt = 0 /\ ~buf[b].dirty)
    <3>1. CASE cached # {}
      <4>1. cached \in SUBSET Nat
        BY BufFacts
      <4>2. b \in cached
        BY <2>1, <3>1, <4>1, Least
      <4> QED
        BY <3>1, <4>2
    <3>2. CASE cached = {}
      <4>1. unused \in SUBSET Buf /\ unused # {}
        BY <1>6, <3>2
      <4> HIDE DEF unused
      <4>2. Max(unused) \in unused
        BY <4>1, Greatest
      <4>3. b = mru[Max(unused)] /\ Unused(b)
        BY <2>1, <3>2, <4>2 DEF unused
      <4> QED
        BY <1>3, <3>2, <4>1, <4>2, <4>3 DEF Unused, BufType, Listed
    <3> QED
      BY <3>1, <3>2
  <2>4. buf[b] \in Bufs /\ buf[b].refcnt \in Nat
    BY <1>3, <2>3 DEF BufType, Bufs
  <2>5. /\ y \in Bufs /\ y.blk = k /\ y.pid = buf[b].pid /\ y.data = buf[b].data
        /\ y.refcnt = buf[b].refcnt + 1
        /\ cached # {} => y.valid = buf[b].valid /\ y.dirty = buf[b].dirty
        /\ cached = {} => ~y.valid /\ ~y.dirty
    <3>1. CASE cached # {}
      <4>1. y = [buf[b] EXCEPT !.refcnt = buf[b].refcnt + 1]
        BY <2>1, <3>1
      <4> QED
        BY <2>3, <2>4, <3>1, <4>1, SetCount
    <3>2. CASE cached = {}
      <4>1. y = Recycled(buf[b], k)
        BY <2>1, <3>2
      <4> QED
        BY <2>3, <2>4, <3>2, <4>1, RecycledFields
    <3> QED
      BY <3>1, <3>2
  <2> DEFINE new == cached = {}
  <2>6. (new => \A c \in Buf : buf[c].blk # k) /\ (~new => buf[b].blk = k)
    BY <2>3
  <2>7. (~new => y.valid = buf[b].valid /\ y.dirty = buf[b].dirty) /\ (new => ~y.valid /\ ~y.dirty)
    BY <2>5
  <2>8. new => buf[b].refcnt = 0 /\ ~buf[b].dirty
    BY <2>3
  <2> HIDE DEF new, cached, unused
  <2>9. /\ buf' \in [Buf -> Bufs] /\ buf'[b] = y /\ \A c \in Buf : c # b => buf'[c] = buf[c]
    BY <1>3, <2>2, <2>3, <2>5, SetBuf
  <2>10. /\ bp' \in [Proc -> [at : Places, b : Buf \cup {None}]]
         /\ bp'[p].at = "lock" /\ bp'[p].b = b
         /\ \A q \in Proc : q # p => bp'[q] = bp[q]
    <3>1. [at |-> "lock", b |-> b] \in [at : Places, b : Buf \cup {None}]
      BY <2>3 DEF Places
    <3>2. bp' \in [Proc -> [at : Places, b : Buf \cup {None}]] /\ bp'[p] = [at |-> "lock", b |-> b]
          /\ \A q \in Proc : q # p => bp'[q] = bp[q]
      BY <1>3, <2>2, <3>1, SetPlace
    <3> QED
      BY <3>2, PlaceFields
  <2>11. BufType'
    BY <1>2, <1>3, <2>9, <2>10 DEF BufType
  <2>12. new => Users(b) = {}
    BY <1>3, <2>3, <2>8, UsersFinite DEF Counted
  <2>13. b \notin has[p] /\ p \notin Users(b)
    <3>1. new => b \notin has[p]
      BY <2>12 DEF Users
    <3>2. ~new => b \notin has[p]
      BY <1>1, <1>4, <2>6
    <3>3. bp[p].b # b
      BY <1>4, <2>3, BufFacts
    <3> QED
      BY <3>1, <3>2, <3>3 DEF Users
  <2>14. Users(b)' = Users(b) \cup {p} /\ \A c \in Buf : c # b => Users(c)' = Users(c)
    <3>1. ASSUME NEW q \in Proc, NEW c \in Buf
          PROVE  q \in Users(c)' <=> q \in Users(c) \/ (q = p /\ c = b)
      <4>1. CASE q # p
        BY <1>2, <2>10, <4>1 DEF Users
      <4>2. CASE q = p
        BY <1>2, <1>4, <2>10, <4>2, BufFacts DEF Users
      <4> QED
        BY <4>1, <4>2
    <3>2. \A c \in Buf : Users(c) \subseteq Proc /\ Users(c)' \subseteq Proc
      BY DEF Users
    <3>3. Users(b)' = Users(b) \cup {p}
      BY <2>3, <3>1, <3>2
    <3>4. ASSUME NEW c \in Buf, c # b PROVE Users(c)' = Users(c)
      BY <3>1, <3>2, <3>4
    <3> QED
      BY <3>3, <3>4
  <2>15. Counted'
    <3>1. Cardinality(Users(b) \cup {p}) = Cardinality(Users(b)) + 1
      BY <2>3, <2>13, UsersFinite, FS_AddElement
    <3> QED
      BY <1>3, <2>3, <2>5, <2>9, <2>14, <3>1 DEF Counted
  <2>16. OneEach'
    <3>1. \A c \in Buf : c # b => buf[c].blk # k
      BY <1>3, <1>4, <2>3, <2>6 DEF OneEach
    <3>2. ASSUME NEW c \in Buf, NEW e \in Buf, c # e, buf'[c].blk # None PROVE buf'[c].blk # buf'[e].blk
      <4>1. CASE c = b
        BY <2>5, <2>9, <3>1, <3>2, <4>1
      <4>2. CASE e = b
        BY <2>5, <2>9, <3>1, <3>2, <4>2
      <4>3. CASE c # b /\ e # b
        BY <1>3, <2>9, <3>2, <4>3 DEF OneEach
      <4> QED
        BY <4>1, <4>2, <4>3
    <3>3. ASSUME NEW c \in Buf, Users(c)' # {} \/ buf'[c].valid PROVE buf'[c].blk # None
      <4>1. CASE c = b
        BY <1>4, <2>5, <2>9, <4>1
      <4>2. CASE c # b
        BY <1>3, <2>9, <2>14, <3>3, <4>2 DEF OneEach
      <4> QED
        BY <4>1, <4>2
    <3> QED
      BY <3>2, <3>3 DEF OneEach
  <2>17. new => ~Queued(b) /\ buf[b].pid = None
    <3>1. new => ~Awaited(b)
      BY <2>12 DEF Awaited, Users
    <3>2. new => buf[b].pid = None
      <4> SUFFICES ASSUME new, buf[b].pid # None PROVE FALSE
        OBVIOUS
      <4>1. PICK q : q = buf[b].pid
        OBVIOUS
      <4>2. q \in Proc /\ (b \in has[q] \/ (bp[q].b = b /\ bp[q].at \in Io))
        BY <1>3, <2>3, <4>1 DEF Locked, BufType, Bufs
      <4> QED
        BY <2>12, <4>2 DEF Users
    <3> QED
      BY <1>3, <2>3, <3>1, <3>2 DEF QueueOK
  <2>18. \A c \in Buf : buf'[c].pid = buf[c].pid /\ (Queued(c)' <=> Queued(c))
    BY <1>2, <2>5, <2>9 DEF Queued
  <2>19. /\ \A c \in Buf : c # b \/ ~new => (ToDo(c)' <=> ToDo(c)) /\ (buf'[c].valid <=> buf[c].valid)
                                           /\ (buf'[c].dirty <=> buf[c].dirty)
         /\ ~new => buf'[b].blk = buf[b].blk
    BY <2>5, <2>6, <2>7, <2>9 DEF ToDo
  <2>20. ASSUME NEW q \in Proc PROVE Holds(q)' /\ Waits(q)' /\ LockAwaited(q)'
    <3>1. Holds(q) /\ Waits(q) /\ LockAwaited(q) /\ bp[q].b \in Buf \cup {None} /\ has[q] \subseteq Buf
      BY <1>3 DEF BInv, BufType
    <3>2. bp[q].at # "idle" => bp[q].b \in Buf
      BY <3>1 DEF Holds
    <3>3. new => bp[q].b # b /\ b \notin has[q]
      BY <2>12 DEF Users
    <3>4. \A c \in has'[q] : buf'[c].pid = q /\ buf'[c].valid
      <4> TAKE c \in has'[q]
      <4>1. c \in Buf /\ c \in has[q] /\ buf[c].pid = q /\ buf[c].valid
        BY <1>2, <3>1 DEF Holds
      <4> QED
        BY <2>18, <2>19, <3>3, <4>1
    <3>5. CASE q # p
      <4>1. bp'[q] = bp[q] /\ has'[q] = has[q]
        BY <1>2, <2>10, <3>5
      <4>2. Holds(q)'
        BY <2>18, <3>1, <3>2, <3>4, <4>1 DEF Holds, Io
      <4>3. Waits(q)'
        <5>1. PICK c : c = bp[q].b
          OBVIOUS
        <5>2. bp'[q].b = c
          BY <4>1, <5>1
        <5>3. bp[q].at # "idle" => (ToDo(c)' <=> ToDo(c)) /\ (Queued(c)' <=> Queued(c))
          BY <2>18, <2>19, <3>2, <3>3, <5>1
        <5> QED
          BY <3>1, <4>1, <5>1, <5>2, <5>3 DEF Waits
      <4>4. LockAwaited(q)'
        BY <2>18, <3>1, <3>2, <4>1 DEF LockAwaited
      <4> QED
        BY <4>2, <4>3, <4>4
    <3>6. CASE q = p
      <4>1. Holds(p)'
        BY <1>2, <2>3, <2>10, <2>13, <3>4, <3>6, BufFacts DEF Holds, Io
      <4>2. Waits(p)' /\ LockAwaited(p)'
        BY <2>10 DEF Waits, LockAwaited
      <4> QED
        BY <3>6, <4>1, <4>2
    <3> QED
      BY <3>5, <3>6
  <2>21. Locked'
    <3> SUFFICES ASSUME NEW c \in Buf, buf[c].pid # None, NEW q, q = buf[c].pid
                 PROVE  c \in has'[q] \/ (bp'[q].b = c /\ bp'[q].at \in Io)
      BY <2>18 DEF Locked
    <3>1. q \in Proc /\ (c \in has[q] \/ (bp[q].b = c /\ bp[q].at \in Io))
      BY <1>3 DEF Locked, BufType, Bufs
    <3> QED
      BY <1>2, <2>10, <3>1 DEF Io
  <2>22. QueueOK'
    <3>1. \A c \in Buf : Awaited(c) => Awaited(c)'
      BY <1>2, <2>10 DEF Awaited
    <3> QED
      BY <1>2, <1>3, <2>17, <2>18, <2>19, <3>1 DEF QueueOK
  <2>23. DirtyValid'
    BY <1>3, <2>7, <2>9, <2>19 DEF DirtyValid
  <2>24. NothingStale'
    <3> SUFFICES ASSUME NEW j \in Block \ failed
                 PROVE  /\ \A c \in Buf : buf'[c].blk = j /\ buf'[c].valid =>
                              buf'[c].data = latest[j] /\ (~buf'[c].dirty => disk[j] = latest[j])
                        /\ (\A c \in Buf : ~(buf'[c].blk = j /\ buf'[c].valid)) => disk[j] = latest[j]
      BY <1>2 DEF NothingStale
    <3>1. /\ \A c \in Buf : buf[c].blk = j /\ buf[c].valid =>
                buf[c].data = latest[j] /\ (~buf[c].dirty => disk[j] = latest[j])
          /\ (\A c \in Buf : ~(buf[c].blk = j /\ buf[c].valid)) => disk[j] = latest[j]
      BY <1>3 DEF NothingStale
    <3>2. \A c \in Buf : c # b => buf'[c] = buf[c]
      BY <2>9
    <3>3. CASE ~new
      <4>1. \A c \in Buf : /\ buf'[c].blk = buf[c].blk /\ (buf'[c].valid <=> buf[c].valid)
                           /\ (buf'[c].dirty <=> buf[c].dirty) /\ buf'[c].data = buf[c].data
        BY <2>5, <2>9, <2>19, <3>3
      <4> QED
        BY <3>1, <4>1
    <3>4. CASE new
      <4>1. ~buf'[b].valid /\ ~buf[b].dirty
        BY <2>7, <2>8, <2>9, <3>4
      <4>2. CASE \E c \in Buf : buf[c].blk = j /\ buf[c].valid
        <5>1. PICK c \in Buf : buf[c].blk = j /\ buf[c].valid
          BY <4>2
        <5>2. CASE c = b
          BY <2>3, <3>1, <3>2, <4>1, <5>1, <5>2
        <5>3. CASE c # b
          BY <3>1, <3>2, <4>1, <5>1, <5>3
        <5> QED
          BY <5>2, <5>3
      <4>3. CASE \A c \in Buf : ~(buf[c].blk = j /\ buf[c].valid)
        BY <3>1, <3>2, <4>1, <4>3
      <4> QED
        BY <4>2, <4>3
    <3> QED
      BY <3>3, <3>4
  <2> QED
    BY <2>11, <2>15, <2>16, <2>20, <2>21, <2>22, <2>23, <2>24 DEF BInv
<1> QED
  BY <1>5, <1>6

-------------------------------------------------------------------------------
(* The theorems *)

LEMMA InitInv ==
    ASSUME Params, Init
    PROVE  BInv
<1>1. /\ buf = [b \in Buf |-> [blk |-> None, valid |-> FALSE, dirty |-> FALSE, refcnt |-> 0, pid |-> None, data |-> 0]]
      /\ mru = [i \in 1 .. NBUF |-> NBUF + 1 - i] /\ idequeue = <<>>
      /\ disk = [k \in Block |-> 0] /\ latest = disk /\ failed = {}
      /\ bp = [p \in Proc |-> Idle] /\ has = [p \in Proc |-> {}]
  BY DEF Init
<1>2. \A b \in Buf : /\ buf[b] \in Bufs /\ buf[b].blk = None /\ ~buf[b].valid /\ ~buf[b].dirty
                     /\ buf[b].refcnt = 0 /\ buf[b].pid = None
  BY <1>1 DEF Params, Bufs
<1>3. \A p \in Proc : bp[p] = Idle /\ bp[p].at = "idle" /\ bp[p].b = None /\ has[p] = {}
  BY <1>1, IdleFacts
<1>4. Listed(mru)
  <2>1. NBUF \in Nat /\ Buf = 1 .. NBUF
    BY DEF Params, Buf
  <2>2. /\ mru \in [Buf -> Buf]
        /\ \A i \in Buf : mru[i] = NBUF + 1 - i
    BY <1>1, <2>1
  <2>3. \A b \in Buf : NBUF + 1 - b \in Buf /\ mru[NBUF + 1 - b] = b
    BY <2>1, <2>2
  <2>4. IsInjective(mru)
    BY <2>1, <2>2 DEF IsInjective
  <2> QED
    BY <2>2, <2>3, <2>4 DEF Listed
<1>5. BufType
  <2>1. bp \in [Proc -> [at : Places, b : Buf \cup {None}]]
    BY <1>1, IdleFacts
  <2>2. buf \in [Buf -> Bufs]
    BY <1>1, <1>2
  <2>3. idequeue \in Seq(Buf)
    BY <1>1
  <2>4. disk \in [Block -> Val] /\ latest \in [Block -> Val] /\ failed \subseteq Block
    BY <1>1 DEF Params
  <2>5. has \in [Proc -> SUBSET Buf]
    BY <1>1
  <2> QED
    BY <1>4, <2>1, <2>2, <2>3, <2>4, <2>5 DEF BufType
<1>6. \A b \in Buf : Users(b) = {}
  BY <1>3, BufFacts DEF Users
<1>7. Counted /\ OneEach
  BY <1>2, <1>6, FS_EmptySet DEF Counted, OneEach
<1>8. Locked /\ DirtyValid
  BY <1>2 DEF Locked, DirtyValid
<1>9. \A p \in Proc : Holds(p) /\ Waits(p) /\ LockAwaited(p)
  BY <1>3 DEF Holds, Waits, LockAwaited, Io
<1>10. QueueOK
  BY <1>1 DEF QueueOK, Queued
<1>11. NothingStale
  BY <1>1, <1>2 DEF NothingStale
<1> QED
  BY <1>5, <1>7, <1>8, <1>9, <1>10, <1>11 DEF BInv

LEMMA NextInv ==
    ASSUME Params, BInv, [Next]_bufVars
    PROVE  BInv'
<1>1. CASE UNCHANGED bufVars
  <2>1. /\ buf' = buf /\ mru' = mru /\ idequeue' = idequeue /\ disk' = disk /\ bp' = bp
        /\ has' = has /\ latest' = latest /\ failed' = failed
    BY <1>1 DEF bufVars
  <2>2. BufType' /\ Counted' /\ OneEach' /\ Locked'
    BY <2>1 DEF BInv, BufType, Counted, OneEach, Users, Locked
  <2>3. ASSUME NEW p \in Proc PROVE Holds(p)' /\ Waits(p)' /\ LockAwaited(p)'
    <3>1. Holds(p) /\ Waits(p) /\ LockAwaited(p)
      BY DEF BInv
    <3>2. Holds(p)'
      BY <2>1, <3>1 DEF Holds
    <3>3. Waits(p)'
      BY <2>1, <3>1 DEF Waits, ToDo, Queued
    <3>4. LockAwaited(p)'
      BY <2>1, <3>1 DEF LockAwaited
    <3> QED
      BY <3>2, <3>3, <3>4
  <2>4. QueueOK'
    BY <2>1 DEF BInv, QueueOK, Queued, Awaited, ToDo
  <2>5. DirtyValid'
    BY <2>1 DEF BInv, DirtyValid
  <2>6. NothingStale'
    BY <2>1 DEF BInv, NothingStale
  <2> QED
    BY <2>2, <2>3, <2>4, <2>5, <2>6 DEF BInv
<1>2. CASE Next
  <2>1. CASE ideintr
    BY <2>1, IdeintrStep
  <2>2. ASSUME NEW p \in Proc, bread(p) PROVE BInv'
    BY <2>2, BreadStep
  <2>3. ASSUME NEW p \in Proc, acquiresleep(p) PROVE BInv'
    BY <2>3, AcquiresleepStep
  <2>4. ASSUME NEW p \in Proc, Change(p) PROVE BInv'
    BY <2>4, ChangeStep
  <2>5. ASSUME NEW p \in Proc, bwrite(p) PROVE BInv'
    BY <2>5, BwriteStep
  <2>6. ASSUME NEW p \in Proc, releasesleep(p) PROVE BInv'
    BY <2>6, ReleasesleepStep
  <2>7. ASSUME NEW p \in Proc, brelse(p) PROVE BInv'
    BY <2>7, BrelseStep
  <2>8. ASSUME NEW p \in Proc, iderw(p) PROVE BInv'
    BY <2>8, IderwStep
  <2>9. ASSUME NEW p \in Proc, iderwWait(p) PROVE BInv'
    BY <2>9, IderwWaitStep
  <2>10. ASSUME NEW p \in Proc, kill(p) PROVE BInv'
    BY <2>10, KillStep
  <2> QED
    BY <1>2, <2>1, <2>2, <2>3, <2>4, <2>5, <2>6, <2>7, <2>8, <2>9, <2>10 DEF Next
<1> QED
  BY <1>1, <1>2

\* The inductive invariant of the buffer cache, for any number of processes, buffers and blocks: who
\* uses a buffer, who has its lock, what is in the queue of the disk and what a valid buffer has.
THEOREM InvariantHolds ==
    ASSUME Params PROVE Spec => []BInv
<1>1. Init => BInv
  BY InitInv
<1>2. BInv /\ [Next]_bufVars => BInv'
  BY NextInv
<1> QED
  BY <1>1, <1>2, PTL DEF Spec

\* The types of bio.c's and ide.c's state; refcnt is never more than the number of processes.
THEOREM TypeCorrect ==
    ASSUME Params PROVE Spec => []TypeOK
<1>1. BInv => TypeOK
  <2> SUFFICES ASSUME BInv PROVE TypeOK
    OBVIOUS
  <2>1. BufType /\ Counted
    BY DEF BInv
  <2>2. ASSUME NEW b \in Buf PROVE buf[b].refcnt \in 0 .. Cardinality(Proc)
    <3>1. Users(b) \subseteq Proc
      BY DEF Users
    <3>2. /\ Cardinality(Users(b)) \in Nat /\ Cardinality(Proc) \in Nat
          /\ Cardinality(Users(b)) <= Cardinality(Proc)
      BY <3>1, UsersFinite, FS_Subset, FS_CardinalityType DEF Params
    <3> QED
      BY <2>1, <3>2 DEF Counted
  <2>3. ASSUME NEW b \in Buf
        PROVE  buf[b] \in [blk : Block \cup {None}, valid : BOOLEAN, dirty : BOOLEAN,
                           refcnt : 0 .. Cardinality(Proc), pid : Proc \cup {None}, data : Val]
    <3>1. buf[b] \in Bufs
      BY <2>1 DEF BufType
    <3> QED
      BY <2>2, <3>1 DEF Bufs
  <2>4. \A p \in Proc : has[p] \subseteq Buf /\ bp[p].b \in Buf \cup {None}
    BY <2>1 DEF BufType
  <2> QED
    BY <2>1, <2>3, <2>4 DEF TypeOK, BufType
<1> QED
  BY <1>1, InvariantHolds, PTL

\* A block is in one buffer, the count of a buffer is that of its users, one process at most has it,
\* and the list has each buffer once.
THEOREM OneBufferHolds ==
    ASSUME Params PROVE Spec => []OneBuffer
<1>1. BInv => OneBuffer
  <2> SUFFICES ASSUME BInv PROVE OneBuffer
    OBVIOUS
  <2>1. BufType /\ Counted /\ OneEach /\ \A p \in Proc : Holds(p)
    BY DEF BInv
  <2>2. ASSUME NEW b \in Buf PROVE Cardinality({p \in Proc : b \in has[p]}) <= 1
    <3>1. PICK q : q = buf[b].pid
      OBVIOUS
    <3>2. {p \in Proc : b \in has[p]} \subseteq {q}
      BY <2>1, <3>1 DEF Holds
    <3>3. IsFiniteSet({q}) /\ Cardinality({q}) = 1
      BY FS_Singleton
    <3> QED
      BY <3>2, <3>3, FS_Subset
  <2>3. \A b \in Buf : buf[b].refcnt = Cardinality({p \in Proc : b \in has[p] \cup {bp[p].b}})
    BY <2>1 DEF Counted, Users
  <2>4. \A b \in Buf, p \in Proc : b \in has[p] => buf[b].pid = p /\ buf[b].valid
    BY <2>1 DEF Holds
  <2>5. mru \in [Buf -> Buf] /\ IsInjective(mru)
    BY <2>1 DEF BufType, Listed
  <2> QED
    BY <2>1, <2>2, <2>3, <2>4, <2>5 DEF OneBuffer, OneEach
<1> QED
  BY <1>1, InvariantHolds, PTL

\* What was last put into a block is in its valid buffer, or else on the disk, whichever buffers are
\* recycled and in whatever order requests are done, unless the disk could not read the block.
THEOREM NothingStaleHolds ==
    ASSUME Params PROVE Spec => []NothingStale
<1>1. BInv => NothingStale
  BY DEF BInv
<1> QED
  BY <1>1, InvariantHolds, PTL

\* bio.c over ide.c: a block is in one buffer, which one process has at a time, and who reads a
\* block gets what was last put into it.
THEOREM BlocksCachedHolds ==
    ASSUME Params PROVE Spec => []BlocksCached
<1>1. OneBuffer /\ NothingStale => BlocksCached
  BY DEF BlocksCached
<1> QED
  BY <1>1, OneBufferHolds, NothingStaleHolds, PTL

\* Nobody sleeps for a lock that is free or his own, and who sleeps for the disk has his buffer in
\* the queue, once.
THEOREM BufferSleepHolds ==
    ASSUME Params PROVE Spec => []BufferSleep
<1>1. BInv => BufferSleep
  <2> SUFFICES ASSUME BInv PROVE BufferSleep
    OBVIOUS
  <2>1. QueueOK /\ \A p \in Proc : Holds(p) /\ Waits(p) /\ LockAwaited(p)
    BY DEF BInv
  <2>2. IsInjective(idequeue)
    BY <2>1 DEF QueueOK, IsInjective
  <2>3. ASSUME NEW p \in Proc, bp[p].at = "disk sleep"
        PROVE  buf[bp[p].b].pid = p /\ bp[p].b \in Range(idequeue)
    BY <2>1, <2>3 DEF Holds, Waits, Io, Queued, Range
  <2> QED
    BY <2>1, <2>2, <2>3 DEF BufferSleep, LockAwaited
<1> QED
  BY <1>1, InvariantHolds, PTL

-------------------------------------------------------------------------------
(* Blocks and the contents of files: the inductive invariant *)

CONSTANTS Inode, File, IpOf, BSIZE, NDIRECT, NBlocks, MAXOPBLOCKS, Byte, Data, ReadSize, MaxCalls

VARIABLES free, blk, addrs, size, lock, off, at, dirty, got, calls, panic

Bl == INSTANCE Blocks

\* A transaction has room for a block of a file beside those that every write() needs.
BlockSizes ==
    /\ BSIZE \in Nat \ {0} /\ NDIRECT \in Nat /\ NBlocks \in Nat
    /\ MAXOPBLOCKS \in Nat /\ MAXOPBLOCKS >= 6
    /\ 0 \notin Proc /\ 0 \notin File /\ IpOf \in [File -> Inode]
    /\ Data \subseteq Seq(Byte) /\ ReadSize \subseteq Nat \ {0}

\* The positions of an inode: those of addrs[], then those of the indirect block.
Pos == 0 .. NDIRECT + BSIZE

\* What is named at position n, if the indirect block counts but for the entries gone.
Place(a, bl, gone, n) ==
    IF n <= NDIRECT THEN a[n]
    ELSE IF a[NDIRECT] # 0 /\ n - NDIRECT - 1 \notin gone THEN bl[a[NDIRECT]][n - NDIRECT - 1] ELSE 0

Named(i, n) == Place(addrs[i], blk, Bl!Passed(i), n)

\* The position of block bn of a file, and the bytes a file may have without position n.
PosOf(bn) == IF bn < NDIRECT THEN bn ELSE bn + 1

First(n) == IF n <= NDIRECT THEN BSIZE * n ELSE BSIZE * (n - 1)

\* A block holds bytes or, if it is an indirect block, numbers.
Cells == [0 .. BSIZE - 1 -> Byte \cup Nat]

WriteCalls == [at : {"idle", "piece", "copy", "trunc"}, fl : File \cup {0}, ip : Inode \cup {0},
               src : Seq(Byte), n1 : Nat, tot : Nat, old : Seq(Byte \cup Nat)]

BlockType ==
    /\ free \subseteq 1 .. NBlocks /\ panic \in BOOLEAN
    /\ blk \in [1 .. NBlocks -> Cells]
    /\ addrs \in [Inode -> [0 .. NDIRECT -> 0 .. NBlocks]]
    /\ size \in [Inode -> 0 .. BSIZE * (NDIRECT + BSIZE)] /\ off \in [File -> 0 .. BSIZE * (NDIRECT + BSIZE)]
    /\ lock \in [Inode -> Proc \cup {0}]
    /\ at \in [Proc -> WriteCalls]
    /\ dirty \in [Proc -> SUBSET Int] /\ \A p \in Proc : IsFiniteSet(dirty[p])

\* What is named is a block in use, in one place; and what is in use is named.
Owned ==
    /\ \A i \in Inode, n \in Pos : Named(i, n) \in 0 .. NBlocks /\ Named(i, n) \notin free
    /\ \A i, j \in Inode, n, m \in Pos : Named(i, n) # 0 /\ Named(i, n) = Named(j, m) => i = j /\ n = m
    /\ \A b \in 1 .. NBlocks : b \notin free => \E i \in Inode, n \in Pos : Named(i, n) = b

\* The calls that have an inode locked, and what they know of it.
Calling(p) ==
    LET c == at[p] IN
        /\ c.at \in {"copy", "trunc"} => c.ip \in Inode /\ lock[c.ip] = p
        /\ c.at \in {"piece", "copy"} => c.fl \in File /\ c.ip = IpOf[c.fl]
        /\ c.at = "copy" =>
            /\ c.n1 \in 1 .. Len(c.src) /\ c.n1 <= Bl!max /\ c.tot <= c.n1
            /\ off[c.fl] <= size[c.ip] /\ off[c.fl] + c.n1 <= BSIZE * (NDIRECT + BSIZE)
            /\ Len(c.old) = size[c.ip]
            /\ 0 < c.tot /\ c.tot < c.n1 => (off[c.fl] + c.tot) % BSIZE = 0
        /\ c.at = "trunc" => c.fl = 0 /\ c.old = <<>>

LockedBy(i) == lock[i] # 0 => at[lock[i]].ip = i /\ at[lock[i]].at \in {"copy", "trunc"}

\* The end of a file, which may be in the middle of a write.
EndOf(i) ==
    IF lock[i] = 0 THEN size[i]
    ELSE LET e == off[at[lock[i]].fl] + at[lock[i]].tot IN IF e > size[i] THEN e ELSE size[i]

Truncated(i) == lock[i] # 0 /\ at[lock[i]].at = "trunc"

\* A file has the blocks up to its end.
Covered(i) == ~Truncated(i) => \A n \in Pos : Named(i, n) # 0 <=> First(n) < EndOf(i)

\* A file that is being written has the bytes that it had, and those written so far.
Written(p) ==
    LET c == at[p]
        o == off[c.fl] IN
    c.at = "copy" => \A k \in 0 .. EndOf(c.ip) - 1 :
        Bl!ByteAt(c.ip, k) = IF k >= o /\ k < o + c.tot THEN c.src[k - o + 1] ELSE c.old[k + 1]

\* The blocks of a file that a transaction has written so far.
Touched(p) ==
    LET o == off[at[p].fl] IN
    IF at[p].tot = 0 THEN 0 ELSE (o + at[p].tot - 1) \div BSIZE - o \div BSIZE + 1

Reserved(p) ==
    /\ Cardinality(dirty[p]) <= MAXOPBLOCKS
    /\ at[p].at = "copy" => Cardinality(dirty[p] \ {0, addrs[at[p].ip][NDIRECT]}) <= Touched(p)
    /\ at[p].at = "trunc" => dirty[p] \subseteq {0, -1}

FileInv ==
    /\ BlockType /\ Owned
    /\ \A p \in Proc : Calling(p) /\ Written(p) /\ Reserved(p)
    /\ \A i \in Inode : LockedBy(i) /\ Covered(i)

-------------------------------------------------------------------------------
(* Bytes, blocks and positions *)

\* Byte o is byte o % BSIZE of block o \div BSIZE.
LEMMA DivFacts ==
    ASSUME BlockSizes, NEW o \in Nat
    PROVE  /\ o \div BSIZE \in Nat /\ o % BSIZE \in 0 .. BSIZE - 1
           /\ o = BSIZE * (o \div BSIZE) + (o % BSIZE)
           /\ BSIZE * (o \div BSIZE) <= o /\ o < BSIZE * (o \div BSIZE) + BSIZE
<1>1. PICK B \in Nat \ {0} : B = BSIZE
  BY DEF BlockSizes
<1>2. o % B = o - B * (o \div B) /\ o \div B \in Int /\ o % B \in 0 .. B - 1
  OBVIOUS
<1> DEFINE q == o \div B
           r == o % B
<1>3. q \in Int /\ r \in 0 .. B - 1 /\ r = o - B * q
  BY <1>2
<1> HIDE DEF q, r
<1>4. o = B * q + r
  BY <1>3
<1>5. q \in Nat
  <2> SUFFICES ASSUME q <= -1 PROVE FALSE
    BY <1>3
  <2>1. B * q <= -B
    BY <1>3
  <2> QED
    BY <1>3, <1>4, <2>1
<1>6. B * q <= o /\ o < B * q + B
  BY <1>3, <1>4
<1> QED
  BY <1>1, <1>3, <1>4, <1>5, <1>6 DEF q, r

\* Nothing else is.
LEMMA DivUnique ==
    ASSUME BlockSizes, NEW q \in Nat, NEW r \in 0 .. BSIZE - 1
    PROVE  (BSIZE * q + r) \div BSIZE = q /\ (BSIZE * q + r) % BSIZE = r
<1>1. PICK B \in Nat \ {0} : B = BSIZE
  BY DEF BlockSizes
<1>2. PICK o \in Nat : o = B * q + r
  BY <1>1
<1>3. o \div B = q
  BY <1>1, <1>2
<1>4. o % B = r
  BY <1>1, <1>2
<1> QED
  BY <1>1, <1>2, <1>3, <1>4

\* A block that comes later begins where an earlier one has ended.
LEMMA BlocksInOrder ==
    ASSUME BlockSizes
    PROVE  /\ \A q, s \in Nat : q < s => BSIZE * q + BSIZE <= BSIZE * s
           /\ \A q, s \in Nat : q <= s <=> BSIZE * q <= BSIZE * s
           /\ \A q \in Nat : BSIZE * q \in Nat /\ BSIZE * (q + 1) = BSIZE * q + BSIZE
           /\ BSIZE * 0 = 0
<1>1. PICK B \in Nat \ {0} : B = BSIZE
  BY DEF BlockSizes
<1>2. ASSUME NEW q \in Nat, NEW s \in Nat, q < s PROVE B * q + B <= B * s
  <2>1. PICK d \in Nat : s = q + 1 + d
    <3>1. s - q - 1 \in Nat /\ s = q + 1 + (s - q - 1)
      BY <1>2
    <3> QED
      BY <3>1
  <2>2. B * s = B * q + B + B * d
    BY <2>1
  <2>3. B * d \in Nat /\ B * q \in Nat
    OBVIOUS
  <2> QED
    BY <2>2, <2>3
<1>3. \A q \in Nat : B * q \in Nat /\ B * (q + 1) = B * q + B
  OBVIOUS
<1>4. \A q, s \in Nat : q <= s <=> B * q <= B * s
  <2> SUFFICES ASSUME NEW q \in Nat, NEW s \in Nat PROVE q <= s <=> B * q <= B * s
    OBVIOUS
  <2>1. CASE q < s
    BY <1>2, <1>3, <2>1
  <2>2. CASE q = s
    BY <1>3, <2>2
  <2>3. CASE s < q
    BY <1>2, <1>3, <2>3
  <2> QED
    BY <2>1, <2>2, <2>3
<1>5. B * 0 = 0
  OBVIOUS
<1> QED
  BY <1>1, <1>2, <1>3, <1>4, <1>5

LEMMA PosFacts ==
    ASSUME BlockSizes
    PROVE  /\ \A n \in Pos : n \in Nat /\ First(n) \in Nat
           /\ NDIRECT \in Pos /\ First(NDIRECT) = BSIZE * NDIRECT
           /\ \A k \in 0 .. NDIRECT + BSIZE - 1 :
                k \in Nat /\ PosOf(k) \in Pos /\ PosOf(k) # NDIRECT /\ First(PosOf(k)) = BSIZE * k
           /\ \A n \in Pos : n # NDIRECT => \E k \in 0 .. NDIRECT + BSIZE - 1 : n = PosOf(k)
           /\ \A n, m \in Pos : n <= m => First(n) <= First(m)
           /\ \A k, j \in 0 .. NDIRECT + BSIZE - 1 : PosOf(k) = PosOf(j) => k = j
<1>1. PICK B \in Nat \ {0}, D \in Nat : B = BSIZE /\ D = NDIRECT
  BY DEF BlockSizes
<1>2. \A k \in 0 .. D + B - 1 :
        k \in Nat /\ PosOf(k) \in Pos /\ PosOf(k) # D /\ First(PosOf(k)) = B * k
  <2> SUFFICES ASSUME NEW k \in 0 .. D + B - 1
               PROVE  k \in Nat /\ PosOf(k) \in Pos /\ PosOf(k) # D /\ First(PosOf(k)) = B * k
    OBVIOUS
  <2>1. CASE k < D
    BY <1>1, <2>1 DEF PosOf, Pos, First
  <2>2. CASE ~(k < D)
    <3>1. PosOf(k) = k + 1 /\ k + 1 > D /\ k + 1 - 1 = k
      BY <1>1, <2>2 DEF PosOf
    <3> QED
      BY <1>1, <3>1 DEF Pos, First
  <2> QED
    BY <2>1, <2>2
<1>3. \A n \in Pos : n # D => \E k \in 0 .. D + B - 1 : n = PosOf(k)
  <2> SUFFICES ASSUME NEW n \in Pos, n # D PROVE \E k \in 0 .. D + B - 1 : n = PosOf(k)
    OBVIOUS
  <2>1. CASE n < D
    BY <1>1, <2>1 DEF PosOf, Pos
  <2>2. CASE ~(n < D)
    <3>1. n - 1 \in 0 .. D + B - 1 /\ ~(n - 1 < D) /\ n - 1 + 1 = n
      BY <1>1, <2>2 DEF Pos
    <3> QED
      BY <1>1, <3>1 DEF PosOf
  <2> QED
    BY <2>1, <2>2
<1>4. D \in Pos /\ First(D) = B * D
  BY <1>1 DEF Pos, First
<1>5. \A n \in Pos : n \in Nat /\ First(n) \in Nat
  <2> SUFFICES ASSUME NEW n \in Pos PROVE n \in Nat /\ First(n) \in Nat
    OBVIOUS
  <2>1. n \in Nat
    BY <1>1 DEF Pos
  <2>2. CASE n <= D
    <3>1. B * n \in Nat
      BY <2>1
    <3> QED
      BY <1>1, <2>1, <2>2, <3>1 DEF First
  <2>3. CASE ~(n <= D)
    <3>1. n - 1 \in Nat
      BY <2>1, <2>3
    <3>2. B * (n - 1) \in Nat
      BY <3>1
    <3> QED
      BY <1>1, <2>1, <2>3, <3>2 DEF First
  <2> QED
    BY <2>2, <2>3
<1>6. \A n, m \in Pos : n <= m => First(n) <= First(m)
  <2> SUFFICES ASSUME NEW n \in Pos, NEW m \in Pos, n <= m PROVE First(n) <= First(m)
    OBVIOUS
  <2>1. PICK s \in Nat : s = IF n <= D THEN n ELSE n - 1
    BY <1>1, <1>5 DEF Pos
  <2>2. PICK t \in Nat : t = IF m <= D THEN m ELSE m - 1
    BY <1>1, <1>5 DEF Pos
  <2>3. s <= t
    BY <1>1, <1>5, <2>1, <2>2
  <2>4. First(n) = BSIZE * s /\ First(m) = BSIZE * t
    BY <1>1, <2>1, <2>2 DEF First
  <2> QED
    BY <2>3, <2>4, BlocksInOrder
<1>7. \A k, j \in 0 .. D + B - 1 : PosOf(k) = PosOf(j) => k = j
  BY <1>1 DEF PosOf
<1> QED
  BY <1>1, <1>2, <1>3, <1>4, <1>5, <1>6, <1>7

\* Where byte k of a file is.
LEMMA ByteFacts ==
    ASSUME BlockSizes, NEW k \in 0 .. BSIZE * (NDIRECT + BSIZE) - 1
    PROVE  /\ k \div BSIZE \in 0 .. NDIRECT + BSIZE - 1 /\ k % BSIZE \in 0 .. BSIZE - 1
           /\ First(PosOf(k \div BSIZE)) <= k
           /\ NDIRECT <= k \div BSIZE => First(NDIRECT) <= k
<1>1. PICK q \in Nat : q = k \div BSIZE
  BY DivFacts
<1>2. k \in Nat /\ BSIZE * q <= k /\ k < BSIZE * q + BSIZE /\ k % BSIZE \in 0 .. BSIZE - 1
  BY <1>1, DivFacts
<1>3. BSIZE \in Nat /\ NDIRECT \in Nat /\ NDIRECT + BSIZE \in Nat
  BY DEF BlockSizes
<1>4. PICK M \in Nat : M = NDIRECT + BSIZE
  BY <1>3
<1>5. q < M
  <2> SUFFICES ASSUME M <= q PROVE FALSE
    BY <1>4
  <2>1. BSIZE * M <= BSIZE * q /\ BSIZE * M \in Nat /\ BSIZE * q \in Nat
    BY BlocksInOrder
  <2> QED
    BY <1>2, <1>4, <2>1
<1>6. q \in 0 .. NDIRECT + BSIZE - 1
  BY <1>3, <1>4, <1>5
<1>7. First(PosOf(q)) = BSIZE * q
  BY <1>6, PosFacts
<1>8. NDIRECT <= q => BSIZE * NDIRECT <= BSIZE * q /\ BSIZE * NDIRECT \in Nat /\ BSIZE * q \in Nat
  BY <1>3, BlocksInOrder
<1>9. First(NDIRECT) = BSIZE * NDIRECT
  BY PosFacts
<1> QED
  BY <1>1, <1>2, <1>6, <1>7, <1>8, <1>9

\* Bytes of one block, written at the end of a file or before it, make a file need
\* that block, and the indirect block if it is named there.
LEMMA NeededNow ==
    ASSUME BlockSizes, NEW o \in Nat, NEW m \in Nat \ {0}, m <= BSIZE - (o % BSIZE),
           o \div BSIZE < NDIRECT + BSIZE,
           NEW e \in Nat, o <= e, NEW n \in Pos
    PROVE  First(n) < (IF o + m > e THEN o + m ELSE e) <=>
               \/ First(n) < e
               \/ n = PosOf(o \div BSIZE)
               \/ n = NDIRECT /\ NDIRECT <= o \div BSIZE
<1>1. PICK q \in Nat, r \in 0 .. BSIZE - 1 : q = o \div BSIZE /\ r = o % BSIZE
  BY DivFacts
<1>2. PICK B \in Nat, D \in Nat, Q \in Nat : B = BSIZE /\ D = NDIRECT /\ Q = BSIZE * q
  BY BlocksInOrder DEF BlockSizes
<1>3. o = Q + r /\ m <= B - r /\ q \in 0 .. D + B - 1
  BY <1>1, <1>2, DivFacts
<1>4. First(PosOf(q)) = Q /\ PosOf(q) \in Pos
  BY <1>2, <1>3, PosFacts
<1>5. PICK f \in Nat : f = First(n)
  BY PosFacts
<1>6. D <= q => First(D) <= Q /\ First(D) \in Nat
  <2>1. First(D) = BSIZE * D /\ D \in Nat /\ q \in Nat
    BY <1>2, PosFacts
  <2> QED
    BY <1>2, <2>1, BlocksInOrder
<1>7. ASSUME f < o + m, ~(f < e)
      PROVE  n = PosOf(q) \/ (n = D /\ D <= q)
  <2>1. Q <= f /\ f < Q + B
    BY <1>2, <1>3, <1>7
  <2>2. PICK j \in Nat : f = BSIZE * j /\ (n = D => j = D) /\ (n # D => j \in 0 .. D + B - 1 /\ n = PosOf(j))
    <3>1. CASE n = D
      BY <1>2, <1>5, <3>1, PosFacts
    <3>2. CASE n # D
      BY <1>2, <1>5, <3>2, PosFacts
    <3> QED
      BY <3>1, <3>2
  <2>3. q <= j
    BY <1>2, <2>1, <2>2, BlocksInOrder
  <2>4. ~(q < j)
    BY <1>2, <2>1, <2>2, BlocksInOrder
  <2>5. q = j
    BY <2>3, <2>4
  <2> QED
    BY <2>2, <2>5
<1>8. n = PosOf(q) => f < o + m
  BY <1>3, <1>4, <1>5
<1>9. n = D /\ D <= q => f < o + m
  BY <1>3, <1>5, <1>6
<1>10. f < (IF o + m > e THEN o + m ELSE e) <=> f < o + m \/ f < e
  OBVIOUS
<1> QED
  BY <1>1, <1>2, <1>5, <1>7, <1>8, <1>9, <1>10

-------------------------------------------------------------------------------
(* Allocating and mapping *)

\* What balloc() and bmap() work on.
IsWork(s) == s = [free |-> s.free, blk |-> s.blk, a |-> s.a, dirty |-> s.dirty, b |-> s.b]

Zeros == [c \in 0 .. BSIZE - 1 |-> 0]

LEMMA LeastBlock ==
    ASSUME NEW S, S \subseteq Nat, S # {}
    PROVE  Bl!Min(S) \in S
<1>1. \E x \in S : \A y \in S : x <= y
  <2>1. PICK x \in S : \A y \in S : ~ (<<y, x>> \in OpToRel(<, Nat))
    BY NatLessThanWellFounded, WFMin
  <2>2. ASSUME NEW y \in S PROVE x <= y
    <3>1. x \in Nat /\ y \in Nat /\ <<y, x>> \in Nat \X Nat
      OBVIOUS
    <3>2. ~(y < x)
      BY <2>1, <3>1 DEF OpToRel
    <3> QED
      BY <3>1, <3>2
  <2> QED
    BY <2>2
<1> QED
  BY <1>1 DEF Bl!Min

LEMMA LeastOfAll ==
    ASSUME NEW S, S \subseteq Nat, S # {}
    PROVE  \A y \in S : Bl!Min(S) <= y
<1>1. \E x \in S : \A y \in S : x <= y
  <2>1. PICK x \in S : \A y \in S : ~ (<<y, x>> \in OpToRel(<, Nat))
    BY NatLessThanWellFounded, WFMin
  <2>2. ASSUME NEW y \in S PROVE x <= y
    <3>1. x \in Nat /\ y \in Nat /\ <<y, x>> \in Nat \X Nat
      OBVIOUS
    <3>2. ~(y < x)
      BY <2>1, <3>1 DEF OpToRel
    <3> QED
      BY <3>1, <3>2
  <2> QED
    BY <2>2
<1> QED
  BY <1>1 DEF Bl!Min

LEMMA Balloc ==
    ASSUME NEW s, IsWork(s), s.free \in SUBSET Nat, s.free # {}, NEW z, z = Bl!balloc(s)
    PROVE  \E x \in s.free :
              /\ IsWork(z) /\ z.free = s.free \ {x} /\ z.blk = [s.blk EXCEPT ![x] = Zeros] /\ z.a = s.a
              /\ z.dirty = s.dirty \cup {0, x} /\ z.b = x
<1>1. PICK x \in s.free : x = Bl!Min(s.free)
  BY LeastBlock
<1>2. PICK g, c, m : g = s.free \ {x} /\ c = [s.blk EXCEPT ![x] = Zeros] /\ m = s.dirty \cup {0, x}
  OBVIOUS
<1>3. Bl!balloc(s) = [s EXCEPT !.free = g, !.blk = c, !.dirty = m, !.b = x]
  BY <1>1, <1>2 DEF Bl!balloc, Bl!Zero, Bl!Bitmap, Zeros
<1>4. PICK fr, bl, a, d, b : fr = s.free /\ bl = s.blk /\ a = s.a /\ d = s.dirty /\ b = s.b
  OBVIOUS
<1>5. s = [free |-> fr, blk |-> bl, a |-> a, dirty |-> d, b |-> b]
  BY <1>4 DEF IsWork
<1>6. PICK s1 : s1 = [free |-> g, blk |-> bl, a |-> a, dirty |-> d, b |-> b]
  OBVIOUS
<1>7. PICK s2 : s2 = [free |-> g, blk |-> c, a |-> a, dirty |-> d, b |-> b]
  OBVIOUS
<1>8. PICK s3 : s3 = [free |-> g, blk |-> c, a |-> a, dirty |-> m, b |-> b]
  OBVIOUS
<1>9. PICK t : t = [free |-> g, blk |-> c, a |-> a, dirty |-> m, b |-> x]
  OBVIOUS
<1>10. s1 = [s EXCEPT !.free = g]
  BY <1>5, <1>6
<1>11. s2 = [s1 EXCEPT !.blk = c]
  BY <1>6, <1>7
<1>12. s3 = [s2 EXCEPT !.dirty = m]
  BY <1>7, <1>8
<1>13. t = [s3 EXCEPT !.b = x]
  BY <1>8, <1>9
<1>14. t = Bl!balloc(s)
  BY <1>3, <1>10, <1>11, <1>12, <1>13
<1>15. t.free = g /\ t.blk = c /\ t.a = a /\ t.dirty = m /\ t.b = x
  BY <1>9
<1>16. IsWork(t)
  BY <1>9, <1>15 DEF IsWork
<1>17. /\ IsWork(z) /\ z.free = s.free \ {x} /\ z.blk = [s.blk EXCEPT ![x] = Zeros] /\ z.a = s.a
       /\ z.dirty = s.dirty \cup {0, x} /\ z.b = x
  BY <1>2, <1>4, <1>14, <1>15, <1>16
<1> QED
  BY <1>17, Zenon

\* One of its fields is set.
LEMMA WorkB ==
    ASSUME NEW s, IsWork(s), NEW v, NEW t, t = [s EXCEPT !.b = v]
    PROVE  IsWork(t) /\ t.free = s.free /\ t.blk = s.blk /\ t.a = s.a /\ t.dirty = s.dirty /\ t.b = v
<1>1. PICK fr, bl, a, d, b : fr = s.free /\ bl = s.blk /\ a = s.a /\ d = s.dirty /\ b = s.b
  OBVIOUS
<1>2. s = [free |-> fr, blk |-> bl, a |-> a, dirty |-> d, b |-> b]
  BY <1>1 DEF IsWork
<1>3. t = [free |-> fr, blk |-> bl, a |-> a, dirty |-> d, b |-> v]
  BY <1>2
<1> QED
  BY <1>1, <1>3 DEF IsWork

LEMMA WorkA ==
    ASSUME NEW s, IsWork(s), NEW v, NEW t, t = [s EXCEPT !.a = v]
    PROVE  IsWork(t) /\ t.free = s.free /\ t.blk = s.blk /\ t.a = v /\ t.dirty = s.dirty /\ t.b = s.b
<1>1. PICK fr, bl, a, d, b : fr = s.free /\ bl = s.blk /\ a = s.a /\ d = s.dirty /\ b = s.b
  OBVIOUS
<1>2. s = [free |-> fr, blk |-> bl, a |-> a, dirty |-> d, b |-> b]
  BY <1>1 DEF IsWork
<1>3. t = [free |-> fr, blk |-> bl, a |-> v, dirty |-> d, b |-> b]
  BY <1>2
<1> QED
  BY <1>1, <1>3 DEF IsWork

LEMMA WorkBlk ==
    ASSUME NEW s, IsWork(s), NEW v, NEW w, NEW u, NEW t
    PROVE  u = [s EXCEPT !.blk = v] /\ t = [u EXCEPT !.dirty = w] =>
              IsWork(t) /\ t.free = s.free /\ t.blk = v /\ t.a = s.a /\ t.dirty = w /\ t.b = s.b
<1>1. PICK fr, bl, a, d, b : fr = s.free /\ bl = s.blk /\ a = s.a /\ d = s.dirty /\ b = s.b
  OBVIOUS
<1>2. s = [free |-> fr, blk |-> bl, a |-> a, dirty |-> d, b |-> b]
  BY <1>1 DEF IsWork
<1>3. PICK h : h = [free |-> fr, blk |-> v, a |-> a, dirty |-> d, b |-> b]
  OBVIOUS
<1>4. PICK g : g = [free |-> fr, blk |-> v, a |-> a, dirty |-> w, b |-> b]
  OBVIOUS
<1>5. g = [h EXCEPT !.dirty = w]
  BY <1>3, <1>4
<1>6. h = [s EXCEPT !.blk = v]
  BY <1>2, <1>3
<1>7. u = [s EXCEPT !.blk = v] /\ t = [u EXCEPT !.dirty = w] => t = g
  BY <1>5, <1>6, Zenon
<1>8. IsWork(g) /\ g.free = s.free /\ g.blk = v /\ g.a = s.a /\ g.dirty = w /\ g.b = s.b
  BY <1>1, <1>4 DEF IsWork
<1> QED
  BY <1>7, <1>8, Zenon

LEMMA BmapAddrOld ==
    ASSUME NEW s, IsWork(s), NEW k, s.a[k] # 0, NEW t, t = Bl!bmapAddr(s, k)
    PROVE  IsWork(t) /\ t.free = s.free /\ t.blk = s.blk /\ t.a = s.a /\ t.dirty = s.dirty /\ t.b = s.a[k]
<1>1. t = [s EXCEPT !.b = s.a[k]]
  BY DEF Bl!bmapAddr
<1>2. PICK v : v = s.a[k]
  OBVIOUS
<1>3. IsWork(t) /\ t.free = s.free /\ t.blk = s.blk /\ t.a = s.a /\ t.dirty = s.dirty /\ t.b = v
  BY <1>1, <1>2, WorkB
<1> QED
  BY <1>2, <1>3

CanAlloc(s) == IsWork(s) /\ s.free \in SUBSET Nat /\ s.free # {}

Allocated(s, k, x, t) ==
    /\ IsWork(t) /\ t.free = s.free \ {x} /\ t.blk = [s.blk EXCEPT ![x] = Zeros]
    /\ t.a = [s.a EXCEPT ![k] = x] /\ t.dirty = s.dirty \cup {0, x} /\ t.b = x

LEMMA BmapAddrNew ==
    ASSUME NEW s, CanAlloc(s), NEW k, s.a[k] = 0, NEW t, t = Bl!bmapAddr(s, k)
    PROVE  \E x \in s.free : Allocated(s, k, x, t)
<1>0. IsWork(s) /\ s.free \in SUBSET Nat /\ s.free # {}
  BY DEF CanAlloc
<1>1. PICK u : u = Bl!balloc(s)
  OBVIOUS
<1>2. PICK x \in s.free : /\ IsWork(u)
                          /\ u.free = s.free \ {x} /\ u.blk = [s.blk EXCEPT ![x] = Zeros] /\ u.a = s.a
                          /\ u.dirty = s.dirty \cup {0, x} /\ u.b = x
  BY <1>0, <1>1, Balloc
<1>3. PICK h : h = [s.a EXCEPT ![k] = x]
  OBVIOUS
<1>4. t = [u EXCEPT !.a = [u.a EXCEPT ![k] = u.b]]
  BY <1>1 DEF Bl!bmapAddr
<1>5. t = [u EXCEPT !.a = h]
  BY <1>2, <1>3, <1>4
<1>6. IsWork(t) /\ t.free = u.free /\ t.blk = u.blk /\ t.a = h /\ t.dirty = u.dirty /\ t.b = u.b
  BY <1>2, <1>5, WorkA
<1>7. Allocated(s, k, x, t)
  BY <1>2, <1>3, <1>6 DEF Allocated
<1> QED
  BY <1>7, Zenon

OneAllocated(s, k, slot, x, t) ==
    /\ t.free = s.free \ {x} /\ t.a = s.a /\ t.dirty = (s.dirty \cup {0, x}) \cup {slot} /\ t.b = x
    /\ t.blk = [[s.blk EXCEPT ![x] = Zeros] EXCEPT ![slot] = [s.blk[slot] EXCEPT ![k] = x]]

TwoAllocated(s, k, x, y, t) ==
    /\ x # y /\ t.free = (s.free \ {x}) \ {y} /\ t.a = [s.a EXCEPT ![NDIRECT] = x]
    /\ t.dirty = ((s.dirty \cup {0, x}) \cup {0, y}) \cup {x} /\ t.b = y
    /\ t.blk = [[[s.blk EXCEPT ![x] = Zeros] EXCEPT ![y] = Zeros] EXCEPT ![x] = [Zeros EXCEPT ![k] = y]]

LEMMA BmapIndirect ==
    ASSUME BlockSizes, NEW s, IsWork(s), s.free \in SUBSET (1 .. NBlocks), s.blk \in [1 .. NBlocks -> Cells],
           s.a \in [0 .. NDIRECT -> 0 .. NBlocks], NEW k \in 0 .. BSIZE - 1,
           NEW slot, slot = s.a[NDIRECT], slot \notin s.free, NEW t, t = Bl!bmapIndirect(s, k)
    PROVE  /\ slot # 0 /\ s.blk[slot][k] # 0 =>
                t.free = s.free /\ t.blk = s.blk /\ t.a = s.a /\ t.dirty = s.dirty /\ t.b = s.blk[slot][k]
           /\ slot # 0 /\ s.blk[slot][k] = 0 /\ s.free # {} => \E x \in s.free : OneAllocated(s, k, slot, x, t)
           /\ slot = 0 /\ (\E x, y \in s.free : x # y) => \E x, y \in s.free : TwoAllocated(s, k, x, y, t)
<1>1. NBlocks \in Nat /\ 1 .. NBlocks \subseteq Nat /\ s.free \in SUBSET Nat /\ slot \in 0 .. NBlocks /\ NDIRECT \in Nat
  BY DEF BlockSizes
<1>2. PICK v : v = Bl!bmapAddr(s, NDIRECT)
  OBVIOUS
<1>3. PICK u : u = Bl!balloc(v)
  OBVIOUS
<1>4. t = IF v.blk[v.b][k] # 0 THEN [v EXCEPT !.b = v.blk[v.b][k]]
          ELSE [u EXCEPT !.blk = [u.blk EXCEPT ![v.b] = [u.blk[v.b] EXCEPT ![k] = u.b]], !.dirty = u.dirty \cup {v.b}]
  BY <1>2, <1>3 DEF Bl!bmapIndirect
<1>5. ASSUME slot # 0
      PROVE  IsWork(v) /\ v.free = s.free /\ v.blk = s.blk /\ v.a = s.a /\ v.dirty = s.dirty /\ v.b = slot
  BY <1>1, <1>2, <1>5, BmapAddrOld
<1>6. CASE slot # 0 /\ s.blk[slot][k] # 0
  <2>1. PICK y : y = s.blk[slot][k]
    OBVIOUS
  <2>2. t = [v EXCEPT !.b = y]
    BY <1>4, <1>5, <1>6, <2>1
  <2>3. t.free = v.free /\ t.blk = v.blk /\ t.a = v.a /\ t.dirty = v.dirty /\ t.b = y
    BY <1>5, <1>6, <2>2, WorkB
  <2> QED
    BY <1>5, <1>6, <2>1, <2>3
<1>7. ASSUME slot # 0, s.blk[slot][k] = 0, s.free # {}
      PROVE  \E x \in s.free : OneAllocated(s, k, slot, x, t)
  <2>1. PICK x \in v.free :
          /\ IsWork(u) /\ u.free = v.free \ {x} /\ u.blk = [v.blk EXCEPT ![x] = Zeros] /\ u.a = v.a
          /\ u.dirty = v.dirty \cup {0, x} /\ u.b = x
    <3>1. IsWork(v) /\ v.free \in SUBSET Nat /\ v.free # {}
      BY <1>1, <1>5, <1>7
    <3> QED
      BY ONLY BlockSizes, <1>3, <3>1, Balloc
  <2>2. u.blk[slot] = s.blk[slot]
    BY <1>1, <1>5, <1>7, <2>1
  <2>3. PICK z, w : z = [u.blk EXCEPT ![slot] = [s.blk[slot] EXCEPT ![k] = x]] /\ w = u.dirty \cup {slot}
    OBVIOUS
  <2>4. t = [u EXCEPT !.blk = z, !.dirty = w]
    BY <1>4, <1>5, <1>7, <2>1, <2>2, <2>3
  <2>5. t.free = u.free /\ t.blk = z /\ t.a = u.a /\ t.dirty = w /\ t.b = u.b
    <3>1. PICK g : g = [u EXCEPT !.blk = z]
      OBVIOUS
    <3>2. t = [g EXCEPT !.dirty = w]
      BY <2>4, <3>1
    <3> QED
      BY <2>1, <3>1, <3>2, WorkBlk
  <2>6. OneAllocated(s, k, slot, x, t)
    BY <1>5, <1>7, <2>1, <2>3, <2>5 DEF OneAllocated
  <2>7. x \in s.free
    BY <1>5, <1>7
  <2> QED
    BY <2>6, <2>7, Zenon
<1>8. ASSUME slot = 0, NEW e \in s.free, NEW f \in s.free, e # f
      PROVE  \E x, y \in s.free : TwoAllocated(s, k, x, y, t)
  <2>1. s.free # {} /\ s.a[NDIRECT] = 0
    BY <1>8
  <2>2. PICK x \in s.free :
          /\ IsWork(v) /\ v.free = s.free \ {x} /\ v.blk = [s.blk EXCEPT ![x] = Zeros]
          /\ v.a = [s.a EXCEPT ![NDIRECT] = x] /\ v.dirty = s.dirty \cup {0, x} /\ v.b = x
    <3>1. PICK u0 : u0 = Bl!balloc(s)
      OBVIOUS
    <3>2. s.free \in SUBSET Nat /\ s.free # {}
      BY <1>1, <2>1
    <3>3. PICK x \in s.free :
            /\ IsWork(u0) /\ u0.free = s.free \ {x} /\ u0.blk = [s.blk EXCEPT ![x] = Zeros] /\ u0.a = s.a
            /\ u0.dirty = s.dirty \cup {0, x} /\ u0.b = x
      BY <3>1, <3>2, Balloc
    <3>4. PICK h : h = [s.a EXCEPT ![NDIRECT] = x]
      OBVIOUS
    <3>5. v = [u0 EXCEPT !.a = [u0.a EXCEPT ![NDIRECT] = u0.b]]
      BY <1>2, <2>1, <3>1 DEF Bl!bmapAddr
    <3>6. v = [u0 EXCEPT !.a = h]
      BY <3>3, <3>4, <3>5
    <3>7. IsWork(v) /\ v.free = u0.free /\ v.blk = u0.blk /\ v.a = h /\ v.dirty = u0.dirty /\ v.b = u0.b
      BY <3>3, <3>6, WorkA
    <3>8. /\ IsWork(v) /\ v.free = s.free \ {x} /\ v.blk = [s.blk EXCEPT ![x] = Zeros]
          /\ v.a = [s.a EXCEPT ![NDIRECT] = x] /\ v.dirty = s.dirty \cup {0, x} /\ v.b = x
      BY <3>3, <3>4, <3>7
    <3> QED
      BY <3>8, Zenon
  <2>3. IsWork(v)
    BY <2>2
  <2>4. v.free # {} /\ v.free \in SUBSET Nat
    BY <1>1, <1>8, <2>2
  <2>5. PICK y \in v.free :
          /\ IsWork(u) /\ u.free = v.free \ {y} /\ u.blk = [v.blk EXCEPT ![y] = Zeros] /\ u.a = v.a
          /\ u.dirty = v.dirty \cup {0, y} /\ u.b = y
    BY <1>3, <2>3, <2>4, Balloc
  <2>6. x \in 1 .. NBlocks /\ y \in s.free /\ x # y /\ Zeros[k] = 0
    BY <1>1, <2>2, <2>5 DEF Zeros
  <2>7. v.blk[x] = Zeros /\ u.blk[x] = Zeros
    BY <2>2, <2>5, <2>6
  <2>8. PICK z, w : z = [u.blk EXCEPT ![x] = [Zeros EXCEPT ![k] = y]] /\ w = u.dirty \cup {x}
    OBVIOUS
  <2>9. t = [u EXCEPT !.blk = z, !.dirty = w]
    BY <1>4, <2>2, <2>5, <2>6, <2>7, <2>8
  <2>10. t.free = u.free /\ t.blk = z /\ t.a = u.a /\ t.dirty = w /\ t.b = u.b
    <3>1. PICK g : g = [u EXCEPT !.blk = z]
      OBVIOUS
    <3>2. t = [g EXCEPT !.dirty = w]
      BY <2>9, <3>1
    <3> QED
      BY <2>5, <3>1, <3>2, WorkBlk
  <2>11. TwoAllocated(s, k, x, y, t)
    BY <2>2, <2>5, <2>6, <2>8, <2>10 DEF TwoAllocated
  <2> QED
    BY <2>2, <2>6, <2>11, Zenon
<1>9. slot # 0 /\ s.blk[slot][k] # 0 =>
         t.free = s.free /\ t.blk = s.blk /\ t.a = s.a /\ t.dirty = s.dirty /\ t.b = s.blk[slot][k]
  BY <1>6
<1> QED
  BY <1>6, <1>7, <1>8, Zenon

\* What bmap() makes of s for block q of the file, when there are free blocks enough: what
\* it names is named where nothing was, in the place of q or of the indirect block, and the
\* blocks that it names first are those that it allocates.
Mapped(s, q, t) ==
    /\ t.free \subseteq s.free
    /\ t.a \in [0 .. NDIRECT -> 0 .. NBlocks] /\ t.blk \in [1 .. NBlocks -> Cells]
    /\ t.b \in 1 .. NBlocks /\ Place(t.a, t.blk, {}, PosOf(q)) = t.b
    /\ NDIRECT <= q => t.a[NDIRECT] # 0
    /\ \A n \in Pos : Place(t.a, t.blk, {}, n) # Place(s.a, s.blk, {}, n) =>
            /\ Place(s.a, s.blk, {}, n) = 0 /\ Place(t.a, t.blk, {}, n) \in s.free \ t.free
            /\ n = PosOf(q) \/ (n = NDIRECT /\ NDIRECT <= q)
    /\ \A b \in s.free \ t.free : \E n \in Pos : Place(t.a, t.blk, {}, n) = b
    /\ \A n, m \in Pos :
            /\ Place(t.a, t.blk, {}, n) # Place(s.a, s.blk, {}, n)
            /\ Place(t.a, t.blk, {}, m) # Place(s.a, s.blk, {}, m) /\ n # m
            => Place(t.a, t.blk, {}, n) # Place(t.a, t.blk, {}, m)
    /\ \A b \in 1 .. NBlocks : b \notin s.free \ t.free /\ b # s.a[NDIRECT] => t.blk[b] = s.blk[b]
    /\ t.dirty \subseteq s.dirty \cup {0, t.b, t.a[NDIRECT]}

\* The blocks that it needs.
Enough(s, q) ==
    LET slot == s.a[NDIRECT] IN
    IF q < NDIRECT THEN s.a[q] = 0 => s.free # {}
    ELSE IF slot = 0 THEN \E x, y \in s.free : x # y
    ELSE s.blk[slot][q - NDIRECT] = 0 => s.free # {}

Work(s) ==
    /\ IsWork(s) /\ s.free \subseteq 1 .. NBlocks /\ s.blk \in [1 .. NBlocks -> Cells]
    /\ s.a \in [0 .. NDIRECT -> 0 .. NBlocks]
    /\ \A n \in Pos : Place(s.a, s.blk, {}, n) \in 0 .. NBlocks /\ Place(s.a, s.blk, {}, n) \notin s.free

LEMMA PlaceFacts ==
    ASSUME BlockSizes, NEW a, NEW bl, NEW n \in Pos
    PROVE  /\ n <= NDIRECT => Place(a, bl, {}, n) = a[n]
           /\ n > NDIRECT /\ a[NDIRECT] = 0 => Place(a, bl, {}, n) = 0
           /\ n > NDIRECT /\ a[NDIRECT] # 0 => Place(a, bl, {}, n) = bl[a[NDIRECT]][n - NDIRECT - 1]
           /\ n > NDIRECT => n - NDIRECT - 1 \in 0 .. BSIZE - 1
           /\ n <= NDIRECT => n \in 0 .. NDIRECT
           /\ n > NDIRECT <=> ~(n <= NDIRECT)
<1>1. NDIRECT \in Nat /\ BSIZE \in Nat /\ n \in Nat
  BY DEF BlockSizes, Pos
<1>2. n > NDIRECT <=> ~(n <= NDIRECT)
  BY <1>1
<1>3. n > NDIRECT => n - NDIRECT - 1 \in 0 .. BSIZE - 1
  BY <1>1 DEF Pos
<1> QED
  BY <1>1, <1>2, <1>3 DEF Place

LEMMA DirectMapped ==
    ASSUME BlockSizes, NEW s, Work(s), NEW q \in 0 .. NDIRECT - 1, s.a[q] = 0 => s.free # {},
           NEW t, t = Bl!bmapAddr(s, q)
    PROVE  Mapped(s, q, t)
<1>1. NDIRECT \in Nat /\ NBlocks \in Nat /\ BSIZE \in Nat /\ PosOf(q) = q /\ q \in Pos /\ ~(NDIRECT <= q) /\ q # NDIRECT
  BY DEF BlockSizes, PosOf, Pos
<1>2. IsWork(s) /\ s.free \in SUBSET Nat
  BY <1>1 DEF Work
<1>3. Place(s.a, s.blk, {}, q) = s.a[q] /\ q \in 0 .. NDIRECT
  BY <1>1, PlaceFacts
<1>4. CASE s.a[q] # 0
  <2>1. t.free = s.free /\ t.blk = s.blk /\ t.a = s.a /\ t.dirty = s.dirty /\ t.b = s.a[q]
    BY <1>2, <1>4, BmapAddrOld
  <2>2. s.a[q] \in 1 .. NBlocks
    BY <1>1, <1>3, <1>4 DEF Work
  <2> QED
    BY <1>1, <1>3, <2>1, <2>2 DEF Mapped, Work
<1>5. CASE s.a[q] = 0
  <2>1. PICK x \in s.free : /\ t.free = s.free \ {x} /\ t.blk = [s.blk EXCEPT ![x] = Zeros]
                            /\ t.a = [s.a EXCEPT ![q] = x] /\ t.dirty = s.dirty \cup {0, x} /\ t.b = x
    <3>1. CanAlloc(s)
      BY <1>2, <1>5 DEF CanAlloc
    <3>2. \E x \in s.free : Allocated(s, q, x, t)
      BY <1>5, <3>1, BmapAddrNew, Zenon
    <3> QED
      BY <3>2 DEF Allocated
  <2>2. x \in 1 .. NBlocks /\ s.free \ t.free = {x}
    BY <2>1 DEF Work
  <2>3. Zeros \in Cells
    BY DEF Zeros, Cells
  <2>4. t.a \in [0 .. NDIRECT -> 0 .. NBlocks] /\ t.blk \in [1 .. NBlocks -> Cells]
    BY <1>1, <2>1, <2>2, <2>3 DEF Work
  <2>5. t.a[NDIRECT] = s.a[NDIRECT] /\ t.a[q] = x /\ (\A n \in 0 .. NDIRECT : n # q => t.a[n] = s.a[n])
    BY <1>1, <1>3, <2>1 DEF Work
  <2>6. \A b \in 1 .. NBlocks : b # x => t.blk[b] = s.blk[b]
    BY <2>1, <2>2 DEF Work
  <2>7. s.a[NDIRECT] # 0 => s.a[NDIRECT] \in 1 .. NBlocks /\ s.a[NDIRECT] # x
    <3>1. NDIRECT \in Pos /\ Place(s.a, s.blk, {}, NDIRECT) = s.a[NDIRECT]
      BY <1>1, PosFacts, PlaceFacts
    <3> QED
      BY <1>1, <2>1, <3>1 DEF Work
  <2>8. \A n \in Pos : n # q => Place(t.a, t.blk, {}, n) = Place(s.a, s.blk, {}, n)
    <3> SUFFICES ASSUME NEW n \in Pos, n # q PROVE Place(t.a, t.blk, {}, n) = Place(s.a, s.blk, {}, n)
      OBVIOUS
    <3>1. CASE n <= NDIRECT
      BY <2>5, <3>1, PlaceFacts
    <3>2. CASE n > NDIRECT
      BY <2>5, <2>6, <2>7, <3>2, PlaceFacts
    <3> QED
      BY <3>1, <3>2, PlaceFacts
  <2>9. Place(t.a, t.blk, {}, q) = x
    BY <1>1, <2>5, PlaceFacts
  <2> QED
    BY <1>1, <1>3, <1>5, <2>1, <2>2, <2>4, <2>6, <2>8, <2>9 DEF Mapped, Work
<1> QED
  BY <1>4, <1>5

LEMMA IndirectMapped ==
    ASSUME BlockSizes, NEW s, Work(s), NEW q \in NDIRECT .. NDIRECT + BSIZE - 1, Enough(s, q),
           NEW t, t = Bl!bmapIndirect(s, q - NDIRECT)
    PROVE  Mapped(s, q, t)
<1>1. NDIRECT \in Nat /\ NBlocks \in Nat /\ BSIZE \in Nat /\ q \in Nat /\ NDIRECT <= q /\ ~(q < NDIRECT)
  BY DEF BlockSizes
<1>2. PICK k \in 0 .. BSIZE - 1 : k = q - NDIRECT
  BY <1>1
<1>3. PosOf(q) = q + 1 /\ q + 1 \in Pos /\ q + 1 > NDIRECT /\ q + 1 - NDIRECT - 1 = k /\ NDIRECT \in Pos
  BY <1>1, <1>2 DEF PosOf, Pos
<1>4. PICK pq \in Pos : pq = q + 1
  BY <1>3
<1>5. PosOf(q) = pq /\ pq > NDIRECT /\ pq - NDIRECT - 1 = k /\ pq # NDIRECT
  BY <1>1, <1>3, <1>4
<1>6. \A n \in Pos : n > NDIRECT /\ n # pq => n - NDIRECT - 1 # k
  BY <1>1, <1>5 DEF Pos
<1>7. PICK slot \in 0 .. NBlocks : slot = s.a[NDIRECT]
  BY <1>1 DEF Work
<1>8. slot \notin s.free
  BY <1>1, <1>3, <1>7, PlaceFacts DEF Work
<1>9. /\ IsWork(s) /\ s.free \in SUBSET (1 .. NBlocks) /\ s.blk \in [1 .. NBlocks -> Cells]
      /\ s.a \in [0 .. NDIRECT -> 0 .. NBlocks]
  BY DEF Work
<1>10. t = Bl!bmapIndirect(s, k)
  BY <1>2
<1>11. slot # 0 /\ s.blk[slot][k] # 0 =>
         t.free = s.free /\ t.blk = s.blk /\ t.a = s.a /\ t.dirty = s.dirty /\ t.b = s.blk[slot][k]
  BY <1>7, <1>8, <1>9, <1>10, BmapIndirect
<1>12. slot # 0 /\ s.blk[slot][k] = 0 /\ s.free # {} => \E x \in s.free : OneAllocated(s, k, slot, x, t)
  BY <1>7, <1>8, <1>9, <1>10, BmapIndirect
<1>13. slot = 0 /\ (\E x, y \in s.free : x # y) => \E x, y \in s.free : TwoAllocated(s, k, x, y, t)
  BY <1>7, <1>8, <1>9, <1>10, BmapIndirect
<1>14. Zeros \in Cells /\ (\A c \in Cells : \A x \in 1 .. NBlocks : [c EXCEPT ![k] = x] \in Cells)
  BY <1>1, <1>2 DEF Zeros, Cells
<1>15. CASE slot # 0 /\ s.blk[slot][k] # 0
  <2>1. t.free = s.free /\ t.blk = s.blk /\ t.a = s.a /\ t.dirty = s.dirty /\ t.b = s.blk[slot][k]
    BY <1>11, <1>15
  <2>2. Place(s.a, s.blk, {}, pq) = s.blk[slot][k]
    BY <1>5, <1>7, <1>15, PlaceFacts
  <2>3. t.b \in 1 .. NBlocks
    <3>1. Place(s.a, s.blk, {}, pq) \in 0 .. NBlocks
      BY DEF Work
    <3> QED
      BY <1>1, <1>15, <2>1, <2>2, <3>1
  <2> QED
    BY <1>1, <1>5, <1>7, <1>9, <1>15, <2>1, <2>2, <2>3 DEF Mapped
<1>16. CASE slot # 0 /\ s.blk[slot][k] = 0
  <2>1. s.free # {}
    BY <1>1, <1>2, <1>7, <1>16 DEF Enough
  <2>2. PICK x \in s.free :
          /\ t.free = s.free \ {x} /\ t.a = s.a /\ t.dirty = (s.dirty \cup {0, x}) \cup {slot} /\ t.b = x
          /\ t.blk = [[s.blk EXCEPT ![x] = Zeros] EXCEPT ![slot] = [s.blk[slot] EXCEPT ![k] = x]]
    BY <1>12, <1>16, <2>1 DEF OneAllocated
  <2>3. x \in 1 .. NBlocks /\ x # 0 /\ s.free \ t.free = {x} /\ slot \in 1 .. NBlocks /\ slot # x /\ t.free \subseteq s.free
    BY <1>1, <1>8, <1>9, <1>16, <2>2
  <2>4. s.blk[slot] \in Cells /\ s.blk[slot] \in [0 .. BSIZE - 1 -> Byte \cup Nat]
    BY <1>9, <2>3 DEF Cells
  <2>5. t.blk \in [1 .. NBlocks -> Cells]
    <3>1. PICK c \in Cells : c = [s.blk[slot] EXCEPT ![k] = x]
      BY <1>14, <2>3, <2>4
    <3>2. PICK g \in [1 .. NBlocks -> Cells] : g = [s.blk EXCEPT ![x] = Zeros]
      BY <1>9, <1>14, <2>3
    <3>3. t.blk = [g EXCEPT ![slot] = c]
      BY <2>2, <3>1, <3>2
    <3> QED
      BY <2>3, <3>3
  <2>6. \A b \in 1 .. NBlocks : b # x /\ b # slot => t.blk[b] = s.blk[b]
    BY <1>9, <2>2, <2>3
  <2>7. t.blk[slot] = [s.blk[slot] EXCEPT ![k] = x]
    BY <1>9, <2>2, <2>3
  <2>8. t.blk[slot][k] = x /\ (\A c \in 0 .. BSIZE - 1 : c # k => t.blk[slot][c] = s.blk[slot][c])
    BY <2>4, <2>7
  <2>9. Place(t.a, t.blk, {}, pq) = x /\ Place(s.a, s.blk, {}, pq) = 0
    BY <1>5, <1>7, <1>16, <2>2, <2>8, PlaceFacts
  <2>10. \A n \in Pos : n # pq => Place(t.a, t.blk, {}, n) = Place(s.a, s.blk, {}, n)
    <3> SUFFICES ASSUME NEW n \in Pos, n # pq PROVE Place(t.a, t.blk, {}, n) = Place(s.a, s.blk, {}, n)
      OBVIOUS
    <3>1. CASE n <= NDIRECT
      BY <2>2, <3>1, PlaceFacts
    <3>2. CASE n > NDIRECT
      BY <1>6, <1>7, <1>16, <2>2, <2>8, <3>2, PlaceFacts
    <3> QED
      BY <3>1, <3>2, PlaceFacts
  <2>11. t.dirty \subseteq s.dirty \cup {0, t.b, t.a[NDIRECT]}
    BY <1>7, <2>2
  <2> QED
    BY <1>1, <1>5, <1>7, <1>9, <1>16, <2>2, <2>3, <2>5, <2>6, <2>9, <2>10, <2>11 DEF Mapped
<1>17. CASE slot = 0
  <2>1. \E x, y \in s.free : x # y
    BY <1>1, <1>7, <1>17 DEF Enough
  <2>2. PICK x \in s.free, y \in s.free :
          /\ x # y /\ t.free = (s.free \ {x}) \ {y} /\ t.a = [s.a EXCEPT ![NDIRECT] = x]
          /\ t.dirty = ((s.dirty \cup {0, x}) \cup {0, y}) \cup {x} /\ t.b = y
          /\ t.blk = [[[s.blk EXCEPT ![x] = Zeros] EXCEPT ![y] = Zeros] EXCEPT ![x] = [Zeros EXCEPT ![k] = y]]
    BY <1>13, <1>17, <2>1 DEF TwoAllocated
  <2>3. x \in 1 .. NBlocks /\ y \in 1 .. NBlocks /\ s.free \ t.free = {x, y} /\ t.free \subseteq s.free
    BY <1>9, <2>2
  <2>4. x # 0 /\ y # 0
    BY <1>1, <2>3
  <2>5. PICK c \in Cells : c = [Zeros EXCEPT ![k] = y]
    BY <1>14, <2>3
  <2>6. /\ t.blk \in [1 .. NBlocks -> Cells] /\ t.blk[x] = c
        /\ \A b \in 1 .. NBlocks : b # x /\ b # y => t.blk[b] = s.blk[b]
    <3>1. PICK g \in [1 .. NBlocks -> Cells] : g = [s.blk EXCEPT ![x] = Zeros]
      BY <1>9, <1>14, <2>3
    <3>2. PICK h \in [1 .. NBlocks -> Cells] : h = [g EXCEPT ![y] = Zeros]
      BY <1>14, <2>3, <3>1
    <3>3. t.blk = [h EXCEPT ![x] = c]
      BY <2>2, <2>5, <3>1, <3>2
    <3>4. \A b \in 1 .. NBlocks : b # x /\ b # y => h[b] = s.blk[b]
      BY <1>9, <2>3, <3>1, <3>2
    <3> QED
      BY <2>3, <3>3, <3>4
  <2>7. c[k] = y /\ (\A e \in 0 .. BSIZE - 1 : e # k => c[e] = 0)
    BY <2>5 DEF Zeros
  <2>8. /\ t.a \in [0 .. NDIRECT -> 0 .. NBlocks] /\ t.a[NDIRECT] = x
        /\ \A n \in 0 .. NDIRECT : n # NDIRECT => t.a[n] = s.a[n]
    <3>1. t.a = [s.a EXCEPT ![NDIRECT] = x] /\ x \in 0 .. NBlocks /\ NDIRECT \in 0 .. NDIRECT
      BY <1>1, <2>2, <2>3
    <3>2. s.a \in [0 .. NDIRECT -> 0 .. NBlocks]
      BY <1>9
    <3> QED
      BY ONLY <3>1, <3>2
  <2>9. Place(t.a, t.blk, {}, pq) = y /\ Place(s.a, s.blk, {}, pq) = 0
    <3>1. s.a[NDIRECT] = 0
      BY <1>7, <1>17
    <3>2. Place(s.a, s.blk, {}, pq) = 0
      BY <1>5, <3>1, PlaceFacts
    <3>3. t.blk[t.a[NDIRECT]][k] = y /\ t.a[NDIRECT] # 0
      BY <2>4, <2>6, <2>7, <2>8
    <3> QED
      BY <1>5, <3>2, <3>3, PlaceFacts
  <2>10. Place(t.a, t.blk, {}, NDIRECT) = x /\ Place(s.a, s.blk, {}, NDIRECT) = 0
    <3>1. s.a[NDIRECT] = 0 /\ t.a[NDIRECT] = x /\ NDIRECT <= NDIRECT
      BY <1>1, <1>7, <1>17, <2>8
    <3>2. Place(s.a, s.blk, {}, NDIRECT) = s.a[NDIRECT] /\ Place(t.a, t.blk, {}, NDIRECT) = t.a[NDIRECT]
      BY <1>3, <3>1, PlaceFacts
    <3> QED
      BY <3>1, <3>2
  <2>11. \A n \in Pos : n # pq /\ n # NDIRECT => Place(t.a, t.blk, {}, n) = Place(s.a, s.blk, {}, n)
    <3> SUFFICES ASSUME NEW n \in Pos, n # pq, n # NDIRECT
                 PROVE  Place(t.a, t.blk, {}, n) = Place(s.a, s.blk, {}, n)
      OBVIOUS
    <3>1. CASE n <= NDIRECT
      BY <2>8, <3>1, PlaceFacts
    <3>2. CASE n > NDIRECT
      <4>1. n - NDIRECT - 1 \in 0 .. BSIZE - 1 /\ n - NDIRECT - 1 # k
        BY <1>6, <3>2, PlaceFacts
      <4>2. Place(s.a, s.blk, {}, n) = 0
        BY <1>7, <1>17, <3>2, PlaceFacts
      <4>3. Place(t.a, t.blk, {}, n) = c[n - NDIRECT - 1]
        BY <2>4, <2>6, <2>8, <3>2, PlaceFacts
      <4> QED
        BY <2>7, <4>1, <4>2, <4>3
    <3> QED
      BY <3>1, <3>2, PlaceFacts
  <2>12. t.dirty \subseteq s.dirty \cup {0, t.b, t.a[NDIRECT]}
    BY <2>2, <2>8
  <2>13. \A n \in Pos : Place(t.a, t.blk, {}, n) # Place(s.a, s.blk, {}, n) => n = pq \/ n = NDIRECT
    BY <2>11
  <2>14. t.free \subseteq s.free /\ t.b = y /\ y \in 1 .. NBlocks /\ x # y
    BY <2>2, <2>3
  <2>15. \A n \in Pos : Place(t.a, t.blk, {}, n) # Place(s.a, s.blk, {}, n) =>
            /\ Place(s.a, s.blk, {}, n) = 0 /\ Place(t.a, t.blk, {}, n) \in s.free \ t.free
            /\ n = PosOf(q) \/ (n = NDIRECT /\ NDIRECT <= q)
    BY <1>1, <1>5, <2>3, <2>9, <2>10, <2>13
  <2>16. \A b \in s.free \ t.free : \E n \in Pos : Place(t.a, t.blk, {}, n) = b
    BY <1>3, <2>3, <2>9, <2>10
  <2>17. \A n, m \in Pos :
            /\ Place(t.a, t.blk, {}, n) # Place(s.a, s.blk, {}, n)
            /\ Place(t.a, t.blk, {}, m) # Place(s.a, s.blk, {}, m) /\ n # m
            => Place(t.a, t.blk, {}, n) # Place(t.a, t.blk, {}, m)
    BY <2>9, <2>10, <2>13, <2>14
  <2>18. \A b \in 1 .. NBlocks : b \notin s.free \ t.free /\ b # s.a[NDIRECT] => t.blk[b] = s.blk[b]
    BY <2>3, <2>6
  <2>19. NDIRECT <= q => t.a[NDIRECT] # 0
    BY <2>4, <2>8
  <2> QED
    BY <1>5, <2>6, <2>8, <2>9, <2>12, <2>14, <2>15, <2>16, <2>17, <2>18, <2>19 DEF Mapped
<1> QED
  BY <1>15, <1>16, <1>17

LEMMA BmapMaps ==
    ASSUME BlockSizes, NEW s, Work(s), NEW q \in 0 .. NDIRECT + BSIZE - 1, Enough(s, q),
           NEW t, t = Bl!bmap(s, q)
    PROVE  Mapped(s, q, t)
<1>1. NDIRECT \in Nat /\ BSIZE \in Nat
  BY DEF BlockSizes
<1>2. CASE q < NDIRECT
  <2>1. q \in 0 .. NDIRECT - 1
    BY <1>1, <1>2
  <2>2. t = Bl!bmapAddr(s, q)
    BY <1>2 DEF Bl!bmap
  <2>3. s.a[q] = 0 => s.free # {}
    BY <1>2 DEF Enough
  <2> QED
    BY <2>1, <2>2, <2>3, DirectMapped
<1>3. CASE ~(q < NDIRECT)
  <2>1. q \in NDIRECT .. NDIRECT + BSIZE - 1
    BY <1>1, <1>3
  <2>2. t = Bl!bmapIndirect(s, q - NDIRECT)
    BY <1>3 DEF Bl!bmap
  <2> QED
    BY <2>1, <2>2, IndirectMapped
<1> QED
  BY <1>2, <1>3

-------------------------------------------------------------------------------
(* What is named, and the ends of files *)

LEMMA PassedSame ==
    ASSUME NEW i,
           \A q \in Proc : at'[q].at = "trunc" /\ at'[q].ip = i <=> at[q].at = "trunc" /\ at[q].ip = i,
           \A q \in Proc : at[q].at = "trunc" /\ at[q].ip = i => at'[q].tot = at[q].tot
    PROVE  Bl!Passed(i)' = Bl!Passed(i)
<1>1. {q \in Proc : at'[q].at = "trunc" /\ at'[q].ip = i} = {q \in Proc : at[q].at = "trunc" /\ at[q].ip = i}
  OBVIOUS
<1>2. \A q \in {r \in Proc : at[r].at = "trunc" /\ at[r].ip = i} : 0 .. at'[q].tot - 1 = 0 .. at[q].tot - 1
  OBVIOUS
<1>3. PICK S : S = {q \in Proc : at[q].at = "trunc" /\ at[q].ip = i}
  OBVIOUS
<1>4. {0 .. at'[q].tot - 1 : q \in S} = {0 .. at[q].tot - 1 : q \in S}
  BY <1>2, <1>3
<1>5. Bl!Passed(i) = UNION {0 .. at[q].tot - 1 : q \in S}
  BY <1>3 DEF Bl!Passed
<1>6. Bl!Passed(i)' = UNION {0 .. at'[q].tot - 1 : q \in S}
  BY <1>1, <1>3 DEF Bl!Passed
<1> QED
  BY <1>4, <1>5, <1>6

LEMMA PassedNone ==
    ASSUME NEW i, \A q \in Proc : ~(at[q].at = "trunc" /\ at[q].ip = i)
    PROVE  Bl!Passed(i) = {}
<1>1. {q \in Proc : at[q].at = "trunc" /\ at[q].ip = i} = {}
  OBVIOUS
<1> QED
  BY <1>1 DEF Bl!Passed

LEMMA PassedOne ==
    ASSUME NEW i, NEW p \in Proc, at[p].at = "trunc", at[p].ip = i,
           \A q \in Proc : at[q].at = "trunc" /\ at[q].ip = i => q = p
    PROVE  Bl!Passed(i) = 0 .. at[p].tot - 1
<1>1. {q \in Proc : at[q].at = "trunc" /\ at[q].ip = i} = {p}
  OBVIOUS
<1>2. {0 .. at[q].tot - 1 : q \in {p}} = {0 .. at[p].tot - 1}
  OBVIOUS
<1> QED
  BY <1>1, <1>2 DEF Bl!Passed

\* Who truncates an inode has locked it.
LEMMA OneTruncates ==
    ASSUME BlockSizes, FileInv, NEW i \in Inode
    PROVE  /\ \A p, q \in Proc : at[p].at \in {"copy", "trunc"} /\ at[q].at \in {"copy", "trunc"}
                                 /\ at[p].ip = i /\ at[q].ip = i => p = q
           /\ ~Truncated(i) => Bl!Passed(i) = {}
           /\ \A p \in Proc : at[p].at = "trunc" /\ at[p].ip = i =>
                 lock[i] = p /\ Truncated(i) /\ Bl!Passed(i) = 0 .. at[p].tot - 1
<1>0. 0 \notin Proc
  BY DEF BlockSizes
<1>1. \A p \in Proc : at[p].at \in {"copy", "trunc"} /\ at[p].ip = i => lock[i] = p
  BY DEF FileInv, Calling
<1>2. \A p, q \in Proc : at[p].at \in {"copy", "trunc"} /\ at[q].at \in {"copy", "trunc"}
                         /\ at[p].ip = i /\ at[q].ip = i => p = q
  BY <1>1
<1>3. ASSUME ~Truncated(i) PROVE Bl!Passed(i) = {}
  <2>1. \A q \in Proc : ~(at[q].at = "trunc" /\ at[q].ip = i)
    BY <1>0, <1>1, <1>3 DEF Truncated
  <2> QED
    BY <2>1, PassedNone
<1>4. ASSUME NEW p \in Proc, at[p].at = "trunc", at[p].ip = i
      PROVE  lock[i] = p /\ Truncated(i) /\ Bl!Passed(i) = 0 .. at[p].tot - 1
  <2>1. \A q \in Proc : at[q].at = "trunc" /\ at[q].ip = i => q = p
    BY <1>2, <1>4
  <2> QED
    BY <1>0, <1>1, <1>4, <2>1, PassedOne DEF Truncated
<1> QED
  BY <1>2, <1>3, <1>4

\* The end of a file that is not being truncated.
LEMMA EndFacts ==
    ASSUME BlockSizes, FileInv, NEW i \in Inode, ~Truncated(i)
    PROVE  /\ EndOf(i) \in 0 .. BSIZE * (NDIRECT + BSIZE) /\ size[i] <= EndOf(i) /\ size[i] \in Nat
           /\ lock[i] = 0 => EndOf(i) = size[i]
           /\ lock[i] # 0 =>
                /\ lock[i] \in Proc /\ at[lock[i]].at = "copy" /\ at[lock[i]].ip = i
                /\ EndOf(i) = LET e == off[at[lock[i]].fl] + at[lock[i]].tot IN IF e > size[i] THEN e ELSE size[i]
<1>1. PICK M \in Nat : M = BSIZE * (NDIRECT + BSIZE)
  <2>1. NDIRECT + BSIZE \in Nat
    BY DEF BlockSizes
  <2> QED
    BY <2>1, BlocksInOrder
<1>2. size[i] \in 0 .. M
  BY <1>1 DEF FileInv, BlockType
<1>3. CASE lock[i] = 0
  BY <1>1, <1>2, <1>3 DEF EndOf
<1>4. CASE lock[i] # 0
  <2>1. PICK p \in Proc : p = lock[i]
    BY <1>4 DEF FileInv, BlockType
  <2>2. at[p].at = "copy" /\ at[p].ip = i
    BY <1>4, <2>1 DEF FileInv, LockedBy, Truncated
  <2>3. at[p].fl \in File /\ at[p].tot \in Nat /\ at[p].n1 \in Nat /\ at[p].tot <= at[p].n1
    BY <2>2 DEF FileInv, Calling, BlockType, WriteCalls
  <2>4. off[at[p].fl] \in Nat /\ off[at[p].fl] + at[p].n1 <= M
    BY <1>1, <2>2, <2>3 DEF FileInv, Calling, BlockType
  <2>5. PICK e \in Nat : e = off[at[p].fl] + at[p].tot
    BY <2>3, <2>4
  <2>6. EndOf(i) = IF e > size[i] THEN e ELSE size[i]
    BY <1>4, <2>1, <2>5 DEF EndOf
  <2>7. e <= M
    BY <2>3, <2>4, <2>5
  <2>8. EndOf(i) \in 0 .. M /\ size[i] <= EndOf(i)
    BY <1>2, <2>6, <2>7
  <2> QED
    BY <1>1, <1>2, <1>4, <2>1, <2>2, <2>5, <2>6, <2>8
<1> QED
  BY <1>3, <1>4

-------------------------------------------------------------------------------
(* What a step leaves alone *)

\* N has the blocks that the positions of the inodes name, and fr those that none names.
Owns(N, fr) ==
    /\ \A i \in Inode, n \in Pos : N[i][n] \in 0 .. NBlocks /\ N[i][n] \notin fr
    /\ \A i, j \in Inode, n, m \in Pos : N[i][n] # 0 /\ N[i][n] = N[j][m] => i = j /\ n = m
    /\ \A b \in 1 .. NBlocks : b \notin fr => \E i \in Inode, n \in Pos : N[i][n] = b

LEMMA OwnsNamed ==
    ASSUME Owned
    PROVE  \E N : (\A i \in Inode : \A n \in Pos : Named(i, n) = N[i][n]) /\ Owns(N, free)
<1>1. PICK N : N = [i \in Inode |-> [n \in Pos |-> Named(i, n)]]
  OBVIOUS
<1>2. \A i \in Inode : \A n \in Pos : Named(i, n) = N[i][n]
  BY <1>1
<1>3. Owns(N, free)
  BY <1>2 DEF Owned, Owns
<1> QED
  BY <1>2, <1>3

LEMMA OwnedNext ==
    ASSUME NEW N, \A i \in Inode : \A n \in Pos : Named(i, n)' = N[i][n], Owns(N, free')
    PROVE  Owned'
<1>1. \A i \in Inode, n \in Pos : Named(i, n)' \in 0 .. NBlocks /\ Named(i, n)' \notin free'
  BY DEF Owns
<1>2. \A i, j \in Inode, n, m \in Pos : Named(i, n)' # 0 /\ Named(i, n)' = Named(j, m)' => i = j /\ n = m
  BY DEF Owns
<1>3. \A b \in 1 .. NBlocks : b \notin free' => \E i \in Inode, n \in Pos : Named(i, n)' = b
  BY DEF Owns
<1>4. Pos' = Pos
  BY DEF Pos
<1> QED
  BY <1>1, <1>2, <1>3, <1>4 DEF Owned

LEMMA OwnedKept ==
    ASSUME FileInv, free' = free, \A i \in Inode : \A n \in Pos : Named(i, n)' = Named(i, n)
    PROVE  Owned'
<1>1. PICK N : (\A i \in Inode : \A n \in Pos : Named(i, n) = N[i][n]) /\ Owns(N, free)
  BY OwnsNamed DEF FileInv
<1>2. (\A i \in Inode : \A n \in Pos : Named(i, n)' = N[i][n]) /\ Owns(N, free')
  BY <1>1
<1> QED
  BY <1>2, OwnedNext

LEMMA FileKept ==
    ASSUME BlockSizes, FileInv, NEW i \in Inode, lock'[i] = lock[i], size'[i] = size[i],
           lock[i] # 0 => at'[lock[i]] = at[lock[i]],
           lock[i] # 0 /\ at[lock[i]].at = "copy" => off'[at[lock[i]].fl] = off[at[lock[i]].fl],
           \A n \in Pos : Named(i, n)' = Named(i, n)
    PROVE  /\ Covered(i)' /\ LockedBy(i)' /\ (Truncated(i)' <=> Truncated(i))
           /\ ~Truncated(i) => EndOf(i)' = EndOf(i)
<1>1. Truncated(i)' <=> Truncated(i)
  BY DEF Truncated
<1>2. LockedBy(i)'
  BY DEF FileInv, LockedBy
<1>3. ASSUME ~Truncated(i) PROVE EndOf(i)' = EndOf(i)
  <2>1. CASE lock[i] = 0
    BY <2>1 DEF EndOf
  <2>2. CASE lock[i] # 0
    <3>1. at[lock[i]].at = "copy"
      BY <1>3, <2>2, EndFacts
    <3> QED
      BY <2>2, <3>1 DEF EndOf
  <2> QED
    BY <2>1, <2>2
<1>4. Covered(i)'
  <2>1. ASSUME ~Truncated(i), NEW n \in Pos PROVE Named(i, n)' # 0 <=> First(n) < EndOf(i)'
    BY <1>3, <2>1, Zenon DEF FileInv, Covered
  <2>2. Pos' = Pos
    BY DEF Pos
  <2>3. ~Truncated(i)' => \A n \in Pos : Named(i, n)' # 0 <=> First(n) < EndOf(i)'
    BY <1>1, <2>1
  <2>4. \A n : First(n)' = First(n)
    BY DEF First
  <2> QED
    BY <2>2, <2>3, <2>4, Zenon DEF Covered
<1> QED
  BY <1>1, <1>2, <1>3, <1>4

LEMMA CallKept ==
    ASSUME BlockSizes, FileInv, NEW p \in Proc, at'[p] = at[p], dirty'[p] = dirty[p],
           at[p].at \in {"copy", "trunc"} => lock'[at[p].ip] = lock[at[p].ip],
           at[p].at = "copy" =>
                /\ off'[at[p].fl] = off[at[p].fl] /\ size'[at[p].ip] = size[at[p].ip]
                /\ addrs'[at[p].ip][NDIRECT] = addrs[at[p].ip][NDIRECT]
                /\ \A k \in 0 .. EndOf(at[p].ip) - 1 : Bl!ByteAt(at[p].ip, k)' = Bl!ByteAt(at[p].ip, k)
    PROVE  Calling(p)' /\ Written(p)' /\ Reserved(p)'
<1>1. Calling(p)'
  BY DEF FileInv, Calling, Bl!max
<1>2. Reserved(p)'
  BY DEF FileInv, Reserved, Touched
<1>3. ASSUME at[p].at = "copy" PROVE EndOf(at[p].ip)' = EndOf(at[p].ip)
  <2>1. lock[at[p].ip] = p /\ p # 0 /\ lock'[at[p].ip] = p
    BY <1>3 DEF FileInv, Calling, BlockSizes
  <2> QED
    BY <1>3, <2>1 DEF EndOf
<1>4. Written(p)'
  <2>1. SUFFICES ASSUME at[p].at = "copy", NEW k \in 0 .. EndOf(at[p].ip) - 1
                 PROVE  LET o == off[at[p].fl] IN
                        Bl!ByteAt(at[p].ip, k)' = IF k >= o /\ k < o + at[p].tot THEN at[p].src[k - o + 1] ELSE at[p].old[k + 1]
    BY <1>3, Zenon DEF Written
  <2>2. Bl!ByteAt(at[p].ip, k)' = Bl!ByteAt(at[p].ip, k)
    BY <2>1
  <2> QED
    BY <2>1, <2>2 DEF FileInv, Written
<1> QED
  BY <1>1, <1>2, <1>4

\* A call that neither has an inode locked nor gets it.
LEMMA OutsideStep ==
    ASSUME BlockSizes, FileInv, NEW p \in Proc, at[p].at \in {"idle", "piece"}, at'[p].at \in {"idle", "piece"},
           at' \in [Proc -> WriteCalls], \A q \in Proc : q # p => at'[q] = at[q],
           at'[p].at = "piece" => at'[p].fl \in File /\ at'[p].ip = IpOf[at'[p].fl],
           off' \in [File -> 0 .. BSIZE * (NDIRECT + BSIZE)],
           \A q \in Proc : at[q].at = "copy" => off'[at[q].fl] = off[at[q].fl],
           free' = free, blk' = blk, addrs' = addrs, size' = size, lock' = lock, dirty' = dirty, panic' \in BOOLEAN
    PROVE  FileInv'
<1>1. \A i : \A q \in Proc : /\ at'[q].at = "trunc" /\ at'[q].ip = i <=> at[q].at = "trunc" /\ at[q].ip = i
                             /\ at[q].at = "trunc" /\ at[q].ip = i => at'[q].tot = at[q].tot
  OBVIOUS
<1>2. \A i : Bl!Passed(i)' = Bl!Passed(i)
  BY <1>1, PassedSame
<1>3. \A i : \A n : Named(i, n)' = Named(i, n)
  BY <1>2 DEF Named, Place
<1>4. BlockType'
  BY DEF FileInv, BlockType, Cells, WriteCalls
<1>5. Owned'
  BY <1>3, OwnedKept
<1>6. \A i \in Inode : lock[i] # 0 => lock[i] \in Proc /\ lock[i] # p
  <2>1. \A i \in Inode : lock[i] \in Proc \cup {0}
    BY DEF FileInv, BlockType
  <2>2. \A i \in Inode : lock[i] # 0 => at[lock[i]].at \in {"copy", "trunc"}
    BY DEF FileInv, LockedBy
  <2> QED
    BY <2>1, <2>2
<1>7. \A i \in Inode : Covered(i)' /\ LockedBy(i)'
  BY <1>3, <1>6, FileKept
<1>8. \A i, k : Bl!ByteAt(i, k)' = Bl!ByteAt(i, k)
  BY DEF Bl!ByteAt, Bl!BlockAt
<1>9. \A q \in Proc : q # p => Calling(q)' /\ Written(q)' /\ Reserved(q)'
  BY <1>8, CallKept
<1>10. Calling(p)' /\ Written(p)' /\ Reserved(p)'
  BY DEF FileInv, Calling, Written, Reserved
<1> QED
  BY <1>4, <1>5, <1>7, <1>9, <1>10 DEF FileInv

-------------------------------------------------------------------------------
(* The steps that leave the blocks alone *)

LEMMA CallFacts ==
    ASSUME FileInv, NEW p \in Proc
    PROVE  /\ at \in [Proc -> WriteCalls] /\ at[p] \in WriteCalls
           /\ at[p] = [at |-> at[p].at, fl |-> at[p].fl, ip |-> at[p].ip, src |-> at[p].src,
                       n1 |-> at[p].n1, tot |-> at[p].tot, old |-> at[p].old]
           /\ at[p].at \in {"idle", "piece", "copy", "trunc"} /\ at[p].fl \in File \cup {0} /\ at[p].ip \in Inode \cup {0}
           /\ at[p].src \in Seq(Byte) /\ at[p].n1 \in Nat /\ at[p].tot \in Nat /\ at[p].old \in Seq(Byte \cup Nat)
BY DEF FileInv, BlockType, WriteCalls

LEMMA IdleCall == Bl!Idle \in WriteCalls /\ Bl!Idle.at = "idle"
BY DEF Bl!Idle, WriteCalls

LEMMA FileWriteKeeps ==
    ASSUME BlockSizes, FileInv, NEW p \in Proc, Bl!filewrite(p)
    PROVE  FileInv'
<1>1. PICK f \in File, src \in Data :
        at' = [at EXCEPT ![p] = [Bl!Idle EXCEPT !.at = "piece", !.fl = f, !.ip = IpOf[f], !.src = src]]
  BY DEF Bl!filewrite
<1>2. PICK i \in Inode : i = IpOf[f]
  BY DEF BlockSizes
<1>3. PICK c : c = [at |-> "piece", fl |-> f, ip |-> i, src |-> src, n1 |-> 0, tot |-> 0, old |-> <<>>]
  OBVIOUS
<1>4. c = [Bl!Idle EXCEPT !.at = "piece", !.fl = f, !.ip = i, !.src = src]
  <2>1. PICK c1 : c1 = [at |-> "piece", fl |-> 0, ip |-> 0, src |-> <<>>, n1 |-> 0, tot |-> 0, old |-> <<>>]
    OBVIOUS
  <2>2. PICK c2 : c2 = [at |-> "piece", fl |-> f, ip |-> 0, src |-> <<>>, n1 |-> 0, tot |-> 0, old |-> <<>>]
    OBVIOUS
  <2>3. PICK c3 : c3 = [at |-> "piece", fl |-> f, ip |-> i, src |-> <<>>, n1 |-> 0, tot |-> 0, old |-> <<>>]
    OBVIOUS
  <2>4. c1 = [Bl!Idle EXCEPT !.at = "piece"]
    BY <2>1 DEF Bl!Idle
  <2>5. c2 = [c1 EXCEPT !.fl = f]
    BY <2>1, <2>2
  <2>6. c3 = [c2 EXCEPT !.ip = i]
    BY <2>2, <2>3
  <2>7. c = [c3 EXCEPT !.src = src]
    BY <1>3, <2>3
  <2> QED
    BY <2>4, <2>5, <2>6, <2>7
<1>5. at' = [at EXCEPT ![p] = c]
  BY <1>1, <1>2, <1>4
<1>6. c \in WriteCalls /\ c.at = "piece" /\ c.fl = f /\ c.ip = i
  <2>1. src \in Seq(Byte) /\ <<>> \in Seq(Byte \cup Nat)
    BY DEF BlockSizes
  <2> QED
    BY <1>3, <2>1 DEF WriteCalls
<1>7. /\ at' \in [Proc -> WriteCalls] /\ at'[p] = c /\ \A q \in Proc : q # p => at'[q] = at[q]
  BY <1>5, <1>6, CallFacts
<1>8. at[p].at = "idle" /\ free' = free /\ blk' = blk /\ addrs' = addrs /\ size' = size /\ lock' = lock
      /\ off' = off /\ dirty' = dirty /\ panic' = panic
  BY DEF Bl!filewrite
<1>9. off \in [File -> 0 .. BSIZE * (NDIRECT + BSIZE)] /\ panic \in BOOLEAN
  BY DEF FileInv, BlockType
<1> QED
  BY <1>2, <1>6, <1>7, <1>8, <1>9, OutsideStep

LEMMA WriteDoneKeeps ==
    ASSUME BlockSizes, FileInv, NEW p \in Proc, at[p].at = "piece", at' = [at EXCEPT ![p] = Bl!Idle],
           UNCHANGED <<free, blk, addrs, size, lock, off, dirty, panic>>
    PROVE  FileInv'
<1>1. at' \in [Proc -> WriteCalls] /\ at'[p] = Bl!Idle /\ \A q \in Proc : q # p => at'[q] = at[q]
  BY CallFacts, IdleCall
<1>2. off \in [File -> 0 .. BSIZE * (NDIRECT + BSIZE)] /\ panic \in BOOLEAN
  BY DEF FileInv, BlockType
<1>3. at'[p].at = "idle"
  BY <1>1, IdleCall
<1> QED
  BY <1>1, <1>2, <1>3, OutsideStep

LEMMA ReadKeeps ==
    ASSUME BlockSizes, FileInv, NEW p \in Proc, Bl!fileread(p)
    PROVE  FileInv'
<1>1. PICK f \in File, n \in ReadSize :
        /\ lock[IpOf[f]] = 0 /\ off[f] <= size[IpOf[f]]
        /\ off' = [off EXCEPT ![f] = @ + (IF off[f] + n > size[IpOf[f]] THEN size[IpOf[f]] - off[f] ELSE n)]
  BY DEF Bl!fileread, Bl!NoProc
<1>2. PICK i \in Inode : i = IpOf[f]
  BY DEF BlockSizes
<1>3. PICK M \in Nat : M = BSIZE * (NDIRECT + BSIZE)
  <2>1. NDIRECT + BSIZE \in Nat
    BY DEF BlockSizes
  <2> QED
    BY <2>1, BlocksInOrder
<1>4. off \in [File -> 0 .. M] /\ size[i] \in 0 .. M /\ panic \in BOOLEAN /\ n \in Nat
  BY <1>3 DEF FileInv, BlockType, BlockSizes
<1>5. PICK e : e = off[f] + (IF off[f] + n > size[i] THEN size[i] - off[f] ELSE n)
  OBVIOUS
<1>6. e \in 0 .. M
  BY <1>1, <1>2, <1>4, <1>5
<1>7. off' = [off EXCEPT ![f] = e]
  BY <1>1, <1>2, <1>5
<1>8. off' \in [File -> 0 .. M] /\ \A g \in File : g # f => off'[g] = off[g]
  BY <1>4, <1>6, <1>7
<1>9. \A q \in Proc : at[q].at = "copy" => at[q].fl \in File /\ at[q].fl # f
  BY <1>1 DEF FileInv, Calling, BlockSizes
<1>10. /\ at[p].at = "idle" /\ at' = at /\ free' = free /\ blk' = blk /\ addrs' = addrs /\ size' = size
       /\ lock' = lock /\ dirty' = dirty /\ panic' = panic
  BY DEF Bl!fileread
<1> QED
  BY <1>3, <1>4, <1>8, <1>9, <1>10, CallFacts, OutsideStep

LEMMA ReopenKeeps ==
    ASSUME BlockSizes, FileInv, NEW p \in Proc, Bl!Reopen(p)
    PROVE  FileInv'
<1>1. PICK f \in File : (\A q \in Proc : at[q].fl # f) /\ off' = [off EXCEPT ![f] = 0]
  BY DEF Bl!Reopen
<1>2. PICK M \in Nat : M = BSIZE * (NDIRECT + BSIZE)
  <2>1. NDIRECT + BSIZE \in Nat
    BY DEF BlockSizes
  <2> QED
    BY <2>1, BlocksInOrder
<1>3. off \in [File -> 0 .. M] /\ panic \in BOOLEAN
  BY <1>2 DEF FileInv, BlockType
<1>4. off' \in [File -> 0 .. M] /\ \A q \in Proc : at[q].at = "copy" => off'[at[q].fl] = off[at[q].fl]
  BY <1>1, <1>2, <1>3
<1>5. /\ at[p].at = "idle" /\ at' = at /\ free' = free /\ blk' = blk /\ addrs' = addrs /\ size' = size
      /\ lock' = lock /\ dirty' = dirty /\ panic' = panic
  BY DEF Bl!Reopen
<1> QED
  BY <1>2, <1>3, <1>4, <1>5, CallFacts, OutsideStep

\* The lesser of two numbers.
LEMMA MinTwo ==
    ASSUME NEW x \in Nat, NEW y \in Nat
    PROVE  Bl!Min({x, y}) \in {x, y} /\ Bl!Min({x, y}) <= x /\ Bl!Min({x, y}) <= y
<1>1. PICK z \in {x, y} : \A w \in {x, y} : z <= w
  <2>1. CASE x <= y
    BY <2>1
  <2>2. CASE y <= x
    BY <2>2
  <2> QED
    BY <2>1, <2>2
<1>2. Bl!Min({x, y}) \in {x, y} /\ \A w \in {x, y} : Bl!Min({x, y}) <= w
  BY <1>1 DEF Bl!Min
<1> QED
  BY <1>2

LEMMA MaxFacts ==
    ASSUME BlockSizes
    PROVE  \E w \in Nat : w = (MAXOPBLOCKS - 4) \div 2 /\ w >= 1 /\ 2 * w <= MAXOPBLOCKS - 4
                          /\ Bl!max = BSIZE * w /\ Bl!max \in Nat \ {0}
<1>1. PICK w : w = (MAXOPBLOCKS - 4) \div 2
  OBVIOUS
<1>2. w \in Nat /\ w >= 1 /\ 2 * w <= MAXOPBLOCKS - 4
  BY <1>1 DEF BlockSizes
<1>3. MAXOPBLOCKS - 1 - 1 - 2 = MAXOPBLOCKS - 4
  BY DEF BlockSizes
<1>4. Bl!max = w * BSIZE
  BY <1>1, <1>3 DEF Bl!max
<1>5. PICK B \in Nat \ {0} : B = BSIZE
  BY DEF BlockSizes
<1>6. B * 1 <= B * w /\ B * w \in Nat /\ w * B = B * w
  BY <1>2, <1>5, BlocksInOrder
<1> QED
  BY <1>1, <1>2, <1>4, <1>5, <1>6

\* The block of a byte of a file, and the position that names it.
LEMMA ByteBlock ==
    ASSUME BlockSizes, FileInv, NEW i \in Inode, ~Truncated(i), NEW k \in 0 .. EndOf(i) - 1
    PROVE  /\ k \in 0 .. BSIZE * (NDIRECT + BSIZE) - 1
           /\ k \div BSIZE \in 0 .. NDIRECT + BSIZE - 1 /\ PosOf(k \div BSIZE) \in Pos
           /\ NDIRECT <= k \div BSIZE => addrs[i][NDIRECT] # 0
           /\ Named(i, PosOf(k \div BSIZE)) \in 1 .. NBlocks
           /\ Bl!BlockAt(i, k \div BSIZE) = Named(i, PosOf(k \div BSIZE))
           /\ Bl!ByteAt(i, k) = blk[Named(i, PosOf(k \div BSIZE))][k % BSIZE]
           /\ k % BSIZE \in 0 .. BSIZE - 1
           /\ Bl!ByteAt(i, k) \in Byte \cup Nat
<1>1. PICK M \in Nat, e \in Nat : M = BSIZE * (NDIRECT + BSIZE) /\ e = EndOf(i) /\ e <= M
  <2>1. NDIRECT + BSIZE \in Nat
    BY DEF BlockSizes
  <2> QED
    BY <2>1, BlocksInOrder, EndFacts
<1>2. k \in 0 .. M - 1 /\ k < e
  BY <1>1
<1>3. PICK q \in 0 .. NDIRECT + BSIZE - 1 : q = k \div BSIZE
  BY <1>1, <1>2, ByteFacts
<1>4. k % BSIZE \in 0 .. BSIZE - 1 /\ First(PosOf(q)) <= k /\ (NDIRECT <= q => First(NDIRECT) <= k)
  BY <1>1, <1>2, <1>3, ByteFacts
<1>5. /\ PosOf(q) \in Pos /\ PosOf(q) # NDIRECT /\ NDIRECT \in Pos /\ First(PosOf(q)) \in Nat /\ First(NDIRECT) \in Nat
      /\ q \in Nat /\ NDIRECT \in Nat
  BY <1>3, PosFacts DEF BlockSizes
<1>6. First(PosOf(q)) < e /\ (NDIRECT <= q => First(NDIRECT) < e)
  BY <1>2, <1>4, <1>5
<1>7. \A n \in Pos : Named(i, n) # 0 <=> First(n) < e
  BY <1>1 DEF FileInv, Covered
<1>8. Named(i, PosOf(q)) # 0 /\ (NDIRECT <= q => Named(i, NDIRECT) # 0)
  BY <1>5, <1>6, <1>7
<1>9. Bl!Passed(i) = {}
  BY OneTruncates
<1>10. Named(i, NDIRECT) = addrs[i][NDIRECT]
  BY <1>5 DEF Named, Place
<1>11. Bl!BlockAt(i, q) = Named(i, PosOf(q))
  <2>1. CASE q < NDIRECT
    <3>1. PosOf(q) = q /\ q <= NDIRECT
      BY <1>5, <2>1 DEF PosOf
    <3>2. Named(i, q) = addrs[i][q]
      BY <1>5, <3>1 DEF Named, Place
    <3> QED
      BY <2>1, <3>1, <3>2 DEF Bl!BlockAt
  <2>2. CASE ~(q < NDIRECT)
    <3>1. PosOf(q) = q + 1 /\ q + 1 > NDIRECT /\ q + 1 - NDIRECT - 1 = q - NDIRECT /\ NDIRECT <= q
      BY <1>5, <2>2 DEF PosOf
    <3>2. addrs[i][NDIRECT] # 0
      BY <1>8, <1>10, <3>1
    <3>3. Named(i, PosOf(q)) = blk[addrs[i][NDIRECT]][q - NDIRECT]
      BY <1>5, <1>9, <3>1, <3>2, PlaceFacts DEF Named
    <3> QED
      BY <2>2, <3>3 DEF Bl!BlockAt
  <2> QED
    BY <2>1, <2>2
<1>12. Named(i, PosOf(q)) \in 1 .. NBlocks
  <2>1. Named(i, PosOf(q)) \in 0 .. NBlocks
    BY <1>5 DEF FileInv, Owned
  <2> QED
    BY <1>8, <2>1 DEF BlockSizes
<1>13. Bl!ByteAt(i, k) = blk[Named(i, PosOf(q))][k % BSIZE]
  BY <1>3, <1>11 DEF Bl!ByteAt
<1>14. blk[Named(i, PosOf(q))][k % BSIZE] \in Byte \cup Nat
  BY <1>4, <1>12 DEF FileInv, BlockType, Cells
<1> QED
  BY <1>1, <1>2, <1>3, <1>4, <1>5, <1>8, <1>10, <1>11, <1>12, <1>13, <1>14

\* A call that locks or unlocks an inode, and leaves the blocks as they are.
LEMMA LockStep ==
    ASSUME BlockSizes, FileInv, NEW p \in Proc, NEW i \in Inode,
           free' = free, blk' = blk, addrs' = addrs, panic' \in BOOLEAN,
           \A j \in Inode : \A n \in Pos : Named(j, n)' = Named(j, n),
           at' \in [Proc -> WriteCalls], \A q \in Proc : q # p => at'[q] = at[q],
           lock' \in [Inode -> Proc \cup {0}], \A j \in Inode : j # i => lock'[j] = lock[j],
           lock[i] \in {0, p}, \A j \in Inode : lock[j] = p => j = i,
           size' \in [Inode -> 0 .. BSIZE * (NDIRECT + BSIZE)], \A j \in Inode : j # i => size'[j] = size[j],
           off' \in [File -> 0 .. BSIZE * (NDIRECT + BSIZE)],
           \A q \in Proc : q # p /\ at[q].at = "copy" => off'[at[q].fl] = off[at[q].fl],
           dirty' \in [Proc -> SUBSET Int], \A q \in Proc : q # p => dirty'[q] = dirty[q], IsFiniteSet(dirty'[p]),
           Calling(p)', Written(p)', Reserved(p)', LockedBy(i)', Covered(i)'
    PROVE  FileInv'
<1>1. \A j \in Inode : \A n \in Pos : Named(j, n)' = Named(j, n)
  OBVIOUS
<1>2. BlockType'
  BY DEF FileInv, BlockType, Cells, WriteCalls
<1>3. Owned'
  BY <1>1, OwnedKept
<1>4. \A j \in Inode : lock[j] # 0 => lock[j] \in Proc
  BY DEF FileInv, BlockType
<1>5. ASSUME NEW j \in Inode, j # i PROVE Covered(j)' /\ LockedBy(j)'
  <2>1. lock'[j] = lock[j] /\ size'[j] = size[j] /\ (lock[j] # 0 => lock[j] \in Proc /\ lock[j] # p)
    BY <1>4, <1>5
  <2> QED
    BY <1>1, <2>1, FileKept
<1>6. ASSUME NEW q \in Proc, q # p PROVE Calling(q)' /\ Written(q)' /\ Reserved(q)'
  <2>1. \A j, k : Bl!ByteAt(j, k)' = Bl!ByteAt(j, k)
    BY DEF Bl!ByteAt, Bl!BlockAt
  <2>2. at[q].at \in {"copy", "trunc"} => at[q].ip \in Inode /\ at[q].ip # i
    BY <1>6 DEF FileInv, Calling, BlockSizes
  <2> QED
    BY <1>6, <2>1, <2>2, CallKept
<1> QED
  BY <1>2, <1>3, <1>5, <1>6 DEF FileInv

\* The call with what WriteBegin() notes.
Begins(p, n1, bs) == at' = [at EXCEPT ![p].at = "copy", ![p].n1 = n1, ![p].tot = 0, ![p].old = bs]

Begun(p, n1, bs) ==
    [at |-> "copy", fl |-> at[p].fl, ip |-> at[p].ip, src |-> at[p].src, n1 |-> n1, tot |-> 0, old |-> bs]

LEMMA BegunCall ==
    ASSUME FileInv, NEW p \in Proc, NEW n1, NEW bs, Begins(p, n1, bs)
    PROVE  at' = [at EXCEPT ![p] = Begun(p, n1, bs)]
<1>0. PICK c, i, f : i = at[p].ip /\ f = at[p].fl /\ c = Begun(p, n1, bs)
                     /\ c = [at |-> "copy", fl |-> f, ip |-> i, src |-> at[p].src, n1 |-> n1, tot |-> 0, old |-> bs]
  BY DEF Begun
<1>1. PICK A : A = at
  OBVIOUS
<1>2. PICK c1 : c1 = [A[p] EXCEPT !.at = "copy"]
  OBVIOUS
<1>3. PICK c2 : c2 = [c1 EXCEPT !.n1 = n1]
  OBVIOUS
<1>4. PICK c3 : c3 = [c2 EXCEPT !.tot = 0]
  OBVIOUS
<1>5. c = [c3 EXCEPT !.old = bs]
  <2>1. A[p] = [at |-> A[p].at, fl |-> f, ip |-> i, src |-> A[p].src, n1 |-> A[p].n1, tot |-> A[p].tot, old |-> A[p].old]
    BY <1>0, <1>1, CallFacts
  <2>2. c1 = [at |-> "copy", fl |-> f, ip |-> i, src |-> A[p].src, n1 |-> A[p].n1, tot |-> A[p].tot, old |-> A[p].old]
    BY <1>2, <2>1
  <2>3. c2 = [at |-> "copy", fl |-> f, ip |-> i, src |-> A[p].src, n1 |-> n1, tot |-> A[p].tot, old |-> A[p].old]
    BY <1>3, <2>2
  <2>4. c3 = [at |-> "copy", fl |-> f, ip |-> i, src |-> A[p].src, n1 |-> n1, tot |-> 0, old |-> A[p].old]
    BY <1>4, <2>3
  <2> QED
    BY <1>0, <1>1, <2>4
<1>6. A \in [Proc -> WriteCalls]
  BY <1>1, CallFacts
<1>7. [A EXCEPT ![p].at = "copy", ![p].n1 = n1, ![p].tot = 0, ![p].old = bs] = [A EXCEPT ![p] = c]
  <2>1. PICK A1 : A1 = [A EXCEPT ![p] = c1]
    OBVIOUS
  <2>2. PICK A2 : A2 = [A1 EXCEPT ![p] = c2]
    OBVIOUS
  <2>3. PICK A3 : A3 = [A2 EXCEPT ![p] = c3]
    OBVIOUS
  <2>4. A1[p] = c1 /\ A2[p] = c2 /\ A3[p] = c3
    BY <1>6, <2>1, <2>2, <2>3
  <2>5. A1 = [A EXCEPT ![p].at = "copy"]
    BY <1>2, <2>1
  <2>6. A2 = [A1 EXCEPT ![p].n1 = n1]
    BY <1>3, <2>2, <2>4
  <2>7. A3 = [A2 EXCEPT ![p].tot = 0]
    BY <1>4, <2>3, <2>4
  <2>8. [A3 EXCEPT ![p].old = bs] = [A3 EXCEPT ![p] = c]
    BY <1>5, <2>4
  <2>9. [A3 EXCEPT ![p] = c] = [A EXCEPT ![p] = c]
    BY <1>6, <2>1, <2>2, <2>3
  <2> QED
    BY <2>5, <2>6, <2>7, <2>8, <2>9
<1> QED
  BY <1>0, <1>1, <1>7 DEF Begins

\* ilock() and what writei() refuses, or the locked inode with its contents noted.
LEMMA WriteBeginKeeps ==
    ASSUME BlockSizes, FileInv, NEW p \in Proc, Bl!WriteBegin(p)
    PROVE  FileInv'
<1>1. at[p].at = "piece" /\ at[p].src # <<>> /\ lock[at[p].ip] = 0
  BY DEF Bl!WriteBegin, Bl!NoProc
<1>2. PICK i \in Inode, f \in File : i = at[p].ip /\ f = at[p].fl /\ i = IpOf[f]
  BY <1>1 DEF FileInv, Calling, BlockSizes
<1>3. PICK n1 : n1 = Bl!Min({Len(at[p].src), Bl!max})
  OBVIOUS
<1>4. n1 \in 1 .. Len(at[p].src) /\ n1 <= Bl!max /\ n1 \in Nat
  <2>1. at[p].src \in Seq(Byte)
    BY CallFacts
  <2>2. PICK l \in Nat \ {0} : l = Len(at[p].src)
    BY <1>1, <2>1, EmptySeq
  <2>3. PICK m \in Nat \ {0} : m = Bl!max
    BY MaxFacts
  <2>4. n1 \in {l, m} /\ n1 <= l /\ n1 <= m
    BY <1>3, <2>2, <2>3, MinTwo
  <2> QED
    BY <2>2, <2>3, <2>4
<1>5. /\ free' = free /\ blk' = blk /\ addrs' = addrs /\ size' = size /\ off' = off /\ panic' = panic
  BY DEF Bl!WriteBegin
<1>6. CASE Bl!Refused(i, off[f], n1)
  <2>1. at' = [at EXCEPT ![p] = Bl!Idle] /\ lock' = lock /\ dirty' = dirty
    BY <1>2, <1>3, <1>6 DEF Bl!WriteBegin
  <2>2. UNCHANGED <<free, blk, addrs, size, lock, off, dirty, panic>>
    BY <1>5, <2>1
  <2> QED
    BY <1>1, <2>1, <2>2, WriteDoneKeeps
<1>7. CASE ~Bl!Refused(i, off[f], n1)
  <2>1. PICK bs : bs = Bl!Bytes(i, 0, size[i])
    OBVIOUS
  <2>2. /\ at' = [at EXCEPT ![p].at = "copy", ![p].n1 = n1, ![p].tot = 0, ![p].old = bs]
        /\ lock' = [lock EXCEPT ![i] = p] /\ dirty' = [dirty EXCEPT ![p] = {}]
    BY <1>2, <1>3, <1>7, <2>1 DEF Bl!WriteBegin
  <2>3. PICK c : c = [at |-> "copy", fl |-> f, ip |-> i, src |-> at[p].src, n1 |-> n1, tot |-> 0, old |-> bs]
    OBVIOUS
  <2>4. at' = [at EXCEPT ![p] = c]
    <3>1. Begins(p, n1, bs)
      BY <2>2 DEF Begins
    <3>2. at' = [at EXCEPT ![p] = Begun(p, n1, bs)]
      BY <3>1, BegunCall
    <3> QED
      BY <1>2, <2>3, <3>2 DEF Begun
  <2>5. PICK o \in Nat, z \in Nat, M \in Nat :
          o = off[f] /\ z = size[i] /\ M = BSIZE * (NDIRECT + BSIZE) /\ o <= z /\ o + n1 <= M /\ z <= M
    <3>1. NDIRECT + BSIZE \in Nat
      BY DEF BlockSizes
    <3>2. PICK M \in Nat : M = BSIZE * (NDIRECT + BSIZE)
      BY <3>1, BlocksInOrder
    <3>3. PICK o \in 0 .. M, z \in 0 .. M : o = off[f] /\ z = size[i]
      BY <3>2 DEF FileInv, BlockType
    <3>4. ~(o > z) /\ ~(o + n1 > M)
      <4>1. Bl!MAXFILE * BSIZE = M
        BY <3>2 DEF Bl!MAXFILE, Bl!NINDIRECT, BlockSizes
      <4> QED
        BY <1>7, <3>3, <4>1 DEF Bl!Refused
    <3>5. o \in Nat /\ z \in Nat /\ o <= z /\ o + n1 <= M /\ z <= M
      BY <1>4, <3>2, <3>3, <3>4
    <3> QED
      BY <3>2, <3>3, <3>5
  <2>6. ~Truncated(i) /\ EndOf(i) = z
    BY <1>1, <1>2, <2>5 DEF Truncated, EndOf
  <2>7. bs = [k \in 1 .. z |-> Bl!ByteAt(i, k - 1)] /\ \A k \in 0 .. z - 1 : bs[k + 1] = Bl!ByteAt(i, k)
    <3>1. \A k \in 1 .. z : 0 + k - 1 = k - 1
      OBVIOUS
    <3>2. bs = [k \in 1 .. z |-> Bl!ByteAt(i, k - 1)]
      BY <2>1, <2>5, <3>1 DEF Bl!Bytes
    <3>3. \A k \in 0 .. z - 1 : k + 1 \in 1 .. z /\ k + 1 - 1 = k
      OBVIOUS
    <3> QED
      BY <3>2, <3>3
  <2>8. bs \in Seq(Byte \cup Nat) /\ Len(bs) = z
    <3>1. \A k \in 1 .. z : Bl!ByteAt(i, k - 1) \in Byte \cup Nat
      <4> SUFFICES ASSUME NEW k \in 1 .. z PROVE Bl!ByteAt(i, k - 1) \in Byte \cup Nat
        OBVIOUS
      <4>1. k - 1 \in 0 .. EndOf(i) - 1
        BY <2>6
      <4> QED
        BY <2>6, <4>1, ByteBlock
    <3> QED
      BY <2>7, <3>1, SeqDef
  <2>9. c \in WriteCalls
    BY <1>4, <2>3, <2>8, CallFacts DEF WriteCalls
  <2>10. /\ at' \in [Proc -> WriteCalls] /\ at'[p] = c /\ \A q \in Proc : q # p => at'[q] = at[q]
    BY <2>4, <2>9, CallFacts
  <2>11. /\ lock' \in [Inode -> Proc \cup {0}] /\ lock'[i] = p /\ \A j \in Inode : j # i => lock'[j] = lock[j]
    BY <2>2 DEF FileInv, BlockType
  <2>12. \A j \in Inode : \A n \in Pos : Named(j, n)' = Named(j, n)
    <3>1. \A j \in Inode : \A q \in Proc :
            /\ at'[q].at = "trunc" /\ at'[q].ip = j <=> at[q].at = "trunc" /\ at[q].ip = j
            /\ at[q].at = "trunc" /\ at[q].ip = j => at'[q].tot = at[q].tot
      BY <1>1, <2>3, <2>10
    <3>2. \A j \in Inode : Bl!Passed(j)' = Bl!Passed(j)
      BY <3>1, PassedSame
    <3> QED
      BY <1>5, <3>2 DEF Named, Place
  <2>13. p # 0 /\ lock[i] = 0 /\ \A j \in Inode : lock[j] # p
    BY <1>1, <1>2 DEF FileInv, LockedBy, BlockSizes
  <2>14. Calling(p)'
    BY <1>2, <1>4, <1>5, <2>3, <2>5, <2>8, <2>10, <2>11 DEF Calling, Bl!max
  <2>15. o + 0 = o /\ ~(o > z)
    BY <2>5
  <2>16. EndOf(i)' = z
    BY <1>5, <2>3, <2>5, <2>10, <2>11, <2>13, <2>15 DEF EndOf
  <2>17. Written(p)'
    <3>1. \A k : Bl!ByteAt(i, k)' = Bl!ByteAt(i, k)
      BY <1>5 DEF Bl!ByteAt, Bl!BlockAt
    <3>2. \A k \in 0 .. z - 1 : ~(k >= o /\ k < o + 0)
      BY <2>5
    <3> QED
      BY <1>5, <2>3, <2>5, <2>7, <2>10, <2>16, <3>1, <3>2 DEF Written
  <2>18. dirty'[p] = {} /\ dirty' \in [Proc -> SUBSET Int] /\ \A q \in Proc : q # p => dirty'[q] = dirty[q]
    BY <2>2 DEF FileInv, BlockType
  <2>19. Reserved(p)'
    BY <2>3, <2>10, <2>18, FS_EmptySet DEF Reserved, Touched, BlockSizes
  <2>20. LockedBy(i)'
    BY <2>3, <2>10, <2>11 DEF LockedBy
  <2>21. Covered(i)'
    <3>1. \A n \in Pos : Named(i, n)' = Named(i, n)
      BY <2>12
    <3>2. \A n \in Pos : Named(i, n) # 0 <=> First(n) < z
      BY <2>6 DEF FileInv, Covered
    <3>3. \A n \in Pos : Named(i, n)' # 0 <=> First(n) < EndOf(i)'
      BY <2>16, <3>1, <3>2
    <3>4. Pos' = Pos /\ \A n : First(n)' = First(n)
      BY DEF Pos, First
    <3> QED
      BY <3>3, <3>4 DEF Covered
  <2>22. size \in [Inode -> 0 .. BSIZE * (NDIRECT + BSIZE)] /\ off \in [File -> 0 .. BSIZE * (NDIRECT + BSIZE)] /\ panic \in BOOLEAN
    BY DEF FileInv, BlockType
  <2> QED
    BY <1>5, <2>10, <2>11, <2>12, <2>13, <2>14, <2>17, <2>18, <2>19, <2>20, <2>21, <2>22, FS_EmptySet, LockStep
<1> QED
  BY <1>6, <1>7

-------------------------------------------------------------------------------
(* The end of a piece, and removing *)

\* Two blocks and those of n bytes from offset o on.
LEMMA BlocksOfPiece ==
    ASSUME BlockSizes, NEW o \in Nat, NEW n \in Nat \ {0}, NEW w \in Nat, n <= BSIZE * w
    PROVE  /\ (o + n - 1) \div BSIZE - (o \div BSIZE) + 1 <= w + 1
           /\ (o + n - 1) \div BSIZE - (o \div BSIZE) + 1 \in Nat
<1>1. PICK B \in Nat \ {0} : B = BSIZE
  BY DEF BlockSizes
<1>2. PICK e \in Nat : e = o + n - 1
  OBVIOUS
<1>3. PICK q \in Nat, s \in Nat : q = o \div BSIZE /\ s = e \div BSIZE
  BY <1>2, DivFacts
<1>4. BSIZE * q <= o /\ o < BSIZE * q + BSIZE /\ BSIZE * s <= e /\ e < BSIZE * s + BSIZE
  BY <1>2, <1>3, DivFacts
<1>5. PICK Q \in Nat, S \in Nat, W \in Nat : Q = BSIZE * q /\ S = BSIZE * s /\ W = BSIZE * w
  BY <1>3, BlocksInOrder
<1>6. S <= e /\ e < Q + B + W /\ Q <= o /\ o < Q + B /\ o <= e /\ e < S + B
  BY <1>1, <1>2, <1>4, <1>5
<1>7. ~(s < q)
  BY <1>1, <1>3, <1>5, <1>6, BlocksInOrder
<1>8. ~(q + w < s)
  <2>1. ASSUME q + w < s PROVE FALSE
    <3>1. BSIZE * (q + w) + BSIZE <= BSIZE * s /\ q + w \in Nat
      BY <2>1, BlocksInOrder
    <3>2. BSIZE * (q + w) = Q + W
      BY <1>1, <1>5
    <3> QED
      BY <1>1, <1>5, <1>6, <3>1, <3>2
  <2> QED
    BY <2>1
<1> QED
  BY <1>2, <1>3, <1>7, <1>8

\* A set but for two of its elements.
LEMMA AllButTwo ==
    ASSUME NEW S, IsFiniteSet(S), NEW x, NEW y, NEW k \in Nat, Cardinality(S \ {x, y}) <= k
    PROVE  Cardinality(S) <= k + 2 /\ Cardinality(S) \in Nat
<1>1. PICK T : T = S \ {x, y}
  OBVIOUS
<1>2. IsFiniteSet(T) /\ Cardinality(T) \in Nat /\ Cardinality(T) <= k
  BY <1>1, FS_Subset, FS_CardinalityType
<1>3. PICK U : U = T \cup {x}
  OBVIOUS
<1>4. IsFiniteSet(U) /\ Cardinality(U) \in Nat /\ Cardinality(U) <= k + 1
  <2>1. IsFiniteSet(U) /\ (Cardinality(U) = Cardinality(T) \/ Cardinality(U) = Cardinality(T) + 1)
    BY <1>2, <1>3, FS_AddElement
  <2> QED
    BY <1>2, <2>1
<1>5. PICK V : V = U \cup {y}
  OBVIOUS
<1>6. IsFiniteSet(V) /\ Cardinality(V) \in Nat /\ Cardinality(V) <= k + 2
  <2>1. IsFiniteSet(V) /\ (Cardinality(V) = Cardinality(U) \/ Cardinality(V) = Cardinality(U) + 1)
    BY <1>4, <1>5, FS_AddElement
  <2> QED
    BY <1>4, <2>1
<1>7. S \subseteq V
  BY <1>1, <1>3, <1>5
<1>8. Cardinality(S) <= Cardinality(V) /\ Cardinality(S) \in Nat
  BY <1>6, <1>7, FS_Subset, FS_CardinalityType
<1> QED
  BY <1>6, <1>8

\* A piece of a write does not fill a transaction.
LEMMA PieceFits ==
    ASSUME BlockSizes, NEW o \in Nat, NEW n \in Nat \ {0}, n <= Bl!max, NEW S, IsFiniteSet(S), NEW x,
           Cardinality(S \ {0, x}) <= (o + n - 1) \div BSIZE - (o \div BSIZE) + 1
    PROVE  Cardinality(S) + 1 <= MAXOPBLOCKS /\ Cardinality(S) \in Nat
<1>1. PICK w \in Nat : w >= 1 /\ 2 * w <= MAXOPBLOCKS - 4 /\ Bl!max = BSIZE * w
  BY MaxFacts
<1>2. PICK t \in Nat : t = (o + n - 1) \div BSIZE - (o \div BSIZE) + 1 /\ t <= w + 1
  BY <1>1, BlocksOfPiece
<1>3. Cardinality(S) <= t + 2 /\ Cardinality(S) \in Nat
  BY <1>2, AllButTwo
<1> QED
  BY <1>1, <1>2, <1>3 DEF BlockSizes

LEMMA WriteEndKeeps ==
    ASSUME BlockSizes, FileInv, NEW p \in Proc, Bl!WriteEnd(p)
    PROVE  FileInv'
<1>1. at[p].at = "copy" /\ at[p].tot = at[p].n1
  BY DEF Bl!WriteEnd
<1>2. PICK i \in Inode, f \in File : i = at[p].ip /\ f = at[p].fl /\ i = IpOf[f] /\ lock[i] = p
  BY <1>1 DEF FileInv, Calling
<1>3. PICK n \in Nat \ {0}, M \in Nat, o \in Nat, z \in Nat :
        /\ n = at[p].n1 /\ n <= Len(at[p].src) /\ n <= Bl!max /\ M = BSIZE * (NDIRECT + BSIZE)
        /\ o = off[f] /\ z = size[i] /\ o <= z /\ o + n <= M /\ z <= M
  <2>1. NDIRECT + BSIZE \in Nat
    BY DEF BlockSizes
  <2>2. PICK M \in Nat : M = BSIZE * (NDIRECT + BSIZE)
    BY <2>1, BlocksInOrder
  <2>3. PICK n \in Nat \ {0} : n = at[p].n1 /\ n <= Len(at[p].src)
    BY <1>1, CallFacts DEF FileInv, Calling
  <2>4. PICK o \in Nat, z \in Nat : o = off[f] /\ z = size[i] /\ z <= M
    BY <2>2 DEF FileInv, BlockType
  <2>5. n <= Bl!max /\ o <= z /\ o + n <= M
    BY <1>1, <1>2, <2>2, <2>3, <2>4 DEF FileInv, Calling
  <2> QED
    BY <2>2, <2>3, <2>4, <2>5
<1>4. PICK e \in Nat : e = IF o + n > z THEN o + n ELSE z
  OBVIOUS
<1>5. e <= M
  BY <1>3, <1>4
<1>6. /\ size' = [size EXCEPT ![i] = e]
      /\ dirty' = [dirty EXCEPT ![p] = IF o + n > z THEN dirty[p] \cup {-1} ELSE dirty[p]]
      /\ off' = [off EXCEPT ![f] = o + n] /\ lock' = [lock EXCEPT ![i] = 0]
  BY <1>2, <1>3, <1>4 DEF Bl!WriteEnd, Bl!Grown, Bl!InodeBlock, Bl!NoProc
<1>7. /\ free' = free /\ blk' = blk /\ addrs' = addrs /\ panic' = panic
  BY DEF Bl!WriteEnd
<1>8. PICK rest : rest = SubSeq(at[p].src, n + 1, Len(at[p].src))
  OBVIOUS
<1>9. rest \in Seq(Byte)
  <2>1. PICK q \in Seq(Byte) : q = at[p].src
    BY CallFacts
  <2> QED
    BY <1>8, <2>1
<1>10. PICK c : c = [at |-> "piece", fl |-> f, ip |-> i, src |-> rest, n1 |-> 0, tot |-> 0, old |-> <<>>]
  OBVIOUS
<1>11. at' = [at EXCEPT ![p] = c]
  <2>1. PICK a : a = at[p]
    OBVIOUS
  <2>2. at' = [at EXCEPT ![p] = [a EXCEPT !.at = "piece", !.src = rest, !.old = <<>>, !.n1 = 0, !.tot = 0]]
    BY <1>3, <1>8, <2>1 DEF Bl!WriteEnd
  <2>3. a = [at |-> a.at, fl |-> f, ip |-> i, src |-> a.src, n1 |-> a.n1, tot |-> a.tot, old |-> a.old]
    BY <1>2, <2>1, CallFacts
  <2>4. PICK c1 : c1 = [a EXCEPT !.at = "piece"]
    OBVIOUS
  <2>5. PICK c2 : c2 = [c1 EXCEPT !.src = rest]
    OBVIOUS
  <2>6. PICK c3 : c3 = [c2 EXCEPT !.old = <<>>]
    OBVIOUS
  <2>7. PICK c4 : c4 = [c3 EXCEPT !.n1 = 0]
    OBVIOUS
  <2>8. c1 = [at |-> "piece", fl |-> f, ip |-> i, src |-> a.src, n1 |-> a.n1, tot |-> a.tot, old |-> a.old]
    BY <2>3, <2>4
  <2>9. c2 = [at |-> "piece", fl |-> f, ip |-> i, src |-> rest, n1 |-> a.n1, tot |-> a.tot, old |-> a.old]
    BY <2>5, <2>8
  <2>10. c3 = [at |-> "piece", fl |-> f, ip |-> i, src |-> rest, n1 |-> a.n1, tot |-> a.tot, old |-> <<>>]
    BY <2>6, <2>9
  <2>11. c4 = [at |-> "piece", fl |-> f, ip |-> i, src |-> rest, n1 |-> 0, tot |-> a.tot, old |-> <<>>]
    BY <2>7, <2>10
  <2>12. c = [c4 EXCEPT !.tot = 0]
    BY <1>10, <2>11
  <2> QED
    BY <2>2, <2>4, <2>5, <2>6, <2>7, <2>12
<1>12. c \in WriteCalls
  BY <1>9, <1>10, EmptySeq DEF WriteCalls
<1>13. at' \in [Proc -> WriteCalls] /\ at'[p] = c /\ \A q \in Proc : q # p => at'[q] = at[q]
  BY <1>11, <1>12, CallFacts
<1>14. \A j \in Inode : \A m \in Pos : Named(j, m)' = Named(j, m)
  <2>1. \A j \in Inode : \A q \in Proc :
          /\ at'[q].at = "trunc" /\ at'[q].ip = j <=> at[q].at = "trunc" /\ at[q].ip = j
          /\ at[q].at = "trunc" /\ at[q].ip = j => at'[q].tot = at[q].tot
    BY <1>1, <1>10, <1>13
  <2>2. \A j \in Inode : Bl!Passed(j)' = Bl!Passed(j)
    BY <2>1, PassedSame
  <2> QED
    BY <1>7, <2>2 DEF Named, Place
<1>15. p # 0 /\ \A j \in Inode : lock[j] = p => j = i
  BY <1>1, <1>2 DEF FileInv, LockedBy, BlockSizes
<1>16. /\ lock' \in [Inode -> Proc \cup {0}] /\ lock'[i] = 0 /\ \A j \in Inode : j # i => lock'[j] = lock[j]
  BY <1>6 DEF FileInv, BlockType
<1>17. /\ size' \in [Inode -> 0 .. M] /\ size'[i] = e /\ \A j \in Inode : j # i => size'[j] = size[j]
  BY <1>3, <1>5, <1>6 DEF FileInv, BlockType
<1>18. off' \in [File -> 0 .. M] /\ \A g \in File : g # f => off'[g] = off[g]
  BY <1>3, <1>6 DEF FileInv, BlockType
<1>19. \A q \in Proc : q # p /\ at[q].at = "copy" => off'[at[q].fl] = off[at[q].fl]
  <2> SUFFICES ASSUME NEW q \in Proc, q # p, at[q].at = "copy" PROVE off'[at[q].fl] = off[at[q].fl]
    OBVIOUS
  <2>1. at[q].fl \in File /\ lock[IpOf[at[q].fl]] = q
    BY DEF FileInv, Calling
  <2>2. at[q].fl # f
    BY <1>2, <2>1
  <2> QED
    BY <1>18, <2>1, <2>2
<1>20. PICK D : D = dirty[p] /\ IsFiniteSet(D) /\ D \in SUBSET Int
  BY DEF FileInv, BlockType
<1>21. dirty' \in [Proc -> SUBSET Int] /\ (dirty'[p] = D \/ dirty'[p] = D \cup {-1}) /\ \A q \in Proc : q # p => dirty'[q] = dirty[q]
  <2>1. PICK E \in SUBSET Int : E = (IF o + n > z THEN dirty[p] \cup {-1} ELSE dirty[p]) /\ (E = D \/ E = D \cup {-1})
    <3>1. -1 \in Int
      OBVIOUS
    <3>2. D \cup {-1} \in SUBSET Int
      BY <1>20, <3>1
    <3>3. CASE o + n > z
      BY <1>20, <3>2, <3>3
    <3>4. CASE ~(o + n > z)
      BY <1>20, <3>4
    <3> QED
      BY <3>3, <3>4
  <2>2. dirty' = [dirty EXCEPT ![p] = E]
    BY <1>6, <2>1
  <2> QED
    BY <2>1, <2>2 DEF FileInv, BlockType
<1>22. Cardinality(D) + 1 <= MAXOPBLOCKS /\ Cardinality(D) \in Nat
  <2>1. PICK x : x = addrs[i][NDIRECT]
    OBVIOUS
  <2>2. Cardinality(D \ {0, x}) <= (o + n - 1) \div BSIZE - (o \div BSIZE) + 1
    BY <1>1, <1>2, <1>3, <1>20, <2>1 DEF FileInv, Reserved, Touched
  <2> QED
    BY <1>3, <1>20, <2>2, PieceFits
<1>23. IsFiniteSet(dirty'[p]) /\ Cardinality(dirty'[p]) <= MAXOPBLOCKS
  <2>1. IsFiniteSet(D \cup {-1}) /\ (Cardinality(D \cup {-1}) = Cardinality(D) \/ Cardinality(D \cup {-1}) = Cardinality(D) + 1)
    BY <1>20, FS_AddElement
  <2>2. MAXOPBLOCKS \in Nat
    BY DEF BlockSizes
  <2> QED
    BY <1>20, <1>21, <1>22, <2>1, <2>2
<1>24. Calling(p)' /\ Written(p)' /\ Reserved(p)'
  <2>1. at'[p].at = "piece" /\ at'[p].fl = f /\ at'[p].ip = i
    BY <1>10, <1>13
  <2> QED
    BY <1>2, <1>23, <2>1 DEF Calling, Written, Reserved
<1>25. LockedBy(i)' /\ ~Truncated(i)' /\ EndOf(i)' = e
  BY <1>16, <1>17 DEF LockedBy, Truncated, EndOf
<1>26. ~Truncated(i) /\ EndOf(i) = e
  BY <1>1, <1>2, <1>3, <1>4, <1>15 DEF Truncated, EndOf
<1>27. Covered(i)'
  <2>1. \A m \in Pos : Named(i, m)' = Named(i, m)
    BY <1>14
  <2>2. \A m \in Pos : Named(i, m) # 0 <=> First(m) < e
    BY <1>26 DEF FileInv, Covered
  <2>3. Pos' = Pos /\ \A m : First(m)' = First(m)
    BY DEF Pos, First
  <2> QED
    BY <1>25, <2>1, <2>2, <2>3 DEF Covered
<1>28. panic' \in BOOLEAN
  BY <1>7 DEF FileInv, BlockType
<1> QED
  BY <1>2, <1>3, <1>7, <1>13, <1>14, <1>15, <1>16, <1>17, <1>18, <1>19, <1>21, <1>23, <1>24, <1>25, <1>27, <1>28, LockStep

LEMMA RemoveKeeps ==
    ASSUME BlockSizes, FileInv, NEW p \in Proc, Bl!Remove(p)
    PROVE  FileInv'
<1>1. PICK i \in Inode :
        /\ lock[i] = 0 /\ \A q \in Proc : at[q].ip # i
        /\ at' = [at EXCEPT ![p] = [Bl!Idle EXCEPT !.at = "trunc", !.ip = i]]
        /\ lock' = [lock EXCEPT ![i] = p] /\ dirty' = [dirty EXCEPT ![p] = {}]
        /\ off' = [f \in File |-> IF IpOf[f] = i THEN 0 ELSE off[f]]
  BY DEF Bl!Remove, Bl!NoProc, Bl!Uses
<1>2. at[p].at = "idle" /\ free' = free /\ blk' = blk /\ addrs' = addrs /\ size' = size /\ panic' = panic
  BY DEF Bl!Remove
<1>3. PICK c : c = [at |-> "trunc", fl |-> 0, ip |-> i, src |-> <<>>, n1 |-> 0, tot |-> 0, old |-> <<>>]
  OBVIOUS
<1>4. at' = [at EXCEPT ![p] = c]
  <2>1. PICK c1 : c1 = [at |-> "trunc", fl |-> 0, ip |-> 0, src |-> <<>>, n1 |-> 0, tot |-> 0, old |-> <<>>]
    OBVIOUS
  <2>2. c1 = [Bl!Idle EXCEPT !.at = "trunc"]
    BY <2>1 DEF Bl!Idle
  <2>3. c = [c1 EXCEPT !.ip = i]
    BY <1>3, <2>1
  <2> QED
    BY <1>1, <2>2, <2>3
<1>5. c \in WriteCalls
  BY <1>3, EmptySeq DEF WriteCalls
<1>6. at' \in [Proc -> WriteCalls] /\ at'[p] = c /\ \A q \in Proc : q # p => at'[q] = at[q]
  BY <1>4, <1>5, CallFacts
<1>7. /\ lock' \in [Inode -> Proc \cup {0}] /\ lock'[i] = p /\ \A j \in Inode : j # i => lock'[j] = lock[j]
  BY <1>1 DEF FileInv, BlockType
<1>8. p # 0 /\ \A j \in Inode : lock[j] # p
  BY <1>2 DEF FileInv, LockedBy, BlockSizes
<1>9. PICK M \in Nat : M = BSIZE * (NDIRECT + BSIZE)
  <2>1. NDIRECT + BSIZE \in Nat
    BY DEF BlockSizes
  <2> QED
    BY <2>1, BlocksInOrder
<1>10. off' \in [File -> 0 .. M]
  BY <1>1, <1>9 DEF FileInv, BlockType
<1>11. \A q \in Proc : q # p /\ at[q].at = "copy" => off'[at[q].fl] = off[at[q].fl]
  BY <1>1 DEF FileInv, Calling
<1>12. dirty'[p] = {} /\ dirty' \in [Proc -> SUBSET Int] /\ \A q \in Proc : q # p => dirty'[q] = dirty[q]
  BY <1>1 DEF FileInv, BlockType
<1>13. size \in [Inode -> 0 .. M] /\ panic \in BOOLEAN
  BY <1>9 DEF FileInv, BlockType
<1>14. \A j \in Inode : Bl!Passed(j)' = Bl!Passed(j)
  <2>1. ASSUME NEW j \in Inode, j # i PROVE Bl!Passed(j)' = Bl!Passed(j)
    <3>1. \A q \in Proc : /\ at'[q].at = "trunc" /\ at'[q].ip = j <=> at[q].at = "trunc" /\ at[q].ip = j
                          /\ at[q].at = "trunc" /\ at[q].ip = j => at'[q].tot = at[q].tot
      BY <1>2, <1>3, <1>6, <2>1
    <3> QED
      BY <3>1, PassedSame
  <2>2. Bl!Passed(i) = {}
    BY <1>1, PassedNone
  <2>3. Bl!Passed(i)' = {}
    <3>1. {q \in Proc : at'[q].at = "trunc" /\ at'[q].ip = i} = {p}
      BY <1>1, <1>3, <1>6
    <3>2. 0 .. at'[p].tot - 1 = {}
      BY <1>3, <1>6
    <3>3. {0 .. at'[q].tot - 1 : q \in {p}} = {0 .. at'[p].tot - 1}
      OBVIOUS
    <3> QED
      BY <3>1, <3>2, <3>3 DEF Bl!Passed
  <2> QED
    BY <2>1, <2>2, <2>3
<1>15. \A j \in Inode : \A n \in Pos : Named(j, n)' = Named(j, n)
  BY <1>2, <1>14 DEF Named, Place
<1>16. Calling(p)' /\ Written(p)' /\ LockedBy(i)' /\ Truncated(i)'
  BY <1>3, <1>6, <1>7, <1>8 DEF Calling, Written, LockedBy, Truncated
<1>17. Reserved(p)'
  BY <1>3, <1>6, <1>12, FS_EmptySet DEF Reserved, BlockSizes
<1>18. Covered(i)'
  BY <1>16 DEF Covered
<1>19. IsFiniteSet(dirty'[p])
  BY <1>12, FS_EmptySet
<1> QED
  BY <1>1, <1>2, <1>6, <1>7, <1>8, <1>9, <1>10, <1>11, <1>12, <1>13, <1>15, <1>16, <1>17, <1>18, <1>19, LockStep

\* A block that is no longer named is free.
LEMMA OwnsLess ==
    ASSUME BlockSizes, NEW N, NEW fr \in SUBSET (1 .. NBlocks), Owns(N, fr), NEW i \in Inode, NEW w \in Pos,
           NEW b, N[i][w] = b, b \in 1 .. NBlocks,
           NEW N1, \A j \in Inode : \A n \in Pos : N1[j][n] = IF j = i /\ n = w THEN 0 ELSE N[j][n]
    PROVE  Owns(N1, fr \cup {b})
<1>1. /\ \A j \in Inode, n \in Pos : N[j][n] \in 0 .. NBlocks /\ N[j][n] \notin fr
      /\ \A h, j \in Inode, n, m \in Pos : N[h][n] # 0 /\ N[h][n] = N[j][m] => h = j /\ n = m
      /\ \A c \in 1 .. NBlocks : c \notin fr => \E j \in Inode, n \in Pos : N[j][n] = c
  BY DEF Owns
<1>2. NBlocks \in Nat /\ b # 0 /\ 0 \notin fr \cup {b}
  BY DEF BlockSizes
<1>3. \A j \in Inode, n \in Pos : N1[j][n] \in 0 .. NBlocks /\ N1[j][n] \notin fr \cup {b}
  <2> SUFFICES ASSUME NEW j \in Inode, NEW n \in Pos PROVE N1[j][n] \in 0 .. NBlocks /\ N1[j][n] \notin fr \cup {b}
    OBVIOUS
  <2>1. CASE j = i /\ n = w
    BY <1>2, <2>1
  <2>2. CASE ~(j = i /\ n = w)
    <3>1. N1[j][n] = N[j][n]
      BY <2>2
    <3>2. N[j][n] # b
      BY <1>1, <1>2, <2>2
    <3> QED
      BY <1>1, <3>1, <3>2
  <2> QED
    BY <2>1, <2>2
<1>4. \A h, j \in Inode, n, m \in Pos : N1[h][n] # 0 /\ N1[h][n] = N1[j][m] => h = j /\ n = m
  BY <1>1
<1>5. \A c \in 1 .. NBlocks : c \notin fr \cup {b} => \E j \in Inode, n \in Pos : N1[j][n] = c
  <2> SUFFICES ASSUME NEW c \in 1 .. NBlocks, c \notin fr \cup {b} PROVE \E j \in Inode, n \in Pos : N1[j][n] = c
    OBVIOUS
  <2>1. PICK j \in Inode, n \in Pos : N[j][n] = c
    BY <1>1
  <2>2. ~(j = i /\ n = w)
    BY <2>1
  <2>3. N1[j][n] = c
    BY <2>1, <2>2
  <2> QED
    BY <2>3
<1> QED
  BY <1>3, <1>4, <1>5 DEF Owns

\* bfree() of a block, which is named in no other place and no longer in its own.
Freed(p, i, w) ==
    /\ at[p].at = "trunc" /\ at[p].ip = i
    /\ Named(i, w) # 0 /\ free' = free \cup {Named(i, w)} /\ blk' = blk
    /\ Named(i, w)' = 0 /\ \A n \in Pos : n # w => Named(i, n)' = Named(i, n)
    /\ addrs' \in [Inode -> [0 .. NDIRECT -> 0 .. NBlocks]] /\ \A j \in Inode : j # i => addrs'[j] = addrs[j]
    /\ at' \in [Proc -> WriteCalls] /\ \A q \in Proc : q # p => at'[q] = at[q]
    /\ at'[p].at = "trunc" /\ at'[p].ip = i /\ at'[p].fl = 0 /\ at'[p].old = <<>>
    /\ lock' = lock /\ size' = size /\ off' = off
    /\ dirty' = [dirty EXCEPT ![p] = dirty[p] \cup {0}] /\ panic' \in BOOLEAN

LEMMA FreedStep ==
    ASSUME BlockSizes, FileInv, NEW p \in Proc, NEW i \in Inode, NEW w \in Pos, Freed(p, i, w)
    PROVE  FileInv'
<1>0a. /\ at[p].at = "trunc" /\ at[p].ip = i
       /\ Named(i, w) # 0 /\ free' = free \cup {Named(i, w)} /\ blk' = blk
       /\ Named(i, w)' = 0 /\ \A n \in Pos : n # w => Named(i, n)' = Named(i, n)
  BY DEF Freed
<1>0b. /\ addrs' \in [Inode -> [0 .. NDIRECT -> 0 .. NBlocks]] /\ \A j \in Inode : j # i => addrs'[j] = addrs[j]
       /\ at' \in [Proc -> WriteCalls] /\ \A q \in Proc : q # p => at'[q] = at[q]
       /\ at'[p].at = "trunc" /\ at'[p].ip = i /\ at'[p].fl = 0 /\ at'[p].old = <<>>
       /\ lock' = lock /\ size' = size /\ off' = off
       /\ dirty' = [dirty EXCEPT ![p] = dirty[p] \cup {0}] /\ panic' \in BOOLEAN
  BY DEF Freed
<1>1. \A j \in Inode : j # i => \A n \in Pos : Named(j, n)' = Named(j, n)
  <2>1. \A j \in Inode : j # i => \A q \in Proc :
          /\ at'[q].at = "trunc" /\ at'[q].ip = j <=> at[q].at = "trunc" /\ at[q].ip = j
          /\ at[q].at = "trunc" /\ at[q].ip = j => at'[q].tot = at[q].tot
    BY <1>0a, <1>0b
  <2>2. \A j \in Inode : j # i => Bl!Passed(j)' = Bl!Passed(j)
    BY <1>0a, <1>0b, <2>1, PassedSame
  <2> QED
    BY <1>0a, <1>0b, <2>2 DEF Named, Place
<1>2. PICK b : b = Named(i, w)
  OBVIOUS
<1>3. b \in 1 .. NBlocks /\ b \notin free
  <2>1. b \in 0 .. NBlocks /\ b \notin free
    BY <1>0a, <1>0b, <1>2 DEF FileInv, Owned
  <2> QED
    BY <1>0a, <1>0b, <1>2, <2>1 DEF BlockSizes
<1>4. PICK D : D = dirty[p] /\ D \subseteq {0, -1} /\ IsFiniteSet(D)
  BY <1>0a, <1>0b DEF FileInv, Reserved, BlockType
<1>5. /\ dirty'[p] = D \cup {0} /\ dirty' \in [Proc -> SUBSET Int] /\ \A q \in Proc : q # p => dirty'[q] = dirty[q]
  BY <1>0a, <1>0b, <1>4 DEF FileInv, BlockType
<1>6. IsFiniteSet(dirty'[p]) /\ Cardinality(dirty'[p]) <= 2 /\ Cardinality(dirty'[p]) \in Nat
  <2>1. PICK S : S = dirty'[p]
    OBVIOUS
  <2>2. IsFiniteSet(S) /\ S \ {0, -1} = {}
    <3>1. S = D \cup {0}
      BY <1>0a, <1>0b, <1>5, <2>1
    <3>2. IsFiniteSet(S)
      BY <1>0a, <1>0b, <1>4, <3>1, FS_AddElement
    <3>3. S \ {0, -1} = {}
      BY <1>0a, <1>0b, <1>4, <3>1
    <3> QED
      BY <3>2, <3>3
  <2>3. Cardinality(S \ {0, -1}) <= 0
    <3>1. Cardinality({}) <= 0
      BY FS_EmptySet
    <3> QED
      BY <2>2, <3>1, Zenon
  <2>4. Cardinality(S) <= 0 + 2 /\ Cardinality(S) \in Nat
    BY <1>0a, <1>0b, <2>2, <2>3, AllButTwo
  <2> QED
    BY <1>0a, <1>0b, <2>1, <2>2, <2>4
<1>7. BlockType'
  <2>1. \A q \in Proc : IsFiniteSet(dirty'[q])
    BY <1>0a, <1>0b, <1>5, <1>6 DEF FileInv, BlockType
  <2>2. free' \subseteq 1 .. NBlocks
    BY <1>0a, <1>0b, <1>2, <1>3 DEF FileInv, BlockType
  <2> QED
    BY <1>0a, <1>0b, <1>5, <2>1, <2>2 DEF FileInv, BlockType, Cells, WriteCalls
<1>8. Owned'
  <2>1. PICK N : (\A j \in Inode : \A n \in Pos : Named(j, n) = N[j][n]) /\ Owns(N, free)
    BY OwnsNamed DEF FileInv
  <2>2. PICK N1 : N1 = [j \in Inode |-> [n \in Pos |-> IF j = i /\ n = w THEN 0 ELSE N[j][n]]]
    OBVIOUS
  <2>3. \A j \in Inode : \A n \in Pos : N1[j][n] = IF j = i /\ n = w THEN 0 ELSE N[j][n]
    BY <1>0a, <1>0b, <2>2
  <2>4. \A j \in Inode : \A n \in Pos : Named(j, n)' = N1[j][n]
    BY <1>0a, <1>0b, <1>1, <2>1, <2>3
  <2>5. N[i][w] = b /\ free \in SUBSET (1 .. NBlocks) /\ free' = free \cup {b}
    BY <1>0a, <1>0b, <1>2, <2>1 DEF FileInv, BlockType
  <2>6. Owns(N1, free')
    BY <1>0a, <1>0b, <1>3, <2>1, <2>3, <2>5, OwnsLess
  <2> QED
    BY <1>0a, <1>0b, <2>4, <2>6, OwnedNext
<1>9. lock[i] = p /\ p # 0
  BY <1>0a, <1>0b DEF FileInv, Calling, BlockSizes
<1>10. ASSUME NEW j \in Inode, j # i PROVE Covered(j)' /\ LockedBy(j)'
  <2>1. lock[j] # 0 => lock[j] \in Proc /\ lock[j] # p
    <3>1. lock[j] \in Proc \cup {0}
      BY <1>0a, <1>0b DEF FileInv, BlockType
    <3>2. lock[j] # 0 => at[lock[j]].ip = j
      BY <1>0a, <1>0b DEF FileInv, LockedBy
    <3> QED
      BY <1>0a, <1>0b, <1>10, <3>1, <3>2
  <2> QED
    BY <1>0a, <1>0b, <1>1, <1>10, <2>1, FileKept
<1>11. Covered(i)' /\ LockedBy(i)'
  BY <1>0a, <1>0b, <1>9 DEF Covered, LockedBy, Truncated
<1>12. ASSUME NEW q \in Proc, q # p PROVE Calling(q)' /\ Written(q)' /\ Reserved(q)'
  <2>1. at[q].at \in {"copy", "trunc"} => at[q].ip \in Inode /\ at[q].ip # i
    BY <1>0a, <1>0b, <1>9, <1>12 DEF FileInv, Calling
  <2>2. \A j \in Inode : j # i => \A k : Bl!ByteAt(j, k)' = Bl!ByteAt(j, k)
    BY <1>0a, <1>0b DEF Bl!ByteAt, Bl!BlockAt
  <2> QED
    BY <1>0a, <1>0b, <1>5, <1>12, <2>1, <2>2, CallKept
<1>13. Calling(p)' /\ Written(p)'
  BY <1>0a, <1>0b, <1>9 DEF Calling, Written
<1>14. Reserved(p)'
  BY <1>0a, <1>0b, <1>4, <1>5, <1>6 DEF Reserved, BlockSizes
<1> QED
  BY <1>0a, <1>0b, <1>7, <1>8, <1>10, <1>11, <1>12, <1>13, <1>14 DEF FileInv

-------------------------------------------------------------------------------
(* itrunc() *)

LEMMA TruncKeeps ==
    ASSUME BlockSizes, FileInv, NEW p \in Proc, Bl!itrunc(p)
    PROVE  FileInv'
<1>1. at[p].at = "trunc"
  BY DEF Bl!itrunc
<1>2. PICK i \in Inode : i = at[p].ip
  BY <1>1 DEF FileInv, Calling
<1>3. at[p].fl = 0 /\ at[p].old = <<>> /\ lock[i] = p /\ p # 0
  BY <1>1, <1>2 DEF FileInv, Calling, BlockSizes
<1>4. PICK tot \in Nat : tot = at[p].tot /\ Bl!Passed(i) = 0 .. tot - 1
  BY <1>1, <1>2, CallFacts, OneTruncates
<1>5. PICK a \in [0 .. NDIRECT -> 0 .. NBlocks], slot \in 0 .. NBlocks : a = addrs[i] /\ slot = a[NDIRECT]
  <2>1. addrs[i] \in [0 .. NDIRECT -> 0 .. NBlocks] /\ NDIRECT \in 0 .. NDIRECT
    BY DEF FileInv, BlockType, BlockSizes
  <2>2. addrs[i][NDIRECT] \in 0 .. NBlocks
    BY <2>1
  <2> QED
    BY <2>1, <2>2
<1>6. PICK direct : direct = {n \in 0 .. NDIRECT - 1 : a[n] # 0}
  OBVIOUS
<1>7. PICK listed : listed = {k \in tot .. BSIZE - 1 : slot # 0 /\ blk[slot][k] # 0}
  OBVIOUS
<1>8. direct = {n \in 0 .. NDIRECT - 1 : addrs[i][n] # 0} /\ listed = Bl!Listed(i, at[p].tot)
  BY <1>4, <1>5, <1>6, <1>7 DEF Bl!Listed, Bl!NINDIRECT
<1>9. NDIRECT \in Nat /\ BSIZE \in Nat /\ NBlocks \in Nat /\ NDIRECT \in Pos /\ NDIRECT \in 0 .. NDIRECT
  BY DEF BlockSizes, Pos
<1>10. blk' = blk /\ off' = off
  BY DEF Bl!itrunc
<1>11. \A n \in Pos : n \in Nat /\ (n > NDIRECT => n - NDIRECT - 1 \in 0 .. BSIZE - 1)
  BY <1>9 DEF Pos
<1>12. \A n \in Pos : Named(i, n) = Place(a, blk, 0 .. tot - 1, n)
  BY <1>4, <1>5 DEF Named
<1>13. addrs \in [Inode -> [0 .. NDIRECT -> 0 .. NBlocks]] /\ panic \in BOOLEAN
  BY DEF FileInv, BlockType
<1>14. CASE direct # {}
  <2>1. PICK n \in Nat : n \in direct /\ n = Bl!Min(direct)
    <3>1. direct \subseteq Nat
      BY <1>6
    <3> QED
      BY <1>14, <3>1, LeastBlock
  <2>2. n \in 0 .. NDIRECT - 1 /\ n \in Pos /\ n \in 0 .. NDIRECT /\ n # NDIRECT /\ n <= NDIRECT /\ a[n] # 0
    BY <1>6, <1>9, <2>1 DEF Pos
  <2>3. /\ free' = free \cup {a[n]} /\ panic' = (a[n] \in free) /\ dirty' = [dirty EXCEPT ![p] = @ \cup {0}]
        /\ addrs' = [addrs EXCEPT ![i][n] = 0] /\ size' = size /\ lock' = lock /\ at' = at
    BY <1>2, <1>5, <1>8, <1>14, <2>1, Zenon DEF Bl!itrunc, Bl!bfree, Bl!Bitmap
  <2>4. PICK a1 \in [0 .. NDIRECT -> 0 .. NBlocks] : a1 = [a EXCEPT ![n] = 0]
    <3>1. 0 \in 0 .. NBlocks
      BY <1>9
    <3>2. [a EXCEPT ![n] = 0] \in [0 .. NDIRECT -> 0 .. NBlocks]
      BY <2>2, <3>1
    <3> QED
      BY <3>2
  <2>5. /\ addrs' \in [Inode -> [0 .. NDIRECT -> 0 .. NBlocks]] /\ addrs'[i] = a1
        /\ \A j \in Inode : j # i => addrs'[j] = addrs[j]
    BY <1>5, <1>13, <2>3, <2>4
  <2>6. a1[n] = 0 /\ \A m \in 0 .. NDIRECT : m # n => a1[m] = a[m]
    BY <2>2, <2>4
  <2>7. Bl!Passed(i)' = 0 .. tot - 1
    <3>1. \A q \in Proc : /\ at'[q].at = "trunc" /\ at'[q].ip = i <=> at[q].at = "trunc" /\ at[q].ip = i
                          /\ at[q].at = "trunc" /\ at[q].ip = i => at'[q].tot = at[q].tot
      BY <2>3
    <3> QED
      BY <1>4, <3>1, PassedSame
  <2>8. \A m \in Pos : Named(i, m)' = Place(a1, blk, 0 .. tot - 1, m)
    BY <1>10, <2>5, <2>7 DEF Named
  <2>9. Place(a, blk, 0 .. tot - 1, n) = a[n] /\ Place(a1, blk, 0 .. tot - 1, n) = 0
    BY <2>2, <2>6 DEF Place
  <2>10. \A m \in Pos : m # n => Place(a1, blk, 0 .. tot - 1, m) = Place(a, blk, 0 .. tot - 1, m)
    <3> SUFFICES ASSUME NEW m \in Pos, m # n PROVE Place(a1, blk, 0 .. tot - 1, m) = Place(a, blk, 0 .. tot - 1, m)
      OBVIOUS
    <3>1. a1[NDIRECT] = a[NDIRECT]
      BY <1>9, <2>2, <2>6
    <3>2. m <= NDIRECT => a1[m] = a[m]
      BY <1>9, <1>11, <2>6
    <3> QED
      BY <3>1, <3>2 DEF Place
  <2>11. /\ Named(i, n) = a[n] /\ Named(i, n)' = 0 /\ \A m \in Pos : m # n => Named(i, m)' = Named(i, m)
    BY <1>12, <2>2, <2>8, <2>9, <2>10
  <2>12. free' = free \cup {Named(i, n)} /\ Named(i, n) # 0
    BY <2>2, <2>3, <2>11
  <2>13. at' \in [Proc -> WriteCalls] /\ (\A q \in Proc : q # p => at'[q] = at[q]) /\ panic' \in BOOLEAN
    <3>1. panic' \in BOOLEAN
      <4>1. (a[n] \in free) \in BOOLEAN
        OBVIOUS
      <4> QED
        BY <2>3, <4>1
    <3> QED
      BY <2>3, <3>1, CallFacts
  <2>14. at'[p].at = "trunc" /\ at'[p].ip = i /\ at'[p].fl = 0 /\ at'[p].old = <<>>
    BY <1>1, <1>2, <1>3, <2>3
  <2>15. Freed(p, i, n)
    BY <1>1, <1>2, <1>10, <2>3, <2>5, <2>11, <2>12, <2>13, <2>14 DEF Freed
  <2> QED
    BY <2>2, <2>15, FreedStep
<1>15. CASE direct = {} /\ listed # {}
  <2>1. PICK k \in Nat : k \in listed /\ k = Bl!Min(listed) /\ \A m \in listed : k <= m
    <3>1. listed \subseteq Nat
      BY <1>7
    <3>2. PICK k \in listed : k = Bl!Min(listed)
      BY <1>15, <3>1, LeastBlock
    <3>3. \A m \in listed : k <= m
      BY <1>15, <3>1, <3>2, LeastOfAll
    <3> QED
      BY <3>1, <3>2, <3>3
  <2>2. k \in Nat /\ k >= tot /\ k \in 0 .. BSIZE - 1 /\ slot # 0 /\ blk[slot][k] # 0
    BY <1>7, <1>9, <2>1
  <2>3. \A m \in tot .. k - 1 : blk[slot][m] = 0
    BY <1>7, <1>9, <2>1, <2>2
  <2>4. PICK w \in Pos : w = NDIRECT + 1 + k /\ w > NDIRECT /\ ~(w <= NDIRECT) /\ w - NDIRECT - 1 = k
    BY <1>9, <2>2 DEF Pos
  <2>5. /\ free' = free \cup {blk[slot][k]} /\ dirty' = [dirty EXCEPT ![p] = @ \cup {0}]
        /\ at' = [at EXCEPT ![p].tot = k + 1] /\ addrs' = addrs /\ size' = size /\ lock' = lock
        /\ panic' = (blk[slot][k] \in free)
    BY <1>2, <1>5, <1>8, <1>15, <2>1, Zenon DEF Bl!itrunc, Bl!bfree, Bl!Bitmap
  <2>6. PICK c : c = [at[p] EXCEPT !.tot = k + 1]
    OBVIOUS
  <2>7. c = [at |-> "trunc", fl |-> 0, ip |-> i, src |-> at[p].src, n1 |-> at[p].n1, tot |-> k + 1, old |-> <<>>]
    <3>1. PICK d : d = at[p]
      OBVIOUS
    <3>2. d = [at |-> "trunc", fl |-> 0, ip |-> i, src |-> d.src, n1 |-> d.n1, tot |-> d.tot, old |-> <<>>]
      BY <1>1, <1>2, <1>3, <3>1, CallFacts
    <3>3. c = [d EXCEPT !.tot = k + 1]
      BY <2>6, <3>1
    <3>4. c = [at |-> "trunc", fl |-> 0, ip |-> i, src |-> d.src, n1 |-> d.n1, tot |-> k + 1, old |-> <<>>]
      BY <3>2, <3>3
    <3> QED
      BY <3>1, <3>4
  <2>8. c \in WriteCalls
    <3>1. k + 1 \in Nat /\ at[p].src \in Seq(Byte) /\ at[p].n1 \in Nat /\ <<>> \in Seq(Byte \cup Nat)
      <4>1. k + 1 \in Nat
        OBVIOUS
      <4>2. <<>> \in Seq(Byte \cup Nat)
        BY EmptySeq
      <4> QED
        BY <4>1, <4>2, CallFacts
    <3> QED
      BY <2>7, <3>1 DEF WriteCalls
  <2>9. at' \in [Proc -> WriteCalls] /\ at'[p] = c /\ \A q \in Proc : q # p => at'[q] = at[q]
    BY <2>5, <2>6, <2>8, CallFacts
  <2>10. Bl!Passed(i)' = 0 .. k
    <3>1. \A q \in Proc : at[q].at = "trunc" /\ at[q].ip = i => q = p
      BY <1>1, <1>2, OneTruncates
    <3>2. {q \in Proc : at'[q].at = "trunc" /\ at'[q].ip = i} = {p}
      BY <2>7, <2>9, <3>1
    <3>3. 0 .. at'[p].tot - 1 = 0 .. k
      <4>1. at'[p].tot = k + 1 /\ k + 1 - 1 = k
        BY <2>2, <2>7, <2>9
      <4> QED
        BY <4>1
    <3>4. {0 .. at'[q].tot - 1 : q \in {p}} = {0 .. at'[p].tot - 1}
      OBVIOUS
    <3> QED
      BY <3>2, <3>3, <3>4 DEF Bl!Passed
  <2>11. \A m \in Pos : Named(i, m)' = Place(a, blk, 0 .. k, m)
    BY <1>5, <1>10, <2>5, <2>10 DEF Named
  <2>12. Place(a, blk, 0 .. tot - 1, w) = blk[slot][k] /\ Place(a, blk, 0 .. k, w) = 0
    BY <1>5, <2>2, <2>4 DEF Place
  <2>13. \A m \in Pos : m # w => Place(a, blk, 0 .. k, m) = Place(a, blk, 0 .. tot - 1, m)
    <3> SUFFICES ASSUME NEW m \in Pos, m # w PROVE Place(a, blk, 0 .. k, m) = Place(a, blk, 0 .. tot - 1, m)
      OBVIOUS
    <3>1. CASE m <= NDIRECT
      BY <3>1 DEF Place
    <3>2. CASE ~(m <= NDIRECT)
      <4>1. PICK h \in 0 .. BSIZE - 1 : h = m - NDIRECT - 1 /\ h # k
        <5>1. m \in Nat /\ m > NDIRECT /\ m - NDIRECT - 1 \in 0 .. BSIZE - 1
          BY <1>9, <1>11, <3>2
        <5>2. m - NDIRECT - 1 # k
          BY <1>9, <2>4, <5>1
        <5> QED
          BY <5>1, <5>2
      <4>2. /\ Place(a, blk, 0 .. k, m) = IF h \notin 0 .. k THEN blk[slot][h] ELSE 0
            /\ Place(a, blk, 0 .. tot - 1, m) = IF h \notin 0 .. tot - 1 THEN blk[slot][h] ELSE 0
        BY <1>5, <2>2, <3>2, <4>1 DEF Place
      <4>3. h \notin 0 .. k <=> h > k
        BY <1>9, <2>2, <4>1
      <4>4. h \notin 0 .. tot - 1 <=> h >= tot
        BY <1>9, <4>1
      <4>5. h >= tot /\ ~(h > k) => blk[slot][h] = 0
        BY <1>9, <2>2, <2>3, <4>1
      <4>6. h > k => h >= tot
        BY <1>9, <2>2, <4>1
      <4> QED
        BY <4>2, <4>3, <4>4, <4>5, <4>6
    <3> QED
      BY <3>1, <3>2
  <2>14. /\ Named(i, w) = blk[slot][k] /\ Named(i, w)' = 0 /\ \A m \in Pos : m # w => Named(i, m)' = Named(i, m)
    BY <1>12, <2>11, <2>12, <2>13
  <2>15. free' = free \cup {Named(i, w)} /\ Named(i, w) # 0 /\ panic' \in BOOLEAN
    BY <2>2, <2>5, <2>14
  <2>16. at'[p].at = "trunc" /\ at'[p].ip = i /\ at'[p].fl = 0 /\ at'[p].old = <<>>
    BY <2>7, <2>9
  <2>17. addrs' \in [Inode -> [0 .. NDIRECT -> 0 .. NBlocks]] /\ \A j \in Inode : j # i => addrs'[j] = addrs[j]
    BY <1>13, <2>5
  <2>18. Freed(p, i, w)
    BY <1>1, <1>2, <1>10, <2>5, <2>9, <2>14, <2>15, <2>16, <2>17 DEF Freed
  <2> QED
    BY <2>18, FreedStep
<1>16. ASSUME direct = {} /\ listed = {} PROVE \A m \in Pos : m # NDIRECT => Named(i, m) = 0
  <2> SUFFICES ASSUME NEW m \in Pos, m # NDIRECT PROVE Place(a, blk, 0 .. tot - 1, m) = 0
    BY <1>12
  <2>1. CASE m <= NDIRECT
    <3>1. m \in 0 .. NDIRECT - 1
      BY <1>9, <1>11, <2>1
    <3> QED
      BY <1>6, <1>16, <2>1, <3>1 DEF Place
  <2>2. CASE ~(m <= NDIRECT)
    <3>1. PICK h \in 0 .. BSIZE - 1 : h = m - NDIRECT - 1
      BY <1>9, <1>11, <2>2
    <3>2. Place(a, blk, 0 .. tot - 1, m) = IF slot # 0 /\ h \notin 0 .. tot - 1 THEN blk[slot][h] ELSE 0
      BY <1>5, <2>2, <3>1 DEF Place
    <3>3. h \notin 0 .. tot - 1 => h \in tot .. BSIZE - 1
      BY <1>9, <3>1
    <3>4. h \in tot .. BSIZE - 1 => slot = 0 \/ blk[slot][h] = 0
      BY <1>7, <1>16
    <3> QED
      BY <3>2, <3>3, <3>4
  <2> QED
    BY <2>1, <2>2
<1>17. CASE direct = {} /\ listed = {} /\ slot # 0
  <2>1. /\ free' = free \cup {slot} /\ dirty' = [dirty EXCEPT ![p] = @ \cup {0}] /\ panic' = (slot \in free)
        /\ addrs' = [addrs EXCEPT ![i][NDIRECT] = 0] /\ size' = size /\ lock' = lock /\ at' = at
    BY <1>2, <1>5, <1>8, <1>17, Zenon DEF Bl!itrunc, Bl!bfree, Bl!Bitmap
  <2>2. PICK a1 \in [0 .. NDIRECT -> 0 .. NBlocks] : a1 = [a EXCEPT ![NDIRECT] = 0]
    <3>1. 0 \in 0 .. NBlocks
      BY <1>9
    <3>2. [a EXCEPT ![NDIRECT] = 0] \in [0 .. NDIRECT -> 0 .. NBlocks]
      BY <1>9, <3>1
    <3> QED
      BY <3>2
  <2>3. /\ addrs' \in [Inode -> [0 .. NDIRECT -> 0 .. NBlocks]] /\ addrs'[i] = a1
        /\ \A j \in Inode : j # i => addrs'[j] = addrs[j]
    BY <1>5, <1>13, <2>1, <2>2
  <2>4. a1[NDIRECT] = 0 /\ \A m \in 0 .. NDIRECT : m # NDIRECT => a1[m] = a[m]
    BY <1>9, <2>2
  <2>5. Bl!Passed(i)' = 0 .. tot - 1
    <3>1. \A q \in Proc : /\ at'[q].at = "trunc" /\ at'[q].ip = i <=> at[q].at = "trunc" /\ at[q].ip = i
                          /\ at[q].at = "trunc" /\ at[q].ip = i => at'[q].tot = at[q].tot
      BY <2>1
    <3> QED
      BY <1>4, <3>1, PassedSame
  <2>6. \A m \in Pos : Named(i, m)' = Place(a1, blk, 0 .. tot - 1, m)
    BY <1>10, <2>3, <2>5 DEF Named
  <2>7. \A m \in Pos : Named(i, m)' = 0
    <3>1. \A m \in Pos : m <= NDIRECT /\ m # NDIRECT => a1[m] = 0
      <4>1. \A m \in Pos : m <= NDIRECT /\ m # NDIRECT => m \in 0 .. NDIRECT - 1 /\ m \in 0 .. NDIRECT
        BY <1>9, <1>11
      <4>2. \A m \in 0 .. NDIRECT - 1 : a[m] = 0
        BY <1>6, <1>17
      <4> QED
        BY <2>4, <4>1, <4>2
    <3>2. \A m \in Pos : Place(a1, blk, 0 .. tot - 1, m) = 0
      BY <2>4, <3>1 DEF Place
    <3> QED
      BY <2>6, <3>2
  <2>8. Named(i, NDIRECT) = slot
    BY <1>5, <1>9, <1>12 DEF Place
  <2>9. \A m \in Pos : m # NDIRECT => Named(i, m)' = Named(i, m)
    BY <1>16, <1>17, <2>7
  <2>10. free' = free \cup {Named(i, NDIRECT)} /\ Named(i, NDIRECT) # 0 /\ Named(i, NDIRECT)' = 0 /\ panic' \in BOOLEAN
    BY <1>9, <1>17, <2>1, <2>7, <2>8
  <2>11. at' \in [Proc -> WriteCalls] /\ (\A q \in Proc : q # p => at'[q] = at[q])
    BY <2>1, CallFacts
  <2>12. at'[p].at = "trunc" /\ at'[p].ip = i /\ at'[p].fl = 0 /\ at'[p].old = <<>>
    BY <1>1, <1>2, <1>3, <2>1
  <2>13. Freed(p, i, NDIRECT)
    BY <1>1, <1>2, <1>10, <2>1, <2>3, <2>9, <2>10, <2>11, <2>12 DEF Freed
  <2> QED
    BY <1>9, <2>13, FreedStep
<1>18. CASE direct = {} /\ listed = {} /\ slot = 0
  <2>1. /\ size' = [size EXCEPT ![i] = 0] /\ lock' = [lock EXCEPT ![i] = 0] /\ at' = [at EXCEPT ![p] = Bl!Idle]
        /\ dirty' = [dirty EXCEPT ![p] = @ \cup {-1}] /\ free' = free /\ addrs' = addrs /\ panic' = panic
    BY <1>2, <1>5, <1>8, <1>18, Zenon DEF Bl!itrunc, Bl!InodeBlock, Bl!NoProc
  <2>2. at' \in [Proc -> WriteCalls] /\ at'[p] = Bl!Idle /\ \A q \in Proc : q # p => at'[q] = at[q]
    BY <2>1, CallFacts, IdleCall
  <2>3. at'[p].at = "idle"
    BY <2>2, IdleCall
  <2>4. \A m \in Pos : Named(i, m) = 0
    <3>1. Named(i, NDIRECT) = slot
      BY <1>5, <1>9, <1>12 DEF Place
    <3> QED
      BY <1>16, <1>18, <3>1
  <2>5. Bl!Passed(i)' = {}
    <3>1. {q \in Proc : at'[q].at = "trunc" /\ at'[q].ip = i} = {}
      <4>1. \A q \in Proc : at[q].at = "trunc" /\ at[q].ip = i => q = p
        BY <1>1, <1>2, OneTruncates
      <4> QED
        BY <2>2, <2>3, <4>1
    <3> QED
      BY <3>1 DEF Bl!Passed
  <2>6. \A m \in Pos : Named(i, m)' = 0
    <3>1. \A m \in Pos : Named(i, m)' = Place(a, blk, {}, m)
      BY <1>5, <1>10, <2>1, <2>5 DEF Named
    <3>2. \A m \in Pos : m <= NDIRECT => a[m] = 0
      <4>1. \A m \in Pos : m <= NDIRECT /\ m # NDIRECT => m \in 0 .. NDIRECT - 1
        BY <1>9, <1>11
      <4>2. \A m \in 0 .. NDIRECT - 1 : a[m] = 0
        BY <1>6, <1>18
      <4> QED
        BY <1>5, <1>18, <4>1, <4>2
    <3>3. \A m \in Pos : Place(a, blk, {}, m) = 0
      BY <1>5, <1>18, <3>2 DEF Place
    <3> QED
      BY <3>1, <3>3
  <2>7. \A j \in Inode : \A m \in Pos : Named(j, m)' = Named(j, m)
    <3>1. \A j \in Inode : j # i => Bl!Passed(j)' = Bl!Passed(j)
      <4>1. \A j \in Inode : j # i => \A q \in Proc :
              /\ at'[q].at = "trunc" /\ at'[q].ip = j <=> at[q].at = "trunc" /\ at[q].ip = j
              /\ at[q].at = "trunc" /\ at[q].ip = j => at'[q].tot = at[q].tot
        BY <1>2, <2>2, <2>3
      <4> QED
        BY <4>1, PassedSame
    <3>2. \A j \in Inode : j # i => \A m \in Pos : Named(j, m)' = Named(j, m)
      BY <1>10, <2>1, <3>1 DEF Named, Place
    <3> QED
      BY <2>4, <2>6, <3>2
  <2>8. PICK M \in Nat : M = BSIZE * (NDIRECT + BSIZE)
    <3>1. NDIRECT + BSIZE \in Nat
      BY <1>9
    <3> QED
      BY <3>1, BlocksInOrder
  <2>9. /\ size' \in [Inode -> 0 .. M] /\ size'[i] = 0 /\ \A j \in Inode : j # i => size'[j] = size[j]
    BY <2>1, <2>8 DEF FileInv, BlockType
  <2>10. /\ lock' \in [Inode -> Proc \cup {0}] /\ lock'[i] = 0 /\ \A j \in Inode : j # i => lock'[j] = lock[j]
    BY <2>1 DEF FileInv, BlockType
  <2>11. off' \in [File -> 0 .. M] /\ \A q \in Proc : q # p /\ at[q].at = "copy" => off'[at[q].fl] = off[at[q].fl]
    BY <1>10, <2>8 DEF FileInv, BlockType
  <2>12. PICK D : D = dirty[p] /\ D \subseteq {0, -1} /\ IsFiniteSet(D)
    BY <1>1 DEF FileInv, Reserved, BlockType
  <2>13. dirty'[p] = D \cup {-1} /\ dirty' \in [Proc -> SUBSET Int] /\ \A q \in Proc : q # p => dirty'[q] = dirty[q]
    <3>1. PICK E : E = D \cup {-1}
      OBVIOUS
    <3>2. 0 \in Int /\ -1 \in Int
      OBVIOUS
    <3>3. E \in SUBSET Int
      BY <2>12, <3>1, <3>2
    <3>4. dirty' = [dirty EXCEPT ![p] = E]
      BY <2>1, <2>12, <3>1
    <3> QED
      BY <3>1, <3>3, <3>4 DEF FileInv, BlockType
  <2>14. IsFiniteSet(dirty'[p]) /\ Cardinality(dirty'[p]) <= 2 /\ Cardinality(dirty'[p]) \in Nat
    <3>1. PICK S : S = D \cup {-1}
      OBVIOUS
    <3>2. IsFiniteSet(S)
      BY <2>12, <3>1, FS_AddElement
    <3>3. S \ {0, -1} = {}
      BY <2>12, <3>1
    <3>4. Cardinality(S \ {0, -1}) <= 0
      <4>1. Cardinality({}) <= 0
        BY FS_EmptySet
      <4> QED
        BY <3>3, <4>1, Zenon
    <3>5. Cardinality(S) <= 0 + 2 /\ Cardinality(S) \in Nat
      BY <3>2, <3>4, AllButTwo
    <3> QED
      BY <2>13, <3>1, <3>2, <3>5
  <2>15. \A j \in Inode : lock[j] = p => j = i
    BY <1>2, <1>3 DEF FileInv, LockedBy
  <2>16. Calling(p)' /\ Written(p)'
    BY <2>3 DEF Calling, Written
  <2>17. Reserved(p)'
    BY <2>3, <2>14 DEF Reserved, BlockSizes
  <2>18. LockedBy(i)' /\ ~Truncated(i)' /\ EndOf(i)' = 0
    BY <2>9, <2>10 DEF LockedBy, Truncated, EndOf
  <2>19. Covered(i)'
    <3>1. \A m \in Pos : First(m) \in Nat
      BY PosFacts
    <3>2. \A m \in Pos : ~(First(m) < 0)
      BY <3>1
    <3>3. Pos' = Pos /\ \A m : First(m)' = First(m)
      BY DEF Pos, First
    <3> QED
      BY <2>6, <2>18, <3>2, <3>3 DEF Covered
  <2> QED
    BY <1>3, <1>10, <1>13, <2>1, <2>2, <2>7, <2>8, <2>9, <2>10, <2>11, <2>13, <2>14, <2>15, <2>16, <2>17, <2>18, <2>19, LockStep
<1> QED
  BY <1>14, <1>15, <1>17, <1>18

-------------------------------------------------------------------------------
(* writei() *)

\* No two positions of the inode name one block.
Apart(s) ==
    \A n, m \in Pos : Place(s.a, s.blk, {}, n) # 0 /\ Place(s.a, s.blk, {}, n) = Place(s.a, s.blk, {}, m) => n = m

LEMMA MappedApart ==
    ASSUME BlockSizes, NEW s, Work(s), NEW q \in 0 .. NDIRECT + BSIZE - 1, NEW t, Mapped(s, q, t), Apart(s)
    PROVE  /\ Apart(t)
           /\ \A n \in Pos : Place(t.a, t.blk, {}, n) # 0 <=>
                \/ Place(s.a, s.blk, {}, n) # 0 \/ n = PosOf(q) \/ (n = NDIRECT /\ NDIRECT <= q)
           /\ t.b # t.a[NDIRECT] /\ t.b # s.a[NDIRECT] /\ t.b # 0
           /\ s.a[NDIRECT] # 0 => t.a[NDIRECT] = s.a[NDIRECT]
           /\ t.a[NDIRECT] = Place(t.a, t.blk, {}, NDIRECT) /\ s.a[NDIRECT] = Place(s.a, s.blk, {}, NDIRECT)
<1>1. PICK P, R : /\ \A n \in Pos : P[n] = Place(s.a, s.blk, {}, n)
                  /\ \A n \in Pos : R[n] = Place(t.a, t.blk, {}, n)
  <2>1. PICK P : P = [n \in Pos |-> Place(s.a, s.blk, {}, n)]
    OBVIOUS
  <2>2. PICK R : R = [n \in Pos |-> Place(t.a, t.blk, {}, n)]
    OBVIOUS
  <2>3. \A n \in Pos : P[n] = Place(s.a, s.blk, {}, n)
    BY <2>1
  <2>4. \A n \in Pos : R[n] = Place(t.a, t.blk, {}, n)
    BY <2>2
  <2> QED
    BY <2>3, <2>4
<1>2. PosOf(q) \in Pos /\ PosOf(q) # NDIRECT /\ NDIRECT \in Pos
  BY PosFacts
<1>3. PICK pq \in Pos : pq = PosOf(q) /\ pq # NDIRECT
  BY <1>2
<1>4. 0 \notin s.free /\ \A n \in Pos : P[n] \notin s.free
  BY <1>1 DEF Work, BlockSizes
<1>5. \A n, m \in Pos : P[n] # 0 /\ P[n] = P[m] => n = m
  BY <1>1 DEF Apart
<1>6. /\ \A n \in Pos : R[n] # P[n] => P[n] = 0 /\ R[n] \in s.free \ t.free /\ (n = pq \/ (n = NDIRECT /\ NDIRECT <= q))
      /\ \A n, m \in Pos : R[n] # P[n] /\ R[m] # P[m] /\ n # m => R[n] # R[m]
      /\ R[pq] = t.b /\ t.b # 0
  BY <1>1, <1>3 DEF Mapped, BlockSizes
<1>7. R[NDIRECT] = t.a[NDIRECT] /\ P[NDIRECT] = s.a[NDIRECT] /\ (NDIRECT <= q => R[NDIRECT] # 0)
  <2>1. NDIRECT <= NDIRECT
    BY DEF BlockSizes
  <2> QED
    BY <1>1, <1>2, <2>1 DEF Place, Mapped
<1>8. \A n, m \in Pos : R[n] # 0 /\ R[n] = R[m] => n = m
  BY <1>4, <1>5, <1>6
<1>9. \A n \in Pos : R[n] # 0 <=> P[n] # 0 \/ n = pq \/ (n = NDIRECT /\ NDIRECT <= q)
  BY <1>6, <1>7
<1>10. t.b # R[NDIRECT] /\ (P[NDIRECT] # 0 => R[NDIRECT] = P[NDIRECT])
  BY <1>2, <1>3, <1>6, <1>8
<1>11. t.b # P[NDIRECT]
  BY <1>6, <1>10
<1>12. Apart(t)
  BY <1>1, <1>8 DEF Apart
<1> QED
  BY <1>1, <1>2, <1>3, <1>6, <1>7, <1>9, <1>10, <1>11, <1>12

\* The inode owns what bmap() has allocated for it.
Gains(N, fr, i, N1, fr1) ==
    /\ fr1 \subseteq fr
    /\ \A j \in Inode : j # i => \A n \in Pos : N1[j][n] = N[j][n]
    /\ \A n \in Pos : N1[i][n] # N[i][n] => N[i][n] = 0 /\ N1[i][n] \in fr \ fr1
    /\ \A b \in fr \ fr1 : \E n \in Pos : N1[i][n] = b
    /\ \A n, m \in Pos : N1[i][n] # N[i][n] /\ N1[i][m] # N[i][m] /\ n # m => N1[i][n] # N1[i][m]

LEMMA OwnsMore ==
    ASSUME BlockSizes, NEW N, NEW fr, Owns(N, fr), NEW fr1, fr \subseteq 1 .. NBlocks, NEW i \in Inode, NEW N1,
           Gains(N, fr, i, N1, fr1)
    PROVE  Owns(N1, fr1)
<1>0. /\ fr1 \subseteq fr
      /\ \A j \in Inode : j # i => \A n \in Pos : N1[j][n] = N[j][n]
      /\ \A n \in Pos : N1[i][n] # N[i][n] => N[i][n] = 0 /\ N1[i][n] \in fr \ fr1
      /\ \A b \in fr \ fr1 : \E n \in Pos : N1[i][n] = b
      /\ \A n, m \in Pos : N1[i][n] # N[i][n] /\ N1[i][m] # N[i][m] /\ n # m => N1[i][n] # N1[i][m]
  BY DEF Gains
<1>1. /\ \A j \in Inode, n \in Pos : N[j][n] \in 0 .. NBlocks /\ N[j][n] \notin fr
      /\ \A h, j \in Inode, n, m \in Pos : N[h][n] # 0 /\ N[h][n] = N[j][m] => h = j /\ n = m
      /\ \A c \in 1 .. NBlocks : c \notin fr => \E j \in Inode, n \in Pos : N[j][n] = c
  BY DEF Owns
<1>2. NBlocks \in Nat /\ 0 \notin fr
  BY DEF BlockSizes
<1>3. \A j \in Inode, n \in Pos : N1[j][n] = N[j][n] \/ (j = i /\ N[i][n] = 0 /\ N1[i][n] \in fr \ fr1)
  BY <1>0
<1>4. \A j \in Inode, n \in Pos : N1[j][n] \in 0 .. NBlocks /\ N1[j][n] \notin fr1
  <2> SUFFICES ASSUME NEW j \in Inode, NEW n \in Pos PROVE N1[j][n] \in 0 .. NBlocks /\ N1[j][n] \notin fr1
    OBVIOUS
  <2>1. CASE N1[j][n] = N[j][n]
    BY <1>0, <1>1, <2>1
  <2>2. CASE N1[j][n] # N[j][n]
    <3>1. N1[j][n] \in fr \ fr1
      BY <1>3, <2>2
    <3>2. fr \subseteq 0 .. NBlocks
      BY <1>2
    <3> QED
      BY <3>1, <3>2
  <2> QED
    BY <2>1, <2>2
<1>5. \A h, j \in Inode, n, m \in Pos : N1[h][n] # 0 /\ N1[h][n] = N1[j][m] => h = j /\ n = m
  <2> SUFFICES ASSUME NEW h \in Inode, NEW j \in Inode, NEW n \in Pos, NEW m \in Pos, N1[h][n] # 0, N1[h][n] = N1[j][m]
               PROVE  h = j /\ n = m
    OBVIOUS
  <2>1. CASE N1[h][n] = N[h][n] /\ N1[j][m] = N[j][m]
    <3>1. N[h][n] # 0 /\ N[h][n] = N[j][m]
      BY <2>1
    <3> QED
      BY <1>1, <3>1
  <2>2. CASE N1[h][n] # N[h][n] /\ N1[j][m] = N[j][m]
    <3>1. N1[h][n] \in fr /\ N[j][m] \notin fr
      BY <1>1, <1>3, <2>2
    <3> QED
      BY <2>2, <3>1
  <2>3. CASE N1[h][n] = N[h][n] /\ N1[j][m] # N[j][m]
    <3>1. N1[j][m] \in fr /\ N[h][n] \notin fr
      BY <1>1, <1>3, <2>3
    <3> QED
      BY <2>3, <3>1
  <2>4. CASE N1[h][n] # N[h][n] /\ N1[j][m] # N[j][m]
    <3>1. h = i /\ j = i
      BY <1>3, <2>4
    <3> QED
      BY <1>0, <2>4, <3>1
  <2> QED
    BY <2>1, <2>2, <2>3, <2>4
<1>6. \A c \in 1 .. NBlocks : c \notin fr1 => \E j \in Inode, n \in Pos : N1[j][n] = c
  <2> SUFFICES ASSUME NEW c \in 1 .. NBlocks, c \notin fr1 PROVE \E j \in Inode, n \in Pos : N1[j][n] = c
    OBVIOUS
  <2>1. CASE c \in fr
    BY <1>0, <2>1
  <2>2. CASE c \notin fr
    <3>1. PICK j \in Inode, n \in Pos : N[j][n] = c
      BY <1>1, <2>2
    <3>2. N1[j][n] = c
      BY <1>2, <1>3, <3>1
    <3> QED
      BY <3>2
  <2> QED
    BY <2>1, <2>2
<1> QED
  BY <1>4, <1>5, <1>6 DEF Owns

\* What bmap() looks up is what the positions name.
LEMMA PlaceBlock ==
    ASSUME BlockSizes, NEW a, NEW bl, NEW k \in 0 .. NDIRECT + BSIZE - 1, NDIRECT <= k => a[NDIRECT] # 0
    PROVE  (IF k < NDIRECT THEN a[k] ELSE bl[a[NDIRECT]][k - NDIRECT]) = Place(a, bl, {}, PosOf(k))
<1>1. NDIRECT \in Nat /\ k \in Nat
  BY DEF BlockSizes
<1>2. CASE k < NDIRECT
  BY <1>1, <1>2 DEF Place, PosOf
<1>3. CASE ~(k < NDIRECT)
  <2>1. PICK z \in Nat : z = PosOf(k) /\ ~(z <= NDIRECT) /\ z - NDIRECT - 1 = k - NDIRECT /\ NDIRECT <= k
    <3>1. PosOf(k) = k + 1
      BY <1>3 DEF PosOf
    <3>2. k + 1 \in Nat /\ ~(k + 1 <= NDIRECT) /\ (k + 1) - NDIRECT - 1 = k - NDIRECT /\ NDIRECT <= k
      BY <1>1, <1>3
    <3> QED
      BY <3>1, <3>2
  <2> QED
    BY <1>3, <2>1 DEF Place
<1> QED
  BY <1>2, <1>3

\* A turn of the loop of writei() writes in one block, and up to its end or that of the data.
Ahead(f, tot, n, o, q, r, m) ==
    /\ tot < n /\ (0 < tot => (f + tot) % BSIZE = 0)
    /\ o = f + tot /\ q = o \div BSIZE /\ r = o % BSIZE /\ m = Bl!Chunk(n - tot, r)

Moves(f, tot, n, o, q, r, m) ==
    /\ o \in Nat /\ q \in Nat /\ r \in 0 .. BSIZE - 1 /\ o = BSIZE * q + r
    /\ m \in Nat \ {0} /\ m <= BSIZE - r /\ tot + m <= n
    /\ tot + m < n => (f + (tot + m)) % BSIZE = 0
    /\ \A k \in Nat : k >= o /\ k < o + m => k \div BSIZE = q /\ k % BSIZE = k - o + r
    /\ \A k \in Nat : k \div BSIZE = q => k = BSIZE * q + (k % BSIZE)
    /\ (f + (tot + m) - 1) \div BSIZE - (f \div BSIZE) + 1 =
            (IF tot = 0 THEN 0 ELSE (f + tot - 1) \div BSIZE - (f \div BSIZE) + 1) + 1

LEMMA TurnFacts ==
    ASSUME BlockSizes, NEW f \in Nat, NEW tot \in Nat, NEW n \in Nat, NEW o, NEW q, NEW r, NEW m, Ahead(f, tot, n, o, q, r, m)
    PROVE  Moves(f, tot, n, o, q, r, m)
<1>0. /\ tot < n /\ (0 < tot => (f + tot) % BSIZE = 0)
      /\ o = f + tot /\ q = o \div BSIZE /\ r = o % BSIZE /\ m = Bl!Chunk(n - tot, r)
  BY DEF Ahead
<1>1. o \in Nat /\ q \in Nat /\ r \in 0 .. BSIZE - 1 /\ o = BSIZE * q + r
  <2>1. o \in Nat
    BY <1>0
  <2> QED
    BY <1>0, <2>1, DivFacts
<1>2. PICK B \in Nat \ {0}, Q \in Nat : B = BSIZE /\ Q = BSIZE * q
  BY <1>1, BlocksInOrder DEF BlockSizes
<1>3. PICK x \in Nat \ {0}, y \in Nat \ {0} : x = n - tot /\ y = B - r
  <2>1. n - tot \in Nat \ {0}
    BY <1>0
  <2>2. B - r \in Nat \ {0}
    BY <1>1, <1>2
  <2> QED
    BY <2>1, <2>2
<1>4. m \in {x, y} /\ m <= x /\ m <= y
  BY <1>0, <1>2, <1>3, MinTwo DEF Bl!Chunk
<1>5. m \in Nat \ {0} /\ m <= B - r /\ tot + m <= n
  BY <1>3, <1>4
<1>6. ASSUME tot + m < n PROVE (f + (tot + m)) % BSIZE = 0
  <2>1. m = B - r
    BY <1>3, <1>4, <1>6
  <2>2. f + (tot + m) = Q + B
    BY <1>0, <1>1, <1>2, <2>1
  <2>3. BSIZE * (q + 1) + 0 = Q + B /\ q + 1 \in Nat /\ 0 \in 0 .. BSIZE - 1
    BY <1>1, <1>2, BlocksInOrder
  <2>4. (BSIZE * (q + 1) + 0) % BSIZE = 0
    BY <2>3, DivUnique
  <2> QED
    BY <2>2, <2>3, <2>4
<1>7. ASSUME NEW k \in Nat, k >= o, k < o + m PROVE k \div BSIZE = q /\ k % BSIZE = k - o + r
  <2>1. PICK c \in 0 .. BSIZE - 1 : c = k - o + r
    BY <1>1, <1>2, <1>5, <1>7
  <2>2. k = BSIZE * q + c
    BY <1>1, <1>2, <2>1
  <2> QED
    BY <1>1, <2>1, <2>2, DivUnique
<1>8. \A k \in Nat : k \div BSIZE = q => k = BSIZE * q + (k % BSIZE)
  BY DivFacts
<1>9. PICK g \in Nat : g = f \div BSIZE
  BY DivFacts
<1>10. (f + (tot + m) - 1) \div BSIZE = q
  <2>1. f + (tot + m) - 1 = o + m - 1 /\ o + m - 1 \in Nat /\ o + m - 1 >= o /\ o + m - 1 < o + m
    BY <1>0, <1>1, <1>5
  <2> QED
    BY <1>7, <2>1
<1>11. ASSUME tot = 0 PROVE (f + (tot + m) - 1) \div BSIZE - (f \div BSIZE) + 1 =
                (IF tot = 0 THEN 0 ELSE (f + tot - 1) \div BSIZE - (f \div BSIZE) + 1) + 1
  <2>1. g = q
    <3>1. f + tot = f
      BY <1>11
    <3> QED
      BY <1>0, <1>9, <3>1
  <2>2. (f + (tot + m) - 1) \div BSIZE - (f \div BSIZE) + 1 = q - q + 1
    BY <1>9, <1>10, <2>1
  <2>3. q - q + 1 = 0 + 1
    BY <1>1
  <2> QED
    BY <1>11, <2>2, <2>3
<1>12. ASSUME tot # 0 PROVE (f + (tot + m) - 1) \div BSIZE - (f \div BSIZE) + 1 =
                (IF tot = 0 THEN 0 ELSE (f + tot - 1) \div BSIZE - (f \div BSIZE) + 1) + 1
  <2>1. r = 0
    BY <1>0, <1>12
  <2>2. q # 0
    BY <1>0, <1>1, <1>2, <1>12, <2>1, BlocksInOrder
  <2>3. PICK h \in Nat : q = h + 1
    <3>1. q - 1 \in Nat /\ q = (q - 1) + 1
      BY <1>1, <2>2
    <3> QED
      BY <3>1
  <2>4. PICK H \in Nat : H = BSIZE * h /\ Q = H + B
    BY <1>2, <2>3, BlocksInOrder
  <2>5. f + tot - 1 = H + (B - 1) /\ B - 1 \in 0 .. BSIZE - 1
    BY <1>0, <1>1, <1>2, <2>1, <2>4
  <2>6. (BSIZE * h + (B - 1)) \div BSIZE = h
    BY <2>5, DivUnique
  <2>7. (f + tot - 1) \div BSIZE = h
    BY <2>4, <2>5, <2>6
  <2>8. (f + (tot + m) - 1) \div BSIZE - (f \div BSIZE) + 1 = q - g + 1
    BY <1>9, <1>10
  <2>9. (f + tot - 1) \div BSIZE - (f \div BSIZE) + 1 = h - g + 1
    BY <1>9, <2>7
  <2>10. q - g + 1 = (h - g + 1) + 1
    BY <1>1, <1>9, <2>3
  <2> QED
    BY <1>12, <2>8, <2>9, <2>10
<1>13. (f + (tot + m) - 1) \div BSIZE - (f \div BSIZE) + 1 =
                (IF tot = 0 THEN 0 ELSE (f + tot - 1) \div BSIZE - (f \div BSIZE) + 1) + 1
  BY <1>11, <1>12, Zenon
<1>14. m <= BSIZE - r
  BY <1>2, <1>5
<1>15. \A k \in Nat : k >= o /\ k < o + m => k \div BSIZE = q /\ k % BSIZE = k - o + r
  BY <1>7
<1> QED
  BY <1>1, <1>5, <1>6, <1>8, <1>13, <1>14, <1>15, Zenon DEF Moves

\* Free blocks enough for bmap(): those that are missing.
LEMMA MissingEnough ==
    ASSUME BlockSizes, FileInv, NEW i \in Inode, NEW q \in 0 .. NDIRECT + BSIZE - 1,
           ~(Bl!Missing(i, q) > Cardinality(free)),
           NEW s, s.free = free, s.blk = blk, s.a = addrs[i]
    PROVE  Enough(s, q)
<1>1. IsFiniteSet(free) /\ Cardinality(free) \in Nat
  <2>1. free \subseteq 1 .. NBlocks /\ IsFiniteSet(1 .. NBlocks)
    BY FS_Interval DEF FileInv, BlockType, BlockSizes
  <2> QED
    BY <2>1, FS_Subset, FS_CardinalityType
<1>2. Cardinality(free) >= 1 => free # {}
  <2> SUFFICES ASSUME free = {} PROVE ~(Cardinality(free) >= 1)
    OBVIOUS
  <2>1. PICK c : c = Cardinality(free) /\ c = 0
    BY FS_EmptySet, Zenon
  <2> QED
    BY <2>1
<1>3. Cardinality(free) >= 2 => \E x, y \in free : x # y
  <2> SUFFICES ASSUME Cardinality(free) >= 2, \A x, y \in free : x = y PROVE FALSE
    OBVIOUS
  <2>1. PICK x \in free : free = {x}
    BY <1>1, <1>2
  <2>2. Cardinality({x}) = 1
    BY FS_Singleton
  <2> QED
    BY <2>1, <2>2
<1>4. Bl!Missing(i, q) \in {0, 1, 2}
  BY DEF Bl!Missing
<1>5. CASE q < NDIRECT
  BY <1>1, <1>2, <1>4, <1>5 DEF Bl!Missing, Enough
<1>6. CASE ~(q < NDIRECT) /\ addrs[i][NDIRECT] = 0
  <2>1. Bl!Missing(i, q) = 2
    BY <1>6 DEF Bl!Missing
  <2> QED
    BY <1>1, <1>3, <1>6, <2>1 DEF Enough
<1>7. CASE ~(q < NDIRECT) /\ addrs[i][NDIRECT] # 0
  <2>1. blk[addrs[i][NDIRECT]][q - NDIRECT] = 0 => Bl!Missing(i, q) = 1
    BY <1>7 DEF Bl!Missing
  <2> QED
    BY <1>1, <1>2, <1>7, <2>1 DEF Enough
<1> QED
  BY <1>5, <1>6, <1>7

\* A step that changes none of it: no block is left and the machine stops, for one.
LEMMA FilesKept ==
    ASSUME BlockSizes, FileInv, panic' \in BOOLEAN,
           UNCHANGED <<free, blk, addrs, size, lock, off, at, dirty>>
    PROVE  FileInv'
<1>0. free' = free /\ blk' = blk /\ addrs' = addrs /\ size' = size /\ lock' = lock /\ off' = off /\ at' = at /\ dirty' = dirty
  OBVIOUS
<1>1. \A i \in Inode : \A n \in Pos : Named(i, n)' = Named(i, n)
  BY <1>0 DEF Named, Place, Bl!Passed
<1>2. BlockType'
  BY <1>0 DEF FileInv, BlockType, Cells, WriteCalls
<1>3. Owned'
  BY <1>0, <1>1, OwnedKept
<1>4. \A i \in Inode : Covered(i)' /\ LockedBy(i)'
  BY <1>0, <1>1, FileKept
<1>5. \A i, k : Bl!ByteAt(i, k)' = Bl!ByteAt(i, k)
  BY <1>0 DEF Bl!ByteAt, Bl!BlockAt
<1>6. \A q \in Proc : Calling(q)' /\ Written(q)' /\ Reserved(q)'
  BY <1>0, <1>5, CallKept
<1> QED
  BY <1>2, <1>3, <1>4, <1>6 DEF FileInv

\* What bmap() makes of an inode that a write has locked, for block q of the file.
BmapOf(p, i, q, t) ==
    /\ t.free \subseteq free /\ t.a \in [0 .. NDIRECT -> 0 .. NBlocks] /\ t.blk \in [1 .. NBlocks -> Cells]
    /\ t.b \in 1 .. NBlocks /\ Place(t.a, t.blk, {}, PosOf(q)) = t.b /\ Apart(t)
    /\ t.b # t.a[NDIRECT] /\ t.b # addrs[i][NDIRECT]
    /\ addrs[i][NDIRECT] # 0 => t.a[NDIRECT] = addrs[i][NDIRECT]
    /\ NDIRECT <= q => t.a[NDIRECT] # 0
    /\ \A n \in Pos : Place(t.a, t.blk, {}, n) # 0 <=> Named(i, n) # 0 \/ n = PosOf(q) \/ (n = NDIRECT /\ NDIRECT <= q)
    /\ \A n \in Pos : Place(t.a, t.blk, {}, n) # Named(i, n) =>
            Named(i, n) = 0 /\ Place(t.a, t.blk, {}, n) \in free \ t.free
    /\ \A x \in free \ t.free : \E n \in Pos : Place(t.a, t.blk, {}, n) = x
    /\ \A x \in 1 .. NBlocks : x \notin free \ t.free /\ x # addrs[i][NDIRECT] => t.blk[x] = blk[x]
    /\ t.dirty \subseteq dirty[p] \cup {0, t.b, t.a[NDIRECT]}

LEMMA WorkNow ==
    ASSUME BlockSizes, FileInv, NEW i \in Inode, Bl!Passed(i) = {}, NEW d,
           NEW s, s = [free |-> free, blk |-> blk, a |-> addrs[i], dirty |-> d, b |-> 0]
    PROVE  /\ Work(s) /\ Apart(s)
           /\ \A n : Place(s.a, s.blk, {}, n) = Named(i, n)
<1>1. s.free = free /\ s.blk = blk /\ s.a = addrs[i] /\ IsWork(s)
  BY DEF IsWork
<1>2. \A n : Place(s.a, s.blk, {}, n) = Named(i, n)
  BY <1>1 DEF Named
<1>3. \A n \in Pos : Named(i, n) \in 0 .. NBlocks /\ Named(i, n) \notin free
  BY DEF FileInv, Owned
<1>4. \A n, m \in Pos : Named(i, n) # 0 /\ Named(i, n) = Named(i, m) => n = m
  BY DEF FileInv, Owned
<1>5. Apart(s)
  BY <1>2, <1>4 DEF Apart
<1>6. free \subseteq 1 .. NBlocks /\ blk \in [1 .. NBlocks -> Cells] /\ addrs[i] \in [0 .. NDIRECT -> 0 .. NBlocks]
  BY DEF FileInv, BlockType
<1>7. \A n \in Pos : Place(s.a, s.blk, {}, n) \in 0 .. NBlocks /\ Place(s.a, s.blk, {}, n) \notin s.free
  BY <1>1, <1>2, <1>3
<1>8. Work(s)
  BY <1>1, <1>6, <1>7 DEF Work
<1> QED
  BY <1>2, <1>5, <1>8

LEMMA BmapResult ==
    ASSUME BlockSizes, FileInv, NEW p \in Proc, NEW i \in Inode, Bl!Passed(i) = {},
           NEW q \in 0 .. NDIRECT + BSIZE - 1, ~(Bl!Missing(i, q) > Cardinality(free)),
           NEW t, t = Bl!bmap([free |-> free, blk |-> blk, a |-> addrs[i], dirty |-> dirty[p], b |-> 0], q)
    PROVE  BmapOf(p, i, q, t)
<1>1. PICK s : s = [free |-> free, blk |-> blk, a |-> addrs[i], dirty |-> dirty[p], b |-> 0]
  OBVIOUS
<1>2. s.free = free /\ s.blk = blk /\ s.a = addrs[i] /\ s.dirty = dirty[p]
  BY <1>1
<1>3. Work(s) /\ Apart(s) /\ \A n : Place(s.a, s.blk, {}, n) = Named(i, n)
  BY <1>1, WorkNow
<1>4. Enough(s, q)
  BY <1>2, MissingEnough
<1>5. Mapped(s, q, t)
  BY <1>1, <1>3, <1>4, BmapMaps
<1>6. /\ Apart(t)
      /\ \A n \in Pos : Place(t.a, t.blk, {}, n) # 0 <=>
                \/ Place(s.a, s.blk, {}, n) # 0 \/ n = PosOf(q) \/ (n = NDIRECT /\ NDIRECT <= q)
      /\ t.b # t.a[NDIRECT] /\ t.b # s.a[NDIRECT]
      /\ s.a[NDIRECT] # 0 => t.a[NDIRECT] = s.a[NDIRECT]
  BY <1>3, <1>5, MappedApart
<1>7. /\ t.free \subseteq s.free
      /\ t.a \in [0 .. NDIRECT -> 0 .. NBlocks] /\ t.blk \in [1 .. NBlocks -> Cells]
      /\ t.b \in 1 .. NBlocks /\ Place(t.a, t.blk, {}, PosOf(q)) = t.b
      /\ NDIRECT <= q => t.a[NDIRECT] # 0
  BY <1>5 DEF Mapped
<1>8. /\ \A n \in Pos : Place(t.a, t.blk, {}, n) # Place(s.a, s.blk, {}, n) =>
            Place(s.a, s.blk, {}, n) = 0 /\ Place(t.a, t.blk, {}, n) \in s.free \ t.free
      /\ \A x \in s.free \ t.free : \E n \in Pos : Place(t.a, t.blk, {}, n) = x
  BY <1>5 DEF Mapped
<1>9. /\ \A x \in 1 .. NBlocks : x \notin s.free \ t.free /\ x # s.a[NDIRECT] => t.blk[x] = s.blk[x]
      /\ t.dirty \subseteq s.dirty \cup {0, t.b, t.a[NDIRECT]}
  BY <1>5 DEF Mapped
<1>10. \A n \in Pos : Place(t.a, t.blk, {}, n) # 0 <=> Named(i, n) # 0 \/ n = PosOf(q) \/ (n = NDIRECT /\ NDIRECT <= q)
  BY <1>3, <1>6
<1>11. /\ \A n \in Pos : Place(t.a, t.blk, {}, n) # Named(i, n) =>
            Named(i, n) = 0 /\ Place(t.a, t.blk, {}, n) \in free \ t.free
       /\ \A x \in free \ t.free : \E n \in Pos : Place(t.a, t.blk, {}, n) = x
  BY <1>2, <1>3, <1>8
<1>12. /\ \A x \in 1 .. NBlocks : x \notin free \ t.free /\ x # addrs[i][NDIRECT] => t.blk[x] = blk[x]
       /\ t.dirty \subseteq dirty[p] \cup {0, t.b, t.a[NDIRECT]}
  BY <1>2, <1>9
<1> QED
  BY <1>2, <1>6, <1>7, <1>10, <1>11, <1>12 DEF BmapOf

\* That, and the bytes W that go into block q of the file.
TurnStep(p, i, q, t, W) ==
    /\ BmapOf(p, i, q, t) /\ W \in Cells
    /\ free' = t.free /\ addrs' = [addrs EXCEPT ![i] = t.a] /\ blk' = [t.blk EXCEPT ![t.b] = W]
    /\ \A j \in Inode : Bl!Passed(j)' = Bl!Passed(j)

\* The other blocks that are named, but for the indirect block of the file, stay as they are.
LEMMA OtherBlocks ==
    ASSUME BlockSizes, FileInv, NEW p, NEW i \in Inode, NEW q \in 0 .. NDIRECT + BSIZE - 1, NEW t, NEW W, TurnStep(p, i, q, t, W),
           NEW j \in Inode, NEW n \in Pos, Named(j, n) # 0, j # i \/ (n # NDIRECT /\ n # PosOf(q)),
           i = j \/ i # j, Bl!Passed(i) = {}
    PROVE  /\ Named(j, n) \in 1 .. NBlocks /\ Named(j, n) # t.b
           /\ blk'[Named(j, n)] = blk[Named(j, n)]
<1>1. PICK x : x = Named(j, n)
  OBVIOUS
<1>2. x \in 1 .. NBlocks /\ x \notin free
  BY <1>1 DEF FileInv, Owned, BlockSizes
<1>3. PosOf(q) \in Pos /\ NDIRECT \in Pos
  BY PosFacts
<1>4. Named(i, NDIRECT) = addrs[i][NDIRECT]
  BY <1>3, PlaceFacts DEF Named, Place, BlockSizes
<1>5. x # addrs[i][NDIRECT]
  BY <1>1, <1>3, <1>4 DEF FileInv, Owned
<1>6. x # Named(i, PosOf(q))
  BY <1>1, <1>3 DEF FileInv, Owned
<1>7. t.b \in free \/ t.b = Named(i, PosOf(q))
  BY <1>3 DEF TurnStep, BmapOf
<1>8. x # t.b
  BY <1>2, <1>6, <1>7
<1>9. t.blk[x] = blk[x]
  BY <1>2, <1>5 DEF TurnStep, BmapOf
<1>10. blk'[x] = t.blk[x]
  BY <1>2, <1>8 DEF TurnStep, BmapOf
<1> QED
  BY <1>1, <1>2, <1>8, <1>9, <1>10

\* What the positions name after it.
NamedBy(i, t, W) ==
    /\ addrs'[i] = t.a /\ blk'[t.b] = W
    /\ \A n \in Pos : Named(i, n)' = Place(t.a, t.blk, {}, n)
    /\ \A j \in Inode : j # i => \A n \in Pos : Named(j, n)' = Named(j, n)

LEMMA TurnNames ==
    ASSUME BlockSizes, FileInv, NEW p, NEW i \in Inode, NEW q \in 0 .. NDIRECT + BSIZE - 1, NEW t, NEW W, TurnStep(p, i, q, t, W),
           Bl!Passed(i) = {}
    PROVE  /\ addrs' \in [Inode -> [0 .. NDIRECT -> 0 .. NBlocks]]
           /\ \A j \in Inode : j # i => addrs'[j] = addrs[j]
           /\ blk' \in [1 .. NBlocks -> Cells] /\ free' \subseteq 1 .. NBlocks
           /\ NamedBy(i, t, W)
<1>1. addrs' \in [Inode -> [0 .. NDIRECT -> 0 .. NBlocks]] /\ addrs'[i] = t.a /\ \A j \in Inode : j # i => addrs'[j] = addrs[j]
  BY DEF TurnStep, BmapOf, FileInv, BlockType
<1>2. /\ blk' \in [1 .. NBlocks -> Cells] /\ blk'[t.b] = W /\ free' \subseteq 1 .. NBlocks
      /\ \A x \in 1 .. NBlocks : x # t.b => blk'[x] = t.blk[x]
  BY DEF TurnStep, BmapOf, FileInv, BlockType
<1>3. Bl!Passed(i)' = {} /\ \A j \in Inode : Bl!Passed(j)' = Bl!Passed(j)
  BY DEF TurnStep
<1>4. NDIRECT \in 0 .. NDIRECT /\ NDIRECT \in Pos
  BY PosFacts DEF BlockSizes
<1>5. ASSUME NEW n \in Pos PROVE Named(i, n)' = Place(t.a, t.blk, {}, n)
  <2>1. Named(i, n)' = Place(t.a, blk', {}, n)
    BY <1>1, <1>3 DEF Named, Place
  <2>2. t.a[NDIRECT] \in 0 .. NBlocks /\ t.a[NDIRECT] # t.b
    BY <1>4 DEF TurnStep, BmapOf
  <2>3. t.a[NDIRECT] # 0 => blk'[t.a[NDIRECT]] = t.blk[t.a[NDIRECT]]
    BY <1>2, <2>2 DEF BlockSizes
  <2> QED
    BY <2>1, <2>3 DEF Place
<1>6. ASSUME NEW j \in Inode, j # i, NEW n \in Pos PROVE Named(j, n)' = Named(j, n)
  <2>1. Named(j, n)' = Place(addrs[j], blk', Bl!Passed(j), n)
    BY <1>1, <1>3, <1>6 DEF Named, Place
  <2>2. Named(j, NDIRECT) = addrs[j][NDIRECT]
    BY <1>4 DEF Named, Place, BlockSizes
  <2>3. addrs[j][NDIRECT] # 0 => blk'[addrs[j][NDIRECT]] = blk[addrs[j][NDIRECT]]
    BY <1>4, <1>6, <2>2, OtherBlocks
  <2> QED
    BY <2>1, <2>3 DEF Place, Named
<1>7. NamedBy(i, t, W)
  BY <1>1, <1>2, <1>5, <1>6 DEF NamedBy
<1> QED
  BY <1>1, <1>2, <1>7

LEMMA TurnOwned ==
    ASSUME BlockSizes, FileInv, NEW p, NEW i \in Inode, NEW q \in 0 .. NDIRECT + BSIZE - 1, NEW t, NEW W, TurnStep(p, i, q, t, W),
           Bl!Passed(i) = {}
    PROVE  Owned'
<1>1. PICK N : (\A j \in Inode : \A n \in Pos : Named(j, n) = N[j][n]) /\ Owns(N, free)
  BY OwnsNamed DEF FileInv
<1>2. PICK R : R = [n \in Pos |-> Place(t.a, t.blk, {}, n)]
  OBVIOUS
<1>3. \A n \in Pos : R[n] = Place(t.a, t.blk, {}, n)
  BY <1>2
<1>4. PICK N1 : N1 = [j \in Inode |-> IF j = i THEN R ELSE N[j]]
  OBVIOUS
<1>5. N1[i] = R /\ \A j \in Inode : j # i => \A n \in Pos : N1[j][n] = N[j][n]
  BY <1>4
<1>6. \A n \in Pos : R[n] # N[i][n] => N[i][n] = 0 /\ R[n] \in free \ t.free
  BY <1>1, <1>3 DEF TurnStep, BmapOf
<1>7. \A x \in free \ t.free : \E n \in Pos : R[n] = x
  BY <1>3 DEF TurnStep, BmapOf
<1>8. 0 \notin free /\ free \subseteq 1 .. NBlocks /\ t.free \subseteq free
  BY DEF FileInv, BlockType, BlockSizes, TurnStep, BmapOf
<1>9. \A n, m \in Pos : R[n] # N[i][n] /\ R[m] # N[i][m] /\ n # m => R[n] # R[m]
  <2>1. \A n, m \in Pos : R[n] # 0 /\ R[n] = R[m] => n = m
    BY <1>3 DEF TurnStep, BmapOf, Apart
  <2> QED
    BY <1>6, <1>8, <2>1
<1>10. Owns(N1, t.free)
  <2>1. \A n \in Pos : N1[i][n] # N[i][n] => N[i][n] = 0 /\ N1[i][n] \in free \ t.free
    BY <1>5, <1>6
  <2>2. \A x \in free \ t.free : \E n \in Pos : N1[i][n] = x
    BY <1>5, <1>7
  <2>3. \A n, m \in Pos : N1[i][n] # N[i][n] /\ N1[i][m] # N[i][m] /\ n # m => N1[i][n] # N1[i][m]
    BY <1>5, <1>9
  <2>4. Gains(N, free, i, N1, t.free)
    BY <1>5, <1>8, <2>1, <2>2, <2>3 DEF Gains
  <2> QED
    BY <1>1, <1>8, <2>4, OwnsMore
<1>11. \A j \in Inode : \A n \in Pos : Named(j, n)' = N1[j][n]
  <2>1. /\ \A n \in Pos : Named(i, n)' = Place(t.a, t.blk, {}, n)
        /\ \A j \in Inode : j # i => \A n \in Pos : Named(j, n)' = Named(j, n)
    <3>1. NamedBy(i, t, W)
      BY TurnNames
    <3> QED
      BY <3>1 DEF NamedBy
  <2> QED
    BY <1>1, <1>3, <1>5, <2>1
<1>12. Owns(N1, free')
  BY <1>10 DEF TurnStep
<1> QED
  BY <1>11, <1>12, OwnedNext

\* A byte of a file is in the block that its position names.
LEMMA ByteNext ==
    ASSUME BlockSizes, NEW i, NEW k \in Nat, NEW q \in 0 .. NDIRECT + BSIZE - 1, q = k \div BSIZE, Bl!Passed(i)' = {},
           NDIRECT <= q => addrs'[i][NDIRECT] # 0
    PROVE  Bl!ByteAt(i, k)' = blk'[Named(i, PosOf(q))'][k % BSIZE]
<1>1. PICK a, bl : a = addrs'[i] /\ bl = blk'
  OBVIOUS
<1>2. (IF q < NDIRECT THEN a[q] ELSE bl[a[NDIRECT]][q - NDIRECT]) = Place(a, bl, {}, PosOf(q))
  BY <1>1, PlaceBlock
<1>3. Bl!BlockAt(i, q)' = IF q < NDIRECT THEN a[q] ELSE bl[a[NDIRECT]][q - NDIRECT]
  BY <1>1 DEF Bl!BlockAt
<1>4. PICK n : n = PosOf(q)
  OBVIOUS
<1>5. Named(i, n)' = Place(a, bl, {}, n)
  BY <1>1 DEF Named, Place
<1>6. Bl!ByteAt(i, k)' = bl[Bl!BlockAt(i, q)'][k % BSIZE]
  BY <1>1 DEF Bl!ByteAt
<1>7. Named(i, PosOf(q))' = Named(i, n)'
  BY <1>4 DEF PosOf
<1> QED
  BY <1>1, <1>2, <1>3, <1>4, <1>5, <1>6, <1>7

\* The bytes of the other files stay.
LEMMA OtherBytes ==
    ASSUME BlockSizes, FileInv, NEW p, NEW i \in Inode, NEW q \in 0 .. NDIRECT + BSIZE - 1, NEW t, NEW W, TurnStep(p, i, q, t, W),
           Bl!Passed(i) = {}, NEW j \in Inode, j # i, ~Truncated(j), NEW k \in 0 .. EndOf(j) - 1
    PROVE  Bl!ByteAt(j, k)' = Bl!ByteAt(j, k)
<1>1. PICK h \in 0 .. NDIRECT + BSIZE - 1, n \in Pos :
        /\ h = k \div BSIZE /\ n = PosOf(h) /\ (NDIRECT <= h => addrs[j][NDIRECT] # 0)
        /\ Named(j, n) \in 1 .. NBlocks /\ Bl!ByteAt(j, k) = blk[Named(j, n)][k % BSIZE]
  BY ByteBlock
<1>2. addrs'[j] = addrs[j]
  BY TurnNames
<1>3. NamedBy(i, t, W)
  BY TurnNames
<1>4. Named(j, n)' = Named(j, n)
  BY <1>3 DEF NamedBy
<1>5. Bl!Passed(j)' = {}
  <2>1. Bl!Passed(j) = {}
    BY OneTruncates
  <2> QED
    BY <2>1 DEF TurnStep
<1>6. k \in Nat
  <2>1. EndOf(j) \in Int
    BY EndFacts
  <2> QED
    BY <2>1
<1>7. Bl!ByteAt(j, k)' = blk'[Named(j, PosOf(h))'][k % BSIZE]
  BY <1>1, <1>2, <1>5, <1>6, ByteNext
<1>8. Named(j, PosOf(h))' = Named(j, n)'
  BY <1>1 DEF PosOf
<1>9. Named(j, n) # 0
  BY <1>1 DEF BlockSizes
<1>10. blk'[Named(j, n)] = blk[Named(j, n)]
  BY <1>9, OtherBlocks
<1> QED
  BY <1>1, <1>4, <1>7, <1>8, <1>10

\* So do those of the file that are in other blocks; the block has the bytes W.
BytesBy(i, q, t, W) ==
    /\ \A k \in 0 .. EndOf(i) - 1 : k \div BSIZE # q => Bl!ByteAt(i, k)' = Bl!ByteAt(i, k)
    /\ \A k \in 0 .. EndOf(i) - 1 : k \div BSIZE = q => t.blk[t.b][k % BSIZE] = Bl!ByteAt(i, k)
    /\ \A k \in Nat : k \div BSIZE = q => Bl!ByteAt(i, k)' = W[k % BSIZE]

LEMMA FileBytes ==
    ASSUME BlockSizes, FileInv, NEW p, NEW i \in Inode, NEW q \in 0 .. NDIRECT + BSIZE - 1, NEW t, NEW W, TurnStep(p, i, q, t, W),
           Bl!Passed(i) = {}, ~Truncated(i)
    PROVE  BytesBy(i, q, t, W)
<1>1. addrs'[i] = t.a /\ blk'[t.b] = W /\ NamedBy(i, t, W)
  <2>1. NamedBy(i, t, W)
    BY TurnNames
  <2> QED
    BY <2>1 DEF NamedBy
<1>2. \A n \in Pos : Named(i, n)' = Place(t.a, t.blk, {}, n)
  BY <1>1 DEF NamedBy
<1>3. Bl!Passed(i)' = {}
  BY DEF TurnStep
<1>4. /\ addrs[i][NDIRECT] # 0 => t.a[NDIRECT] = addrs[i][NDIRECT]
      /\ NDIRECT <= q => t.a[NDIRECT] # 0
      /\ Place(t.a, t.blk, {}, PosOf(q)) = t.b
      /\ \A n \in Pos : Named(i, n) # 0 => Place(t.a, t.blk, {}, n) = Named(i, n)
  <2>1. free \subseteq 1 .. NBlocks /\ 0 \notin free
    BY DEF FileInv, BlockType, BlockSizes
  <2> QED
    BY <2>1 DEF TurnStep, BmapOf
<1>5. \A k \in 0 .. EndOf(i) - 1 : k \in Nat
  <2>1. EndOf(i) \in Int
    BY EndFacts
  <2> QED
    BY <2>1
<1>6. ASSUME NEW k \in 0 .. EndOf(i) - 1, k \div BSIZE # q PROVE Bl!ByteAt(i, k)' = Bl!ByteAt(i, k)
  <2>1. PICK h \in 0 .. NDIRECT + BSIZE - 1, n \in Pos :
          /\ h = k \div BSIZE /\ n = PosOf(h) /\ (NDIRECT <= h => addrs[i][NDIRECT] # 0)
          /\ Named(i, n) \in 1 .. NBlocks /\ Bl!ByteAt(i, k) = blk[Named(i, n)][k % BSIZE]
    BY ByteBlock
  <2>2. k \in Nat /\ (NDIRECT <= h => addrs'[i][NDIRECT] # 0)
    BY <1>1, <1>4, <1>5, <2>1
  <2>3. Bl!ByteAt(i, k)' = blk'[Named(i, PosOf(h))'][k % BSIZE]
    BY <1>3, <2>1, <2>2, ByteNext
  <2>4. Named(i, PosOf(h))' = Named(i, n)'
    BY <2>1 DEF PosOf
  <2>5. Named(i, n) # 0 /\ n # NDIRECT /\ n # PosOf(q)
    <3>1. Named(i, n) # 0
      BY <2>1 DEF BlockSizes
    <3>2. n # NDIRECT
      BY <2>1, PosFacts
    <3>3. n # PosOf(q)
      BY <1>6, <2>1, PosFacts
    <3> QED
      BY <3>1, <3>2, <3>3
  <2>6. Named(i, n)' = Named(i, n)
    BY <1>2, <1>4, <2>5
  <2>7. blk'[Named(i, n)] = blk[Named(i, n)]
    BY <2>5, OtherBlocks
  <2> QED
    BY <2>1, <2>3, <2>4, <2>6, <2>7
<1>7. ASSUME NEW k \in 0 .. EndOf(i) - 1, k \div BSIZE = q PROVE t.blk[t.b][k % BSIZE] = Bl!ByteAt(i, k)
  <2>1. PICK n \in Pos : n = PosOf(q) /\ Named(i, n) \in 1 .. NBlocks /\ Bl!ByteAt(i, k) = blk[Named(i, n)][k % BSIZE]
    BY <1>7, ByteBlock
  <2>2. Named(i, n) # 0 /\ Named(i, n) \notin free
    BY <2>1 DEF BlockSizes, FileInv, Owned
  <2>3. t.b = Named(i, n) /\ t.b \notin free
    BY <1>4, <2>1, <2>2
  <2>4. t.blk[t.b] = blk[t.b]
    BY <2>1, <2>3 DEF TurnStep, BmapOf
  <2> QED
    BY <2>1, <2>3, <2>4
<1>8. ASSUME NEW k \in Nat, k \div BSIZE = q PROVE Bl!ByteAt(i, k)' = W[k % BSIZE]
  <2>1. Bl!ByteAt(i, k)' = blk'[Named(i, PosOf(q))'][k % BSIZE]
    BY <1>1, <1>3, <1>4, <1>8, ByteNext
  <2>2. PICK n \in Pos : n = PosOf(q)
    BY PosFacts
  <2>3. Named(i, PosOf(q))' = Named(i, n)'
    BY <2>2 DEF PosOf
  <2>4. Named(i, n)' = t.b
    BY <1>2, <1>4, <2>2
  <2> QED
    BY <1>1, <2>1, <2>3, <2>4
<1> QED
  BY <1>6, <1>7, <1>8 DEF BytesBy

\* A turn of the loop of writei() for a call that has written tot of n bytes, from offset F
\* of the file on: m more, into block q from its cell r on.
Turn(p, i, f, F, tot, n, m, q, r, t, W) ==
    /\ at[p].at = "copy" /\ at[p].ip = i /\ at[p].fl = f /\ lock[i] = p /\ ~Truncated(i) /\ Bl!Passed(i) = {}
    /\ off[f] = F /\ at[p].tot = tot /\ at[p].n1 = n /\ tot < n /\ n <= Bl!max /\ n <= Len(at[p].src)
    /\ 0 < tot => (F + tot) % BSIZE = 0
    /\ q = (F + tot) \div BSIZE /\ r = (F + tot) % BSIZE /\ m = Bl!Chunk(n - tot, r)
    /\ W = [c \in 0 .. BSIZE - 1 |-> IF c >= r /\ c < r + m THEN at[p].src[tot + c - r + 1] ELSE t.blk[t.b][c]]
    /\ TurnStep(p, i, q, t, W)
    /\ dirty' = [dirty EXCEPT ![p] = t.dirty \cup {t.b}]
    /\ at' \in [Proc -> WriteCalls] /\ \A x \in Proc : x # p => at'[x] = at[x]
    /\ at'[p] = [at |-> "copy", fl |-> f, ip |-> i, src |-> at[p].src, n1 |-> n, tot |-> tot + m, old |-> at[p].old]
    /\ size' = size /\ lock' = lock /\ off' = off

LEMMA TurnNumbers ==
    ASSUME BlockSizes, NEW p \in Proc, NEW i, NEW f, NEW F \in Nat, NEW tot \in Nat, NEW n \in Nat, NEW m,
           NEW q, NEW r, NEW t, NEW W, Turn(p, i, f, F, tot, n, m, q, r, t, W)
    PROVE  Moves(F, tot, n, F + tot, q, r, m) /\ q = (F + tot) \div BSIZE /\ r = (F + tot) % BSIZE
<1>1. Ahead(F, tot, n, F + tot, q, r, m) /\ q = (F + tot) \div BSIZE /\ r = (F + tot) % BSIZE
  BY DEF Turn, Ahead
<1> QED
  BY <1>1, TurnFacts

LEMMA TurnEnd ==
    ASSUME BlockSizes, FileInv, NEW p \in Proc, NEW i \in Inode, NEW f \in File, NEW F \in Nat, NEW tot \in Nat, NEW n \in Nat, NEW m \in Nat \ {0},
           NEW q, NEW r, NEW t, NEW W, Turn(p, i, f, F, tot, n, m, q, r, t, W)
    PROVE  \E e \in Nat :
           /\ EndOf(i) = e /\ F + tot <= e /\ e <= BSIZE * (NDIRECT + BSIZE)
           /\ EndOf(i)' = IF F + tot + m > e THEN F + tot + m ELSE e
<1>1. PICK e \in Nat : e = EndOf(i) /\ e <= BSIZE * (NDIRECT + BSIZE)
  <2>1. ~Truncated(i)
    BY DEF Turn
  <2>2. EndOf(i) \in 0 .. BSIZE * (NDIRECT + BSIZE) 
    BY <2>1, EndFacts
  <2>3. PICK M \in Nat : M = BSIZE * (NDIRECT + BSIZE)
    <3>1. NDIRECT + BSIZE \in Nat
      BY DEF BlockSizes
    <3> QED
      BY <3>1, BlocksInOrder
  <2> QED
    BY <2>2, <2>3
<1>2. PICK z \in Nat : z = size[i]
  <2>1. ~Truncated(i)
    BY DEF Turn
  <2> QED
    BY <2>1, EndFacts
<1>3. lock[i] = p /\ p # 0 /\ off[at[p].fl] = F /\ at[p].tot = tot
  BY DEF Turn, BlockSizes
<1>4. e = IF F + tot > z THEN F + tot ELSE z
  BY <1>1, <1>2, <1>3 DEF EndOf
<1>5. lock'[i] = p /\ size'[i] = z /\ off'[at'[p].fl] = F /\ at'[p].tot = tot + m
  BY <1>2, <1>3 DEF Turn
<1>6. EndOf(i)' = IF F + (tot + m) > z THEN F + (tot + m) ELSE z
  BY <1>3, <1>5 DEF EndOf
<1>7. EndOf(i)' = IF F + tot + m > e THEN F + tot + m ELSE e
  BY <1>4, <1>6
<1> QED
  BY <1>1, <1>4, <1>7

LEMMA TurnCovers ==
    ASSUME BlockSizes, FileInv, NEW p \in Proc, NEW i \in Inode, NEW f \in File, NEW F \in Nat, NEW tot \in Nat, NEW n \in Nat, NEW m \in Nat \ {0},
           NEW q \in 0 .. NDIRECT + BSIZE - 1, NEW r, NEW t, NEW W, Turn(p, i, f, F, tot, n, m, q, r, t, W)
    PROVE  Covered(i)'
<1>1. PICK e \in Nat :
        /\ EndOf(i) = e /\ F + tot <= e /\ EndOf(i)' = IF F + tot + m > e THEN F + tot + m ELSE e
  BY TurnEnd
<1>2. PICK o \in Nat : o = F + tot /\ r = o % BSIZE /\ q = o \div BSIZE /\ m <= BSIZE - (o % BSIZE)
  <2>1. Moves(F, tot, n, F + tot, q, r, m) /\ q = (F + tot) \div BSIZE /\ r = (F + tot) % BSIZE
    BY TurnNumbers
  <2> QED
    BY <2>1 DEF Moves
<1>3. o \div BSIZE < NDIRECT + BSIZE
  BY <1>2 DEF BlockSizes
<1>4. EndOf(i)' = IF o + m > e THEN o + m ELSE e
  BY <1>1, <1>2
<1>5. \A x \in Pos : First(x) < EndOf(i)' <=> First(x) < e \/ x = PosOf(q) \/ (x = NDIRECT /\ NDIRECT <= q)
  <2> SUFFICES ASSUME NEW x \in Pos
               PROVE  First(x) < EndOf(i)' <=> First(x) < e \/ x = PosOf(q) \/ (x = NDIRECT /\ NDIRECT <= q)
    OBVIOUS
  <2>1. o <= e
    BY <1>1, <1>2
  <2>2. First(x) < (IF o + m > e THEN o + m ELSE e) <=>
               \/ First(x) < e
               \/ x = PosOf(o \div BSIZE)
               \/ x = NDIRECT /\ NDIRECT <= o \div BSIZE
    BY ONLY BlockSizes, <1>2, <1>3, <2>1, NeededNow, e \in Nat, m \in Nat \ {0}, x \in Pos
  <2> QED
    BY <1>2, <1>4, <2>2
<1>6. \A x \in Pos : Named(i, x) # 0 <=> First(x) < e
  BY <1>1 DEF FileInv, Covered, Turn
<1>7. \A x \in Pos : Place(t.a, t.blk, {}, x) # 0 <=> Named(i, x) # 0 \/ x = PosOf(q) \/ (x = NDIRECT /\ NDIRECT <= q)
  BY DEF Turn, TurnStep, BmapOf
<1>8. \A x \in Pos : Named(i, x)' = Place(t.a, t.blk, {}, x)
  <2>1. TurnStep(p, i, q, t, W) /\ Bl!Passed(i) = {}
    BY DEF Turn
  <2>2. NamedBy(i, t, W)
    BY <2>1, TurnNames
  <2> QED
    BY <2>2 DEF NamedBy
<1>9. Pos' = Pos /\ \A x : First(x)' = First(x)
  BY DEF Pos, First
<1>10. \A x \in Pos : Named(i, x)' # 0 <=> First(x) < EndOf(i)'
  BY <1>5, <1>6, <1>7, <1>8
<1> QED
  BY <1>9, <1>10, Zenon DEF Covered

LEMMA TurnWrites ==
    ASSUME BlockSizes, FileInv, NEW p \in Proc, NEW i \in Inode, NEW f \in File, NEW F \in Nat, NEW tot \in Nat, NEW n \in Nat, NEW m \in Nat \ {0},
           NEW q \in 0 .. NDIRECT + BSIZE - 1, NEW r \in 0 .. BSIZE - 1, NEW t, NEW W, Turn(p, i, f, F, tot, n, m, q, r, t, W)
    PROVE  Written(p)'
<1>1. PICK e \in Nat :
        /\ EndOf(i) = e /\ F + tot <= e /\ EndOf(i)' = IF F + tot + m > e THEN F + tot + m ELSE e
  BY TurnEnd
<1>2. PICK o \in Nat :
        /\ o = F + tot
        /\ \A k \in Nat : k >= o /\ k < o + m => k \div BSIZE = q
        /\ \A k \in Nat : k \div BSIZE = q => k % BSIZE \in 0 .. BSIZE - 1 /\ k - o = (k % BSIZE) - r
  <2>1. Moves(F, tot, n, F + tot, q, r, m)
    BY TurnNumbers
  <2>2. PICK o \in Nat : o = F + tot
    OBVIOUS
  <2>3. PICK Q \in Int : Q = BSIZE * q
    BY DEF BlockSizes
  <2>4. o = Q + r /\ \A k \in Nat : k \div BSIZE = q => k = Q + (k % BSIZE)
    BY <2>1, <2>2, <2>3 DEF Moves
  <2>5. ASSUME NEW k \in Nat, k \div BSIZE = q PROVE k % BSIZE \in 0 .. BSIZE - 1 /\ k - o = (k % BSIZE) - r
    <3>1. PICK c \in 0 .. BSIZE - 1 : c = k % BSIZE
      BY DivFacts
    <3>2. k = Q + c
      BY <2>4, <2>5, <3>1
    <3> QED
      BY <2>4, <3>1, <3>2
  <2>6. \A k \in Nat : k >= o /\ k < o + m => k \div BSIZE = q
    BY <2>1, <2>2 DEF Moves
  <2> QED
    BY <2>2, <2>5, <2>6
<1>3. /\ \A k \in 0 .. EndOf(i) - 1 : k \div BSIZE # q => Bl!ByteAt(i, k)' = Bl!ByteAt(i, k)
      /\ \A k \in 0 .. EndOf(i) - 1 : k \div BSIZE = q => t.blk[t.b][k % BSIZE] = Bl!ByteAt(i, k)
      /\ \A k \in Nat : k \div BSIZE = q => Bl!ByteAt(i, k)' = W[k % BSIZE]
  <2>1. TurnStep(p, i, q, t, W) /\ Bl!Passed(i) = {} /\ ~Truncated(i)
    BY DEF Turn
  <2>2. BytesBy(i, q, t, W)
    BY <2>1, FileBytes
  <2> QED
    BY <2>2 DEF BytesBy
<1>4. PICK src, old : src = at[p].src /\ old = at[p].old
  OBVIOUS
<1>5. \A c \in 0 .. BSIZE - 1 : W[c] = IF c >= r /\ c < r + m THEN src[tot + c - r + 1] ELSE t.blk[t.b][c]
  BY <1>4 DEF Turn
<1>6. \A k \in 0 .. e - 1 : Bl!ByteAt(i, k) = IF k >= F /\ k < F + tot THEN src[k - F + 1] ELSE old[k + 1]
  <2>1. at[p].at = "copy" /\ at[p].ip = i /\ off[at[p].fl] = F /\ at[p].tot = tot
    BY DEF Turn
  <2> QED
    BY <1>1, <1>4, <2>1 DEF FileInv, Written
<1>7. ASSUME NEW k \in 0 .. EndOf(i)' - 1
      PROVE  Bl!ByteAt(i, k)' = IF k >= F /\ k < F + (tot + m) THEN src[k - F + 1] ELSE old[k + 1]
  <2>1. k \in Nat /\ (k < e \/ (k >= o /\ k < o + m))
    BY <1>1, <1>2
  <2>2. CASE k >= o /\ k < o + m
    <3>1. k \div BSIZE = q /\ k % BSIZE \in 0 .. BSIZE - 1 /\ k - o = (k % BSIZE) - r
      BY <1>2, <2>1, <2>2
    <3>2. PICK c \in 0 .. BSIZE - 1 : c = k % BSIZE /\ k - o = c - r
      BY <3>1
    <3>3. c >= r /\ c < r + m /\ tot + c - r + 1 = k - F + 1
      BY <1>2, <2>1, <2>2, <3>2
    <3>4. W[c] = src[k - F + 1]
      BY <1>5, <3>3
    <3>5. Bl!ByteAt(i, k)' = W[c]
      BY <1>3, <2>1, <3>1, <3>2
    <3>6. k >= F /\ k < F + (tot + m)
      BY <1>2, <2>2
    <3> QED
      BY <3>4, <3>5, <3>6
  <2>3. CASE ~(k >= o /\ k < o + m)
    <3>1. k \in 0 .. e - 1 /\ k \in 0 .. EndOf(i) - 1
      BY <1>1, <2>1, <2>3
    <3>2. Bl!ByteAt(i, k)' = Bl!ByteAt(i, k)
      <4>1. CASE k \div BSIZE # q
        BY <1>3, <3>1, <4>1
      <4>2. CASE k \div BSIZE = q
        <5>1. PICK c \in 0 .. BSIZE - 1 : c = k % BSIZE /\ k - o = c - r
          BY <1>2, <2>1, <4>2
        <5>2. ~(c >= r /\ c < r + m)
          BY <1>2, <2>1, <2>3, <5>1
        <5>3. W[c] = t.blk[t.b][c]
          BY <1>5, <5>2
        <5>4. Bl!ByteAt(i, k)' = W[c] /\ t.blk[t.b][c] = Bl!ByteAt(i, k)
          BY <1>3, <2>1, <3>1, <4>2, <5>1
        <5> QED
          BY <5>3, <5>4
      <4> QED
        BY <4>1, <4>2
    <3>3. k >= F /\ k < F + (tot + m) <=> k >= F /\ k < F + tot
      BY <1>2, <2>1, <2>3
    <3> QED
      BY <1>6, <3>1, <3>2, <3>3
  <2> QED
    BY <2>2, <2>3
<1>8. /\ at'[p].at = "copy" /\ at'[p].ip = i /\ at'[p].fl = f /\ at'[p].tot = tot + m
      /\ at'[p].src = src /\ at'[p].old = old /\ off'[f] = F
  BY <1>4 DEF Turn
<1>9. EndOf(at[p].ip)' = EndOf(i)' /\ \A k : Bl!ByteAt(at[p].ip, k)' = Bl!ByteAt(i, k)'
  BY <1>8 DEF EndOf, Bl!ByteAt, Bl!BlockAt
<1> QED
  BY <1>7, <1>8, <1>9 DEF Written

LEMMA TurnReserves ==
    ASSUME BlockSizes, FileInv, NEW p \in Proc, NEW i \in Inode, NEW f \in File, NEW F \in Nat, NEW tot \in Nat, NEW n \in Nat, NEW m \in Nat \ {0},
           NEW q \in 0 .. NDIRECT + BSIZE - 1, NEW r, NEW t, NEW W, Turn(p, i, f, F, tot, n, m, q, r, t, W)
    PROVE  /\ dirty' \in [Proc -> SUBSET Int] /\ IsFiniteSet(dirty'[p]) /\ \A x \in Proc : x # p => dirty'[x] = dirty[x]
           /\ Reserved(p)'
<1>1. PICK D : D = dirty[p] /\ IsFiniteSet(D) /\ D \in SUBSET Int /\ dirty \in [Proc -> SUBSET Int]
  BY DEF FileInv, BlockType
<1>0. PICK y : y = addrs[i][NDIRECT]
  OBVIOUS
<1>2. PICK b \in 1 .. NBlocks, z \in 0 .. NBlocks :
        /\ b = t.b /\ z = t.a[NDIRECT] /\ (y # 0 => z = y)
        /\ t.dirty \subseteq D \cup {0, b, z}
  <2>1. NDIRECT \in 0 .. NDIRECT
    BY DEF BlockSizes
  <2> QED
    BY <1>0, <1>1, <2>1 DEF Turn, TurnStep, BmapOf
<1>3. PICK E : E = t.dirty \cup {b}
  OBVIOUS
<1>4. dirty' = [dirty EXCEPT ![p] = E]
  BY <1>2, <1>3 DEF Turn
<1>5. E \subseteq D \cup {0, b, z} /\ E \in SUBSET Int
  <2>1. 0 \in Int /\ b \in Int /\ z \in Int
    BY DEF BlockSizes
  <2> QED
    BY <1>1, <1>2, <1>3, <2>1
<1>6. dirty' \in [Proc -> SUBSET Int] /\ dirty'[p] = E /\ \A x \in Proc : x # p => dirty'[x] = dirty[x]
  BY <1>1, <1>4, <1>5
<1>7. IsFiniteSet(E)
  <2>1. IsFiniteSet({0, b, z})
    <3>1. PICK S : S = {0} /\ IsFiniteSet(S)
      BY FS_Singleton
    <3>2. IsFiniteSet((S \cup {b}) \cup {z})
      <4>1. IsFiniteSet(S \cup {b})
        BY <3>1, FS_AddElement
      <4> QED
        BY <4>1, FS_AddElement
    <3>3. (S \cup {b}) \cup {z} = {0, b, z}
      BY <3>1
    <3> QED
      BY <3>2, <3>3
  <2>2. IsFiniteSet(D \cup {0, b, z})
    BY <1>1, <2>1, FS_Union
  <2> QED
    BY <1>5, <2>2, FS_Subset
<1>8. PICK T : T = D \ {0, y}
  OBVIOUS
<1>9. IsFiniteSet(T) /\ Cardinality(T) \in Nat
  BY <1>1, <1>8, FS_Subset, FS_CardinalityType
<1>10. E \ {0, z} \subseteq T \cup {b}
  BY <1>2, <1>5, <1>8
<1>11. Cardinality(E \ {0, z}) <= Cardinality(T) + 1 /\ Cardinality(E \ {0, z}) \in Nat
  <2>1. PICK U : U = T \cup {b} /\ IsFiniteSet(U) /\ (Cardinality(U) = Cardinality(T) \/ Cardinality(U) = Cardinality(T) + 1)
    BY <1>9, FS_AddElement
  <2>2. PICK V : V = E \ {0, z}
    OBVIOUS
  <2>3. Cardinality(V) <= Cardinality(U) /\ IsFiniteSet(V)
    BY <1>10, <2>1, <2>2, FS_Subset
  <2>4. Cardinality(V) \in Nat
    BY <2>3, FS_CardinalityType
  <2> QED
    BY <1>9, <2>1, <2>2, <2>3, <2>4
<1>12. PICK h : h = (IF tot = 0 THEN 0 ELSE (F + tot - 1) \div BSIZE - (F \div BSIZE) + 1)
  OBVIOUS
<1>13. Cardinality(T) <= h
  <2>1. at[p].at = "copy" /\ at[p].ip = i /\ off[at[p].fl] = F /\ at[p].tot = tot
    BY DEF Turn
  <2>2. Cardinality(dirty[p] \ {0, addrs[at[p].ip][NDIRECT]}) <= Touched(p)
    BY <2>1 DEF FileInv, Reserved
  <2>3. Touched(p) = h
    BY <1>12, <2>1 DEF Touched
  <2> QED
    BY <1>0, <1>1, <1>8, <2>1, <2>2, <2>3
<1>14. (F + (tot + m) - 1) \div BSIZE - (F \div BSIZE) + 1 = h + 1 /\ tot + m <= n /\ tot + m \in Nat \ {0}
  <2>1. Moves(F, tot, n, F + tot, q, r, m)
    BY TurnNumbers
  <2> QED
    BY <1>12, <2>1 DEF Moves
<1>15. h \in Int
  <2>1. tot # 0 => F + tot - 1 \in Nat
    OBVIOUS
  <2> QED
    BY <1>12, <2>1, DivFacts
<1>16. Cardinality(E \ {0, z}) <= h + 1
  BY <1>9, <1>11, <1>13, <1>15
<1>17. Cardinality(E) <= MAXOPBLOCKS
  <2>1. PICK k \in Nat \ {0} : k = tot + m /\ k <= n
    BY <1>14
  <2>2. k <= Bl!max
    <3>1. PICK w \in Nat : w = Bl!max
      BY MaxFacts
    <3>2. n <= w
      BY <3>1 DEF Turn
    <3> QED
      BY <2>1, <3>1, <3>2
  <2>3. Cardinality(E \ {0, z}) <= (F + k - 1) \div BSIZE - (F \div BSIZE) + 1
    BY <1>14, <1>16, <2>1
  <2>4. Cardinality(E) + 1 <= MAXOPBLOCKS /\ Cardinality(E) \in Nat
    BY <1>7, <2>2, <2>3, PieceFits
  <2>5. MAXOPBLOCKS \in Nat
    BY DEF BlockSizes
  <2> QED
    BY <2>4, <2>5
<1>18. Reserved(p)'
  <2>1. at'[p].at = "copy" /\ at'[p].ip = i /\ at'[p].fl = f /\ at'[p].tot = tot + m /\ off'[f] = F
    BY DEF Turn
  <2>2. addrs'[i][NDIRECT] = z
    <3>1. TurnStep(p, i, q, t, W) /\ Bl!Passed(i) = {}
      BY DEF Turn
    <3>2. NamedBy(i, t, W)
      BY <3>1, TurnNames
    <3> QED
      BY <1>2, <3>2 DEF NamedBy
  <2>3. tot + m # 0
    BY <1>14
  <2>4. Touched(p)' = h + 1
    BY <1>14, <2>1, <2>3 DEF Touched
  <2> QED
    BY <1>6, <1>16, <1>17, <2>1, <2>2, <2>4 DEF Reserved
<1> QED
  BY <1>6, <1>7, <1>18

LEMMA TurnKeeps ==
    ASSUME BlockSizes, FileInv, NEW p \in Proc, NEW i \in Inode, NEW f \in File, NEW F \in Nat, NEW tot \in Nat, NEW n \in Nat, NEW m \in Nat \ {0},
           NEW q \in 0 .. NDIRECT + BSIZE - 1, NEW r \in 0 .. BSIZE - 1, NEW t, NEW W, Turn(p, i, f, F, tot, n, m, q, r, t, W),
           panic' \in BOOLEAN
    PROVE  FileInv'
<1>1. TurnStep(p, i, q, t, W) /\ Bl!Passed(i) = {} /\ ~Truncated(i) /\ at[p].at = "copy" /\ at[p].ip = i /\ at[p].fl = f /\ lock[i] = p
  BY DEF Turn
<1>2. /\ at' \in [Proc -> WriteCalls] /\ \A x \in Proc : x # p => at'[x] = at[x]
      /\ size' = size /\ lock' = lock /\ off' = off
      /\ at'[p].at = "copy" /\ at'[p].ip = i /\ at'[p].fl = f /\ at'[p].tot = tot + m /\ at'[p].n1 = n
      /\ at'[p].src = at[p].src /\ at'[p].old = at[p].old
  BY DEF Turn
<1>3. /\ addrs' \in [Inode -> [0 .. NDIRECT -> 0 .. NBlocks]] /\ blk' \in [1 .. NBlocks -> Cells] /\ free' \subseteq 1 .. NBlocks
      /\ \A j \in Inode : j # i => addrs'[j] = addrs[j]
  BY <1>1, TurnNames
<1>4. NamedBy(i, t, W)
  BY <1>1, TurnNames
<1>5. \A j \in Inode : j # i => \A x \in Pos : Named(j, x)' = Named(j, x)
  BY <1>4 DEF NamedBy
<1>6. /\ dirty' \in [Proc -> SUBSET Int] /\ IsFiniteSet(dirty'[p]) /\ \A x \in Proc : x # p => dirty'[x] = dirty[x]
      /\ Reserved(p)'
  BY TurnReserves
<1>7. BlockType'
  <2>1. \A x \in Proc : IsFiniteSet(dirty'[x])
    BY <1>6 DEF FileInv, BlockType
  <2>2. size \in [Inode -> 0 .. BSIZE * (NDIRECT + BSIZE)] /\ off \in [File -> 0 .. BSIZE * (NDIRECT + BSIZE)]
        /\ lock \in [Inode -> Proc \cup {0}]
    BY DEF FileInv, BlockType
  <2> QED
    BY <1>2, <1>3, <1>6, <2>1, <2>2 DEF BlockType, Cells, WriteCalls
<1>8. Owned'
  BY <1>1, TurnOwned
<1>9. Covered(i)'
  BY TurnCovers
<1>10. LockedBy(i)'
  BY <1>1, <1>2 DEF LockedBy
<1>11. ASSUME NEW j \in Inode, j # i PROVE Covered(j)' /\ LockedBy(j)'
  <2>1. lock[j] # 0 => lock[j] \in Proc /\ lock[j] # p
    <3>1. lock[j] # 0 => lock[j] \in Proc /\ at[lock[j]].ip = j
      BY DEF FileInv, BlockType, LockedBy
    <3> QED
      BY <1>1, <1>11, <3>1
  <2>2. \A x \in Pos : Named(j, x)' = Named(j, x)
    BY <1>5, <1>11
  <2> QED
    BY <1>2, <2>1, <2>2, FileKept
<1>12. Written(p)'
  BY TurnWrites
<1>13. Calling(p)'
  <2>1. Calling(p)
    BY DEF FileInv
  <2>2. Moves(F, tot, n, F + tot, q, r, m)
    BY TurnNumbers
  <2>3. tot + m <= n /\ (tot + m < n => (F + (tot + m)) % BSIZE = 0)
    BY <2>2 DEF Moves
  <2>4. at[p].n1 = n /\ off[f] = F
    BY DEF Turn
  <2> QED
    BY <1>1, <1>2, <2>1, <2>3, <2>4 DEF Calling, Bl!max
<1>14. ASSUME NEW x \in Proc, x # p PROVE Calling(x)' /\ Written(x)' /\ Reserved(x)'
  <2>1. at[x].at \in {"copy", "trunc"} => at[x].ip \in Inode /\ lock[at[x].ip] = x
    BY DEF FileInv, Calling
  <2>2. at[x].at \in {"copy", "trunc"} => at[x].ip # i
    BY <1>1, <1>14, <2>1
  <2>3. ASSUME at[x].at = "copy"
        PROVE  \A k \in 0 .. EndOf(at[x].ip) - 1 : Bl!ByteAt(at[x].ip, k)' = Bl!ByteAt(at[x].ip, k)
    <3>1. PICK j \in Inode : j = at[x].ip /\ j # i
      BY <2>1, <2>2, <2>3
    <3>2. ~Truncated(j)
      BY <2>1, <2>3, <3>1 DEF Truncated
    <3>3. \A k \in 0 .. EndOf(j) - 1 : Bl!ByteAt(j, k)' = Bl!ByteAt(j, k)
      BY <1>1, <3>1, <3>2, OtherBytes
    <3>4. EndOf(at[x].ip) = EndOf(j) /\ \A k : Bl!ByteAt(at[x].ip, k) = Bl!ByteAt(j, k)
      BY <3>1 DEF EndOf, Bl!ByteAt, Bl!BlockAt
    <3>5. \A k : Bl!ByteAt(at[x].ip, k)' = Bl!ByteAt(j, k)'
      BY <3>1, <2>3, <1>14, <1>2 DEF Bl!ByteAt, Bl!BlockAt
    <3> QED
      BY <3>3, <3>4, <3>5
  <2>4. at[x].at = "copy" => addrs'[at[x].ip][NDIRECT] = addrs[at[x].ip][NDIRECT]
    BY <1>3, <2>1, <2>2
  <2> QED
    BY <1>2, <1>6, <1>14, <2>3, <2>4, CallKept
<1> QED
  BY <1>6, <1>7, <1>8, <1>9, <1>10, <1>11, <1>12, <1>13, <1>14 DEF FileInv

LEMMA SameCardinality == \A S : Bl!Cardinality(S) = Cardinality(S)
BY Zenon DEF Bl!Cardinality, Cardinality

TurnsTo(p, o, q, r, m, t) ==
    /\ o = off[at[p].fl] + at[p].tot /\ q = o \div BSIZE /\ r = o % BSIZE /\ m = Bl!Chunk(at[p].n1 - at[p].tot, r)
    /\ t = Bl!bmap([free |-> free, blk |-> blk, a |-> addrs[at[p].ip], dirty |-> dirty[p], b |-> 0], q)
    /\ ~(Bl!Missing(at[p].ip, q) > Cardinality(free))
    /\ free' = t.free /\ addrs' = [addrs EXCEPT ![at[p].ip] = t.a]
    /\ blk' = [t.blk EXCEPT ![t.b] = [c \in 0 .. BSIZE - 1 |->
            IF c >= r /\ c < r + m THEN at[p].src[at[p].tot + c - r + 1] ELSE t.blk[t.b][c]]]
    /\ dirty' = [dirty EXCEPT ![p] = t.dirty \cup {t.b}]
    /\ at' = [at EXCEPT ![p].tot = at[p].tot + m] /\ panic' = panic

LEMMA TurnOfWritei ==
    ASSUME NEW p \in Proc, Bl!writei(p)
    PROVE  \/ panic' = TRUE /\ free' = free /\ blk' = blk /\ addrs' = addrs /\ dirty' = dirty /\ at' = at
           \/ \E o, q, r, m, t : TurnsTo(p, o, q, r, m, t)
<1>1. PICK i, o : i = at[p].ip /\ o = off[at[p].fl] + at[p].tot
  OBVIOUS
<1>2. PICK q, r : q = o \div BSIZE /\ r = o % BSIZE
  OBVIOUS
<1>3. PICK m : m = Bl!Chunk(at[p].n1 - at[p].tot, r)
  OBVIOUS
<1>4. PICK t : t = Bl!bmap([free |-> free, blk |-> blk, a |-> addrs[i], dirty |-> dirty[p], b |-> 0], q)
  OBVIOUS
<1>5. PICK k : k = Cardinality(free) /\ k = Bl!Cardinality(free)
  BY SameCardinality
<1>6. IF Bl!Missing(i, q) > k
      THEN panic' = TRUE /\ UNCHANGED <<free, blk, addrs, dirty, at>>
      ELSE /\ free' = t.free /\ addrs' = [addrs EXCEPT ![i] = t.a]
           /\ blk' = [t.blk EXCEPT ![t.b] = [c \in 0 .. BSIZE - 1 |->
                        IF c >= r /\ c < r + m THEN at[p].src[at[p].tot + c - r + 1] ELSE t.blk[t.b][c]]]
           /\ dirty' = [dirty EXCEPT ![p] = t.dirty \cup {t.b}]
           /\ at' = [at EXCEPT ![p].tot = at[p].tot + m] /\ panic' = panic
  BY <1>1, <1>2, <1>3, <1>4, <1>5, Zenon DEF Bl!writei
<1>7. CASE Bl!Missing(i, q) > k
  BY <1>6, <1>7, Zenon
<1>8. CASE ~(Bl!Missing(i, q) > k)
  <2>1. TurnsTo(p, o, q, r, m, t)
    BY <1>1, <1>2, <1>3, <1>4, <1>5, <1>6, <1>8, Zenon DEF TurnsTo
  <2> QED
    BY <2>1, Zenon
<1> QED
  BY <1>7, <1>8, Zenon

\* What a file is to the other processes does not change while it is written.
LEMMA ContentKept ==
    ASSUME NEW i, lock'[i] = lock[i], size'[i] = size[i],
           lock[i] # 0 => at'[lock[i]].old = at[lock[i]].old,
           lock[i] = 0 => \A k \in 0 .. size[i] - 1 : Bl!ByteAt(i, k)' = Bl!ByteAt(i, k),
           size[i] \in Nat
    PROVE  Bl!Content(i)' = Bl!Content(i)
<1>1. CASE lock[i] # 0
  BY <1>1 DEF Bl!Content, Bl!NoProc
<1>2. CASE lock[i] = 0
  <2>1. Bl!Content(i) = [k \in 1 .. size[i] |-> Bl!ByteAt(i, 0 + k - 1)]
    BY <1>2 DEF Bl!Content, Bl!NoProc, Bl!Bytes
  <2>2. Bl!Content(i)' = [k \in 1 .. size[i] |-> Bl!ByteAt(i, 0 + k - 1)']
    BY <1>2 DEF Bl!Content, Bl!NoProc, Bl!Bytes, Bl!ByteAt, Bl!BlockAt
  <2>3. \A k \in 1 .. size[i] : Bl!ByteAt(i, 0 + k - 1)' = Bl!ByteAt(i, 0 + k - 1)
    <3> SUFFICES ASSUME NEW k \in 1 .. size[i] PROVE Bl!ByteAt(i, 0 + k - 1)' = Bl!ByteAt(i, 0 + k - 1)
      OBVIOUS
    <3>1. PICK h \in 0 .. size[i] - 1 : h = 0 + k - 1
      OBVIOUS
    <3>2. Bl!ByteAt(i, h)' = Bl!ByteAt(i, h)
      BY <1>2
    <3> QED
      BY <3>1, <3>2 DEF Bl!ByteAt
  <2> QED
    BY <2>1, <2>2, <2>3, Zenon
<1> QED
  BY <1>1, <1>2

LEMMA TurnContent ==
    ASSUME BlockSizes, FileInv, NEW p \in Proc, NEW i \in Inode, NEW f \in File, NEW F \in Nat, NEW tot \in Nat, NEW n \in Nat, NEW m \in Nat \ {0},
           NEW q \in 0 .. NDIRECT + BSIZE - 1, NEW r \in 0 .. BSIZE - 1, NEW t, NEW W, Turn(p, i, f, F, tot, n, m, q, r, t, W),
           NEW j \in Inode
    PROVE  Bl!Content(j)' = Bl!Content(j)
<1>1. TurnStep(p, i, q, t, W) /\ Bl!Passed(i) = {} /\ lock[i] = p /\ at'[p].old = at[p].old
      /\ (\A x \in Proc : x # p => at'[x] = at[x]) /\ size' = size /\ lock' = lock
  BY DEF Turn
<1>2. lock[j] \in Proc \cup {0} /\ size[j] \in Nat
  BY DEF FileInv, BlockType
<1>3. lock[j] # 0 => at'[lock[j]].old = at[lock[j]].old
  BY <1>1, <1>2
<1>4. ASSUME lock[j] = 0 PROVE \A k \in 0 .. size[j] - 1 : Bl!ByteAt(j, k)' = Bl!ByteAt(j, k)
  <2>1. j # i /\ ~Truncated(j) /\ EndOf(j) = size[j]
    BY <1>1, <1>4 DEF Truncated, EndOf, BlockSizes
  <2> QED
    BY <1>1, <2>1, OtherBytes
<1> QED
  BY <1>1, <1>2, <1>3, <1>4, ContentKept

LEMMA WriteiKeeps ==
    ASSUME BlockSizes, FileInv, NEW p \in Proc, Bl!writei(p)
    PROVE  FileInv' /\ \A j \in Inode : Bl!Content(j)' = Bl!Content(j)
<1>1. at[p].at = "copy" /\ at[p].tot < at[p].n1 /\ size' = size /\ lock' = lock /\ off' = off
  BY DEF Bl!writei
<1>2. CASE panic' = TRUE /\ free' = free /\ blk' = blk /\ addrs' = addrs /\ dirty' = dirty /\ at' = at
  <2>1. panic' \in BOOLEAN
    BY <1>2
  <2>2. FileInv'
    BY <1>1, <1>2, <2>1, FilesKept
  <2>3. ASSUME NEW j \in Inode PROVE Bl!Content(j)' = Bl!Content(j)
    <3>1. (\A k : Bl!ByteAt(j, k)' = Bl!ByteAt(j, k)) /\ size[j] \in Nat
      BY <1>2 DEF Bl!ByteAt, Bl!BlockAt, FileInv, BlockType
    <3> QED
      BY <1>1, <1>2, <3>1, ContentKept
  <2> QED
    BY <2>2, <2>3
<1>3. ASSUME NEW o, NEW q, NEW r, NEW m, NEW t, TurnsTo(p, o, q, r, m, t)
      PROVE  FileInv' /\ \A j \in Inode : Bl!Content(j)' = Bl!Content(j)
  <2>0. /\ o = off[at[p].fl] + at[p].tot /\ q = o \div BSIZE /\ r = o % BSIZE /\ m = Bl!Chunk(at[p].n1 - at[p].tot, r)
        /\ t = Bl!bmap([free |-> free, blk |-> blk, a |-> addrs[at[p].ip], dirty |-> dirty[p], b |-> 0], q)
        /\ ~(Bl!Missing(at[p].ip, q) > Cardinality(free))
        /\ free' = t.free /\ addrs' = [addrs EXCEPT ![at[p].ip] = t.a]
        /\ blk' = [t.blk EXCEPT ![t.b] = [c \in 0 .. BSIZE - 1 |->
                        IF c >= r /\ c < r + m THEN at[p].src[at[p].tot + c - r + 1] ELSE t.blk[t.b][c]]]
        /\ dirty' = [dirty EXCEPT ![p] = t.dirty \cup {t.b}]
        /\ at' = [at EXCEPT ![p].tot = at[p].tot + m] /\ panic' = panic
    BY <1>3 DEF TurnsTo
  <2>1. PICK i \in Inode, f \in File : i = at[p].ip /\ f = at[p].fl /\ lock[i] = p
    BY <1>1 DEF FileInv, Calling
  <2>2. PICK F \in Nat, tot \in Nat, n \in Nat, M \in Nat :
          /\ F = off[f] /\ tot = at[p].tot /\ n = at[p].n1 /\ M = BSIZE * (NDIRECT + BSIZE)
          /\ tot < n /\ n <= Bl!max /\ n <= Len(at[p].src) /\ F + n <= M
          /\ 0 < tot => (F + tot) % BSIZE = 0
    <3>1. NDIRECT + BSIZE \in Nat
      BY DEF BlockSizes
    <3>2. PICK M \in Nat : M = BSIZE * (NDIRECT + BSIZE)
      BY <3>1, BlocksInOrder
    <3>3. PICK F \in Nat : F = off[f] 
      BY <3>2 DEF FileInv, BlockType
    <3>4. PICK tot \in Nat, n \in Nat : tot = at[p].tot /\ n = at[p].n1
      BY CallFacts
    <3>5. /\ at[p].n1 \in 1 .. Len(at[p].src) /\ at[p].n1 <= Bl!max 
          /\ off[at[p].fl] + at[p].n1 <= BSIZE * (NDIRECT + BSIZE)
          /\ 0 < at[p].tot /\ at[p].tot < at[p].n1 => (off[at[p].fl] + at[p].tot) % BSIZE = 0
      BY <1>1 DEF FileInv, Calling
    <3>6. n \in 1 .. Len(at[p].src)
      BY <3>4, <3>5
    <3> QED
      BY <1>1, <2>1, <3>2, <3>3, <3>4, <3>5, <3>6
  <2>3. p # 0 /\ ~Truncated(i) /\ Bl!Passed(i) = {}
    <3>1. p # 0 /\ ~Truncated(i)
      BY <1>1, <2>1 DEF Truncated, BlockSizes
    <3> QED
      BY <3>1, OneTruncates
  <2>4. Moves(F, tot, n, o, q, r, m)
    <3>1. Ahead(F, tot, n, o, q, r, m)
      BY <2>0, <2>1, <2>2 DEF Ahead
    <3> QED
      BY <3>1, TurnFacts
  <2>5. o = F + tot /\ q \in 0 .. NDIRECT + BSIZE - 1 /\ r \in 0 .. BSIZE - 1 /\ m \in Nat \ {0} /\ m <= BSIZE - r /\ tot + m <= n
    <3>1. o = F + tot
      BY <2>0, <2>1, <2>2
    <3>2. o \in 0 .. M - 1
      BY <2>2, <3>1
    <3>3. q \in 0 .. NDIRECT + BSIZE - 1
      BY <2>0, <2>2, <3>2, ByteFacts
    <3> QED
      BY <2>4, <3>1, <3>3 DEF Moves
  <2>6. BmapOf(p, i, q, t)
    BY <2>0, <2>1, <2>3, <2>5, BmapResult
  <2>7. PICK src : src = at[p].src /\ src \in Seq(Byte) /\ n <= Len(src)
    BY <2>2, CallFacts
  <2>8. PICK W : W = [c \in 0 .. BSIZE - 1 |-> IF c >= r /\ c < r + m THEN src[tot + c - r + 1] ELSE t.blk[t.b][c]]
    OBVIOUS
  <2>9. W \in Cells
    <3>1. t.blk[t.b] \in Cells
      BY <2>6 DEF BmapOf
    <3>2. ASSUME NEW c \in 0 .. BSIZE - 1, c >= r, c < r + m PROVE src[tot + c - r + 1] \in Byte
      <4>1. PICK y \in Nat \ {0} : y = m
        BY <2>5
      <4>2. c \in Nat /\ r \in Nat
        BY <2>5 DEF BlockSizes
      <4>3. tot + c - r + 1 \in Nat /\ tot + c - r + 1 >= 1 /\ tot + c - r + 1 <= n
        BY <2>5, <3>2, <4>1, <4>2
      <4>4. tot + c - r + 1 \in 1 .. Len(src)
        BY <2>7, <4>3
      <4> QED
        BY <2>7, <4>4
    <3>3. \A c \in 0 .. BSIZE - 1 : t.blk[t.b][c] \in Byte \cup Nat
      BY <3>1 DEF Cells
    <3> QED
      BY <2>8, <3>2, <3>3 DEF Cells
  <2>10. blk' = [t.blk EXCEPT ![t.b] = W]
    BY <2>0, <2>2, <2>7, <2>8
  <2>11. PICK old : old = at[p].old
    OBVIOUS
  <2>12. PICK c : c = [at |-> "copy", fl |-> f, ip |-> i, src |-> src, n1 |-> n, tot |-> tot + m, old |-> old]
    OBVIOUS
  <2>13. at' = [at EXCEPT ![p] = c]
    <3>1. PICK a : a = at[p]
      OBVIOUS
    <3>2. at' = [at EXCEPT ![p] = [a EXCEPT !.tot = tot + m]]
      BY <2>0, <2>2, <3>1, CallFacts
    <3>3. a = [at |-> "copy", fl |-> f, ip |-> i, src |-> src, n1 |-> n, tot |-> tot, old |-> old]
      BY <1>1, <2>1, <2>2, <2>7, <2>11, <3>1, CallFacts
    <3>4. c = [a EXCEPT !.tot = tot + m]
      BY <2>12, <3>3
    <3> QED
      BY <3>2, <3>4
  <2>14. c \in WriteCalls
    <3>1. old \in Seq(Byte \cup Nat)
      BY <2>11, CallFacts
    <3>2. tot + m \in Nat
      BY <2>5
    <3> QED
      BY <2>7, <2>12, <3>1, <3>2 DEF WriteCalls
  <2>15. at' \in [Proc -> WriteCalls] /\ at'[p] = c /\ \A x \in Proc : x # p => at'[x] = at[x]
    BY <2>13, <2>14, CallFacts
  <2>16. \A j \in Inode : Bl!Passed(j)' = Bl!Passed(j)
    <3>1. c.at = "copy"
      BY <2>12
    <3>2. \A j \in Inode : \A x \in Proc :
            /\ at'[x].at = "trunc" /\ at'[x].ip = j <=> at[x].at = "trunc" /\ at[x].ip = j
            /\ at[x].at = "trunc" /\ at[x].ip = j => at'[x].tot = at[x].tot
      BY <1>1, <2>15, <3>1
    <3> QED
      BY <3>2, PassedSame
  <2>17. TurnStep(p, i, q, t, W)
    BY <2>0, <2>1, <2>6, <2>9, <2>10, <2>16 DEF TurnStep
  <2>18. Turn(p, i, f, F, tot, n, m, q, r, t, W)
    <3>1. q = (F + tot) \div BSIZE /\ r = (F + tot) % BSIZE /\ m = Bl!Chunk(n - tot, r)
      BY <2>0, <2>1, <2>2
    <3> QED
      BY <1>1, <2>0, <2>1, <2>2, <2>3, <2>7, <2>8, <2>11, <2>12, <2>15, <2>17, <3>1 DEF Turn
  <2>19. panic' \in BOOLEAN
    BY <2>0 DEF FileInv, BlockType
  <2>20. FileInv'
    BY <2>5, <2>18, <2>19, TurnKeeps
  <2>21. \A j \in Inode : Bl!Content(j)' = Bl!Content(j)
    BY <2>5, <2>18, TurnContent
  <2> QED
    BY <2>20, <2>21
<1> QED
  <2>1. \/ panic' = TRUE /\ free' = free /\ blk' = blk /\ addrs' = addrs /\ dirty' = dirty /\ at' = at
        \/ \E o, q, r, m, t : TurnsTo(p, o, q, r, m, t)
    BY TurnOfWritei
  <2> QED
    BY <1>2, <1>3, <2>1, Zenon

-------------------------------------------------------------------------------
(* The invariant of the files *)

LEMMA FilesInit == ASSUME BlockSizes, Bl!Init PROVE FileInv
<1>1. /\ free = 1 .. NBlocks /\ blk = [b \in 1 .. NBlocks |-> Zeros]
      /\ addrs = [i \in Inode |-> [n \in 0 .. NDIRECT |-> 0]] /\ size = [i \in Inode |-> 0]
      /\ lock = [i \in Inode |-> 0] /\ off = [f \in File |-> 0]
      /\ at = [p \in Proc |-> Bl!Idle] /\ dirty = [p \in Proc |-> {}] /\ panic = FALSE
  BY DEF Bl!Init, Bl!Block, Bl!Zero, Zeros, Bl!NoProc
<1>2. NBlocks \in Nat /\ NDIRECT \in Nat /\ 0 \in 0 .. BSIZE * (NDIRECT + BSIZE)
  <2>1. NDIRECT + BSIZE \in Nat
    BY DEF BlockSizes
  <2>2. PICK M \in Nat : M = BSIZE * (NDIRECT + BSIZE)
    BY <2>1, BlocksInOrder
  <2> QED
    BY <2>2 DEF BlockSizes
<1>3. BlockType
  <2>1. Zeros \in Cells
    BY DEF Zeros, Cells
  <2>2. at \in [Proc -> WriteCalls]
    BY <1>1, IdleCall
  <2>3. dirty \in [Proc -> SUBSET Int] /\ \A p \in Proc : IsFiniteSet(dirty[p])
    BY <1>1, FS_EmptySet
  <2>4. size \in [Inode -> 0 .. BSIZE * (NDIRECT + BSIZE)] /\ off \in [File -> 0 .. BSIZE * (NDIRECT + BSIZE)]
    BY <1>1, <1>2
  <2>5. addrs \in [Inode -> [0 .. NDIRECT -> 0 .. NBlocks]]
    BY <1>1, <1>2
  <2>6. lock \in [Inode -> Proc \cup {0}] /\ free \subseteq 1 .. NBlocks /\ panic \in BOOLEAN /\ blk \in [1 .. NBlocks -> Cells]
    BY <1>1, <2>1
  <2> QED
    BY <2>2, <2>3, <2>4, <2>5, <2>6 DEF BlockType
<1>4. \A p \in Proc : at[p].at = "idle" /\ dirty[p] = {}
  BY <1>1, IdleCall
<1>5. ASSUME NEW i \in Inode, NEW n \in Pos PROVE Named(i, n) = 0
  <2>1. addrs[i][NDIRECT] = 0
    BY <1>1, <1>2
  <2>2. n <= NDIRECT => n \in 0 .. NDIRECT
    BY <1>2, PosFacts
  <2> QED
    BY <1>1, <2>1, <2>2 DEF Named, Place
<1>6. Owned
  BY <1>1, <1>2, <1>5 DEF Owned
<1>7. ASSUME NEW i \in Inode PROVE LockedBy(i) /\ Covered(i)
  <2>1. lock[i] = 0 /\ EndOf(i) = 0
    BY <1>1 DEF EndOf
  <2>2. \A n \in Pos : ~(First(n) < 0)
    BY PosFacts
  <2> QED
    BY <1>5, <2>1, <2>2 DEF LockedBy, Covered
<1>8. ASSUME NEW p \in Proc PROVE Calling(p) /\ Written(p) /\ Reserved(p)
  <2>1. MAXOPBLOCKS \in Nat
    BY DEF BlockSizes
  <2>2. Cardinality(dirty[p]) = 0
    BY <1>4, FS_EmptySet
  <2> QED
    BY <1>4, <2>1, <2>2 DEF Calling, Written, Reserved
<1> QED
  BY <1>3, <1>6, <1>7, <1>8 DEF FileInv

LEMMA FilesNext == ASSUME BlockSizes, FileInv, [Bl!Next]_Bl!blockVars PROVE FileInv'
<1>1. ASSUME NEW p \in Proc,
             \/ Bl!filewrite(p) \/ Bl!WriteBegin(p) \/ Bl!writei(p) \/ Bl!WriteEnd(p) \/ Bl!WriteDone(p)
             \/ Bl!fileread(p) \/ Bl!Reopen(p) \/ Bl!Remove(p) \/ Bl!itrunc(p)
      PROVE  FileInv'
  <2>1. CASE Bl!filewrite(p)
    BY <2>1, FileWriteKeeps
  <2>2. CASE Bl!WriteBegin(p)
    BY <2>2, WriteBeginKeeps
  <2>3. CASE Bl!writei(p)
    BY <2>3, WriteiKeeps
  <2>4. CASE Bl!WriteEnd(p)
    BY <2>4, WriteEndKeeps
  <2>5. CASE Bl!WriteDone(p)
    <3>1. at[p].at = "piece" /\ at' = [at EXCEPT ![p] = Bl!Idle] /\ UNCHANGED <<free, blk, addrs, size, lock, off, dirty, panic>>
      BY <2>5 DEF Bl!WriteDone
    <3> QED
      BY <3>1, WriteDoneKeeps
  <2>6. CASE Bl!fileread(p)
    BY <2>6, ReadKeeps
  <2>7. CASE Bl!Reopen(p)
    BY <2>7, ReopenKeeps
  <2>8. CASE Bl!Remove(p)
    BY <2>8, RemoveKeeps
  <2>9. CASE Bl!itrunc(p)
    BY <2>9, TruncKeeps
  <2> QED
    BY <1>1, <2>1, <2>2, <2>3, <2>4, <2>5, <2>6, <2>7, <2>8, <2>9
<1>2. CASE UNCHANGED Bl!blockVars
  <2>1. /\ free' = free /\ blk' = blk /\ addrs' = addrs /\ size' = size /\ lock' = lock /\ off' = off
        /\ at' = at /\ dirty' = dirty /\ panic' = panic
    BY <1>2 DEF Bl!blockVars
  <2>2. panic' \in BOOLEAN
    BY <2>1 DEF FileInv, BlockType
  <2> QED
    BY <2>1, <2>2, FilesKept
<1>3. CASE Bl!Next
  <2>1. PICK p \in Proc :
             \/ Bl!filewrite(p) \/ Bl!WriteBegin(p) \/ Bl!writei(p) \/ Bl!WriteEnd(p) \/ Bl!WriteDone(p)
             \/ Bl!fileread(p) \/ Bl!Reopen(p) \/ Bl!Remove(p) \/ Bl!itrunc(p)
    BY <1>3, Zenon DEF Bl!Next
  <2> QED
    BY <1>1, <2>1
<1> QED
  BY <1>2, <1>3

LEMMA FilesInvariant == ASSUME BlockSizes PROVE Bl!Spec => []FileInv
<1>1. Bl!Init => FileInv
  BY FilesInit
<1>2. FileInv /\ [Bl!Next]_Bl!blockVars => FileInv'
  BY FilesNext
<1> QED
  BY <1>1, <1>2, PTL DEF Bl!Spec

\* No transaction writes more blocks than log.c has reserved for it, whatever is written and
\* removed at the same time.
THEOREM OpFitsHolds == ASSUME BlockSizes PROVE Bl!Spec => []Bl!OpFits
<1>1. FileInv => Bl!OpFits
  BY SameCardinality DEF FileInv, Reserved, Bl!OpFits
<1> QED
  BY <1>1, FilesInvariant, PTL

\* The types of the variables of Blocks: no offset and no size is beyond the largest file.
THEOREM BlocksTypeCorrect == ASSUME BlockSizes PROVE Bl!Spec => []Bl!TypeOK
<1>1. FileInv => Bl!TypeOK
  <2> SUFFICES ASSUME FileInv PROVE Bl!TypeOK
    OBVIOUS
  <2>1. Bl!MAXFILE * BSIZE = BSIZE * (NDIRECT + BSIZE)
    BY DEF BlockSizes, Bl!MAXFILE, Bl!NINDIRECT
  <2> QED
    BY <2>1 DEF FileInv, BlockType, Bl!TypeOK, Bl!Block, Bl!NoProc
<1> QED
  BY <1>1, FilesInvariant, PTL

LEMMA PlacesNamed ==
    ASSUME BlockSizes, NEW b \in 1 .. NBlocks
    PROVE  Bl!Places(b) = {x \in Inode \X Pos : Named(x[1], x[2]) = b}
<1>1. NDIRECT \in Nat /\ BSIZE \in Nat /\ b # 0 /\ Bl!MAXFILE = NDIRECT + BSIZE
  BY DEF BlockSizes, Bl!MAXFILE, Bl!NINDIRECT
<1>2. \A n : n \in 0 .. NDIRECT <=> n \in Pos /\ n <= NDIRECT
  BY <1>1 DEF Pos
<1>3. \A n : n \in NDIRECT + 1 .. Bl!MAXFILE <=> n \in Pos /\ ~(n <= NDIRECT)
  BY <1>1 DEF Pos
<1>4. ASSUME NEW i \in Inode, NEW n \in Pos
      PROVE  Named(i, n) = b <=>
                \/ n <= NDIRECT /\ addrs[i][n] = b
                \/ ~(n <= NDIRECT) /\ addrs[i][NDIRECT] # 0 /\ n - NDIRECT - 1 \notin Bl!Passed(i)
                   /\ blk[addrs[i][NDIRECT]][n - NDIRECT - 1] = b
  BY <1>1 DEF Named, Place
<1>5. ASSUME NEW x PROVE x \in Bl!Places(b) <=> x \in Inode \X Pos /\ Named(x[1], x[2]) = b
  <2>1. x \in Bl!Places(b) <=>
            \/ x \in Inode \X (0 .. NDIRECT) /\ addrs[x[1]][x[2]] = b
            \/ x \in Inode \X (NDIRECT + 1 .. Bl!MAXFILE)
               /\ addrs[x[1]][NDIRECT] # 0 /\ x[2] - NDIRECT - 1 \notin Bl!Passed(x[1])
               /\ blk[addrs[x[1]][NDIRECT]][x[2] - NDIRECT - 1] = b
    BY DEF Bl!Places
  <2>2. x \in Inode \X (0 .. NDIRECT) <=> x \in Inode \X Pos /\ x[2] <= NDIRECT
    BY <1>2
  <2>3. x \in Inode \X (NDIRECT + 1 .. Bl!MAXFILE) <=> x \in Inode \X Pos /\ ~(x[2] <= NDIRECT)
    BY <1>3
  <2>4. x \in Inode \X Pos => x[1] \in Inode /\ x[2] \in Pos
    OBVIOUS
  <2> QED
    BY <1>4, <2>1, <2>2, <2>3, <2>4
<1> QED
  BY <1>5

\* fs.c: in every interleaving a block that the bitmap has in use is in one place of one inode and
\* a free one in none, but for what itrunc() has passed in an indirect block.
THEOREM BlocksOwnedHolds == ASSUME BlockSizes PROVE Bl!Spec => []Bl!BlocksOwned
<1>1. FileInv => Bl!BlocksOwned
  <2> SUFFICES ASSUME FileInv, NEW b \in 1 .. NBlocks
               PROVE  Cardinality(Bl!Places(b)) = IF b \in free THEN 0 ELSE 1
    BY SameCardinality DEF Bl!BlocksOwned, Bl!Block
  <2>1. PICK S : S = Bl!Places(b) /\ S = {x \in Inode \X Pos : Named(x[1], x[2]) = b}
    BY PlacesNamed
  <2>2. b # 0
    BY DEF BlockSizes
  <2>3. CASE b \in free
    <3>1. \A i \in Inode, n \in Pos : Named(i, n) # b
      BY <2>3 DEF FileInv, Owned
    <3>2. S = {}
      BY <2>1, <3>1
    <3> QED
      BY <2>1, <2>3, <3>2, FS_EmptySet
  <2>4. CASE b \notin free
    <3>1. PICK i \in Inode, n \in Pos : Named(i, n) = b
      BY <2>4 DEF FileInv, Owned
    <3>2. \A j \in Inode, m \in Pos : Named(j, m) = b => j = i /\ m = n
      <4>1. \A j \in Inode, m \in Pos : Named(i, n) # 0 /\ Named(i, n) = Named(j, m) => i = j /\ n = m
        BY DEF FileInv, Owned
      <4> QED
        BY <2>2, <3>1, <4>1
    <3>3. S = {<<i, n>>}
      BY <2>1, <3>1, <3>2
    <3>4. Cardinality(S) = 1
      BY <3>3, FS_Singleton
    <3> QED
      BY <2>1, <2>4, <3>4
  <2> QED
    BY <2>3, <2>4
<1> QED
  BY <1>1, FilesInvariant, PTL

\* The positions of a file of e bytes are the first ones: those of its blocks, and the
\* indirect block when it has more of them than there are direct ones.
LEMMA InUse ==
    ASSUME BlockSizes, NEW e \in 0 .. BSIZE * (NDIRECT + BSIZE), NEW K,
           K = (e + BSIZE - 1) \div BSIZE + (IF e > BSIZE * NDIRECT THEN 1 ELSE 0)
    PROVE  K \in Nat /\ {n \in Pos : First(n) < e} = 0 .. K - 1
<1>1. PICK B \in Nat \ {0}, D \in Nat, M \in Nat : B = BSIZE /\ D = NDIRECT /\ M = D + B
  BY DEF BlockSizes
<1>2. PICK T \in Nat : T = BSIZE * M
  BY BlocksInOrder
<1>3. e \in Nat /\ e <= T
  BY <1>1, <1>2
<1>4. PICK y \in Nat : y = e + B - 1
  BY <1>1, <1>3
<1>5. PICK k \in Nat : k = y \div BSIZE /\ BSIZE * k <= y /\ y < BSIZE * k + B
  BY <1>1, DivFacts
<1>6. \A j \in Nat : BSIZE * j < e <=> j < k
  <2> SUFFICES ASSUME NEW j \in Nat PROVE BSIZE * j < e <=> j < k
    OBVIOUS
  <2>1. PICK J \in Nat, L \in Nat : J = BSIZE * j /\ L = BSIZE * k
    BY BlocksInOrder
  <2>2. CASE j < k
    <3>1. J + B <= L
      BY <1>1, <2>1, <2>2, BlocksInOrder
    <3> QED
      BY <1>3, <1>4, <1>5, <2>1, <2>2, <3>1
  <2>3. CASE ~(j < k)
    <3>1. L <= J
      BY <2>1, <2>3, BlocksInOrder
    <3> QED
      BY <1>3, <1>4, <1>5, <2>1, <2>3, <3>1
  <2> QED
    BY <2>2, <2>3
<1>7. k <= M
  <2>1. ~(BSIZE * M < e)
    BY <1>2, <1>3
  <2> QED
    BY <1>6, <2>1
<1>8. K = k + (IF D < k THEN 1 ELSE 0)
  <2>1. BSIZE * D \in Nat
    BY BlocksInOrder
  <2>2. e > BSIZE * NDIRECT <=> D < k
    BY <1>1, <1>3, <1>6, <2>1
  <2> QED
    BY <1>1, <1>4, <1>5, <2>2
<1>9. K \in Nat
  BY <1>8
<1>10. ASSUME NEW n \in Pos PROVE First(n) < e <=> n \in 0 .. K - 1
  <2>1. n \in Nat
    BY PosFacts
  <2>2. CASE n <= D
    <3>1. First(n) = BSIZE * n
      BY <1>1, <2>2 DEF First
    <3> QED
      BY <1>6, <1>8, <1>9, <2>1, <2>2, <3>1
  <2>3. CASE ~(n <= D)
    <3>1. PICK h \in Nat : h = n - 1
      BY <2>1, <2>3
    <3>2. First(n) = BSIZE * h
      BY <1>1, <2>3, <3>1 DEF First
    <3> QED
      BY <1>6, <1>8, <1>9, <2>1, <2>3, <3>1, <3>2
  <2> QED
    BY <2>2, <2>3
<1>11. \A n \in 0 .. K - 1 : n \in Pos
  BY <1>1, <1>7, <1>8 DEF Pos
<1> QED
  BY <1>9, <1>10, <1>11

\* fs.c: a file has the blocks that its size asks for, before and after every call.
THEOREM SizeCoveredHolds == ASSUME BlockSizes PROVE Bl!Spec => []Bl!SizeCovered
<1>1. FileInv => Bl!SizeCovered
  <2> SUFFICES ASSUME FileInv, NEW i \in Inode, lock[i] = 0
               PROVE  Cardinality({b \in 1 .. NBlocks : \E x \in Bl!Places(b) : x[1] = i}) =
                        (size[i] + BSIZE - 1) \div BSIZE + (IF size[i] > NDIRECT * BSIZE THEN 1 ELSE 0)
    BY SameCardinality DEF Bl!SizeCovered, Bl!Block, Bl!NoProc
  <2>1. ~Truncated(i) /\ EndOf(i) = size[i]
    BY DEF Truncated, EndOf
  <2>2. PICK e \in 0 .. BSIZE * (NDIRECT + BSIZE) : e = size[i]
    BY DEF FileInv, BlockType
  <2>3. PICK K : K = (e + BSIZE - 1) \div BSIZE + (IF e > BSIZE * NDIRECT THEN 1 ELSE 0)
    OBVIOUS
  <2>4. K \in Nat /\ {n \in Pos : First(n) < e} = 0 .. K - 1
    BY <2>3, InUse
  <2>5. \A n \in Pos : Named(i, n) # 0 <=> n \in 0 .. K - 1
    BY <2>1, <2>2, <2>4 DEF FileInv, Covered
  <2>6. \A n \in 0 .. K - 1 : n \in Pos
    BY <2>4
  <2>7. PICK S : S = {b \in 1 .. NBlocks : \E x \in Bl!Places(b) : x[1] = i}
    OBVIOUS
  <2>8. ASSUME NEW b \in 1 .. NBlocks PROVE (\E x \in Bl!Places(b) : x[1] = i) <=> \E n \in 0 .. K - 1 : Named(i, n) = b
    <3>1. Bl!Places(b) = {x \in Inode \X Pos : Named(x[1], x[2]) = b}
      BY PlacesNamed
    <3>2. b # 0
      BY DEF BlockSizes
    <3>3. ASSUME NEW x \in Bl!Places(b), x[1] = i PROVE \E n \in 0 .. K - 1 : Named(i, n) = b
      BY <2>5, <3>1, <3>2, <3>3
    <3>4. ASSUME NEW n \in 0 .. K - 1, Named(i, n) = b PROVE \E x \in Bl!Places(b) : x[1] = i
      <4>1. <<i, n>> \in Inode \X Pos
        BY <2>6
      <4>2. <<i, n>> \in Bl!Places(b)
        BY <3>1, <3>4, <4>1
      <4> QED
        BY <4>2
    <3> QED
      BY <3>3, <3>4
  <2>9. PICK g : g = [n \in 0 .. K - 1 |-> Named(i, n)]
    OBVIOUS
  <2>10. \A n \in 0 .. K - 1 : Named(i, n) \in 1 .. NBlocks
    <3>1. \A n \in Pos : Named(i, n) \in 0 .. NBlocks
      BY DEF FileInv, Owned
    <3> QED
      BY <2>5, <2>6, <3>1 DEF BlockSizes
  <2>11. \A n, m \in 0 .. K - 1 : Named(i, n) = Named(i, m) => n = m
    <3>1. \A n, m \in Pos : Named(i, n) # 0 /\ Named(i, n) = Named(i, m) => n = m
      BY DEF FileInv, Owned
    <3> QED
      BY <2>5, <2>6, <3>1
  <2>12. ExistsBijection(0 .. K - 1, S)
    <3>1. g \in [0 .. K - 1 -> S]
      BY <2>7, <2>8, <2>9, <2>10
    <3>2. \A n, m \in 0 .. K - 1 : g[n] = g[m] => n = m
      BY <2>9, <2>11
    <3>3. \A b \in S : \E n \in 0 .. K - 1 : g[n] = b
      BY <2>7, <2>8, <2>9
    <3>4. g \in Injection(0 .. K - 1, S)
      BY <3>1, <3>2 DEF Injection, IsInjective
    <3>5. g \in Surjection(0 .. K - 1, S)
      BY <3>1, <3>3 DEF Surjection
    <3>6. g \in Bijection(0 .. K - 1, S)
      BY <3>4, <3>5 DEF Bijection
    <3> QED
      BY <3>6 DEF ExistsBijection
  <2>13. IsFiniteSet(0 .. K - 1) /\ Cardinality(0 .. K - 1) = K
    <3>1. 0 \in Int /\ K - 1 \in Int
      BY <2>4
    <3>2. IsFiniteSet(0 .. K - 1) /\ Cardinality(0 .. K - 1) = IF 0 > K - 1 THEN 0 ELSE K - 1 - 0 + 1
      BY <3>1, FS_Interval
    <3> QED
      BY <2>4, <3>2
  <2>14. Cardinality(S) = K
    BY <2>12, <2>13, FS_Bijection
  <2>15. NDIRECT * BSIZE = BSIZE * NDIRECT
    BY DEF BlockSizes
  <2> QED
    BY <2>2, <2>3, <2>7, <2>14, <2>15
<1> QED
  BY <1>1, FilesInvariant, PTL

-------------------------------------------------------------------------------
(* Files are sequences of bytes *)

\* A file that the call of another process has, or none.
LEMMA QuietContent ==
    ASSUME FileInv, NEW p, blk' = blk, addrs' = addrs, \A q \in Proc : q # p => at'[q] = at[q],
           NEW i \in Inode, lock'[i] = lock[i], size'[i] = size[i], lock[i] # p
    PROVE  Bl!Content(i)' = Bl!Content(i)
<1>1. lock[i] \in Proc \cup {0} /\ size[i] \in Nat
  BY DEF FileInv, BlockType
<1>2. \A k : Bl!ByteAt(i, k)' = Bl!ByteAt(i, k)
  BY DEF Bl!ByteAt, Bl!BlockAt
<1>3. lock[i] # 0 => at'[lock[i]] = at[lock[i]]
  BY <1>1
<1> QED
  BY <1>1, <1>2, <1>3, ContentKept

LEMMA Stutters ==
    ASSUME \A i \in Inode : Bl!Content(i)' = Bl!Content(i), off' = off, got' = got
    PROVE  UNCHANGED Bl!A!absVars
<1>1. PICK C : C = [i \in Inode |-> Bl!Content(i)]
  OBVIOUS
<1>2. [i \in Inode |-> Bl!Content(i)'] = C
  BY <1>1
<1>3. [i \in Inode |-> Bl!Content(i)]' = C
  BY <1>2
<1> QED
  BY <1>1, <1>3 DEF Bl!A!absVars

\* Whoever has an inode locked writes it or truncates it.
LEMMA Lockers ==
    ASSUME BlockSizes, FileInv, NEW p \in Proc, NEW i \in Inode, lock[i] = p
    PROVE  at[p].at \in {"copy", "trunc"} /\ at[p].ip = i
BY DEF FileInv, LockedBy, BlockSizes

LEMMA OutsideStutters ==
    ASSUME BlockSizes, FileInv, NEW p \in Proc, at[p].at \in {"idle", "piece"}, blk' = blk, addrs' = addrs, size' = size,
           lock' = lock, off' = off, got' = got, \A q \in Proc : q # p => at'[q] = at[q]
    PROVE  UNCHANGED Bl!A!absVars
<1>1. \A i \in Inode : lock[i] # p
  BY Lockers
<1>2. \A i \in Inode : Bl!Content(i)' = Bl!Content(i)
  BY <1>1, QuietContent
<1> QED
  BY <1>2, Stutters

LEMMA WriteBeginStutters ==
    ASSUME BlockSizes, FileInv, NEW p \in Proc, Bl!WriteBegin(p)
    PROVE  UNCHANGED Bl!A!absVars
<1>1. at[p].at = "piece" /\ lock[at[p].ip] = 0 /\ blk' = blk /\ addrs' = addrs /\ size' = size /\ off' = off /\ got' = got
  BY DEF Bl!WriteBegin, Bl!NoProc
<1>2. PICK i \in Inode : i = at[p].ip
  BY <1>1 DEF FileInv, Calling, BlockSizes
<1>3. PICK n1 : n1 = Bl!Min({Len(at[p].src), Bl!max})
  OBVIOUS
<1>4. CASE Bl!Refused(i, off[at[p].fl], n1)
  <2>1. at' = [at EXCEPT ![p] = Bl!Idle] /\ lock' = lock
    BY <1>2, <1>3, <1>4 DEF Bl!WriteBegin
  <2>2. \A q \in Proc : q # p => at'[q] = at[q]
    BY <2>1, CallFacts
  <2> QED
    BY <1>1, <2>1, <2>2, OutsideStutters
<1>5. CASE ~Bl!Refused(i, off[at[p].fl], n1)
  <2>1. PICK bs : bs = Bl!Bytes(i, 0, size[i])
    OBVIOUS
  <2>2. /\ at' = [at EXCEPT ![p].at = "copy", ![p].n1 = n1, ![p].tot = 0, ![p].old = bs]
        /\ lock' = [lock EXCEPT ![i] = p]
    BY <1>2, <1>3, <1>5, <2>1 DEF Bl!WriteBegin
  <2>3. at' = [at EXCEPT ![p] = Begun(p, n1, bs)]
    <3>1. Begins(p, n1, bs)
      BY <2>2 DEF Begins
    <3> QED
      BY <3>1, BegunCall
  <2>4. at'[p].old = bs /\ \A q \in Proc : q # p => at'[q] = at[q]
    BY <2>3, CallFacts DEF Begun
  <2>5. p # 0 /\ lock'[i] = p /\ \A j \in Inode : j # i => lock'[j] = lock[j]
    BY <2>2 DEF FileInv, BlockType, BlockSizes
  <2>6. \A j \in Inode : lock[j] # p
    BY <1>1, Lockers
  <2>7. ASSUME NEW j \in Inode, j # i PROVE Bl!Content(j)' = Bl!Content(j)
    BY <1>1, <2>4, <2>5, <2>6, <2>7, QuietContent
  <2>8. Bl!Content(i) = bs
    BY <1>1, <1>2, <2>1 DEF Bl!Content, Bl!NoProc
  <2>9. Bl!Content(i)' = at'[p].old
    BY <2>5 DEF Bl!Content, Bl!NoProc
  <2>10. \A j \in Inode : Bl!Content(j)' = Bl!Content(j)
    BY <2>4, <2>7, <2>8, <2>9
  <2> QED
    BY <1>1, <2>10, Stutters
<1> QED
  BY <1>4, <1>5

LEMMA TruncStutters ==
    ASSUME BlockSizes, FileInv, NEW p \in Proc, Bl!itrunc(p)
    PROVE  UNCHANGED Bl!A!absVars
<1>1. at[p].at = "trunc" /\ blk' = blk /\ off' = off /\ got' = got
  BY DEF Bl!itrunc
<1>2. PICK i \in Inode : i = at[p].ip /\ lock[i] = p /\ p # 0 /\ at[p].old = <<>>
  BY <1>1 DEF FileInv, Calling, BlockSizes
<1>3. \A j \in Inode : j # i => addrs'[j] = addrs[j] /\ lock'[j] = lock[j] /\ size'[j] = size[j] /\ lock[j] # p
  <2>1. addrs \in [Inode -> [0 .. NDIRECT -> 0 .. NBlocks]] /\ lock \in [Inode -> Proc \cup {0}]
        /\ size \in [Inode -> 0 .. BSIZE * (NDIRECT + BSIZE)]
    BY DEF FileInv, BlockType
  <2>2. \A j \in Inode : j # i => lock[j] # p
    BY <1>2, Lockers
  <2>3. \/ addrs' = addrs
        \/ \E n : addrs' = [addrs EXCEPT ![i][n] = 0]
    BY <1>2 DEF Bl!itrunc
  <2>4. size' = size \/ size' = [size EXCEPT ![i] = 0]
    BY <1>2, Zenon DEF Bl!itrunc
  <2>5. lock' = lock \/ lock' = [lock EXCEPT ![i] = 0]
    BY <1>2, Zenon DEF Bl!itrunc, Bl!NoProc
  <2> QED
    BY <2>1, <2>2, <2>3, <2>4, <2>5
<1>4. \/ lock' = lock /\ size' = size /\ (at' = at \/ \E k : at' = [at EXCEPT ![p].tot = k])
      \/ lock' = [lock EXCEPT ![i] = 0] /\ size' = [size EXCEPT ![i] = 0] /\ at' = [at EXCEPT ![p] = Bl!Idle]
  BY <1>2, Zenon DEF Bl!itrunc, Bl!NoProc
<1>5. \A q \in Proc : q # p => at'[q] = at[q]
  BY <1>4, CallFacts
<1>6. ASSUME NEW j \in Inode, j # i PROVE Bl!Content(j)' = Bl!Content(j)
  <2>1. \A k : Bl!ByteAt(j, k)' = Bl!ByteAt(j, k)
    BY <1>1, <1>3, <1>6 DEF Bl!ByteAt, Bl!BlockAt
  <2>2. lock[j] \in Proc \cup {0} /\ size[j] \in Nat
    BY DEF FileInv, BlockType
  <2>3. lock[j] # 0 => at'[lock[j]] = at[lock[j]]
    BY <1>3, <1>5, <1>6, <2>2
  <2> QED
    BY <1>3, <1>6, <2>1, <2>2, <2>3, ContentKept
<1>7. Bl!Content(i) = <<>>
  BY <1>2 DEF Bl!Content, Bl!NoProc
<1>8. Bl!Content(i)' = <<>>
  <2>1. ASSUME lock' = lock, at' = at \/ \E k : at' = [at EXCEPT ![p].tot = k] PROVE Bl!Content(i)' = <<>>
    <3>1. at'[p].old = <<>>
      BY <1>2, <2>1, CallFacts
    <3> QED
      BY <1>2, <2>1, <3>1 DEF Bl!Content, Bl!NoProc
  <2>2. ASSUME lock' = [lock EXCEPT ![i] = 0], size' = [size EXCEPT ![i] = 0] PROVE Bl!Content(i)' = <<>>
    <3>1. lock'[i] = 0 /\ size'[i] = 0
      BY <2>2 DEF FileInv, BlockType
    <3>2. Bl!Content(i)' = [k \in 1 .. 0 |-> Bl!ByteAt(i, 0 + k - 1)']
      BY <3>1 DEF Bl!Content, Bl!NoProc, Bl!Bytes, Bl!ByteAt, Bl!BlockAt
    <3> QED
      BY <3>2, EmptySeq
  <2> QED
    BY <1>4, <2>1, <2>2
<1>9. \A j \in Inode : Bl!Content(j)' = Bl!Content(j)
  BY <1>6, <1>7, <1>8
<1> QED
  BY <1>1, <1>9, Stutters

\* What the abstract files were and are.
Files(C, D) == C = [i \in Inode |-> Bl!Content(i)] /\ D = [i \in Inode |-> Bl!Content(i)']

LEMMA FilesNamed ==
    ASSUME NEW C, NEW D, Files(C, D)
    PROVE  [i \in Inode |-> Bl!Content(i)] = C /\ [i \in Inode |-> Bl!Content(i)]' = D
BY DEF Files

\* A piece is written as a whole.
Wrote(f, i, bs, o, z, n, old) ==
    /\ i = IpOf[f] /\ o = off[f] /\ Bl!Content(i) = old /\ Len(old) = z /\ o <= z /\ o + n <= BSIZE * (NDIRECT + BSIZE)
    /\ bs \in [1 .. n -> Byte] /\ n <= Bl!max /\ got' = got /\ off' = [off EXCEPT ![f] = o + n]
    /\ Bl!Content(i)' = [k \in 1 .. (IF o + n > z THEN o + n ELSE z) |-> IF k > o /\ k <= o + n THEN bs[k - o] ELSE old[k]]
    /\ \A j \in Inode : j # i => Bl!Content(j)' = Bl!Content(j)

LEMMA AbstractWrite ==
    ASSUME BlockSizes, NEW f \in File, NEW i \in Inode, NEW bs, NEW o \in Nat, NEW z \in Nat, NEW n \in Nat \ {0}, NEW old,
           Wrote(f, i, bs, o, z, n, old)
    PROVE  Bl!A!Next
<1>1. PICK C, D : Files(C, D)
  BY DEF Files
<1>2. /\ i = IpOf[f] /\ o = off[f] /\ C[i] = old /\ Len(old) = z /\ o <= z /\ o + n <= BSIZE * (NDIRECT + BSIZE)
      /\ bs \in [1 .. n -> Byte] /\ n <= Bl!max /\ got' = got /\ off' = [off EXCEPT ![f] = o + n]
  BY <1>1 DEF Wrote, Files
<1>3. Len(bs) = n /\ bs \in Seq(Byte)
  BY <1>2
<1>4. PICK w : w = [k \in 1 .. (IF o + n > z THEN o + n ELSE z) |-> IF k > o /\ k <= o + n THEN bs[k - o] ELSE old[k]]
  OBVIOUS
<1>5. w = Bl!A!Overwritten(C[i], o, bs)
  BY <1>2, <1>3, <1>4 DEF Bl!A!Overwritten
<1>6. D = [C EXCEPT ![i] = w]
  BY <1>1, <1>4 DEF Files, Wrote
<1>7. Bl!MAXFILE * BSIZE = BSIZE * (NDIRECT + BSIZE)
  BY DEF BlockSizes, Bl!MAXFILE, Bl!NINDIRECT
<1>8. off[f] <= Len(C[IpOf[f]]) /\ off[f] + Len(bs) <= Bl!MAXFILE * BSIZE
  BY <1>2, <1>3, <1>7
<1>9. D = [C EXCEPT ![IpOf[f]] = Bl!A!Overwritten(@, off[f], bs)] /\ off' = [off EXCEPT ![f] = @ + Len(bs)]
  BY <1>2, <1>3, <1>5, <1>6
<1>10. Bl!A!Write(f, bs)
  BY <1>1, <1>2, <1>8, <1>9, FilesNamed DEF Bl!A!Write
<1>11. bs \in Bl!A!Pieces
  <2>1. Bl!max \in Nat
    BY MaxFacts
  <2>2. n \in 1 .. Bl!max
    BY <1>2, <2>1
  <2> QED
    BY <1>2, <2>2 DEF Bl!A!Pieces
<1> QED
  BY <1>10, <1>11, Zenon DEF Bl!A!Next

\* A read() gets what is at the offset.
Reads(f, i, n, r, o, z, cs) ==
    /\ i = IpOf[f] /\ o = off[f] /\ Bl!Content(i) = cs /\ Len(cs) = z /\ o <= z /\ z <= BSIZE * (NDIRECT + BSIZE)
    /\ r = (IF o + n > z THEN z - o ELSE n)
    /\ got' = [k \in 1 .. r |-> cs[o + k]] /\ off' = [off EXCEPT ![f] = o + r]
    /\ \A j \in Inode : Bl!Content(j)' = Bl!Content(j)

LEMMA AbstractRead ==
    ASSUME BlockSizes, NEW f \in File, NEW i \in Inode, NEW n \in Nat \ {0}, NEW r, NEW o \in Nat, NEW z \in Nat, NEW S, NEW cs \in Seq(S),
           Reads(f, i, n, r, o, z, cs)
    PROVE  Bl!A!Next
<1>1. PICK C, D : Files(C, D)
  BY DEF Files
<1>2. PICK M \in Nat : M = BSIZE * (NDIRECT + BSIZE) /\ M = Bl!MAXFILE * BSIZE /\ M >= 1
  <2>1. NDIRECT + BSIZE \in Nat /\ NDIRECT + BSIZE >= 1 /\ BSIZE >= 1 /\ BSIZE \in Nat /\ NDIRECT \in Nat
    BY DEF BlockSizes
  <2>2. PICK M \in Nat : M = BSIZE * (NDIRECT + BSIZE)
    BY <2>1, BlocksInOrder
  <2>3. M >= 1
    <3>1. PICK w \in Nat : w = NDIRECT + BSIZE - 1
      BY <2>1
    <3>2. PICK W \in Nat : W = BSIZE * w
      BY <2>1, <3>1, BlocksInOrder
    <3>3. BSIZE * (w + 1) = BSIZE * w + BSIZE
      BY <2>1
    <3>4. w + 1 = NDIRECT + BSIZE
      BY <2>1, <3>1
    <3> QED
      BY <2>1, <2>2, <3>2, <3>3, <3>4
  <2> QED
    BY <2>2, <2>3 DEF BlockSizes, Bl!MAXFILE, Bl!NINDIRECT
<1>3. /\ i = IpOf[f] /\ o = off[f] /\ C[i] = cs /\ Len(cs) = z /\ o <= z /\ z <= M
      /\ r = (IF o + n > z THEN z - o ELSE n)
      /\ got' = [k \in 1 .. r |-> cs[o + k]] /\ off' = [off EXCEPT ![f] = o + r]
  BY <1>1, <1>2 DEF Reads, Files
<1>4. PICK h \in 1 .. M : h = IF n > M THEN M ELSE n
  BY <1>2
<1>5. PICK e \in Nat : e = (IF o + h > z THEN z ELSE o + h) /\ r = e - o /\ e <= z
  <2>1. (IF o + h > z THEN z ELSE o + h) = o + r /\ o + r \in Nat /\ o + r <= z /\ r \in Nat
    <3>1. r = (IF o + n > z THEN z - o ELSE n) /\ o <= z /\ z <= M /\ h = (IF n > M THEN M ELSE n) /\ M >= 1
      BY <1>2, <1>3, <1>4
    <3>2. CASE o + n > z
      BY <3>1, <3>2
    <3>3. CASE ~(o + n > z)
      BY <3>1, <3>3
    <3> QED
      BY <3>2, <3>3
  <2> QED
    BY <2>1
<1>6. PICK g : g = SubSeq(cs, o + 1, e)
  OBVIOUS
<1>7. g = [k \in 1 .. r |-> cs[o + k]] /\ Len(g) = r
  <2>1. r \in Nat /\ e - (o + 1) + 1 = r
    BY <1>3, <1>5
  <2>2. g = [k \in 1 .. r |-> cs[o + 1 + k - 1]]
    BY <1>6, <2>1
  <2>3. \A k \in 1 .. r : o + 1 + k - 1 = o + k
    BY <2>1
  <2> QED
    BY <2>1, <2>2, <2>3
<1>8. D = C
  BY <1>1 DEF Files, Reads
<1>9. got' = SubSeq(C[IpOf[f]], off[f] + 1, IF off[f] + h > Len(C[IpOf[f]]) THEN Len(C[IpOf[f]]) ELSE off[f] + h)
  BY <1>3, <1>5, <1>6, <1>7
<1>10. off' = [off EXCEPT ![f] = @ + Len(got')]
  BY <1>3, <1>7
<1>11. Bl!A!Read(f, h)
  BY <1>1, <1>8, <1>9, <1>10, FilesNamed DEF Bl!A!Read
<1>12. h \in 1 .. Bl!MAXFILE * BSIZE
  BY <1>2
<1> QED
  BY <1>11, <1>12, Zenon DEF Bl!A!Next

LEMMA WriteEndWrites ==
    ASSUME BlockSizes, FileInv, NEW p \in Proc, Bl!WriteEnd(p)
    PROVE  Bl!A!Next
<1>1. at[p].at = "copy" /\ at[p].tot = at[p].n1 /\ blk' = blk /\ addrs' = addrs /\ got' = got
  BY DEF Bl!WriteEnd
<1>2. PICK i \in Inode, f \in File : i = at[p].ip /\ f = at[p].fl /\ i = IpOf[f] /\ lock[i] = p /\ p # 0
  BY <1>1 DEF FileInv, Calling, BlockSizes
<1>3. PICK n \in Nat \ {0}, o \in Nat, z \in Nat :
        /\ n = at[p].n1 /\ n <= Len(at[p].src) /\ n <= Bl!max /\ o = off[f] /\ z = size[i] /\ o <= z
        /\ o + n <= BSIZE * (NDIRECT + BSIZE) /\ Len(at[p].old) = z
  <2>1. NDIRECT + BSIZE \in Nat
    BY DEF BlockSizes
  <2>2. PICK M \in Nat : M = BSIZE * (NDIRECT + BSIZE)
    BY <2>1, BlocksInOrder
  <2>3. PICK n \in Nat \ {0} : n = at[p].n1 /\ n <= Len(at[p].src)
    BY <1>1, CallFacts DEF FileInv, Calling
  <2>4. PICK o \in Nat, z \in Nat : o = off[f] /\ z = size[i]
    BY <2>2 DEF FileInv, BlockType
  <2>5. n <= Bl!max /\ o <= z /\ o + n <= M /\ Len(at[p].old) = z
    BY <1>1, <1>2, <2>2, <2>3, <2>4 DEF FileInv, Calling
  <2> QED
    BY <2>2, <2>3, <2>4, <2>5
<1>4. PICK old \in Seq(Byte \cup Nat), src \in Seq(Byte) : old = at[p].old /\ src = at[p].src
  BY CallFacts
<1>5. PICK e \in Nat : e = IF o + n > z THEN o + n ELSE z
  OBVIOUS
<1>6. /\ size' = [size EXCEPT ![i] = e] /\ lock' = [lock EXCEPT ![i] = 0] /\ off' = [off EXCEPT ![f] = o + n]
  BY <1>2, <1>3, <1>5 DEF Bl!WriteEnd, Bl!Grown, Bl!NoProc
<1>7. size'[i] = e /\ lock'[i] = 0 /\ \A j \in Inode : j # i => size'[j] = size[j] /\ lock'[j] = lock[j]
  BY <1>6 DEF FileInv, BlockType
<1>8. \A q \in Proc : q # p => at'[q] = at[q]
  BY CallFacts DEF Bl!WriteEnd
<1>9. ASSUME NEW j \in Inode, j # i PROVE Bl!Content(j)' = Bl!Content(j)
  <2>1. lock[j] # p
    BY <1>2, <1>9, Lockers
  <2> QED
    BY <1>1, <1>7, <1>8, <1>9, <2>1, QuietContent
<1>10. Bl!Content(i) = old
  BY <1>2, <1>4 DEF Bl!Content, Bl!NoProc
<1>11. PICK bs : bs = [k \in 1 .. n |-> src[k]]
  OBVIOUS
<1>12. bs \in [1 .. n -> Byte]
  BY <1>3, <1>4, <1>11
<1>13. \A k \in 0 .. e - 1 : Bl!ByteAt(i, k)' = IF k >= o /\ k < o + n THEN src[k - o + 1] ELSE old[k + 1]
  <2>1. EndOf(i) = e
    BY <1>1, <1>2, <1>3, <1>5 DEF EndOf
  <2>2. \A k \in 0 .. e - 1 : Bl!ByteAt(i, k) = IF k >= o /\ k < o + n THEN src[k - o + 1] ELSE old[k + 1]
    BY <1>1, <1>2, <1>3, <1>4, <2>1 DEF FileInv, Written
  <2>3. \A k : Bl!ByteAt(i, k)' = Bl!ByteAt(i, k)
    BY <1>1 DEF Bl!ByteAt, Bl!BlockAt
  <2> QED
    BY <2>2, <2>3
<1>14. \A k \in 1 .. e : Bl!ByteAt(i, 0 + k - 1)' = IF k > o /\ k <= o + n THEN bs[k - o] ELSE old[k]
  <2> SUFFICES ASSUME NEW k \in 1 .. e PROVE Bl!ByteAt(i, 0 + k - 1)' = IF k > o /\ k <= o + n THEN bs[k - o] ELSE old[k]
    OBVIOUS
  <2>1. PICK h \in 0 .. e - 1 : h = 0 + k - 1 /\ h + 1 = k
    OBVIOUS
  <2>2. Bl!ByteAt(i, 0 + k - 1)' = Bl!ByteAt(i, h)'
    BY <2>1 DEF Bl!ByteAt
  <2>3. Bl!ByteAt(i, h)' = IF h >= o /\ h < o + n THEN src[h - o + 1] ELSE old[h + 1]
    BY <1>13
  <2>4. (h >= o /\ h < o + n <=> k > o /\ k <= o + n) /\ h - o + 1 = k - o
    BY <2>1
  <2>5. k > o /\ k <= o + n => bs[k - o] = src[k - o]
    <3>1. k > o /\ k <= o + n => k - o \in 1 .. n
      OBVIOUS
    <3> QED
      BY <1>11, <3>1
  <2> QED
    BY <2>1, <2>2, <2>3, <2>4, <2>5
<1>15. Bl!Content(i)' = [k \in 1 .. e |-> Bl!ByteAt(i, 0 + k - 1)']
  BY <1>7 DEF Bl!Content, Bl!NoProc, Bl!Bytes, Bl!ByteAt, Bl!BlockAt
<1>16. Bl!Content(i)' = [k \in 1 .. (IF o + n > z THEN o + n ELSE z) |-> IF k > o /\ k <= o + n THEN bs[k - o] ELSE old[k]]
  BY <1>5, <1>14, <1>15, Zenon
<1>17. Wrote(f, i, bs, o, z, n, old)
  BY <1>1, <1>2, <1>3, <1>4, <1>6, <1>9, <1>10, <1>12, <1>16 DEF Wrote
<1> QED
  BY <1>17, AbstractWrite

LEMMA ReadReads ==
    ASSUME BlockSizes, FileInv, NEW p \in Proc, Bl!fileread(p)
    PROVE  Bl!A!Next
<1>1. PICK f \in File, n \in ReadSize :
        /\ lock[IpOf[f]] = 0 /\ off[f] <= size[IpOf[f]]
        /\ got' = Bl!Bytes(IpOf[f], off[f], IF off[f] + n > size[IpOf[f]] THEN size[IpOf[f]] - off[f] ELSE n)
        /\ off' = [off EXCEPT ![f] = @ + (IF off[f] + n > size[IpOf[f]] THEN size[IpOf[f]] - off[f] ELSE n)]
  BY DEF Bl!fileread, Bl!NoProc
<1>2. PICK i \in Inode : i = IpOf[f]
  BY DEF BlockSizes
<1>3. /\ at' = at /\ blk' = blk /\ addrs' = addrs /\ size' = size /\ lock' = lock
  BY DEF Bl!fileread
<1>4. PICK o \in Nat, z \in Nat : o = off[f] /\ z = size[i] /\ o <= z /\ z <= BSIZE * (NDIRECT + BSIZE)
  <2>1. NDIRECT + BSIZE \in Nat
    BY DEF BlockSizes
  <2>2. PICK M \in Nat : M = BSIZE * (NDIRECT + BSIZE)
    BY <2>1, BlocksInOrder
  <2> QED
    BY <1>1, <1>2, <2>2 DEF FileInv, BlockType
<1>5. PICK r : r = (IF o + n > z THEN z - o ELSE n)
  OBVIOUS
<1>6. n \in Nat \ {0}
  BY DEF BlockSizes
<1>7. PICK cs : cs = [k \in 1 .. z |-> Bl!ByteAt(i, 0 + k - 1)]
  OBVIOUS
<1>8. Bl!Content(i) = cs
  BY <1>1, <1>2, <1>4, <1>7 DEF Bl!Content, Bl!NoProc, Bl!Bytes
<1>9. PICK S : S = {Bl!ByteAt(i, 0 + k - 1) : k \in 1 .. z}
  OBVIOUS
<1>10. cs \in Seq(S) /\ Len(cs) = z
  <2>1. cs \in [1 .. z -> S]
    BY <1>7, <1>9
  <2> QED
    BY <1>4, <2>1
<1>11. got' = [k \in 1 .. r |-> cs[o + k]]
  <2>1. r \in Nat /\ o + r <= z
    BY <1>4, <1>5, <1>6
  <2>2. got' = [k \in 1 .. r |-> Bl!ByteAt(i, o + k - 1)]
    BY <1>1, <1>2, <1>4, <1>5 DEF Bl!Bytes
  <2>3. ASSUME NEW k \in 1 .. r PROVE Bl!ByteAt(i, o + k - 1) = cs[o + k]
    <3>1. PICK h \in 1 .. z : h = o + k
      BY <2>1
    <3>2. cs[h] = Bl!ByteAt(i, 0 + h - 1)
      BY <1>7
    <3>3. 0 + h - 1 = o + k - 1
      BY <2>1, <3>1
    <3> QED
      BY <3>1, <3>2, <3>3
  <2> QED
    BY <2>2, <2>3
<1>12. off' = [off EXCEPT ![f] = o + r]
  BY <1>1, <1>2, <1>4, <1>5
<1>13. \A j \in Inode : Bl!Content(j)' = Bl!Content(j)
  BY <1>3 DEF Bl!Content, Bl!Bytes, Bl!ByteAt, Bl!BlockAt
<1>14. Reads(f, i, n, r, o, z, cs)
  BY <1>2, <1>4, <1>5, <1>8, <1>10, <1>11, <1>12, <1>13 DEF Reads
<1> QED
  BY <1>6, <1>10, <1>14, AbstractRead

LEMMA ReopenReopens ==
    ASSUME BlockSizes, FileInv, NEW p \in Proc, Bl!Reopen(p)
    PROVE  Bl!A!Next
<1>1. PICK f \in File : off' = [off EXCEPT ![f] = 0]
  BY DEF Bl!Reopen
<1>2. /\ at' = at /\ blk' = blk /\ addrs' = addrs /\ size' = size /\ lock' = lock /\ got' = got
  BY DEF Bl!Reopen
<1>3. \A j \in Inode : Bl!Content(j)' = Bl!Content(j)
  BY <1>2 DEF Bl!Content, Bl!Bytes, Bl!ByteAt, Bl!BlockAt
<1>4. PICK C, D : Files(C, D)
  BY DEF Files
<1>5. D = C
  BY <1>3, <1>4 DEF Files
<1>6. Bl!A!Reopen(f)
  BY <1>1, <1>2, <1>4, <1>5, FilesNamed DEF Bl!A!Reopen
<1> QED
  BY <1>6, Zenon DEF Bl!A!Next

LEMMA RemoveRemoves ==
    ASSUME BlockSizes, FileInv, NEW p \in Proc, Bl!Remove(p)
    PROVE  Bl!A!Next
<1>1. PICK i \in Inode :
        /\ at' = [at EXCEPT ![p] = [Bl!Idle EXCEPT !.at = "trunc", !.ip = i]]
        /\ lock' = [lock EXCEPT ![i] = p]
        /\ off' = [f \in File |-> IF IpOf[f] = i THEN 0 ELSE off[f]]
  BY DEF Bl!Remove
<1>2. at[p].at = "idle" /\ blk' = blk /\ addrs' = addrs /\ size' = size /\ got' = got
  BY DEF Bl!Remove
<1>3. at'[p].old = <<>> /\ \A q \in Proc : q # p => at'[q] = at[q]
  BY <1>1, CallFacts DEF Bl!Idle
<1>4. lock'[i] = p /\ p # 0 /\ \A j \in Inode : j # i => lock'[j] = lock[j]
  BY <1>1 DEF FileInv, BlockType, BlockSizes
<1>5. \A j \in Inode : lock[j] # p
  BY <1>2, Lockers
<1>6. ASSUME NEW j \in Inode, j # i PROVE Bl!Content(j)' = Bl!Content(j)
  BY <1>2, <1>3, <1>4, <1>5, <1>6, QuietContent
<1>7. Bl!Content(i)' = <<>>
  BY <1>3, <1>4 DEF Bl!Content, Bl!NoProc
<1>8. PICK C, D : Files(C, D)
  BY DEF Files
<1>9. D = [C EXCEPT ![i] = <<>>]
  BY <1>6, <1>7, <1>8 DEF Files
<1>10. Bl!A!Remove(i)
  BY <1>1, <1>2, <1>8, <1>9, FilesNamed DEF Bl!A!Remove
<1> QED
  BY <1>10, Zenon DEF Bl!A!Next

LEMMA FilesEmpty == ASSUME Bl!Init PROVE Bl!A!Init
<1>1. size = [i \in Inode |-> 0] /\ lock = [i \in Inode |-> 0] /\ off = [f \in File |-> 0] /\ got = <<>>
  BY DEF Bl!Init, Bl!NoProc
<1>2. ASSUME NEW i \in Inode PROVE Bl!Content(i) = <<>>
  <2>1. Bl!Content(i) = [k \in 1 .. 0 |-> Bl!ByteAt(i, 0 + k - 1)]
    BY <1>1 DEF Bl!Content, Bl!NoProc, Bl!Bytes
  <2> QED
    BY <2>1, EmptySeq
<1> QED
  BY <1>1, <1>2 DEF Bl!A!Init

\* Files are sequences of bytes, whatever processes write, read, open again and remove at the
\* same time: a piece of a write() appears in the file as a whole and at its offset, a read()
\* returns what is there, and a removed file is empty.
THEOREM BlocksImplementFiles == ASSUME BlockSizes PROVE Bl!Spec => Bl!A!Spec
<1>1. Bl!Init => Bl!A!Init
  BY FilesEmpty
<1>2. FileInv /\ [Bl!Next]_Bl!blockVars => [Bl!A!Next]_Bl!A!absVars
  <2> SUFFICES ASSUME FileInv, [Bl!Next]_Bl!blockVars PROVE Bl!A!Next \/ UNCHANGED Bl!A!absVars
    OBVIOUS
  <2>1. ASSUME NEW p \in Proc,
               \/ Bl!filewrite(p) \/ Bl!WriteBegin(p) \/ Bl!writei(p) \/ Bl!WriteEnd(p) \/ Bl!WriteDone(p)
               \/ Bl!fileread(p) \/ Bl!Reopen(p) \/ Bl!Remove(p) \/ Bl!itrunc(p)
        PROVE  Bl!A!Next \/ UNCHANGED Bl!A!absVars
    <3>1. CASE Bl!filewrite(p)
      <4>1. at[p].at = "idle" /\ blk' = blk /\ addrs' = addrs /\ size' = size /\ lock' = lock /\ off' = off /\ got' = got
        BY <3>1 DEF Bl!filewrite
      <4>2. \A q \in Proc : q # p => at'[q] = at[q]
        BY <3>1, CallFacts DEF Bl!filewrite
      <4> QED
        BY <4>1, <4>2, OutsideStutters
    <3>2. CASE Bl!WriteBegin(p)
      BY <3>2, WriteBeginStutters
    <3>3. CASE Bl!writei(p)
      <4>1. (\A j \in Inode : Bl!Content(j)' = Bl!Content(j)) /\ off' = off /\ got' = got
        BY <3>3, WriteiKeeps DEF Bl!writei
      <4> QED
        BY <4>1, Stutters
    <3>4. CASE Bl!WriteEnd(p)
      BY <3>4, WriteEndWrites
    <3>5. CASE Bl!WriteDone(p)
      <4>1. at[p].at = "piece" /\ blk' = blk /\ addrs' = addrs /\ size' = size /\ lock' = lock /\ off' = off /\ got' = got
        BY <3>5 DEF Bl!WriteDone
      <4>2. \A q \in Proc : q # p => at'[q] = at[q]
        BY <3>5, CallFacts DEF Bl!WriteDone
      <4> QED
        BY <4>1, <4>2, OutsideStutters
    <3>6. CASE Bl!fileread(p)
      BY <3>6, ReadReads
    <3>7. CASE Bl!Reopen(p)
      BY <3>7, ReopenReopens
    <3>8. CASE Bl!Remove(p)
      BY <3>8, RemoveRemoves
    <3>9. CASE Bl!itrunc(p)
      BY <3>9, TruncStutters
    <3> QED
      BY <2>1, <3>1, <3>2, <3>3, <3>4, <3>5, <3>6, <3>7, <3>8, <3>9
  <2>2. CASE UNCHANGED Bl!blockVars
    <3>1. /\ at' = at /\ blk' = blk /\ addrs' = addrs /\ size' = size /\ lock' = lock /\ off' = off /\ got' = got
      BY <2>2 DEF Bl!blockVars
    <3>2. \A j \in Inode : Bl!Content(j)' = Bl!Content(j)
      BY <3>1 DEF Bl!Content, Bl!Bytes, Bl!ByteAt, Bl!BlockAt
    <3> QED
      BY <3>1, <3>2, Stutters
  <2>3. CASE Bl!Next
    <3>1. PICK p \in Proc :
               \/ Bl!filewrite(p) \/ Bl!WriteBegin(p) \/ Bl!writei(p) \/ Bl!WriteEnd(p) \/ Bl!WriteDone(p)
               \/ Bl!fileread(p) \/ Bl!Reopen(p) \/ Bl!Remove(p) \/ Bl!itrunc(p)
      BY <2>3, Zenon DEF Bl!Next
    <3> QED
      BY <2>1, <3>1
  <2> QED
    BY <2>2, <2>3
<1> QED
  BY <1>1, <1>2, FilesInvariant, PTL DEF Bl!Spec, Bl!A!Spec
================================================================================
