---------------------------------- MODULE Blocks -------------------------------
(***************************************************************************)
(* The contents of files: balloc(), bfree(), bmap(), itrunc(), readi() and *)
(* writei() of fs.c, with fileread() and filewrite() of file.c.            *)
(*                                                                         *)
(* A step is one turn of the loop of writei() or itrunc(), or what is done *)
(* between two of them: the inode is locked meanwhile, and another process *)
(* may allocate and free blocks for another inode.  A block holds BSIZE    *)
(* cells, which are bytes or, in an indirect block, block numbers.         *)
(***************************************************************************)
EXTENDS Integers, Sequences, FiniteSets, FiniteSetsExt

CONSTANTS Proc, Inode, File,
          IpOf,         \* the inode of an open file
          BSIZE, NDIRECT,
          NBlocks,      \* data blocks 1..NBlocks
          MAXOPBLOCKS,  \* blocks that a transaction may write
          Byte, Data,   \* bytes, and what write() is called with
          ReadSize,     \* how much read() is called for
          MaxCalls      \* bound: calls of a behaviour

NINDIRECT == BSIZE
MAXFILE == NDIRECT + NINDIRECT
Block == 1 .. NBlocks
Bitmap == 0             \* the bitmap block, and the block of the inodes
InodeBlock == -1
NoProc == 0

VARIABLES free,         \* the bitmap
          blk,          \* contents of the data blocks
          addrs, size,  \* of an inode
          lock,         \* who has locked an inode
          off,          \* offset of an open file
          at,           \* where the call of a process is
          dirty,        \* blocks that the transaction of a process has written
          got,          \* what the last read() returned
          calls, panic

blockVars == <<free, blk, addrs, size, lock, off, at, dirty, got, calls, panic>>

Zero == [c \in 0 .. BSIZE - 1 |-> 0]
Idle == [at |-> "idle", fl |-> 0, ip |-> 0, src |-> <<>>, n1 |-> 0, tot |-> 0, old |-> <<>>]

Init ==
    /\ free = Block /\ blk = [b \in Block |-> Zero]
    /\ addrs = [i \in Inode |-> [n \in 0 .. NDIRECT |-> 0]] /\ size = [i \in Inode |-> 0]
    /\ lock = [i \in Inode |-> NoProc] /\ off = [f \in File |-> 0]
    /\ at = [p \in Proc |-> Idle] /\ dirty = [p \in Proc |-> {}]
    /\ got = <<>> /\ calls = 0 /\ panic = FALSE

--------------------------------------------------------------------------------
(* Allocation and mapping.  s holds what they change: free, blk, a (the    *)
(* addresses of the inode), dirty, and b, the block that was asked for.    *)

balloc(s) ==
    LET b == Min(s.free) IN
        [s EXCEPT !.free = @ \ {b}, !.blk = [@ EXCEPT ![b] = Zero], !.dirty = @ \cup {Bitmap, b}, !.b = b]

\* Block number k of the inode, or of its indirect block.
bmapAddr(s, k) ==
    IF s.a[k] # 0 THEN [s EXCEPT !.b = s.a[k]]
    ELSE LET t == balloc(s) IN [t EXCEPT !.a[k] = t.b]

bmapIndirect(s, k) ==
    LET t == bmapAddr(s, NDIRECT)
        u == balloc(t)
    IN  IF t.blk[t.b][k] # 0 THEN [t EXCEPT !.b = t.blk[t.b][k]]
        ELSE [u EXCEPT !.blk = [@ EXCEPT ![t.b][k] = u.b], !.dirty = @ \cup {t.b}]

bmap(s, bn) == IF bn < NDIRECT THEN bmapAddr(s, bn) ELSE bmapIndirect(s, bn - NDIRECT)

\* Blocks that bmap() has to allocate.
Missing(i, bn) ==
    IF bn < NDIRECT THEN IF addrs[i][bn] = 0 THEN 1 ELSE 0
    ELSE IF addrs[i][NDIRECT] = 0 THEN 2
    ELSE IF blk[addrs[i][NDIRECT]][bn - NDIRECT] = 0 THEN 1 ELSE 0

\* The block of an inode that holds byte o, and the bytes of the inode.
BlockAt(i, bn) == IF bn < NDIRECT THEN addrs[i][bn] ELSE blk[addrs[i][NDIRECT]][bn - NDIRECT]
ByteAt(i, o) == blk[BlockAt(i, o \div BSIZE)][o % BSIZE]
Bytes(i, from, n) == [k \in 1 .. n |-> ByteAt(i, from + k - 1)]

--------------------------------------------------------------------------------
(* write(): pieces of one transaction each.                                *)

\* filewrite(): "write a few blocks at a time to avoid exceeding the maximum log
\* transaction size".
max == ((MAXOPBLOCKS - 1 - 1 - 2) \div 2) * BSIZE

filewrite(p) ==
    /\ at[p].at = "idle" /\ calls < MaxCalls /\ calls' = calls + 1
    /\ \E f \in File, src \in Data :
        at' = [at EXCEPT ![p] = [Idle EXCEPT !.at = "piece", !.fl = f, !.ip = IpOf[f], !.src = src]]
    /\ UNCHANGED <<free, blk, addrs, size, lock, off, dirty, got, panic>>

\* What writei() refuses: a hole, a file that is too large.
Refused(i, o, n) == o > size[i] \/ o + n > MAXFILE * BSIZE

\* ilock() and the tests of writei().
WriteBegin(p) ==
    /\ at[p].at = "piece" /\ at[p].src # <<>> /\ lock[at[p].ip] = NoProc
    /\ LET i == at[p].ip
           n1 == Min({Len(at[p].src), max})
       IN IF Refused(i, off[at[p].fl], n1)
          THEN at' = [at EXCEPT ![p] = Idle] /\ UNCHANGED <<lock, dirty>>
          ELSE /\ at' = [at EXCEPT ![p].at = "copy", ![p].n1 = n1, ![p].tot = 0, ![p].old = Bytes(i, 0, size[i])]
               /\ lock' = [lock EXCEPT ![i] = p]
               /\ dirty' = [dirty EXCEPT ![p] = {}]
    /\ UNCHANGED <<free, blk, addrs, size, off, got, calls, panic>>

\* Bytes that go into a block from its cell r on.
Chunk(n, r) == Min({n, BSIZE - r})

\* One turn of the loop of writei().
writei(p) ==
    /\ at[p].at = "copy" /\ at[p].tot < at[p].n1
    /\ LET i == at[p].ip
           o == off[at[p].fl] + at[p].tot
           r == o % BSIZE
           m == Chunk(at[p].n1 - at[p].tot, r)
           s == bmap([free |-> free, blk |-> blk, a |-> addrs[i], dirty |-> dirty[p], b |-> 0], o \div BSIZE)
       IN IF Missing(i, o \div BSIZE) > Cardinality(free)
          THEN panic' = TRUE /\ UNCHANGED <<free, blk, addrs, dirty, at>>
          ELSE /\ free' = s.free
               /\ addrs' = [addrs EXCEPT ![i] = s.a]
               /\ blk' = [s.blk EXCEPT ![s.b] = [c \in 0 .. BSIZE - 1 |->
                            IF c >= r /\ c < r + m THEN at[p].src[at[p].tot + c - r + 1] ELSE @[c]]]
               /\ dirty' = [dirty EXCEPT ![p] = s.dirty \cup {s.b}]
               /\ at' = [at EXCEPT ![p].tot = @ + m]
               /\ panic' = panic
    /\ UNCHANGED <<size, lock, off, got, calls>>

\* Mutant: the size is set also when the file does not grow.
GrownAlways(i, o) == o

\* The size of the file after a write up to offset o.
Grown(i, o) == IF o > size[i] THEN o ELSE size[i]

\* The new size, the offset of the open file, iunlock(), end_op().
WriteEnd(p) ==
    /\ at[p].at = "copy" /\ at[p].tot = at[p].n1
    /\ LET i == at[p].ip
           o == off[at[p].fl] + at[p].n1
       IN /\ size' = [size EXCEPT ![i] = Grown(i, o)]
          /\ dirty' = [dirty EXCEPT ![p] = IF o > size[i] THEN @ \cup {InodeBlock} ELSE @]
          /\ off' = [off EXCEPT ![at[p].fl] = o]
          /\ lock' = [lock EXCEPT ![i] = NoProc]
    /\ at' = [at EXCEPT ![p] = [@ EXCEPT !.at = "piece", !.src = SubSeq(at[p].src, at[p].n1 + 1, Len(at[p].src)), !.old = <<>>, !.n1 = 0, !.tot = 0]]
    /\ UNCHANGED <<free, blk, addrs, got, calls, panic>>

WriteDone(p) ==
    /\ at[p].at = "piece" /\ at[p].src = <<>>
    /\ at' = [at EXCEPT ![p] = Idle]
    /\ UNCHANGED <<free, blk, addrs, size, lock, off, dirty, got, calls, panic>>

\* fileread(), readi(): the inode is locked from beginning to end.
fileread(p) ==
    /\ at[p].at = "idle" /\ calls < MaxCalls /\ calls' = calls + 1
    /\ \E f \in File, n \in ReadSize :
        LET i == IpOf[f]
            r == IF off[f] + n > size[i] THEN size[i] - off[f] ELSE n
        IN /\ lock[i] = NoProc /\ off[f] <= size[i]
           /\ got' = Bytes(i, off[f], r)
           /\ off' = [off EXCEPT ![f] = @ + r]
    /\ UNCHANGED <<free, blk, addrs, size, lock, at, dirty, panic>>

--------------------------------------------------------------------------------
(* Opening and removing.                                                   *)

Uses(p, i) == at[p].ip = i

\* sys_open() of a file that was closed.
Reopen(p) ==
    /\ at[p].at = "idle" /\ calls < MaxCalls /\ calls' = calls + 1
    /\ \E f \in File :
        /\ \A q \in Proc : at[q].fl # f
        /\ off' = [off EXCEPT ![f] = 0]
    /\ UNCHANGED <<free, blk, addrs, size, lock, at, dirty, got, panic>>

\* The last reference to a removed file goes; the inode is used again later.
Remove(p) ==
    /\ at[p].at = "idle" /\ calls < MaxCalls /\ calls' = calls + 1
    /\ \E i \in Inode :
        /\ lock[i] = NoProc /\ \A q \in Proc : ~Uses(q, i)
        /\ at' = [at EXCEPT ![p] = [Idle EXCEPT !.at = "trunc", !.ip = i]]
        /\ lock' = [lock EXCEPT ![i] = p]
        /\ dirty' = [dirty EXCEPT ![p] = {}]
        /\ off' = [f \in File |-> IF IpOf[f] = i THEN 0 ELSE off[f]]
    /\ UNCHANGED <<free, blk, addrs, size, got, panic>>

bfree(p, b) == free' = free \cup {b} /\ panic' = (b \in free) /\ dirty' = [dirty EXCEPT ![p] = @ \cup {Bitmap}]

\* Mutant: the blocks of the indirect block are forgotten.
ListedNot(i, tot) == {}

\* Blocks of the indirect block that itrunc() has not freed.
Listed(i, tot) == {k \in tot .. NINDIRECT - 1 : addrs[i][NDIRECT] # 0 /\ blk[addrs[i][NDIRECT]][k] # 0}

\* itrunc(): the direct blocks, those of the indirect block, the indirect block.
itrunc(p) ==
    /\ at[p].at = "trunc"
    /\ LET i == at[p].ip
           direct == {n \in 0 .. NDIRECT - 1 : addrs[i][n] # 0}
           listed == Listed(i, at[p].tot)
       IN CASE direct # {} ->
                  /\ bfree(p, addrs[i][Min(direct)])
                  /\ addrs' = [addrs EXCEPT ![i][Min(direct)] = 0]
                  /\ UNCHANGED <<size, lock, at>>
            [] direct = {} /\ listed # {} ->
                  /\ bfree(p, blk[addrs[i][NDIRECT]][Min(listed)])
                  /\ at' = [at EXCEPT ![p].tot = Min(listed) + 1]
                  /\ UNCHANGED <<addrs, size, lock>>
            [] direct = {} /\ listed = {} /\ addrs[i][NDIRECT] # 0 ->
                  /\ bfree(p, addrs[i][NDIRECT])
                  /\ addrs' = [addrs EXCEPT ![i][NDIRECT] = 0]
                  /\ UNCHANGED <<size, lock, at>>
            [] OTHER ->
                  /\ size' = [size EXCEPT ![i] = 0]
                  /\ lock' = [lock EXCEPT ![i] = NoProc]
                  /\ at' = [at EXCEPT ![p] = Idle]
                  /\ dirty' = [dirty EXCEPT ![p] = @ \cup {InodeBlock}]
                  /\ UNCHANGED <<free, addrs, panic>>
    /\ UNCHANGED <<blk, off, got, calls>>

Next ==
    /\ ~panic
    /\ \E p \in Proc :
        \/ filewrite(p) \/ WriteBegin(p) \/ writei(p) \/ WriteEnd(p) \/ WriteDone(p)
        \/ fileread(p) \/ Reopen(p) \/ Remove(p) \/ itrunc(p)

Spec == Init /\ [][Next]_blockVars

--------------------------------------------------------------------------------
(* Properties.                                                             *)

TypeOK ==
    /\ free \subseteq Block /\ panic \in BOOLEAN
    /\ addrs \in [Inode -> [0 .. NDIRECT -> 0 .. NBlocks]]
    /\ size \in [Inode -> 0 .. MAXFILE * BSIZE] /\ off \in [File -> 0 .. MAXFILE * BSIZE]
    /\ lock \in [Inode -> Proc \cup {NoProc}]

\* Entries of the indirect block of an inode that itrunc() has passed.
Passed(i) == UNION {0 .. at[p].tot - 1 : p \in {q \in Proc : at[q].at = "trunc" /\ at[q].ip = i}}

\* The places that name a block: inode, position.
Places(b) ==
    {x \in Inode \X (0 .. NDIRECT) : addrs[x[1]][x[2]] = b}
    \cup {x \in Inode \X (NDIRECT + 1 .. MAXFILE) :
            /\ addrs[x[1]][NDIRECT] # 0 /\ x[2] - NDIRECT - 1 \notin Passed(x[1])
            /\ blk[addrs[x[1]][NDIRECT]][x[2] - NDIRECT - 1] = b}

\* fs.c: in every interleaving a block that the bitmap has in use is in one place of one
\* inode and a free one in none, but for what itrunc() has passed in an indirect block.
BlocksOwned == \A b \in Block : Cardinality(Places(b)) = IF b \in free THEN 0 ELSE 1

\* fs.c: a file has the blocks that its size asks for, before and after every call.
SizeCovered ==
    \A i \in Inode : lock[i] = NoProc =>
        Cardinality({b \in Block : \E x \in Places(b) : x[1] = i}) =
            (size[i] + BSIZE - 1) \div BSIZE + (IF size[i] > NDIRECT * BSIZE THEN 1 ELSE 0)

\* file.c, log.c: no transaction writes more blocks than it has reserved.
OpFits == \A p \in Proc : Cardinality(dirty[p]) <= MAXOPBLOCKS

\* The file while a piece is being written, with the inode locked, is what it was before.
Content(i) ==
    IF lock[i] = NoProc THEN Bytes(i, 0, size[i]) ELSE at[lock[i]].old

\* Files are sequences of bytes, whatever processes write, read and remove.
A == INSTANCE ByteFiles WITH content <- [i \in Inode |-> Content(i)], MaxSize <- MAXFILE * BSIZE, MaxPiece <- max
================================================================================
