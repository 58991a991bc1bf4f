---------------------------------- MODULE Mkfs ---------------------------------
(***************************************************************************)
(* mkfs.c: the image of a file system with files in its root directory.    *)
(* A round of the loop of iappend() is a step, and so is the start of a    *)
(* file.  What stands at offset off of inode i is the byte <<i, off>>, and *)
(* the entries of the root directory are kept beside its bytes.            *)
(***************************************************************************)
EXTENDS Integers, Sequences, FiniteSets

CONSTANTS BSIZE, NDIRECT, NINDIRECT,
          Dirent,     \* sizeof(struct dirent)
          NINODES,
          nmeta,      \* boot block, super block, log, inodes, bitmap
          Sizes,      \* the sizes of files that are given
          MaxFiles    \* bound: files that are given

VARIABLES din,        \* the inodes on the image
          ind,        \* ind[b]: the addresses in block b, if it is an indirect block
          sect,       \* sect[b]: the bytes in block b
          freeinode, freeblock,
          bits,       \* the blocks marked in the bitmap
          de,         \* the inodes that the root directory names
          work,       \* the calls of iappend() to make: inode and number of bytes
          step        \* "files", "fixed", "done", or "assert"

mkfsVars == <<din, ind, sect, freeinode, freeblock, bits, de, work, step>>

MAXFILE == NDIRECT + NINDIRECT
rootino == 1
Inum == 1 .. NINODES
Blocks == nmeta .. nmeta + (MaxFiles + 1) * (MAXFILE + 1)
NoInode == [type |-> "none", nlink |-> 0, size |-> 0, addrs |-> [k \in 0 .. NDIRECT |-> 0]]
Fresh(type) == [NoInode EXCEPT !.type = type, !.nlink = 1]
Call(i, n) == [inum |-> i, n |-> n]

\* The zeroed image with the root directory, which is about to get . and ..
Init ==
    /\ din = [i \in Inum |-> IF i = rootino THEN Fresh("T_DIR") ELSE NoInode]
    /\ ind = [b \in Blocks |-> [k \in 0 .. NINDIRECT - 1 |-> 0]]
    /\ sect = [b \in Blocks |-> [k \in 0 .. BSIZE - 1 |-> <<0, 0>>]]
    /\ freeinode = 2 /\ freeblock = nmeta
    /\ bits = {} /\ de = <<rootino, rootino>>
    /\ work = <<Call(rootino, Dirent), Call(rootino, Dirent)>>
    /\ step = "files"

Min2(a, b) == IF a < b THEN a ELSE b

\* What read() returns for a file of so many bytes, call by call.
Reads(i, bytes) ==
    [k \in 1 .. (bytes + BSIZE - 1) \div BSIZE |-> Call(i, Min2(BSIZE, bytes - (k - 1) * BSIZE))]

\* The next file: ialloc(), its entry in the root directory, its contents.
AddFile(bytes) ==
    /\ step = "files" /\ work = <<>>
    /\ freeinode - 2 < MaxFiles
    /\ din' = [din EXCEPT ![freeinode] = Fresh("T_FILE")]
    /\ freeinode' = freeinode + 1
    /\ de' = Append(de, freeinode)
    /\ work' = <<Call(rootino, Dirent)>> \o Reads(freeinode, bytes)
    /\ UNCHANGED <<ind, sect, freeblock, bits, step>>

\* Mutant: the indirect block is allocated after the block that it names.
PlacesSwapped(i, fbn) ==
    IF fbn < NDIRECT \/ din[i].addrs[NDIRECT] # 0 THEN <<din[i].addrs[NDIRECT], freeblock>>
    ELSE <<freeblock, freeblock>>

\* The indirect block of inode i and its next block, if they have to be allocated.
Places(i, fbn) ==
    IF fbn < NDIRECT \/ din[i].addrs[NDIRECT] # 0 THEN <<din[i].addrs[NDIRECT], freeblock>>
    ELSE <<freeblock, freeblock + 1>>

\* A round of iappend(): find or allocate the block, and fill it up.
iappend ==
    LET i   == Head(work).inum
        n   == Head(work).n
        off == din[i].size
        fbn == off \div BSIZE
        pl  == Places(i, fbn)
        old == IF fbn < NDIRECT THEN din[i].addrs[fbn]
               ELSE IF din[i].addrs[NDIRECT] = 0 THEN 0 ELSE ind[din[i].addrs[NDIRECT]][fbn - NDIRECT]
        x   == IF old = 0 THEN pl[2] ELSE old
        n1  == Min2(n, (fbn + 1) * BSIZE - off)
    IN  /\ step = "files" /\ work # <<>>
        /\ \/ fbn >= MAXFILE /\ step' = "assert" /\ UNCHANGED <<din, ind, sect, freeblock, work>>
           \/ /\ fbn < MAXFILE
              /\ freeblock' = IF old = 0 THEN pl[2] + 1 ELSE freeblock
              /\ din' = [din EXCEPT ![i].size = off + n1,
                                    ![i].addrs = IF fbn < NDIRECT THEN [@ EXCEPT ![fbn] = x]
                                                 ELSE [@ EXCEPT ![NDIRECT] = pl[1]]]
              /\ ind' = IF fbn < NDIRECT THEN ind ELSE [ind EXCEPT ![pl[1]][fbn - NDIRECT] = x]
              /\ sect' = [sect EXCEPT ![x] = [k \in DOMAIN @ |->
                             LET o == fbn * BSIZE + k IN IF o \in off .. off + n1 - 1 THEN <<i, o>> ELSE @[k]]]
              /\ work' = IF n1 = n THEN Tail(work) ELSE <<Call(i, n - n1)>> \o Tail(work)
              /\ UNCHANGED step
        /\ UNCHANGED <<freeinode, bits, de>>

\* The size of the root directory is made a multiple of BSIZE,
FixRoot ==
    /\ step = "files" /\ work = <<>>
    /\ din' = [din EXCEPT ![rootino].size = (@ \div BSIZE + 1) * BSIZE]
    /\ step' = "fixed"
    /\ UNCHANGED <<ind, sect, freeinode, freeblock, bits, de, work>>

\* and balloc() marks the blocks below freeblock, if they fit one block of bits.
balloc ==
    /\ step = "fixed"
    /\ \/ freeblock >= BSIZE * 8 /\ step' = "assert" /\ UNCHANGED bits
       \/ freeblock < BSIZE * 8 /\ step' = "done" /\ bits' = 0 .. freeblock - 1
    /\ UNCHANGED <<din, ind, sect, freeinode, freeblock, de, work>>

Next == (\E bytes \in Sizes : AddFile(bytes)) \/ iappend \/ FixRoot \/ balloc

Spec == Init /\ [][Next]_mkfsVars

--------------------------------------------------------------------------------

TypeOK ==
    /\ DOMAIN din = Inum
    /\ freeinode \in 2 .. NINODES + 1 /\ freeblock \in Blocks
    /\ bits \subseteq Nat /\ de \in Seq(Inum)
    /\ step \in {"files", "fixed", "done", "assert"}

\* Block fbn of inode i, as bmap() of the kernel finds it, or 0.
BlockOf(i, fbn) ==
    IF fbn < NDIRECT THEN din[i].addrs[fbn]
    ELSE IF din[i].addrs[NDIRECT] = 0 THEN 0 ELSE ind[din[i].addrs[NDIRECT]][fbn - NDIRECT]

\* The places that hold a block: the blocks of the inodes and the indirect blocks.
Held == {<<i, k>> \in Inum \X (0 .. MAXFILE) :
            IF k < MAXFILE THEN BlockOf(i, k) # 0 ELSE din[i].addrs[NDIRECT] # 0}
In(h) == IF h[2] < MAXFILE THEN BlockOf(h[1], h[2]) ELSE din[h[1]].addrs[NDIRECT]

\* The blocks that inode i needs for its size.
Needed(i) == {fbn \in 0 .. MAXFILE : fbn * BSIZE < din[i].size}

\* The image that the kernel starts with: every block is in one place and marked, or
\* free; an inode has the blocks its size asks for, and they hold its bytes; the root
\* directory names every inode, once.  If its entries fill its last block the root
\* directory has a size with one block more than it has, and in no other case.
ImageSound ==
    step = "done" =>
        /\ \A g, h \in Held : In(g) = In(h) => g = h
        /\ {In(h) : h \in Held} = nmeta .. freeblock - 1
        /\ bits = 0 .. freeblock - 1
        /\ \A i \in Inum, fbn \in 0 .. MAXFILE - 1 :
              BlockOf(i, fbn) # 0 <=> /\ fbn \in Needed(i)
                                      /\ ~(i = rootino /\ fbn * BSIZE = Len(de) * Dirent)
        /\ \A i \in Inum \ {rootino} : \A off \in 0 .. din[i].size - 1 :
              sect[BlockOf(i, off \div BSIZE)][off % BSIZE] = <<i, off>>
        /\ \A off \in 0 .. Len(de) * Dirent - 1 : sect[BlockOf(rootino, off \div BSIZE)][off % BSIZE] = <<rootino, off>>
        /\ \A i \in Inum \ {rootino} : Cardinality({k \in DOMAIN de : de[k] = i}) = din[i].nlink
================================================================================
