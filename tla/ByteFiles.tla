-------------------------------- MODULE ByteFiles ------------------------------
(***************************************************************************)
(* What read() and write() promise: a file is a sequence of bytes, and an  *)
(* open file an offset into it.  A piece of a write() is written at the    *)
(* offset as a whole; a read() gets what is there.                         *)
(***************************************************************************)
EXTENDS Integers, Sequences

CONSTANTS Inode, File, IpOf, Byte, MaxSize, MaxPiece

VARIABLES content, off, got

absVars == <<content, off, got>>

\* The bytes of c with those of bs from offset o on.
Overwritten(c, o, bs) ==
    [n \in 1 .. (IF o + Len(bs) > Len(c) THEN o + Len(bs) ELSE Len(c)) |->
        IF n > o /\ n <= o + Len(bs) THEN bs[n - o] ELSE c[n]]

Init == content = [i \in Inode |-> <<>>] /\ off = [f \in File |-> 0] /\ got = <<>>

Pieces == UNION {[1 .. n -> Byte] : n \in 1 .. MaxPiece}

Write(f, bs) ==
    /\ off[f] <= Len(content[IpOf[f]]) /\ off[f] + Len(bs) <= MaxSize
    /\ content' = [content EXCEPT ![IpOf[f]] = Overwritten(@, off[f], bs)]
    /\ off' = [off EXCEPT ![f] = @ + Len(bs)]
    /\ got' = got

Read(f, n) ==
    /\ got' = SubSeq(content[IpOf[f]], off[f] + 1, IF off[f] + n > Len(content[IpOf[f]]) THEN Len(content[IpOf[f]]) ELSE off[f] + n)
    /\ off' = [off EXCEPT ![f] = @ + Len(got')]
    /\ content' = content

\* The file is opened again; the file is removed, and created and opened again.
Reopen(f) == off' = [off EXCEPT ![f] = 0] /\ UNCHANGED <<content, got>>

Remove(i) ==
    /\ content' = [content EXCEPT ![i] = <<>>]
    /\ off' = [f \in File |-> IF IpOf[f] = i THEN 0 ELSE off[f]]
    /\ got' = got

Next ==
    \/ \E f \in File : Reopen(f) \/ (\E bs \in Pieces : Write(f, bs)) \/ (\E n \in 1 .. MaxSize : Read(f, n))
    \/ \E i \in Inode : Remove(i)

Spec == Init /\ [][Next]_absVars
================================================================================
