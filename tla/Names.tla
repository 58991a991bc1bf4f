---------------------------------- MODULE Names --------------------------------
(***************************************************************************)
(* Path names of fs.c, byte by byte: skipelem(), namex(), dirlookup() and  *)
(* dirlink() with what they use of string.c, under create() and unlink().  *)
(* A call is a step (Fs has what happens between calls that overlap).      *)
(* A path is a sequence of characters without the nul at its end; a name   *)
(* is the DIRSIZ bytes of an entry or of a buffer on the stack, which keep *)
(* what stood there before.  Every path starts at the root.                *)
(***************************************************************************)
EXTENDS Integers, Sequences, FiniteSets, SequencesExt

CONSTANTS DIRSIZ,
          Char,      \* the characters but "/" and "nul"
          Inode,     \* inode numbers; the least is the root
          Path       \* the paths that are used

VARIABLES dir,       \* dir[i]: the entries of inode i
          type,
          name,      \* the buffer that nameiparent() fills
          tree       \* what is named: <<directory, first DIRSIZ characters, inode>>

nameVars == <<dir, type, name, tree>>

Byte == Char \cup {"nul"}
Buffer == [0 .. DIRSIZ - 1 -> Byte]
Least(S) == CHOOSE x \in S : \A y \in S : x <= y
rootino == Least(Inode)

\* The bytes of a string in a buffer: the first DIRSIZ, or up to and with its nul.
CopyName(buffer, s) ==
    [k \in 0 .. DIRSIZ - 1 |-> IF k < Len(s) THEN s[k + 1] ELSE IF k = Len(s) THEN "nul" ELSE buffer[k]]

\* strncpy(): zeros behind the nul.
strncpy(t) == [k \in 0 .. DIRSIZ - 1 |-> IF \E j \in 0 .. k : t[j] = "nul" THEN "nul" ELSE t[k]]

\* Mutant: the bytes behind the nul are compared, too.
strncmpAll(p, q) == p = q

\* strncmp() finds no difference.
strncmp(p, q) ==
    \A k \in 0 .. DIRSIZ - 1 : (\A j \in 0 .. k - 1 : p[j] = q[j] /\ p[j] # "nul") => p[k] = q[k]

\* The place of the first character of s that is in S, from i on.
Seek(s, i, S) == Least({j \in i .. Len(s) : s[j] \in S} \cup {Len(s) + 1})

\* The next element of the path in the buffer, and the path behind it.
skipelem(path, buffer) ==
    LET s    == Seek(path, 1, Char)
        stop == Seek(path, s, {"/"})
        next == Seek(path, stop, Char)
    IN  [found |-> s <= Len(path),
         name  |-> CopyName(buffer, SubSeq(path, s, stop - 1)),
         path  |-> SubSeq(path, next, Len(path))]

\* The inode that a name stands for in directory dp, or 0.
dirlookup(dp, nm) ==
    LET at == {k \in DOMAIN dir[dp] : dir[dp][k].inum # 0 /\ strncmp(nm, dir[dp][k].name)}
    IN  IF at = {} THEN 0 ELSE dir[dp][Least(at)].inum

RECURSIVE namex(_, _, _, _)

\* From inode ip along the path: an inode, or 0, and the buffer.
namex(ip, path, nameiparent, buffer) ==
    LET e == skipelem(path, buffer)
        Return(i, b) == [inum |-> i, name |-> b]
    IN  IF ~e.found THEN Return(IF nameiparent THEN 0 ELSE ip, buffer)
        ELSE IF type[ip] # "T_DIR" THEN Return(0, e.name)
        ELSE IF nameiparent /\ e.path = <<>> THEN Return(ip, e.name)
        ELSE IF dirlookup(ip, e.name) = 0 THEN Return(0, e.name)
        ELSE namex(dirlookup(ip, e.name), e.path, nameiparent, e.name)

Entry(nm, i) == [name |-> strncpy(nm), inum |-> i]
Dot    == CopyName([k \in 0 .. DIRSIZ - 1 |-> "nul"], <<".">>)
DotDot == CopyName([k \in 0 .. DIRSIZ - 1 |-> "nul"], <<".", ".">>)

\* The entries of a directory with one more, in the first place that is free.
dirlink(entries, nm, i) ==
    LET off == Least({k \in DOMAIN entries : entries[k].inum = 0} \cup {Len(entries) + 1})
    IN  [k \in 1 .. (IF off > Len(entries) THEN off ELSE Len(entries)) |-> IF k = off THEN Entry(nm, i) ELSE entries[k]]

\* The characters that a name consists of.
Text(nm) == LET n == Least({k \in 0 .. DIRSIZ - 1 : nm[k] = "nul"} \cup {DIRSIZ}) IN [k \in 1 .. n |-> nm[k - 1]]

Fresh(i, parent) == <<Entry(Dot, i), Entry(DotDot, parent)>>
Dots(i, parent) == {<<i, <<".">>, i>>, <<i, <<".", ".">>, parent>>}

Init ==
    /\ dir = [i \in Inode |-> IF i = rootino THEN Fresh(i, i) ELSE <<>>]
    /\ type = [i \in Inode |-> IF i = rootino THEN "T_DIR" ELSE "none"]
    /\ name \in Buffer
    /\ tree = Dots(rootino, rootino)

\* The element that a path ends with, its first DIRSIZ characters.
LastElement(path) ==
    LET stop == CHOOSE k \in DOMAIN path : path[k] # "/" /\ \A j \in k + 1 .. Len(path) : path[j] = "/"
        slash == {k \in 1 .. stop : path[k] = "/"} \cup {0}
        start == CHOOSE k \in slash : \A j \in slash : j <= k
    IN  SubSeq(path, start + 1, IF stop - start > DIRSIZ THEN start + DIRSIZ ELSE stop)

\* create() of a file or a directory, if the name is not there.  Without a free inode the
\* kernel panics, and nothing follows.
create(path, t) ==
    LET r    == namex(rootino, path, TRUE, name)
        dp   == r.inum
        free == {i \in Inode : type[i] = "none"}
        ip   == Least(free)
        ok   == dp # 0 /\ dirlookup(dp, r.name) = 0
    IN  /\ name' = r.name
        /\ \/ ~ok /\ UNCHANGED <<dir, type, tree>>
           \/ /\ ok /\ free # {}
              /\ type' = [type EXCEPT ![ip] = t]
              /\ dir' = [dir EXCEPT ![ip] = IF t = "T_DIR" THEN Fresh(ip, dp) ELSE <<>>,
                                    ![dp] = dirlink(@, r.name, ip)]
              /\ tree' = tree \cup {<<dp, LastElement(path), ip>>} \cup (IF t = "T_DIR" THEN Dots(ip, dp) ELSE {})

isdirempty(dp) == \A k \in DOMAIN dir[dp] : k > 2 => dir[dp][k].inum = 0

\* unlink(), which zeroes the entry.
unlink(path) ==
    LET r  == namex(rootino, path, TRUE, name)
        dp == r.inum
        ip == dirlookup(dp, r.name)
        ok == /\ dp # 0
              /\ ~strncmp(r.name, Dot) /\ ~strncmp(r.name, DotDot)
              /\ ip # 0
              /\ type[ip] = "T_DIR" => isdirempty(ip)
    IN  /\ name' = r.name
        /\ \/ ~ok /\ UNCHANGED <<dir, type, tree>>
           \/ /\ ok
              /\ dir' = [dir EXCEPT ![ip] = <<>>,
                                    ![dp] = [k \in DOMAIN @ |->
                                                IF @[k].inum = ip /\ strncmp(r.name, @[k].name)
                                                THEN [name |-> [j \in 0 .. DIRSIZ - 1 |-> "nul"], inum |-> 0] ELSE @[k]]]
              /\ type' = [type EXCEPT ![ip] = "none"]
              /\ tree' = {x \in tree : x[1] # ip /\ ~(x[1] = dp /\ x[2] = LastElement(path))}

Next == \E path \in Path : create(path, "T_DIR") \/ create(path, "T_FILE") \/ unlink(path)

Spec == Init /\ [][Next]_nameVars

--------------------------------------------------------------------------------

TypeOK ==
    /\ DOMAIN dir = Inode
    /\ \A i \in Inode : \A k \in DOMAIN dir[i] : dir[i][k].name \in Buffer /\ dir[i][k].inum \in Inode \cup {0}
    /\ type \in [Inode -> {"none", "T_DIR", "T_FILE"}]
    /\ name \in Buffer

\* The elements of a path, without what is behind their first DIRSIZ characters.
Elements(path) ==
    LET starts == {k \in DOMAIN path : path[k] # "/" /\ (k = 1 \/ path[k - 1] = "/")}
        End(k) == Least({j \in k .. Len(path) : j = Len(path) \/ path[j + 1] = "/" \/ j = k + DIRSIZ - 1})
        order  == SetToSortSeq(starts, <)
    IN  [n \in DOMAIN order |-> SubSeq(path, order[n], End(order[n]))]

\* Where the elements lead in the tree: an inode, or 0.
Leads(path) ==
    FoldLeft(LAMBDA i, e : IF \E x \in tree : x[1] = i /\ x[2] = e THEN (CHOOSE x \in tree : x[1] = i /\ x[2] = e)[3] ELSE 0,
             rootino, Elements(path))

\* Every path leads where its elements lead, whatever the buffer holds; names are told
\* apart by their first DIRSIZ characters and nothing else, also when they fill an entry
\* to its last byte or are in an entry that a longer name had before; and what is in a
\* directory has one name there.
PathsResolve ==
    /\ \A path \in Path : namex(rootino, path, FALSE, name).inum = Leads(path)
    /\ \A i \in Inode : {<<i, Text(dir[i][k].name), dir[i][k].inum>> : k \in {j \in DOMAIN dir[i] : dir[i][j].inum # 0}}
                        = {x \in tree : x[1] = i}
    /\ \A x, y \in tree : x[1] = y[1] /\ x[2] = y[2] => x = y
================================================================================
