---------------------------- MODULE PrivateMemory ----------------------------
(***************************************************************************)
(* What fork(), exec(), sbrk() and ordinary stores promise of user memory: *)
(* every process has its own copy of every page, fork() hands the child a  *)
(* snapshot, and no step of one process changes the memory of another.     *)
(***************************************************************************)
CONSTANTS Proc, VPage, Val, Absent

VARIABLE mem        \* mem[p][v]: what process p reads in its page v

Image == [VPage -> Val \cup {Absent}]

NoImage == [v \in VPage |-> Absent]

Init == mem \in [Proc -> Image]

\* A store of p to a page it has.
Store(p, v, x) ==
    /\ mem[p][v] \in Val
    /\ mem' = [mem EXCEPT ![p][v] = x]

\* p's own calls give it another image: exec(), sbrk(), exit().
Replace(p, image) == mem' = [mem EXCEPT ![p] = image]

\* The child starts with what the parent holds.
Fork(p, c) ==
    /\ p # c
    /\ mem[c] = NoImage
    /\ mem' = [mem EXCEPT ![c] = mem[p]]

\* sbrk() and exec() give zeroed pages and take pages away; what stays is kept.
Resized(old, new) ==
    \A v \in VPage : new[v] \in {old[v], 0, Absent}

Next ==
    \E p \in Proc :
        \/ \E v \in VPage, x \in Val : Store(p, v, x)
        \/ \E image \in Image : Resized(mem[p], image) /\ Replace(p, image)
        \/ \E c \in Proc : Fork(p, c)

Spec == Init /\ [][Next]_mem
===============================================================================
