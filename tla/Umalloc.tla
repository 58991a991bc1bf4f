---------------------------------- MODULE Umalloc ------------------------------
(***************************************************************************)
(* The allocator of user programs (umalloc.c): a circular list of free     *)
(* blocks in the order of their addresses.                                 *)
(*                                                                         *)
(* Addresses and sizes are counted in headers.  base is the static header  *)
(* below the heap; the heap grows by sbrk(), which the program may call    *)
(* too.  A step is a turn of one of the loops.  A header that has become   *)
(* part of a block, and the link of a block in use, are Unused: nothing    *)
(* may read them.                                                          *)
(***************************************************************************)
EXTENDS Naturals, FiniteSets

CONSTANTS Top,          \* sbrk() fails beyond
          MinCore,      \* units that morecore() asks for at least: 4096
          Units,        \* sizes that malloc() is called for, the header included
          Gap           \* what the program gets by its own sbrk()

Null == 0
base == 1
HeapStart == 3
Addr == base .. Top

VARIABLES hdr,          \* the header at an address
          freep, brk,
          live,         \* blocks that the program has
          own,          \* units that the program got by its own sbrk()
          run,          \* the call: at, p, prevp, n, bp, and what comes after free()
          refused       \* size that malloc() just returned 0 for

mallocVars == <<hdr, freep, brk, live, own, run, refused>>

Unused == [ptr |-> Null, size |-> 0]
Ready == [at |-> "ready", p |-> Null, prevp |-> Null, n |-> 0, bp |-> Null, then |-> "ready"]

Init ==
    /\ hdr = [a \in Addr |-> Unused]
    /\ freep = Null /\ brk = HeapStart /\ live = {} /\ own = {}
    /\ run = Ready /\ refused = 0

\* malloc() up to the loop.
malloc ==
    /\ run.at = "ready"
    /\ \E n \in Units :
        LET h == IF freep = Null THEN [hdr EXCEPT ![base] = [ptr |-> base, size |-> 0]] ELSE hdr
            f == IF freep = Null THEN base ELSE freep
        IN  /\ hdr' = h /\ freep' = f
            /\ run' = [Ready EXCEPT !.at = "search", !.n = n, !.prevp = f, !.p = h[f].ptr]
    /\ refused' = 0
    /\ UNCHANGED <<brk, live, own>>

Fits(p) == hdr[p].size >= run.n

\* A block of the right size leaves the list; of a larger one, the end is used.
Found ==
    /\ run.at = "search" /\ Fits(run.p)
    /\ LET p == run.p
           rest == hdr[p].size - run.n
       IN IF rest = 0
          THEN hdr' = [hdr EXCEPT ![run.prevp].ptr = hdr[p].ptr, ![p].ptr = Null] /\ live' = live \cup {p}
          ELSE hdr' = [hdr EXCEPT ![p].size = rest, ![p + rest].size = run.n] /\ live' = live \cup {p + rest}
    /\ freep' = run.prevp /\ run' = Ready
    /\ UNCHANGED <<brk, own, refused>>

\* The next block, unless the list has been searched.
Search ==
    /\ run.at = "search" /\ ~Fits(run.p) /\ run.p # freep
    /\ run' = [run EXCEPT !.prevp = run.p, !.p = hdr[run.p].ptr]
    /\ UNCHANGED <<hdr, freep, brk, live, own, refused>>

\* morecore() up to its free().
morecore ==
    /\ run.at = "search" /\ ~Fits(run.p) /\ run.p = freep
    /\ LET nu == IF run.n < MinCore THEN MinCore ELSE run.n IN
        IF brk + nu > Top + 1
        THEN run' = Ready /\ refused' = run.n /\ UNCHANGED <<hdr, brk>>
        ELSE /\ hdr' = [hdr EXCEPT ![brk].size = nu]
             /\ brk' = brk + nu
             /\ run' = [run EXCEPT !.at = "place", !.bp = brk, !.p = freep, !.then = "search"]
             /\ UNCHANGED refused
    /\ UNCHANGED <<freep, live, own>>

free ==
    /\ run.at = "ready"
    /\ \E b \in live :
        /\ live' = live \ {b}
        /\ run' = [Ready EXCEPT !.at = "place", !.bp = b, !.p = freep]
    /\ refused' = 0
    /\ UNCHANGED <<hdr, freep, brk, own>>

\* bp goes between p and its successor, or p is the last block and bp is at an end.
PlaceFound(bp, p) ==
    \/ bp > p /\ bp < hdr[p].ptr
    \/ p >= hdr[p].ptr /\ (bp > p \/ bp < hdr[p].ptr)

NextPlace ==
    /\ run.at = "place" /\ ~PlaceFound(run.bp, run.p)
    /\ run' = [run EXCEPT !.p = hdr[run.p].ptr]
    /\ UNCHANGED <<hdr, freep, brk, live, own, refused>>

\* The block at p ends where the one at q begins.
Joins(p, size, q) == p + size = q

\* The new block is joined with the one above and the one below.
Place ==
    /\ run.at = "place" /\ PlaceFound(run.bp, run.p)
    /\ LET p == run.p
           q == hdr[p].ptr
           up == Joins(run.bp, hdr[run.bp].size, q)
           down == Joins(p, hdr[p].size, run.bp)
           b == IF up
                THEN [ptr |-> hdr[q].ptr, size |-> hdr[run.bp].size + hdr[q].size]
                ELSE [ptr |-> q, size |-> hdr[run.bp].size]
           below == IF down THEN [ptr |-> b.ptr, size |-> hdr[p].size + b.size]
                    ELSE [ptr |-> run.bp, size |-> hdr[p].size]
       IN  /\ hdr' = [a \in Addr |-> CASE a = p -> below
                                   [] a = run.bp -> IF down THEN Unused ELSE b
                                   [] a = q /\ up -> Unused
                                   [] OTHER -> hdr[a]]
           /\ freep' = p
           /\ run' = IF run.then = "search"
                     THEN [run EXCEPT !.at = "search", !.prevp = p, !.p = below.ptr, !.bp = Null, !.then = "ready"]
                     ELSE Ready
    /\ UNCHANGED <<brk, live, own, refused>>

\* The program grows by itself.
sbrk ==
    /\ run.at = "ready" /\ brk + Gap <= Top + 1
    /\ own' = own \cup brk .. brk + Gap - 1
    /\ brk' = brk + Gap
    /\ refused' = 0
    /\ UNCHANGED <<hdr, freep, live, run>>

Next == malloc \/ Found \/ Search \/ morecore \/ free \/ NextPlace \/ Place \/ sbrk

Spec == Init /\ [][Next]_mallocVars

--------------------------------------------------------------------------------
(* Properties.                                                             *)

TypeOK ==
    /\ hdr \in [Addr -> [ptr : Addr \cup {Null}, size : 0 .. Top]]
    /\ freep \in Addr \cup {Null} /\ brk \in HeapStart .. Top + 1 /\ live \subseteq Addr

\* The free blocks: what can be reached from base.
chain[k \in 0 .. Top] == IF k = 0 THEN base ELSE hdr[chain[k - 1]].ptr
FreeBlocks == IF freep = Null THEN {} ELSE {chain[k] : k \in 0 .. Top}

Extent(b) == b .. b + hdr[b].size - 1

\* umalloc.c: between calls every unit of the heap is in one block, free or in use, or
\* belongs to the program; the list is a circle in the order of addresses, no two free
\* blocks touch, and malloc() gives up only when no free block is large enough.
HeapSound ==
    run.at = "ready" =>
        /\ \A u \in HeapStart .. brk - 1 :
             Cardinality({b \in FreeBlocks \cup live : u \in Extent(b)}) = IF u \in own THEN 0 ELSE 1
        /\ FreeBlocks \cap live = {}
        /\ \A b \in FreeBlocks : (FreeBlocks \cap (b + 1 .. Top)) # {} => hdr[b].ptr > b
        /\ freep # Null => freep \in FreeBlocks /\ \E b \in FreeBlocks : hdr[b].ptr = base
        /\ \A b, c \in FreeBlocks : b + hdr[b].size = c => b = c
        /\ refused # 0 => \A b \in FreeBlocks : hdr[b].size < refused
================================================================================
