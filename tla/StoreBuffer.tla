----------------------------- MODULE StoreBuffer -----------------------------
(***************************************************************************)
(* The memory the two user-level locks of Project3_Locking run on: the x86 *)
(* processor of the Linux host.  Every hardware thread keeps the stores it *)
(* has executed in a FIFO buffer until they reach memory; a load is        *)
(* answered from the thread's own buffer first, and from memory otherwise. *)
(* External to the repository: the C files only execute loads, stores and  *)
(* the __sync builtins.                                                    *)
(*                                                                         *)
(* The operators are on one buffer; the locks keep one per thread.         *)
(***************************************************************************)
EXTENDS Integers, Sequences

\* A pending store of v to cell k of the array (or variable) loc.
PendingStore(loc, k, v) == [loc |-> loc, k |-> k, val |-> v]

\* The positions of the stores to cell k of loc that are still in buffer b.
Pending(b, loc, k) ==
    {n \in DOMAIN b : b[n].loc = loc /\ b[n].k = k}

\* What a load of that cell returns: the youngest pending store of the
\* thread itself, or the value mem that memory holds.
Load(b, loc, k, mem) ==
    LET own == Pending(b, loc, k)
    IN  IF own = {}
        THEN mem
        ELSE b[CHOOSE n \in own : \A m \in own : m <= n].val
===============================================================================
