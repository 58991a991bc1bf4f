-------------------------------- MODULE Kalloc --------------------------------
(***************************************************************************)
(* The page allocator of Project4 (kalloc.c) with its free list threaded   *)
(* through the free pages, from the boot of main.c, where the list is      *)
(* filled in two parts and the other processors get their stacks, to the   *)
(* kernel threads that call kalloc(), kfree() and countfp() afterwards.    *)
(***************************************************************************)
EXTENDS Integers, FiniteSets

CONSTANTS NCPU,         \* processors
          LowPages,     \* pages that entrypgdir maps (the first 4 MB)
          NPages,       \* all pages
          Allocating    \* the processors whose threads allocate and free

VARIABLES freelist, next,   \* kmem.freelist, and r->next in every page
          boot,             \* where main() is
          ap,               \* the processor startothers() is at
          slot,             \* code-4: the stack for the next processor
          stack, started,   \* of a processor
          held,             \* pages a thread has got from kalloc()
          at, r, cnt        \* a thread in kalloc() or countfp(), and its locals

vars == <<freelist, next, boot, ap, slot, stack, started, held, at, r, cnt>>

CPU == 0 .. NCPU - 1

Page == 1 .. NPages

NULL == 0

\* Not in countfp().
NONE == -1

--------------------------------------------------------------------------------
(* Boot: interrupts are off and the lock is not used *)

\* kfree() of the pages a .. b, in this order.
FreeRange(a, b) ==
    /\ next' = [x \in Page |-> IF x = a THEN freelist ELSE IF x \in a + 1 .. b THEN x - 1 ELSE next[x]]
    /\ freelist' = b

\* main() up to startothers(): kinit1(), and kvmalloc() takes a page.
kinit1 ==
    /\ boot = "kinit1"
    /\ FreeRange(1, LowPages)
    /\ boot' = "kvmalloc"
    /\ UNCHANGED <<ap, slot, stack, started, held, at, r, cnt>>

\* kalloc() while the lock is not used.
Pop == freelist' = next[freelist]

kvmalloc ==
    /\ boot = "kvmalloc"
    /\ held' = [held EXCEPT ![0] = @ \cup {freelist}]
    /\ Pop
    /\ boot' = "start"
    /\ UNCHANGED <<next, ap, slot, stack, started, at, r, cnt>>

\* startothers(): a stack for the next processor, which is then started ...
StartAp ==
    /\ boot = "start" /\ ap < NCPU
    /\ slot' = freelist /\ Pop
    /\ boot' = "spin"
    /\ UNCHANGED <<next, ap, stack, started, held, at, r, cnt>>

\* ... and is waited for.
Spin ==
    /\ boot = "spin" /\ started[ap]
    /\ ap' = ap + 1
    /\ boot' = "start"
    /\ UNCHANGED <<freelist, next, slot, stack, started, held, at, r, cnt>>

\* entryother.S takes the stack from the slot; mpmain() reports.
mpenter(c) ==
    /\ c # 0 /\ stack[c] = NULL
    /\ IF boot = "spin" THEN c <= ap ELSE c < ap
    /\ stack' = [stack EXCEPT ![c] = slot]
    /\ UNCHANGED <<freelist, next, boot, ap, slot, started, held, at, r, cnt>>

mpmain(c) ==
    /\ stack[c] # NULL /\ ~ started[c]
    /\ started' = [started EXCEPT ![c] = TRUE]
    /\ UNCHANGED <<freelist, next, boot, ap, slot, stack, held, at, r, cnt>>

ApsDone == boot = "start" /\ ap = NCPU

\* kinit2() "must come after startothers()".
kinit2 ==
    /\ ApsDone
    /\ FreeRange(LowPages + 1, NPages)
    /\ boot' = "done"
    /\ UNCHANGED <<ap, slot, stack, started, held, at, r, cnt>>

--------------------------------------------------------------------------------
(* Kernel threads *)

Ready(c, where) == boot = "done" /\ c \in Allocating /\ at[c] = where

\* kalloc(): the head of the list under the lock ...
kalloc(c) ==
    /\ Ready(c, "idle") /\ freelist \in Page
    /\ r' = [r EXCEPT ![c] = freelist]
    /\ at' = [at EXCEPT ![c] = "pop"]
    /\ UNCHANGED <<freelist, next, boot, ap, slot, stack, started, held, cnt>>

\* The mutant drops what the list held besides.
RestNone(c) == NULL

Rest(c) == next[r[c]]

\* ... and its successor after the lock was released; the caller clears its page.
KallocPop(c) ==
    /\ Ready(c, "pop")
    /\ freelist' = Rest(c)
    /\ held' = [held EXCEPT ![c] = @ \cup {r[c]}]
    /\ next' = [next EXCEPT ![r[c]] = NULL]
    /\ at' = [at EXCEPT ![c] = "idle"]
    /\ r' = [r EXCEPT ![c] = NULL]
    /\ UNCHANGED <<boot, ap, slot, stack, started, cnt>>

kfree(c, v) ==
    /\ Ready(c, "idle") /\ v \in held[c]
    /\ next' = [next EXCEPT ![v] = freelist]
    /\ freelist' = v
    /\ held' = [held EXCEPT ![c] = @ \ {v}]
    /\ UNCHANGED <<boot, ap, slot, stack, started, at, r, cnt>>

\* countfp(): the head without the lock (with an empty list the code goes on to read
\* through a null pointer, which is not followed) ...
countfp(c) ==
    /\ Ready(c, "idle") /\ freelist \in Page
    /\ r' = [r EXCEPT ![c] = freelist]
    /\ at' = [at EXCEPT ![c] = "count"]
    /\ cnt' = [cnt EXCEPT ![c] = NONE]
    /\ UNCHANGED <<freelist, next, boot, ap, slot, stack, started, held>>

\* The pages behind page x of the list.
Behind(x) ==
    LET Step[n \in 0 .. NPages] == IF n = 0 THEN x ELSE IF Step[n - 1] = NULL THEN NULL ELSE next[Step[n - 1]]
    IN  {Step[n] : n \in 1 .. NPages} \ {NULL}

\* ... and the links behind it, under the lock.
CountWalk(c) ==
    /\ Ready(c, "count")
    /\ cnt' = [cnt EXCEPT ![c] = Cardinality(Behind(r[c]))]
    /\ at' = [at EXCEPT ![c] = "idle"]
    /\ r' = [r EXCEPT ![c] = NULL]
    /\ UNCHANGED <<freelist, next, boot, ap, slot, stack, started, held>>

--------------------------------------------------------------------------------

Init ==
    /\ freelist = NULL /\ next = [x \in Page |-> NULL]
    /\ boot = "kinit1" /\ ap = 1 /\ slot = NULL
    /\ stack = [c \in CPU |-> NULL]
    /\ started = [c \in CPU |-> c = 0]
    /\ held = [c \in CPU |-> {}]
    /\ at = [c \in CPU |-> "idle"]
    /\ r = [c \in CPU |-> NULL]
    /\ cnt = [c \in CPU |-> NONE]

Boot == kinit1 \/ kvmalloc \/ StartAp \/ Spin \/ kinit2

Thread(c) ==
    \/ mpenter(c) \/ mpmain(c) \/ kalloc(c) \/ KallocPop(c) \/ countfp(c) \/ CountWalk(c)
    \/ \E v \in Page : kfree(c, v)

Next == Boot \/ \E c \in CPU : Thread(c)

Spec == Init /\ [][Next]_vars

--------------------------------------------------------------------------------
(* Properties *)

Free == IF freelist = NULL THEN {} ELSE Behind(freelist) \cup {freelist}

TypeOK ==
    /\ freelist \in Page \cup {NULL} /\ next \in [Page -> Page \cup {NULL}]
    /\ slot \in Page \cup {NULL} /\ stack \in [CPU -> Page \cup {NULL}]
    /\ ap \in 1 .. NCPU /\ held \in [CPU -> SUBSET Page]
    /\ r \in [CPU -> Page \cup {NULL}] /\ cnt \in [CPU -> NONE .. NPages]

\* Once the machine is up, and while nobody is inside kalloc(), every page is on
\* the free list, with one thread, or the stack of a processor: "Allocate one
\* 4096-byte page" hands a page to one caller, and none is lost.
PagesConserved ==
    boot = "done" /\ (\A c \in CPU : at[c] # "pop") =>
        LET Stacks == {stack[c] : c \in CPU} \ {NULL}
            Taken == UNION {held[c] : c \in CPU}
        IN  /\ Free \cup Taken \cup Stacks = Page
            /\ Cardinality(Free) + Cardinality(Stacks) = Cardinality(Free \cup Stacks)
            /\ Free \cap Taken = {}
            /\ \A c, d \in CPU : c # d => held[c] \cap held[d] = {}

\* Every processor has a stack of its own, in the memory that entrypgdir maps
\* while it starts.
OwnLowStack ==
    \A c \in CPU : stack[c] # NULL =>
        /\ stack[c] <= LowPages
        /\ \A d \in CPU \ {c} : stack[d] # stack[c]
===============================================================================
