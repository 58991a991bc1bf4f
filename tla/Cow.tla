---------------------------------- MODULE Cow ----------------------------------
(***************************************************************************)
(* Copy-on-write memory of Project4: reference counts (kalloc.c), page     *)
(* tables (vm.c), and the calls of proc.c and exec.c that create, share    *)
(* and free them.  Each process runs on a CPU of its own; a step is one    *)
(* critical section of kmem.lock together with the private work around it  *)
(* (a page table is touched by one process only).                          *)
(*                                                                         *)
(* kalloc() reads the head of the free list under the lock, releases it,   *)
(* and takes the page off the list later.  When another process takes or   *)
(* returns a page in between, the code goes on to give a page to both, or  *)
(* to lose one: Kalloc has that.  This module follows the code up to and   *)
(* with that step (raced) and ends there.                                  *)
(*                                                                         *)
(* Pages for stacks, directories and tables are only counted.  A page      *)
(* directory and the kernel tables below it are one page; each table of    *)
(* the user part (NPTE entries) is one more.  Init is the state after the  *)
(* exec() of initcode, whose own page was never counted and is lost.       *)
(***************************************************************************)
EXTENDS Integers, FiniteSets

CONSTANTS NPROC,        \* slots of ptable; each process has a CPU
          NPages,       \* physical pages
          MaxSz,        \* bound: pages of a process
          NPTE,         \* page table entries per table (1024 in the code)
          Val           \* contents of a page

ASSUME CowAssumption ==
    /\ NPROC \in Nat \ {0}
    /\ NPages \in Nat /\ NPages >= 4
    /\ MaxSz \in Nat \ {0}
    /\ NPTE \in Nat \ {0}
    /\ 0 \in Val /\ Val \subseteq Nat

VARIABLES nfree,    \* pages on kmem.freelist
          used,     \* user pages taken from it
          ref,      \* kmem.refcount
          content,  \* what is in a user page
          pt,       \* page directory -> user page -> entry
          tabs,     \* page directory -> the tables it has
          proc,     \* state, parent, sz, pgdir of a slot
          k,        \* what a process does in the kernel
          overlap,  \* history: two processes have been in here at once
          popping,  \* processes that have read the head of kmem.freelist
          raced     \* history: the list has changed under one of them

memory == <<nfree, used, ref, content, pt, tabs, proc, k, overlap>>

vars == <<nfree, used, ref, content, pt, tabs, proc, k, overlap, popping, raced>>

Proc == 1 .. NPROC

initproc == 1

Page == 1 .. NPages

NULL == 0           \* no page, no process

JUNK == -1          \* what kfree() fills a page with

VPage == 0 .. MaxSz - 1

Table(v) == v \div NPTE

\* The directory of a process, and the one exec() makes for it.
Dir == Proc \X {0, 1}

Other(d) == <<d[1], 1 - d[2]>>

NoPte == [pg |-> NULL, w |-> FALSE]

Empty == [v \in VPage |-> NoPte]

Unused == [state |-> "UNUSED", parent |-> NULL, sz |-> 0, pgdir |-> <<1, 0>>]

\* In user mode.  op: the call; at: the place in it; d: the page directory worked
\* on; v, hi: loop bounds; nsz: the new size; m: a page in hand, not mapped yet; cnt: the count
\* read; c: the child; bad: on an error path.
User == [op |-> "none", at |-> "user", d |-> <<1, 0>>, v |-> 0, hi |-> 0, nsz |-> 0, m |-> NULL,
         cnt |-> 0, c |-> NULL, bad |-> FALSE]

--------------------------------------------------------------------------------
(* The steps of a process *)

Running(p) == proc[p].state = "RUNNABLE"

At(p, at) == Running(p) /\ k[p].at = at

Busy(p) == k[p].at # "user"

\* p is in the kernel in this step.
InKernel(p) == overlap' = (overlap \/ \E q \in Proc \ {p} : Busy(q))

Return(p) == k' = [k EXCEPT ![p] = User]

\* wait() holds ptable.lock while it frees a child.
PtableFree(p) == \A q \in Proc \ {p} : k[q].op # "wait"

--------------------------------------------------------------------------------
(* kalloc.c *)

\* kalloc() takes the page off the list.  For a user page: any free one.  Those without a reference are alike;
\* one whose last reference is still being taken back is not.
kalloc(pg) ==
    LET Idle == {x \in Page \ used : ref[x] = 0} IN
    /\ nfree > 0 /\ nfree' = nfree - 1
    /\ pg \in Page \ used
    /\ pg \in Idle => \A x \in Idle : pg <= x
    /\ used' = used \cup {pg}

\* ... and for a kernel page.
kallocKernel == nfree > 0 /\ nfree' = nfree - 1

kfree(pg) ==
    /\ used' = used \ {pg}
    /\ nfree' = nfree + 1
    /\ content' = [content EXCEPT ![pg] = JUNK]

incr_refcNot(pg) == UNCHANGED ref       \* mutant: the new reference is not counted

incr_refc(pg) == ref' = [ref EXCEPT ![pg] = @ + 1]

decr_refc(pg) == ref' = [ref EXCEPT ![pg] = @ - 1]

--------------------------------------------------------------------------------
(* deallocuvm(), freevm() *)

\* Free the pages of d from lo up to hi.
Drop(p, d, lo, hi) == k' = [k EXCEPT ![p].at = "drop", ![p].d = d, ![p].v = lo, ![p].hi = hi]

Last(cnt) == cnt = 1

\* The next page table entry: nothing there, or get_refc().
DropLook(p) ==
    /\ At(p, "drop") /\ k[p].v < k[p].hi
    /\ LET pg == pt[k[p].d][k[p].v].pg IN
       k' = IF pg = NULL THEN [k EXCEPT ![p].v = @ + 1]
            ELSE [k EXCEPT ![p].cnt = ref[pg], ![p].at = IF Last(ref[pg]) THEN "free" ELSE "decr"]
    /\ InKernel(p)
    /\ UNCHANGED <<nfree, used, ref, content, pt, tabs, proc>>

\* The count read was 1: kfree(), before the count goes down.
DropFree(p) ==
    /\ At(p, "free")
    /\ kfree(pt[k[p].d][k[p].v].pg)
    /\ k' = [k EXCEPT ![p].at = "decr"]
    /\ InKernel(p)
    /\ UNCHANGED <<ref, pt, tabs, proc>>

\* decr_refc() and *pte = 0.
DropDecr(p) ==
    /\ At(p, "decr")
    /\ decr_refc(pt[k[p].d][k[p].v].pg)
    /\ pt' = [pt EXCEPT ![k[p].d][k[p].v] = NoPte]
    /\ k' = [k EXCEPT ![p].v = @ + 1, ![p].at = "drop"]
    /\ InKernel(p)
    /\ UNCHANGED <<nfree, used, content, tabs, proc>>

UnmappedKept(p) == {}                   \* mutant: allocuvm() forgets kfree(mem)

\* The page allocuvm() could not map.
Unmapped(p) == {k[p].m} \ {NULL}

Resized(p) == k[p].op = "sbrk" /\ ~ k[p].bad

\* deallocuvm() is through, and so is its caller: growproc() sets the size,
\* allocuvm() frees the page it could not map, freevm() the tables and the
\* directory, a failed fork() the stack of the child.
DropEnd(p) ==
    /\ At(p, "drop") /\ k[p].v >= k[p].hi
    /\ LET op == k[p].op
           Vm == IF op = "sbrk" THEN 0 ELSE Cardinality(tabs[k[p].d]) + 1
           Stack == IF op = "fork" THEN 1 ELSE 0
       IN  /\ nfree' = nfree + Cardinality(Unmapped(p)) + Vm + Stack
           /\ used' = used \ Unmapped(p)
           /\ content' = [pg \in Page |-> IF pg \in Unmapped(p) THEN JUNK ELSE content[pg]]
           /\ tabs' = IF op = "sbrk" THEN tabs ELSE [tabs EXCEPT ![k[p].d] = {}]
           /\ proc' = IF Resized(p) THEN [proc EXCEPT ![p].sz = k[p].nsz]
                      ELSE IF k[p].c # NULL THEN [proc EXCEPT ![k[p].c] = Unused]
                      ELSE proc
    /\ Return(p) /\ InKernel(p)
    /\ UNCHANGED <<ref, pt>>

--------------------------------------------------------------------------------
(* setupkvm(), mappages(), allocuvm(), sharerouvm() *)

\* Where allocuvm() began: its deallocuvm() goes back to there.
UndoFrom(p) == IF k[p].op = "sbrk" THEN proc[p].sz ELSE 0

\* An error path: undo what was mapped in directory k[p].d.
Undo(p) ==
    k' = [k EXCEPT ![p].at = "drop", ![p].bad = TRUE,
                   ![p].v = UndoFrom(p),
                   ![p].hi = IF k[p].op = "fork" THEN MaxSz ELSE @]

\* setupkvm() for the child of fork(), or for exec().
setupkvm(p) ==
    /\ At(p, "setupkvm")
    /\ \/ /\ kallocKernel
          /\ k' = [k EXCEPT ![p].at = IF k[p].op = "fork" THEN "share" ELSE "grow"]
          /\ UNCHANGED proc
       \/ /\ nfree = 0
          /\ IF k[p].op = "fork"
             THEN nfree' = nfree + 1 /\ proc' = [proc EXCEPT ![k[p].c] = Unused]
             ELSE UNCHANGED <<nfree, proc>>
          /\ Return(p)
    /\ InKernel(p)
    /\ UNCHANGED <<used, ref, content, pt, tabs>>

\* walkpgdir(): mappages() needs a table for page v, which there may not be memory for.
NoTable(p) == Table(k[p].v) \notin tabs[k[p].d]

walkpgdir(p) ==
    /\ At(p, "share") \/ At(p, "map")
    /\ At(p, "share") => k[p].v < proc[p].sz
    /\ NoTable(p)
    /\ \/ /\ kallocKernel
          /\ tabs' = [tabs EXCEPT ![k[p].d] = @ \cup {Table(k[p].v)}]
          /\ UNCHANGED k
       \/ /\ nfree = 0 /\ Undo(p)
          /\ UNCHANGED <<nfree, tabs>>
    /\ InKernel(p)
    /\ UNCHANGED <<used, ref, content, pt, proc>>

ReadOnlyKept(pte) == pte                \* mutant: the parent may go on writing

ReadOnly(pte) == [pte EXCEPT !.w = FALSE]

\* sharerouvm(): the child maps the page, both lose PTE_W, one more reference.
SharePage(p) ==
    /\ At(p, "share") /\ k[p].v < proc[p].sz /\ ~ NoTable(p)
    /\ LET me == proc[p].pgdir
           pg == pt[me][k[p].v].pg
       IN  /\ pt' = [pt EXCEPT ![k[p].d][k[p].v] = [pg |-> pg, w |-> FALSE],
                              ![me][k[p].v] = ReadOnly(@)]
           /\ incr_refc(pg)
    /\ k' = [k EXCEPT ![p].v = @ + 1]
    /\ InKernel(p)
    /\ UNCHANGED <<nfree, used, content, tabs, proc>>

\* allocuvm(): kalloc() and memset() of the next page.
GrowPage(p) ==
    /\ At(p, "grow") /\ k[p].v < k[p].hi
    /\ \/ \E pg \in Page :
              /\ kalloc(pg)
              /\ content' = [content EXCEPT ![pg] = 0]
              /\ k' = [k EXCEPT ![p].m = pg, ![p].at = "map"]
       \/ /\ nfree = 0 /\ Undo(p)
          /\ UNCHANGED <<nfree, used, content>>
    /\ InKernel(p)
    /\ UNCHANGED <<ref, pt, tabs, proc>>

\* ... and its mappages() and incr_refc().
GrowMap(p) ==
    /\ At(p, "map") /\ ~ NoTable(p)
    /\ pt' = [pt EXCEPT ![k[p].d][k[p].v] = [pg |-> k[p].m, w |-> TRUE]]
    /\ incr_refc(k[p].m)
    /\ k' = [k EXCEPT ![p].v = @ + 1, ![p].m = NULL, ![p].at = "grow"]
    /\ InKernel(p)
    /\ UNCHANGED <<nfree, used, content, tabs, proc>>

\* allocuvm() is through: growproc() sets the size, exec() commits to the new
\* image and frees the old one.
GrowEnd(p) ==
    /\ At(p, "grow") /\ k[p].v = k[p].hi
    /\ proc' = [proc EXCEPT ![p].sz = k[p].hi, ![p].pgdir = k[p].d]
    /\ IF k[p].op = "sbrk" THEN Return(p) ELSE Drop(p, proc[p].pgdir, 0, MaxSz)
    /\ InKernel(p)
    /\ UNCHANGED <<nfree, used, ref, content, pt, tabs>>

--------------------------------------------------------------------------------
(* Stores and the page fault handler *)

\* A store to a page that may be written.
Store(p, v, x) ==
    /\ At(p, "user") /\ v < proc[p].sz
    /\ pt[proc[p].pgdir][v].w
    /\ content' = [content EXCEPT ![pt[proc[p].pgdir][v].pg] = x]
    /\ UNCHANGED <<nfree, used, ref, pt, tabs, proc, k, overlap>>

SharedTwice(cnt) == cnt > 2             \* mutant: the copy for the last but one is saved

Shared(cnt) == cnt > 1

\* The store faults and cow_handler() reads the count.  The process stays in its
\* memory; outside of it cow_handler() goes on with an entry that is not there.
cow_handler(p, v) ==
    /\ At(p, "user") /\ v < proc[p].sz
    /\ ~ pt[proc[p].pgdir][v].w
    /\ LET cnt == ref[pt[proc[p].pgdir][v].pg] IN
       k' = [k EXCEPT ![p] = [User EXCEPT !.op = "cow", !.at = IF Shared(cnt) THEN "copy" ELSE "own",
                                          !.d = proc[p].pgdir, !.v = v, !.cnt = cnt]]
    /\ InKernel(p)
    /\ UNCHANGED <<nfree, used, ref, content, pt, tabs, proc>>

\* Count 1: the page is made writable; count 0: nothing is done about it.
CowOwn(p) ==
    /\ At(p, "own")
    /\ pt' = IF k[p].cnt # 0 THEN [pt EXCEPT ![k[p].d][k[p].v].w = TRUE] ELSE pt
    /\ Return(p) /\ InKernel(p)
    /\ UNCHANGED <<nfree, used, ref, content, tabs, proc>>

\* cow_handler_1(): kalloc() and memmove(); without memory the store is tried again.
CowCopy(p) ==
    /\ At(p, "copy")
    /\ \/ \E pg \in Page :
              /\ kalloc(pg)
              /\ content' = [content EXCEPT ![pg] = content[pt[k[p].d][k[p].v].pg]]
              /\ k' = [k EXCEPT ![p].m = pg, ![p].at = "leave"]
       \/ /\ nfree = 0 /\ Return(p)
          /\ UNCHANGED <<nfree, used, content>>
    /\ InKernel(p)
    /\ UNCHANGED <<ref, pt, tabs, proc>>

Left(pg) == [ref EXCEPT ![pg] = @ - 1]

\* ... then decr_refc() of the old page and *pte = 0 ...
CowLeave(p) ==
    /\ At(p, "leave")
    /\ ref' = Left(pt[k[p].d][k[p].v].pg)
    /\ pt' = [pt EXCEPT ![k[p].d][k[p].v] = NoPte]
    /\ k' = [k EXCEPT ![p].at = "remap"]
    /\ InKernel(p)
    /\ UNCHANGED <<nfree, used, content, tabs, proc>>

\* ... and mappages() and incr_refc() of the new one, whose table is there.
CowRemap(p) ==
    /\ At(p, "remap")
    /\ incr_refc(k[p].m)
    /\ pt' = [pt EXCEPT ![k[p].d][k[p].v] = [pg |-> k[p].m, w |-> TRUE]]
    /\ Return(p) /\ InKernel(p)
    /\ UNCHANGED <<nfree, used, content, tabs, proc>>

--------------------------------------------------------------------------------
(* The calls of proc.c and exec.c *)

Enter(p, call) == k' = [k EXCEPT ![p] = call]

\* fork(): allocproc() takes a slot ...
fork(p, c) ==
    /\ At(p, "user") /\ PtableFree(p)
    /\ proc[c].state = "UNUSED" /\ \A q \in 1 .. c - 1 : proc[q].state # "UNUSED"
    /\ proc' = [proc EXCEPT ![c].state = "EMBRYO"]
    /\ Enter(p, [User EXCEPT !.op = "fork", !.at = "kstack", !.c = c, !.d = <<c, 0>>])
    /\ InKernel(p)
    /\ UNCHANGED <<nfree, used, ref, content, pt, tabs>>

\* ... and a kernel stack.
ForkStack(p) ==
    /\ At(p, "kstack")
    /\ \/ /\ kallocKernel
          /\ k' = [k EXCEPT ![p].at = "setupkvm"]
          /\ UNCHANGED proc
       \/ /\ nfree = 0 /\ proc' = [proc EXCEPT ![k[p].c] = Unused] /\ Return(p)
          /\ UNCHANGED nfree
    /\ InKernel(p)
    /\ UNCHANGED <<used, ref, content, pt, tabs>>

\* All pages are shared: the child may run.
ForkDone(p) ==
    /\ At(p, "share") /\ k[p].v = proc[p].sz /\ PtableFree(p)
    /\ proc' = [proc EXCEPT ![k[p].c] = [state |-> "RUNNABLE", parent |-> p,
                                         sz |-> proc[p].sz, pgdir |-> k[p].d]]
    /\ Return(p) /\ InKernel(p)
    /\ UNCHANGED <<nfree, used, ref, content, pt, tabs>>

\* sbrk(), up or down; a program keeps the page it runs in.
sbrk(p, sz) ==
    /\ At(p, "user") /\ sz # proc[p].sz
    /\ LET old == proc[p].sz
           call == [User EXCEPT !.op = "sbrk", !.d = proc[p].pgdir, !.nsz = sz]
       IN  Enter(p, IF sz > old THEN [call EXCEPT !.at = "grow", !.v = old, !.hi = sz]
                                ELSE [call EXCEPT !.at = "drop", !.v = sz, !.hi = old])
    /\ InKernel(p)
    /\ UNCHANGED <<nfree, used, ref, content, pt, tabs, proc>>

\* exec() of a program of sz pages.
exec(p, sz) ==
    /\ At(p, "user")
    /\ Enter(p, [User EXCEPT !.op = "exec", !.at = "setupkvm", !.hi = sz, !.d = Other(proc[p].pgdir)])
    /\ InKernel(p)
    /\ UNCHANGED <<nfree, used, ref, content, pt, tabs, proc>>

\* exit(): the children go to init; the memory is left to the parent.
exit(p) ==
    /\ At(p, "user") /\ p # initproc /\ PtableFree(p)
    /\ proc' = [q \in Proc |->
                   IF q = p THEN [proc[p] EXCEPT !.state = "ZOMBIE"]
                   ELSE IF proc[q].parent = p THEN [proc[q] EXCEPT !.parent = initproc]
                   ELSE proc[q]]
    /\ UNCHANGED <<nfree, used, ref, content, pt, tabs, k, overlap>>

\* wait() has found a zombie: its stack is freed, then its memory.
wait(p, c) ==
    /\ At(p, "user") /\ PtableFree(p)
    /\ proc[c].parent = p /\ proc[c].state = "ZOMBIE"
    /\ nfree' = nfree + 1
    /\ Enter(p, [User EXCEPT !.op = "wait", !.at = "drop", !.d = proc[c].pgdir, !.hi = MaxSz, !.c = c])
    /\ InKernel(p)
    /\ UNCHANGED <<used, ref, content, pt, tabs, proc>>

--------------------------------------------------------------------------------
(* kalloc() in its two parts *)

\* p takes a page next, if there is one: a stack, a directory, a table, a user page.
TakesPage(p) ==
    /\ Running(p)
    /\ \/ k[p].at \in {"kstack", "setupkvm", "copy"}
       \/ k[p].at = "grow" /\ k[p].v < k[p].hi
       \/ k[p].at = "share" /\ k[p].v < proc[p].sz /\ NoTable(p)
       \/ k[p].at = "map" /\ NoTable(p)

\* kalloc() has read a head that is not null, and released kmem.lock.
KallocHead(p) ==
    /\ TakesPage(p) /\ nfree > 0 /\ p \notin popping
    /\ popping' = popping \cup {p}
    /\ UNCHANGED <<memory, raced>>

\* A step of p takes a page only after it has read the head, and the list should be
\* as everybody else who has read it expects.
Popping(p) ==
    /\ nfree' < nfree => p \in popping
    /\ popping' = popping \ {p}
    /\ raced' = (nfree' # nfree /\ popping \ {p} # {})

--------------------------------------------------------------------------------

\* init has a stack, a directory, one table and one page; the rest is free.
Init ==
    /\ nfree = NPages - 4
    /\ used = {1}
    /\ ref = [pg \in Page |-> IF pg = 1 THEN 1 ELSE 0]
    /\ content = [pg \in Page |-> IF pg = 1 THEN 0 ELSE JUNK]
    /\ pt = [d \in Dir |-> IF d = <<1, 0>> THEN [Empty EXCEPT ![0] = [pg |-> 1, w |-> TRUE]] ELSE Empty]
    /\ tabs = [d \in Dir |-> IF d = <<1, 0>> THEN {0} ELSE {}]
    /\ proc = [p \in Proc |-> IF p = initproc
                              THEN [state |-> "RUNNABLE", parent |-> NULL, sz |-> 1, pgdir |-> <<1, 0>>]
                              ELSE Unused]
    /\ k = [p \in Proc |-> User]
    /\ overlap = FALSE
    /\ popping = {}
    /\ raced = FALSE

Deallocuvm(p) == DropLook(p) \/ DropFree(p) \/ DropDecr(p) \/ DropEnd(p)

Allocuvm(p) == setupkvm(p) \/ walkpgdir(p) \/ GrowPage(p) \/ GrowMap(p) \/ GrowEnd(p)

Fork(p) == ForkStack(p) \/ SharePage(p) \/ ForkDone(p)

CowHandler(p) == CowOwn(p) \/ CowCopy(p) \/ CowLeave(p) \/ CowRemap(p)

UserStep(p) ==
    \/ \E v \in VPage : cow_handler(p, v) \/ \E x \in Val : Store(p, v, x)
    \/ \E c \in Proc : fork(p, c) \/ wait(p, c)
    \/ \E sz \in 1 .. MaxSz : sbrk(p, sz) \/ exec(p, sz)
    \/ exit(p)

Step(p) == Deallocuvm(p) \/ Allocuvm(p) \/ Fork(p) \/ CowHandler(p) \/ UserStep(p)

Next == ~ raced /\ \E p \in Proc : KallocHead(p) \/ (Step(p) /\ Popping(p))

Spec == Init /\ [][Next]_vars

--------------------------------------------------------------------------------
(* Properties *)

TypeOK ==
    /\ nfree \in 0 .. NPages
    /\ used \subseteq Page
    /\ ref \in [Page -> 0 .. 127]
    /\ content \in [Page -> Val \cup {JUNK}]
    /\ pt \in [Dir -> [VPage -> [pg : Page \cup {NULL}, w : BOOLEAN]]]
    /\ tabs \in [Dir -> SUBSET VPage]
    /\ proc \in [Proc -> [state : {"UNUSED", "EMBRYO", "RUNNABLE", "ZOMBIE"},
                          parent : Proc \cup {NULL}, sz : 0 .. MaxSz, pgdir : Dir]]
    /\ overlap \in BOOLEAN
    /\ popping \subseteq Proc
    /\ raced \in BOOLEAN

\* The entries that map page pg.
Mappings(pg) == {e \in Dir \X VPage : pt[e[1]][e[2]].pg = pg}

\* A reference count is the number of page table entries that map the page, at every
\* moment up to the first race for the free list, however processes interleave:
\* incr_refc() and decr_refc() go with the entries they count.
CountsExact == \A pg \in Page : ref[pg] = Cardinality(Mappings(pg))

\* The entry deallocuvm() is about to clear; with a count of 1 its page is free.
Leaving(e) == \E p \in Proc : k[p].at = "decr" /\ e = <<k[p].d, k[p].v>>

\* No entry maps a free page, but for the one whose owner has just freed it and
\* clears it next; a page in hand is taken, and mapped by no other entry.
NoDangling ==
    /\ \A pg \in Page \ used : \A e \in Mappings(pg) : Leaving(e)
    /\ \A p \in Proc : k[p].m # NULL =>
           k[p].m \in used /\ \A e \in Mappings(k[p].m) : Leaving(e)

\* An entry that may be written is the only one that maps its page: what
\* cow_handler() decides from the count it has read is still right when it acts.
WritableAlone ==
    \A pg \in Page : \A e, f \in {e \in Mappings(pg) : ~ Leaving(e)} :
        pt[e[1]][e[2]].w => e = f

\* The pages that are not free: stacks, directories, tables, mapped pages.
Accounted ==
    LET Alive == {p \in Proc : proc[p].state \in {"RUNNABLE", "ZOMBIE"}}
        Tabs == {e \in Dir \X VPage : e[2] \in tabs[e[1]]}
    IN  2 * Cardinality(Alive) + Cardinality(Tabs) + Cardinality({pg \in Page : ref[pg] > 0})

\* Every page is free or somebody's.  Test 3 (test3.c) asks for it when it
\* compares countfp() before and after ten children.
NoLeak == (\A p \in Proc : ~ Busy(p)) => nfree + Accounted = NPages

\* Error paths included, no page is lost as long as the calls do not overlap.
LeakNeedsOverlap == ~ overlap => NoLeak

\* What countvp(), countpp() and countptp() tell a process.
countvp(p) == proc[p].sz

countpp(p) == Cardinality({v \in VPage : pt[proc[p].pgdir][v].pg # NULL})

countptp(p) == Cardinality(tabs[proc[p].pgdir]) + 1

\* In user mode the pages of a process are all there and no others are, after
\* failed calls too (test0.c: numvp == numpp), in just as many tables as they need.
PagesPresent ==
    \A p \in Proc : At(p, "user") =>
        /\ countvp(p) = countpp(p)
        /\ countptp(p) > Cardinality({Table(v) : v \in 0 .. proc[p].sz - 1})

\* What a process reads in its memory; zombies and embryos have none, and a page
\* that deallocuvm() is taking away is no longer read; the page that
\* cow_handler_1() is replacing reads as the copy.
Reads ==
    [p \in Proc |-> [v \in VPage |->
        IF Running(p) /\ v < proc[p].sz
           /\ ~ (k[p].op = "sbrk" /\ k[p].nsz < proc[p].sz /\ v >= k[p].nsz)
        THEN content[IF At(p, "remap") /\ v = k[p].v THEN k[p].m ELSE pt[proc[p].pgdir][v].pg]
        ELSE JUNK]]

\* Copy-on-write cannot be told from copying: each process has its own memory, up to
\* the first race for the free list.
Private == INSTANCE PrivateMemory WITH mem <- Reads, Absent <- JUNK
===============================================================================
