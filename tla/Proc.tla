----------------------------------- MODULE Proc --------------------------------
(***************************************************************************)
(* The life of a process and of its memory in the kernel of Project1:      *)
(* fork(), exit(), wait(), kill(), growproc() and getgpid() of proc.c and  *)
(* add_syscall.c, exec() of exec.c, and what they use of vm.c.             *)
(*                                                                         *)
(* Every process has a processor.  Memory is counted in pages: a page      *)
(* directory with its tables takes Base pages, and every kalloc() is a     *)
(* step that may find none.  What is done under ptable.lock is one step.   *)
(***************************************************************************)
EXTENDS Integers, FiniteSets, FiniteSetsExt

CONSTANTS NPROC,
          NPages,       \* pages of the machine
          Base,         \* pages of a page table without user pages
          MaxSz,        \* bound: user pages of a process
          MaxCalls      \* bound: calls of fork(), exec(), sbrk() and kill() in a behaviour

Slot == 1 .. NPROC
initproc == 1
NoProc == 0

VARIABLES ptable,       \* state, parent, killed, kstack, sz, and user: pages that are mapped
          nfree,
          cur,          \* the call of a process: at, np, goal, n (pages it has taken for it), pp
          ncalls

procVars == <<ptable, nfree, cur, ncalls>>

Unused == [state |-> "UNUSED", parent |-> NoProc, killed |-> FALSE, kstack |-> 0, sz |-> 0, user |-> 0, base |-> 0]
User == [at |-> "user", np |-> NoProc, goal |-> 0, n |-> 0, pp |-> NoProc]

\* userinit().
Init ==
    /\ ptable = [s \in Slot |-> IF s = initproc THEN [Unused EXCEPT !.state = "RUN", !.kstack = 1, !.sz = 1, !.user = 1, !.base = Base]
                                ELSE Unused]
    /\ nfree = NPages - 2 - Base
    /\ cur = [s \in Slot |-> User]
    /\ ncalls = 0

At(p, at) == ptable[p].state = "RUN" /\ cur[p].at = at

\* Its program runs: trap() has not to kill it, and it has a page to run in.
Runs(p) == At(p, "user") /\ ~ptable[p].killed /\ ptable[p].user > 0
Calls(p) == Runs(p) /\ ncalls < MaxCalls /\ ncalls' = ncalls + 1

Goes(p, at) == cur' = [cur EXCEPT ![p].at = at]
Returns(p) == cur' = [cur EXCEPT ![p] = User]

--------------------------------------------------------------------------------
(* fork().                                                                 *)

\* allocproc(): the first free slot.
fork(p) ==
    /\ Calls(p)
    /\ LET free == {s \in Slot : ptable[s].state = "UNUSED"} IN
        IF free = {} THEN UNCHANGED <<ptable, cur>>
        ELSE /\ ptable' = [ptable EXCEPT ![Min(free)].state = "EMBRYO"]
             /\ cur' = [cur EXCEPT ![p] = [User EXCEPT !.at = "stack", !.np = Min(free)]]
    /\ UNCHANGED nfree

ForkStack(p) ==
    LET np == cur[p].np IN
    /\ At(p, "stack")
    /\ IF nfree = 0
       THEN ptable' = [ptable EXCEPT ![np].state = "UNUSED"] /\ Returns(p) /\ UNCHANGED nfree
       ELSE /\ ptable' = [ptable EXCEPT ![np].kstack = 1]
            /\ nfree' = nfree - 1
            /\ cur' = [cur EXCEPT ![p].at = "copy", ![p].goal = Base + ptable[p].sz]
    /\ UNCHANGED ncalls

\* A kalloc() of setupkvm(), walkpgdir(), allocuvm() or copyuvm() for a new page table.
Kalloc(p) ==
    /\ cur[p].at \in {"copy", "load", "grow"} /\ ptable[p].state = "RUN"
    /\ cur[p].n < cur[p].goal /\ nfree > 0
    /\ nfree' = nfree - 1
    /\ cur' = [cur EXCEPT ![p].n = @ + 1]
    /\ UNCHANGED <<ptable, ncalls>>

\* Pages that fork() gives back when it fails: those of freevm() and the kernel stack.
ForkFreed(p) == cur[p].n + 1

ForkFail(p) ==
    /\ At(p, "copy") /\ cur[p].n < cur[p].goal /\ nfree = 0
    /\ nfree' = nfree + ForkFreed(p)
    /\ ptable' = [ptable EXCEPT ![cur[p].np].kstack = 0, ![cur[p].np].state = "UNUSED"]
    /\ Returns(p) /\ UNCHANGED ncalls

ForkDone(p) ==
    /\ At(p, "copy") /\ cur[p].n = cur[p].goal
    /\ ptable' = [ptable EXCEPT ![cur[p].np] = [@ EXCEPT !.state = "RUN", !.parent = p, !.sz = ptable[p].sz,
                                                         !.user = ptable[p].sz, !.base = Base]]
    /\ Returns(p) /\ UNCHANGED <<nfree, ncalls>>

--------------------------------------------------------------------------------
(* exec() and growproc().                                                  *)

exec(p) ==
    /\ Calls(p)
    /\ \E sz \in 3 .. MaxSz : cur' = [cur EXCEPT ![p] = [User EXCEPT !.at = "load", !.goal = Base + sz]]
    /\ UNCHANGED <<ptable, nfree>>

\* The label bad: no memory, or a file that is no program.
ExecBad(p) ==
    /\ At(p, "load")
    /\ nfree' = nfree + cur[p].n
    /\ Returns(p) /\ UNCHANGED <<ptable, ncalls>>

\* "Commit to the user image", and freevm() of the old one.
ExecCommit(p) ==
    /\ At(p, "load") /\ cur[p].n = cur[p].goal
    /\ nfree' = nfree + ptable[p].base + ptable[p].user
    /\ ptable' = [ptable EXCEPT ![p].sz = cur[p].goal - Base, ![p].user = cur[p].goal - Base, ![p].base = Base]
    /\ Returns(p) /\ UNCHANGED ncalls

\* sbrk() of a positive size.
growproc(p) ==
    /\ Calls(p)
    /\ \E n \in 1 .. MaxSz - ptable[p].sz : cur' = [cur EXCEPT ![p] = [User EXCEPT !.at = "grow", !.goal = n]]
    /\ UNCHANGED <<ptable, nfree>>

\* allocuvm() is done, or undoes what it has done.
GrowDone(p) ==
    /\ At(p, "grow") /\ cur[p].n = cur[p].goal
    /\ ptable' = [ptable EXCEPT ![p].sz = @ + cur[p].n, ![p].user = @ + cur[p].n]
    /\ Returns(p) /\ UNCHANGED <<nfree, ncalls>>

GrowFail(p) ==
    /\ At(p, "grow") /\ cur[p].n < cur[p].goal /\ nfree = 0
    /\ nfree' = nfree + cur[p].n
    /\ Returns(p) /\ UNCHANGED <<ptable, ncalls>>

\* deallocuvm(): growproc() takes a new size of 0 for an error, and keeps the old one.
Shrink(p) ==
    /\ Calls(p)
    /\ \E n \in 1 .. ptable[p].sz :
        /\ ptable' = [ptable EXCEPT ![p].user = @ - n, ![p].sz = IF @ = n THEN @ ELSE @ - n]
        /\ nfree' = nfree + n
    /\ UNCHANGED cur

--------------------------------------------------------------------------------
(* exit(), wait(), kill().                                                 *)

Woken(tab, s) == IF tab[s].state = "SLEEPING" THEN [tab EXCEPT ![s].state = "RUN"] ELSE tab

\* "Pass abandoned children to init."
Abandoned(p, tab) ==
    LET given == [s \in Slot |-> IF tab[s].parent = p THEN [tab[s] EXCEPT !.parent = initproc] ELSE tab[s]]
    IN  IF \E s \in Slot : tab[s].parent = p /\ tab[s].state = "ZOMBIE" THEN Woken(given, initproc) ELSE given

\* By the program, or by trap() when it was killed or has no page to run in.
exit(p) ==
    /\ At(p, "user") /\ p # initproc
    /\ ptable' = [Abandoned(p, Woken(ptable, ptable[p].parent)) EXCEPT ![p].state = "ZOMBIE"]
    /\ UNCHANGED <<nfree, cur, ncalls>>

Children(p) == {s \in Slot : ptable[s].parent = p}
Zombies(p) == {s \in Children(p) : ptable[s].state = "ZOMBIE"}

\* wait() finds a zombie: its stack and its memory are freed.
WaitReap(p) ==
    /\ (Runs(p) \/ At(p, "wait")) /\ Zombies(p) # {}
    /\ LET z == ptable[Min(Zombies(p))] IN nfree' = nfree + z.kstack + z.base + z.user
    /\ ptable' = [ptable EXCEPT ![Min(Zombies(p))] = Unused]
    /\ Returns(p) /\ UNCHANGED ncalls

\* It finds none and sleeps, or returns: at once, or after a wakeup.
WaitSleep(p) ==
    /\ (Runs(p) \/ At(p, "wait")) /\ Zombies(p) = {}
    /\ Children(p) # {} /\ ~ptable[p].killed
    /\ ptable' = [ptable EXCEPT ![p].state = "SLEEPING"]
    /\ Goes(p, "wait") /\ UNCHANGED <<nfree, ncalls>>

WaitNone(p) ==
    /\ At(p, "wait") /\ Zombies(p) = {} /\ (Children(p) = {} \/ ptable[p].killed)
    /\ Returns(p) /\ UNCHANGED <<ptable, nfree, ncalls>>

\* kill() of any slot: free ones have a pid, too.
kill(p) ==
    /\ Calls(p)
    /\ \E s \in Slot \ {initproc} :
        /\ ~ptable[s].killed
        /\ ptable' = [Woken(ptable, s) EXCEPT ![s].killed = TRUE]
    /\ UNCHANGED <<nfree, cur>>

--------------------------------------------------------------------------------
(* getgpid(), without a lock: the parent, then its parent.                 *)

getgpid(p) ==
    /\ Runs(p) /\ p # initproc
    /\ cur' = [cur EXCEPT ![p] = [User EXCEPT !.at = "getgpid", !.pp = ptable[p].parent]]
    /\ UNCHANGED <<ptable, nfree, ncalls>>

GetgpidRead(p) == At(p, "getgpid") /\ Returns(p) /\ UNCHANGED <<ptable, nfree, ncalls>>

Next ==
    \E p \in Slot :
        \/ fork(p) \/ ForkStack(p) \/ Kalloc(p) \/ ForkFail(p) \/ ForkDone(p)
        \/ exec(p) \/ ExecBad(p) \/ ExecCommit(p) \/ growproc(p) \/ GrowDone(p) \/ GrowFail(p) \/ Shrink(p)
        \/ exit(p) \/ WaitReap(p) \/ WaitSleep(p) \/ WaitNone(p) \/ kill(p) \/ getgpid(p) \/ GetgpidRead(p)

Spec == Init /\ [][Next]_procVars

--------------------------------------------------------------------------------
(* Properties.                                                             *)

TypeOK ==
    /\ ptable \in [Slot -> [state : {"UNUSED", "EMBRYO", "RUN", "SLEEPING", "ZOMBIE"}, parent : Slot \cup {NoProc}, killed : BOOLEAN,
                            kstack : 0 .. 1, sz : 0 .. MaxSz, user : 0 .. MaxSz, base : {0, Base}]]
    /\ nfree \in 0 .. NPages

\* proc.c, exec.c, vm.c: every page is free, or is in a stack, an image or an image that is
\* being made: whatever fails half-way, nothing is lost or freed twice.
PagesConserved ==
    NPages = nfree + MapThenSumSet(LAMBDA s : ptable[s].kstack + ptable[s].base + ptable[s].user + cur[s].n, Slot)

\* proc.c: all processes but init have a parent that can still wait for them, and nobody
\* sleeps in wait() who has no child, or one that has ended.
ParentsWait ==
    /\ \A s \in Slot \ {initproc} : ptable[s].state \notin {"UNUSED", "EMBRYO"} => ptable[ptable[s].parent].state \in {"RUN", "SLEEPING"}
    /\ \A p \in Slot : ptable[p].state = "SLEEPING" => Children(p) # {} /\ Zombies(p) = {}

\* vm.c: copyuvm() meets no hole ("page not present"): a process that makes a call has
\* all its pages, and who has none left makes none.
NoHole == \A p \in Slot : ptable[p].user # ptable[p].sz => ptable[p].user = 0 /\ cur[p].at = "user"

\* add_syscall.c: getgpid() meets a process without a parent only when it asks a child of
\* init, or when its parent has ended since it looked.
GrandparentKnown ==
    \A p \in Slot : At(p, "getgpid") /\ ptable[cur[p].pp].parent = NoProc => cur[p].pp = initproc \/ ptable[p].parent # cur[p].pp
================================================================================
