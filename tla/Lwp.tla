---------------------------------- MODULE Lwp ----------------------------------
(***************************************************************************)
(* Processes with several threads (Project3_LWP: proc.c, exec.c, the timer *)
(* part of trap.c).  One table of threads, one of processes, one lock for  *)
(* both.  A section under pttable.lock is one step; a thread can be        *)
(* preempted, and on several CPUs overtaken, wherever the lock is not      *)
(* held.  A thread id is the number of the table entry or, for a master,   *)
(* 0: nexttid is never reused, and programs join only threads of theirs.   *)
(* Memory and files of a process are left out, but for its page table's    *)
(* slots for user stacks.                                                  *)
(***************************************************************************)
EXTENDS Naturals, FiniteSets

CONSTANTS NPROC, NTHREAD, NCPU,
          Calls,        \* the calls of the programs that init starts
          MemoryFails   \* may kalloc() and allocuvm() fail?

VARIABLES th,       \* pttable.thread
          pr,       \* pttable.proc
          cpu,      \* the thread a CPU runs, 0 in scheduler()
          k,        \* where the code on the stack of a thread is, and its locals
          stacks,   \* pages in use as kernel stacks
          fault,    \* kfree() was given a page that is free, or 0 (ghost)
          lossy,    \* a call was cut off or failed half-way (ghost)
          overlap   \* a thread ran while a sibling was in thread_create(), exec() or exit() (ghost)

vars == <<th, pr, cpu, k, stacks, fault, lossy, overlap>>

Thread == 1 .. NTHREAD
Proc == 1 .. NPROC
CPU == 1 .. NCPU

initproc == 1
TICKS == <<"ticks", 0>>
NOCHAN == <<"none", 0>>

UnusedThread == [state |-> "UNUSED", process |-> 0, tid |-> 0, kstack |-> 0, ustack |-> 0, chan |-> NOCHAN]

UnusedProc == [state |-> "UNUSED", parent |-> 0, killed |-> FALSE, master |-> 0,
               workers |-> [i \in Thread |-> 0], check |-> [i \in Thread |-> FALSE]]

\* u: the thread, q: the process a call is about; i: a loop index.
InUser == [at |-> "user", u |-> 0, q |-> 0, i |-> 0]

Least(S) == CHOOSE x \in S : \A y \in S : x <= y

Stack == 1 .. NTHREAD

--------------------------------------------------------------------------------

Running(t) == \E c \in CPU : cpu[c] = t

\* A thread that comes back from sleep() holds pttable.lock.
LockHeld == \E c \in CPU : cpu[c] # 0 /\ k[cpu[c]].at \in {"joined", "waiting"}

On(t, where) == Running(t) /\ k[t].at = where

\* Thread t may enter a section under pttable.lock.
OnLocked(t, where) == On(t, where) /\ ~ LockHeld

My(t) == th[t].process

Idle(where) == where \in {"user", "joined", "waiting", "asleep", "exited"}

\* init forks and waits; the others make the calls in Calls, until they are killed.
User(t, call) ==
    /\ On(t, "user") /\ ~ pr[My(t)].killed
    /\ call \in IF My(t) = initproc THEN {"fork", "wait"} ELSE Calls

Goto(t, where) == k' = [k EXCEPT ![t].at = where]

\* sched(): the CPU goes back to scheduler().
sched(t) == cpu' = [c \in CPU |-> IF cpu[c] = t THEN 0 ELSE cpu[c]]

Woken(table, chan) ==
    [t \in Thread |-> IF table[t].state = "SLEEPING" /\ table[t].chan = chan
                        THEN [table[t] EXCEPT !.state = "RUNNABLE"] ELSE table[t]]

\* kfree() of the kernel stacks in S, each once.
kfree(S) == stacks' = stacks \ S /\ fault' = (fault \/ ~ S \subseteq stacks)

\* The calls of these threads end where they are.
Cut(S) == \E t \in S : ~ Idle(k[t].at)

--------------------------------------------------------------------------------
(* Scheduling *)

\* A thread of the same process is in a call that works on workers without the lock.
Overlaps(t) ==
    \E u \in Thread \ {t} : /\ My(u) = My(t) /\ th[u].state \in {"RUNNABLE", "RUNNING"}
                           /\ k[u].at \in {"create_stacks", "create_find", "create_store", "exec", "exit_mark"}

\* Any RUNNABLE thread may be the next: where the scan of the table stands is left out.
scheduler(c, t) ==
    /\ cpu[c] = 0 /\ ~ LockHeld
    /\ th[t].state = "RUNNABLE"
    /\ cpu' = [cpu EXCEPT ![c] = t]
    /\ th' = [th EXCEPT ![t].state = "RUNNING", ![t].chan = NOCHAN]
    /\ k' = IF k[t].at = "asleep" THEN [k EXCEPT ![t] = InUser] ELSE k
    /\ overlap' = (overlap \/ Overlaps(t))
    /\ UNCHANGED <<pr, stacks, fault, lossy>>

\* Only a thread that is RUNNING gives way to a clock tick.
yield(t) ==
    /\ Running(t) /\ ~ LockHeld
    /\ th[t].state = "RUNNING"
    /\ th' = [th EXCEPT ![t].state = "RUNNABLE"]
    /\ sched(t)
    /\ UNCHANGED <<pr, k, stacks, fault, lossy, overlap>>

wakeup ==
    /\ ~ LockHeld
    /\ \E t \in Thread : th[t].state = "SLEEPING" /\ th[t].chan = TICKS
    /\ th' = Woken(th, TICKS)
    /\ UNCHANGED <<pr, cpu, k, stacks, fault, lossy, overlap>>

sys_sleep(t) ==
    /\ User(t, "sleep") /\ ~ LockHeld
    /\ th' = [th EXCEPT ![t].state = "SLEEPING", ![t].chan = TICKS]
    /\ sched(t)
    /\ Goto(t, "asleep")
    /\ UNCHANGED <<pr, stacks, fault, lossy, overlap>>

--------------------------------------------------------------------------------
(* thread_create() *)

Unused == {t \in Thread : th[t].state = "UNUSED"}

\* allocthread() up to the release of the lock; the call fails without an entry.
allocthread(t, next) ==
    /\ Unused # {}
    /\ LET u == Least(Unused) IN
       /\ th' = [th EXCEPT ![u].state = "EMBRYO", ![u].tid = u]
       /\ k' = [k EXCEPT ![t].at = next, ![t].u = u]

CreateAlloc(t) ==
    /\ User(t, "thread_create") /\ ~ LockHeld
    /\ allocthread(t, "create_stacks")
    /\ UNCHANGED <<pr, cpu, stacks, fault, lossy, overlap>>

TakenSlot(p) == Least({i \in Thread : ~ pr[p].check[i]})

\* The rest of allocthread(), and a slot for the user stack.  Without a slot, which
\* takes NTHREAD slots lost in failed calls of exec(), the kernel stops in mappages().
CreateStacks(t) ==
    /\ OnLocked(t, "create_stacks") /\ Stack \ stacks # {}
    /\ \E i \in Thread : ~ pr[My(t)].check[i]
    /\ LET u == k[t].u  s == Least(Stack \ stacks)  i == TakenSlot(My(t)) IN
       /\ th' = [th EXCEPT ![u].kstack = s, ![u].ustack = i]
       /\ stacks' = stacks \cup {s}
       /\ pr' = [pr EXCEPT ![My(t)].check[i] = TRUE]
       /\ k' = [k EXCEPT ![t].at = "create_find"]
    /\ UNCHANGED <<cpu, fault, lossy, overlap>>

CreateNoStack(t) ==
    /\ On(t, "create_stacks") /\ MemoryFails
    /\ th' = [th EXCEPT ![k[t].u].state = "UNUSED"]
    /\ k' = [k EXCEPT ![t] = InUser]
    /\ UNCHANGED <<pr, cpu, stacks, fault, lossy, overlap>>

\* allocuvm() fails: "bad" gives nothing back.
CreateBad(t) ==
    /\ On(t, "create_find") /\ MemoryFails
    /\ k' = [k EXCEPT ![t] = InUser]
    /\ lossy' = TRUE
    /\ UNCHANGED <<th, pr, cpu, stacks, fault, overlap>>

\* The thread becomes one of the process, and a free entry of workers is found ...
CreateFind(t) ==
    /\ On(t, "create_find")
    /\ th' = [th EXCEPT ![k[t].u].process = My(t)]
    /\ k' = [k EXCEPT ![t].at = "create_store", ![t].i = Least({i \in Thread : pr[My(t)].workers[i] = 0})]
    /\ UNCHANGED <<pr, cpu, stacks, fault, lossy, overlap>>

\* ... and filled in; the new thread starts in user space.
CreateStore(t) ==
    /\ OnLocked(t, "create_store")
    /\ LET u == k[t].u IN
       /\ pr' = [pr EXCEPT ![My(t)].workers[k[t].i] = u]
       /\ th' = [th EXCEPT ![u].state = "RUNNABLE"]
       /\ k' = [k EXCEPT ![t] = InUser, ![u] = InUser]
    /\ UNCHANGED <<cpu, stacks, fault, lossy, overlap>>

--------------------------------------------------------------------------------
(* thread_exit() and thread_join() *)

\* The state changes without the lock ...
thread_exit(t) ==
    /\ User(t, "thread_exit")
    /\ th' = [th EXCEPT ![t].state = "ZOMBIE"]
    /\ Goto(t, "exit_wakeup")
    /\ UNCHANGED <<pr, cpu, stacks, fault, lossy, overlap>>

ExitWokenNobody(t) == th                \* mutant: the joiner is not woken

ExitWoken(t) == Woken(th, <<"thread", t>>)

ThreadExitWakeup(t) ==
    /\ OnLocked(t, "exit_wakeup")
    /\ th' = ExitWoken(t)
    /\ Goto(t, "exit_sched")
    /\ UNCHANGED <<pr, cpu, stacks, fault, lossy, overlap>>

ThreadExitSched(t) ==
    /\ OnLocked(t, "exit_sched")
    /\ sched(t)
    /\ Goto(t, "exited")
    /\ UNCHANGED <<th, pr, stacks, fault, lossy, overlap>>

UnlistedNot(p, u) == pr[p].workers      \* mutant: the thread stays in workers

\* workers without the first entry with the id u.
Unlisted(p, u) ==
    LET at == {i \in Thread : pr[p].workers[i] # 0 /\ th[pr[p].workers[i]].tid = u}
    IN  [i \in Thread |-> IF at # {} /\ i = Least(at) THEN 0 ELSE pr[p].workers[i]]

\* The entry of workers, the two stacks and the thread table entry are given back.
Joined(t, u) ==
    /\ pr' = [pr EXCEPT ![My(u)].workers = Unlisted(My(u), u), ![My(u)].check[th[u].ustack] = FALSE]
    /\ kfree({th[u].kstack})
    /\ th' = [th EXCEPT ![u] = UnusedThread]
    /\ k' = [k EXCEPT ![t] = InUser]
    /\ lossy' = (lossy \/ Cut({u}))

\* The threads a program may join: of its own process, once, and by the master.
Joinable(t) ==
    {u \in Thread : /\ th[u].tid = u /\ My(u) = My(t) /\ u # t
                    /\ \E i \in Thread : pr[My(t)].workers[i] = u
                    /\ \A v \in Thread : k[v].at = "joined" => k[v].u # u}

JoinZombie(t, u) ==
    /\ User(t, "thread_join") /\ ~ LockHeld /\ pr[My(t)].master = t
    /\ u \in Joinable(t) /\ th[u].state = "ZOMBIE"
    /\ Joined(t, u)
    /\ UNCHANGED <<cpu, overlap>>

JoinSleep(t, u) ==
    /\ User(t, "thread_join") /\ ~ LockHeld /\ pr[My(t)].master = t
    /\ u \in Joinable(t) /\ th[u].state # "ZOMBIE"
    /\ th' = [th EXCEPT ![t].state = "SLEEPING", ![t].chan = <<"thread", u>>]
    /\ sched(t)
    /\ k' = [k EXCEPT ![t].at = "joined", ![t].u = u]
    /\ UNCHANGED <<pr, stacks, fault, lossy, overlap>>

\* Woken, by whomever, the joiner does not look at the state again.
JoinWoken(t) ==
    /\ On(t, "joined")
    /\ Joined(t, k[t].u)
    /\ UNCHANGED <<cpu, overlap>>

--------------------------------------------------------------------------------
(* fork(), exit(), wait(), kill(), exec() *)

ForkProc(t) ==
    /\ User(t, "fork") /\ ~ LockHeld
    /\ \E q \in Proc : pr[q].state = "UNUSED"
    /\ LET q == Least({x \in Proc : pr[x].state = "UNUSED"}) IN
       /\ pr' = [pr EXCEPT ![q].state = "EMBRYO"]
       /\ k' = [k EXCEPT ![t].at = "fork_thread", ![t].q = q]
    /\ UNCHANGED <<th, cpu, stacks, fault, lossy, overlap>>

ForkThread(t) ==
    /\ OnLocked(t, "fork_thread")
    /\ allocthread(t, "fork_stack")
    /\ UNCHANGED <<pr, cpu, stacks, fault, lossy, overlap>>

\* allocproc() without a thread or a stack for it: the process stays EMBRYO.
ForkNoThread(t) ==
    /\ \/ OnLocked(t, "fork_thread") /\ Unused = {} /\ UNCHANGED th
       \/ On(t, "fork_stack") /\ MemoryFails /\ th' = [th EXCEPT ![k[t].u].state = "UNUSED"]
    /\ k' = [k EXCEPT ![t] = InUser]
    /\ lossy' = TRUE
    /\ UNCHANGED <<pr, cpu, stacks, fault, overlap>>

\* The end of allocproc(): the new master still belongs to the caller's process.
ForkStack(t) ==
    /\ On(t, "fork_stack") /\ Stack \ stacks # {}
    /\ LET u == k[t].u  s == Least(Stack \ stacks) IN
       /\ th' = [th EXCEPT ![u].kstack = s, ![u].tid = 0, ![u].ustack = 0, ![u].process = My(t)]
       /\ stacks' = stacks \cup {s}
       /\ pr' = [pr EXCEPT ![k[t].q].master = u, ![k[t].q].workers = UnusedProc.workers]
       /\ Goto(t, "fork_copy")
    /\ UNCHANGED <<cpu, fault, lossy, overlap>>

\* copyuvm() fails; everything is given back.
ForkNoCopy(t) ==
    /\ On(t, "fork_copy") /\ MemoryFails
    /\ kfree({th[k[t].u].kstack})
    /\ th' = [th EXCEPT ![k[t].u] = [@ EXCEPT !.state = "UNUSED", !.kstack = 0, !.process = 0]]
    /\ pr' = [pr EXCEPT ![k[t].q].master = 0, ![k[t].q].state = "UNUSED"]
    /\ k' = [k EXCEPT ![t] = InUser]
    /\ UNCHANGED <<cpu, lossy, overlap>>

\* The allocuvm() and copyout() that follow are taken to succeed: their error
\* paths do not return, and go on with a master that is 0.
ForkCopy(t) ==
    /\ On(t, "fork_copy")
    /\ th' = [th EXCEPT ![k[t].u].process = k[t].q]
    /\ pr' = [pr EXCEPT ![k[t].q].parent = My(t), ![k[t].q].check = UnusedProc.check]
    /\ Goto(t, "fork_run")
    /\ UNCHANGED <<cpu, stacks, fault, lossy, overlap>>

ForkRun(t) ==
    /\ OnLocked(t, "fork_run")
    /\ th' = [th EXCEPT ![k[t].u].state = "RUNNABLE"]
    /\ pr' = [pr EXCEPT ![k[t].q].state = "RUNNABLE"]
    /\ k' = [k EXCEPT ![t] = InUser, ![k[t].u] = InUser]
    /\ UNCHANGED <<cpu, stacks, fault, lossy, overlap>>

\* exit(), called or because the process was killed.
exit(t) ==
    /\ On(t, "user") /\ My(t) # initproc
    /\ pr[My(t)].killed \/ "exit" \in Calls
    /\ k' = [k EXCEPT ![t].at = "exit_mark", ![t].i = 1]
    /\ UNCHANGED <<th, pr, cpu, stacks, fault, lossy, overlap>>

Marks(t, u) == My(u) = My(t) /\ th[u].tid # th[t].tid

\* The other threads of the process become ZOMBIE, one after the other, without the lock.
ExitMark(t) ==
    /\ On(t, "exit_mark") /\ k[t].i <= NTHREAD
    /\ LET u == k[t].i IN
       /\ th' = IF Marks(t, u) THEN [th EXCEPT ![u].state = "ZOMBIE"] ELSE th
       /\ lossy' = (lossy \/ (Marks(t, u) /\ (Cut({u}) \/ th[u].state \in {"UNUSED", "EMBRYO"})))
       /\ k' = [k EXCEPT ![t].i = u + 1]
    /\ UNCHANGED <<pr, cpu, stacks, fault, overlap>>

\* The rest under the lock: the parent is woken, the children go to init.
ExitSched(t) ==
    /\ OnLocked(t, "exit_mark") /\ k[t].i > NTHREAD
    /\ LET p == My(t)
           orphans == {q \in Proc : pr[q].parent = p}
           woken == Woken(th, <<"proc", pr[p].parent>>)
           again == IF \E q \in orphans : pr[q].state = "ZOMBIE" THEN Woken(woken, <<"proc", initproc>>) ELSE woken
       IN  /\ th' = [again EXCEPT ![t].state = "ZOMBIE"]
           /\ pr' = [q \in Proc |-> IF q = p THEN [pr[q] EXCEPT !.state = "ZOMBIE"]
                                    ELSE IF q \in orphans THEN [pr[q] EXCEPT !.parent = initproc] ELSE pr[q]]
    /\ sched(t)
    /\ Goto(t, "exited")
    /\ UNCHANGED <<stacks, fault, lossy, overlap>>

Workers(p) == {pr[p].workers[i] : i \in Thread} \ {0}

Reaped(q) == Workers(q) \cup {pr[q].master}

\* A zombie child's stacks, threads and entry are freed; the entries of the
\* workers keep process and tid.
WaitReap(t, q) ==
    /\ On(t, "waiting") \/ (User(t, "wait") /\ ~ LockHeld)
    /\ pr[q].parent = My(t) /\ pr[q].state = "ZOMBIE"
    /\ kfree({th[u].kstack : u \in Reaped(q)})
    /\ th' = [u \in Thread |-> IF u = pr[q].master THEN [th[u] EXCEPT !.state = "UNUSED", !.kstack = 0, !.process = 0]
                               ELSE IF u \in Reaped(q) THEN [th[u] EXCEPT !.state = "UNUSED"] ELSE th[u]]
    /\ pr' = [pr EXCEPT ![q] = [UnusedProc EXCEPT !.check = pr[q].check]]
    /\ k' = [k EXCEPT ![t] = InUser]
    /\ UNCHANGED <<cpu, lossy, overlap>>

NoZombie(t) == \A q \in Proc : pr[q].parent = My(t) => pr[q].state # "ZOMBIE"

WaitSleep(t) ==
    /\ On(t, "waiting") \/ (User(t, "wait") /\ ~ LockHeld)
    /\ NoZombie(t) /\ ~ pr[My(t)].killed
    /\ \E q \in Proc : pr[q].parent = My(t)
    /\ th' = [th EXCEPT ![t].state = "SLEEPING", ![t].chan = <<"proc", My(t)>>]
    /\ sched(t)
    /\ Goto(t, "waiting")
    /\ UNCHANGED <<pr, stacks, fault, lossy, overlap>>

\* No children left, or killed; as a call of its own this changes nothing.
WaitNone(t) ==
    /\ On(t, "waiting") /\ NoZombie(t)
    /\ pr[My(t)].killed \/ \A q \in Proc : pr[q].parent # My(t)
    /\ k' = [k EXCEPT ![t] = InUser]
    /\ UNCHANGED <<th, pr, cpu, stacks, fault, lossy, overlap>>

kill(t, q) ==
    /\ User(t, "kill") /\ ~ LockHeld
    /\ q # initproc /\ pr[q].state # "UNUSED" /\ ~ pr[q].killed
    /\ pr' = [pr EXCEPT ![q].killed = TRUE]
    /\ th' = [u \in Thread |-> IF My(u) = q /\ th[u].state = "SLEEPING" THEN [th[u] EXCEPT !.state = "RUNNABLE"] ELSE th[u]]
    /\ UNCHANGED <<cpu, k, stacks, fault, lossy, overlap>>

exec(t) ==
    /\ User(t, "exec") /\ My(t) # initproc
    /\ k' = [k EXCEPT ![t].at = "exec", ![t].i = 1]
    /\ UNCHANGED <<th, pr, cpu, stacks, fault, lossy, overlap>>

\* An entry of workers: the caller itself replaces the master, which goes as the
\* others do.  The user stack of every one of them is unmapped.
ExecWorker(t) ==
    /\ On(t, "exec") /\ k[t].i <= NTHREAD
    /\ LET p == My(t)
           w == pr[p].workers[k[t].i]
           gone == IF w = t THEN pr[p].master ELSE w
       IN  /\ pr' = [pr EXCEPT ![p].workers[k[t].i] = 0, ![p].master = IF w = t THEN t ELSE @]
           /\ IF gone = 0 THEN UNCHANGED <<th, stacks, fault, lossy>>
              ELSE /\ th' = [th EXCEPT ![gone] = UnusedThread]
                   /\ kfree({th[gone].kstack})
                   /\ lossy' = (lossy \/ Cut({gone}))
    /\ k' = [k EXCEPT ![t].i = @ + 1]
    /\ UNCHANGED <<cpu, overlap>>

\* The new image.
ExecCommit(t) ==
    /\ On(t, "exec") /\ k[t].i > NTHREAD
    /\ pr' = [pr EXCEPT ![My(t)].check = UnusedProc.check]
    /\ k' = [k EXCEPT ![t] = InUser]
    /\ UNCHANGED <<th, cpu, stacks, fault, lossy, overlap>>

\* No such file, or no memory: a thread that was a worker has lost its stack and
\* is killed at its next instruction.
ExecFail(t) ==
    /\ On(t, "exec") /\ k[t].i > NTHREAD
    /\ pr' = [pr EXCEPT ![My(t)].killed = @ \/ th[t].tid # 0]
    /\ k' = [k EXCEPT ![t] = InUser]
    /\ UNCHANGED <<th, cpu, stacks, fault, lossy, overlap>>

--------------------------------------------------------------------------------

Init ==
    /\ th = [t \in Thread |-> IF t = 1 THEN [UnusedThread EXCEPT !.state = "RUNNABLE", !.process = 1, !.kstack = 1]
                              ELSE UnusedThread]
    /\ pr = [p \in Proc |-> IF p = 1 THEN [UnusedProc EXCEPT !.state = "RUNNABLE", !.master = 1] ELSE UnusedProc]
    /\ cpu = [c \in CPU |-> 0]
    /\ k = [t \in Thread |-> InUser]
    /\ stacks = {1}
    /\ fault = FALSE /\ lossy = FALSE /\ overlap = FALSE

Step(t) ==
    \/ yield(t) \/ sys_sleep(t)
    \/ CreateAlloc(t) \/ CreateStacks(t) \/ CreateNoStack(t) \/ CreateBad(t) \/ CreateFind(t) \/ CreateStore(t)
    \/ thread_exit(t) \/ ThreadExitWakeup(t) \/ ThreadExitSched(t)
    \/ \E u \in Thread : JoinZombie(t, u) \/ JoinSleep(t, u)
    \/ JoinWoken(t)
    \/ ForkProc(t) \/ ForkThread(t) \/ ForkNoThread(t) \/ ForkStack(t) \/ ForkNoCopy(t) \/ ForkCopy(t) \/ ForkRun(t)
    \/ exit(t) \/ ExitMark(t) \/ ExitSched(t)
    \/ \E q \in Proc : WaitReap(t, q) \/ kill(t, q)
    \/ WaitSleep(t) \/ WaitNone(t)
    \/ exec(t) \/ ExecWorker(t) \/ ExecCommit(t) \/ ExecFail(t)

\* A behaviour is followed up to its first overlap: a thread created meanwhile is
\* missed by the loops of exec() and exit(), and a joiner may run in between.
Next ==
    /\ ~ overlap
    /\ \/ \E c \in CPU, t \in Thread : scheduler(c, t)
       \/ wakeup
       \/ \E t \in Thread : Step(t)

Spec == Init /\ [][Next]_vars

--------------------------------------------------------------------------------
(* Properties *)

State == {"UNUSED", "EMBRYO", "SLEEPING", "RUNNABLE", "RUNNING", "ZOMBIE"}

TypeOK ==
    /\ \A t \in Thread : /\ th[t].state \in State /\ th[t].process \in 0 .. NPROC
                         /\ th[t].tid \in {0, t} /\ th[t].kstack \in {0} \cup Stack
                         /\ th[t].ustack \in {0} \cup Thread
                         /\ k[t].u \in 0 .. NTHREAD /\ k[t].q \in 0 .. NPROC /\ k[t].i \in 0 .. NTHREAD + 1
    /\ \A p \in Proc : /\ pr[p].state \in State /\ pr[p].parent \in 0 .. NPROC /\ pr[p].killed \in BOOLEAN
                       /\ pr[p].master \in 0 .. NTHREAD
                       /\ pr[p].workers \in [Thread -> 0 .. NTHREAD] /\ pr[p].check \in [Thread -> BOOLEAN]
    /\ cpu \in [CPU -> 0 .. NTHREAD]
    /\ stacks \subseteq Stack /\ fault \in BOOLEAN /\ lossy \in BOOLEAN /\ overlap \in BOOLEAN

\* A thread that may run has a kernel stack that is not free and that no other
\* such thread has, and no stack is freed twice.
OwnStack ==
    overlap \/
    LET Live == {t \in Thread : th[t].state \in {"SLEEPING", "RUNNABLE", "RUNNING"} \/ Running(t)} IN
    /\ ~ fault
    /\ \A t \in Live : th[t].kstack \in stacks
    /\ \A t, u \in Live : t # u => th[t].kstack # th[u].kstack

\* thread_join() is woken: nobody sleeps for a thread that has ended, unless the
\* process as a whole is being ended.
NoLostJoin ==
    \A t \in Thread : th[t].state = "SLEEPING" /\ k[t].at = "joined" /\ th[k[t].u].state \in {"ZOMBIE", "UNUSED"} =>
        \/ k[k[t].u].at = "exit_wakeup"
        \/ \E u \in Thread : My(u) = My(t) /\ k[u].at \in {"exit_mark", "exec"}

\* When a process has exited, and when exec() has passed the last entry of workers,
\* no other thread of the process can run ("This code shouldn't be executed!!").
SiblingsStop ==
    overlap \/
    \A t, u \in Thread :
        /\ t # u /\ My(t) = My(u) /\ My(t) # 0
        /\ pr[My(t)].state = "ZOMBIE" \/ (On(t, "exec") /\ k[t].i > NTHREAD)
        => th[u].state \notin {"SLEEPING", "RUNNABLE", "RUNNING"} /\ ~ Running(u)

\* Two workers of a process never share a user stack, and a free slot is nobody's.
OwnUserStack ==
    overlap \/
    \A p \in Proc : \A t, u \in Workers(p) :
        /\ t # u => th[t].ustack # th[u].ustack
        /\ pr[p].state = "RUNNABLE" => th[t].ustack # 0 /\ pr[p].check[th[t].ustack]

\* As long as no call was cut off by the end of its process, none failed half-way
\* and no two of them changed workers together, every table entry in use belongs
\* to a process that is there, or to a call that is under way: nothing is lost.
LossHasCause ==
    lossy \/ overlap \/
    \A t \in Thread : th[t].state # "UNUSED" =>
        \/ \E p \in Proc : pr[p].state # "UNUSED" /\ t \in Workers(p) \cup {pr[p].master}
        \/ \E u \in Thread : k[u].u = t /\ ~ Idle(k[u].at) /\ th[u].state \in {"RUNNABLE", "RUNNING"}
================================================================================
