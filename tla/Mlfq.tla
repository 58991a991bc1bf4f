--------------------------------- MODULE Mlfq ---------------------------------
(***************************************************************************)
(* Project2: processes and their scheduling.  proc.c (process table, the   *)
(* four levels of the feedback queue, the monopoly queue MoQ), the timer   *)
(* interrupt of trap.c and the system calls of sysproc.c.                  *)
(*                                                                         *)
(* A section of code under ptable.lock is one step.  The lock itself       *)
(* (ptlock) is kept only across swtch, where one kernel thread acquires it *)
(* and another releases it.  Code that touches the table WITHOUT the lock  *)
(* (yield's test of the quantum, setpriority, setmonopoly, mode_queue) is  *)
(* split into its loads and stores, which interleave with everything else. *)
(*                                                                         *)
(* The arrays of the queues are modelled below rear only.  What removals   *)
(* and boosts leave behind rear is seen by a removePCB() whose process is  *)
(* no longer where it looks; then the code goes on with a wrong rear, and  *)
(* this module ends there (fault).  It ends as well (overtaken) with the   *)
(* step of another process, or of a boost, that changes a queue in which   *)
(* an unlocked setmonopoly() has found its place, or reaps its process.    *)
(* Up to that step nobody tells its loop over a queue from one step: who   *)
(* looks in between finds every other process where it was or next to it.  *)
(* (A scheduler in the middle of its own loop, on another CPU than such a  *)
(* setmonopoly(), is not followed.)                                        *)
(*                                                                         *)
(* A process has a kernel stack of frames: none in user mode, the frame of *)
(* a system call, and on top of it that of a timer interrupt, which runs   *)
(* with interrupts off.  The files, the address space and the console are  *)
(* left out: a process in user mode may make any of its Calls.             *)
(***************************************************************************)
EXTENDS Integers, Sequences, FiniteSets, SequencesExt

CONSTANTS NPROC,          \* slots of ptable.proc, and of a queue
          NCPU,
          Slice,          \* Slice[l]: the timeslice given on entry to level l
          BoostInterval,  \* the 100 of boost()
          TickModulus,    \* ticks is unsigned and wraps here
          SleepFor,       \* the argument of sleep()
          Priorities,     \* the arguments setpriority() is called with
          PidArgs,        \* the pids kill(), setpriority(), setmonopoly() are called with
          Calls,          \* Calls[n]: the system calls the program with pid n makes
          MemoryFails,    \* whether kalloc() and copyuvm() may fail
          MaxPid          \* bound: fork() is called only below it

\* The entries of syscalls[] that concern processes.
SystemCalls == {"fork", "exit", "wait", "kill", "sleep", "yield", "setpriority",
                "setmonopoly", "monopolize", "unmonopolize"}

ASSUME MlfqAssumption ==
    /\ NPROC \in Nat \ {0}
    /\ NCPU \in Nat \ {0}
    /\ Slice \in [0 .. 3 -> Nat]
    /\ BoostInterval \in Nat \ {0}
    /\ TickModulus \in Nat \ {0}
    /\ SleepFor \in Nat
    /\ Priorities \subseteq 0 .. 10
    /\ PidArgs \subseteq Nat
    /\ MemoryFails \in BOOLEAN
    /\ MaxPid \in Nat \ {0}
    /\ Calls \in [1 .. MaxPid -> SUBSET SystemCalls]

Slot  == 1 .. NPROC
CPU   == 1 .. NCPU        \* cpuid() = 0 is CPU 1, the one that counts ticks
NONE  == 0                \* a null pointer, a free lock, an idle CPU
Level == 0 .. 3
MOQ   == 4
TICKS == NPROC + 1        \* the channel &ticks; a slot is the channel of its process
initproc == 1

VARIABLES proc,           \* ptable.proc
          queue,          \* QL0 .. QL3 and moq: the first rear entries
          mode,           \* 0: MLFQ, 1: MoQ
          ticks,
          nextpid,
          ptlock,         \* the CPU that holds ptable.lock across swtch
          cpu,            \* cpu[c]: the process that CPU c runs
          sched,          \* sched[c]: where in scheduler() CPU c is
          irq,            \* irq[c]: where in the clock part of trap() CPU c is
          stack,          \* the kernel stacks
          fault,          \* a panic, or an access behind rear
          overtaken       \* history: what a setmonopoly() works on was changed

vars == <<proc, queue, mode, ticks, nextpid, ptlock, cpu, sched, irq, stack, fault, overtaken>>

Free == [state |-> "UNUSED", pid |-> 0, parent |-> NONE, chan |-> NONE,
         killed |-> FALSE, qlevel |-> 0, priority |-> 0, timeslice |-> 0]

\* A frame: the code it is in, and two locals of that code.
Frame(at, v, w, isIrq) == [at |-> at, v |-> v, w |-> w, irq |-> isIrq]

\* pinit(), and userinit(): the first process is in L0, about to run forkret().
Init ==
    /\ proc = [p \in Slot |->
                  IF p = initproc
                  THEN [Free EXCEPT !.state = "RUNNABLE", !.pid = 1, !.timeslice = Slice[0]]
                  ELSE Free]
    /\ queue = [l \in Level \cup {MOQ} |-> IF l = 0 THEN <<initproc>> ELSE <<>>]
    /\ mode = 0
    /\ ticks = 0
    /\ nextpid = 2
    /\ ptlock = NONE
    /\ cpu = [c \in CPU |-> NONE]
    /\ sched = [c \in CPU |-> "loop"]
    /\ irq = [c \in CPU |-> "none"]
    /\ stack = [p \in Slot |-> IF p = initproc THEN <<Frame("forkret", 0, 0, FALSE)>> ELSE <<>>]
    /\ fault = "none"
    /\ overtaken = FALSE

-------------------------------------------------------------------------------
(* The running process and its kernel stack *)

\* CPU c executes code of process p, outside the clock part of trap().
Runs(c, p) == p # NONE /\ cpu[c] = p /\ irq[c] = "none" /\ fault = "none"

Top(p) == Last(stack[p])

\* p is executing at.
At(c, p, at) == Runs(c, p) /\ stack[p] # <<>> /\ Top(p).at = at

\* The stack of p with its top frame moved to at, with locals v and w.
Goto(p, at, v, w) ==
    [stack EXCEPT ![p] = Append(Front(@), Frame(at, v, w, Top(p).irq))]

\* The system call or the yield() of an interrupt is over.
Finish(p) == Goto(p, "ret", 0, 0)

\* The slot with the lowest address among S.
First(S) == CHOOSE p \in S : \A q \in S : p <= q

UnusedSlots == {p \in Slot : proc[p].state = "UNUSED"}

WithPid(n) == {p \in Slot : proc[p].pid = n}

\* The tick handler, and sleep() between its test of ticks and its block.
TickslockFree ==
    /\ irq[1] = "none"
    /\ \A p \in Slot : stack[p] # <<>> => Top(p).at # "sleep_block"

\* Interrupts are on: CPU c is not inside an acquire() and not in a handler.
Interruptible(c) ==
    LET p == cpu[c]
    IN  /\ fault = "none"
        /\ irq[c] = "none"
        /\ ptlock # c
        /\ p # NONE /\ stack[p] # <<>> => ~Top(p).irq /\ Top(p).at # "sleep_block"

\* sched(): back to the scheduler of the CPU, with ptable.lock held.
Sched(c) == cpu' = [cpu EXCEPT ![c] = NONE] /\ ptlock' = c

Wakeup1(table, ch) ==
    [p \in Slot |-> IF table[p].state = "SLEEPING" /\ table[p].chan = ch
                    THEN [table[p] EXCEPT !.state = "RUNNABLE"]
                    ELSE table[p]]

-------------------------------------------------------------------------------
(* Queues *)

\* The entries of queue l that name the pid of p.
Positions(l, p) ==
    {n \in DOMAIN queue[l] : proc[queue[l][n]].pid = proc[p].pid}

\* removePCB() goes behind rear: no entry below it is the one, and the search goes on
\* in what is left there; or rear is NPROC, and it clears the word behind the last
\* entry, which is rear itself.
Overruns(l, p) == Positions(l, p) = {} \/ Len(queue[l]) = NPROC

removePCB(l, p) == [queue EXCEPT ![l] = RemoveAt(@, First(Positions(l, p)))]

\* The place of a process with priority n in L3: before the first one that has
\* a lower priority.
L3Place(table, q, n) ==
    First({k \in DOMAIN q : table[q[k]].priority < n} \cup {Len(q) + 1})

\* A panic, or an access behind rear, from where the code is not followed.
Fail(kind) ==
    /\ fault' = kind
    /\ UNCHANGED <<proc, queue, mode, ticks, nextpid, ptlock, cpu, sched, irq, stack>>

-------------------------------------------------------------------------------
(* scheduler() *)

Runnable(l) == {n \in DOMAIN queue[l] : proc[queue[l][n]].state = "RUNNABLE"}

\* Mutant: the process is not marked RUNNING.
levelScheduleUnmarked(c, l) ==
    /\ Runnable(l) # {}
    /\ cpu' = [cpu EXCEPT ![c] = queue[l][First(Runnable(l))]]
    /\ ptlock' = c
    /\ UNCHANGED proc

\* levelSchedule(): the first RUNNABLE entry of queue l, up to the swtch.
levelSchedule(c, l) ==
    LET p == queue[l][First(Runnable(l))]
    IN  /\ Runnable(l) # {}
        /\ proc' = [proc EXCEPT ![p].state = "RUNNING"]
        /\ cpu' = [cpu EXCEPT ![c] = p]
        /\ ptlock' = c

\* The scheduler of an idle CPU has, or can take, ptable.lock.
Scheduling(c, at) ==
    /\ cpu[c] = NONE /\ irq[c] = "none" /\ fault = "none"
    /\ sched[c] = at
    /\ ptlock \in {NONE, c}

\* Mutant: the levels are served in MoQ mode too.
ScheduleMlfqAlways(c) ==
    /\ Scheduling(c, "loop")
    /\ \E l \in Level : /\ \A k \in Level : k < l => Runnable(k) = {}
                        /\ levelSchedule(c, l)
    /\ UNCHANGED <<queue, mode, ticks, nextpid, sched, irq, stack, fault>>

\* MLFQ mode: the first level with a RUNNABLE process.
ScheduleMlfq(c) ==
    /\ Scheduling(c, "loop")
    /\ mode = 0
    /\ \E l \in Level : /\ \A k \in Level : k < l => Runnable(k) = {}
                        /\ levelSchedule(c, l)
    /\ UNCHANGED <<queue, mode, ticks, nextpid, sched, irq, stack, fault>>

\* Mutant: zombies count as unfinished.
MoqNonempty == queue[MOQ] # <<>> /\ Len(queue[MOQ]) # 1

\* checkMoQ(): some process of MoQ is not a zombie, unless there is only one.
MoqUnfinished ==
    /\ \E n \in DOMAIN queue[MOQ] : proc[queue[MOQ][n]].state # "ZOMBIE"
    /\ Len(queue[MOQ]) # 1

\* MoQ mode: run the first RUNNABLE process of MoQ, or end the mode.
ScheduleMoq(c) ==
    /\ Scheduling(c, "loop")
    /\ mode = 1
    /\ \/ /\ MoqUnfinished
          /\ levelSchedule(c, MOQ)
          /\ sched' = [sched EXCEPT ![c] = "break"]
       \/ /\ ~MoqUnfinished
          /\ sched' = [sched EXCEPT ![c] = "unmonopolize"]
          /\ ptlock' = NONE
          /\ UNCHANGED <<proc, cpu>>
    /\ UNCHANGED <<queue, mode, ticks, nextpid, irq, stack, fault>>

\* The unmonopolize() of checkMoQ(), in its two critical sections.
ScheduleUnmonopolize(c) ==
    /\ Scheduling(c, "unmonopolize")
    /\ mode' = 0
    /\ sched' = [sched EXCEPT ![c] = "reset"]
    /\ UNCHANGED <<proc, queue, ticks, nextpid, ptlock, cpu, irq, stack, fault>>

ScheduleReset(c) ==
    /\ Scheduling(c, "reset")
    /\ TickslockFree
    /\ ticks' = 0
    /\ sched' = [sched EXCEPT ![c] = "moq"]
    /\ UNCHANGED <<proc, queue, mode, nextpid, ptlock, cpu, irq, stack, fault>>

\* checkMoQ() has ended the mode; MoQ is still scheduled once.
ScheduleMoqLast(c) ==
    /\ Scheduling(c, "moq")
    /\ \/ levelSchedule(c, MOQ)
       \/ Runnable(MOQ) = {} /\ UNCHANGED <<proc, cpu, ptlock>>
    /\ sched' = [sched EXCEPT ![c] = "break"]
    /\ UNCHANGED <<queue, mode, ticks, nextpid, irq, stack, fault>>

\* The inner loop ends: nothing to run, or a round of MoQ is over.
ScheduleRelease(c) ==
    /\ \/ /\ sched[c] = "break" /\ Scheduling(c, "break")
       \/ /\ Scheduling(c, "loop")
          /\ ptlock = c
          /\ mode = 0 => \A l \in Level : Runnable(l) = {}
          /\ mode = 1 => MoqUnfinished /\ Runnable(MOQ) = {}
    /\ ptlock' = NONE
    /\ sched' = [sched EXCEPT ![c] = "loop"]
    /\ UNCHANGED <<proc, queue, mode, ticks, nextpid, cpu, irq, stack, fault>>

Scheduler(c) ==
    \/ ScheduleMlfq(c) \/ ScheduleMoq(c) \/ ScheduleUnmonopolize(c)
    \/ ScheduleReset(c) \/ ScheduleMoqLast(c) \/ ScheduleRelease(c)

\* A process the scheduler has switched to releases ptable.lock: forkret(), the
\* end of yield() and monopolize(), and of sleep() in sys_sleep().  A process
\* asleep in wait() keeps the lock and looks at its children again.
Resume(c, p) ==
    /\ Runs(c, p)
    /\ ptlock = c
    /\ \/ /\ Top(p).at = "forkret"
          /\ stack' = [stack EXCEPT ![p] = Front(@)]
          /\ ptlock' = NONE
          /\ UNCHANGED proc
       \/ /\ Top(p).at = "yielded"
          /\ stack' = Finish(p)
          /\ ptlock' = NONE
          /\ UNCHANGED proc
       \/ /\ Top(p).at = "sleep_wake"
          /\ proc' = [proc EXCEPT ![p].chan = NONE]
          /\ stack' = Goto(p, "sleep_check", Top(p).v, 0)
          /\ ptlock' = NONE
       \/ /\ Top(p).at = "wait_wake"
          /\ proc' = [proc EXCEPT ![p].chan = NONE]
          /\ stack' = Goto(p, "wait", 0, 0)
          /\ UNCHANGED ptlock
    /\ UNCHANGED <<queue, mode, ticks, nextpid, cpu, sched, irq, fault>>

-------------------------------------------------------------------------------
(* trap(): the timer interrupt *)

\* The handler goes on to the process it interrupted, if there is one.
EnterYield(c) ==
    stack' = IF cpu[c] = NONE THEN stack
             ELSE [stack EXCEPT ![cpu[c]] = Append(@, Frame("timer", 0, 0, TRUE))]

\* CPU 1 counts the tick and wakes the sleepers, under tickslock.
ClockTick(c) ==
    /\ c = 1
    /\ Interruptible(c)
    /\ TickslockFree
    /\ ptlock = NONE
    /\ ticks' = (ticks + 1) % TickModulus
    /\ proc' = Wakeup1(proc, TICKS)
    /\ irq' = [irq EXCEPT ![c] = "mode"]
    /\ UNCHANGED <<queue, mode, nextpid, ptlock, cpu, sched, stack, fault>>

\* The mode is read without ptable.lock, and boost() looks at ticks.
ClockMode(c) ==
    /\ irq[c] = "mode"
    /\ fault = "none"
    /\ \/ /\ mode = 0 /\ ticks % BoostInterval = 0
          /\ irq' = [irq EXCEPT ![c] = "boost"]
          /\ UNCHANGED stack
       \/ /\ mode = 1 \/ ticks % BoostInterval # 0
          /\ irq' = [irq EXCEPT ![c] = "none"]
          /\ EnterYield(c)
    /\ UNCHANGED <<proc, queue, mode, ticks, nextpid, ptlock, cpu, sched, fault>>

\* Mutant: a boosted process keeps its qlevel.
BoostedInPlace(p) == [proc[p] EXCEPT !.timeslice = Slice[0]]

Boosted(p) == [proc[p] EXCEPT !.timeslice = Slice[0], !.qlevel = 0]

\* boost(): L1, L2 and L3 behind L0, with a new timeslice.
boost(c) ==
    LET moved == queue[1] \o queue[2] \o queue[3]
        all   == queue[0] \o moved
    IN  /\ irq[c] = "boost"
        /\ fault = "none"
        /\ ptlock = NONE
        /\ \/ Len(all) > NPROC /\ Fail("overrun")
           \/ /\ Len(all) <= NPROC
              /\ queue' = [l \in DOMAIN queue |->
                              IF l = 0 THEN all ELSE IF l = MOQ THEN queue[l] ELSE <<>>]
              /\ proc' = [p \in Slot |-> IF p \in ToSet(moved) THEN Boosted(p) ELSE proc[p]]
              /\ irq' = [irq EXCEPT ![c] = "none"]
              /\ EnterYield(c)
              /\ UNCHANGED <<mode, ticks, nextpid, ptlock, cpu, sched, fault>>

\* The timer of another CPU only interrupts its process.
LocalTick(c) ==
    /\ c # 1
    /\ Interruptible(c)
    /\ cpu[c] # NONE
    /\ EnterYield(c)
    /\ UNCHANGED <<proc, queue, mode, ticks, nextpid, ptlock, cpu, sched, irq, fault>>

Clock(c) == ClockTick(c) \/ ClockMode(c) \/ boost(c) \/ LocalTick(c)

\* A killed process exits if the interrupt came from user space.
Timer(c, p) ==
    /\ At(c, p, "timer")
    /\ stack' = IF proc[p].killed /\ Len(stack[p]) = 1
                THEN Goto(p, "exit", 0, 0)
                ELSE Goto(p, "yield", 0, 0)
    /\ UNCHANGED <<proc, queue, mode, ticks, nextpid, ptlock, cpu, sched, irq, fault>>

\* The end of a system call, or of the timer interrupt.
Return(c, p) ==
    /\ At(c, p, "ret")
    /\ stack' = IF proc[p].killed /\ (Top(p).irq => Len(stack[p]) = 1)
                THEN Goto(p, "exit", 0, 0)
                ELSE [stack EXCEPT ![p] = Front(@)]
    /\ UNCHANGED <<proc, queue, mode, ticks, nextpid, ptlock, cpu, sched, irq, fault>>

-------------------------------------------------------------------------------
(* yield() *)

\* Mutant: demoted with a tick left.
YieldTestEarly(c, p) ==
    /\ At(c, p, "yield")
    /\ stack' = IF proc[p].qlevel = MOQ THEN Goto(p, "giveup", 0, 0)
                ELSE IF proc[p].timeslice > 1 THEN Goto(p, "slice", proc[p].timeslice, 0)
                ELSE Goto(p, "requeue", 0, 0)
    /\ UNCHANGED <<proc, queue, mode, ticks, nextpid, ptlock, cpu, sched, irq, fault>>

\* Mutant: the process keeps the CPU when its timeslice is used up.
YieldTestKeeps(c, p) ==
    /\ At(c, p, "yield")
    /\ stack' = IF proc[p].qlevel = MOQ THEN Goto(p, "giveup", 0, 0)
                ELSE IF proc[p].timeslice # 0 THEN Goto(p, "slice", proc[p].timeslice, 0)
                ELSE Finish(p)
    /\ UNCHANGED <<proc, queue, mode, ticks, nextpid, ptlock, cpu, sched, irq, fault>>

\* The level and the timeslice are read without ptable.lock.
YieldTest(c, p) ==
    /\ At(c, p, "yield")
    /\ stack' = IF proc[p].qlevel = MOQ THEN Goto(p, "giveup", 0, 0)
                ELSE IF proc[p].timeslice # 0 THEN Goto(p, "slice", proc[p].timeslice, 0)
                ELSE Goto(p, "requeue", 0, 0)
    /\ UNCHANGED <<proc, queue, mode, ticks, nextpid, ptlock, cpu, sched, irq, fault>>

\* p->timeslice--, the store; the process keeps the CPU.
YieldSlice(c, p) ==
    /\ At(c, p, "slice")
    /\ proc' = [proc EXCEPT ![p].timeslice = Top(p).v - 1]
    /\ stack' = Finish(p)
    /\ UNCHANGED <<queue, mode, ticks, nextpid, ptlock, cpu, sched, irq, fault>>

\* A MoQ process gives up the CPU where it stands.
YieldMoq(c, p) ==
    /\ At(c, p, "giveup")
    /\ ptlock = NONE
    /\ proc' = [proc EXCEPT ![p].state = "RUNNABLE"]
    /\ stack' = Goto(p, "yielded", 0, 0)
    /\ Sched(c)
    /\ UNCHANGED <<queue, mode, ticks, nextpid, sched, irq, fault>>

\* Where a process of level l with that pid goes: by the parity of the pid from
\* L0 to L1 or L2, and from there to L3.
NextLevel(l, pid) == IF l = 0 THEN IF pid % 2 = 0 THEN 2 ELSE 1 ELSE 3

\* Mutant: the priority falls below 0.
LoweredUnchecked(l, priority) == IF l = 3 THEN priority - 1 ELSE priority

\* Its priority after that: one less in L3.
Lowered(l, priority) == IF l = 3 /\ priority > 0 THEN priority - 1 ELSE priority

\* The timeslice is used up: to the end of the next level, or to a place in L3
\* behind the processes of at least its priority.
YieldRequeue(c, p) ==
    LET from == proc[p].qlevel
        to   == NextLevel(from, proc[p].pid)
        prio == Lowered(from, proc[p].priority)
        table == [proc EXCEPT ![p].qlevel = to, ![p].timeslice = Slice[to],
                              ![p].priority = prio, ![p].state = "RUNNABLE"]
        removed == IF from = MOQ THEN queue ELSE removePCB(from, p)
        place   == IF to = 3 THEN L3Place(table, removed[to], prio)
                   ELSE Len(removed[to]) + 1
    IN  /\ At(c, p, "requeue")
        /\ ptlock = NONE
        /\ \/ /\ \/ from # MOQ /\ Overruns(from, p)
                 \/ from # to /\ Len(queue[to]) = NPROC
              /\ Fail("overrun")
           \/ /\ from # MOQ => ~Overruns(from, p)
              /\ from # to => Len(queue[to]) < NPROC
              /\ proc' = table
              /\ queue' = [removed EXCEPT ![to] = InsertAt(@, place, p)]
              /\ stack' = Goto(p, "yielded", 0, 0)
              /\ Sched(c)
              /\ UNCHANGED <<mode, ticks, nextpid, sched, irq, fault>>

Yield(c, p) ==
    YieldTest(c, p) \/ YieldSlice(c, p) \/ YieldMoq(c, p) \/ YieldRequeue(c, p)

-------------------------------------------------------------------------------
(* System calls *)

\* The processes that have called fork() and have no pid for the child yet.
Forking == {q \in Slot : stack[q] # <<>> /\ stack[q][1].at = "fork"}

\* trap(): the program of p makes a call, unless p has been killed.  init.c
\* never exits.
Syscall(c, p) ==
    /\ Runs(c, p)
    /\ ptlock # c
    /\ stack[p] = <<>>
    /\ \/ /\ proc[p].killed
          /\ stack' = [stack EXCEPT ![p] = <<Frame("exit", 0, 0, FALSE)>>]
       \/ /\ ~proc[p].killed
          /\ \E call \in Calls[proc[p].pid] :
                /\ call = "exit" => p # initproc
                /\ call = "fork" => nextpid + Cardinality(Forking) <= MaxPid
                /\ \E n \in IF call \in {"kill", "setpriority", "setmonopoly"}
                            THEN PidArgs ELSE {0} :
                      stack' = [stack EXCEPT ![p] = <<Frame(call, n, 0, FALSE)>>]
    /\ UNCHANGED <<proc, queue, mode, ticks, nextpid, ptlock, cpu, sched, irq, fault>>

\* fork(), allocproc(): the first UNUSED slot.
ForkAlloc(c, p) ==
    /\ At(c, p, "fork")
    /\ ptlock = NONE
    /\ \/ /\ UnusedSlots = {}
          /\ stack' = Finish(p)
          /\ UNCHANGED <<proc, nextpid>>
       \/ /\ UnusedSlots # {}
          /\ LET np == First(UnusedSlots)
             IN  /\ proc' = [proc EXCEPT ![np].state = "EMBRYO", ![np].pid = nextpid]
                 /\ stack' = Goto(p, "fork_stack", np, 0)
          /\ nextpid' = nextpid + 1
    /\ UNCHANGED <<queue, mode, ticks, ptlock, cpu, sched, irq, fault>>

\* allocproc(): the kernel stack, then the entry in L0.
ForkStack(c, p) ==
    LET np == Top(p).v
    IN  /\ At(c, p, "fork_stack")
        /\ \/ /\ MemoryFails
              /\ proc' = [proc EXCEPT ![np].state = "UNUSED"]
              /\ stack' = Finish(p)
              /\ UNCHANGED <<queue, mode, ticks, nextpid, ptlock, cpu, sched, irq, fault>>
           \/ /\ ptlock = NONE
              /\ Len(queue[0]) < NPROC
              /\ proc' = [proc EXCEPT ![np].qlevel = 0, ![np].priority = 0,
                                      ![np].timeslice = Slice[0]]
              /\ queue' = [queue EXCEPT ![0] = Append(@, np)]
              /\ stack' = Goto(p, "fork_copy", np, 0)
              /\ UNCHANGED <<mode, ticks, nextpid, ptlock, cpu, sched, irq, fault>>
           \/ ptlock = NONE /\ Len(queue[0]) = NPROC /\ Fail("overrun")

\* copyuvm() may fail and leaves np UNUSED, in L0; otherwise the child is ready.
ForkCopy(c, p) ==
    LET np == Top(p).v
    IN  /\ At(c, p, "fork_copy")
        /\ \/ /\ MemoryFails
              /\ proc' = [proc EXCEPT ![np].state = "UNUSED"]
              /\ stack' = Finish(p)
           \/ /\ ptlock = NONE
              /\ proc' = [proc EXCEPT ![np].parent = p, ![np].state = "RUNNABLE"]
              /\ stack' = [Finish(p) EXCEPT ![np] = <<Frame("forkret", 0, 0, FALSE)>>]
        /\ UNCHANGED <<queue, mode, ticks, nextpid, ptlock, cpu, sched, irq, fault>>

Children(p) == {q \in Slot : proc[q].parent = p}
Zombies(p)  == {q \in Children(p) : proc[q].state = "ZOMBIE"}

\* The table with the children of p handed to init.
Orphaned(table, p) ==
    [q \in Slot |-> IF proc[q].parent = p THEN [table[q] EXCEPT !.parent = initproc]
                    ELSE table[q]]

\* Mutant: the parent is not woken.
LeaveChildrenUnseen(p) == Orphaned(proc, p)

\* The table after exit() has woken the parent of p and passed its children to
\* init, which is woken if one of them is a zombie.
LeaveChildren(p) ==
    LET table == Orphaned(Wakeup1(proc, proc[p].parent), p)
    IN  IF Zombies(p) = {} THEN table ELSE Wakeup1(table, initproc)

\* exit(): leave parent and children, and never return.
Exit(c, p) ==
    /\ At(c, p, "exit")
    /\ \/ p = initproc /\ Fail("panic")
       \/ /\ p # initproc
          /\ ptlock = NONE
          /\ proc' = [LeaveChildren(p) EXCEPT ![p].state = "ZOMBIE"]
          /\ stack' = [stack EXCEPT ![p] = <<>>]
          /\ Sched(c)
          /\ UNCHANGED <<queue, mode, ticks, nextpid, sched, irq, fault>>

\* Mutant: the reaped process stays in its queue.
ReapedKeeps(table, q) == q

\* The queue without its first entry that is UNUSED.
Reaped(table, q) ==
    LET unused == {k \in DOMAIN q : table[q[k]].state = "UNUSED"}
    IN  IF unused = {} THEN q ELSE RemoveAt(q, First(unused))

\* wait(): reap the first zombie, give up, or sleep until a child exits.
Wait(c, p) ==
    LET z == First(Zombies(p))
        freed == [proc EXCEPT ![z].pid = 0, ![z].parent = NONE, ![z].killed = FALSE,
                              ![z].state = "UNUSED"]
    IN  /\ At(c, p, "wait")
        /\ ptlock \in {NONE, c}
        /\ \/ /\ Zombies(p) # {}
              /\ proc' = freed
              /\ queue' = [queue EXCEPT ![proc[z].qlevel] = Reaped(freed, @)]
              /\ stack' = Finish(p)
              /\ ptlock' = NONE
              /\ UNCHANGED cpu
           \/ /\ Zombies(p) = {}
              /\ Children(p) = {} \/ proc[p].killed
              /\ stack' = Finish(p)
              /\ ptlock' = NONE
              /\ UNCHANGED <<proc, queue, cpu>>
           \/ /\ Zombies(p) = {} /\ Children(p) # {} /\ ~proc[p].killed
              /\ proc' = [proc EXCEPT ![p].chan = p, ![p].state = "SLEEPING"]
              /\ stack' = Goto(p, "wait_wake", 0, 0)
              /\ Sched(c)
              /\ UNCHANGED queue
        /\ UNCHANGED <<mode, ticks, nextpid, sched, irq, fault>>

\* kill(): the first slot with that pid.
Kill(c, p) ==
    LET found == WithPid(Top(p).v)
        q == First(found)
    IN  /\ At(c, p, "kill")
        /\ ptlock = NONE
        /\ \/ found = {} /\ UNCHANGED proc
           \/ /\ found # {}
              /\ proc' = [proc EXCEPT ![q].killed = TRUE,
                             ![q].state = IF @ = "SLEEPING" THEN "RUNNABLE" ELSE @]
        /\ stack' = Finish(p)
        /\ UNCHANGED <<queue, mode, ticks, nextpid, ptlock, cpu, sched, irq, fault>>

\* sys_sleep(): take tickslock, note the time, test, and block.
SleepStart(c, p) ==
    /\ At(c, p, "sleep")
    /\ TickslockFree
    /\ stack' = IF SleepFor = 0 \/ proc[p].killed THEN Finish(p)
                ELSE Goto(p, "sleep_block", ticks, 0)
    /\ UNCHANGED <<proc, queue, mode, ticks, nextpid, ptlock, cpu, sched, irq, fault>>

\* The while of sys_sleep() after a wakeup; the difference is unsigned.
SleepCheck(c, p) ==
    /\ At(c, p, "sleep_check")
    /\ TickslockFree
    /\ stack' = IF (ticks - Top(p).v) % TickModulus >= SleepFor \/ proc[p].killed
                THEN Finish(p)
                ELSE Goto(p, "sleep_block", Top(p).v, 0)
    /\ UNCHANGED <<proc, queue, mode, ticks, nextpid, ptlock, cpu, sched, irq, fault>>

\* sleep(&ticks, &tickslock): tickslock is released under ptable.lock.
SleepBlock(c, p) ==
    /\ At(c, p, "sleep_block")
    /\ ptlock = NONE
    /\ proc' = [proc EXCEPT ![p].chan = TICKS, ![p].state = "SLEEPING"]
    /\ stack' = Goto(p, "sleep_wake", Top(p).v, 0)
    /\ Sched(c)
    /\ UNCHANGED <<queue, mode, ticks, nextpid, sched, irq, fault>>

\* setpriority(): one store, without ptable.lock, and the queue stays as it is.
Setpriority(c, p) ==
    LET found == WithPid(Top(p).v)
    IN  /\ At(c, p, "setpriority")
        /\ \/ found = {} /\ UNCHANGED proc
           \/ /\ found # {}
              /\ \E n \in Priorities :
                    proc' = [proc EXCEPT ![First(found)].priority = n]
        /\ stack' = Finish(p)
        /\ UNCHANGED <<queue, mode, ticks, nextpid, ptlock, cpu, sched, irq, fault>>

\* setmonopoly(), all of it without ptable.lock: find the process and its level.  Of
\* what others do between these reads, all but an overtaking may as well come before
\* or after them.
SetmonopolyFind(c, p) ==
    LET n == Top(p).v
        found == WithPid(n)
        q == First(found)
    IN  /\ At(c, p, "setmonopoly")
        /\ stack' = IF \/ n = proc[p].pid
                       \/ found = {}
                       \/ \E k \in DOMAIN queue[MOQ] : proc[queue[MOQ][k]].pid = n
                    THEN Finish(p)
                    ELSE Goto(p, "setmonopoly_remove", q, proc[q].qlevel)
        /\ UNCHANGED <<proc, queue, mode, ticks, nextpid, ptlock, cpu, sched, irq, fault>>

\* remove it from the queue of that level,
SetmonopolyRemove(c, p) ==
    LET q == Top(p).v
        l == Top(p).w
    IN  /\ At(c, p, "setmonopoly_remove")
        /\ \/ l # MOQ /\ Overruns(l, q) /\ Fail("overrun")
           \/ /\ l # MOQ => ~Overruns(l, q)
              /\ queue' = IF l = MOQ THEN queue ELSE removePCB(l, q)
              /\ stack' = Goto(p, "setmonopoly_mark", q, 0)
              /\ UNCHANGED <<proc, mode, ticks, nextpid, ptlock, cpu, sched, irq, fault>>

\* set its level,
SetmonopolyMark(c, p) ==
    LET q == Top(p).v
    IN  /\ At(c, p, "setmonopoly_mark")
        /\ proc' = [proc EXCEPT ![q].qlevel = MOQ]
        /\ stack' = Goto(p, "setmonopoly_append", q, 0)
        /\ UNCHANGED <<queue, mode, ticks, nextpid, ptlock, cpu, sched, irq, fault>>

\* and append it to MoQ, where it counts from rear++ on.
SetmonopolyAppend(c, p) ==
    LET q == Top(p).v
    IN  /\ At(c, p, "setmonopoly_append")
        /\ queue' = [queue EXCEPT ![MOQ] = IF Len(@) < NPROC THEN Append(@, q) ELSE @]
        /\ fault' = IF Len(queue[MOQ]) < NPROC THEN fault ELSE "overrun"
        /\ stack' = Finish(p)
        /\ UNCHANGED <<proc, mode, ticks, nextpid, ptlock, cpu, sched, irq>>

\* monopolize(): enter MoQ mode and give up the CPU.
Monopolize(c, p) ==
    /\ At(c, p, "monopolize")
    /\ ptlock = NONE
    /\ mode' = 1
    /\ proc' = [proc EXCEPT ![p].state = "RUNNABLE"]
    /\ stack' = Goto(p, "yielded", 0, 0)
    /\ Sched(c)
    /\ UNCHANGED <<queue, ticks, nextpid, sched, irq, fault>>

\* unmonopolize() as a system call: the mode, then the clock.
Unmonopolize(c, p) ==
    /\ At(c, p, "unmonopolize")
    /\ ptlock = NONE
    /\ mode' = 0
    /\ stack' = Goto(p, "unmonopolize_ticks", 0, 0)
    /\ UNCHANGED <<proc, queue, ticks, nextpid, ptlock, cpu, sched, irq, fault>>

UnmonopolizeTicks(c, p) ==
    /\ At(c, p, "unmonopolize_ticks")
    /\ TickslockFree
    /\ ticks' = 0
    /\ stack' = Finish(p)
    /\ UNCHANGED <<proc, queue, mode, nextpid, ptlock, cpu, sched, irq, fault>>

-------------------------------------------------------------------------------

Fork(c, p)  == ForkAlloc(c, p) \/ ForkStack(c, p) \/ ForkCopy(c, p)
Sleep(c, p) == SleepStart(c, p) \/ SleepCheck(c, p) \/ SleepBlock(c, p)
Setmonopoly(c, p) ==
    \/ SetmonopolyFind(c, p) \/ SetmonopolyRemove(c, p)
    \/ SetmonopolyMark(c, p) \/ SetmonopolyAppend(c, p)

\* What the kernel does for the process on CPU c without being asked again.
Kernel(c, p) ==
    \/ Resume(c, p) \/ Timer(c, p) \/ Return(c, p) \/ Yield(c, p)
    \/ Fork(c, p) \/ Exit(c, p) \/ Wait(c, p) \/ Kill(c, p) \/ Sleep(c, p)
    \/ Setpriority(c, p) \/ Setmonopoly(c, p)
    \/ Monopolize(c, p) \/ Unmonopolize(c, p) \/ UnmonopolizeTicks(c, p)

\* p is in setmonopoly(), and has found its process.
Monopolizing(p) == stack[p][1].at \in {"setmonopoly_remove", "setmonopoly_mark", "setmonopoly_append"}

\* The queues that setmonopoly() looks at or is about to change.
Edited(p) ==
    CASE stack[p][1].at = "setmonopoly_remove" -> {MOQ, stack[p][1].w}
      [] stack[p][1].at \in {"setmonopoly", "setmonopoly_mark", "setmonopoly_append"} -> {MOQ}
      [] OTHER -> {}

\* A step that is not p's own changes one of them, or the process that p moves.
Overtaking ==
    \E p \in Slot :
        /\ stack[p] # <<>> /\ stack'[p] # <<>> /\ stack'[p][1] = stack[p][1]
        /\ \/ \E l \in Edited(p) : queue'[l] # queue[l]
           \/ LET q == stack[p][1].v
              IN  Monopolizing(p) /\ (proc'[q].pid # proc[q].pid \/ proc'[q].qlevel # proc[q].qlevel)

\* A, and whether it overtakes a setmonopoly(): nothing follows that.
Followed(A) == ~overtaken /\ A /\ overtaken' = Overtaking

Next ==
    Followed(\E c \in CPU : \/ Scheduler(c)
                            \/ Clock(c)
                            \/ \E p \in Slot : Kernel(c, p) \/ Syscall(c, p))

Spec == Init /\ [][Next]_vars

\* The scheduler and the kernel code of a process get on between two ticks,
\* which are much longer than they are, and a timer interrupt stays pending
\* while interrupts are off.  The programs in user mode need not make any call.
Fairness ==
    \A c \in CPU : /\ SF_vars(Followed(Scheduler(c)))
                   /\ SF_vars(Followed(\E p \in Slot : Kernel(c, p)))
                   /\ WF_vars(Followed(ClockMode(c) \/ boost(c)))
                   /\ SF_vars(Followed(ClockTick(c) \/ LocalTick(c)))

FairSpec == Spec /\ Fairness

-------------------------------------------------------------------------------
(* Properties *)

States == {"UNUSED", "EMBRYO", "SLEEPING", "RUNNABLE", "RUNNING", "ZOMBIE"}

Types ==
    /\ proc \in [Slot -> [state : States, pid : 0 .. MaxPid, parent : Slot \cup {NONE},
                          chan : Slot \cup {NONE, TICKS}, killed : BOOLEAN,
                          qlevel : Level \cup {MOQ}, priority : 0 .. 10,
                          timeslice : Nat]]
    /\ DOMAIN queue = Level \cup {MOQ}
    /\ \A l \in DOMAIN queue : queue[l] \in Seq(Slot) /\ Len(queue[l]) <= NPROC
    /\ mode \in {0, 1}
    /\ ticks \in 0 .. TickModulus - 1
    /\ nextpid \in 2 .. MaxPid + 1
    /\ ptlock \in CPU \cup {NONE}
    /\ cpu \in [CPU -> Slot \cup {NONE}]
    /\ sched \in [CPU -> {"loop", "break", "unmonopolize", "reset", "moq"}]
    /\ irq \in [CPU -> {"none", "mode", "boost"}]
    /\ \A p \in Slot : Len(stack[p]) <= 2
    /\ fault \in {"none", "overrun", "panic"}

TypeOK == Types /\ overtaken \in BOOLEAN

\* How often p is in queue l.
Entries(l, p) == Cardinality({n \in DOMAIN queue[l] : queue[l][n] = p})

\* np is between its allocation and its entry in L0.
Unqueued(np) == \E p \in Slot : /\ stack[p] # <<>>
                                /\ stack[p][1].at = "fork_stack"
                                /\ stack[p][1].v = np

\* A process that exists is in exactly one queue, once, and it is the queue its
\* qlevel names; an UNUSED slot is in none.  Every demotion, boost, reaping and
\* move to MoQ, on any CPU, keeps the field and the five arrays in step.
OneQueue ==
    \A p \in Slot, l \in Level \cup {MOQ} :
        Entries(l, p) = IF \/ proc[p].state = "UNUSED"
                           \/ l # proc[p].qlevel
                           \/ Unqueued(p)
                        THEN 0 ELSE 1

\* No queue operation goes behind rear, and the kernel does not panic.
NoFault == fault = "none"

\* A process is RUNNING exactly when one CPU runs it, and no two CPUs run it.
OneCpu ==
    /\ \A c, d \in CPU : cpu[c] = cpu[d] /\ cpu[c] # NONE => c = d
    /\ \A p \in Slot : proc[p].state = "RUNNING" <=> \E c \in CPU : cpu[c] = p

\* A parent asleep in wait() has a child, and none that it could reap: the exit
\* of a child, or of the parent of a zombie, is never missed.
NoLostExit ==
    \A p \in Slot :
        proc[p].state = "SLEEPING" /\ proc[p].chan = p =>
            Children(p) # {} /\ Zombies(p) = {}

\* In MoQ mode a CPU switches only to processes of MoQ, until a setmonopoly() is
\* overtaken.
MonopolyIsExclusive ==
    [][\A c \in CPU :
          cpu[c] = NONE /\ cpu'[c] # NONE /\ mode = 1 => proc[cpu'[c]].qlevel = MOQ]_vars

\* MoQ mode is left only when every process of MoQ is a zombie, by a program
\* that does not call unmonopolize().
MonopolyLasts ==
    [][mode = 1 /\ mode' = 0 =>
          \A p \in Slot : proc[p].qlevel = MOQ => proc[p].state = "ZOMBIE"]_vars

\* The monopoly ends when every process of MoQ has finished, unless a setmonopoly()
\* is overtaken.
MonopolyEnds ==
    (mode = 1 /\ \A p \in Slot : proc[p].qlevel = MOQ => proc[p].state = "ZOMBIE")
        ~> (mode = 0 \/ overtaken)

\* p waits for a CPU in one of the four levels, and they are served.
Waiting(p) ==
    /\ proc[p].state = "RUNNABLE"
    /\ \E l \in Level : p \in ToSet(queue[l])
    /\ mode = 0
    /\ ~overtaken

\* Nobody waits for ever in MLFQ mode, however the others use their quanta: boosts
\* bring a process back to L0, and L0 is served from the front.  No queue operation
\* ends it; only the overtaking of a setmonopoly() is excepted.
NobodyStarves == \A p \in Slot : Waiting(p) ~> ~Waiting(p)

\* A process that leaves L0 in yield() has used up the timeslice it was given, if
\* only the timer calls yield().  (A call by the program itself can be interrupted
\* between the test of the timeslice and the move, run out and boosted meanwhile.)
DemotedAfterQuantum ==
    [][\A p \in Slot : proc[p].qlevel = 0 /\ proc'[p].qlevel \in {1, 2} => proc[p].timeslice = 0]_vars
===============================================================================
