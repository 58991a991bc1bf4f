--------------------------------- MODULE SpinLock ------------------------------
(***************************************************************************)
(* Spin locks and interrupts: acquire(), release(), pushcli(), popcli() of *)
(* spinlock.c with those who depend on them in proc.c and trap.c.          *)
(*                                                                         *)
(* A processor runs its scheduler or a process; an interrupt comes on top  *)
(* of either when the interrupt flag is on, and its handler takes locks    *)
(* too.  A process that gives up the processor holds ptable.lock, which    *)
(* the scheduler and the next process release in its place.  There are     *)
(* ptable.lock and a lock of a device, taken first.                        *)
(***************************************************************************)
EXTENDS Naturals, FiniteSets

CONSTANTS CPU, Thread

Lock == {"dev", "ptable"}
None == 0               \* no processor, no process

VARIABLES cpu,          \* if, ncli, intena, proc, spin, frame (in a handler), intr (locks taken there)
          owner,        \* the processor that has a lock
          ths,          \* a process: state, the intena and frame that it left with,
                        \* and phase: new, in forkret(), or old
          panicked

spinVars == <<cpu, owner, ths, panicked>>

NoSpin == "none"
Unused == [state |-> "unused", intena |-> FALSE, frame |-> FALSE, phase |-> "new"]
New == [Unused EXCEPT !.state = "runnable"]

\* Every processor is in its scheduler, and there is a first process.
Init ==
    /\ cpu = [c \in CPU |-> [if |-> TRUE, ncli |-> 0, intena |-> FALSE, proc |-> None, spin |-> NoSpin,
                             frame |-> FALSE, intr |-> {}]]
    /\ owner = [l \in Lock |-> None]
    /\ \E first \in Thread : ths = [t \in Thread |-> IF t = first THEN New ELSE Unused]
    /\ panicked = FALSE

Held(c) == {l \in Lock : owner[l] = c}
Runs(c) == cpu[c].proc # None
Busy(c) == cpu[c].spin # NoSpin

pushcli(x) == [x EXCEPT !.if = FALSE, !.ncli = @ + 1, !.intena = IF x.ncli = 0 THEN x.if ELSE @]

popcli(x) == [x EXCEPT !.ncli = @ - 1, !.if = x.ncli = 1 /\ x.intena]

--------------------------------------------------------------------------------
(* spinlock.c.                                                             *)

\* The locks that a handler, the scheduler or a process asks for, after those it has.
\* A handler does not know what the code has that it interrupted.
Wanted(c) ==
    LET has == IF cpu[c].frame THEN cpu[c].intr ELSE Held(c) IN
        {l \in Lock : /\ l \notin has
                      /\ l = "dev" => has = {} /\ (Runs(c) \/ cpu[c].frame)
                      /\ Runs(c) \/ cpu[c].frame \/ cpu[c].if}

\* pushcli() and the test of acquire().
acquire(c) ==
    /\ ~Busy(c)
    /\ \E l \in Wanted(c) :
        /\ cpu' = [cpu EXCEPT ![c] = [pushcli(@) EXCEPT !.spin = l]]
        /\ panicked' = (owner[l] = c)
    /\ UNCHANGED <<owner, ths>>

\* The xchg of acquire() finds 0.
xchg(c) ==
    LET l == cpu[c].spin IN
    /\ Busy(c) /\ owner[l] = None
    /\ owner' = [owner EXCEPT ![l] = c]
    /\ cpu' = [cpu EXCEPT ![c].spin = NoSpin, ![c].intr = IF cpu[c].frame THEN @ \cup {l} ELSE @]
    /\ UNCHANGED <<ths, panicked>>

\* release(); sleep() releases the lock of the device before ptable.lock, others after.
release(c) ==
    /\ ~Busy(c)
    /\ \E l \in (IF cpu[c].frame THEN cpu[c].intr ELSE Held(c)) :
        /\ owner' = [owner EXCEPT ![l] = None]
        /\ cpu' = [cpu EXCEPT ![c] = [popcli(cpu[c]) EXCEPT !.intr = @ \ {l}]]
        /\ panicked' = (cpu[c].if \/ cpu[c].ncli = 0)
    /\ UNCHANGED ths

--------------------------------------------------------------------------------
(* Interrupts.                                                             *)

\* An interrupt gate clears the flag; iret sets it.
Interrupt(c) ==
    /\ cpu[c].if /\ ~cpu[c].frame
    /\ cpu' = [cpu EXCEPT ![c].if = FALSE, ![c].frame = TRUE, ![c].intr = {}]
    /\ UNCHANGED <<owner, ths, panicked>>

Iret(c) ==
    /\ cpu[c].frame /\ ~Busy(c) /\ cpu[c].intr = {}
    /\ cpu' = [cpu EXCEPT ![c].if = TRUE, ![c].frame = FALSE]
    /\ UNCHANGED <<owner, ths, panicked>>

--------------------------------------------------------------------------------
(* proc.c: all that needs ptable.lock.                                     *)

HasPtable(c) == ~Busy(c) /\ owner["ptable"] = c

\* sched() from yield(), sleep() or exit(); a handler only yields.  (The first process
\* may sleep in forkret(), in iinit() and initlog().)
sched(c) ==
    LET t == cpu[c].proc
        x == cpu[c]
    IN
    /\ HasPtable(c) /\ Runs(c) /\ (x.frame => x.intr = {"ptable"})
    /\ "dev" \in Held(c) => x.frame
    /\ panicked' = (x.ncli # 1 \/ x.if)
    /\ \E state \in {"runnable", "sleeping", "unused"} :
        /\ x.frame => state = "runnable"
        /\ ths' = [ths EXCEPT ![t] = IF state = "unused" THEN Unused
                                     ELSE [@ EXCEPT !.state = state, !.intena = x.intena, !.frame = x.frame]]
    /\ cpu' = [cpu EXCEPT ![c].proc = None, ![c].frame = FALSE, ![c].intr = {}]
    /\ UNCHANGED owner

\* Mutant: intena is not saved with the process.
RestoredNot(c, t) == cpu[c].intena

\* intena of the processor after sched() returns; forkret() leaves it alone.
Restored(c, t) == IF ths[t].phase = "new" THEN cpu[c].intena ELSE ths[t].intena

\* scheduler(): a RUNNABLE process.
Swtch(c) ==
    /\ HasPtable(c) /\ ~Runs(c) /\ ~cpu[c].frame
    /\ \E t \in Thread :
        /\ ths[t].state = "runnable"
        /\ ths' = [ths EXCEPT ![t].state = "running", ![t].phase = IF @ = "new" THEN "forkret" ELSE @]
        /\ cpu' = [cpu EXCEPT ![c].proc = t, ![c].frame = ths[t].frame,
                              ![c].intr = IF ths[t].frame THEN {"ptable"} ELSE {},
                              ![c].intena = Restored(c, t)]
    /\ UNCHANGED <<owner, panicked>>

\* The top of the loop of scheduler().
sti(c) ==
    /\ ~Runs(c) /\ ~cpu[c].frame /\ ~Busy(c) /\ Held(c) = {} /\ ~cpu[c].if
    /\ cpu' = [cpu EXCEPT ![c].if = TRUE]
    /\ UNCHANGED <<owner, ths, panicked>>

InForkret(c) == Runs(c) /\ ths[cpu[c].proc].phase = "forkret"

\* A new process returns from forkret() to user space.
ForkRet(c) ==
    /\ InForkret(c) /\ ~cpu[c].frame /\ ~Busy(c) /\ Held(c) = {}
    /\ cpu' = [cpu EXCEPT ![c].if = TRUE]
    /\ ths' = [ths EXCEPT ![cpu[c].proc].phase = "old"]
    /\ UNCHANGED <<owner, panicked>>

\* fork() enters a process in the table; wakeup() makes those who sleep RUNNABLE.
fork(c) ==
    /\ HasPtable(c) /\ Runs(c) /\ ~cpu[c].frame
    /\ \E t \in Thread : ths[t].state = "unused" /\ ths' = [ths EXCEPT ![t] = New]
    /\ UNCHANGED <<cpu, owner, panicked>>

wakeup(c) ==
    /\ HasPtable(c)
    /\ \E t \in Thread : ths[t].state = "sleeping" /\ ths' = [ths EXCEPT ![t].state = "runnable"]
    /\ UNCHANGED <<cpu, owner, panicked>>

Next ==
    /\ ~panicked
    /\ \E c \in CPU : \/ acquire(c) \/ xchg(c) \/ release(c) \/ Interrupt(c) \/ Iret(c)
                      \/ sched(c) \/ Swtch(c) \/ sti(c) \/ ForkRet(c) \/ fork(c) \/ wakeup(c)

Spec == Init /\ [][Next]_spinVars

--------------------------------------------------------------------------------
(* Properties.                                                             *)

TypeOK ==
    /\ cpu \in [CPU -> [if : BOOLEAN, ncli : 0 .. 2, intena : BOOLEAN, proc : Thread \cup {None}, spin : Lock \cup {NoSpin},
                        frame : BOOLEAN, intr : SUBSET Lock]]
    /\ owner \in [Lock -> CPU \cup {None}] /\ panicked \in BOOLEAN

\* spinlock.c: "disable interrupts to avoid deadlock": while a processor has or waits for a
\* lock its interrupts are off, ncli counts these locks, and no test of acquire(), release(),
\* popcli() or sched() panics.
NeverPanics ==
    /\ ~panicked
    /\ \A c \in CPU :
        /\ cpu[c].ncli = Cardinality(Held(c)) + IF Busy(c) THEN 1 ELSE 0
        /\ cpu[c].if => cpu[c].ncli = 0

\* proc.c: "intena is a property of this kernel thread, not this CPU": a process that has
\* left forkret() and has no lock has interrupts on, and a handler off, on whatever processor it goes on.
InterruptsKept ==
    \A c \in CPU :
        Runs(c) /\ ~InForkret(c) /\ ~Busy(c) /\ Held(c) = {} => cpu[c].if = ~cpu[c].frame

\* proc.c: a process is on one processor at most.
OneProcessor ==
    /\ \A c, d \in CPU : Runs(c) /\ cpu[c].proc = cpu[d].proc => c = d
    /\ \A t \in Thread : ths[t].state = "running" <=> \E c \in CPU : cpu[c].proc = t

\* spinlock.c, sched() and scheduler(): all of it.
LocksGuarded == NeverPanics /\ InterruptsKept /\ OneProcessor
================================================================================
