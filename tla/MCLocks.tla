-------------------------------- MODULE MCLocks --------------------------------
(***************************************************************************)
(* The test-and-set lock on a memory with store buffers, or the filter     *)
(* lock with three threads on one without: a behaviour is one of the       *)
(* program that lock names.                                                *)
(***************************************************************************)
EXTENDS TasLock

VARIABLES lock, Flag, Turn, total, buffers, at, i, j, gobreak, loaded, rounds, begun, ended

filterVars == <<Flag, Turn, total, buffers, at, i, j, gobreak, loaded, rounds, begun, ended>>

allVars == <<lock, vars, filterVars>>

Filter ==
    INSTANCE FilterLock WITH NUM_THREADS <- 3, NUM_ITERS <- 1, StoreBufferSize <- 0,
        shared_resource <- total, sb <- buffers, pc <- at, reg <- loaded, iters <- rounds,
        created <- begun, joined <- ended

LocksInit == lock \in {"tas", "filter"} /\ Init /\ Filter!Init

Tas(Step) == lock = "tas" /\ Step /\ UNCHANGED <<lock, filterVars>>

Filtered(Step) == lock = "filter" /\ Step /\ UNCHANGED <<lock, vars>>

LocksNext == Tas(Next) \/ Filtered(Filter!Next)

\* The fairness of the two modules.
LocksFairness ==
    /\ \A t \in Threads : /\ WF_allVars(Tas(ThreadStep(t))) /\ WF_allVars(Tas(Drain(t)))
                          /\ WF_allVars(Tas(Create(t))) /\ WF_allVars(Tas(Join(t)))
    /\ \A t \in 1 .. 3 : /\ WF_allVars(Filtered(Filter!ThreadStep(t))) /\ WF_allVars(Filtered(Filter!Drain(t)))
                         /\ WF_allVars(Filtered(Filter!Create(t))) /\ WF_allVars(Filtered(Filter!Join(t)))

LocksSpec == LocksInit /\ [][LocksNext]_allVars /\ LocksFairness

\* Both locks let every thread through in the end, and main joins them all.
AllJoined == <>(IF lock = "tas" THEN joined = NUM_THREADS ELSE ended = 3)

\* The filter lock excludes: two threads are never between lock() and unlock().
FilterMutualExclusion == Filter!MutualExclusion

\* The filter lock implements a mutex that keeps shared_resource++ atomic.
FilterRefinement == Filter!Refinement
================================================================================
