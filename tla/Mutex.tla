-------------------------------- MODULE Mutex ---------------------------------
(***************************************************************************)
(* What the two locks of Project3_Locking promise the threads that use     *)
(* them: one holder at a time, and shared_resource++ is atomic to the      *)
(* threads that make it between lock() and unlock().                       *)
(***************************************************************************)
EXTENDS Integers

CONSTANTS Thread,   \* the threads that compete
          Nobody    \* the holder of a free lock

VARIABLES holder,   \* the thread between lock() and unlock()
          value     \* what a thread with the lock reads in shared_resource

mutexVars == <<holder, value>>

MutexInit == holder = Nobody /\ value = 0

Acquire(t) == holder = Nobody /\ holder' = t /\ UNCHANGED value

Increment(t) == holder = t /\ value' = value + 1 /\ UNCHANGED holder

Release(t) == holder = t /\ holder' = Nobody /\ UNCHANGED value

MutexNext == \E t \in Thread : Acquire(t) \/ Increment(t) \/ Release(t)

MutexSpec == MutexInit /\ [][MutexNext]_mutexVars
===============================================================================
