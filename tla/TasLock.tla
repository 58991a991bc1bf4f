-------------------------------- MODULE TasLock --------------------------------
(***************************************************************************)
(* Project3_Locking/pthread_lock_linux_atomic.c: a spin lock on one word,  *)
(* taken with __sync_lock_test_and_set and released with                   *)
(* __sync_lock_release.                                                    *)
(*                                                                         *)
(* On x86 the first is an xchg, which waits for the processor's store      *)
(* buffer to empty and then reads and writes memory in one step.  The      *)
(* second is an ordinary store, which enters the buffer like the stores of *)
(* shared_resource++ before it: the lock is free when that store drains,   *)
(* not when unlock() returns.                                              *)
(***************************************************************************)
EXTENDS StoreBuffer

CONSTANTS NUM_THREADS,      \* threads main creates
          NUM_ITERS,        \* increments per thread
          StoreBufferSize   \* stores a processor may hold back

ASSUME TasLockAssumption ==
    /\ NUM_THREADS \in Nat \ {0}
    /\ NUM_ITERS \in Nat \ {0}
    /\ StoreBufferSize \in Nat

Threads == 1 .. NUM_THREADS

VARIABLES lk, shared_resource,
          sb,               \* sb[t]: the stores of t that have not reached memory
          pc,               \* where in thread_func() t is
          reg,              \* the value t loaded for shared_resource++
          iters,            \* increments t has made
          created, joined   \* main: how many threads it has created and joined

memory == <<lk, shared_resource, sb>>
vars   == <<memory, pc, reg, iters, created, joined>>

Critical == {"load", "store", "unlock"}      \* lock() has returned, unlock() has not run
Points   == {"idle", "lock", "done"} \cup Critical

Init ==
    /\ lk = 0
    /\ shared_resource = 0
    /\ sb = [t \in Threads |-> <<>>]
    /\ pc = [t \in Threads |-> "idle"]
    /\ reg = [t \in Threads |-> 0]
    /\ iters = [t \in Threads |-> 0]
    /\ created = 0
    /\ joined = 0

-------------------------------------------------------------------------------
(* Memory accesses *)

WriteMemory(loc, v) ==
    /\ lk' = IF loc = "lk" THEN v ELSE lk
    /\ shared_resource' = IF loc = "lk" THEN shared_resource ELSE v

\* A store waits in the buffer, or is not held up: nothing is before it.
Store(t, loc, v) ==
    \/ /\ sb[t] = <<>>
       /\ WriteMemory(loc, v)
       /\ sb' = sb
    \/ /\ Len(sb[t]) < StoreBufferSize
       /\ sb' = [sb EXCEPT ![t] = Append(@, PendingStore(loc, 0, v))]
       /\ UNCHANGED <<lk, shared_resource>>

\* The oldest store of t reaches memory.
Drain(t) ==
    /\ sb[t] # <<>>
    /\ WriteMemory(Head(sb[t]).loc, Head(sb[t]).val)
    /\ sb' = [sb EXCEPT ![t] = Tail(@)]
    /\ UNCHANGED <<pc, reg, iters, created, joined>>

LoadShared(t) == Load(sb[t], "shared_resource", 0, shared_resource)

-------------------------------------------------------------------------------
(* main() *)

Create(t) ==
    /\ created = t - 1
    /\ created' = t
    /\ pc' = [pc EXCEPT ![t] = "lock"]
    /\ UNCHANGED <<memory, reg, iters, joined>>

\* pthread_join: the stores of a thread that has exited are in memory.
Join(t) ==
    /\ created = NUM_THREADS
    /\ joined = t - 1
    /\ pc[t] = "done"
    /\ sb[t] = <<>>
    /\ joined' = t
    /\ UNCHANGED <<memory, pc, reg, iters, created>>

-------------------------------------------------------------------------------
(* thread_func() *)

\* Mutant: while(lk) continue;, without the store.
TestOnly(t) ==
    /\ pc[t] = "lock"
    /\ sb[t] = <<>>
    /\ lk = 0
    /\ pc' = [pc EXCEPT ![t] = "load"]
    /\ UNCHANGED <<memory, reg, iters, created, joined>>

\* Mutant: the lock counts the threads that try it.
TestAndIncrement(t) ==
    /\ pc[t] = "lock"
    /\ sb[t] = <<>>
    /\ lk' = lk + 1
    /\ pc' = [pc EXCEPT ![t] = IF lk = 0 THEN "load" ELSE "lock"]
    /\ UNCHANGED <<shared_resource, sb, reg, iters, created, joined>>

\* One iteration of lock()'s while: the loop ends when the old value was 0.
TestAndSet(t) ==
    /\ pc[t] = "lock"
    /\ sb[t] = <<>>
    /\ lk' = 1
    /\ pc' = [pc EXCEPT ![t] = IF lk = 0 THEN "load" ELSE "lock"]
    /\ UNCHANGED <<shared_resource, sb, reg, iters, created, joined>>

LoadResource(t) ==
    /\ pc[t] = "load"
    /\ reg' = [reg EXCEPT ![t] = LoadShared(t)]
    /\ pc' = [pc EXCEPT ![t] = "store"]
    /\ UNCHANGED <<memory, iters, created, joined>>

StoreResource(t) ==
    /\ pc[t] = "store"
    /\ Store(t, "shared_resource", reg[t] + 1)
    /\ iters' = [iters EXCEPT ![t] = @ + 1]
    /\ pc' = [pc EXCEPT ![t] = IF iters[t] + 1 = NUM_ITERS THEN "unlock" ELSE "load"]
    /\ UNCHANGED <<reg, created, joined>>

\* Mutant: unlock() forgets the release.
UnlockDropped(t) ==
    /\ pc[t] = "unlock"
    /\ pc' = [pc EXCEPT ![t] = "done"]
    /\ UNCHANGED <<memory, reg, iters, created, joined>>

\* Mutant: the release is visible before the stores made under the lock.
UnlockUnordered(t) ==
    /\ pc[t] = "unlock"
    /\ lk' = 0
    /\ pc' = [pc EXCEPT ![t] = "done"]
    /\ UNCHANGED <<shared_resource, sb, reg, iters, created, joined>>

\* unlock(), then pthread_exit
Unlock(t) ==
    /\ pc[t] = "unlock"
    /\ Store(t, "lk", 0)
    /\ pc' = [pc EXCEPT ![t] = "done"]
    /\ UNCHANGED <<reg, iters, created, joined>>

-------------------------------------------------------------------------------

ThreadStep(t) ==
    TestAndSet(t) \/ LoadResource(t) \/ StoreResource(t) \/ Unlock(t)

Next == \E t \in Threads : Create(t) \/ Join(t) \/ ThreadStep(t) \/ Drain(t)

\* The host runs main and every thread, and a processor does not hold a store
\* back for ever.  Every thread takes the lock once, so that is enough: when
\* the others are done the xchg of a spinning thread finds 0.
Fairness ==
    \A t \in Threads : /\ WF_vars(ThreadStep(t))
                       /\ WF_vars(Drain(t))
                       /\ WF_vars(Create(t))
                       /\ WF_vars(Join(t))

Spec == Init /\ [][Next]_vars

FairSpec == Spec /\ Fairness

-------------------------------------------------------------------------------
(* Properties *)

TypeOK ==
    /\ lk \in {0, 1}
    /\ shared_resource \in Nat
    /\ sb \in [Threads -> Seq([loc : {"lk", "shared_resource"}, k : {0}, val : Nat])]
    /\ \A t \in Threads : Len(sb[t]) <= StoreBufferSize
    /\ pc \in [Threads -> Points]
    /\ reg \in [Threads -> Nat]
    /\ iters \in [Threads -> Nat]
    /\ created \in 0 .. NUM_THREADS
    /\ joined \in 0 .. NUM_THREADS

\* t has taken the lock and its release has not reached memory.
Owner(t) == pc[t] \in Critical \/ sb[t] # <<>>

\* The lock word is 1 exactly while one thread owns it, and the store that
\* frees it is the last one in the owner's buffer: the increments made under
\* the lock reach memory before any other processor can see it free.
LockInv ==
    /\ \A t, u \in Threads : Owner(t) /\ Owner(u) => t = u
    /\ lk = 1 <=> \E t \in Threads : Owner(t)
    /\ \A t \in Threads : \A n \in DOMAIN sb[t] :
          /\ sb[t][n].loc = "lk" <=> pc[t] = "done" /\ n = Len(sb[t])
          /\ sb[t][n].loc = "lk" => sb[t][n].val = 0

\* No two threads are between the return of lock() and the store of unlock()
\* at once, whatever the store buffers hold back.
MutualExclusion ==
    \A t, u \in Threads :
        pc[t] \in Critical /\ pc[u] \in Critical => t = u

\* main gets to its printf.
Termination == <>(joined = NUM_THREADS)

\* The lock implements a mutex that keeps shared_resource++ atomic, store
\* buffers included: the holder is the thread whose release is still to reach
\* memory, and the value is what that thread would read.
holder == IF \E t \in Threads : Owner(t)
          THEN CHOOSE t \in Threads : Owner(t)
          ELSE 0
value == IF holder = 0 THEN shared_resource ELSE LoadShared(holder)

Abstract == INSTANCE Mutex WITH Thread <- Threads, Nobody <- 0

Refinement == Abstract!MutexSpec
===============================================================================
