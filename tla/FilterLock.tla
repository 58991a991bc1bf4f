------------------------------ MODULE FilterLock ------------------------------
(***************************************************************************)
(* Project3_Locking/pthread_lock_linux_patterson.c: the N-thread Peterson  *)
(* (filter) lock over the arrays Flag and Turn, NUM_THREADS pthreads that  *)
(* each take it once, add NUM_ITERS to shared_resource and release it, and *)
(* a main that creates and joins them.                                     *)
(*                                                                         *)
(* Every load and every store of a shared variable is a step of its own:   *)
(* the scan of Flag in lock() is not atomic.  The variables are plain      *)
(* ints, so a store may wait in the store buffer of the processor that     *)
(* executes the thread; StoreBufferSize = 0 is the machine on which it     *)
(* does not (all threads on one processor, or a fence after every store).  *)
(*                                                                         *)
(* Arrays are indexed from 1 here, from 0 in the code: Flag[t] is          *)
(* Flag[idx-1] for the thread whose idx is t, Turn[l] is Turn[l-1].        *)
(***************************************************************************)
EXTENDS StoreBuffer

CONSTANTS NUM_THREADS,      \* threads main creates
          NUM_ITERS,        \* increments per thread
          StoreBufferSize   \* stores a processor may hold back

ASSUME FilterLockAssumption ==
    /\ NUM_THREADS \in Nat \ {0}
    /\ NUM_ITERS \in Nat \ {0}
    /\ StoreBufferSize \in Nat

Threads == 1 .. NUM_THREADS
Levels  == 1 .. NUM_THREADS

VARIABLES Flag,             \* Flag[t]: the level thread t has reached, 0 outside
          Turn,             \* Turn[l]: the last thread to enter level l
          shared_resource,
          sb,               \* sb[t]: the stores of t that have not reached memory
          pc,               \* where in thread_func(), lock() or unlock() t is
          i,                \* lock()'s i: the level t is working on
          j,                \* lock()'s j: the thread whose Flag t reads next
          gobreak,          \* lock()'s gobreak: the scan met no one at its level
          reg,              \* the value t loaded for shared_resource++
          iters,            \* increments t has made
          created, joined   \* main: how many threads it has created and joined

memory == <<Flag, Turn, shared_resource, sb>>
locals == <<i, j, gobreak, reg, iters>>
main   == <<created, joined>>
vars   == <<memory, pc, locals, main>>

\* Program points of a thread.
Waiting  == {"test", "scan", "decide"}       \* in the while(1) of a level
Critical == {"load", "store", "unlock"}      \* between lock() and the store of unlock()
Points   == {"idle", "flag", "turn", "done"} \cup Waiting \cup Critical

Init ==
    /\ Flag = [t \in Threads |-> 0]
    /\ Turn = [l \in Levels |-> 0]
    /\ shared_resource = 0
    /\ sb = [t \in Threads |-> <<>>]
    /\ pc = [t \in Threads |-> "idle"]
    /\ i = [t \in Threads |-> 0]
    /\ j = [t \in Threads |-> 0]
    /\ gobreak = [t \in Threads |-> TRUE]
    /\ reg = [t \in Threads |-> 0]
    /\ iters = [t \in Threads |-> 0]
    /\ created = 0
    /\ joined = 0

-------------------------------------------------------------------------------
(* Memory accesses *)

WriteMemory(loc, k, v) ==
    /\ Flag' = IF loc = "Flag" THEN [Flag EXCEPT ![k] = v] ELSE Flag
    /\ Turn' = IF loc = "Turn" THEN [Turn EXCEPT ![k] = v] ELSE Turn
    /\ shared_resource' = IF loc = "shared_resource" THEN v ELSE shared_resource

\* A store waits in the buffer, or is not held up: nothing is before it.
Store(t, loc, k, v) ==
    \/ /\ sb[t] = <<>>
       /\ WriteMemory(loc, k, v)
       /\ sb' = sb
    \/ /\ Len(sb[t]) < StoreBufferSize
       /\ sb' = [sb EXCEPT ![t] = Append(@, PendingStore(loc, k, v))]
       /\ UNCHANGED <<Flag, Turn, shared_resource>>

\* The oldest store of t reaches memory.
Drain(t) ==
    /\ sb[t] # <<>>
    /\ LET s == Head(sb[t]) IN WriteMemory(s.loc, s.k, s.val)
    /\ sb' = [sb EXCEPT ![t] = Tail(@)]
    /\ UNCHANGED <<pc, locals, main>>

LoadFlag(t, u)  == Load(sb[t], "Flag", u, Flag[u])
LoadTurn(t, l)  == Load(sb[t], "Turn", l, Turn[l])
LoadShared(t)   == Load(sb[t], "shared_resource", 0, shared_resource)

-------------------------------------------------------------------------------
(* main() *)

\* pthread_create: glibc stores threads[t-1] before the thread runs, so the
\* searchidx() of the thread finds it.
Create(t) ==
    /\ created = t - 1
    /\ created' = t
    /\ pc' = [pc EXCEPT ![t] = "flag"]
    /\ i' = [i EXCEPT ![t] = 1]
    /\ UNCHANGED <<memory, j, gobreak, reg, iters, joined>>

\* pthread_join: the stores of a thread that has exited are in memory.
Join(t) ==
    /\ created = NUM_THREADS
    /\ joined = t - 1
    /\ pc[t] = "done"
    /\ sb[t] = <<>>
    /\ joined' = t
    /\ UNCHANGED <<memory, pc, locals, created>>

-------------------------------------------------------------------------------
(* lock() *)

\* Flag[idx-1] = i
SetFlag(t) ==
    /\ pc[t] = "flag"
    /\ Store(t, "Flag", t, i[t])
    /\ pc' = [pc EXCEPT ![t] = "turn"]
    /\ UNCHANGED <<locals, main>>

\* Turn[i-1] = idx
SetTurn(t) ==
    /\ pc[t] = "turn"
    /\ Store(t, "Turn", i[t], t)
    /\ pc' = [pc EXCEPT ![t] = "test"]
    /\ UNCHANGED <<locals, main>>

\* Mutant: for(i=1; i<=NUM_THREADS+1; i++).
LeaveLevelLate(t) ==
    /\ i' = [i EXCEPT ![t] = @ + 1]
    /\ pc' = [pc EXCEPT ![t] = IF i[t] = NUM_THREADS + 1 THEN "load" ELSE "flag"]

\* Mutant: for(i=1; i<=NUM_THREADS-2; i++).
LeaveLevelEarly(t) ==
    /\ i' = [i EXCEPT ![t] = @ + 1]
    /\ pc' = [pc EXCEPT ![t] = IF i[t] >= NUM_THREADS - 2 THEN "load" ELSE "flag"]

\* The for loop's i++, and lock() returns after the last level.
LeaveLevel(t) ==
    /\ i' = [i EXCEPT ![t] = @ + 1]
    /\ pc' = [pc EXCEPT ![t] = IF i[t] = NUM_THREADS THEN "load" ELSE "flag"]

\* if(Turn[i-1] != idx) break; otherwise start the scan
Test(t) ==
    /\ pc[t] = "test"
    /\ \/ /\ LoadTurn(t, i[t]) # t
          /\ LeaveLevel(t)
          /\ j' = j
       \/ /\ LoadTurn(t, i[t]) = t
          /\ pc' = [pc EXCEPT ![t] = "scan"]
          /\ j' = [j EXCEPT ![t] = 1]
          /\ i' = i
    /\ UNCHANGED <<memory, gobreak, reg, iters, main>>

\* Mutant: if(Flag[j-1] > i).
ScanStrict(t) ==
    /\ pc[t] = "scan"
    /\ gobreak' = [gobreak EXCEPT ![t] =
                      @ /\ (j[t] = t \/ LoadFlag(t, j[t]) <= i[t])]
    /\ j' = [j EXCEPT ![t] = @ + 1]
    /\ pc' = [pc EXCEPT ![t] = IF j[t] = NUM_THREADS THEN "decide" ELSE "scan"]
    /\ UNCHANGED <<memory, i, reg, iters, main>>

\* One iteration of the for loop over j: one load of Flag[j-1].
Scan(t) ==
    /\ pc[t] = "scan"
    /\ gobreak' = [gobreak EXCEPT ![t] =
                      @ /\ (j[t] = t \/ LoadFlag(t, j[t]) < i[t])]
    /\ j' = [j EXCEPT ![t] = @ + 1]
    /\ pc' = [pc EXCEPT ![t] = IF j[t] = NUM_THREADS THEN "decide" ELSE "scan"]
    /\ UNCHANGED <<memory, i, reg, iters, main>>

\* if(gobreak==1) break; gobreak = 1
Decide(t) ==
    /\ pc[t] = "decide"
    /\ \/ /\ gobreak[t]
          /\ LeaveLevel(t)
          /\ UNCHANGED gobreak
       \/ /\ ~gobreak[t]
          /\ gobreak' = [gobreak EXCEPT ![t] = TRUE]
          /\ pc' = [pc EXCEPT ![t] = "test"]
          /\ i' = i
    /\ UNCHANGED <<memory, j, reg, iters, main>>

-------------------------------------------------------------------------------
(* thread_func() between lock() and unlock(): shared_resource++ is a load    *)
(* and a store.                                                              *)

LoadResource(t) ==
    /\ pc[t] = "load"
    /\ reg' = [reg EXCEPT ![t] = LoadShared(t)]
    /\ pc' = [pc EXCEPT ![t] = "store"]
    /\ UNCHANGED <<memory, i, j, gobreak, iters, main>>

StoreResource(t) ==
    /\ pc[t] = "store"
    /\ Store(t, "shared_resource", 0, reg[t] + 1)
    /\ iters' = [iters EXCEPT ![t] = @ + 1]
    /\ pc' = [pc EXCEPT ![t] = IF iters[t] + 1 = NUM_ITERS THEN "unlock" ELSE "load"]
    /\ UNCHANGED <<i, j, gobreak, reg, main>>

\* Mutant: unlock() leaves Flag[idx-1].
UnlockKeepsFlag(t) ==
    /\ pc[t] = "unlock"
    /\ pc' = [pc EXCEPT ![t] = "done"]
    /\ UNCHANGED <<memory, locals, main>>

\* unlock(): Flag[idx-1] = 0, then pthread_exit
Unlock(t) ==
    /\ pc[t] = "unlock"
    /\ Store(t, "Flag", t, 0)
    /\ pc' = [pc EXCEPT ![t] = "done"]
    /\ UNCHANGED <<locals, main>>

-------------------------------------------------------------------------------

ThreadStep(t) ==
    \/ SetFlag(t) \/ SetTurn(t) \/ Test(t) \/ Scan(t) \/ Decide(t)
    \/ LoadResource(t) \/ StoreResource(t) \/ Unlock(t)

Next == \E t \in Threads : Create(t) \/ Join(t) \/ ThreadStep(t) \/ Drain(t)

\* The host runs main and every thread, and a processor does not hold a store
\* back for ever.
Fairness ==
    \A t \in Threads : /\ WF_vars(ThreadStep(t))
                       /\ WF_vars(Drain(t))
                       /\ WF_vars(Create(t))
                       /\ WF_vars(Join(t))

Spec == Init /\ [][Next]_vars

FairSpec == Spec /\ Fairness

-------------------------------------------------------------------------------
(* Properties *)

TypeOK ==
    /\ Flag \in [Threads -> 0 .. NUM_THREADS]
    /\ Turn \in [Levels -> 0 .. NUM_THREADS]
    /\ shared_resource \in Nat
    /\ \A t \in Threads : Len(sb[t]) <= StoreBufferSize
    /\ pc \in [Threads -> Points]
    /\ i \in [Threads -> 0 .. NUM_THREADS + 1]
    /\ j \in [Threads -> 0 .. NUM_THREADS + 1]
    /\ gobreak \in [Threads -> BOOLEAN]
    /\ reg \in [Threads -> Nat]
    /\ iters \in [Threads -> 0 .. NUM_ITERS]
    /\ created \in 0 .. NUM_THREADS
    /\ joined \in 0 .. NUM_THREADS

\* No two threads are between the return of lock() and the end of unlock()
\* at once, although each scans the Flag array one element at a time.
MutualExclusion ==
    \A t, u \in Threads :
        pc[t] \in Critical /\ pc[u] \in Critical => t = u

(* The inductive invariant behind MutualExclusion, for a memory without      *)
(* store buffers.                                                            *)

Competing(t) == pc[t] \in {"flag", "turn"} \cup Waiting \cup Critical

\* t has left level l and not yet released the lock.
Past(t, l) == Competing(t) /\ l < i[t]

\* t is in the waiting loop of level l.
At(t, l) == pc[t] \in Waiting /\ i[t] = l

\* The thread named by Turn[l] is itself waiting at level l.
Held(l) == Turn[l] \in Threads /\ At(Turn[l], l)

\* u has not entered level l, or has still to put its name in Turn[l].
Behind(u, l) == Flag[u] < l \/ (pc[u] = "turn" /\ i[u] = l)

\* The program point of a thread determines its Flag, and bounds its locals.
LocalInv ==
    \A t \in Threads :
        /\ pc[t] \in {"idle", "done"} => Flag[t] = 0
        /\ pc[t] = "flag" => i[t] \in Levels /\ Flag[t] = i[t] - 1
        /\ pc[t] \in {"turn"} \cup Waiting => i[t] \in Levels /\ Flag[t] = i[t]
        /\ pc[t] \in Critical => i[t] = NUM_THREADS + 1 /\ Flag[t] = NUM_THREADS
        /\ pc[t] = "scan" => j[t] \in Threads
        /\ pc[t] = "decide" => j[t] = NUM_THREADS + 1
        /\ pc[t] \notin {"unlock", "done"} => iters[t] < NUM_ITERS
        /\ t > created => pc[t] = "idle"

\* Someone waits at every level a thread has passed, unless that thread is
\* alone at or beyond it; and the last to arrive at a level is waiting there
\* as long as anyone is.
LevelInv ==
    \A l \in Levels, t \in Threads :
        /\ At(t, l) => Held(l)
        /\ Past(t, l) => Held(l) \/ \A u \in Threads \ {t} : Behind(u, l)

\* A thread u that t's unfinished scan of Flag has met below t's level is
\* still below it, or has named another thread in Turn since.
ScanInv ==
    \A t, u \in Threads :
        /\ pc[t] \in {"scan", "decide"}
        /\ gobreak[t]
        /\ u # t
        /\ u < j[t]
        => Behind(u, i[t]) \/ Turn[i[t]] # t

\* What holds between lock()'s steps: every level a thread has passed is held
\* by a waiting thread or empty below it, however the scans interleave.
FilterInv == LocalInv /\ LevelInv /\ ScanInv

\* main gets to its printf: every thread that competes for the lock passes
\* every level, takes it and releases it.
Termination == <>(joined = NUM_THREADS)

\* Without store buffers the lock implements a mutex that keeps
\* shared_resource++ atomic: no increment made under the lock is lost.
holder == IF \E t \in Threads : pc[t] \in Critical
          THEN CHOOSE t \in Threads : pc[t] \in Critical
          ELSE 0

Abstract == INSTANCE Mutex WITH Thread <- Threads, Nobody <- 0, value <- shared_resource

Refinement == Abstract!MutexSpec
===============================================================================
