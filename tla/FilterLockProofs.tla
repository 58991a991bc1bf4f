--------------------------- MODULE FilterLockProofs ---------------------------
(***************************************************************************)
(* Mutual exclusion of the filter lock for every number of threads, on a   *)
(* memory without store buffers, and that it implements a mutex there.     *)
(***************************************************************************)
EXTENDS FilterLock, FiniteSetTheorems, TLAPS

\* With StoreBufferSize = 0 no store is ever held back.
NoBuffer == sb = [t \in Threads |-> <<>>]

\* The inductive invariant: types, empty buffers and FilterInv.
IInv == TypeOK /\ NoBuffer /\ FilterInv

USE FilterLockAssumption

-------------------------------------------------------------------------------
(* Memory without store buffers *)

\* A load by a thread with an empty buffer returns what memory holds.
LEMMA LoadIsMemory ==
    ASSUME NEW loc, NEW k, NEW m
    PROVE  Load(<<>>, loc, k, m) = m
BY DEF Load, Pending

\* On that machine lock() and unlock() read memory itself.
LEMMA DirectLoads ==
    ASSUME NoBuffer, NEW t \in Threads
    PROVE  /\ \A u \in Threads : LoadFlag(t, u) = Flag[u]
           /\ \A l \in Levels : LoadTurn(t, l) = Turn[l]
           /\ LoadShared(t) = shared_resource
<1>1. sb[t] = <<>>
  BY DEF NoBuffer
<1>2. QED
  BY <1>1, LoadIsMemory DEF LoadFlag, LoadTurn, LoadShared

\* ... and a store writes memory itself.
LEMMA DirectStores ==
    ASSUME StoreBufferSize = 0, NoBuffer, NEW t \in Threads,
           NEW loc, NEW k, NEW v, Store(t, loc, k, v)
    PROVE  WriteMemory(loc, k, v) /\ sb' = sb
<1>1. Len(sb[t]) = 0
  BY DEF NoBuffer
<1>2. QED
  BY <1>1 DEF Store

\* No store waits to be drained.
LEMMA NoDrain ==
    ASSUME NoBuffer, NEW t \in Threads
    PROVE  ~Drain(t)
BY DEF NoBuffer, Drain

-------------------------------------------------------------------------------
(* The invariant holds initially, and every action of a thread or of main    *)
(* preserves it.                                                             *)

\* At the start no thread is past level 0, so no level needs a waiter.
LEMMA InitIInv == Init => IInv
BY DEF Init, IInv, TypeOK, NoBuffer, FilterInv, LocalInv, LevelInv, ScanInv,
       Points, Waiting, Critical, Past, At, Held, Behind, Competing

\* Flag[idx-1] = i leaves the thread below the level it enters until it has
\* written Turn.
LEMMA SetFlagStep ==
    ASSUME IInv, StoreBufferSize = 0, NEW t \in Threads, SetFlag(t)
    PROVE  IInv'
<1> USE DEF IInv, FilterInv
<1>1. /\ pc[t] = "flag"
      /\ pc' = [pc EXCEPT ![t] = "turn"]
      /\ Flag' = [Flag EXCEPT ![t] = i[t]]
      /\ UNCHANGED <<Turn, shared_resource, sb, i, j, gobreak, reg, iters, created, joined>>
  BY DirectStores DEF SetFlag, WriteMemory, locals, main
<1>2. i[t] \in Levels /\ Flag[t] = i[t] - 1
  BY <1>1 DEF LocalInv
<1>3. TypeOK'
  BY <1>1, <1>2, SMTT(40) DEF TypeOK, Points, Waiting, Critical, Levels
<1>4. NoBuffer'
  BY <1>1 DEF NoBuffer
<1>5. LocalInv'
  BY <1>1, <1>2 DEF LocalInv, TypeOK, Points, Waiting, Critical
<1>6. \A u \in Threads, l \in Levels : Behind(u, l) => Behind(u, l)'
  BY <1>1, <1>2, SMTT(40) DEF Behind, TypeOK, Levels
<1>7. \A u \in Threads, l \in Levels : /\ At(u, l)' <=> At(u, l)
                                       /\ Past(u, l)' <=> Past(u, l)
  BY <1>1 DEF At, Past, Competing, TypeOK, Waiting, Critical
<1>8. \A l \in Levels : Held(l)' <=> Held(l)
  BY <1>1, <1>7 DEF Held
<1>9. LevelInv'
  BY <1>6, <1>7, <1>8 DEF LevelInv
<1>10. ScanInv'
  BY <1>1, <1>6 DEF ScanInv, LocalInv, TypeOK, Waiting
<1> QED
  BY <1>3, <1>4, <1>5, <1>9, <1>10

\* Turn[i-1] = idx makes the thread the one that waits at its level.
LEMMA SetTurnStep ==
    ASSUME IInv, StoreBufferSize = 0, NEW t \in Threads, SetTurn(t)
    PROVE  IInv'
<1> USE DEF IInv, FilterInv
<1>1. /\ pc[t] = "turn"
      /\ pc' = [pc EXCEPT ![t] = "test"]
      /\ Turn' = [Turn EXCEPT ![i[t]] = t]
      /\ UNCHANGED <<Flag, shared_resource, sb, i, j, gobreak, reg, iters, created, joined>>
  BY DirectStores DEF SetTurn, WriteMemory, locals, main
<1>2. PICK l0 \in Levels : l0 = i[t] /\ Flag[t] = l0
  BY <1>1 DEF LocalInv
<1>3. TypeOK'
  <2>1. t \in 0 .. NUM_THREADS
    BY DEF Threads
  <2> QED
    BY <1>1, <1>2, <2>1 DEF TypeOK, Points, Waiting, Critical
<1>4. NoBuffer'
  BY <1>1 DEF NoBuffer
<1>5. LocalInv'
  BY <1>1, <1>2 DEF LocalInv, TypeOK, Points, Waiting, Critical
<1>6. \A u \in Threads, l \in Levels :
         (u # t \/ l # l0) => /\ Behind(u, l) <=> Behind(u, l)'
                              /\ At(u, l) <=> At(u, l)'
  BY <1>1, <1>2 DEF Behind, At, TypeOK, Waiting
<1>7. \A u \in Threads, l \in Levels : Past(u, l)' <=> Past(u, l)
  BY <1>1 DEF Past, Competing, TypeOK, Waiting, Critical
<1>8. Held(l0)'
  BY <1>1, <1>2 DEF Held, At, TypeOK, Waiting
<1>9. \A l \in Levels : l # l0 => (Held(l)' <=> Held(l))
  BY <1>1, <1>2 DEF Held, At, TypeOK, Waiting
<1>10. LevelInv'
  <2> SUFFICES ASSUME NEW l \in Levels, NEW u \in Threads
               PROVE  /\ At(u, l)' => Held(l)'
                      /\ Past(u, l)' => Held(l)' \/ \A w \in Threads \ {u} : Behind(w, l)'
    BY DEF LevelInv
  <2>1. CASE l = l0
    BY <1>8, <2>1
  <2>2. CASE l # l0
    <3>1. \A w \in Threads : (Behind(w, l)' <=> Behind(w, l)) /\ (At(w, l)' <=> At(w, l))
      BY <1>6, <2>2
    <3> QED
      BY <1>7, <1>9, <2>2, <3>1 DEF LevelInv
  <2> QED
    BY <2>1, <2>2
<1>11. ScanInv'
  <2> SUFFICES ASSUME NEW u \in Threads, NEW w \in Threads, NEW l \in Levels,
                      pc'[u] \in {"scan", "decide"}, gobreak'[u], w # u, w < j'[u],
                      l = i[u], u # t
               PROVE  Behind(w, l)' \/ Turn'[l] # u
    BY <1>1, SMTT(40) DEF ScanInv, LocalInv, TypeOK, Waiting
  <2>1. CASE l = l0
    BY <1>1, <1>2, <2>1 DEF TypeOK
  <2>2. CASE l # l0
    <3>1. Turn'[l] = Turn[l]
      BY <1>1, <1>2, <2>2 DEF TypeOK
    <3>2. Behind(w, l) \/ Turn[l] # u
      BY <1>1 DEF ScanInv, TypeOK
    <3> QED
      BY <1>6, <2>2, <3>1, <3>2
  <2> QED
    BY <2>1, <2>2
<1> QED
  BY <1>3, <1>4, <1>5, <1>10, <1>11

\* Leaving level i[t] is safe when another thread is held there, or when every
\* other thread is below it.
LEMMA LeaveLevelStep ==
    ASSUME IInv, NEW t \in Threads, pc[t] \in Waiting,
           \/ Turn[i[t]] # t
           \/ \A u \in Threads \ {t} : Behind(u, i[t]),
           LeaveLevel(t),
           UNCHANGED <<memory, j, gobreak, reg, iters, main>>
    PROVE  IInv'
<1> USE DEF IInv, FilterInv
<1> DEFINE l0 == i[t]
<1>1. /\ i' = [i EXCEPT ![t] = l0 + 1]
      /\ pc' = [pc EXCEPT ![t] = IF l0 = NUM_THREADS THEN "load" ELSE "flag"]
      /\ UNCHANGED <<Flag, Turn, shared_resource, sb, j, gobreak, reg, iters, created, joined>>
  BY DEF LeaveLevel, memory, main
<1>2. l0 \in Levels /\ Flag[t] = l0 /\ At(t, l0)
  BY DEF LocalInv, At
<1>3. TypeOK'
  BY <1>1, <1>2, SMTT(40) DEF TypeOK, Points, Waiting, Critical, Levels
<1>4. NoBuffer'
  BY <1>1 DEF NoBuffer
<1>5. LocalInv'
  BY <1>1, <1>2, SMTT(40) DEF LocalInv, TypeOK, Points, Waiting, Critical, Levels
<1>6. \A u \in Threads, l \in Levels :
         /\ Behind(u, l) <=> Behind(u, l)'
         /\ u # t => (At(u, l)' <=> At(u, l)) /\ (Past(u, l)' <=> Past(u, l))
  BY <1>1, <1>2 DEF Behind, At, Past, Competing, TypeOK, Waiting
<1>7. \A l \in Levels : /\ ~At(t, l)'
                        /\ Past(t, l)' <=> (Past(t, l) \/ l = l0)
  BY <1>1, <1>2 DEF At, Past, Competing, TypeOK, Waiting, Critical, Levels
<1>8. \A l \in Levels : Held(l) /\ Turn[l] # t => Held(l)'
  BY <1>1, <1>6 DEF Held
<1>9. \A l \in Levels : Held(l) /\ l # l0 => Turn[l] # t
  BY <1>2 DEF Held, At
<1>10. Held(l0)
  BY <1>2 DEF LevelInv
<1>11. \/ Turn[l0] # t
       \/ \A u \in Threads \ {t} : Behind(u, l0) /\ ~At(u, l0) /\ ~Past(u, l0)
  BY <1>2, SMTT(40) DEF Behind, At, Past, Competing, LocalInv, TypeOK, Waiting, Critical, Levels
<1>13. LevelInv'
  <2> SUFFICES ASSUME NEW l \in Levels, NEW u \in Threads
               PROVE  /\ At(u, l)' => Held(l)'
                      /\ Past(u, l)' => Held(l)' \/ \A w \in Threads \ {u} : Behind(w, l)'
    BY DEF LevelInv
  <2>1. CASE l # l0
    BY <1>6, <1>7, <1>8, <1>9, <2>1 DEF LevelInv
  <2>2. CASE l = l0 /\ Turn[l0] # t
    BY <1>2, <1>8, <1>10, <2>2
  <2>3. CASE l = l0 /\ Turn[l0] = t
    BY <1>6, <1>7, <1>11, <2>3
  <2> QED
    BY <2>1, <2>2, <2>3
<1>14. ScanInv'
  BY <1>1, <1>2, <1>6, SMTT(40) DEF ScanInv, LocalInv, TypeOK, Waiting
<1> QED
  BY <1>3, <1>4, <1>5, <1>13, <1>14

\* A step inside the waiting loop of a level moves no one between levels.
LEMMA SameLevels ==
    ASSUME TypeOK, LevelInv, NEW t \in Threads, NEW p \in Waiting,
           pc[t] \in Waiting, pc' = [pc EXCEPT ![t] = p],
           UNCHANGED <<Flag, Turn, i>>
    PROVE  LevelInv'
<1>1. \A u \in Threads, l \in Levels :
         /\ At(u, l)' <=> At(u, l)
         /\ Past(u, l)' <=> Past(u, l)
         /\ Behind(u, l)' <=> Behind(u, l)
  BY DEF At, Past, Behind, Competing, TypeOK, Waiting, Critical
<1>2. \A l \in Levels : Held(l)' <=> Held(l)
  BY <1>1 DEF Held
<1> QED
  BY <1>1, <1>2 DEF LevelInv

\* Turn is read once; if it still names the thread a scan begins.
LEMMA TestStep ==
    ASSUME IInv, NEW t \in Threads, Test(t)
    PROVE  IInv'
<1> USE DEF IInv, FilterInv
<1>1. pc[t] = "test" /\ pc[t] \in Waiting
  BY DEF Test, Waiting
<1>2. i[t] \in Levels /\ LoadTurn(t, i[t]) = Turn[i[t]]
  BY <1>1, DirectLoads DEF LocalInv
<1>3. CASE Turn[i[t]] # t
  <2>1. LeaveLevel(t) /\ UNCHANGED <<memory, j, gobreak, reg, iters, main>>
    BY <1>2, <1>3 DEF Test
  <2> QED
    BY <1>1, <1>3, <2>1, LeaveLevelStep
<1>4. CASE Turn[i[t]] = t
  <2>1. /\ pc' = [pc EXCEPT ![t] = "scan"]
        /\ j' = [j EXCEPT ![t] = 1]
        /\ UNCHANGED <<Flag, Turn, shared_resource, sb, i, gobreak, reg, iters, created, joined>>
    BY <1>2, <1>4 DEF Test, memory, main
  <2>2. TypeOK'
    <3>1. 1 \in 0 .. NUM_THREADS + 1
      OBVIOUS
    <3> QED
      BY <2>1, <3>1 DEF TypeOK, Points, Waiting
  <2>3. NoBuffer'
    BY <2>1 DEF NoBuffer
  <2>4. LocalInv'
    <3>1. 1 \in Threads
      BY DEF Threads
    <3> QED
      BY <1>1, <2>1, <3>1 DEF LocalInv, TypeOK, Waiting, Critical
  <2>5. LevelInv'
    <3>1. "scan" \in Waiting
      BY DEF Waiting
    <3> QED
      BY <1>1, <2>1, <3>1, SameLevels
  <2>6. \A u \in Threads, l \in Levels : Behind(u, l)' <=> Behind(u, l)
    BY <1>1, <2>1 DEF Behind, TypeOK
  <2>7. ScanInv'
    <3> SUFFICES ASSUME NEW u \in Threads, NEW w \in Threads, NEW l \in Levels,
                        pc'[u] \in {"scan", "decide"}, gobreak'[u], w # u, w < j'[u],
                        l = i[u]
                 PROVE  Behind(w, l)' \/ Turn'[l] # u
      BY <2>1, <2>4 DEF ScanInv, LocalInv, Waiting
    <3>1. u # t
      BY <2>1 DEF TypeOK, Threads
    <3> QED
      BY <2>1, <2>6, <3>1 DEF ScanInv, TypeOK
  <2> QED
    BY <2>2, <2>3, <2>4, <2>5, <2>7
<1> QED
  BY <1>3, <1>4

\* A scan that meets thread j[t] below the level adds it to those behind; one
\* that meets it at the level clears gobreak.
LEMMA ScanStep ==
    ASSUME IInv, NEW t \in Threads, Scan(t)
    PROVE  IInv'
<1> USE DEF IInv, FilterInv
<1>1. /\ pc[t] = "scan" /\ pc[t] \in Waiting
      /\ j' = [j EXCEPT ![t] = @ + 1]
      /\ pc' = [pc EXCEPT ![t] = IF j[t] = NUM_THREADS THEN "decide" ELSE "scan"]
      /\ UNCHANGED <<Flag, Turn, shared_resource, sb, i, reg, iters, created, joined>>
  BY DEF Scan, Waiting, memory, main
<1>2. i[t] \in Levels /\ j[t] \in Threads
  BY <1>1 DEF LocalInv
<1>3. gobreak' = [gobreak EXCEPT ![t] = @ /\ (j[t] = t \/ Flag[j[t]] < i[t])]
  BY <1>2, DirectLoads DEF Scan
<1>4. /\ gobreak' \in [Threads -> BOOLEAN]
      /\ \A u \in Threads : u # t => (gobreak'[u] <=> gobreak[u])
      /\ gobreak'[t] => gobreak[t] /\ (j[t] = t \/ Flag[j[t]] < i[t])
  BY <1>3, Zenon DEF TypeOK
<1>5. TypeOK'
  <2>1. j[t] + 1 \in 0 .. NUM_THREADS + 1
    BY <1>2 DEF Threads
  <2> QED
    BY <1>1, <1>4, <2>1 DEF TypeOK, Points, Waiting
<1>6. NoBuffer'
  BY <1>1 DEF NoBuffer
<1>7. LocalInv'
  <2>1. j[t] # NUM_THREADS => j[t] + 1 \in Threads
    BY <1>2 DEF Threads
  <2> QED
    BY <1>1, <2>1 DEF LocalInv, TypeOK, Waiting, Critical
<1>8. LevelInv'
  <2>1. "scan" \in Waiting /\ "decide" \in Waiting
    BY DEF Waiting
  <2> QED
    BY <1>1, <2>1, SameLevels
<1>9. \A u \in Threads, l \in Levels : Behind(u, l)' <=> Behind(u, l)
  BY <1>1 DEF Behind, TypeOK
<1>10. ScanInv'
  <2> SUFFICES ASSUME NEW u \in Threads, NEW w \in Threads, NEW l \in Levels,
                      pc'[u] \in {"scan", "decide"}, gobreak'[u], w # u, w < j'[u],
                      l = i[u]
               PROVE  Behind(w, l)' \/ Turn'[l] # u
    BY <1>1, <1>7 DEF ScanInv, LocalInv, Waiting
  <2>1. CASE u # t
    BY <1>1, <1>4, <1>9, <2>1 DEF ScanInv, TypeOK
  <2>2. CASE u = t /\ w # j[t]
    <3>1. j'[t] = j[t] + 1
      BY <1>1 DEF TypeOK
    <3>2. w < j[t]
      BY <1>2, <2>2, <3>1 DEF Threads
    <3> QED
      BY <1>1, <1>4, <1>9, <2>2, <3>2 DEF ScanInv
  <2>3. CASE u = t /\ w = j[t]
    BY <1>4, <1>9, <2>3 DEF Behind
  <2> QED
    BY <2>1, <2>2, <2>3
<1> QED
  BY <1>5, <1>6, <1>7, <1>8, <1>10

\* A scan that met no one at the level leaves it: everyone else is behind, or
\* another thread has taken Turn since.
LEMMA DecideStep ==
    ASSUME IInv, NEW t \in Threads, Decide(t)
    PROVE  IInv'
<1> USE DEF IInv, FilterInv
<1>1. pc[t] = "decide" /\ pc[t] \in Waiting
  BY DEF Decide, Waiting
<1>2. i[t] \in Levels /\ j[t] = NUM_THREADS + 1
  BY <1>1 DEF LocalInv
<1>3. CASE gobreak[t]
  <2>1. LeaveLevel(t) /\ UNCHANGED <<memory, j, gobreak, reg, iters, main>>
    BY <1>3 DEF Decide
  <2>2. \A u \in Threads \ {t} : u < j[t]
    BY <1>2 DEF Threads
  <2>3. Turn[i[t]] # t \/ \A u \in Threads \ {t} : Behind(u, i[t])
    BY <1>1, <1>3, <2>2 DEF ScanInv
  <2> QED
    BY <1>1, <2>1, <2>3, LeaveLevelStep
<1>4. CASE ~gobreak[t]
  <2>1. /\ pc' = [pc EXCEPT ![t] = "test"]
        /\ gobreak' = [gobreak EXCEPT ![t] = TRUE]
        /\ UNCHANGED <<Flag, Turn, shared_resource, sb, i, j, reg, iters, created, joined>>
    BY <1>4 DEF Decide, memory, main
  <2>2. TypeOK'
    BY <2>1 DEF TypeOK, Points, Waiting
  <2>3. NoBuffer'
    BY <2>1 DEF NoBuffer
  <2>4. LocalInv'
    BY <1>1, <2>1 DEF LocalInv, TypeOK, Waiting, Critical
  <2>5. LevelInv'
    <3>1. "test" \in Waiting
      BY DEF Waiting
    <3> QED
      BY <1>1, <2>1, <3>1, SameLevels
  <2>6. \A u \in Threads, l \in Levels : Behind(u, l)' <=> Behind(u, l)
    BY <1>1, <2>1 DEF Behind, TypeOK
  <2>7. ScanInv'
    <3> SUFFICES ASSUME NEW u \in Threads, NEW w \in Threads, NEW l \in Levels,
                        pc'[u] \in {"scan", "decide"}, gobreak'[u], w # u, w < j'[u],
                        l = i[u]
                 PROVE  Behind(w, l)' \/ Turn'[l] # u
      BY <2>1, <2>4 DEF ScanInv, LocalInv, Waiting
    <3>1. u # t
      BY <2>1 DEF TypeOK
    <3> QED
      BY <2>1, <2>6, <3>1 DEF ScanInv, TypeOK
  <2> QED
    BY <2>2, <2>3, <2>4, <2>5, <2>7
<1> QED
  BY <1>3, <1>4

\* The thread with the lock moves no one between levels while it keeps it.
LEMMA SameCritical ==
    ASSUME IInv, NEW t \in Threads, NEW p \in Critical,
           pc[t] \in Critical, pc' = [pc EXCEPT ![t] = p],
           UNCHANGED <<Flag, Turn, i, j, gobreak>>
    PROVE  LevelInv' /\ ScanInv'
<1> USE DEF IInv, FilterInv
<1>1. \A u \in Threads, l \in Levels :
         /\ At(u, l)' <=> At(u, l)
         /\ Past(u, l)' <=> Past(u, l)
         /\ Behind(u, l)' <=> Behind(u, l)
  BY DEF At, Past, Behind, Competing, TypeOK, Waiting, Critical
<1>2. \A l \in Levels : Held(l)' <=> Held(l)
  BY <1>1 DEF Held
<1>3. LevelInv'
  BY <1>1, <1>2 DEF LevelInv
<1>4. ScanInv'
  <2> SUFFICES ASSUME NEW u \in Threads, NEW w \in Threads, NEW l \in Levels,
                      pc'[u] \in {"scan", "decide"}, gobreak'[u], w # u, w < j'[u],
                      l = i[u]
               PROVE  Behind(w, l)' \/ Turn'[l] # u
    BY SMTT(40) DEF ScanInv, LocalInv, TypeOK, Waiting, Critical
  <2> QED
    BY <1>1 DEF ScanInv, TypeOK, Critical
<1> QED
  BY <1>3, <1>4

\* Reading shared_resource touches neither Flag nor Turn.
LEMMA LoadResourceStep ==
    ASSUME IInv, NEW t \in Threads, LoadResource(t)
    PROVE  IInv'
<1> USE DEF IInv, FilterInv
<1>1. /\ pc[t] = "load" /\ pc[t] \in Critical
      /\ pc' = [pc EXCEPT ![t] = "store"]
      /\ reg' = [reg EXCEPT ![t] = shared_resource]
      /\ UNCHANGED <<Flag, Turn, shared_resource, sb, i, j, gobreak, iters, created, joined>>
  BY DirectLoads DEF LoadResource, Critical, memory, main
<1>2. TypeOK'
  BY <1>1 DEF TypeOK, Points, Critical
<1>3. NoBuffer'
  BY <1>1 DEF NoBuffer
<1>4. LocalInv'
  BY <1>1 DEF LocalInv, TypeOK, Waiting, Critical
<1>5. "store" \in Critical
  BY DEF Critical
<1> QED
  BY <1>1, <1>2, <1>3, <1>4, <1>5, SameCritical

\* Writing shared_resource back touches neither Flag nor Turn, and the thread
\* stays in its critical section until its last iteration.
LEMMA StoreResourceStep ==
    ASSUME IInv, StoreBufferSize = 0, NEW t \in Threads, StoreResource(t)
    PROVE  IInv'
<1> USE DEF IInv, FilterInv
<1> DEFINE p == IF iters[t] + 1 = NUM_ITERS THEN "unlock" ELSE "load"
<1>1. /\ pc[t] = "store" /\ pc[t] \in Critical
      /\ pc' = [pc EXCEPT ![t] = p]
      /\ iters' = [iters EXCEPT ![t] = @ + 1]
      /\ shared_resource' = reg[t] + 1
      /\ UNCHANGED <<Flag, Turn, sb, i, j, gobreak, reg, created, joined>>
  BY DirectStores DEF StoreResource, WriteMemory, Critical, main
<1>2. iters[t] \in 0 .. NUM_ITERS /\ iters[t] < NUM_ITERS
  BY <1>1 DEF LocalInv, TypeOK
<1>3. p \in Critical
  BY DEF Critical
<1>4. TypeOK'
  BY <1>1, <1>2, <1>3 DEF TypeOK, Points
<1>5. NoBuffer'
  BY <1>1 DEF NoBuffer
<1>6. LocalInv'
  BY <1>1, <1>2 DEF LocalInv, TypeOK, Waiting, Critical
<1> QED
  BY <1>1, <1>3, <1>4, <1>5, <1>6, SameCritical

\* unlock() leaves everyone who has passed a level as safe as before: the
\* thread that leaves was not waiting at any.
LEMMA UnlockStep ==
    ASSUME IInv, StoreBufferSize = 0, NEW t \in Threads, Unlock(t)
    PROVE  IInv'
<1> USE DEF IInv, FilterInv
<1>1. /\ pc[t] = "unlock"
      /\ pc' = [pc EXCEPT ![t] = "done"]
      /\ Flag' = [Flag EXCEPT ![t] = 0]
      /\ UNCHANGED <<Turn, shared_resource, sb, i, j, gobreak, reg, iters, created, joined>>
  BY DirectStores DEF Unlock, WriteMemory, locals, main
<1>2. TypeOK'
  BY <1>1 DEF TypeOK, Points
<1>3. NoBuffer'
  BY <1>1 DEF NoBuffer
<1>4. LocalInv'
  BY <1>1 DEF LocalInv, TypeOK, Waiting, Critical
<1>5. \A u \in Threads, l \in Levels :
         /\ At(u, l)' <=> At(u, l)
         /\ Past(u, l)' => Past(u, l)
         /\ Behind(u, l) => Behind(u, l)'
  BY <1>1 DEF At, Past, Behind, Competing, TypeOK, Waiting, Critical, Levels
<1>6. \A l \in Levels : Held(l)' <=> Held(l)
  BY <1>1, <1>5 DEF Held
<1>7. LevelInv'
  BY <1>5, <1>6 DEF LevelInv
<1>8. ScanInv'
  <2> SUFFICES ASSUME NEW u \in Threads, NEW w \in Threads, NEW l \in Levels,
                      pc'[u] \in {"scan", "decide"}, gobreak'[u], w # u, w < j'[u],
                      l = i[u]
               PROVE  Behind(w, l)' \/ Turn'[l] # u
    BY <1>1, SMTT(40) DEF ScanInv, LocalInv, TypeOK, Waiting
  <2> QED
    BY <1>1, <1>5 DEF ScanInv, TypeOK
<1> QED
  BY <1>2, <1>3, <1>4, <1>7, <1>8

\* main() starts a thread below every level: it waits nowhere and has passed no
\* one.
LEMMA CreateStep ==
    ASSUME IInv, NEW t \in Threads, Create(t)
    PROVE  IInv'
<1> USE DEF IInv, FilterInv
<1>1. /\ created = t - 1
      /\ created' = t
      /\ pc' = [pc EXCEPT ![t] = "flag"]
      /\ i' = [i EXCEPT ![t] = 1]
      /\ UNCHANGED <<Flag, Turn, shared_resource, sb, j, gobreak, reg, iters, joined>>
  BY DEF Create, memory
<1>2. t \in 0 .. NUM_THREADS /\ t > created /\ 1 \in 0 .. NUM_THREADS + 1 /\ 1 \in Levels
  BY <1>1 DEF Threads, Levels
<1>3. pc[t] = "idle" /\ Flag[t] = 0
  BY <1>2 DEF LocalInv
<1>4. TypeOK'
  BY <1>1, <1>2 DEF TypeOK, Points
<1>5. NoBuffer'
  BY <1>1 DEF NoBuffer
<1>6. LocalInv'
  <2>1. \A u \in Threads : u > created' => u # t /\ u > created
    BY <1>1 DEF Threads
  <2> QED
    BY <1>1, <1>2, <1>3, <2>1, SMTT(40) DEF LocalInv, TypeOK, Waiting, Critical
<1>7. \A u \in Threads, l \in Levels :
         /\ At(u, l)' <=> At(u, l)
         /\ Past(u, l)' => Past(u, l)
         /\ Behind(u, l) => Behind(u, l)'
  BY <1>1, <1>3, SMTT(40) DEF At, Past, Behind, Competing, TypeOK, Waiting, Critical, Levels
<1>8. \A l \in Levels : Held(l)' <=> Held(l)
  BY <1>1, <1>7 DEF Held
<1>9. LevelInv'
  BY <1>7, <1>8 DEF LevelInv
<1>10. ScanInv'
  <2> SUFFICES ASSUME NEW u \in Threads, NEW w \in Threads, NEW l \in Levels,
                      pc'[u] \in {"scan", "decide"}, gobreak'[u], w # u, w < j'[u],
                      l = i[u], u # t, i'[u] = i[u]
               PROVE  Behind(w, l)' \/ Turn'[l] # u
    BY <1>1, SMTT(40) DEF ScanInv, LocalInv, TypeOK, Waiting
  <2> QED
    BY <1>1, <1>7 DEF ScanInv, TypeOK
<1> QED
  BY <1>4, <1>5, <1>6, <1>9, <1>10

\* What pthread_join and a stuttering step leave alone is all that the
\* invariant speaks of.
LEMMA JoinStep ==
    ASSUME IInv, UNCHANGED <<memory, pc, locals, created>>, joined' \in 0 .. NUM_THREADS
    PROVE  IInv'
<1> USE DEF IInv, FilterInv
<1>1. UNCHANGED <<Flag, Turn, shared_resource, sb, pc, i, j, gobreak, reg, iters, created>>
  BY DEF memory, locals
<1>2. TypeOK'
  BY <1>1 DEF TypeOK
<1>3. NoBuffer' /\ LocalInv'
  BY <1>1 DEF NoBuffer, LocalInv
<1>4. LevelInv' /\ ScanInv'
  BY <1>1 DEF LevelInv, ScanInv, Held, Past, At, Behind, Competing
<1> QED
  BY <1>2, <1>3, <1>4

-------------------------------------------------------------------------------
(* Theorems *)

\* On a memory without store buffers every behaviour of the program keeps
\* IInv.
THEOREM InvariantHolds ==
    ASSUME StoreBufferSize = 0
    PROVE  Spec => []IInv
<1>1. IInv /\ [Next]_vars => IInv'
  <2> SUFFICES ASSUME IInv, [Next]_vars PROVE IInv'
    OBVIOUS
  <2>1. CASE UNCHANGED vars
    <3>1. UNCHANGED <<memory, pc, locals, created>> /\ joined' = joined
      BY <2>1 DEF vars, main
    <3>2. joined' \in 0 .. NUM_THREADS
      BY <3>1 DEF IInv, TypeOK
    <3> QED
      BY <3>1, <3>2, JoinStep
  <2>2. ASSUME NEW t \in Threads, Create(t) \/ Join(t) \/ ThreadStep(t) \/ Drain(t)
        PROVE  IInv'
    <3>1. CASE Create(t)
      BY <3>1, CreateStep
    <3>2. CASE Join(t)
      <4>1. UNCHANGED <<memory, pc, locals, created>> /\ joined' = t
        BY <3>2 DEF Join
      <4>2. joined' \in 0 .. NUM_THREADS
        BY <4>1 DEF Threads
      <4> QED
        BY <4>1, <4>2, JoinStep
    <3>3. CASE ThreadStep(t)
      BY <3>3, SetFlagStep, SetTurnStep, TestStep, ScanStep, DecideStep,
         LoadResourceStep, StoreResourceStep, UnlockStep DEF ThreadStep
    <3>4. CASE Drain(t)
      BY <3>4, NoDrain DEF IInv
    <3> QED
      BY <2>2, <3>1, <3>2, <3>3, <3>4
  <2> QED
    BY <2>1, <2>2 DEF Next
<1> QED
  BY <1>1, InitIInv, PTL DEF Spec

\* The types of lock()'s variables and indices: Flag and Turn are never read
\* or written outside their bounds.
THEOREM TypeCorrect ==
    ASSUME StoreBufferSize = 0
    PROVE  Spec => []TypeOK
<1>1. IInv => TypeOK
  BY DEF IInv
<1> QED
  BY <1>1, InvariantHolds, PTL

\* Two threads past the last level cannot both be there: no level would be
\* empty behind either, so at every level some other thread would wait, and
\* there are as many levels as threads.
LEMMA FilterExcludes ==
    ASSUME IInv
    PROVE  MutualExclusion
<1> USE DEF IInv, FilterInv
<1> SUFFICES ASSUME NEW t \in Threads, NEW u \in Threads,
                    pc[t] \in Critical, pc[u] \in Critical, t # u
             PROVE  FALSE
  BY DEF MutualExclusion
<1>1. \A l \in Levels : Past(t, l) /\ ~Behind(u, l)
  BY DEF Past, Behind, Competing, LocalInv, Critical, Levels
<1>2. \A l \in Levels : Held(l)
  BY <1>1 DEF LevelInv
<1> DEFINE f == [l \in Levels |-> Turn[l]]
           S == Threads \ {t}
<1>3. f \in [Levels -> S]
  BY <1>2 DEF Held, At, Waiting, Critical
<1>4. \A k, l \in Levels : f[k] = f[l] => k = l
  BY <1>2 DEF Held, At
<1>5. /\ IsFiniteSet(Levels) /\ Cardinality(Levels) = NUM_THREADS
      /\ IsFiniteSet(Threads) /\ Cardinality(Threads) = NUM_THREADS
  <2>1. /\ IsFiniteSet(1 .. NUM_THREADS)
        /\ Cardinality(1 .. NUM_THREADS) = IF 1 > NUM_THREADS THEN 0 ELSE NUM_THREADS - 1 + 1
    BY FS_Interval
  <2> QED
    BY <2>1 DEF Levels, Threads
<1>6. IsFiniteSet(S) /\ Cardinality(S) = NUM_THREADS - 1
  BY <1>5, FS_RemoveElement
<1>7. Cardinality(Levels) > Cardinality(S)
  BY <1>5, <1>6
<1> HIDE DEF f, S
<1>8. \E k, l \in Levels : k # l /\ f[k] = f[l]
  BY <1>3, <1>5, <1>6, <1>7, FS_PigeonHole
<1> QED
  BY <1>4, <1>8

\* lock() admits one thread at a time, for every number of threads, on a
\* memory without store buffers.
THEOREM MutualExclusionHolds ==
    ASSUME StoreBufferSize = 0
    PROVE  Spec => []MutualExclusion
BY InvariantHolds, FilterExcludes, PTL

-------------------------------------------------------------------------------
(* The lock implements a mutex                                               *)

\* What a thread has loaded for shared_resource++ is what memory still holds
\* when it stores the sum.
Fresh == \A t \in Threads : pc[t] = "store" => reg[t] = shared_resource

\* The holder of the mutex is the thread between lock() and unlock().
LEMMA HolderIs ==
    ASSUME MutualExclusion, NEW t \in Threads, pc[t] \in Critical
    PROVE  holder = t
BY DEF holder, MutualExclusion

\* ... and nobody holds it when there is none.
LEMMA HolderNobody ==
    ASSUME \A t \in Threads : pc[t] \notin Critical
    PROVE  holder = 0
BY DEF holder

\* A step that lets nobody in or out leaves the holder alone.
LEMMA SameHolder ==
    ASSUME \A u \in Threads : pc'[u] \in Critical <=> pc[u] \in Critical
    PROVE  holder' = holder
<1>1. (\E t \in Threads : pc'[t] \in Critical) <=> \E t \in Threads : pc[t] \in Critical
  OBVIOUS
<1>2. (CHOOSE t \in Threads : pc'[t] \in Critical) = CHOOSE t \in Threads : pc[t] \in Critical
  OBVIOUS
<1> QED
  BY <1>1, <1>2 DEF holder

\* A step of lock() that is not its last, of main, or a load: it lets nobody in
\* or out and leaves shared_resource alone.
Outside ==
    /\ shared_resource' = shared_resource
    /\ \A u \in Threads : pc'[u] \in Critical <=> pc[u] \in Critical

\* What a step of a thread or of main does to the lock: it stays out or in,
\* enters, adds one, or leaves.
LEMMA StepKind ==
    ASSUME StoreBufferSize = 0, IInv, NEW t \in Threads,
           Create(t) \/ Join(t) \/ ThreadStep(t) \/ Drain(t)
    PROVE  \/ /\ Outside
              /\ \/ reg' = reg /\ \A u \in Threads : pc'[u] = "store" => pc[u] = "store"
                 \/ /\ pc[t] = "load" /\ pc' = [pc EXCEPT ![t] = "store"]
                    /\ reg' = [reg EXCEPT ![t] = shared_resource]
           \/ /\ pc[t] \notin Critical /\ pc' = [pc EXCEPT ![t] = "load"]
              /\ shared_resource' = shared_resource /\ reg' = reg
           \/ /\ pc[t] = "store" /\ shared_resource' = reg[t] + 1
              /\ \E p \in {"load", "unlock"} : pc' = [pc EXCEPT ![t] = p]
           \/ /\ pc[t] = "unlock" /\ pc' = [pc EXCEPT ![t] = "done"]
              /\ shared_resource' = shared_resource /\ reg' = reg
<1> USE DEF IInv
<1>1. CASE Create(t)
  <2>1. pc[t] = "idle"
    BY <1>1 DEF Create, FilterInv, LocalInv, Threads, TypeOK
  <2> QED
    BY <1>1, <2>1 DEF Create, memory, Outside, TypeOK, Critical
<1>2. CASE Join(t)
  BY <1>2 DEF Join, memory, locals, Outside
<1>3. CASE Drain(t)
  BY <1>3, NoDrain
<1>4. CASE SetFlag(t)
  <2>1. WriteMemory("Flag", t, i[t])
    BY <1>4, DirectStores DEF SetFlag
  <2> QED
    BY <1>4, <2>1 DEF SetFlag, WriteMemory, locals, Outside, TypeOK, Critical
<1>5. CASE SetTurn(t)
  <2>1. WriteMemory("Turn", i[t], t)
    BY <1>5, DirectStores DEF SetTurn
  <2> QED
    BY <1>5, <2>1 DEF SetTurn, WriteMemory, locals, Outside, TypeOK, Critical
<1>6. CASE Test(t)
  BY <1>6 DEF Test, LeaveLevel, memory, Outside, TypeOK, Critical
<1>7. CASE Scan(t)
  BY <1>7 DEF Scan, memory, Outside, TypeOK, Critical
<1>8. CASE Decide(t)
  BY <1>8 DEF Decide, LeaveLevel, memory, Outside, TypeOK, Critical
<1>9. CASE LoadResource(t)
  BY <1>9, DirectLoads DEF LoadResource, memory, Outside, TypeOK, Critical
<1>10. CASE StoreResource(t)
  <2>1. WriteMemory("shared_resource", 0, reg[t] + 1)
    BY <1>10, DirectStores DEF StoreResource
  <2> QED
    BY <1>10, <2>1 DEF StoreResource, WriteMemory
<1>11. CASE Unlock(t)
  <2>1. WriteMemory("Flag", t, 0)
    BY <1>11, DirectStores DEF Unlock
  <2> QED
    BY <1>11, <2>1 DEF Unlock, WriteMemory, locals
<1> QED
  BY <1>1, <1>2, <1>3, <1>4, <1>5, <1>6, <1>7, <1>8, <1>9, <1>10, <1>11 DEF ThreadStep

\* Nobody else stores between the load and the store of a thread that has the
\* lock.
LEMMA FreshStep ==
    ASSUME StoreBufferSize = 0, IInv, MutualExclusion, Fresh, [Next]_vars
    PROVE  Fresh'
<1>1. CASE UNCHANGED vars
  BY <1>1 DEF Fresh, vars, memory, locals
<1>2. ASSUME NEW t \in Threads, Create(t) \/ Join(t) \/ ThreadStep(t) \/ Drain(t)
      PROVE  Fresh'
  <2>1. \A u \in Threads : pc[t] \in Critical /\ pc[u] = "store" => u = t
    BY DEF MutualExclusion, Critical
  <2> QED
    BY <1>2, <2>1, StepKind DEF Fresh, Outside, IInv, TypeOK, Critical
<1> QED
  BY <1>1, <1>2 DEF Next

\* Every step of the program is one of the mutex, or none.
LEMMA StepRefines ==
    ASSUME StoreBufferSize = 0, IInv, MutualExclusion, MutualExclusion', Fresh, [Next]_vars
    PROVE  [Abstract!MutexNext]_(Abstract!mutexVars)
<1> USE DEF Abstract!MutexNext, Abstract!mutexVars
<1>1. CASE UNCHANGED vars
  BY <1>1, SameHolder DEF vars, memory
<1>2. ASSUME NEW t \in Threads, Create(t) \/ Join(t) \/ ThreadStep(t) \/ Drain(t)
      PROVE  [Abstract!MutexNext]_(Abstract!mutexVars)
  <2>1. CASE Outside
    BY <2>1, SameHolder DEF Outside
  <2>2. CASE /\ pc[t] \notin Critical /\ pc' = [pc EXCEPT ![t] = "load"]
             /\ shared_resource' = shared_resource
    <3>1. pc'[t] \in Critical /\ \A u \in Threads : u # t => pc'[u] = pc[u]
      BY <2>2 DEF IInv, TypeOK, Critical
    <3>2. \A u \in Threads : pc[u] \notin Critical
      BY <2>2, <3>1 DEF MutualExclusion
    <3>3. holder = 0 /\ holder' = t
      BY <3>1, <3>2, HolderNobody DEF holder, MutualExclusion
    <3> QED
      BY <2>2, <3>3 DEF Abstract!Acquire
  <2>3. CASE /\ pc[t] = "store" /\ shared_resource' = reg[t] + 1
             /\ \E p \in {"load", "unlock"} : pc' = [pc EXCEPT ![t] = p]
    <3>1. \A u \in Threads : pc'[u] \in Critical <=> pc[u] \in Critical
      BY <2>3 DEF IInv, TypeOK, Critical
    <3>2. holder = t /\ holder' = holder
      BY <2>3, <3>1, HolderIs, SameHolder DEF Critical
    <3> QED
      BY <2>3, <3>2 DEF Fresh, Abstract!Increment
  <2>4. CASE /\ pc[t] = "unlock" /\ pc' = [pc EXCEPT ![t] = "done"]
             /\ shared_resource' = shared_resource
    <3>1. \A u \in Threads : pc'[u] \notin Critical
      BY <2>4 DEF MutualExclusion, IInv, TypeOK, Critical
    <3>2. holder = t /\ holder' = 0
      BY <2>4, <3>1, HolderIs DEF Critical, holder
    <3> QED
      BY <2>4, <3>2 DEF Abstract!Release
  <2> QED
    BY <1>2, <2>1, <2>2, <2>3, <2>4, StepKind
<1> QED
  BY <1>1, <1>2 DEF Next

\* For every number of threads the filter lock implements a mutex under which
\* shared_resource++ is atomic, on a memory without store buffers.
THEOREM RefinementHolds ==
    ASSUME StoreBufferSize = 0
    PROVE  Spec => Refinement
<1>1. Init => Abstract!MutexInit
  <2>1. Init => \A t \in Threads : pc[t] \notin Critical
    BY DEF Init, Critical
  <2> QED
    BY <2>1, HolderNobody DEF Init, Abstract!MutexInit
<1>2. Init => Fresh
  BY DEF Init, Fresh
<1>3. IInv /\ MutualExclusion /\ Fresh /\ [Next]_vars => Fresh'
  BY FreshStep
<1>4. IInv /\ MutualExclusion /\ MutualExclusion' /\ Fresh /\ [Next]_vars
        => [Abstract!MutexNext]_(Abstract!mutexVars)
  BY StepRefines
<1> QED
  BY <1>1, <1>2, <1>3, <1>4, InvariantHolds, MutualExclusionHolds, PTL
     DEF Spec, Refinement, Abstract!MutexSpec
===============================================================================
