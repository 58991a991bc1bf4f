---------------------------- MODULE TasLockProofs -----------------------------
(***************************************************************************)
(* The user-level programs and the kernel of Project3.                     *)
(* The test-and-set lock: mutual exclusion for every number of threads and *)
(* every size of the store buffers, and that it implements a mutex.        *)
(* The threads of the kernel (Lwp), on one processor: types, stacks,       *)
(* thread_join(), the ends of exit() and exec(), and that no entry of the  *)
(* thread table is lost without a cause.                                   *)
(***************************************************************************)
EXTENDS TasLock, FiniteSetTheorems, WellFoundedInduction, TLAPS

\* A thread that main has not created has not run, and one that has never had
\* the lock has stored nothing.
NotStarted ==
    \A t \in Threads : /\ t > created => pc[t] = "idle"
                       /\ pc[t] \in {"idle", "lock"} => sb[t] = <<>>

\* The inductive invariant.
IInv == TypeOK /\ NotStarted /\ LockInv

USE TasLockAssumption

-------------------------------------------------------------------------------
(* Sequences *)

\* The entries of a buffer.
LEMMA Entries ==
    ASSUME NEW S, NEW q \in Seq(S)
    PROVE  /\ Len(q) \in Nat /\ DOMAIN q = 1 .. Len(q)
           /\ \A n \in DOMAIN q : q[n] \in S
OBVIOUS

\* A buffer is empty when it has no entries.
LEMMA EmptyLen ==
    ASSUME NEW S, NEW q \in Seq(S)
    PROVE  q = <<>> <=> Len(q) = 0
OBVIOUS

\* What a store adds to a buffer.
LEMMA AppendEntries ==
    ASSUME NEW S, NEW q \in Seq(S), NEW e \in S
    PROVE  /\ Append(q, e) \in Seq(S)
           /\ Len(Append(q, e)) = Len(q) + 1 /\ Len(q) \in Nat
           /\ DOMAIN Append(q, e) = 1 .. Len(Append(q, e)) /\ DOMAIN q = 1 .. Len(q)
           /\ Append(q, e)[Len(Append(q, e))] = e
           /\ \A n \in DOMAIN q : Append(q, e)[n] = q[n]
           /\ Append(q, e) # <<>>
OBVIOUS

\* What is left of a buffer when its oldest entry drains.
LEMMA TailEntries ==
    ASSUME NEW S, NEW q \in Seq(S), q # <<>>
    PROVE  /\ Head(q) = q[1] /\ 1 \in DOMAIN q
           /\ Tail(q) \in Seq(S)
           /\ Len(Tail(q)) = Len(q) - 1
           /\ \A n \in DOMAIN Tail(q) : n \in Nat /\ n + 1 \in DOMAIN q /\ Tail(q)[n] = q[n + 1]
           /\ Len(q) = 1 => Tail(q) = <<>>
           /\ Len(q) # 1 => Tail(q) # <<>>
<1>1. /\ Head(q) = q[1] /\ 1 \in DOMAIN q
      /\ Tail(q) \in Seq(S) /\ Len(Tail(q)) = Len(q) - 1 /\ Len(q) \in Nat
  OBVIOUS
<1>2. \A n \in DOMAIN Tail(q) : n \in Nat /\ n + 1 \in DOMAIN q /\ Tail(q)[n] = q[n + 1]
  OBVIOUS
<1>3. PICK r : r = Tail(q)
  OBVIOUS
<1>4. r \in Seq(S) /\ Len(r) = Len(q) - 1
  BY <1>1, <1>3
<1>5. (Len(q) = 1 => r = <<>>) /\ (Len(q) # 1 => r # <<>>)
  BY <1>1, <1>4, EmptyLen
<1> QED
  BY <1>1, <1>2, <1>3, <1>5

-------------------------------------------------------------------------------

\* main starts with the lock free and nothing pending.
LEMMA InitIInv == Init => IInv
<1> SUFFICES ASSUME Init PROVE IInv
  OBVIOUS
<1>1. \A t \in Threads : sb[t] = <<>> /\ ~Owner(t)
  BY DEF Init, Owner, Critical
<1>2. TypeOK
  BY <1>1 DEF Init, TypeOK, Points
<1>3. LockInv
  BY <1>1 DEF Init, LockInv
<1>4. NotStarted
  BY DEF Init, NotStarted
<1> QED
  BY <1>2, <1>3, <1>4 DEF IInv

\* A step that leaves lk, the buffers and everyone's ownership alone keeps
\* LockInv.
LEMMA SameOwner ==
    ASSUME IInv, NEW t \in Threads, NEW p \in Points,
           pc' = [pc EXCEPT ![t] = p], UNCHANGED <<lk, sb>>,
           pc[t] \in Critical <=> p \in Critical,
           pc[t] # "done", p # "done"
    PROVE  LockInv'
<1> USE DEF IInv
<1>1. \A u \in Threads : /\ Owner(u)' <=> Owner(u)
                         /\ pc'[u] = "done" <=> pc[u] = "done"
  BY DEF Owner, TypeOK
<1> QED
  BY <1>1 DEF LockInv

\* pthread_create starts a thread that owns nothing.
LEMMA CreateStep ==
    ASSUME IInv, NEW t \in Threads, Create(t)
    PROVE  IInv'
<1> USE DEF IInv
<1>1. /\ pc' = [pc EXCEPT ![t] = "lock"] /\ created' = t /\ created = t - 1
      /\ UNCHANGED <<lk, shared_resource, sb, reg, iters, joined>>
  BY DEF Create, memory
<1>2. pc[t] = "idle"
  BY <1>1 DEF NotStarted, Threads
<1>3. "lock" \in Points /\ "lock" \notin Critical /\ pc[t] \notin Critical
  BY <1>2 DEF Points, Critical
<1>4. TypeOK'
  <2>1. t \in 0 .. NUM_THREADS
    BY DEF Threads
  <2> QED
    BY <1>1, <1>3, <2>1 DEF TypeOK
<1>5. LockInv'
  BY <1>1, <1>2, <1>3, SameOwner
<1>6. NotStarted'
  <2>1. \A u \in Threads : u > created' => u # t /\ u > created
    BY <1>1 DEF Threads
  <2> QED
    BY <1>1, <1>2, <2>1 DEF NotStarted, TypeOK
<1> QED
  BY <1>4, <1>5, <1>6

\* The xchg of a thread that finds 0 makes it the only owner.
LEMMA TestAndSetStep ==
    ASSUME IInv, NEW t \in Threads, TestAndSet(t)
    PROVE  IInv'
<1> USE DEF IInv
<1> DEFINE p == IF lk = 0 THEN "load" ELSE "lock"
<1>1. /\ pc[t] = "lock" /\ sb[t] = <<>>
      /\ lk' = 1 /\ pc' = [pc EXCEPT ![t] = p]
      /\ UNCHANGED <<shared_resource, sb, reg, iters, created, joined>>
  BY DEF TestAndSet
<1>2. TypeOK'
  BY <1>1 DEF TypeOK, Points, Critical
<1>3. NotStarted'
  BY <1>1 DEF NotStarted, TypeOK
<1>4. CASE lk = 1
  <2>1. p = "lock" /\ p \in Points /\ p \notin Critical /\ pc[t] \notin Critical
    BY <1>1, <1>4 DEF Points, Critical
  <2>2. LockInv'
    BY <1>1, <1>4, <2>1, SameOwner
  <2> QED
    BY <1>2, <1>3, <2>2
<1>5. CASE lk = 0
  <2>1. \A u \in Threads : ~Owner(u)
    BY <1>5 DEF LockInv
  <2>2. \A u \in Threads : /\ Owner(u)' <=> u = t
                           /\ pc'[u] = "done" <=> pc[u] = "done"
    BY <1>1, <1>5, <2>1 DEF Owner, TypeOK, Critical
  <2>3. LockInv'
    BY <1>1, <2>2 DEF LockInv
  <2> QED
    BY <1>2, <1>3, <2>3
<1> QED
  BY <1>4, <1>5 DEF TypeOK

\* What an owner reads in shared_resource is its last store, if that is still
\* pending: nothing else is in its buffer before unlock().
LEMMA OwnerReads ==
    ASSUME IInv, NEW t \in Threads, pc[t] \in Critical
    PROVE  /\ sb[t] = <<>> => LoadShared(t) = shared_resource
           /\ sb[t] # <<>> => LoadShared(t) = sb[t][Len(sb[t])].val
           /\ LoadShared(t) \in Nat
<1> USE DEF IInv
<1> DEFINE b == sb[t]
           own == Pending(b, "shared_resource", 0)
<1>1. b \in Seq([loc : {"lk", "shared_resource"}, k : {0}, val : Nat])
  BY DEF TypeOK
<1>2. \A n \in DOMAIN b : b[n].loc = "shared_resource" /\ b[n].k = 0 /\ b[n].val \in Nat
  <2>1. \A n \in DOMAIN b : b[n] \in [loc : {"lk", "shared_resource"}, k : {0}, val : Nat]
    BY <1>1, Entries
  <2>2. \A n \in DOMAIN b : b[n].loc # "lk"
    BY DEF LockInv, Critical
  <2> QED
    BY <2>1, <2>2
<1>3. own = 1 .. Len(b) /\ Len(b) \in Nat
  BY <1>1, <1>2 DEF Pending
<1>4. CASE b = <<>>
  BY <1>3, <1>4 DEF LoadShared, Load, TypeOK
<1>5. CASE b # <<>>
  <2>1. Len(b) \in own /\ \A m \in own : m <= Len(b)
    BY <1>1, <1>3, <1>5
  <2>2. (CHOOSE n \in own : \A m \in own : m <= n) = Len(b)
    BY <1>3, <2>1
  <2>3. LoadShared(t) = b[Len(b)].val
    BY <2>1, <2>2 DEF LoadShared, Load
  <2> QED
    BY <1>2, <1>3, <1>5, <2>1, <2>3
<1> QED
  BY <1>4, <1>5

\* A load changes no ownership.
LEMMA LoadResourceStep ==
    ASSUME IInv, NEW t \in Threads, LoadResource(t)
    PROVE  IInv'
<1> USE DEF IInv
<1>1. /\ pc[t] = "load"
      /\ pc' = [pc EXCEPT ![t] = "store"]
      /\ reg' = [reg EXCEPT ![t] = LoadShared(t)]
      /\ UNCHANGED <<lk, shared_resource, sb, iters, created, joined>>
  BY DEF LoadResource, memory
<1>2. LoadShared(t) \in Nat
  BY <1>1, OwnerReads DEF Critical
<1>3. TypeOK'
  BY <1>1, <1>2 DEF TypeOK, Points, Critical
<1>4. NotStarted'
  BY <1>1 DEF NotStarted, TypeOK
<1>5. LockInv'
  BY <1>1, SameOwner DEF Points, Critical
<1> QED
  BY <1>3, <1>4, <1>5

\* A store by the owner, to memory or to its buffer, leaves it the owner.
LEMMA StoreResourceStep ==
    ASSUME IInv, NEW t \in Threads, StoreResource(t)
    PROVE  IInv'
<1> USE DEF IInv
<1> DEFINE p == IF iters[t] + 1 = NUM_ITERS THEN "unlock" ELSE "load"
           s == PendingStore("shared_resource", 0, reg[t] + 1)
<1>1. /\ pc[t] = "store" /\ pc' = [pc EXCEPT ![t] = p]
      /\ iters' = [iters EXCEPT ![t] = @ + 1]
      /\ Store(t, "shared_resource", reg[t] + 1)
      /\ UNCHANGED <<reg, created, joined>>
  BY DEF StoreResource
<1>2. p \in Points /\ p \in Critical /\ p # "done" /\ pc[t] \in Critical
  BY <1>1 DEF Points, Critical
<1>3. NotStarted'
  BY <1>1, <1>2 DEF NotStarted, TypeOK, Store, Critical
<1>4. CASE UNCHANGED sb /\ WriteMemory("shared_resource", reg[t] + 1)
  <2>1. lk' = lk /\ shared_resource' = reg[t] + 1
    BY <1>4 DEF WriteMemory
  <2>2. TypeOK'
    BY <1>1, <1>2, <1>4, <2>1 DEF TypeOK
  <2>3. LockInv'
    BY <1>1, <1>2, <1>4, <2>1, SameOwner
  <2> QED
    BY <1>3, <2>2, <2>3
<1>5. CASE /\ Len(sb[t]) < StoreBufferSize
           /\ sb' = [sb EXCEPT ![t] = Append(@, s)]
           /\ UNCHANGED <<lk, shared_resource>>
  <2>1. s \in [loc : {"lk", "shared_resource"}, k : {0}, val : Nat]
    BY DEF PendingStore, TypeOK
  <2>2. /\ sb[t] \in Seq([loc : {"lk", "shared_resource"}, k : {0}, val : Nat])
        /\ sb'[t] = Append(sb[t], s)
        /\ \A u \in Threads : u # t => sb'[u] = sb[u]
    BY <1>5 DEF TypeOK
  <2> HIDE DEF s
  <2>3. /\ sb'[t] \in Seq([loc : {"lk", "shared_resource"}, k : {0}, val : Nat])
        /\ Len(sb'[t]) = Len(sb[t]) + 1 /\ Len(sb[t]) \in Nat
        /\ DOMAIN sb'[t] = 1 .. Len(sb'[t]) /\ DOMAIN sb[t] = 1 .. Len(sb[t])
        /\ sb'[t][Len(sb'[t])] = s
        /\ \A n \in DOMAIN sb[t] : sb'[t][n] = sb[t][n]
        /\ sb'[t] # <<>>
    <3> DEFINE Stores == [loc : {"lk", "shared_resource"}, k : {0}, val : Nat]
               a      == Append(sb[t], s)
    <3>1. s \in Stores /\ sb[t] \in Seq(Stores)
      BY <2>1, <2>2
    <3> HIDE DEF Stores
    <3>2. /\ a \in Seq(Stores) /\ Len(a) = Len(sb[t]) + 1 /\ Len(sb[t]) \in Nat
          /\ DOMAIN a = 1 .. Len(a) /\ DOMAIN sb[t] = 1 .. Len(sb[t])
          /\ a[Len(a)] = s /\ a # <<>>
          /\ \A n \in DOMAIN sb[t] : a[n] = sb[t][n]
      BY <3>1, AppendEntries
    <3> HIDE DEF a
    <3>3. sb'[t] = a
      BY <2>2 DEF a
    <3> QED
      BY <3>2, <3>3 DEF Stores
  <2>4. TypeOK'
    <3>1. sb' \in [Threads -> Seq([loc : {"lk", "shared_resource"}, k : {0}, val : Nat])]
      BY <1>5, <2>2, <2>3 DEF TypeOK
    <3>2. \A u \in Threads : Len(sb'[u]) <= StoreBufferSize
      BY <1>5, <2>2, <2>3 DEF TypeOK
    <3> QED
      BY <1>1, <1>2, <1>5, <3>1, <3>2 DEF TypeOK
  <2>5. \A u \in Threads : /\ Owner(u)' <=> Owner(u)
                           /\ pc'[u] = "done" <=> pc[u] = "done"
    BY <1>1, <1>2, <2>2, <2>3 DEF Owner, TypeOK
  <2>6. \A n \in DOMAIN sb'[t] : sb'[t][n].loc # "lk"
    <3>1. s.loc # "lk"
      BY DEF s, PendingStore
    <3>2. \A n \in DOMAIN sb[t] : sb[t][n].loc # "lk"
      BY <1>1 DEF LockInv
    <3> QED
      BY <2>3, <3>1, <3>2
  <2>7. LockInv'
    <3>1. pc'[t] # "done"
      BY <1>1, <1>2 DEF TypeOK
    <3> QED
      BY <1>5, <2>2, <2>5, <2>6, <3>1 DEF LockInv
  <2> QED
    BY <1>3, <2>4, <2>7
<1> QED
  BY <1>1, <1>4, <1>5 DEF Store

\* unlock() enters the buffer behind the owner's stores, or frees the lock at
\* once when nothing is there.
LEMMA UnlockStep ==
    ASSUME IInv, NEW t \in Threads, Unlock(t)
    PROVE  IInv'
<1> USE DEF IInv
<1> DEFINE s == PendingStore("lk", 0, 0)
<1>1. /\ pc[t] = "unlock" /\ pc' = [pc EXCEPT ![t] = "done"]
      /\ Store(t, "lk", 0)
      /\ UNCHANGED <<reg, iters, created, joined>>
  BY DEF Unlock
<1>2. "done" \in Points /\ pc[t] \in Critical /\ "done" \notin Critical
  BY <1>1 DEF Points, Critical
<1>3. NotStarted'
  BY <1>1, <1>2 DEF NotStarted, TypeOK, Store
<1>4. Owner(t) /\ \A u \in Threads : Owner(u) => u = t
  BY <1>2 DEF Owner, LockInv
<1>5. \A n \in DOMAIN sb[t] : sb[t][n].loc # "lk"
  BY <1>1 DEF LockInv
<1>6. CASE sb[t] = <<>> /\ UNCHANGED sb /\ WriteMemory("lk", 0)
  <2>1. lk' = 0 /\ shared_resource' = shared_resource
    BY <1>6 DEF WriteMemory
  <2>2. TypeOK'
    BY <1>1, <1>2, <1>6, <2>1 DEF TypeOK
  <2>4. \A u \in Threads : ~Owner(u)'
    BY <1>1, <1>2, <1>4, <1>6 DEF Owner, TypeOK
  <2>5. LockInv'
    BY <2>1, <2>4 DEF LockInv, Owner
  <2> QED
    BY <1>3, <2>2, <2>5
<1>7. CASE /\ Len(sb[t]) < StoreBufferSize
           /\ sb' = [sb EXCEPT ![t] = Append(@, s)]
           /\ UNCHANGED <<lk, shared_resource>>
  <2>1. /\ s \in [loc : {"lk", "shared_resource"}, k : {0}, val : Nat]
        /\ s.loc = "lk" /\ s.val = 0
    BY DEF PendingStore
  <2>2. /\ sb[t] \in Seq([loc : {"lk", "shared_resource"}, k : {0}, val : Nat])
        /\ sb'[t] = Append(sb[t], s)
        /\ \A u \in Threads : u # t => sb'[u] = sb[u]
    BY <1>7 DEF TypeOK
  <2> HIDE DEF s
  <2>3. /\ sb'[t] \in Seq([loc : {"lk", "shared_resource"}, k : {0}, val : Nat])
        /\ Len(sb'[t]) = Len(sb[t]) + 1 /\ Len(sb[t]) \in Nat
        /\ DOMAIN sb'[t] = 1 .. Len(sb'[t]) /\ DOMAIN sb[t] = 1 .. Len(sb[t])
        /\ sb'[t][Len(sb'[t])] = s
        /\ \A n \in DOMAIN sb[t] : sb'[t][n] = sb[t][n]
        /\ sb'[t] # <<>>
    <3> DEFINE Stores == [loc : {"lk", "shared_resource"}, k : {0}, val : Nat]
               a      == Append(sb[t], s)
    <3>1. s \in Stores /\ sb[t] \in Seq(Stores)
      BY <2>1, <2>2
    <3> HIDE DEF Stores
    <3>2. /\ a \in Seq(Stores) /\ Len(a) = Len(sb[t]) + 1 /\ Len(sb[t]) \in Nat
          /\ DOMAIN a = 1 .. Len(a) /\ DOMAIN sb[t] = 1 .. Len(sb[t])
          /\ a[Len(a)] = s /\ a # <<>>
          /\ \A n \in DOMAIN sb[t] : a[n] = sb[t][n]
      BY <3>1, AppendEntries
    <3> HIDE DEF a
    <3>3. sb'[t] = a
      BY <2>2 DEF a
    <3> QED
      BY <3>2, <3>3 DEF Stores
  <2>4. TypeOK'
    <3>1. sb' \in [Threads -> Seq([loc : {"lk", "shared_resource"}, k : {0}, val : Nat])]
      BY <1>7, <2>2, <2>3 DEF TypeOK
    <3>2. \A u \in Threads : Len(sb'[u]) <= StoreBufferSize
      BY <1>7, <2>2, <2>3 DEF TypeOK
    <3> QED
      BY <1>1, <1>2, <1>7, <3>1, <3>2 DEF TypeOK
  <2>5. \A u \in Threads : Owner(u)' <=> Owner(u)
    BY <1>1, <1>4, <2>2, <2>3 DEF Owner, TypeOK
  <2>6. \A n \in DOMAIN sb'[t] : /\ sb'[t][n].loc = "lk" <=> n = Len(sb'[t])
                                 /\ sb'[t][n].loc = "lk" => sb'[t][n].val = 0
    BY <1>5, <2>1, <2>3, SMTT(40)
  <2>7. LockInv'
    <3>1. pc'[t] = "done" /\ \A u \in Threads : u # t => pc'[u] = pc[u]
      BY <1>1 DEF TypeOK
    <3>2. \A u \in Threads : \A n \in DOMAIN sb'[u] :
             /\ sb'[u][n].loc = "lk" <=> pc'[u] = "done" /\ n = Len(sb'[u])
             /\ sb'[u][n].loc = "lk" => sb'[u][n].val = 0
      <4> SUFFICES ASSUME NEW u \in Threads, NEW n \in DOMAIN sb'[u]
                   PROVE  /\ sb'[u][n].loc = "lk" <=> pc'[u] = "done" /\ n = Len(sb'[u])
                          /\ sb'[u][n].loc = "lk" => sb'[u][n].val = 0
        OBVIOUS
      <4>1. CASE u = t
        BY <2>6, <3>1, <4>1
      <4>2. CASE u # t
        BY <2>2, <3>1, <4>2 DEF LockInv
      <4> QED
        BY <4>1, <4>2
    <3> QED
      BY <1>7, <2>5, <3>2 DEF LockInv
  <2> QED
    BY <1>3, <2>4, <2>7
<1> QED
  BY <1>1, <1>6, <1>7 DEF Store

\* The store that frees the lock is the last of the owner's to drain.
LEMMA DrainStep ==
    ASSUME IInv, NEW t \in Threads, Drain(t)
    PROVE  IInv'
<1> USE DEF IInv
<1> DEFINE S == [loc : {"lk", "shared_resource"}, k : {0}, val : Nat]
           h == Head(sb[t])
<1>1. /\ sb[t] # <<>>
      /\ WriteMemory(h.loc, h.val)
      /\ sb' = [sb EXCEPT ![t] = Tail(@)]
      /\ UNCHANGED <<pc, reg, iters, created, joined>>
  BY DEF Drain
<1>2. /\ sb[t] \in Seq(S) /\ sb[t] # <<>>
      /\ sb'[t] = Tail(sb[t])
      /\ \A u \in Threads : u # t => sb'[u] = sb[u]
  BY <1>1 DEF TypeOK, S
<1> HIDE DEF S
<1>3. /\ h \in S /\ h = sb[t][1] /\ 1 \in DOMAIN sb[t]
      /\ sb'[t] \in Seq(S)
      /\ Len(sb'[t]) = Len(sb[t]) - 1 /\ Len(sb[t]) \in Nat
      /\ \A n \in DOMAIN sb'[t] :
            n \in Nat /\ n + 1 \in DOMAIN sb[t] /\ sb'[t][n] = sb[t][n + 1]
      /\ Len(sb[t]) = 1 => sb'[t] = <<>>
      /\ Len(sb[t]) # 1 => sb'[t] # <<>>
  <2>1. Len(sb[t]) \in Nat /\ \A n \in DOMAIN sb[t] : sb[t][n] \in S
    BY <1>2, Entries
  <2> QED
    BY <1>2, <2>1, TailEntries
<1> HIDE DEF h
<1>4. /\ h.loc = "lk" <=> pc[t] = "done" /\ Len(sb[t]) = 1
      /\ h.loc = "lk" => h.val = 0
  BY <1>3 DEF LockInv
<1>5. Owner(t) /\ lk = 1 /\ \A u \in Threads : Owner(u) => u = t
  BY <1>1 DEF Owner, LockInv
<1>6. NotStarted'
  BY <1>1, <1>2 DEF NotStarted
<1>7. TypeOK'
  <2>1. sb' \in [Threads -> Seq(S)]
    BY <1>1, <1>2, <1>3 DEF TypeOK, S
  <2>2. \A u \in Threads : Len(sb'[u]) <= StoreBufferSize
    <3>1. Len(sb[t]) <= StoreBufferSize
      BY DEF TypeOK
    <3>2. Len(sb'[t]) <= StoreBufferSize
      BY <1>3, <3>1
    <3> QED
      BY <1>2, <3>2 DEF TypeOK
  <2>3. lk' \in {0, 1} /\ shared_resource' \in Nat
    BY <1>1, <1>3, <1>4 DEF WriteMemory, TypeOK, S
  <2> QED
    BY <1>1, <2>1, <2>2, <2>3 DEF TypeOK, S
<1>8. \A u \in Threads : \A n \in DOMAIN sb'[u] :
         /\ sb'[u][n].loc = "lk" <=> pc'[u] = "done" /\ n = Len(sb'[u])
         /\ sb'[u][n].loc = "lk" => sb'[u][n].val = 0
  <2> SUFFICES ASSUME NEW u \in Threads, NEW n \in DOMAIN sb'[u]
               PROVE  /\ sb'[u][n].loc = "lk" <=> pc'[u] = "done" /\ n = Len(sb'[u])
                      /\ sb'[u][n].loc = "lk" => sb'[u][n].val = 0
    OBVIOUS
  <2>1. CASE u = t
    <3>1. n \in Int /\ n + 1 \in DOMAIN sb[t] /\ sb'[t][n] = sb[t][n + 1]
      BY <1>3, <2>1
    <3>2. n + 1 = Len(sb[t]) <=> n = Len(sb'[t])
      BY <1>3, <3>1
    <3> QED
      BY <1>1, <2>1, <3>1, <3>2 DEF LockInv
  <2>2. CASE u # t
    BY <1>1, <1>2, <2>2 DEF LockInv
  <2> QED
    BY <2>1, <2>2
<1>9. \A u \in Threads : u # t => ~Owner(u)'
  BY <1>1, <1>2, <1>5 DEF Owner
<1>10. CASE h.loc = "lk"
  <2>1. lk' = 0 /\ sb'[t] = <<>> /\ pc'[t] \notin Critical
    BY <1>1, <1>3, <1>4, <1>10 DEF WriteMemory, Critical
  <2>2. LockInv'
    BY <1>8, <1>9, <2>1 DEF LockInv, Owner
  <2> QED
    BY <1>6, <1>7, <2>2
<1>11. CASE h.loc # "lk"
  <2>1. lk' = 1
    BY <1>1, <1>5, <1>11 DEF WriteMemory
  <2>2. Owner(t)'
    <3>1. pc[t] \in Critical \/ pc[t] = "done"
      BY <1>1 DEF NotStarted, TypeOK, Points
    <3> QED
      BY <1>1, <1>3, <1>4, <1>11, <3>1 DEF Owner
  <2>3. LockInv'
    BY <1>8, <1>9, <2>1, <2>2 DEF LockInv
  <2> QED
    BY <1>6, <1>7, <2>3
<1> QED
  BY <1>10, <1>11

\* What pthread_join and a stuttering step leave alone is all that the
\* invariant speaks of.
LEMMA JoinStep ==
    ASSUME IInv, UNCHANGED <<memory, pc, reg, iters, created>>, joined' \in 0 .. NUM_THREADS
    PROVE  IInv'
<1>1. UNCHANGED <<lk, shared_resource, sb, pc, reg, iters, created>>
  BY DEF memory
<1> QED
  BY <1>1 DEF IInv, TypeOK, NotStarted, LockInv, Owner

-------------------------------------------------------------------------------
(* Theorems *)

\* Every behaviour of the program keeps IInv, whatever the store buffers hold
\* back.
THEOREM InvariantHolds == Spec => []IInv
<1>1. IInv /\ [Next]_vars => IInv'
  <2> SUFFICES ASSUME IInv, [Next]_vars PROVE IInv'
    OBVIOUS
  <2>1. CASE UNCHANGED vars
    <3>1. UNCHANGED <<memory, pc, reg, iters, created>> /\ joined' = joined
      BY <2>1 DEF vars
    <3>2. joined' \in 0 .. NUM_THREADS
      BY <3>1 DEF IInv, TypeOK
    <3> QED
      BY <3>1, <3>2, JoinStep
  <2>2. ASSUME NEW t \in Threads, Create(t) \/ Join(t) \/ ThreadStep(t) \/ Drain(t)
        PROVE  IInv'
    <3>1. CASE Join(t)
      <4>1. UNCHANGED <<memory, pc, reg, iters, created>> /\ joined' = t
        BY <3>1 DEF Join
      <4>2. joined' \in 0 .. NUM_THREADS
        BY <4>1 DEF Threads
      <4> QED
        BY <4>1, <4>2, JoinStep
    <3> QED
      BY <2>2, <3>1, CreateStep, DrainStep, TestAndSetStep, LoadResourceStep,
         StoreResourceStep, UnlockStep DEF ThreadStep
  <2> QED
    BY <2>1, <2>2 DEF Next
<1> QED
  BY <1>1, InitIInv, PTL DEF Spec

\* The release reaches memory after the increments made under the lock, and
\* the lock word is 1 exactly while some thread owns it.
THEOREM LockInvHolds == Spec => []LockInv
<1>1. IInv => LockInv
  BY DEF IInv
<1> QED
  BY <1>1, InvariantHolds, PTL

\* The types of the program's variables.
THEOREM TypeCorrect == Spec => []TypeOK
<1>1. IInv => TypeOK
  BY DEF IInv
<1> QED
  BY <1>1, InvariantHolds, PTL

\* lock() admits one thread at a time, for every number of threads and every
\* size of the store buffers.
THEOREM MutualExclusionHolds == Spec => []MutualExclusion
<1>1. IInv => MutualExclusion
  BY DEF IInv, LockInv, MutualExclusion, Owner
<1> QED
  BY <1>1, InvariantHolds, PTL

-------------------------------------------------------------------------------
(* The lock implements a mutex                                               *)

\* What a thread has loaded for shared_resource++ is what it would still read
\* when it stores the sum.
Fresh == \A t \in Threads : pc[t] = "store" => reg[t] = LoadShared(t)

\* When the stores to shared_resource are the first m of a buffer, a load
\* returns the last of these.
LEMMA LoadLast ==
    ASSUME NEW S, NEW b \in Seq(S), NEW m \in 0 .. Len(b), NEW mem,
           \A n \in DOMAIN b : /\ b[n].loc = "shared_resource" <=> n <= m
                               /\ b[n].k = 0
    PROVE  Load(b, "shared_resource", 0, mem) = IF m = 0 THEN mem ELSE b[m].val
<1> DEFINE own == Pending(b, "shared_resource", 0)
<1>1. Len(b) \in Nat /\ DOMAIN b = 1 .. Len(b)
  BY Entries
<1>2. own = 1 .. m
  BY <1>1 DEF Pending
<1>3. CASE m = 0
  <2>1. own = {}
    BY <1>2, <1>3
  <2> QED
    BY <1>3, <2>1 DEF Load
<1>4. CASE m # 0
  <2>1. m \in own /\ \A n \in own : n <= m
    BY <1>2, <1>4
  <2>2. (CHOOSE n \in own : \A k \in own : k <= n) = m
    BY <1>2, <2>1
  <2> QED
    BY <1>4, <2>1, <2>2 DEF Load
<1> QED
  BY <1>3, <1>4

\* The entries of a buffer, and which of them are to shared_resource.
LEMMA OwnStores ==
    ASSUME IInv, NEW t \in Threads
    PROVE  /\ sb[t] \in Seq([loc : {"lk", "shared_resource"}, k : {0}, val : Nat])
           /\ Len(sb[t]) \in Nat /\ DOMAIN sb[t] = 1 .. Len(sb[t])
           /\ \A n \in DOMAIN sb[t] :
                 /\ sb[t][n].k = 0
                 /\ sb[t][n].loc = "shared_resource" <=> ~(pc[t] = "done" /\ n = Len(sb[t]))
<1> DEFINE S == [loc : {"lk", "shared_resource"}, k : {0}, val : Nat]
<1>1. sb[t] \in Seq(S)
  BY DEF IInv, TypeOK
<1> HIDE DEF S
<1>2. /\ Len(sb[t]) \in Nat /\ DOMAIN sb[t] = 1 .. Len(sb[t])
      /\ \A n \in DOMAIN sb[t] : sb[t][n] \in S
  BY <1>1, Entries
<1>3. \A n \in DOMAIN sb[t] : sb[t][n].k = 0 /\ sb[t][n].loc \in {"lk", "shared_resource"}
  BY <1>2 DEF S
<1>4. \A n \in DOMAIN sb[t] : sb[t][n].loc = "lk" <=> pc[t] = "done" /\ n = Len(sb[t])
  BY DEF IInv, LockInv
<1> QED
  BY <1>1, <1>2, <1>3, <1>4 DEF S

\* What a thread reads in shared_resource with an empty buffer, before unlock()
\* and after it.
ReadsOwn ==
    \A t \in Threads :
        /\ sb[t] = <<>> => LoadShared(t) = shared_resource
        /\ sb[t] # <<>> /\ pc[t] # "done" => LoadShared(t) = sb[t][Len(sb[t])].val
        /\ sb[t] # <<>> /\ pc[t] = "done" =>
              LoadShared(t) = IF Len(sb[t]) = 1 THEN shared_resource
                              ELSE sb[t][Len(sb[t]) - 1].val

\* The release in a buffer hides none of the stores before it.
LEMMA Reads == IInv => ReadsOwn
<1> SUFFICES ASSUME IInv, NEW t \in Threads
             PROVE  /\ sb[t] = <<>> => LoadShared(t) = shared_resource
                    /\ sb[t] # <<>> /\ pc[t] # "done" => LoadShared(t) = sb[t][Len(sb[t])].val
                    /\ sb[t] # <<>> /\ pc[t] = "done" =>
                          LoadShared(t) = IF Len(sb[t]) = 1 THEN shared_resource
                                          ELSE sb[t][Len(sb[t]) - 1].val
  BY DEF ReadsOwn
<1> DEFINE S == [loc : {"lk", "shared_resource"}, k : {0}, val : Nat]
           m == IF pc[t] = "done" /\ sb[t] # <<>> THEN Len(sb[t]) - 1 ELSE Len(sb[t])
<1>1. /\ sb[t] \in Seq(S) /\ Len(sb[t]) \in Nat /\ DOMAIN sb[t] = 1 .. Len(sb[t])
      /\ \A n \in DOMAIN sb[t] :
            /\ sb[t][n].k = 0
            /\ sb[t][n].loc = "shared_resource" <=> ~(pc[t] = "done" /\ n = Len(sb[t]))
  BY OwnStores
<1> HIDE DEF S
<1>2. sb[t] = <<>> <=> Len(sb[t]) = 0
  BY <1>1, EmptyLen
<1>3. m \in 0 .. Len(sb[t])
  BY <1>1, <1>2
<1>4. \A n \in DOMAIN sb[t] : /\ sb[t][n].loc = "shared_resource" <=> n <= m
                              /\ sb[t][n].k = 0
  BY <1>1, <1>2
<1> HIDE DEF m
<1>5. LoadShared(t) = IF m = 0 THEN shared_resource ELSE sb[t][m].val
  BY <1>1, <1>3, <1>4, LoadLast DEF LoadShared
<1> QED
  BY <1>1, <1>2, <1>5 DEF m

\* A buffer grows by the store s.
Buffers(t, s) ==
    /\ sb' = [sb EXCEPT ![t] = Append(@, s)]
    /\ UNCHANGED <<lk, shared_resource>>

\* A store that is held back is the last of its buffer.
LEMMA BuffersLast ==
    ASSUME IInv, NEW t \in Threads, NEW s, Buffers(t, s),
           s \in [loc : {"lk", "shared_resource"}, k : {0}, val : Nat]
    PROVE  /\ Len(sb[t]) \in Nat /\ Len(sb'[t]) = Len(sb[t]) + 1
           /\ sb'[t] # <<>> /\ sb'[t][Len(sb'[t])] = s
           /\ \A n \in 1 .. Len(sb[t]) : sb'[t][n] = sb[t][n]
           /\ \A u \in Threads : u # t => sb'[u] = sb[u]
           /\ sb[t] = <<>> <=> Len(sb[t]) = 0
<1> DEFINE S == [loc : {"lk", "shared_resource"}, k : {0}, val : Nat]
<1>1. sb[t] \in Seq(S) /\ s \in S
  BY OwnStores
<1>2. sb'[t] = Append(sb[t], s) /\ \A u \in Threads : u # t => sb'[u] = sb[u]
  BY DEF IInv, TypeOK, Buffers
<1> HIDE DEF S
<1> QED
  BY <1>1, <1>2, AppendEntries, EmptyLen

\* What a step of a thread or of main does to the lock: nothing, it takes it,
\* adds one, frees it, or moves stores of the owner, who does not notice.
StepKind(t) ==
    \/ /\ UNCHANGED <<sb, shared_resource>> /\ \A u \in Threads : Owner(u)' <=> Owner(u)
       /\ \/ reg' = reg /\ \A u \in Threads : pc'[u] = "store" => pc[u] = "store"
          \/ /\ pc[t] = "load" /\ pc' = [pc EXCEPT ![t] = "store"]
             /\ reg' = [reg EXCEPT ![t] = LoadShared(t)]
    \/ /\ \A u \in Threads : ~Owner(u) /\ (Owner(u)' <=> u = t)
       /\ LoadShared(t)' = shared_resource
       /\ \A u \in Threads : pc'[u] # "store"
    \/ /\ Owner(t) /\ \A u \in Threads : Owner(u)' <=> Owner(u)
       /\ pc[t] = "store" /\ pc'[t] # "store" /\ LoadShared(t)' = reg[t] + 1
    \/ /\ Owner(t) /\ \A u \in Threads : ~Owner(u)'
       /\ shared_resource' = LoadShared(t)
    \/ /\ Owner(t) /\ \A u \in Threads : Owner(u)' <=> Owner(u)
       /\ LoadShared(t)' = LoadShared(t)
       /\ reg' = reg /\ (pc'[t] = "store" => pc[t] = "store")

\* A load, and what main does.
LEMMA QuietKind ==
    ASSUME IInv, NEW t \in Threads, Create(t) \/ Join(t) \/ LoadResource(t)
    PROVE  StepKind(t)
<1>1. CASE Create(t)
  <2>1. pc[t] = "idle"
    BY <1>1 DEF Create, IInv, NotStarted, Threads, TypeOK
  <2> QED
    BY <1>1, <2>1 DEF Create, memory, StepKind, Owner, IInv, TypeOK, Critical
<1>2. CASE Join(t)
  BY <1>2 DEF Join, memory, StepKind, Owner
<1>3. CASE LoadResource(t)
  BY <1>3 DEF LoadResource, memory, StepKind, Owner, IInv, TypeOK, Critical
<1> QED
  BY <1>1, <1>2, <1>3

\* lock(): the thread that takes the free lock has nothing pending.
LEMMA TestAndSetKind ==
    ASSUME IInv, IInv', NEW t \in Threads, TestAndSet(t)
    PROVE  StepKind(t)
<1> USE DEF IInv
<1>1. /\ pc[t] = "lock" /\ sb[t] = <<>>
      /\ pc' = [pc EXCEPT ![t] = IF lk = 0 THEN "load" ELSE "lock"]
      /\ UNCHANGED <<shared_resource, sb, reg>>
  BY DEF TestAndSet
<1>2. CASE lk = 1
  BY <1>1, <1>2 DEF StepKind, Owner, TypeOK, Critical
<1>3. CASE lk = 0
  <2>1. \A u \in Threads : ~Owner(u)
    BY <1>3 DEF LockInv
  <2>2. \A u \in Threads : (Owner(u)' <=> u = t) /\ pc'[u] # "store"
    BY <1>1, <1>3, <2>1 DEF Owner, TypeOK, Critical
  <2>3. LoadShared(t)' = shared_resource
    <3>1. ReadsOwn'
      BY Reads, PTL
    <3> QED
      BY <1>1, <3>1 DEF ReadsOwn
  <2> QED
    BY <2>1, <2>2, <2>3 DEF StepKind
<1> QED
  BY <1>2, <1>3 DEF TypeOK

\* shared_resource++: the owner reads the sum, wherever its store is.
LEMMA StoreResourceKind ==
    ASSUME IInv, IInv', NEW t \in Threads, StoreResource(t)
    PROVE  StepKind(t)
<1> USE DEF IInv
<1> DEFINE s == PendingStore("shared_resource", 0, reg[t] + 1)
<1>1. /\ pc[t] = "store" /\ pc'[t] \in {"load", "unlock"}
      /\ \A u \in Threads : u # t => pc'[u] = pc[u]
      /\ Store(t, "shared_resource", reg[t] + 1)
  BY DEF StoreResource, TypeOK
<1>2. ReadsOwn'
  BY Reads, PTL
<1>3. CASE sb[t] = <<>> /\ WriteMemory("shared_resource", reg[t] + 1) /\ sb' = sb
  <2>1. LoadShared(t)' = reg[t] + 1
    BY <1>2, <1>3 DEF ReadsOwn, WriteMemory
  <2> QED
    BY <1>1, <1>3, <2>1 DEF StepKind, Owner, Critical
<1>4. CASE Buffers(t, s)
  <2>1. s \in [loc : {"lk", "shared_resource"}, k : {0}, val : Nat] /\ s.val = reg[t] + 1
    BY DEF PendingStore, TypeOK
  <2> HIDE DEF s
  <2>2. /\ sb'[t] # <<>> /\ sb'[t][Len(sb'[t])] = s
        /\ \A u \in Threads : u # t => sb'[u] = sb[u]
    BY <1>4, <2>1, BuffersLast
  <2>3. LoadShared(t)' = reg[t] + 1
    BY <1>1, <1>2, <2>1, <2>2 DEF ReadsOwn
  <2> QED
    BY <1>1, <2>2, <2>3 DEF StepKind, Owner, Critical
<1> QED
  BY <1>1, <1>3, <1>4 DEF Store, Buffers

\* unlock(): the lock is free at once, or its release waits behind the sums.
LEMMA UnlockKind ==
    ASSUME IInv, IInv', NEW t \in Threads, Unlock(t)
    PROVE  StepKind(t)
<1> USE DEF IInv
<1> DEFINE s == PendingStore("lk", 0, 0)
<1>1. /\ pc[t] = "unlock" /\ pc'[t] = "done" /\ reg' = reg
      /\ \A u \in Threads : u # t => pc'[u] = pc[u]
      /\ Store(t, "lk", 0)
  BY DEF Unlock, TypeOK
<1>2. ReadsOwn /\ ReadsOwn'
  <2>1. ReadsOwn'
    BY Reads, PTL
  <2> QED
    BY <2>1, Reads
<1>3. Owner(t) /\ \A u \in Threads : Owner(u) => u = t
  BY <1>1 DEF Owner, LockInv, Critical
<1>4. CASE sb[t] = <<>> /\ WriteMemory("lk", 0) /\ sb' = sb
  <2>1. shared_resource' = LoadShared(t)
    BY <1>2, <1>4 DEF ReadsOwn, WriteMemory
  <2>2. \A u \in Threads : ~Owner(u)'
    BY <1>1, <1>3, <1>4 DEF Owner, Critical
  <2> QED
    BY <1>3, <2>1, <2>2 DEF StepKind
<1>5. CASE Buffers(t, s)
  <2>1. s \in [loc : {"lk", "shared_resource"}, k : {0}, val : Nat]
    BY DEF PendingStore
  <2> HIDE DEF s
  <2>2. /\ Len(sb[t]) \in Nat /\ Len(sb'[t]) = Len(sb[t]) + 1
        /\ sb'[t] # <<>>
        /\ \A n \in 1 .. Len(sb[t]) : sb'[t][n] = sb[t][n]
        /\ \A u \in Threads : u # t => sb'[u] = sb[u]
        /\ sb[t] = <<>> <=> Len(sb[t]) = 0
    BY <1>5, <2>1, BuffersLast
  <2>3. \A u \in Threads : Owner(u)' <=> Owner(u)
    BY <1>1, <1>3, <2>2 DEF Owner
  <2>4. LoadShared(t)' = IF Len(sb'[t]) = 1 THEN shared_resource' ELSE sb'[t][Len(sb'[t]) - 1].val
    BY <1>1, <1>2, <2>2 DEF ReadsOwn
  <2>5. LoadShared(t)' = LoadShared(t)
    BY <1>1, <1>2, <1>5, <2>2, <2>4 DEF ReadsOwn, Buffers
  <2> QED
    BY <1>1, <1>3, <2>3, <2>5 DEF StepKind
<1> QED
  BY <1>1, <1>4, <1>5 DEF Store, Buffers

\* A store that drains: the release frees the lock, a sum is read as before.
LEMMA DrainKind ==
    ASSUME IInv, IInv', NEW t \in Threads, Drain(t)
    PROVE  StepKind(t)
<1> USE DEF IInv
<1> DEFINE S == [loc : {"lk", "shared_resource"}, k : {0}, val : Nat]
           h == Head(sb[t])
<1>1. /\ sb[t] # <<>> /\ sb'[t] = Tail(sb[t])
      /\ \A u \in Threads : u # t => sb'[u] = sb[u]
      /\ WriteMemory(h.loc, h.val) /\ pc' = pc /\ reg' = reg
  BY DEF Drain, TypeOK
<1>2. sb[t] \in Seq(S) /\ Len(sb[t]) \in Nat /\ DOMAIN sb[t] = 1 .. Len(sb[t])
  BY OwnStores
<1>3. ReadsOwn /\ ReadsOwn'
  <2>1. ReadsOwn'
    BY Reads, PTL
  <2> QED
    BY <2>1, Reads
<1>4. Owner(t) /\ \A u \in Threads : Owner(u) => u = t
  BY <1>1 DEF Owner, LockInv
<1>5. pc[t] \in Critical \/ pc[t] = "done"
  BY <1>1 DEF NotStarted, TypeOK, Points
<1> HIDE DEF S
<1>6. /\ h = sb[t][1] /\ Len(sb'[t]) = Len(sb[t]) - 1
      /\ \A n \in DOMAIN sb'[t] : n \in Nat /\ n + 1 \in DOMAIN sb[t] /\ sb'[t][n] = sb[t][n + 1]
      /\ sb'[t] = <<>> <=> Len(sb[t]) = 1
      /\ DOMAIN sb'[t] = 1 .. Len(sb'[t]) /\ Len(sb[t]) >= 1
  <2>1. Tail(sb[t]) \in Seq(S) /\ 1 \in DOMAIN sb[t]
    BY <1>1, <1>2, TailEntries
  <2>2. DOMAIN sb'[t] = 1 .. Len(sb'[t])
    BY <1>1, <2>1, Entries
  <2>3. /\ h = sb[t][1] /\ Len(sb'[t]) = Len(sb[t]) - 1
        /\ \A n \in DOMAIN sb'[t] : n \in Nat /\ n + 1 \in DOMAIN sb[t] /\ sb'[t][n] = sb[t][n + 1]
        /\ Len(sb[t]) = 1 => sb'[t] = <<>>
        /\ Len(sb[t]) # 1 => sb'[t] # <<>>
    BY <1>1, <1>2, TailEntries
  <2> QED
    BY <1>2, <2>1, <2>2, <2>3
<1> HIDE DEF h
<1>7. h.loc = "shared_resource" <=> ~(pc[t] = "done" /\ Len(sb[t]) = 1)
  <2>1. 1 \in DOMAIN sb[t]
    BY <1>2, <1>6
  <2> QED
    BY <1>6, <2>1, OwnStores
<1>8. CASE pc[t] = "done" /\ Len(sb[t]) = 1
  <2>1. \A u \in Threads : ~Owner(u)'
    BY <1>1, <1>4, <1>6, <1>8 DEF Owner, Critical
  <2>2. h.loc = "lk"
    BY <1>6, <1>8, <1>2 DEF LockInv
  <2>3. shared_resource' = LoadShared(t)
    BY <1>1, <1>3, <1>8, <2>2 DEF ReadsOwn, WriteMemory
  <2> QED
    BY <1>4, <2>1, <2>3 DEF StepKind
<1>9. CASE ~(pc[t] = "done" /\ Len(sb[t]) = 1)
  <2>1. \A u \in Threads : Owner(u)' <=> Owner(u)
    BY <1>1, <1>4, <1>5, <1>6, <1>9 DEF Owner
  <2>2. shared_resource' = h.val
    BY <1>1, <1>7, <1>9 DEF WriteMemory
  <2>3. LoadShared(t)' = LoadShared(t)
    <3>1. CASE pc[t] = "done"
      <4>1. /\ LoadShared(t) = sb[t][Len(sb[t]) - 1].val
            /\ LoadShared(t)' = IF Len(sb'[t]) = 1 THEN shared_resource' ELSE sb'[t][Len(sb'[t]) - 1].val
        BY <1>1, <1>3, <1>6, <1>9, <3>1 DEF ReadsOwn
      <4>2. Len(sb[t]) # 2 => sb'[t][Len(sb'[t]) - 1] = sb[t][Len(sb[t]) - 1]
        <5>1. /\ Len(sb[t]) \in Nat /\ Len(sb[t]) >= 1 /\ Len(sb[t]) # 1
              /\ Len(sb'[t]) = Len(sb[t]) - 1
          BY <1>2, <1>6, <1>9, <3>1
        <5>2. Len(sb[t]) # 2 => Len(sb[t]) - 2 \in 1 .. Len(sb'[t])
          <6>1. \A n \in Nat : n >= 1 /\ n # 1 /\ n # 2 => n - 2 \in 1 .. n - 1
            OBVIOUS
          <6> QED
            BY <5>1, <6>1
        <5>3. Len(sb[t]) # 2 => sb'[t][Len(sb[t]) - 2] = sb[t][Len(sb[t]) - 2 + 1]
          BY <1>6, <5>2
        <5>4. Len(sb'[t]) - 1 = Len(sb[t]) - 2 /\ Len(sb[t]) - 2 + 1 = Len(sb[t]) - 1
          BY <1>2, <1>6
        <5> QED
          BY <5>3, <5>4
      <4>3. CASE Len(sb[t]) = 2
        <5>1. Len(sb'[t]) = 1 /\ Len(sb[t]) - 1 = 1
          BY <1>6, <4>3
        <5> QED
          BY <1>6, <2>2, <4>1, <5>1
      <4>4. CASE Len(sb[t]) # 2
        <5>1. Len(sb'[t]) # 1
          BY <1>2, <1>6, <4>4
        <5> QED
          BY <4>1, <4>2, <4>4, <5>1
      <4> QED
        BY <4>3, <4>4
    <3>2. CASE pc[t] # "done"
      <4>1. /\ LoadShared(t) = sb[t][Len(sb[t])].val
            /\ LoadShared(t)' = IF sb'[t] = <<>> THEN shared_resource' ELSE sb'[t][Len(sb'[t])].val
        BY <1>1, <1>3, <3>2 DEF ReadsOwn
      <4>2. Len(sb[t]) # 1 => sb'[t][Len(sb'[t])] = sb[t][Len(sb[t])]
        <5>1. Len(sb[t]) # 1 => Len(sb[t]) - 1 \in DOMAIN sb'[t]
          BY <1>2, <1>6
        <5> QED
          BY <1>2, <1>6, <5>1
      <4> QED
        BY <1>2, <1>6, <2>2, <4>1, <4>2
    <3> QED
      BY <3>1, <3>2
  <2> QED
    BY <1>1, <1>4, <2>1, <2>3 DEF StepKind
<1> QED
  BY <1>8, <1>9

\* The holder of the mutex is the thread whose release is not in memory yet.
LEMMA HolderIs ==
    ASSUME LockInv, NEW t \in Threads, Owner(t)
    PROVE  holder = t /\ value = LoadShared(t)
<1>1. holder = t
  BY DEF holder, LockInv
<1>2. t # 0
  BY DEF Threads
<1> QED
  BY <1>1, <1>2 DEF value

\* ... and nobody holds it when there is none.
LEMMA HolderNobody ==
    ASSUME \A t \in Threads : ~Owner(t)
    PROVE  holder = 0 /\ value = shared_resource
BY DEF holder, value

\* These two, and in the state after a step.
HolderFacts ==
    /\ \A t \in Threads : LockInv /\ Owner(t) => holder = t /\ value = LoadShared(t)
    /\ (\A t \in Threads : ~Owner(t)) => holder = 0 /\ value = shared_resource

\* HolderFacts is true in every state.
LEMMA HolderNext ==
    /\ \A t \in Threads : LockInv' /\ Owner(t)' => holder' = t /\ value' = LoadShared(t)'
    /\ (\A t \in Threads : ~Owner(t)') => holder' = 0 /\ value' = shared_resource'
<1>1. HolderFacts
  BY HolderIs, HolderNobody DEF HolderFacts
<1>2. HolderFacts'
  BY <1>1, PTL
<1> QED
  BY <1>2 DEF HolderFacts

\* What StepKind says of a step of the program.
LEMMA KindOfStep ==
    ASSUME IInv, IInv', NEW t \in Threads, Create(t) \/ Join(t) \/ ThreadStep(t) \/ Drain(t)
    PROVE  StepKind(t)
BY QuietKind, TestAndSetKind, StoreResourceKind, UnlockKind, DrainKind DEF ThreadStep

\* Nobody else stores between the load and the store of the owner.
LEMMA FreshStep ==
    ASSUME IInv, IInv', Fresh, [Next]_vars
    PROVE  Fresh'
<1>1. CASE UNCHANGED vars
  BY <1>1 DEF Fresh, vars, memory, LoadShared
<1>2. ASSUME NEW t \in Threads, Create(t) \/ Join(t) \/ ThreadStep(t) \/ Drain(t)
      PROVE  Fresh'
  <2> SUFFICES ASSUME NEW u \in Threads, pc'[u] = "store"
               PROVE  reg'[u] = LoadShared(u)'
    BY DEF Fresh
  <2>1. Owner(u)'
    BY DEF Owner, Critical
  <2>2. Owner(t) /\ Owner(u) => u = t
    BY DEF IInv, LockInv
  <2>3. UNCHANGED <<sb, shared_resource>> => LoadShared(u)' = LoadShared(u)
    BY DEF LoadShared
  <2> QED
    BY <1>2, <2>1, <2>2, <2>3, KindOfStep DEF StepKind, Fresh, IInv, TypeOK
<1> QED
  BY <1>1, <1>2 DEF Next

\* Every step of the program is one of the mutex, or none: a store that drains
\* without the release is none, the release is one when it drains.
LEMMA StepRefines ==
    ASSUME IInv, IInv', Fresh, [Next]_vars
    PROVE  [Abstract!MutexNext]_(Abstract!mutexVars)
<1> USE DEF Abstract!MutexNext, Abstract!mutexVars
<1>1. LockInv /\ LockInv'
  BY DEF IInv
<1>2. ASSUME UNCHANGED <<sb, shared_resource>>, \A u \in Threads : Owner(u)' <=> Owner(u)
      PROVE  UNCHANGED <<holder, value>>
  <2>1. CASE \E u \in Threads : Owner(u)
    <3>1. PICK u \in Threads : Owner(u)
      BY <2>1
    <3>2. LoadShared(u)' = LoadShared(u)
      BY <1>2 DEF LoadShared
    <3> QED
      BY <1>1, <1>2, <3>1, <3>2, HolderIs, HolderNext
  <2>2. CASE \A u \in Threads : ~Owner(u)
    BY <1>2, <2>2, HolderNobody, HolderNext
  <2> QED
    BY <2>1, <2>2
<1>3. CASE UNCHANGED vars
  <2>1. UNCHANGED <<sb, shared_resource, pc>>
    BY <1>3 DEF vars, memory
  <2> QED
    BY <1>2, <2>1 DEF Owner
<1>4. ASSUME NEW t \in Threads, Create(t) \/ Join(t) \/ ThreadStep(t) \/ Drain(t)
      PROVE  [Abstract!MutexNext]_(Abstract!mutexVars)
  <2>1. CASE /\ UNCHANGED <<sb, shared_resource>>
             /\ \A u \in Threads : Owner(u)' <=> Owner(u)
    BY <1>2, <2>1
  <2>2. CASE /\ \A u \in Threads : ~Owner(u) /\ (Owner(u)' <=> u = t)
             /\ LoadShared(t)' = shared_resource
    <3>1. holder = 0 /\ value = shared_resource /\ holder' = t /\ value' = LoadShared(t)'
      BY <1>1, <2>2, HolderNobody, HolderNext
    <3> QED
      BY <2>2, <3>1 DEF Abstract!Acquire
  <2>3. CASE /\ Owner(t) /\ \A u \in Threads : Owner(u)' <=> Owner(u)
             /\ pc[t] = "store" /\ LoadShared(t)' = reg[t] + 1
    <3>1. holder = t /\ value = LoadShared(t) /\ holder' = t /\ value' = LoadShared(t)'
      BY <1>1, <2>3, HolderIs, HolderNext
    <3> QED
      BY <2>3, <3>1 DEF Fresh, Abstract!Increment
  <2>4. CASE /\ Owner(t) /\ \A u \in Threads : ~Owner(u)'
             /\ shared_resource' = LoadShared(t)
    <3>1. holder = t /\ value = LoadShared(t) /\ holder' = 0 /\ value' = shared_resource'
      BY <1>1, <2>4, HolderIs, HolderNext
    <3> QED
      BY <2>4, <3>1 DEF Abstract!Release
  <2>5. CASE /\ Owner(t) /\ \A u \in Threads : Owner(u)' <=> Owner(u)
             /\ LoadShared(t)' = LoadShared(t)
    BY <1>1, <2>5, HolderIs, HolderNext
  <2> QED
    BY <1>4, <2>1, <2>2, <2>3, <2>4, <2>5, KindOfStep DEF StepKind
<1> QED
  BY <1>3, <1>4 DEF Next

\* For every number of threads and every size of the store buffers the
\* test-and-set lock implements a mutex under which shared_resource++ is atomic.
THEOREM RefinementHolds == Spec => Refinement
<1>1. Init => Abstract!MutexInit
  <2>1. Init => \A t \in Threads : ~Owner(t)
    BY DEF Init, Owner, Critical
  <2> QED
    BY <2>1, HolderNobody DEF Init, Abstract!MutexInit
<1>2. Init => Fresh
  BY DEF Init, Fresh
<1>3. IInv /\ IInv' /\ Fresh /\ [Next]_vars => Fresh'
  BY FreshStep
<1>4. IInv /\ IInv' /\ Fresh /\ [Next]_vars => [Abstract!MutexNext]_(Abstract!mutexVars)
  BY StepRefines
<1> QED
  BY <1>1, <1>2, <1>3, <1>4, InvariantHolds, PTL DEF Spec, Refinement, Abstract!MutexSpec

--------------------------------------------------------------------------------
(* Processes with several threads *)

HIDE TasLockAssumption

CONSTANTS NPROC, NTHREAD, NCPU, Calls, MemoryFails

VARIABLES th, pr, cpu, k, stacks, fault, lossy, overlap

\* Lwp, the threads of Project3.
Lw == INSTANCE Lwp

\* One processor, as the runs have: with two, a sibling may already be running.
OneProcessor == NCPU = 1 /\ NPROC \in Nat \ {0} /\ NTHREAD \in Nat \ {0}

\* Where the code of a thread can be.
Places == {"user", "create_stacks", "create_find", "create_store", "exit_wakeup", "exit_sched", "exited",
           "joined", "fork_thread", "fork_stack", "fork_copy", "fork_run", "exit_mark", "waiting", "exec", "asleep"}
Channels == {"none", "ticks", "thread", "proc"}

\* The entries of the tables.
ThreadEntry == [state : Lw!State, process : 0 .. NPROC, tid : 0 .. NTHREAD, kstack : 0 .. NTHREAD,
                ustack : 0 .. NTHREAD, chan : Channels \X Nat]
ProcEntry == [state : Lw!State, parent : 0 .. NPROC, killed : BOOLEAN, master : 0 .. NTHREAD,
              workers : [Lw!Thread -> 0 .. NTHREAD], check : [Lw!Thread -> BOOLEAN]]
CallEntry == [at : Places, u : 0 .. NTHREAD, q : 0 .. NPROC, i : 0 .. NTHREAD + 1]

\* The types of the tables.
Tables ==
    /\ th \in [Lw!Thread -> ThreadEntry] /\ pr \in [Lw!Proc -> ProcEntry] /\ k \in [Lw!Thread -> CallEntry]
    /\ cpu \in [Lw!CPU -> 0 .. NTHREAD]
    /\ stacks \subseteq Lw!Stack
    /\ fault \in BOOLEAN /\ lossy \in BOOLEAN /\ overlap \in BOOLEAN

\* States of a thread.
Able(t) == th[t].state \in {"RUNNABLE", "RUNNING"}
Alive(t) == th[t].state \in {"SLEEPING", "RUNNABLE", "RUNNING"}

\* The threads of a process.
Serves(p, t) == t # 0 /\ \E i \in Lw!Thread : pr[p].workers[i] = t
Member(p, t) == Serves(p, t) \/ (t # 0 /\ pr[p].master = t)

\* Where a call builds something, and what.
ForkAt == {"fork_thread", "fork_stack", "fork_copy", "fork_run"}
StackAt == {"create_find", "create_store", "fork_copy", "fork_run"}
BuildAt == StackAt \cup {"create_stacks", "fork_stack"}
AloneAt == {"create_stacks", "create_find", "create_store", "exec", "exit_mark"}

Builds(x, where) == Able(x) /\ k[x].at \in where

\* Who has a kernel stack.
HasStack(t) == (\E p \in Lw!Proc : Member(p, t)) \/ \E x \in Lw!Thread : Builds(x, StackAt) /\ k[x].u = t

\* A thread is one process's, and there only once.
MembersApart ==
    /\ \A p, q \in Lw!Proc, t \in Lw!Thread : Member(p, t) /\ Member(q, t) => p = q
    /\ \A p \in Lw!Proc, i, j \in Lw!Thread : pr[p].workers[i] = pr[p].workers[j] /\ pr[p].workers[i] # 0 => i = j
    /\ \A p \in Lw!Proc : ~ Serves(p, pr[p].master)

\* What a process has in each of its states.
ProcStates ==
    \A p \in Lw!Proc :
        /\ pr[p].state \in {"UNUSED", "EMBRYO", "RUNNABLE", "ZOMBIE"}
        /\ pr[p].state = "UNUSED" => pr[p].master = 0
        /\ pr[p].state \in {"UNUSED", "EMBRYO"} => \A i \in Lw!Thread : pr[p].workers[i] = 0
        /\ pr[p].state \in {"RUNNABLE", "ZOMBIE"} => pr[p].master # 0 /\ th[pr[p].master].process = p

\* The entry of a thread that a process has is in use, and a worker knows its process.
MemberEntries ==
    /\ \A t \in Lw!Thread : th[t].tid \in {0, t}
    /\ \A p \in Lw!Proc, t \in Lw!Thread :
        /\ Member(p, t) => th[t].state # "UNUSED"
        /\ Serves(p, t) => th[t].process = p /\ th[t].tid = t

\* Kernel stacks are held, each by one thread, and none was freed twice.
StacksHeld ==
    /\ \A t \in Lw!Thread : HasStack(t) => th[t].kstack \in stacks
    /\ \A t, u \in Lw!Thread : HasStack(t) /\ HasStack(u) /\ t # u => th[t].kstack # th[u].kstack
    /\ ~ fault

\* Whoever may run belongs to a process that is there.
Homes ==
    \A t \in Lw!Thread : Alive(t) \/ Lw!Running(t) =>
        Lw!My(t) \in Lw!Proc /\ Member(Lw!My(t), t) /\ pr[Lw!My(t)].state = "RUNNABLE"

\* The entry u that t, in thread_create() or fork(), is about to start.
NewEntryOf(t, u) ==
    /\ u \in Lw!Thread /\ th[u].state \in {"EMBRYO", "ZOMBIE"} /\ ~ Lw!Running(u)
    /\ \A p \in Lw!Proc : Member(p, u) => k[t].at \in {"fork_copy", "fork_run"} /\ p = k[t].q
    /\ k[t].at \in {"create_stacks", "create_find", "create_store"} => th[u].tid = u
    /\ k[t].at = "create_store" => th[u].process = Lw!My(t) /\ k[t].i \in Lw!Thread /\ pr[Lw!My(t)].workers[k[t].i] = 0
    /\ k[t].at \in {"fork_copy", "fork_run"} => pr[k[t].q].master = u
    /\ k[t].at = "fork_run" => th[u].process = k[t].q

\* An entry is being built by one call.
NewEntries ==
    /\ \A t \in Lw!Thread, u \in 0 .. NTHREAD : Builds(t, BuildAt) /\ k[t].u = u => NewEntryOf(t, u)
    /\ \A t, x \in Lw!Thread : Builds(t, BuildAt) /\ Builds(x, BuildAt) /\ t # x => k[t].u # k[x].u

\* A process is being made by one call of fork().
NewProcs ==
    /\ \A t \in Lw!Thread : Builds(t, ForkAt) =>
        /\ k[t].q \in Lw!Proc /\ pr[k[t].q].state = "EMBRYO"
        /\ k[t].at \in {"fork_thread", "fork_stack"} => pr[k[t].q].master = 0
    /\ \A t, x \in Lw!Thread : Builds(t, ForkAt) /\ Builds(x, ForkAt) /\ t # x => k[t].q # k[x].q

\* While a thread changes workers or marks its siblings, none of them runs.
OneRuns == \A s, t \in Lw!Thread : Lw!Running(s) /\ t # s /\ Lw!My(t) = Lw!My(s) /\ Able(t) => k[t].at \notin AloneAt

\* The state of a thread agrees with where it is.
CallStateOf(t) ==
    /\ th[t].state = "SLEEPING" => k[t].at \in {"asleep", "joined", "waiting"} /\ ~ Lw!Running(t)
    /\ Lw!Running(t) => /\ k[t].at \notin {"asleep", "exited"}
                        /\ th[t].state = IF k[t].at \in {"exit_wakeup", "exit_sched"} THEN "ZOMBIE" ELSE "RUNNING"
    /\ Able(t) => k[t].at \notin {"exit_wakeup", "exit_sched", "exited"}
    /\ th[t].state = "RUNNING" => Lw!Running(t)

CallStates == \A t \in Lw!Thread : CallStateOf(t)

\* Only the master joins, for a worker of its own, unless a sibling is in exec().
JoiningOf(t) ==
    Alive(t) /\ k[t].at = "joined" =>
        \/ pr[Lw!My(t)].master = t /\ Serves(Lw!My(t), k[t].u)
        \/ \E x \in Lw!Thread \ {t} : Lw!My(x) = Lw!My(t) /\ Builds(x, {"exec"})

Joining == \A t \in Lw!Thread : JoiningOf(t)

\* The threads that exit() has passed are ended.
ExitingOf(t) ==
    Builds(t, {"exit_mark"}) =>
        k[t].i >= 1 /\ \A u \in Lw!Thread \ {t} : u < k[t].i /\ Lw!My(u) = Lw!My(t) => ~ Alive(u)

Exiting == \A t \in Lw!Thread : ExitingOf(t)

\* The entries of workers that exec() has passed are empty.
ExecingOf(t) ==
    Builds(t, {"exec"}) =>
        k[t].i >= 1 /\ \A j \in Lw!Thread : j < k[t].i => pr[Lw!My(t)].workers[j] = 0

Execing == \A t \in Lw!Thread : ExecingOf(t)

\* Slots for user stacks, those of threads being built included.
UserStacks ==
    /\ \A p \in Lw!Proc, t, u \in Lw!Thread : Serves(p, t) /\ Serves(p, u) /\ t # u => th[t].ustack # th[u].ustack
    /\ \A p \in Lw!Proc, t \in Lw!Thread : pr[p].state = "RUNNABLE" /\ Serves(p, t) =>
            th[t].ustack # 0 /\ pr[p].check[th[t].ustack]
    /\ \A t, u \in Lw!Thread : Builds(t, {"create_find", "create_store"}) /\ k[t].u = u =>
        LET s == th[u].ustack IN
        s # 0 /\ pr[Lw!My(t)].check[s] /\ \A w \in Lw!Thread : Serves(Lw!My(t), w) => th[w].ustack # s

\* Nobody sleeps in thread_join() for a thread that has ended, but for the time until
\* that thread calls wakeup().
AwaitedOf(t) ==
    th[t].state = "SLEEPING" /\ k[t].at = "joined" =>
        /\ k[t].u \in Lw!Thread /\ th[t].chan = <<"thread", k[t].u>>
        /\ th[k[t].u].state \in {"ZOMBIE", "UNUSED"} =>
            \/ k[k[t].u].at = "exit_wakeup" /\ Lw!Running(k[t].u)
            \/ \E x \in Lw!Thread : Lw!My(x) = Lw!My(t) /\ Builds(x, {"exit_mark", "exec"})

Awaited == \A t \in Lw!Thread : AwaitedOf(t)

\* An entry in use belongs to a process or to a call under way, unless a call was lost.
Kept ==
    ~ lossy => \A t \in Lw!Thread : th[t].state # "UNUSED" =>
        (\E p \in Lw!Proc : Member(p, t)) \/ \E x \in Lw!Thread : Builds(x, BuildAt) /\ k[x].u = t

\* The inductive invariant, up to the first overlap.
Core ==
    /\ MembersApart /\ ProcStates /\ MemberEntries /\ Homes
    /\ StacksHeld /\ NewEntries /\ NewProcs
    /\ OneRuns /\ CallStates /\ Joining /\ Exiting /\ Execing
    /\ UserStacks /\ Kept

ThreadInv == Tables /\ Awaited /\ (overlap \/ Core)

--------------------------------------------------------------------------------

\* What a table entry is made of.
LEMMA EntryTypes ==
    ASSUME Tables
    PROVE  /\ \A t \in Lw!Thread :
                /\ th[t].state \in Lw!State /\ th[t].process \in 0 .. NPROC /\ th[t].tid \in 0 .. NTHREAD
                /\ th[t].kstack \in 0 .. NTHREAD /\ th[t].ustack \in 0 .. NTHREAD
                /\ k[t].at \in Places /\ k[t].u \in 0 .. NTHREAD /\ k[t].q \in 0 .. NPROC
                /\ k[t].i \in 0 .. NTHREAD + 1
           /\ \A p \in Lw!Proc :
                /\ pr[p].state \in Lw!State /\ pr[p].parent \in 0 .. NPROC /\ pr[p].killed \in BOOLEAN
                /\ pr[p].master \in 0 .. NTHREAD
                /\ pr[p].workers \in [Lw!Thread -> 0 .. NTHREAD] /\ pr[p].check \in [Lw!Thread -> BOOLEAN]
<1>1. \A t \in Lw!Thread : th[t] \in ThreadEntry /\ k[t] \in CallEntry
  BY DEF Tables
<1>2. \A p \in Lw!Proc : pr[p] \in ProcEntry
  BY DEF Tables
<1> QED
  BY <1>1, <1>2 DEF ThreadEntry, CallEntry, ProcEntry

\* With one processor, one thread runs.
LEMMA OneThreadRuns ==
    ASSUME OneProcessor, Tables
    PROVE  /\ 1 \in Lw!CPU /\ \A c \in Lw!CPU : c = 1
           /\ \A t : Lw!Running(t) <=> cpu[1] = t
           /\ \A s, t : Lw!Running(s) /\ Lw!Running(t) => s = t
BY DEF OneProcessor, Tables, Lw!CPU, Lw!Running

\* A thread that runs makes its calls for a process that is there.
LEMMA RunnerFacts ==
    ASSUME OneProcessor, Tables, Homes, CallStates, NEW t \in Lw!Thread, Lw!Running(t)
    PROVE  /\ Lw!My(t) \in Lw!Proc /\ Member(Lw!My(t), t) /\ pr[Lw!My(t)].state = "RUNNABLE"
           /\ k[t].at \notin {"exit_wakeup", "exit_sched"} => th[t].state = "RUNNING" /\ Able(t) /\ Alive(t)
           /\ \A s \in Lw!Thread : Lw!Running(s) => s = t
BY OneThreadRuns DEF Homes, CallStates, CallStateOf, Able, Alive

Underway(t) == Builds(t, BuildAt \cup ForkAt)

\* A process that exits in this step: none of its threads can run any more.
Ended(p) ==
    /\ pr[p].state = "RUNNABLE" /\ pr'[p].state = "ZOMBIE"
    /\ \A x \in Lw!Thread : Lw!My(x) = p => ~ Alive(x)' /\ ~ Lw!Running(x)'

\* A step that leaves the tables' links as they are, starts no building and lets
\* nobody live who did not.
Steady ==
    /\ stacks' = stacks /\ fault' = fault
    /\ \A p \in Lw!Proc : /\ pr'[p].state = pr[p].state \/ Ended(p)
                          /\ pr'[p].master = pr[p].master
                          /\ pr'[p].workers = pr[p].workers /\ pr'[p].check = pr[p].check
    /\ \A t \in Lw!Thread :
        /\ th'[t].process = th[t].process /\ th'[t].tid = th[t].tid
        /\ th'[t].kstack = th[t].kstack /\ th'[t].ustack = th[t].ustack
        /\ th'[t].state = "UNUSED" => th[t].state = "UNUSED"
        /\ th[t].state \in {"EMBRYO", "ZOMBIE"} => th'[t].state \in {"EMBRYO", "ZOMBIE"}
        /\ Alive(t)' \/ Lw!Running(t)' => Alive(t) \/ Lw!Running(t)
        /\ Underway(t)' => Underway(t) /\ k'[t] = k[t]
    /\ ~ lossy' => /\ ~ lossy
                   /\ \A t \in Lw!Thread : /\ th[t].state = "UNUSED" => th'[t].state = "UNUSED"
                                           /\ Underway(t) => Underway(t)' /\ k'[t] = k[t]

\* A steady step leaves every thread the process it is a thread of.
LEMMA SteadyMembers ==
    ASSUME Steady
    PROVE  /\ \A p \in Lw!Proc : \A t : (Member(p, t)' <=> Member(p, t)) /\ (Serves(p, t)' <=> Serves(p, t))
           /\ \A t : HasStack(t)' => HasStack(t)
           /\ \A t \in Lw!Thread : /\ Builds(t, BuildAt)' => Builds(t, BuildAt) /\ k'[t] = k[t]
                                   /\ Builds(t, ForkAt)' => Builds(t, ForkAt) /\ k'[t] = k[t]
                                   /\ Builds(t, StackAt)' => Builds(t, StackAt) /\ k'[t] = k[t]
<1>1. \A p \in Lw!Proc : \A t : (Member(p, t)' <=> Member(p, t)) /\ (Serves(p, t)' <=> Serves(p, t))
  BY DEF Steady, Member, Serves
<1>2. \A t \in Lw!Thread : /\ Builds(t, BuildAt)' => Builds(t, BuildAt) /\ k'[t] = k[t]
                           /\ Builds(t, ForkAt)' => Builds(t, ForkAt) /\ k'[t] = k[t]
                           /\ Builds(t, StackAt)' => Builds(t, StackAt) /\ k'[t] = k[t]
  <2> SUFFICES ASSUME NEW t \in Lw!Thread, NEW S \in {BuildAt, ForkAt, StackAt}, Builds(t, S)'
               PROVE  Builds(t, S) /\ k'[t] = k[t]
    OBVIOUS
  <2>1. S \subseteq BuildAt \cup ForkAt
    BY DEF BuildAt
  <2>2. Underway(t)'
    BY <2>1 DEF Underway, Builds, Able
  <2>3. Able(t) /\ k'[t] = k[t]
    BY <2>2 DEF Steady, Underway, Builds
  <2> QED
    BY <2>3 DEF Builds
<1> QED
  BY <1>1, <1>2 DEF HasStack

\* ... and every process its state, unless it exits.
LEMMA SteadyStates ==
    ASSUME Steady
    PROVE  \A p \in Lw!Proc : /\ pr'[p].state # pr[p].state => pr[p].state = "RUNNABLE" /\ pr'[p].state = "ZOMBIE"
                              /\ pr'[p].state \in {"RUNNABLE", "ZOMBIE"} <=> pr[p].state \in {"RUNNABLE", "ZOMBIE"}
                              /\ pr'[p].state = "RUNNABLE" => pr[p].state = "RUNNABLE"
BY DEF Steady, Ended

\* A steady step keeps what the invariant says of the links between the tables ...
LEMMA SteadyKeepsMembers ==
    ASSUME OneProcessor, Tables, Steady, MembersApart, ProcStates, MemberEntries, Homes
    PROVE  MembersApart' /\ ProcStates' /\ MemberEntries' /\ Homes'
<1>1. MembersApart'
  <2>1. \A p \in Lw!Proc : ~ Serves(p, pr[p].master)'
    BY SteadyMembers DEF MembersApart, Steady, Serves
  <2> QED
    BY <2>1, SteadyMembers DEF MembersApart, Steady
<1>2. ProcStates'
  <2> SUFFICES ASSUME NEW p \in Lw!Proc, pr'[p].state \in {"RUNNABLE", "ZOMBIE"}
               PROVE  th'[pr'[p].master].process = p
    BY SteadyStates DEF ProcStates, Steady
  <2>1. pr[p].master # 0 /\ th[pr[p].master].process = p /\ pr'[p].master = pr[p].master
    BY SteadyStates DEF ProcStates, Steady
  <2>2. pr[p].master \in Lw!Thread
    BY <2>1, EntryTypes DEF OneProcessor, Lw!Thread
  <2> QED
    BY <2>1, <2>2 DEF Steady
<1>3. MemberEntries'
  BY SteadyMembers DEF MemberEntries, Steady
<1>4. Homes'
  <2> SUFFICES ASSUME NEW t \in Lw!Thread, Alive(t)' \/ Lw!Running(t)'
               PROVE  Lw!My(t)' \in Lw!Proc /\ Member(Lw!My(t), t)' /\ pr'[Lw!My(t)'].state = "RUNNABLE"
    BY DEF Homes
  <2>1. Lw!My(t) \in Lw!Proc /\ Member(Lw!My(t), t) /\ pr[Lw!My(t)].state = "RUNNABLE" /\ Lw!My(t)' = Lw!My(t)
    BY DEF Homes, Steady, Lw!My
  <2>2. Member(Lw!My(t), t)'
    BY <2>1 DEF Steady, Member, Serves
  <2>3. pr'[Lw!My(t)].state = "RUNNABLE"
    BY <2>1 DEF Steady, Ended
  <2> QED
    BY <2>1, <2>2, <2>3
<1> QED
  BY <1>1, <1>2, <1>3, <1>4

\* ... and of the threads and processes that are being made.
LEMMA SteadyKeepsMaking ==
    ASSUME Steady, Homes, StacksHeld, NewEntries, NewProcs, UserStacks, Kept, Tables
    PROVE  StacksHeld' /\ NewEntries' /\ NewProcs' /\ UserStacks' /\ Kept'
<1>1. StacksHeld'
  BY SteadyMembers DEF StacksHeld, Steady
<1>2. NewEntries'
  <2>1. ASSUME NEW t \in Lw!Thread, NEW u \in 0 .. NTHREAD, Builds(t, BuildAt)', k'[t].u = u
        PROVE  NewEntryOf(t, u)'
    <3>1. Builds(t, BuildAt) /\ k'[t] = k[t] /\ NewEntryOf(t, u)
      BY <2>1, SteadyMembers DEF NewEntries
    <3>2. th'[u].state \in {"EMBRYO", "ZOMBIE"} /\ ~ Lw!Running(u)'
      BY <3>1 DEF NewEntryOf, Steady, Alive
    <3>3. Lw!My(t)' = Lw!My(t) /\ Lw!My(t) \in Lw!Proc
      BY <3>1 DEF Steady, Lw!My, Homes, Builds, Able, Alive
    <3>4. \A p \in Lw!Proc : Member(p, u)' => k[t].at \in {"fork_copy", "fork_run"} /\ p = k[t].q
      BY <3>1, SteadyMembers DEF NewEntryOf
    <3>5. k[t].at \in {"fork_copy", "fork_run"} => k[t].q \in Lw!Proc
      BY <3>1 DEF NewProcs, Builds, ForkAt
    <3> QED
      BY <3>1, <3>2, <3>3, <3>4, <3>5 DEF NewEntryOf, Steady
  <2> QED
    BY <2>1, SteadyMembers DEF NewEntries
<1>3. NewProcs'
  BY SteadyMembers, SteadyStates DEF NewProcs, Steady
<1>4. UserStacks'
  <2>1. ASSUME NEW t \in Lw!Thread, NEW u \in Lw!Thread, Builds(t, {"create_find", "create_store"})', k'[t].u = u
        PROVE  LET s == th'[u].ustack IN
               s # 0 /\ pr'[Lw!My(t)'].check[s] /\ \A w \in Lw!Thread : Serves(Lw!My(t), w)' => th'[w].ustack # s
    <3>1. Builds(t, BuildAt)'
      BY <2>1 DEF Builds, BuildAt, StackAt
    <3>2. Builds(t, BuildAt) /\ k'[t] = k[t]
      BY <3>1, SteadyMembers
    <3>3. Builds(t, {"create_find", "create_store"}) /\ k[t].u = u
      BY <2>1, <3>2 DEF Builds
    <3>4. Lw!My(t)' = Lw!My(t) /\ Lw!My(t) \in Lw!Proc
      BY <3>2 DEF Steady, Lw!My, Homes, Builds, Able, Alive
    <3>5. \A w \in Lw!Thread : Serves(Lw!My(t), w)' <=> Serves(Lw!My(t), w)
      BY <3>4 DEF Steady, Serves
    <3> QED
      BY <3>2, <3>3, <3>4, <3>5 DEF UserStacks, Steady
  <2> QED
    BY <2>1, SteadyMembers, SteadyStates DEF UserStacks, Steady
<1>5. Kept'
  <2> SUFFICES ASSUME ~ lossy', NEW t \in Lw!Thread, th'[t].state # "UNUSED"
               PROVE  (\E p \in Lw!Proc : Member(p, t)') \/ \E x \in Lw!Thread : Builds(x, BuildAt)' /\ k'[x].u = t
    BY DEF Kept
  <2>1. CASE \E p \in Lw!Proc : Member(p, t)
    BY <2>1, SteadyMembers
  <2>2. ASSUME NEW x \in Lw!Thread, Builds(x, BuildAt), k[x].u = t PROVE Builds(x, BuildAt)' /\ k'[x].u = t
    BY <2>2 DEF Steady, Underway, Builds
  <2> QED
    BY <2>1, <2>2 DEF Kept, Steady
<1> QED
  BY <1>1, <1>2, <1>3, <1>4, <1>5

\* A thread whose call stays where it is; it may be woken.
GoesOn(x) ==
    /\ k'[x] = k[x] /\ Lw!My(x)' = Lw!My(x)
    /\ th'[x] = th[x] \/ (th[x].state = "SLEEPING" /\ th'[x] = [th[x] EXCEPT !.state = "RUNNABLE"])

\* t, if it is a thread at all, is the one that runs; it leaves a call that stops its siblings
\* when it has stopped them.
Alone(t) ==
    /\ t \in Lw!Thread => Lw!Running(t)
    /\ t \in Lw!Thread /\ k[t].at \in {"exec", "exit_mark"} =>
            (Able(t)' /\ k'[t].at = k[t].at) \/ \A x \in Lw!Thread : x # t /\ Lw!My(x) = Lw!My(t) => ~ Alive(x)
    /\ \A x \in Lw!Thread : x # t => GoesOn(x)
    /\ \A x \in Lw!Thread : (Lw!Running(x)' => Lw!Running(x)) /\ (x # t /\ Lw!Running(x) => Lw!Running(x)')
    /\ \A x \in Lw!Thread : x # t /\ th'[x].state = "SLEEPING" /\ k[x].at = "joined" /\ k[x].u = t
                         /\ t \in Lw!Thread /\ th'[t].state \in {"ZOMBIE", "UNUSED"} =>
            \/ k'[t].at = "exit_wakeup" /\ Lw!Running(t)'
            \/ th[t].state \in {"ZOMBIE", "UNUSED"} /\ k[t].at # "exit_wakeup"
            \/ \E y \in Lw!Thread : Lw!My(y) = Lw!My(x) /\ Builds(y, {"exit_mark", "exec"})

\* The calls of the threads other than the one that runs go on as they were.
LEMMA CourseOfOthers ==
    ASSUME OneProcessor, Tables, Awaited, Core, Steady, NEW t, Alone(t)
    PROVE  /\ OneRuns'
           /\ \A x \in Lw!Thread : x # t => CallStateOf(x)' /\ JoiningOf(x)' /\ ExitingOf(x)' /\ ExecingOf(x)' /\ AwaitedOf(x)'
<1>1. \A x \in Lw!Thread : Lw!My(x)' = Lw!My(x) /\ (Alive(x)' => Alive(x))
  <2> TAKE x \in Lw!Thread
  <2>1. Lw!Running(x) /\ ~ Alive(x) => th[x].state = "ZOMBIE"
    BY DEF Core, CallStates, CallStateOf, Alive
  <2>2. th[x].state = "ZOMBIE" => ~ Alive(x)'
    BY DEF Steady, Alive
  <2> QED
    BY <2>1, <2>2 DEF Steady, Lw!My
<1>2. ASSUME NEW x \in Lw!Thread, x # t
      PROVE  /\ k'[x] = k[x] /\ (Able(x)' => Able(x) \/ k[x].at \in {"asleep", "joined", "waiting"})
             /\ (th'[x].state = "SLEEPING" => th'[x] = th[x] /\ th[x].state = "SLEEPING")
             /\ (th'[x].state = "RUNNING" => th[x].state = "RUNNING")
             /\ (th'[x].state \in {"ZOMBIE", "UNUSED"} => th'[x].state = th[x].state)
             /\ (Able(x) => Able(x)')
  <2>1. th[x] \in ThreadEntry
    BY DEF Tables
  <2>2. [th[x] EXCEPT !.state = "RUNNABLE"].state = "RUNNABLE"
    BY <2>1 DEF ThreadEntry
  <2> QED
    BY <1>2, <2>2 DEF Alone, GoesOn, Able, Core, CallStates, CallStateOf
<1>3. OneRuns'
  <2> SUFFICES ASSUME NEW s \in Lw!Thread, NEW x \in Lw!Thread, Lw!Running(s)', x # s, Lw!My(x)' = Lw!My(s)', Able(x)'
               PROVE  k'[x].at \notin AloneAt
    BY DEF OneRuns
  <2>1. Lw!Running(s)
    BY DEF Alone
  <2>2. x # t
    BY <2>1, OneThreadRuns DEF Alone
  <2>3. Able(x) => k[x].at \notin AloneAt
    BY <1>1, <2>1 DEF Core, OneRuns
  <2> QED
    BY <1>2, <2>2, <2>3 DEF AloneAt
<1>4. ASSUME NEW x \in Lw!Thread, x # t PROVE CallStateOf(x)'
  <2>1. CallStateOf(x)
    BY DEF Core, CallStates
  <2>2. Lw!Running(x) => t \notin Lw!Thread
    BY <1>4, OneThreadRuns DEF Alone
  <2>3. Lw!Running(x)' => Lw!Running(x)
    BY DEF Alone
  <2>4. th'[x].state = "RUNNING" => Lw!Running(x)'
    <3>1. th'[x].state = "RUNNING" => Lw!Running(x)
      BY <1>2, <1>4, <2>1 DEF CallStateOf
    <3> QED
      BY <1>4, <3>1 DEF Alone
  <2> QED
    BY <1>2, <1>4, <2>1, <2>3, <2>4 DEF CallStateOf, Alone, GoesOn, Able
<1>5. ASSUME NEW x \in Lw!Thread, x # t PROVE JoiningOf(x)'
  <2> SUFFICES ASSUME Alive(x)', k'[x].at = "joined"
               PROVE  \/ pr'[Lw!My(x)'].master = x /\ Serves(Lw!My(x), k[x].u)'
                      \/ \E y \in Lw!Thread \ {x} : Lw!My(y)' = Lw!My(x)' /\ Builds(y, {"exec"})'
    BY DEF JoiningOf
  <2>1. k'[x] = k[x] /\ Alive(x) /\ Lw!My(x)' = Lw!My(x) /\ Lw!My(x) \in Lw!Proc
    BY <1>1, <1>2, <1>5 DEF Core, Homes
  <2>2. CASE pr[Lw!My(x)].master = x /\ Serves(Lw!My(x), k[x].u)
    BY <2>1, <2>2 DEF Steady, Serves
  <2>3. ASSUME NEW y \in Lw!Thread \ {x}, Lw!My(y) = Lw!My(x), Builds(y, {"exec"})
        PROVE  Lw!My(y)' = Lw!My(x)' /\ Builds(y, {"exec"})'
    <3>1. Lw!My(y)' = Lw!My(x)'
      BY <1>1, <2>3
    <3>2. y # t => Builds(y, {"exec"})'
      BY <1>2, <2>3 DEF Builds
    <3>3. y = t => Builds(y, {"exec"})'
      BY <2>1, <2>3, <1>5 DEF Builds, Alone
    <3> QED
      BY <3>1, <3>2, <3>3
  <2> QED
    BY <2>1, <2>2, <2>3 DEF Core, Joining, JoiningOf
<1>6. ASSUME NEW x \in Lw!Thread, x # t PROVE ExitingOf(x)'
  BY <1>1, <1>2, <1>6 DEF Core, Exiting, ExitingOf, Builds
<1>7. ASSUME NEW x \in Lw!Thread, x # t PROVE ExecingOf(x)'
  <2> SUFFICES ASSUME Builds(x, {"exec"})'
               PROVE  k'[x].i >= 1 /\ \A j \in Lw!Thread : j < k'[x].i => pr'[Lw!My(x)'].workers[j] = 0
    BY DEF ExecingOf
  <2>1. Builds(x, {"exec"}) /\ k'[x] = k[x] /\ Lw!My(x)' = Lw!My(x)
    BY <1>1, <1>2, <1>7 DEF Builds
  <2>2. Lw!My(x) \in Lw!Proc
    BY <2>1 DEF Core, Homes, Builds, Able, Alive
  <2> QED
    BY <2>1, <2>2 DEF Core, Execing, ExecingOf, Steady
<1>8. ASSUME NEW x \in Lw!Thread, x # t PROVE AwaitedOf(x)'
  <2> SUFFICES ASSUME th'[x].state = "SLEEPING", k'[x].at = "joined"
               PROVE  AwaitedOf(x)'
    BY DEF AwaitedOf
  <2>1. /\ k'[x] = k[x] /\ th'[x] = th[x] /\ th[x].state = "SLEEPING" /\ AwaitedOf(x) /\ Alive(x) /\ Lw!My(x)' = Lw!My(x)
    BY <1>1, <1>2, <1>8 DEF Awaited, Alive
  <2>2. k[x].u \in Lw!Thread /\ th[x].chan = <<"thread", k[x].u>>
    BY <2>1 DEF AwaitedOf
  <2>3. ASSUME NEW y \in Lw!Thread, Lw!My(y) = Lw!My(x), Builds(y, {"exit_mark", "exec"})
        PROVE  Lw!My(y)' = Lw!My(x)' /\ Builds(y, {"exit_mark", "exec"})'
    <3>1. Lw!My(y)' = Lw!My(x)'
      BY <1>1, <2>3
    <3>2. y # t => Builds(y, {"exit_mark", "exec"})'
      BY <1>2, <2>3 DEF Builds
    <3>3. y = t => Builds(y, {"exit_mark", "exec"})'
      BY <2>1, <2>3, <1>8 DEF Builds, Alone
    <3> QED
      BY <3>1, <3>2, <3>3
  <2>4. CASE \E y \in Lw!Thread : Lw!My(y) = Lw!My(x) /\ Builds(y, {"exit_mark", "exec"})
    BY <2>1, <2>2, <2>3, <2>4 DEF AwaitedOf
  <2>5. CASE k[x].u # t /\ ~ \E y \in Lw!Thread : Lw!My(y) = Lw!My(x) /\ Builds(y, {"exit_mark", "exec"})
    <3>1. PICK v \in Lw!Thread : v = k[x].u
      BY <2>2
    <3>2. th'[v].state \in {"ZOMBIE", "UNUSED"} => k[v].at = "exit_wakeup" /\ Lw!Running(v)
      BY <1>2, <2>1, <2>5, <3>1 DEF AwaitedOf
    <3>3. (Lw!Running(v) => Lw!Running(v)') /\ k'[v] = k[v]
      BY <1>2, <2>5, <3>1 DEF Alone
    <3>4. th'[x].chan = <<"thread", k'[x].u>> /\ k'[x].u = v
      BY <2>1, <2>2, <3>1
    <3> QED
      BY <3>2, <3>3, <3>4, <3>1 DEF AwaitedOf
  <2>6. CASE k[x].u = t /\ ~ \E y \in Lw!Thread : Lw!My(y) = Lw!My(x) /\ Builds(y, {"exit_mark", "exec"})
    <3>1. th'[t].state \in {"ZOMBIE", "UNUSED"} =>
            (k'[t].at = "exit_wakeup" /\ Lw!Running(t)') \/ (th[t].state \in {"ZOMBIE", "UNUSED"} /\ k[t].at # "exit_wakeup")
      BY <1>8, <2>1, <2>2, <2>6 DEF Alone
    <3>2. ~ (th[t].state \in {"ZOMBIE", "UNUSED"} /\ k[t].at # "exit_wakeup")
      BY <2>1, <2>6 DEF AwaitedOf
    <3> QED
      BY <2>1, <2>2, <2>6, <3>1, <3>2 DEF AwaitedOf
  <2> QED
    BY <2>4, <2>5, <2>6
<1> QED
  BY <1>3, <1>4, <1>5, <1>6, <1>7, <1>8

\* A steady step of t keeps the invariant if it keeps the part about t.
LEMMA SteadyStep ==
    ASSUME OneProcessor, Tables, Awaited, Core, Steady, NEW t, Alone(t), Tables',
           t \in Lw!Thread => CallStateOf(t)' /\ JoiningOf(t)' /\ ExitingOf(t)' /\ ExecingOf(t)' /\ AwaitedOf(t)'
    PROVE  ThreadInv'
<1>1. MembersApart' /\ ProcStates' /\ MemberEntries' /\ Homes'
  BY SteadyKeepsMembers DEF Core
<1>2. StacksHeld' /\ NewEntries' /\ NewProcs' /\ UserStacks' /\ Kept'
  BY SteadyKeepsMaking DEF Core
<1>3. OneRuns' /\ CallStates' /\ Joining' /\ Exiting' /\ Execing' /\ Awaited'
  BY CourseOfOthers DEF CallStates, Joining, Exiting, Execing, Awaited
<1> QED
  BY <1>1, <1>2, <1>3 DEF ThreadInv, Core

--------------------------------------------------------------------------------
(* Scheduling *)

\* What wakeup() leaves of an entry.
LEMMA WokenEntry ==
    ASSUME Tables, NEW x \in Lw!Thread,
           th'[x] = th[x] \/ (th[x].state = "SLEEPING" /\ th'[x] = [th[x] EXCEPT !.state = "RUNNABLE"])
    PROVE  /\ th'[x] \in ThreadEntry
           /\ th'[x].process = th[x].process /\ th'[x].tid = th[x].tid
           /\ th'[x].kstack = th[x].kstack /\ th'[x].ustack = th[x].ustack /\ th'[x].chan = th[x].chan
           /\ th'[x].state = th[x].state \/ (th[x].state = "SLEEPING" /\ th'[x].state = "RUNNABLE")
<1>1. th[x] \in ThreadEntry
  BY DEF Tables
<1>2. [th[x] EXCEPT !.state = "RUNNABLE"] \in ThreadEntry
  BY <1>1 DEF ThreadEntry, Lw!State
<1> QED
  BY <1>1, <1>2 DEF ThreadEntry

\* A thread that runs has pttable.lock when it comes back from sleep().
LEMMA LockFacts ==
    ASSUME OneProcessor, Tables, NEW t \in Lw!Thread, Lw!Running(t)
    PROVE  Lw!LockHeld <=> k[t].at \in {"joined", "waiting"}
BY OneThreadRuns DEF Lw!LockHeld, Lw!Thread, OneProcessor

\* The processor goes back to scheduler().
LEMMA SchedFacts ==
    ASSUME OneProcessor, Tables, NEW t \in Lw!Thread, Lw!Running(t), Lw!sched(t)
    PROVE  (\A x \in Lw!Thread : ~ Lw!Running(x)') /\ cpu' \in [Lw!CPU -> 0 .. NTHREAD]
<1>1. cpu' = [c \in Lw!CPU |-> 0]
  BY OneThreadRuns DEF Lw!sched
<1> QED
  BY <1>1 DEF Lw!Running, Lw!Thread, OneProcessor

\* A clock tick keeps the invariant.
LEMMA YieldStep ==
    ASSUME OneProcessor, Tables, Awaited, Core, NEW t \in Lw!Thread, Lw!yield(t)
    PROVE  ThreadInv'
<1>1. /\ \A x \in Lw!Thread : x # t => th'[x] = th[x]
      /\ th'[t].state = "RUNNABLE" /\ th[t].state = "RUNNING"
      /\ th'[t].process = th[t].process /\ th'[t].tid = th[t].tid
      /\ th'[t].kstack = th[t].kstack /\ th'[t].ustack = th[t].ustack
      /\ th' \in [Lw!Thread -> ThreadEntry]
      /\ Lw!Running(t) /\ Lw!sched(t) /\ UNCHANGED <<pr, k, stacks, fault, lossy, overlap>>
  <2>1. th[t] \in ThreadEntry /\ "RUNNABLE" \in Lw!State
    BY DEF Tables, Lw!State
  <2> QED
    BY <2>1 DEF Lw!yield, Tables, ThreadEntry
<1>2. (\A x \in Lw!Thread : ~ Lw!Running(x)') /\ cpu' \in [Lw!CPU -> 0 .. NTHREAD]
  BY <1>1, SchedFacts
<1>3. \A x \in Lw!Thread : Lw!Running(x) => x = t
  BY <1>1, OneThreadRuns
<1>4. \A x \in Lw!Thread : Lw!My(x)' = Lw!My(x) /\ (Alive(x)' <=> Alive(x)) /\ (Able(x)' <=> Able(x))
  BY <1>1 DEF Lw!My, Alive, Able
<1>5. Tables'
  BY <1>1, <1>2 DEF Tables
<1>6. Steady
  BY <1>1, <1>2, <1>4 DEF Steady, Underway, Builds
<1>7. Alone(t)
  BY <1>1, <1>2, <1>3, <1>4 DEF Alone, GoesOn, Able
<1>8. CallStateOf(t)' /\ JoiningOf(t)' /\ ExitingOf(t)' /\ ExecingOf(t)' /\ AwaitedOf(t)'
  <2>1. CallStateOf(t) /\ JoiningOf(t) /\ ExitingOf(t) /\ ExecingOf(t)
    BY DEF Core, CallStates, Joining, Exiting, Execing
  <2>2. CallStateOf(t)' /\ AwaitedOf(t)'
    BY <1>1, <1>2, <2>1 DEF CallStateOf, AwaitedOf, Able
  <2>3. JoiningOf(t)'
    BY <1>1, <1>4, <2>1 DEF JoiningOf, Serves, Builds
  <2>4. ExitingOf(t)' /\ ExecingOf(t)'
    BY <1>1, <1>4, <2>1 DEF ExitingOf, ExecingOf, Builds
  <2> QED
    BY <2>2, <2>3, <2>4
<1> QED
  BY <1>5, <1>6, <1>7, <1>8, SteadyStep

\* Waking those who sleep for ticks keeps the invariant.
LEMMA WakeupStep ==
    ASSUME OneProcessor, Tables, Awaited, Core, Lw!wakeup
    PROVE  ThreadInv'
<1>1. \A x \in Lw!Thread : th'[x] = th[x] \/ (th[x].state = "SLEEPING" /\ th'[x] = [th[x] EXCEPT !.state = "RUNNABLE"])
  BY DEF Lw!wakeup, Lw!Woken
<1>2. \A x \in Lw!Thread : th'[x] \in ThreadEntry
  BY <1>1, WokenEntry
<1>3. \A x \in Lw!Thread :
        /\ th'[x].process = th[x].process /\ th'[x].tid = th[x].tid
        /\ th'[x].kstack = th[x].kstack /\ th'[x].ustack = th[x].ustack
        /\ th'[x].state = th[x].state \/ (th[x].state = "SLEEPING" /\ th'[x].state = "RUNNABLE")
  BY <1>1, WokenEntry
<1>4. k' = k /\ cpu' = cpu /\ \A x : Lw!Running(x)' <=> Lw!Running(x)
  BY DEF Lw!wakeup, Lw!Running
<1>5. Tables'
  BY <1>2, <1>4 DEF Tables, Lw!wakeup, Lw!Woken
<1>6. Steady
  <2>1. \A x \in Lw!Thread : Underway(x)' <=> Underway(x)
    <3> SUFFICES ASSUME NEW x \in Lw!Thread, th[x].state = "SLEEPING" PROVE k[x].at \notin BuildAt \cup ForkAt
      BY <1>3, <1>4 DEF Underway, Builds, Able
    <3> QED
      BY DEF Core, CallStates, CallStateOf, BuildAt, StackAt, ForkAt
  <2> QED
    BY <1>3, <1>4, <2>1 DEF Steady, Lw!wakeup, Alive
<1>7. Alone(0)
  BY <1>1, <1>3, <1>4 DEF Alone, GoesOn, Lw!My, Lw!Thread
<1> QED
  BY <1>5, <1>6, <1>7, SteadyStep DEF Lw!Thread

\* scheduler() keeps the invariant, unless the thread it chooses overtakes a sibling.
LEMMA SchedulerStep ==
    ASSUME OneProcessor, Tables, Awaited, Core, NEW c \in Lw!CPU, NEW t \in Lw!Thread, Lw!scheduler(c, t)
    PROVE  ThreadInv'
<1>1. /\ \A x \in Lw!Thread : x # t => th'[x] = th[x] /\ k'[x] = k[x]
      /\ th'[t].state = "RUNNING" /\ th[t].state = "RUNNABLE"
      /\ th'[t].process = th[t].process /\ th'[t].tid = th[t].tid
      /\ th'[t].kstack = th[t].kstack /\ th'[t].ustack = th[t].ustack
      /\ th' \in [Lw!Thread -> ThreadEntry] /\ k' \in [Lw!Thread -> CallEntry]
      /\ IF k[t].at = "asleep" THEN k'[t].at = "user" ELSE k'[t] = k[t]
  <2>1. /\ th[t] \in ThreadEntry /\ "RUNNING" \in Lw!State /\ Lw!NOCHAN \in Channels \X Nat
        /\ Lw!InUser \in CallEntry
    BY DEF Tables, Lw!State, Lw!NOCHAN, Channels, Lw!InUser, CallEntry, Places, OneProcessor
  <2> QED
    BY <2>1 DEF Lw!scheduler, Tables, ThreadEntry, Lw!InUser
<1>2. /\ \A x \in Lw!Thread : ~ Lw!Running(x)
      /\ \A x \in Lw!Thread : Lw!Running(x)' <=> x = t
      /\ cpu' \in [Lw!CPU -> 0 .. NTHREAD]
  BY OneThreadRuns DEF Lw!scheduler, Lw!Running, Tables, Lw!Thread, OneProcessor
<1>3. /\ \A x \in Lw!Thread : Lw!My(x)' = Lw!My(x) /\ (Alive(x)' <=> Alive(x)) /\ (Able(x)' <=> Able(x))
      /\ \A x \in Lw!Thread : k'[x] = k[x] \/ (k[x].at = "asleep" /\ k'[x].at = "user")
  BY <1>1 DEF Lw!My, Alive, Able
<1>4. Tables'
  BY <1>1, <1>2 DEF Tables, Lw!scheduler, Lw!Overlaps
<1>5. Steady
  <2>1. \A x \in Lw!Thread : Underway(x)' <=> (Underway(x) /\ k'[x] = k[x])
    BY <1>3 DEF Underway, Builds, BuildAt, StackAt, ForkAt
  <2>2. \A x \in Lw!Thread : Underway(x) => k'[x] = k[x]
    BY <1>3 DEF Underway, Builds, BuildAt, StackAt, ForkAt
  <2> QED
    BY <1>1, <1>2, <1>3, <2>1, <2>2 DEF Steady, Lw!scheduler, Alive
<1>6. MembersApart' /\ ProcStates' /\ MemberEntries' /\ Homes'
  BY <1>5, SteadyKeepsMembers DEF Core
<1>7. StacksHeld' /\ NewEntries' /\ NewProcs' /\ UserStacks' /\ Kept'
  BY <1>5, SteadyKeepsMaking DEF Core
<1>8. ~ overlap' => OneRuns'
  <2> SUFFICES ASSUME ~ overlap', NEW s \in Lw!Thread, NEW x \in Lw!Thread, Lw!Running(s)', x # s,
          Lw!My(x)' = Lw!My(s)', Able(x)'
               PROVE  k'[x].at \notin AloneAt
    BY DEF OneRuns
  <2>1. s = t /\ Lw!My(x) = Lw!My(t) /\ Able(x) /\ k'[x] = k[x]
    BY <1>1, <1>2, <1>3
  <2>2. ~ Lw!Overlaps(t)
    BY DEF Lw!scheduler
  <2> QED
    BY <2>1, <2>2 DEF Lw!Overlaps, AloneAt, Able
<1>9. CallStates'
  <2>1. \A x \in Lw!Thread : CallStateOf(x)
    BY DEF Core, CallStates
  <2> QED
    BY <1>1, <1>2, <2>1 DEF CallStates, CallStateOf, Able
<1>10. \A x \in Lw!Thread, S \in {{"exec"}, {"exit_mark"}, {"exit_mark", "exec"}} :
         Builds(x, S)' <=> Builds(x, S) /\ k'[x] = k[x]
  BY <1>3 DEF Builds
<1>11. Joining'
  <2> SUFFICES ASSUME NEW x \in Lw!Thread, Alive(x)', k'[x].at = "joined"
               PROVE  \/ pr'[Lw!My(x)'].master = x /\ Serves(Lw!My(x), k[x].u)'
                      \/ \E y \in Lw!Thread \ {x} : Lw!My(y)' = Lw!My(x)' /\ Builds(y, {"exec"})'
    BY <1>3 DEF Joining, JoiningOf
  <2>1. Alive(x) /\ k'[x] = k[x] /\ JoiningOf(x) /\ pr' = pr
    BY <1>3 DEF Core, Joining, Lw!scheduler
  <2>2. \A y \in Lw!Thread : Builds(y, {"exec"}) => Builds(y, {"exec"})'
    BY <1>3 DEF Builds
  <2> QED
    BY <1>3, <2>1, <2>2 DEF JoiningOf, Serves
<1>12. Exiting' /\ Execing'
  <2> SUFFICES ASSUME NEW x \in Lw!Thread PROVE ExitingOf(x)' /\ ExecingOf(x)'
    BY DEF Exiting, Execing
  <2>1. ExitingOf(x) /\ ExecingOf(x) /\ pr' = pr
    BY DEF Core, Exiting, Execing, Lw!scheduler
  <2> QED
    BY <1>3, <1>10, <2>1 DEF ExitingOf, ExecingOf
<1>13. Awaited'
  <2> SUFFICES ASSUME NEW x \in Lw!Thread, th'[x].state = "SLEEPING", k'[x].at = "joined"
               PROVE  AwaitedOf(x)'
    BY DEF Awaited, AwaitedOf
  <2>1. x # t /\ th'[x] = th[x] /\ k'[x] = k[x] /\ AwaitedOf(x)
    BY <1>1 DEF Awaited
  <2>2. \A y \in Lw!Thread : Builds(y, {"exit_mark", "exec"}) => Builds(y, {"exit_mark", "exec"})'
    BY <1>3 DEF Builds
  <2> QED
    BY <1>1, <1>2, <1>3, <2>1, <2>2 DEF AwaitedOf
<1> QED
  BY <1>4, <1>6, <1>7, <1>8, <1>9, <1>11, <1>12, <1>13 DEF ThreadInv, Core

\* t, which runs and builds nothing, makes a step of a call; others may be woken.
LEMMA CallStep ==
    ASSUME OneProcessor, Tables, Awaited, Core, NEW t \in Lw!Thread, Lw!Running(t),
           \A x \in Lw!Thread : x # t => /\ k'[x] = k[x]
                                         /\ \/ th'[x] = th[x]
                                            \/ th[x].state = "SLEEPING" /\ th'[x] = [th[x] EXCEPT !.state = "RUNNABLE"],
           th'[t].process = th[t].process, th'[t].tid = th[t].tid,
           th'[t].kstack = th[t].kstack, th'[t].ustack = th[t].ustack,
           th'[t].state \in {"SLEEPING", "RUNNING", "ZOMBIE"},
           th[t].state = "ZOMBIE" => th'[t].state = "ZOMBIE",
           k[t].at \notin BuildAt \cup ForkAt, k'[t].at \notin BuildAt \cup ForkAt,
           UNCHANGED <<stacks, fault, lossy>>,
           \A p \in Lw!Proc : /\ pr'[p].state = pr[p].state \/ Ended(p)
                              /\ pr'[p].master = pr[p].master
                              /\ pr'[p].workers = pr[p].workers /\ pr'[p].check = pr[p].check,
           \A x \in Lw!Thread : Lw!Running(x)' => Lw!Running(x)
    PROVE  /\ Steady /\ Lw!My(t)' = Lw!My(t)
           /\ \A x \in Lw!Thread : x # t => GoesOn(x)
           /\ \A x \in Lw!Thread : x # t => th'[x] \in ThreadEntry
           /\ th[t].state \in {"RUNNING", "ZOMBIE"}
<1>1. \A x \in Lw!Thread : x # t =>
           /\ th'[x] \in ThreadEntry
           /\ th'[x].process = th[x].process /\ th'[x].tid = th[x].tid
           /\ th'[x].kstack = th[x].kstack /\ th'[x].ustack = th[x].ustack /\ th'[x].chan = th[x].chan
           /\ th'[x].state = th[x].state \/ (th[x].state = "SLEEPING" /\ th'[x].state = "RUNNABLE")
  BY WokenEntry
<1>2. th[t].state \in {"RUNNING", "ZOMBIE"}
  BY DEF Core, CallStates, CallStateOf
<1>3. \A x \in Lw!Thread : (Underway(x)' <=> Underway(x)) /\ (Underway(x) => k'[x] = k[x])
  <2> SUFFICES ASSUME NEW x \in Lw!Thread, x # t, th[x].state = "SLEEPING" PROVE k[x].at \notin BuildAt \cup ForkAt
    BY <1>1 DEF Underway, Builds, Able
  <2> QED
    BY DEF Core, CallStates, CallStateOf, BuildAt, StackAt, ForkAt
<1>4. \A x \in Lw!Thread : Alive(x)' \/ Lw!Running(x)' => Alive(x) \/ Lw!Running(x)
  BY <1>1 DEF Alive
<1>5. Steady
  BY <1>1, <1>2, <1>3, <1>4 DEF Steady
<1>6. \A x \in Lw!Thread : x # t => GoesOn(x)
  BY <1>1 DEF GoesOn, Lw!My
<1> QED
  BY <1>1, <1>2, <1>5, <1>6 DEF Lw!My

\* A call that only changes where t is, and t goes on running.
LEMMA OwnStep ==
    ASSUME OneProcessor, Tables, Awaited, Core, NEW t \in Lw!Thread, Lw!Running(t), th[t].state = "RUNNING",
           k' \in [Lw!Thread -> CallEntry], \A x \in Lw!Thread : x # t => k'[x] = k[x],
           k[t].at \notin BuildAt \cup ForkAt,
           k'[t].at \in {"user", "exec", "exit_mark"},
           k'[t].at # "user" => k'[t].i = 1,
           k[t].at \in {"exec", "exit_mark"} => \A x \in Lw!Thread : x # t /\ Lw!My(x) = Lw!My(t) => ~ Alive(x),
           \A p \in Lw!Proc : /\ pr'[p].state = pr[p].state /\ pr'[p].master = pr[p].master
                              /\ pr'[p].workers = pr[p].workers /\ pr'[p].check = pr[p].check,
           pr' \in [Lw!Proc -> ProcEntry],
           UNCHANGED <<th, cpu, stacks, fault, lossy, overlap>>
    PROVE  ThreadInv'
<1>1. \A x : Lw!Running(x)' <=> Lw!Running(x)
  BY DEF Lw!Running
<1>2. k'[t].at \notin BuildAt \cup ForkAt
  BY DEF BuildAt, StackAt, ForkAt
<1>3. Steady /\ (\A x \in Lw!Thread : x # t => GoesOn(x))
  BY <1>1, <1>2, CallStep
<1>4. Tables'
  BY DEF Tables
<1>5. Alone(t)
  BY <1>1, <1>3 DEF Alone
<1>6. CallStateOf(t)' /\ JoiningOf(t)' /\ AwaitedOf(t)'
  BY <1>1 DEF CallStateOf, JoiningOf, AwaitedOf, Able
<1>7. \A u \in Lw!Thread : ~ (u < 1)
  BY DEF Lw!Thread, OneProcessor
<1>8. ExitingOf(t)' /\ ExecingOf(t)'
  BY <1>7 DEF ExitingOf, ExecingOf, Builds
<1> QED
  BY <1>3, <1>4, <1>5, <1>6, <1>8, SteadyStep

\* Entering exit() or exec(), and a wait() that finds nobody, keep the invariant.
LEMMA EnterStep ==
    ASSUME OneProcessor, Tables, Awaited, Core, NEW t \in Lw!Thread, Lw!exit(t) \/ Lw!exec(t) \/ Lw!WaitNone(t)
    PROVE  ThreadInv'
<1>1. Lw!Running(t) /\ k[t].at \in {"user", "waiting"}
  BY DEF Lw!exit, Lw!exec, Lw!WaitNone, Lw!On, Lw!User
<1>2. th[t].state = "RUNNING"
  BY <1>1, RunnerFacts DEF Core
<1>3. k[t].at \notin BuildAt \cup ForkAt \cup {"exec", "exit_mark"}
  BY <1>1 DEF BuildAt, StackAt, ForkAt
<1>4. /\ k' \in [Lw!Thread -> CallEntry] /\ (\A x \in Lw!Thread : x # t => k'[x] = k[x])
      /\ k'[t].at \in {"user", "exec", "exit_mark"} /\ (k'[t].at # "user" => k'[t].i = 1)
  <2>1. k[t] \in CallEntry /\ 1 \in 0 .. NTHREAD + 1
    BY DEF Tables, OneProcessor
  <2>2. CASE Lw!exit(t)
    BY <2>1, <2>2 DEF Lw!exit, Tables, CallEntry, Places
  <2>3. CASE Lw!exec(t)
    BY <2>1, <2>3 DEF Lw!exec, Tables, CallEntry, Places
  <2>4. CASE Lw!WaitNone(t)
    BY <2>4 DEF Lw!WaitNone, Tables, Lw!InUser, CallEntry, Places, OneProcessor
  <2> QED
    BY <2>2, <2>3, <2>4
<1>5. UNCHANGED <<th, pr, cpu, stacks, fault, lossy, overlap>>
  BY DEF Lw!exit, Lw!exec, Lw!WaitNone
<1>6. pr' \in [Lw!Proc -> ProcEntry]
  BY <1>5 DEF Tables
<1> QED
  BY <1>1, <1>2, <1>3, <1>4, <1>5, <1>6, OwnStep

\* When exec() is through with workers, no sibling of its caller can run.
LEMMA ExecAlone ==
    ASSUME OneProcessor, Tables, Core, NEW t \in Lw!Thread, Lw!Running(t), k[t].at = "exec", k[t].i > NTHREAD
    PROVE  /\ \A x \in Lw!Thread : x # t /\ Lw!My(x) = Lw!My(t) => ~ Alive(x)
           /\ pr[Lw!My(t)].master = t
           /\ \A i \in Lw!Thread : pr[Lw!My(t)].workers[i] = 0
<1>1. Lw!My(t) \in Lw!Proc /\ Member(Lw!My(t), t) /\ Able(t)
  BY RunnerFacts DEF Core
<1>2. \A i \in Lw!Thread : pr[Lw!My(t)].workers[i] = 0
  <2>1. k[t].i \in Nat /\ \A i \in Lw!Thread : i < k[t].i
    BY EntryTypes DEF OneProcessor, Lw!Thread
  <2> QED
    BY <1>1, <2>1 DEF Core, Execing, ExecingOf, Builds
<1>3. \A x : Member(Lw!My(t), x) => x = pr[Lw!My(t)].master
  BY <1>2 DEF Member, Serves
<1>4. \A x \in Lw!Thread : x # t /\ Lw!My(x) = Lw!My(t) => ~ Alive(x)
  BY <1>1, <1>3 DEF Core, Homes
<1> QED
  BY <1>1, <1>2, <1>3, <1>4

\* An exec() that fails keeps the invariant.
LEMMA ExecFailStep ==
    ASSUME OneProcessor, Tables, Awaited, Core, NEW t \in Lw!Thread, Lw!ExecFail(t)
    PROVE  ThreadInv'
<1>1. Lw!Running(t) /\ k[t].at = "exec" /\ k[t].i > NTHREAD
  BY DEF Lw!ExecFail, Lw!On
<1>2. th[t].state = "RUNNING" /\ Lw!My(t) \in Lw!Proc
  BY <1>1, RunnerFacts DEF Core
<1>3. k[t].at \notin BuildAt \cup ForkAt
  BY <1>1 DEF BuildAt, StackAt, ForkAt
<1>4. k' \in [Lw!Thread -> CallEntry] /\ (\A x \in Lw!Thread : x # t => k'[x] = k[x]) /\ k'[t].at = "user"
  BY DEF Lw!ExecFail, Tables, Lw!InUser, CallEntry, Places, OneProcessor
<1>5. /\ pr' \in [Lw!Proc -> ProcEntry]
      /\ \A p \in Lw!Proc : /\ pr'[p].state = pr[p].state /\ pr'[p].master = pr[p].master
                            /\ pr'[p].workers = pr[p].workers /\ pr'[p].check = pr[p].check
  <2>1. \A p \in Lw!Proc : pr[p] \in ProcEntry
    BY DEF Tables
  <2>2. pr' = [pr EXCEPT ![Lw!My(t)] = [pr[Lw!My(t)] EXCEPT !.killed = pr[Lw!My(t)].killed \/ th[t].tid # 0]]
    BY DEF Lw!ExecFail
  <2>3. [pr[Lw!My(t)] EXCEPT !.killed = pr[Lw!My(t)].killed \/ th[t].tid # 0] \in ProcEntry
    BY <1>2, <2>1 DEF ProcEntry
  <2> QED
    BY <1>2, <2>1, <2>2, <2>3 DEF Tables, ProcEntry
<1>6. UNCHANGED <<th, cpu, stacks, fault, lossy, overlap>>
  BY DEF Lw!ExecFail
<1>7. \A x \in Lw!Thread : x # t /\ Lw!My(x) = Lw!My(t) => ~ Alive(x)
  BY <1>1, ExecAlone
<1> QED
  BY <1>1, <1>2, <1>3, <1>4, <1>5, <1>6, <1>7, OwnStep

\* kill() keeps the invariant.
LEMMA KillStep ==
    ASSUME OneProcessor, Tables, Awaited, Core, NEW t \in Lw!Thread, NEW q \in Lw!Proc, Lw!kill(t, q)
    PROVE  ThreadInv'
<1>1. Lw!Running(t) /\ k[t].at = "user"
  BY DEF Lw!kill, Lw!On, Lw!User
<1>2. th[t].state = "RUNNING" /\ Lw!My(t) \in Lw!Proc
  BY <1>1, RunnerFacts DEF Core
<1>3. k[t].at \notin BuildAt \cup ForkAt
  BY <1>1 DEF BuildAt, StackAt, ForkAt
<1>4. \A x \in Lw!Thread : th'[x] = th[x] \/ (th[x].state = "SLEEPING" /\ th'[x] = [th[x] EXCEPT !.state = "RUNNABLE"])
  BY DEF Lw!kill
<1>5. th'[t] = th[t]
  BY <1>2, <1>4
<1>6. UNCHANGED <<cpu, k, stacks, fault, lossy, overlap>>
  BY DEF Lw!kill
<1>7. /\ pr' \in [Lw!Proc -> ProcEntry]
      /\ \A p \in Lw!Proc : /\ pr'[p].state = pr[p].state /\ pr'[p].master = pr[p].master
                            /\ pr'[p].workers = pr[p].workers /\ pr'[p].check = pr[p].check
  <2>1. \A p \in Lw!Proc : pr[p] \in ProcEntry
    BY DEF Tables
  <2>2. pr' = [pr EXCEPT ![q] = [@ EXCEPT !.killed = TRUE]]
    BY DEF Lw!kill
  <2>3. [pr[q] EXCEPT !.killed = TRUE] \in ProcEntry
    BY <2>1 DEF ProcEntry
  <2> QED
    BY <2>1, <2>2, <2>3 DEF Tables, ProcEntry
<1>8. \A x : Lw!Running(x)' <=> Lw!Running(x)
  BY <1>6 DEF Lw!Running
<1>9. Steady /\ (\A x \in Lw!Thread : x # t => GoesOn(x)) /\ (\A x \in Lw!Thread : x # t => th'[x] \in ThreadEntry)
  BY <1>1, <1>2, <1>3, <1>4, <1>5, <1>6, <1>7, <1>8, CallStep
<1>10. Tables'
  BY <1>5, <1>6, <1>7, <1>9 DEF Tables, Lw!kill
<1>11. Alone(t)
  BY <1>1, <1>2, <1>5, <1>8, <1>9 DEF Alone
<1>12. CallStateOf(t)' /\ JoiningOf(t)' /\ ExitingOf(t)' /\ ExecingOf(t)' /\ AwaitedOf(t)'
  BY <1>1, <1>2, <1>5, <1>6, <1>8 DEF CallStateOf, JoiningOf, ExitingOf, ExecingOf, AwaitedOf, Able, Builds
<1> QED
  BY <1>9, <1>10, <1>11, <1>12, SteadyStep

\* Falling asleep, for a clock tick or for a child, keeps the invariant.
LEMMA SleepStep ==
    ASSUME OneProcessor, Tables, Awaited, Core, NEW t \in Lw!Thread, Lw!sys_sleep(t) \/ Lw!WaitSleep(t)
    PROVE  ThreadInv'
<1>1. Lw!Running(t) /\ k[t].at \in {"user", "waiting"} /\ Lw!sched(t)
  BY DEF Lw!sys_sleep, Lw!WaitSleep, Lw!On, Lw!User
<1>2. th[t].state = "RUNNING" /\ Lw!My(t) \in Lw!Proc
  BY <1>1, RunnerFacts DEF Core
<1>3. k[t].at \notin BuildAt \cup ForkAt
  BY <1>1 DEF BuildAt, StackAt, ForkAt
<1>4. /\ \A x \in Lw!Thread : x # t => th'[x] = th[x] /\ k'[x] = k[x]
      /\ th' \in [Lw!Thread -> ThreadEntry] /\ k' \in [Lw!Thread -> CallEntry]
      /\ th'[t].state = "SLEEPING" /\ k'[t].at \in {"asleep", "waiting"}
      /\ th'[t].process = th[t].process /\ th'[t].tid = th[t].tid
      /\ th'[t].kstack = th[t].kstack /\ th'[t].ustack = th[t].ustack
  <2>1. th[t] \in ThreadEntry /\ k[t] \in CallEntry /\ th \in [Lw!Thread -> ThreadEntry] /\ k \in [Lw!Thread -> CallEntry]
    BY DEF Tables
  <2>2. PICK ch \in {Lw!TICKS, <<"proc", Lw!My(t)>>} :
          th' = [th EXCEPT ![t] = [@ EXCEPT !.state = "SLEEPING", !.chan = ch]]
    BY DEF Lw!sys_sleep, Lw!WaitSleep
  <2>3. ch \in Channels \X Nat
    BY <1>2 DEF Lw!TICKS, Channels, Lw!Proc, OneProcessor
  <2>4. [th[t] EXCEPT !.state = "SLEEPING", !.chan = ch] \in ThreadEntry
    BY <2>1, <2>3 DEF ThreadEntry, Lw!State
  <2>5. PICK w \in {"asleep", "waiting"} : k' = [k EXCEPT ![t] = [@ EXCEPT !.at = w]]
    BY DEF Lw!sys_sleep, Lw!WaitSleep, Lw!Goto
  <2>6. [k[t] EXCEPT !.at = w] \in CallEntry
    BY <2>1 DEF CallEntry, Places
  <2> QED
    BY <2>1, <2>2, <2>4, <2>5, <2>6 DEF ThreadEntry, CallEntry
<1>5. (\A x \in Lw!Thread : ~ Lw!Running(x)') /\ cpu' \in [Lw!CPU -> 0 .. NTHREAD]
  BY <1>1, SchedFacts
<1>6. UNCHANGED <<pr, stacks, fault, lossy, overlap>>
  BY DEF Lw!sys_sleep, Lw!WaitSleep
<1>7. k'[t].at \notin BuildAt \cup ForkAt
  BY <1>4 DEF BuildAt, StackAt, ForkAt
<1>8. Steady /\ (\A x \in Lw!Thread : x # t => GoesOn(x))
  BY <1>1, <1>2, <1>3, <1>4, <1>5, <1>6, <1>7, CallStep
<1>9. Tables'
  BY <1>4, <1>5, <1>6 DEF Tables
<1>10. \A x \in Lw!Thread : Lw!Running(x) => x = t
  BY <1>1, OneThreadRuns
<1>11. Alone(t)
  BY <1>1, <1>4, <1>5, <1>8, <1>10 DEF Alone
<1>12. CallStateOf(t)' /\ JoiningOf(t)' /\ ExitingOf(t)' /\ ExecingOf(t)' /\ AwaitedOf(t)'
  BY <1>4, <1>5 DEF CallStateOf, JoiningOf, ExitingOf, ExecingOf, AwaitedOf, Able, Builds
<1> QED
  BY <1>8, <1>9, <1>11, <1>12, SteadyStep

--------------------------------------------------------------------------------
(* thread_exit(), and the start of thread_join() *)

\* A thread that becomes a ZOMBIE in thread_exit() keeps the invariant ...
LEMMA ThreadExitStep ==
    ASSUME OneProcessor, Tables, Awaited, Core, NEW t \in Lw!Thread, Lw!thread_exit(t)
    PROVE  ThreadInv'
<1>1. Lw!Running(t) /\ k[t].at = "user"
  BY DEF Lw!thread_exit, Lw!On, Lw!User
<1>2. th[t].state = "RUNNING" /\ Lw!My(t) \in Lw!Proc
  BY <1>1, RunnerFacts DEF Core
<1>3. k[t].at \notin BuildAt \cup ForkAt
  BY <1>1 DEF BuildAt, StackAt, ForkAt
<1>4. /\ \A x \in Lw!Thread : x # t => th'[x] = th[x] /\ k'[x] = k[x]
      /\ th' \in [Lw!Thread -> ThreadEntry] /\ k' \in [Lw!Thread -> CallEntry]
      /\ th'[t].state = "ZOMBIE" /\ k'[t].at = "exit_wakeup"
      /\ th'[t].process = th[t].process /\ th'[t].tid = th[t].tid
      /\ th'[t].kstack = th[t].kstack /\ th'[t].ustack = th[t].ustack
  <2>1. th[t] \in ThreadEntry /\ k[t] \in CallEntry
    BY DEF Tables
  <2>2. [th[t] EXCEPT !.state = "ZOMBIE"] \in ThreadEntry /\ [k[t] EXCEPT !.at = "exit_wakeup"] \in CallEntry
    BY <2>1 DEF ThreadEntry, Lw!State, CallEntry, Places
  <2> QED
    BY <2>1, <2>2 DEF Lw!thread_exit, Lw!Goto, Tables, ThreadEntry, CallEntry
<1>5. UNCHANGED <<pr, cpu, stacks, fault, lossy, overlap>> /\ \A x : Lw!Running(x)' <=> Lw!Running(x)
  BY DEF Lw!thread_exit, Lw!Running
<1>6. k'[t].at \notin BuildAt \cup ForkAt
  BY <1>4 DEF BuildAt, StackAt, ForkAt
<1>7. Steady /\ (\A x \in Lw!Thread : x # t => GoesOn(x))
  BY <1>1, <1>2, <1>3, <1>4, <1>5, <1>6, CallStep
<1>8. Tables'
  BY <1>4, <1>5 DEF Tables
<1>9. Alone(t)
  BY <1>1, <1>4, <1>5, <1>7 DEF Alone
<1>10. CallStateOf(t)' /\ JoiningOf(t)' /\ ExitingOf(t)' /\ ExecingOf(t)' /\ AwaitedOf(t)'
  BY <1>1, <1>4, <1>5 DEF CallStateOf, JoiningOf, ExitingOf, ExecingOf, AwaitedOf, Able, Alive, Builds
<1> QED
  BY <1>7, <1>8, <1>9, <1>10, SteadyStep

\* ... that wakes its joiner keeps it ...
LEMMA ThreadExitWakeupStep ==
    ASSUME OneProcessor, Tables, Awaited, Core, NEW t \in Lw!Thread, Lw!ThreadExitWakeup(t)
    PROVE  ThreadInv'
<1>1. Lw!Running(t) /\ k[t].at = "exit_wakeup"
  BY DEF Lw!ThreadExitWakeup, Lw!OnLocked, Lw!On
<1>2. th[t].state = "ZOMBIE" /\ Lw!My(t) \in Lw!Proc
  BY <1>1, RunnerFacts DEF Core, CallStates, CallStateOf
<1>3. k[t].at \notin BuildAt \cup ForkAt
  BY <1>1 DEF BuildAt, StackAt, ForkAt
<1>4. /\ \A x \in Lw!Thread : \/ th'[x] = th[x] /\ ~ (th[x].state = "SLEEPING" /\ th[x].chan = <<"thread", t>>)
                              \/ th[x].state = "SLEEPING" /\ th'[x] = [th[x] EXCEPT !.state = "RUNNABLE"]
      /\ th' = [x \in Lw!Thread |-> th'[x]]
  BY DEF Lw!ThreadExitWakeup, Lw!ExitWoken, Lw!Woken
<1>5. th'[t] = th[t]
  BY <1>2, <1>4
<1>6. k' \in [Lw!Thread -> CallEntry] /\ k'[t].at = "exit_sched" /\ \A x \in Lw!Thread : x # t => k'[x] = k[x]
  <2>1. k[t] \in CallEntry
    BY DEF Tables
  <2>2. [k[t] EXCEPT !.at = "exit_sched"] \in CallEntry
    BY <2>1 DEF CallEntry, Places
  <2> QED
    BY <2>1, <2>2 DEF Lw!ThreadExitWakeup, Lw!Goto, Tables, CallEntry
<1>7. UNCHANGED <<pr, cpu, stacks, fault, lossy, overlap>> /\ \A x : Lw!Running(x)' <=> Lw!Running(x)
  BY DEF Lw!ThreadExitWakeup, Lw!Running
<1>8. k'[t].at \notin BuildAt \cup ForkAt
  BY <1>6 DEF BuildAt, StackAt, ForkAt
<1>9. Steady /\ (\A x \in Lw!Thread : x # t => GoesOn(x)) /\ (\A x \in Lw!Thread : x # t => th'[x] \in ThreadEntry)
  BY <1>1, <1>2, <1>3, <1>4, <1>5, <1>6, <1>7, <1>8, CallStep
<1>10. Tables'
  <2>1. \A x \in Lw!Thread : th'[x] \in ThreadEntry
    BY <1>5, <1>9 DEF Tables
  <2>2. th' \in [Lw!Thread -> ThreadEntry]
    BY <1>4, <2>1
  <2> QED
    BY <1>6, <1>7, <2>2 DEF Tables
<1>11. \A x \in Lw!Thread : x # t /\ th'[x].state = "SLEEPING" => ~ (k[x].at = "joined" /\ k[x].u = t)
  <2> SUFFICES ASSUME NEW x \in Lw!Thread, x # t, th'[x].state = "SLEEPING", k[x].at = "joined", k[x].u = t PROVE FALSE
    OBVIOUS
  <2>1. th[x] \in ThreadEntry
    BY DEF Tables
  <2>2. th[x].state = "SLEEPING" /\ th[x].chan # <<"thread", t>>
    BY <1>4, <2>1 DEF ThreadEntry
  <2> QED
    BY <2>2 DEF Awaited, AwaitedOf
<1>12. Alone(t)
  BY <1>1, <1>7, <1>9, <1>11 DEF Alone
<1>13. CallStateOf(t)' /\ JoiningOf(t)' /\ ExitingOf(t)' /\ ExecingOf(t)' /\ AwaitedOf(t)'
  BY <1>1, <1>2, <1>5, <1>6, <1>7 DEF CallStateOf, JoiningOf, ExitingOf, ExecingOf, AwaitedOf, Able, Alive, Builds
<1> QED
  BY <1>9, <1>10, <1>12, <1>13, SteadyStep

\* ... and so does its last call of sched().
LEMMA ThreadExitSchedStep ==
    ASSUME OneProcessor, Tables, Awaited, Core, NEW t \in Lw!Thread, Lw!ThreadExitSched(t)
    PROVE  ThreadInv'
<1>1. Lw!Running(t) /\ k[t].at = "exit_sched" /\ Lw!sched(t)
  BY DEF Lw!ThreadExitSched, Lw!OnLocked, Lw!On
<1>2. th[t].state = "ZOMBIE" /\ Lw!My(t) \in Lw!Proc
  BY <1>1, RunnerFacts DEF Core, CallStates, CallStateOf
<1>3. k[t].at \notin BuildAt \cup ForkAt
  BY <1>1 DEF BuildAt, StackAt, ForkAt
<1>4. k' \in [Lw!Thread -> CallEntry] /\ k'[t].at = "exited" /\ \A x \in Lw!Thread : x # t => k'[x] = k[x]
  <2>1. k[t] \in CallEntry
    BY DEF Tables
  <2>2. [k[t] EXCEPT !.at = "exited"] \in CallEntry
    BY <2>1 DEF CallEntry, Places
  <2> QED
    BY <2>1, <2>2 DEF Lw!ThreadExitSched, Lw!Goto, Tables, CallEntry
<1>5. (\A x \in Lw!Thread : ~ Lw!Running(x)') /\ cpu' \in [Lw!CPU -> 0 .. NTHREAD]
  BY <1>1, SchedFacts
<1>6. UNCHANGED <<th, pr, stacks, fault, lossy, overlap>>
  BY DEF Lw!ThreadExitSched
<1>7. k'[t].at \notin BuildAt \cup ForkAt
  BY <1>4 DEF BuildAt, StackAt, ForkAt
<1>8. Steady /\ (\A x \in Lw!Thread : x # t => GoesOn(x))
  BY <1>1, <1>2, <1>3, <1>4, <1>5, <1>6, <1>7, CallStep
<1>9. Tables'
  BY <1>4, <1>5, <1>6 DEF Tables
<1>10. \A x \in Lw!Thread : Lw!Running(x) => x = t
  BY <1>1, OneThreadRuns
<1>11. Alone(t)
  BY <1>1, <1>2, <1>5, <1>6, <1>8, <1>10 DEF Alone
<1>12. CallStateOf(t)' /\ JoiningOf(t)' /\ ExitingOf(t)' /\ ExecingOf(t)' /\ AwaitedOf(t)'
  BY <1>2, <1>4, <1>5, <1>6 DEF CallStateOf, JoiningOf, ExitingOf, ExecingOf, AwaitedOf, Able, Alive, Builds
<1> QED
  BY <1>8, <1>9, <1>11, <1>12, SteadyStep

\* Falling asleep in thread_join() keeps the invariant: the thread has not ended.
LEMMA JoinSleepStep ==
    ASSUME OneProcessor, Tables, Awaited, Core, NEW t \in Lw!Thread, NEW u \in Lw!Thread, Lw!JoinSleep(t, u)
    PROVE  ThreadInv'
<1>1. Lw!Running(t) /\ k[t].at = "user" /\ Lw!sched(t) /\ pr[Lw!My(t)].master = t /\ u \in Lw!Joinable(t)
        /\ th[u].state # "ZOMBIE"
  BY DEF Lw!JoinSleep, Lw!On, Lw!User
<1>2. th[t].state = "RUNNING" /\ Lw!My(t) \in Lw!Proc
  BY <1>1, RunnerFacts DEF Core
<1>3. k[t].at \notin BuildAt \cup ForkAt
  BY <1>1 DEF BuildAt, StackAt, ForkAt
<1>4. /\ \A x \in Lw!Thread : x # t => th'[x] = th[x] /\ k'[x] = k[x]
      /\ th' \in [Lw!Thread -> ThreadEntry] /\ k' \in [Lw!Thread -> CallEntry]
      /\ th'[t].state = "SLEEPING" /\ th'[t].chan = <<"thread", u>> /\ k'[t].at = "joined" /\ k'[t].u = u
      /\ th'[t].process = th[t].process /\ th'[t].tid = th[t].tid
      /\ th'[t].kstack = th[t].kstack /\ th'[t].ustack = th[t].ustack
  <2>1. th[t] \in ThreadEntry /\ k[t] \in CallEntry /\ th \in [Lw!Thread -> ThreadEntry] /\ k \in [Lw!Thread -> CallEntry]
    BY DEF Tables
  <2>2. <<"thread", u>> \in Channels \X Nat /\ u \in 0 .. NTHREAD
    BY DEF Channels, Lw!Thread, OneProcessor
  <2>3. [th[t] EXCEPT !.state = "SLEEPING", !.chan = <<"thread", u>>] \in ThreadEntry
    BY <2>1, <2>2 DEF ThreadEntry, Lw!State
  <2>4. [k[t] EXCEPT !.at = "joined", !.u = u] \in CallEntry
    BY <2>1, <2>2 DEF CallEntry, Places
  <2>5. th' = [th EXCEPT ![t] = [@ EXCEPT !.state = "SLEEPING", !.chan = <<"thread", u>>]]
    BY DEF Lw!JoinSleep
  <2>6. k' = [k EXCEPT ![t] = [@ EXCEPT !.at = "joined", !.u = u]]
    BY DEF Lw!JoinSleep
  <2> QED
    BY <2>1, <2>3, <2>4, <2>5, <2>6 DEF ThreadEntry, CallEntry
<1>5. (\A x \in Lw!Thread : ~ Lw!Running(x)') /\ cpu' \in [Lw!CPU -> 0 .. NTHREAD]
  BY <1>1, SchedFacts
<1>6. UNCHANGED <<pr, stacks, fault, lossy, overlap>>
  BY DEF Lw!JoinSleep
<1>7. k'[t].at \notin BuildAt \cup ForkAt
  BY <1>4 DEF BuildAt, StackAt, ForkAt
<1>8. Steady /\ (\A x \in Lw!Thread : x # t => GoesOn(x)) /\ Lw!My(t)' = Lw!My(t)
  BY <1>1, <1>2, <1>3, <1>4, <1>5, <1>6, <1>7, CallStep
<1>9. Tables'
  BY <1>4, <1>5, <1>6 DEF Tables
<1>10. \A x \in Lw!Thread : Lw!Running(x) => x = t
  BY <1>1, OneThreadRuns
<1>11. Alone(t)
  BY <1>1, <1>4, <1>5, <1>8, <1>10 DEF Alone
<1>12. u # t /\ u # 0 /\ Serves(Lw!My(t), u) /\ th[u].state # "UNUSED" /\ th'[u] = th[u]
  <2>1. u # t /\ u # 0 /\ Serves(Lw!My(t), u)
    BY <1>1 DEF Lw!Joinable, Serves, Lw!Thread
  <2> QED
    BY <1>2, <1>4, <2>1 DEF Core, MemberEntries, Member
<1>13. JoiningOf(t)'
  <2>1. pr'[Lw!My(t)'].master = t /\ Serves(Lw!My(t), k[t].u)'
    BY <1>1, <1>4, <1>6, <1>8, <1>12 DEF Serves
  <2> QED
    BY <2>1 DEF JoiningOf
<1>14. CallStateOf(t)' /\ ExitingOf(t)' /\ ExecingOf(t)' /\ AwaitedOf(t)'
  BY <1>1, <1>4, <1>5, <1>12 DEF CallStateOf, ExitingOf, ExecingOf, AwaitedOf, Able, Builds
<1> QED
  BY <1>8, <1>9, <1>11, <1>13, <1>14, SteadyStep

\* A call of thread_create() or fork() that is given up half-way keeps the invariant.
LEMMA CreateBadStep ==
    ASSUME OneProcessor, Tables, Awaited, Core, NEW t \in Lw!Thread,
           Lw!CreateBad(t) \/ (Lw!ForkNoThread(t) /\ UNCHANGED th)
    PROVE  ThreadInv'
<1>1. Lw!Running(t) /\ k[t].at \in {"create_find", "fork_thread", "fork_stack"}
  BY DEF Lw!CreateBad, Lw!ForkNoThread, Lw!OnLocked, Lw!On
<1>2. th[t].state = "RUNNING" /\ Able(t) /\ Lw!My(t) \in Lw!Proc
  BY <1>1, RunnerFacts DEF Core
<1>3. /\ k' \in [Lw!Thread -> CallEntry] /\ k'[t].at = "user" /\ \A x \in Lw!Thread : x # t => k'[x] = k[x]
      /\ lossy' = TRUE
  BY DEF Lw!CreateBad, Lw!ForkNoThread, Tables, Lw!InUser, CallEntry, Places, OneProcessor
<1>4. UNCHANGED <<th, pr, cpu, stacks, fault, overlap>> /\ \A x : Lw!Running(x)' <=> Lw!Running(x)
  BY DEF Lw!CreateBad, Lw!ForkNoThread, Lw!Running
<1>5. k'[t].at \notin BuildAt \cup ForkAt
  BY <1>3 DEF BuildAt, StackAt, ForkAt
<1>6. Steady
  BY <1>3, <1>4, <1>5 DEF Steady, Alive, Underway, Builds, Able
<1>7. \A x \in Lw!Thread : x # t => GoesOn(x)
  BY <1>3, <1>4 DEF GoesOn, Lw!My
<1>8. Alone(t)
  BY <1>1, <1>2, <1>4, <1>7 DEF Alone, Able
<1>9. Tables'
  BY <1>3, <1>4 DEF Tables
<1>10. CallStateOf(t)' /\ JoiningOf(t)' /\ ExitingOf(t)' /\ ExecingOf(t)' /\ AwaitedOf(t)'
  BY <1>1, <1>2, <1>3, <1>4 DEF CallStateOf, JoiningOf, ExitingOf, ExecingOf, AwaitedOf, Able, Builds
<1> QED
  BY <1>6, <1>8, <1>9, <1>10, SteadyStep

--------------------------------------------------------------------------------
(* exit() *)

\* Threads of a process that can still run differ in their ids.
LEMMA SiblingIds ==
    ASSUME Tables, OneProcessor, Core, NEW t \in Lw!Thread, NEW u \in Lw!Thread, Alive(t), Alive(u), t # u, Lw!My(t) = Lw!My(u)
    PROVE  th[t].tid # th[u].tid
<1>1. Lw!My(t) \in Lw!Proc /\ Member(Lw!My(t), t) /\ Member(Lw!My(t), u)
  BY DEF Core, Homes
<1>2. th[t].tid \in {0, t} /\ th[u].tid \in {0, u} /\ t # 0 /\ u # 0
  BY DEF Core, MemberEntries, Lw!Thread
<1>3. Serves(Lw!My(t), t) \/ Serves(Lw!My(t), u)
  BY <1>1 DEF Member
<1>4. (Serves(Lw!My(t), t) => th[t].tid = t) /\ (Serves(Lw!My(t), u) => th[u].tid = u)
  BY <1>1 DEF Core, MemberEntries
<1> QED
  BY <1>2, <1>3, <1>4

\* exit() ending one more sibling keeps the invariant.
LEMMA ExitMarkStep ==
    ASSUME OneProcessor, Tables, Awaited, Core, NEW t \in Lw!Thread, Lw!ExitMark(t)
    PROVE  ThreadInv'
<1>1. Lw!Running(t) /\ k[t].at = "exit_mark" /\ k[t].i <= NTHREAD
  BY DEF Lw!ExitMark, Lw!On
<1>2. th[t].state = "RUNNING" /\ Able(t) /\ Alive(t) /\ Lw!My(t) \in Lw!Proc
  BY <1>1, RunnerFacts DEF Core
<1>3. Builds(t, {"exit_mark"}) /\ k[t].at \notin BuildAt \cup ForkAt
  BY <1>1, <1>2 DEF Builds, BuildAt, StackAt, ForkAt
<1>4. PICK u \in Lw!Thread : u = k[t].i
  <2>1. k[t].i \in 0 .. NTHREAD + 1 /\ k[t].i >= 1
    BY <1>3, EntryTypes DEF Core, Exiting, ExitingOf
  <2> QED
    BY <1>1, <2>1 DEF OneProcessor, Lw!Thread
<1>5. /\ k' \in [Lw!Thread -> CallEntry] /\ (\A x \in Lw!Thread : x # t => k'[x] = k[x])
      /\ k'[t].at = "exit_mark" /\ k'[t].i = u + 1
  <2>1. k[t] \in CallEntry /\ u + 1 \in 0 .. NTHREAD + 1
    BY DEF Tables, OneProcessor, Lw!Thread
  <2>2. [k[t] EXCEPT !.i = u + 1] \in CallEntry
    BY <2>1 DEF CallEntry
  <2> QED
    BY <1>1, <1>4, <2>1, <2>2 DEF Lw!ExitMark, Tables, CallEntry
<1>6. UNCHANGED <<pr, cpu, stacks, fault, overlap>> /\ \A x : Lw!Running(x)' <=> Lw!Running(x)
  BY DEF Lw!ExitMark, Lw!Running
<1>7. k'[t].at \notin BuildAt \cup ForkAt
  BY <1>5 DEF BuildAt, StackAt, ForkAt
<1>8. \A x \in Lw!Thread : x < u + 1 => x < u \/ x = u
  BY DEF Lw!Thread, OneProcessor
<1>9. \A x \in Lw!Thread : x # t /\ x < u /\ Lw!My(x) = Lw!My(t) => ~ Alive(x)
  BY <1>3, <1>4 DEF Core, Exiting, ExitingOf
<1>10. u + 1 >= 1
  BY DEF Lw!Thread, OneProcessor
<1>11. CASE ~ Lw!Marks(t, u)
  <2>1. th' = th /\ lossy' = lossy
    BY <1>4, <1>11 DEF Lw!ExitMark, Tables
  <2>2. Steady /\ (\A x \in Lw!Thread : x # t => GoesOn(x))
    BY <1>1, <1>2, <1>3, <1>5, <1>6, <1>7, <2>1, CallStep
  <2>3. Tables'
    BY <1>5, <1>6, <2>1 DEF Tables
  <2>4. Alone(t)
    BY <1>1, <1>2, <1>5, <1>6, <2>1, <2>2 DEF Alone, Able
  <2>5. u # t /\ Lw!My(u) = Lw!My(t) => ~ Alive(u)
    BY <1>2, <1>11, SiblingIds DEF Lw!Marks
  <2>6. ExitingOf(t)'
    <3>1. \A x \in Lw!Thread \ {t} : x < u + 1 /\ Lw!My(x) = Lw!My(t) => ~ Alive(x)
      BY <1>8, <1>9, <2>5
    <3> QED
      BY <1>5, <1>10, <2>1, <3>1 DEF ExitingOf, Lw!My, Alive
  <2>7. CallStateOf(t)' /\ JoiningOf(t)' /\ ExecingOf(t)' /\ AwaitedOf(t)'
    BY <1>1, <1>2, <1>5, <1>6, <2>1 DEF CallStateOf, JoiningOf, ExecingOf, AwaitedOf, Able, Builds
  <2> QED
    BY <2>2, <2>3, <2>4, <2>6, <2>7, SteadyStep
<1>12. CASE Lw!Marks(t, u)
  <2>1. u # t /\ Lw!My(u) = Lw!My(t)
    BY <1>12 DEF Lw!Marks
  <2>2. /\ \A x \in Lw!Thread : x # u => th'[x] = th[x]
        /\ th'[u].state = "ZOMBIE" /\ th'[u].process = th[u].process /\ th'[u].tid = th[u].tid
        /\ th'[u].kstack = th[u].kstack /\ th'[u].ustack = th[u].ustack
        /\ th' \in [Lw!Thread -> ThreadEntry]
        /\ lossy' = (lossy \/ Lw!Cut({u}) \/ th[u].state \in {"UNUSED", "EMBRYO"})
    <3>1. th[u] \in ThreadEntry
      BY DEF Tables
    <3>2. [th[u] EXCEPT !.state = "ZOMBIE"] \in ThreadEntry
      BY <3>1 DEF ThreadEntry, Lw!State
    <3>3. th' = [th EXCEPT ![u].state = "ZOMBIE"] /\ lossy' = (lossy \/ Lw!Cut({u}) \/ th[u].state \in {"UNUSED", "EMBRYO"})
      BY <1>4, <1>12 DEF Lw!ExitMark
    <3> QED
      BY <3>1, <3>2, <3>3 DEF Tables, ThreadEntry
  <2>3. \A x \in Lw!Thread : /\ Lw!My(x)' = Lw!My(x) /\ (Alive(x)' <=> Alive(x) /\ x # u)
                             /\ (Able(x)' <=> Able(x) /\ x # u)
    BY <2>2 DEF Lw!My, Alive, Able
  <2>4. Tables'
    BY <1>5, <1>6, <2>2 DEF Tables, Lw!Cut
  <2>5. Steady
    <3>1. \A x \in Lw!Thread : Underway(x)' => Underway(x) /\ k'[x] = k[x]
      BY <1>5, <1>7, <2>3 DEF Underway, Builds
    <3>2. ~ lossy' => \A x \in Lw!Thread : Underway(x) => Underway(x)' /\ k'[x] = k[x]
      <4>1. ~ lossy' => ~ Underway(u)
        BY <2>2 DEF Lw!Cut, Lw!Idle, Underway, Builds, BuildAt, StackAt, ForkAt
      <4> QED
        BY <1>3, <1>5, <2>3, <4>1 DEF Underway, Builds
    <3> QED
      BY <1>6, <2>2, <2>3, <3>1, <3>2 DEF Steady
  <2>6. MembersApart' /\ ProcStates' /\ MemberEntries' /\ Homes'
    BY <2>5, SteadyKeepsMembers DEF Core
  <2>7. StacksHeld' /\ NewEntries' /\ NewProcs' /\ UserStacks' /\ Kept'
    BY <2>5, SteadyKeepsMaking DEF Core
  <2>8. \A x \in Lw!Thread : x # t => k'[x] = k[x]
    BY <1>5
  <2>9. \A x \in Lw!Thread : Lw!Running(x) => x = t
    BY <1>1, OneThreadRuns
  <2>10. OneRuns'
    BY <1>6, <2>3, <2>8, <2>9 DEF Core, OneRuns
  <2>11. CallStates'
    <3>1. \A x \in Lw!Thread : CallStateOf(x)
      BY DEF Core, CallStates
    <3>2. \A x \in Lw!Thread : x # t /\ x # u => CallStateOf(x)'
      BY <1>6, <2>2, <2>8, <3>1 DEF CallStateOf, Able
    <3>3. CallStateOf(u)'
      BY <1>6, <2>1, <2>2, <2>9 DEF CallStateOf, Able
    <3>4. CallStateOf(t)'
      BY <1>1, <1>2, <1>5, <1>6, <2>1, <2>2 DEF CallStateOf, Able
    <3> QED
      BY <3>2, <3>3, <3>4 DEF CallStates
  <2>12. Able(u) => k[u].at \notin AloneAt
    BY <1>1, <2>1 DEF Core, OneRuns
  <2>13. \A x \in Lw!Thread : Builds(x, {"exec"})' <=> Builds(x, {"exec"})
    BY <1>1, <1>5, <2>3, <2>8, <2>12 DEF Builds, AloneAt
  <2>14. Joining'
    <3> SUFFICES ASSUME NEW x \in Lw!Thread, Alive(x)', k'[x].at = "joined"
                 PROVE  \/ pr'[Lw!My(x)'].master = x /\ Serves(Lw!My(x), k[x].u)'
                        \/ \E y \in Lw!Thread \ {x} : Lw!My(y)' = Lw!My(x)' /\ Builds(y, {"exec"})'
      BY DEF Joining, JoiningOf
    <3>1. x # t /\ Alive(x) /\ k'[x] = k[x] /\ JoiningOf(x) /\ Lw!My(x)' = Lw!My(x)
      BY <1>5, <2>3 DEF Core, Joining
    <3> QED
      BY <1>6, <2>3, <2>13, <3>1 DEF JoiningOf, Serves
  <2>15. Exiting'
    <3> SUFFICES ASSUME NEW x \in Lw!Thread, Builds(x, {"exit_mark"})'
                 PROVE  k'[x].i >= 1 /\ \A y \in Lw!Thread \ {x} : y < k'[x].i /\ Lw!My(y)' = Lw!My(x)' => ~ Alive(y)'
      BY DEF Exiting, ExitingOf
    <3>1. CASE x = t
      BY <1>5, <1>8, <1>9, <1>10, <2>3, <3>1
    <3>2. CASE x # t
      <4>1. Builds(x, {"exit_mark"}) /\ k'[x] = k[x]
        BY <2>3, <2>8, <3>2 DEF Builds
      <4> QED
        BY <2>3, <4>1 DEF Core, Exiting, ExitingOf
    <3> QED
      BY <3>1, <3>2
  <2>16. Execing'
    BY <1>5, <1>6, <2>3, <2>8, <2>13 DEF Core, Execing, ExecingOf, Builds
  <2>17. Awaited'
    <3> SUFFICES ASSUME NEW x \in Lw!Thread, th'[x].state = "SLEEPING", k'[x].at = "joined"
                 PROVE  AwaitedOf(x)'
      BY DEF Awaited, AwaitedOf
    <3>1. x # t /\ x # u /\ th'[x] = th[x] /\ k'[x] = k[x] /\ AwaitedOf(x) /\ Alive(x) /\ JoiningOf(x) /\ Lw!My(x) \in Lw!Proc
      BY <1>5, <2>2 DEF Awaited, Core, Joining, Alive, Homes
    <3>2. PICK v \in Lw!Thread : v = k[x].u /\ th[x].chan = <<"thread", v>>
      BY <3>1 DEF AwaitedOf
    <3>3. Lw!My(t)' = Lw!My(t) /\ Builds(t, {"exit_mark", "exec"})'
      BY <1>2, <1>5, <2>1, <2>3 DEF Builds
    <3>4. CASE Lw!My(x) = Lw!My(t)
      BY <2>3, <3>1, <3>2, <3>3, <3>4 DEF AwaitedOf
    <3>5. CASE Lw!My(x) # Lw!My(t)
      <4>1. \A y \in Lw!Thread : Lw!My(y) = Lw!My(x) /\ Builds(y, {"exit_mark", "exec"}) => Builds(y, {"exit_mark", "exec"})'
        BY <2>1, <2>3, <2>8, <3>5 DEF Builds
      <4>2. CASE \E y \in Lw!Thread : Lw!My(y) = Lw!My(x) /\ Builds(y, {"exit_mark", "exec"})
        BY <2>3, <3>1, <3>2, <4>1, <4>2 DEF AwaitedOf
      <4>3. CASE ~ \E y \in Lw!Thread : Lw!My(y) = Lw!My(x) /\ Builds(y, {"exit_mark", "exec"})
        <5>1. Serves(Lw!My(x), v)
          BY <3>1, <3>2, <4>3 DEF JoiningOf, Builds
        <5>2. v # u
          BY <2>1, <3>1, <3>5, <5>1 DEF Core, MemberEntries, Lw!My
        <5>3. th'[v].state \in {"ZOMBIE", "UNUSED"} => k[v].at = "exit_wakeup" /\ Lw!Running(v)
          BY <2>2, <3>1, <3>2, <4>3, <5>2 DEF AwaitedOf
        <5>4. k[v].at = "exit_wakeup" => k'[v].at = "exit_wakeup"
          BY <1>1, <2>8
        <5> QED
          BY <1>6, <3>1, <3>2, <5>3, <5>4 DEF AwaitedOf
      <4> QED
        BY <4>2, <4>3
    <3> QED
      BY <3>4, <3>5
  <2> QED
    BY <2>4, <2>6, <2>7, <2>10, <2>11, <2>14, <2>15, <2>16, <2>17 DEF ThreadInv, Core
<1> QED
  BY <1>11, <1>12

--------------------------------------------------------------------------------
(* Steps that build threads or give them back *)

\* What such a step of t does to the calls of the others: nothing, except to
\* siblings, to threads it starts, and to threads that have ended.
Aside(t) ==
    /\ \A x \in Lw!Thread : x # t /\ Alive(x)' =>
        \/ Alive(x) /\ th'[x] = th[x] /\ k'[x] = k[x]
        \/ th'[x].state = "RUNNABLE" /\ k'[x].at = "user" /\ (Lw!My(x)' = Lw!My(t) \/ pr[Lw!My(x)'].state # "RUNNABLE")
    /\ \A x \in Lw!Thread : x # t /\ Alive(x) /\ Lw!My(x) # Lw!My(t) => Alive(x)' /\ th'[x] = th[x] /\ k'[x] = k[x]
    /\ \A p \in Lw!Proc : p # Lw!My(t) /\ pr[p].state = "RUNNABLE" =>
            pr'[p].master = pr[p].master /\ pr'[p].workers = pr[p].workers
    /\ \A x \in Lw!Thread : x # t /\ pr[Lw!My(t)].master = x /\ Serves(Lw!My(t), k[x].u) =>
            k'[t].at = "exec" \/ (pr'[Lw!My(t)].master = x /\ Serves(Lw!My(t), k[x].u)')
    /\ \A p \in Lw!Proc, w \in Lw!Thread : Serves(p, w) /\ pr[p].state = "RUNNABLE" /\ th'[w].state \in {"ZOMBIE", "UNUSED"} =>
            \/ th[w].state \in {"ZOMBIE", "UNUSED"}
            \/ p = Lw!My(t) /\ (k'[t].at = "exec" \/ pr[p].master = t)

\* Then the calls of all threads go on as the invariant says.
LEMMA CourseStep ==
    ASSUME OneProcessor, Tables, Awaited, Core, NEW t \in Lw!Thread, Lw!Running(t), th[t].state = "RUNNING",
           cpu' = cpu, th'[t] = th[t],
           k'[t].at \notin {"asleep", "exited", "exit_wakeup", "exit_sched", "joined", "exit_mark"}, k[t].at # "exit_mark",
           k[t].at = "exec" => k'[t].at = "exec" \/ \A x \in Lw!Thread : x # t /\ Lw!My(x) = Lw!My(t) => ~ Alive(x),
           Aside(t), ExecingOf(t)'
    PROVE  OneRuns' /\ CallStates' /\ Joining' /\ Exiting' /\ Execing' /\ Awaited'
<1>1. /\ Able(t) /\ Able(t)' /\ Lw!My(t)' = Lw!My(t) /\ Lw!My(t) \in Lw!Proc /\ pr[Lw!My(t)].state = "RUNNABLE"
      /\ \A x : Lw!Running(x)' <=> Lw!Running(x)
      /\ \A x \in Lw!Thread : Lw!Running(x) => x = t
  <2>1. Lw!My(t) \in Lw!Proc /\ pr[Lw!My(t)].state = "RUNNABLE" /\ \A x \in Lw!Thread : Lw!Running(x) => x = t
    BY RunnerFacts DEF Core
  <2> QED
    BY <2>1 DEF Able, Lw!My, Lw!Running
<1>2. ASSUME NEW x \in Lw!Thread, x # t, Alive(x)', k'[x].at # "user"
      PROVE  /\ Alive(x) /\ th'[x] = th[x] /\ k'[x] = k[x] /\ Lw!My(x)' = Lw!My(x) /\ (Able(x)' <=> Able(x))
             /\ Lw!My(x) \in Lw!Proc /\ pr[Lw!My(x)].state = "RUNNABLE"
  <2>1. Alive(x) /\ th'[x] = th[x] /\ k'[x] = k[x]
    BY <1>2 DEF Aside
  <2> QED
    BY <2>1 DEF Lw!My, Able, Core, Homes
<1>3. \A x \in Lw!Thread : x # t /\ Lw!My(x) = Lw!My(t) /\ Able(x) => k[x].at \notin {"exec", "exit_mark"}
  BY DEF Core, OneRuns, AloneAt
<1>4. \A x \in Lw!Thread : Able(x) => Alive(x)
  BY DEF Able, Alive
<1>5. ASSUME NEW x \in Lw!Thread, x # t, Alive(x),
             NEW S \in {{"exec"}, {"exit_mark", "exec"}}, NEW y \in Lw!Thread, Lw!My(y) = Lw!My(x), Builds(y, S)
      PROVE  Lw!My(y)' = Lw!My(y) /\ Builds(y, S)'
  <2>1. CASE y = t
    <3>1. k[t].at = "exec" /\ k'[t].at = "exec"
      BY <1>5, <2>1 DEF Builds
    <3> QED
      BY <1>1, <1>5, <2>1, <3>1 DEF Builds
  <2>2. CASE y # t
    <3>1. Lw!My(y) # Lw!My(t)
      BY <1>3, <1>5, <2>2 DEF Builds
    <3>2. th'[y] = th[y] /\ k'[y] = k[y]
      BY <1>4, <1>5, <2>2, <3>1 DEF Builds, Aside
    <3> QED
      BY <1>5, <3>2 DEF Builds, Able, Lw!My
  <2> QED
    BY <2>1, <2>2
<1>6. OneRuns'
  <2> SUFFICES ASSUME NEW s \in Lw!Thread, NEW x \in Lw!Thread, Lw!Running(s)', x # s, Lw!My(x)' = Lw!My(s)',
          Able(x)', k'[x].at # "user"
               PROVE  k'[x].at \notin AloneAt
    BY DEF OneRuns, AloneAt
  <2>1. s = t /\ Alive(x)'
    BY <1>1 DEF Able, Alive
  <2>2. k'[x] = k[x] /\ Lw!My(x) = Lw!My(t) /\ Able(x)
    BY <1>1, <1>2, <2>1
  <2> QED
    BY <2>1, <2>2 DEF Core, OneRuns
<1>7. CallStates'
  <2> SUFFICES ASSUME NEW x \in Lw!Thread PROVE CallStateOf(x)'
    BY DEF CallStates
  <2>1. CASE x = t
    BY <1>1, <2>1 DEF CallStateOf
  <2>2. CASE x # t
    <3>1. CallStateOf(x) /\ ~ Lw!Running(x) /\ ~ Lw!Running(x)'
      BY <1>1, <2>2 DEF Core, CallStates
    <3>2. CASE ~ Alive(x)'
      BY <3>1, <3>2 DEF CallStateOf, Alive, Able
    <3>3. CASE Alive(x) /\ th'[x] = th[x] /\ k'[x] = k[x]
      BY <3>1, <3>3 DEF CallStateOf, Able
    <3>4. CASE th'[x].state = "RUNNABLE" /\ k'[x].at = "user"
      BY <3>1, <3>4 DEF CallStateOf
    <3> QED
      BY <2>2, <3>2, <3>3, <3>4 DEF Aside
  <2> QED
    BY <2>1, <2>2
<1>8. Joining'
  <2> SUFFICES ASSUME NEW x \in Lw!Thread, Alive(x)', k'[x].at = "joined"
               PROVE  \/ pr'[Lw!My(x)'].master = x /\ Serves(Lw!My(x), k[x].u)'
                      \/ \E y \in Lw!Thread \ {x} : Lw!My(y)' = Lw!My(x)' /\ Builds(y, {"exec"})'
    BY DEF Joining, JoiningOf
  <2>1. x # t
    OBVIOUS
  <2>2. /\ Alive(x) /\ k'[x] = k[x] /\ Lw!My(x)' = Lw!My(x) /\ Lw!My(x) \in Lw!Proc /\ pr[Lw!My(x)].state = "RUNNABLE"
        /\ JoiningOf(x)
    BY <1>2, <2>1 DEF Core, Joining
  <2>3. CASE pr[Lw!My(x)].master = x /\ Serves(Lw!My(x), k[x].u) /\ Lw!My(x) = Lw!My(t)
    <3>1. CASE k'[t].at = "exec"
      BY <1>1, <2>1, <2>2, <2>3, <3>1 DEF Builds
    <3>2. CASE pr'[Lw!My(t)].master = x /\ Serves(Lw!My(t), k[x].u)'
      BY <1>1, <2>2, <2>3, <3>2 DEF Serves
    <3> QED
      BY <2>1, <2>3, <3>1, <3>2 DEF Aside
  <2>4. CASE pr[Lw!My(x)].master = x /\ Serves(Lw!My(x), k[x].u) /\ Lw!My(x) # Lw!My(t)
    <3>1. pr'[Lw!My(x)].master = x /\ pr'[Lw!My(x)].workers = pr[Lw!My(x)].workers
      BY <2>2, <2>4 DEF Aside
    <3> QED
      BY <2>2, <2>4, <3>1 DEF Serves
  <2>5. CASE \E y \in Lw!Thread \ {x} : Lw!My(y) = Lw!My(x) /\ Builds(y, {"exec"})
    BY <1>5, <2>1, <2>2, <2>5
  <2> QED
    BY <2>2, <2>3, <2>4, <2>5 DEF JoiningOf
<1>9. Exiting'
  <2> SUFFICES ASSUME NEW x \in Lw!Thread, Builds(x, {"exit_mark"})'
               PROVE  k'[x].i >= 1 /\ \A y \in Lw!Thread \ {x} : y < k'[x].i /\ Lw!My(y)' = Lw!My(x)' => ~ Alive(y)'
    BY DEF Exiting, ExitingOf
  <2>1. x # t /\ k'[x].at = "exit_mark" /\ Alive(x)'
    BY DEF Builds, Able, Alive
  <2>2. /\ k'[x] = k[x] /\ Lw!My(x)' = Lw!My(x) /\ Lw!My(x) \in Lw!Proc /\ pr[Lw!My(x)].state = "RUNNABLE"
        /\ Able(x) /\ Builds(x, {"exit_mark"})
    BY <1>2, <2>1 DEF Builds
  <2>3. Lw!My(x) # Lw!My(t)
    BY <1>3, <2>1, <2>2 DEF Builds
  <2>4. k[x].i >= 1 /\ \A y \in Lw!Thread \ {x} : y < k[x].i /\ Lw!My(y) = Lw!My(x) => ~ Alive(y)
    BY <2>2 DEF Core, Exiting, ExitingOf
  <2>5. ASSUME NEW y \in Lw!Thread \ {x}, y < k[x].i, Lw!My(y)' = Lw!My(x), Alive(y)' PROVE FALSE
    <3>1. y # t
      BY <1>1, <2>3, <2>5
    <3>2. Alive(y) /\ th'[y] = th[y]
      BY <2>2, <2>3, <2>5, <3>1 DEF Aside
    <3> QED
      BY <2>4, <2>5, <3>2 DEF Lw!My
  <2> QED
    BY <2>2, <2>4, <2>5
<1>10. Execing'
  <2> SUFFICES ASSUME NEW x \in Lw!Thread, x # t, Builds(x, {"exec"})'
               PROVE  k'[x].i >= 1 /\ \A j \in Lw!Thread : j < k'[x].i => pr'[Lw!My(x)'].workers[j] = 0
    BY DEF Execing, ExecingOf
  <2>1. k'[x].at = "exec" /\ Alive(x)'
    BY DEF Builds, Able, Alive
  <2>2. /\ k'[x] = k[x] /\ Lw!My(x)' = Lw!My(x) /\ Lw!My(x) \in Lw!Proc /\ pr[Lw!My(x)].state = "RUNNABLE"
        /\ Able(x) /\ Builds(x, {"exec"})
    BY <1>2, <2>1 DEF Builds
  <2>3. Lw!My(x) # Lw!My(t)
    BY <1>3, <2>2 DEF Builds
  <2>4. pr'[Lw!My(x)].workers = pr[Lw!My(x)].workers
    BY <2>2, <2>3 DEF Aside
  <2> QED
    BY <2>2, <2>4 DEF Core, Execing, ExecingOf
<1>11. Awaited'
  <2> SUFFICES ASSUME NEW x \in Lw!Thread, th'[x].state = "SLEEPING", k'[x].at = "joined"
               PROVE  AwaitedOf(x)'
    BY DEF Awaited, AwaitedOf
  <2>1. x # t /\ Alive(x)'
    BY DEF Alive
  <2>2. /\ Alive(x) /\ th'[x] = th[x] /\ k'[x] = k[x] /\ Lw!My(x)' = Lw!My(x) /\ Lw!My(x) \in Lw!Proc
        /\ pr[Lw!My(x)].state = "RUNNABLE" /\ JoiningOf(x) /\ AwaitedOf(x)
    BY <1>2, <2>1 DEF Core, Joining, Awaited
  <2>3. PICK v \in Lw!Thread : v = k[x].u /\ th[x].chan = <<"thread", v>>
    BY <2>2 DEF AwaitedOf
  <2>4. CASE \E y \in Lw!Thread : Lw!My(y) = Lw!My(x) /\ Builds(y, {"exit_mark", "exec"})
    <3>1. PICK y \in Lw!Thread : Lw!My(y) = Lw!My(x) /\ Builds(y, {"exit_mark", "exec"})
      BY <2>4
    <3>2. Lw!My(y)' = Lw!My(y) /\ Builds(y, {"exit_mark", "exec"})'
      BY <1>5, <2>1, <2>2, <3>1
    <3> QED
      BY <2>2, <2>3, <3>1, <3>2 DEF AwaitedOf
  <2>5. CASE ~ \E y \in Lw!Thread : Lw!My(y) = Lw!My(x) /\ Builds(y, {"exit_mark", "exec"})
    <3>1. pr[Lw!My(x)].master = x /\ Serves(Lw!My(x), v)
      BY <2>2, <2>3, <2>5 DEF JoiningOf, Builds
    <3>2. th'[v].state \in {"ZOMBIE", "UNUSED"} =>
            th[v].state \in {"ZOMBIE", "UNUSED"} \/ (Lw!My(x) = Lw!My(t) /\ k'[t].at = "exec")
      BY <2>1, <2>2, <3>1 DEF Aside
    <3>3. ~ th[v].state \in {"ZOMBIE", "UNUSED"}
      BY <1>1, <2>2, <2>3, <2>5 DEF AwaitedOf
    <3>4. k'[t].at = "exec" => Builds(t, {"exit_mark", "exec"})'
      BY <1>1 DEF Builds
    <3> QED
      BY <1>1, <2>2, <2>3, <3>2, <3>3, <3>4 DEF AwaitedOf
  <2> QED
    BY <2>4, <2>5
<1> QED
  BY <1>6, <1>7, <1>8, <1>9, <1>10, <1>11

\* A set of natural numbers has a least element.
LEMMA LeastThread ==
    ASSUME NEW S \in SUBSET Nat, S # {}
    PROVE  Lw!Least(S) \in S
<1> DEFINE R == OpToRel(<, Nat)
<1>1. IsWellFoundedOn(R, Nat)
  BY NatLessThanWellFounded
<1>2. \A x, y \in Nat : <<y, x>> \in R <=> y < x
  BY DEF OpToRel
<1> HIDE DEF R
<1>3. PICK x \in S : \A y \in S : ~ (<<y, x>> \in R)
  BY <1>1, WFMin
<1>4. \A y \in S : ~ (y < x) /\ y \in Nat /\ x \in Nat
  BY <1>2, <1>3
<1>5. \A y \in S : x <= y
  BY <1>4
<1> QED
  BY <1>5 DEF Lw!Least

\* workers has room: the master of a process is not in it.
LEMMA WorkersRoom ==
    ASSUME OneProcessor, Tables, MembersApart, ProcStates, NEW p \in Lw!Proc, pr[p].state = "RUNNABLE"
    PROVE  \E i \in Lw!Thread : pr[p].workers[i] = 0
<1> SUFFICES ASSUME \A i \in Lw!Thread : pr[p].workers[i] # 0 PROVE FALSE
  OBVIOUS
<1>1. pr[p].workers \in [Lw!Thread -> 0 .. NTHREAD] /\ pr[p].master \in Lw!Thread
  BY EntryTypes DEF ProcStates, Lw!Thread, OneProcessor
<1>2. \A i \in Lw!Thread : pr[p].workers[i] \in Lw!Thread \ {pr[p].master}
  BY <1>1 DEF MembersApart, Serves, Lw!Thread, OneProcessor
<1>3. pr[p].workers \in [Lw!Thread -> Lw!Thread \ {pr[p].master}]
  BY <1>1, <1>2
<1>4. IsFiniteSet(Lw!Thread) /\ Cardinality(Lw!Thread) = NTHREAD
  BY FS_Interval DEF Lw!Thread, OneProcessor
<1>5. IsFiniteSet(Lw!Thread \ {pr[p].master}) /\ Cardinality(Lw!Thread \ {pr[p].master}) = NTHREAD - 1
  BY <1>1, <1>4, FS_RemoveElement
<1>6. \E x, y \in Lw!Thread : x # y /\ pr[p].workers[x] = pr[p].workers[y]
  BY <1>3, <1>4, <1>5, FS_PigeonHole DEF OneProcessor
<1> QED
  BY <1>6 DEF MembersApart

\* An entry that is not in use is nobody's.
LEMMA UnusedIsFree ==
    ASSUME OneProcessor, Tables, Core, NEW u \in Lw!Thread, th[u].state = "UNUSED"
    PROVE  /\ \A p \in Lw!Proc : ~ Member(p, u)
           /\ \A x \in Lw!Thread : Builds(x, BuildAt) => k[x].u # u
           /\ ~ Alive(u) /\ ~ Lw!Running(u) /\ ~ HasStack(u)
<1>1. \A p \in Lw!Proc : ~ Member(p, u)
  BY DEF Core, MemberEntries
<1>2. \A x \in Lw!Thread : Builds(x, BuildAt) => k[x].u # u
  <2>1. u \in 0 .. NTHREAD
    BY DEF Lw!Thread, OneProcessor
  <2> QED
    BY <2>1 DEF Core, NewEntries, NewEntryOf
<1>3. ~ Lw!Running(u)
  BY DEF Core, CallStates, CallStateOf
<1>4. \A x \in Lw!Thread : Builds(x, StackAt) => Builds(x, BuildAt)
  BY DEF Builds, BuildAt
<1> QED
  BY <1>1, <1>2, <1>3, <1>4 DEF Alive, HasStack

--------------------------------------------------------------------------------
(* Steps on an entry that no process has *)

\* t takes, fills in or gives up the entry u.
Touches(t, u) ==
    /\ Lw!Running(t) /\ th[t].state = "RUNNING" /\ u # t
    /\ cpu' = cpu /\ fault' = fault /\ overlap' = overlap /\ stacks \subseteq stacks'
    /\ \A p \in Lw!Proc : ~ Member(p, u)
    /\ ~ Alive(u)
    /\ \A x \in Lw!Thread : x # t /\ Builds(x, BuildAt) => k[x].u # u
    /\ Builds(t, BuildAt) => k[t].u = u
    /\ \A x \in Lw!Thread : x # u => th'[x] = th[x]
    /\ th'[u].state \in {"UNUSED", "EMBRYO", "ZOMBIE"} /\ th'[u].tid \in {0, u}
    /\ \A x \in Lw!Thread : x # t => k'[x] = k[x]
    /\ k[t].at \notin {"exec", "exit_mark"}
    /\ k'[t].at \in {"user", "create_stacks", "create_find", "create_store", "fork_stack"}
    /\ \A p \in Lw!Proc : /\ pr'[p].state = pr[p].state /\ pr'[p].master = pr[p].master /\ pr'[p].workers = pr[p].workers
                          /\ \A s \in Lw!Thread : pr[p].check[s] => pr'[p].check[s]

\* What the call of t has then come to.
Builder(t, u) ==
    /\ Builds(t, BuildAt)' => k'[t].u = u /\ NewEntryOf(t, u)'
    /\ Builds(t, StackAt)' => /\ th'[u].kstack \in stacks'
                              /\ \A x \in Lw!Thread : HasStack(x) /\ x # u => th[x].kstack # th'[u].kstack
    /\ Builds(t, ForkAt)' => /\ Builds(t, ForkAt) /\ k'[t].q = k[t].q /\ k[t].at \in {"fork_thread", "fork_stack"}
    /\ Builds(t, {"create_find", "create_store"})' =>
        LET s == th'[u].ustack
        IN  s # 0 /\ pr'[Lw!My(t)].check[s] /\ \A w \in Lw!Thread : Serves(Lw!My(t), w) => th[w].ustack # s
    /\ ~ lossy' => ~ lossy /\ (th'[u].state = "UNUSED" \/ Builds(t, BuildAt)')

\* Everybody else is where and what he was.
LEMMA TouchFacts ==
    ASSUME OneProcessor, Tables, Core, NEW t \in Lw!Thread, NEW u \in Lw!Thread, Touches(t, u)
    PROVE  /\ Able(t) /\ Able(t)' /\ Lw!My(t) \in Lw!Proc /\ pr[Lw!My(t)].state = "RUNNABLE"
           /\ th'[t] = th[t] /\ Lw!My(t)' = Lw!My(t)
           /\ ~ Lw!Running(u) /\ (\A x \in Lw!Thread : Lw!Running(x) => x = t) /\ \A x : Lw!Running(x)' <=> Lw!Running(x)
           /\ \A p \in Lw!Proc : \A x : (Member(p, x)' <=> Member(p, x)) /\ (Serves(p, x)' <=> Serves(p, x))
           /\ \A x \in Lw!Thread : (Alive(x)' <=> Alive(x)) /\ (Able(x)' <=> Able(x)) /\ (Able(x) => Alive(x))
           /\ \A x \in Lw!Thread : x # u => Lw!My(x)' = Lw!My(x)
           /\ \A x \in Lw!Thread : \A S : x # t => (Builds(x, S)' <=> Builds(x, S))
<1>1. Lw!Running(t) /\ th[t].state = "RUNNING" /\ u # t /\ th'[t] = th[t] /\ cpu' = cpu
  BY DEF Touches
<1>2. Lw!My(t) \in Lw!Proc /\ pr[Lw!My(t)].state = "RUNNABLE" /\ \A x \in Lw!Thread : Lw!Running(x) => x = t
  BY <1>1, RunnerFacts DEF Core
<1>3. \A p \in Lw!Proc : \A x : (Member(p, x)' <=> Member(p, x)) /\ (Serves(p, x)' <=> Serves(p, x))
  BY DEF Touches, Member, Serves
<1>4. \A x \in Lw!Thread : (Alive(x)' <=> Alive(x)) /\ (Able(x)' <=> Able(x)) /\ (Able(x) => Alive(x))
  BY DEF Touches, Alive, Able
<1>5. \A x \in Lw!Thread : x # u => Lw!My(x)' = Lw!My(x)
  BY DEF Touches, Lw!My
<1>6. \A x \in Lw!Thread : \A S : x # t => (Builds(x, S)' <=> Builds(x, S))
  BY <1>4 DEF Touches, Builds
<1> QED
  BY <1>1, <1>2, <1>3, <1>4, <1>5, <1>6 DEF Able, Lw!Running

LEMMA TouchKeepsMembers ==
    ASSUME OneProcessor, Tables, Core, NEW t \in Lw!Thread, NEW u \in Lw!Thread, Touches(t, u)
    PROVE  MembersApart' /\ ProcStates' /\ MemberEntries' /\ Homes'
<1>1. MembersApart'
  <2>1. \A p \in Lw!Proc : ~ Serves(p, pr[p].master)'
    BY DEF Core, MembersApart, Touches, Serves
  <2> QED
    BY <2>1, TouchFacts DEF Core, MembersApart, Touches
<1>2. ProcStates'
  <2> SUFFICES ASSUME NEW p \in Lw!Proc, pr'[p].state \in {"RUNNABLE", "ZOMBIE"}
               PROVE  th'[pr'[p].master].process = p
    BY DEF Core, ProcStates, Touches
  <2>1. pr[p].master # 0 /\ th[pr[p].master].process = p /\ pr'[p].master = pr[p].master
    BY DEF Core, ProcStates, Touches
  <2>2. pr[p].master \in Lw!Thread
    BY <2>1, EntryTypes DEF OneProcessor, Lw!Thread
  <2>3. pr[p].master # u
    BY <2>1 DEF Touches, Member
  <2> QED
    BY <2>1, <2>2, <2>3 DEF Touches
<1>3. MemberEntries'
  <2>1. \A x \in Lw!Thread : th'[x].tid \in {0, x}
    BY DEF Core, MemberEntries, Touches
  <2>2. \A p \in Lw!Proc, x \in Lw!Thread : Member(p, x) => th'[x] = th[x]
    BY DEF Touches
  <2>3. \A p \in Lw!Proc, x \in Lw!Thread : Serves(p, x) => Member(p, x)
    BY DEF Member
  <2> QED
    BY <2>1, <2>2, <2>3, TouchFacts DEF Core, MemberEntries
<1>4. Homes'
  <2> SUFFICES ASSUME NEW x \in Lw!Thread, Alive(x)' \/ Lw!Running(x)'
               PROVE  Lw!My(x)' \in Lw!Proc /\ Member(Lw!My(x), x)' /\ pr'[Lw!My(x)'].state = "RUNNABLE"
    BY DEF Homes
  <2>1. x # u /\ (Alive(x) \/ Lw!Running(x))
    BY TouchFacts DEF Touches
  <2>2. Lw!My(x) \in Lw!Proc /\ Member(Lw!My(x), x) /\ pr[Lw!My(x)].state = "RUNNABLE" /\ Lw!My(x)' = Lw!My(x)
    BY <2>1, TouchFacts DEF Core, Homes
  <2>3. Member(Lw!My(x), x)'
    BY <2>2 DEF Touches, Member, Serves
  <2> QED
    BY <2>2, <2>3 DEF Touches
<1> QED
  BY <1>1, <1>2, <1>3, <1>4

LEMMA TouchKeepsMaking ==
    ASSUME OneProcessor, Tables, Core, NEW t \in Lw!Thread, NEW u \in Lw!Thread, Touches(t, u), Builder(t, u)
    PROVE  StacksHeld' /\ NewEntries' /\ NewProcs' /\ UserStacks' /\ Kept'
<1>1. \A x \in Lw!Thread : Builds(x, StackAt)' => Builds(x, BuildAt)'
  BY DEF Builds, BuildAt
<1>2. \A x \in Lw!Thread : Builds(x, BuildAt)' =>
        (x = t /\ k'[x].u = u) \/ (x # t /\ Builds(x, BuildAt) /\ k'[x] = k[x] /\ k[x].u # u)
  BY TouchFacts DEF Touches, Builder
<1>3. StacksHeld'
  <2>1. ASSUME NEW x \in Lw!Thread, HasStack(x)'
        PROVE  (x = u /\ Builds(t, StackAt)') \/ (x # u /\ HasStack(x))
    <3>1. CASE \E p \in Lw!Proc : Member(p, x)'
      BY <3>1, TouchFacts DEF Touches, HasStack
    <3>2. ASSUME NEW y \in Lw!Thread, Builds(y, StackAt)', k'[y].u = x
          PROVE  (x = u /\ Builds(t, StackAt)') \/ (x # u /\ HasStack(x))
      <4>1. CASE y = t
        BY <1>1, <1>2, <3>2, <4>1
      <4>2. CASE y # t
        BY <1>1, <1>2, <3>2, <4>2, TouchFacts DEF HasStack
      <4> QED
        BY <4>1, <4>2
    <3> QED
      BY <2>1, <3>1, <3>2 DEF HasStack
  <2>2. \A x \in Lw!Thread : x # u => th'[x] = th[x]
    BY DEF Touches
  <2>3. stacks \subseteq stacks' /\ fault' = fault
    BY DEF Touches
  <2> QED
    BY <2>1, <2>2, <2>3 DEF Core, StacksHeld, Builder
<1>4. NewEntries'
  <2>1. ASSUME NEW x \in Lw!Thread, NEW w \in 0 .. NTHREAD, Builds(x, BuildAt)', k'[x].u = w, x # t
        PROVE  NewEntryOf(x, w)'
    <3>1. Builds(x, BuildAt) /\ k'[x] = k[x] /\ w # u /\ NewEntryOf(x, w)
      BY <1>2, <2>1 DEF Core, NewEntries
    <3>2. w \in Lw!Thread /\ th'[w] = th[w] /\ ~ Lw!Running(w)'
      BY <3>1, TouchFacts DEF NewEntryOf, Touches
    <3>3. x # u /\ Lw!My(x)' = Lw!My(x) /\ Lw!My(x) \in Lw!Proc
      BY <3>1, TouchFacts DEF Touches, Builds, Core, Homes
    <3>4. \A p \in Lw!Proc : Member(p, w)' => k[x].at \in {"fork_copy", "fork_run"} /\ p = k[x].q
      BY <3>1, TouchFacts DEF NewEntryOf
    <3>5. k[x].at \in {"fork_copy", "fork_run"} => k[x].q \in Lw!Proc
      BY <3>1 DEF Core, NewProcs, Builds, ForkAt
    <3> QED
      BY <3>1, <3>2, <3>3, <3>4, <3>5 DEF NewEntryOf, Touches
  <2>2. ASSUME NEW w \in 0 .. NTHREAD, Builds(t, BuildAt)', k'[t].u = w PROVE NewEntryOf(t, w)'
    <3>1. NewEntryOf(t, u)' /\ w = u
      BY <2>2 DEF Builder
    <3> QED
      BY <3>1
  <2>3. \A x, y \in Lw!Thread : Builds(x, BuildAt)' /\ Builds(y, BuildAt)' /\ x # y => k'[x].u # k'[y].u
    BY <1>2 DEF Core, NewEntries
  <2> QED
    BY <2>1, <2>2, <2>3 DEF NewEntries
<1>5. NewProcs'
  <2>1. \A x \in Lw!Thread : Builds(x, ForkAt)' => Builds(x, ForkAt) /\ k'[x].q = k[x].q
    BY TouchFacts DEF Builder, Touches
  <2>2. \A x \in Lw!Thread : Builds(x, ForkAt)' /\ k'[x].at \in {"fork_thread", "fork_stack"}
          => k[x].at \in {"fork_thread", "fork_stack"}
    BY DEF Builder, Touches
  <2> QED
    BY <2>1, <2>2 DEF Core, NewProcs, Touches
<1>6. UserStacks'
  <2>1. \A p \in Lw!Proc, x \in Lw!Thread : Serves(p, x) => x # u /\ th'[x] = th[x]
    BY DEF Touches, Member
  <2>2. \A p \in Lw!Proc, x, y \in Lw!Thread : Serves(p, x)' /\ Serves(p, y)' /\ x # y => th'[x].ustack # th'[y].ustack
    BY <2>1, TouchFacts DEF Core, UserStacks
  <2>3. ASSUME NEW p \in Lw!Proc, NEW x \in Lw!Thread, pr'[p].state = "RUNNABLE", Serves(p, x)'
        PROVE  th'[x].ustack # 0 /\ pr'[p].check[th'[x].ustack]
    <3>1. th[x].ustack # 0 /\ pr[p].check[th[x].ustack] /\ th'[x] = th[x]
      BY <2>1, <2>3, TouchFacts DEF Core, UserStacks, Touches
    <3>2. th[x].ustack \in Lw!Thread
      BY <3>1, EntryTypes DEF Lw!Thread, OneProcessor
    <3> QED
      BY <3>1, <3>2 DEF Touches
  <2>4. ASSUME NEW x \in Lw!Thread, NEW w \in Lw!Thread, Builds(x, {"create_find", "create_store"})', k'[x].u = w
        PROVE  LET s == th'[w].ustack
               IN  s # 0 /\ pr'[Lw!My(x)'].check[s] /\ \A y \in Lw!Thread : Serves(Lw!My(x), y)' => th'[y].ustack # s
    <3>1. Builds(x, BuildAt)'
      BY <2>4 DEF Builds, BuildAt, StackAt
    <3>2. CASE x = t
      <4>1. w = u /\ Lw!My(t)' = Lw!My(t) /\ Lw!My(t) \in Lw!Proc
        BY <1>2, <2>4, <3>1, <3>2, TouchFacts
      <4>2. \A y \in Lw!Thread : Serves(Lw!My(t), y)' => Serves(Lw!My(t), y) /\ th'[y] = th[y]
        BY <2>1, <4>1 DEF Touches, Serves
      <4> QED
        BY <2>4, <3>2, <4>1, <4>2 DEF Builder
    <3>3. CASE x # t
      <4>1. Builds(x, {"create_find", "create_store"}) /\ k'[x] = k[x] /\ w # u /\ th'[w] = th[w]
        BY <1>2, <2>4, <3>1, <3>3, TouchFacts DEF Touches
      <4>2. x # u /\ Lw!My(x)' = Lw!My(x) /\ Lw!My(x) \in Lw!Proc
        BY <4>1, TouchFacts DEF Touches, Builds, Core, Homes
      <4>3. LET s == th[w].ustack
            IN  s # 0 /\ pr[Lw!My(x)].check[s] /\ \A y \in Lw!Thread : Serves(Lw!My(x), y) => th[y].ustack # s
        BY <2>4, <4>1 DEF Core, UserStacks
      <4>4. th[w].ustack \in Lw!Thread
        BY <4>3, EntryTypes DEF Lw!Thread, OneProcessor
      <4>5. pr'[Lw!My(x)].check[th[w].ustack]
        BY <4>2, <4>3, <4>4 DEF Touches
      <4>6. \A y \in Lw!Thread : Serves(Lw!My(x), y)' => Serves(Lw!My(x), y) /\ th'[y] = th[y]
        BY <2>1, <4>2 DEF Touches, Serves
      <4> QED
        BY <4>1, <4>2, <4>3, <4>5, <4>6
    <3> QED
      BY <3>2, <3>3
  <2> QED
    BY <2>2, <2>3, <2>4 DEF UserStacks
<1>7. Kept'
  <2> SUFFICES ASSUME ~ lossy', NEW x \in Lw!Thread, th'[x].state # "UNUSED"
               PROVE  (\E p \in Lw!Proc : Member(p, x)') \/ \E y \in Lw!Thread : Builds(y, BuildAt)' /\ k'[y].u = x
    BY DEF Kept
  <2>1. CASE x = u
    BY <2>1 DEF Builder
  <2>2. CASE x # u
    <3>1. ~ lossy /\ th[x].state # "UNUSED"
      BY <2>2 DEF Builder, Touches
    <3>2. CASE \E p \in Lw!Proc : Member(p, x)
      BY <3>2, TouchFacts
    <3>3. ASSUME NEW y \in Lw!Thread, Builds(y, BuildAt), k[y].u = x PROVE Builds(y, BuildAt)' /\ k'[y].u = x
      BY <2>2, <3>3, TouchFacts DEF Touches
    <3> QED
      BY <3>1, <3>2, <3>3 DEF Core, Kept
  <2> QED
    BY <2>1, <2>2
<1> QED
  BY <1>3, <1>4, <1>5, <1>6, <1>7

\* Such a step keeps the invariant.
LEMMA TouchStep ==
    ASSUME OneProcessor, Tables, Awaited, Core, NEW t \in Lw!Thread, NEW u \in Lw!Thread, Touches(t, u), Builder(t, u), Tables'
    PROVE  ThreadInv'
<1>1. Aside(t)
  <2>1. \A x \in Lw!Thread : x # t /\ Alive(x) => x # u /\ Alive(x)' /\ th'[x] = th[x] /\ k'[x] = k[x]
    BY TouchFacts DEF Touches
  <2>2. \A p \in Lw!Proc, w \in Lw!Thread : Serves(p, w) => th'[w] = th[w]
    BY DEF Touches, Member
  <2>3. \A p \in Lw!Proc : pr'[p].master = pr[p].master /\ pr'[p].workers = pr[p].workers
    BY DEF Touches
  <2>4. ASSUME NEW x \in Lw!Thread, x # t, pr[Lw!My(t)].master = x, Serves(Lw!My(t), k[x].u)
        PROVE  pr'[Lw!My(t)].master = x /\ Serves(Lw!My(t), k[x].u)'
    <3>1. k'[x] = k[x] /\ Lw!My(t) \in Lw!Proc /\ Lw!My(t)' = Lw!My(t)
      BY <2>4, TouchFacts DEF Touches
    <3> QED
      BY <2>3, <2>4, <3>1 DEF Serves
  <2> QED
    BY <2>1, <2>2, <2>3, <2>4, TouchFacts DEF Aside
<1>2. /\ Lw!Running(t) /\ th[t].state = "RUNNING" /\ cpu' = cpu /\ th'[t] = th[t]
      /\ k'[t].at \notin {"asleep", "exited", "exit_wakeup", "exit_sched", "joined", "exit_mark", "exec"}
      /\ k[t].at \notin {"exit_mark", "exec"}
  BY DEF Touches
<1>3. ExecingOf(t)'
  BY <1>2 DEF ExecingOf, Builds
<1>4. OneRuns' /\ CallStates' /\ Joining' /\ Exiting' /\ Execing' /\ Awaited'
  BY <1>1, <1>2, <1>3, CourseStep
<1> QED
  BY <1>4, TouchKeepsMembers, TouchKeepsMaking DEF ThreadInv, Core

\* allocthread() takes an entry that is nobody's.
LEMMA AllocStep ==
    ASSUME OneProcessor, Tables, Awaited, Core, NEW t \in Lw!Thread, Lw!CreateAlloc(t) \/ Lw!ForkThread(t)
    PROVE  ThreadInv'
<1>1. Lw!Running(t) /\ k[t].at \in {"user", "fork_thread"}
  BY DEF Lw!CreateAlloc, Lw!ForkThread, Lw!User, Lw!OnLocked, Lw!On
<1>2. th[t].state = "RUNNING" /\ Able(t)
  BY <1>1, RunnerFacts DEF Core
<1>3. PICK u \in Lw!Thread : u = Lw!Least(Lw!Unused) /\ th[u].state = "UNUSED"
  <2>1. Lw!Unused # {} /\ Lw!Unused \in SUBSET Nat
    BY DEF Lw!CreateAlloc, Lw!ForkThread, Lw!allocthread, Lw!Unused, Lw!Thread, OneProcessor
  <2>2. Lw!Least(Lw!Unused) \in Lw!Unused
    BY <2>1, LeastThread
  <2> QED
    BY <2>2 DEF Lw!Unused
<1>4. PICK next \in {"create_stacks", "fork_stack"} :
        /\ th' = [th EXCEPT ![u] = [@ EXCEPT !.state = "EMBRYO", !.tid = u]]
        /\ k' = [k EXCEPT ![t] = [@ EXCEPT !.at = next, !.u = u]]
        /\ next = "fork_stack" => k[t].at = "fork_thread"
  BY <1>1, <1>3 DEF Lw!CreateAlloc, Lw!ForkThread, Lw!allocthread, Lw!OnLocked, Lw!On
<1>5. UNCHANGED <<pr, cpu, stacks, fault, lossy, overlap>>
  BY DEF Lw!CreateAlloc, Lw!ForkThread
<1>6. /\ th' \in [Lw!Thread -> ThreadEntry] /\ k' \in [Lw!Thread -> CallEntry]
      /\ \A x \in Lw!Thread : x # u => th'[x] = th[x]
      /\ \A x \in Lw!Thread : x # t => k'[x] = k[x]
      /\ th'[u].state = "EMBRYO" /\ th'[u].tid = u
      /\ k'[t].at = next /\ k'[t].u = u /\ k'[t].q = k[t].q
  <2>1. th[u] \in ThreadEntry /\ k[t] \in CallEntry /\ u \in 0 .. NTHREAD
        /\ th \in [Lw!Thread -> ThreadEntry] /\ k \in [Lw!Thread -> CallEntry]
    BY DEF Tables, Lw!Thread, OneProcessor
  <2>2. [th[u] EXCEPT !.state = "EMBRYO", !.tid = u] \in ThreadEntry
    BY <2>1 DEF ThreadEntry, Lw!State
  <2>3. [k[t] EXCEPT !.at = next, !.u = u] \in CallEntry
    BY <2>1 DEF CallEntry, Places
  <2> QED
    BY <1>4, <2>1, <2>2, <2>3 DEF ThreadEntry, CallEntry
<1>7. Tables'
  BY <1>5, <1>6 DEF Tables
<1>8. /\ \A p \in Lw!Proc : ~ Member(p, u)
      /\ \A x \in Lw!Thread : Builds(x, BuildAt) => k[x].u # u
      /\ ~ Alive(u) /\ ~ Lw!Running(u) /\ ~ HasStack(u)
  BY <1>3, UnusedIsFree
<1>9. Touches(t, u)
  <2>1. ~ Builds(t, BuildAt)
    BY <1>1 DEF Builds, BuildAt, StackAt
  <2> QED
    BY <1>1, <1>2, <1>3, <1>4, <1>5, <1>6, <1>8, <2>1 DEF Touches
<1>10. NewEntryOf(t, u)'
  <2>1. ~ Lw!Running(u)' /\ \A p \in Lw!Proc : ~ Member(p, u)'
    BY <1>8, <1>9, TouchFacts
  <2> QED
    BY <1>6, <2>1 DEF NewEntryOf
<1>11. Builder(t, u)
  <2>1. Builds(t, BuildAt)' /\ ~ Builds(t, StackAt)' /\ ~ Builds(t, {"create_find", "create_store"})'
    BY <1>6, <1>9, TouchFacts DEF Builds, BuildAt, StackAt
  <2>2. Builds(t, ForkAt)' => Builds(t, ForkAt) /\ k[t].at = "fork_thread"
    BY <1>2, <1>4, <1>6 DEF Builds, ForkAt
  <2> QED
    BY <1>5, <1>6, <1>10, <2>1, <2>2 DEF Builder
<1> QED
  BY <1>7, <1>9, <1>11, TouchStep

\* The thread that a call under way builds.
LEMMA BuildFacts ==
    ASSUME OneProcessor, Tables, Core, NEW t \in Lw!Thread, Lw!Running(t), k[t].at \in BuildAt
    PROVE  \E u \in Lw!Thread :
             /\ u = k[t].u /\ u # t /\ NewEntryOf(t, u) /\ ~ Alive(u) /\ th[u].tid \in {0, u}
             /\ \A x \in Lw!Thread : x # t /\ Builds(x, BuildAt) => k[x].u # u
             /\ k[t].at \notin {"fork_copy", "fork_run"} => \A p \in Lw!Proc : ~ Member(p, u)
             /\ th[t].state = "RUNNING" /\ Able(t) /\ Lw!My(t) \in Lw!Proc /\ pr[Lw!My(t)].state = "RUNNABLE"
             /\ th[u] \in ThreadEntry /\ k[t] \in CallEntry
<1>1. k[t].at \notin {"exit_wakeup", "exit_sched"}
  BY DEF BuildAt, StackAt
<1>2. th[t].state = "RUNNING" /\ Able(t) /\ Lw!My(t) \in Lw!Proc /\ pr[Lw!My(t)].state = "RUNNABLE"
  BY <1>1, RunnerFacts DEF Core
<1>3. Builds(t, BuildAt)
  BY <1>2 DEF Builds
<1>4. PICK u \in 0 .. NTHREAD : u = k[t].u
  BY EntryTypes
<1>5. NewEntryOf(t, u)
  BY <1>3, <1>4 DEF Core, NewEntries
<1>6. u \in Lw!Thread /\ th[u].state \in {"EMBRYO", "ZOMBIE"}
  BY <1>5 DEF NewEntryOf
<1>7. \A x \in Lw!Thread : x # t /\ Builds(x, BuildAt) => k[x].u # u
  BY <1>3, <1>4 DEF Core, NewEntries
<1>8. k[t].at \notin {"fork_copy", "fork_run"} => \A p \in Lw!Proc : ~ Member(p, u)
  BY <1>5 DEF NewEntryOf
<1>9. th[u].tid \in {0, u}
  BY <1>6 DEF Core, MemberEntries
<1> QED
  BY <1>2, <1>4, <1>5, <1>6, <1>7, <1>8, <1>9 DEF Alive, Tables

\* A call that returns.
LEMMA CallOver ==
    ASSUME OneProcessor, Tables, NEW t \in Lw!Thread, k' = [k EXCEPT ![t] = Lw!InUser]
    PROVE  k' \in [Lw!Thread -> CallEntry] /\ k'[t].at = "user" /\ \A x \in Lw!Thread : x # t => k'[x] = k[x]
BY DEF Tables, Lw!InUser, CallEntry, Places, OneProcessor

\* A call without a kernel stack for the new thread gives its entry back.
LEMMA CreateNoStackStep ==
    ASSUME OneProcessor, Tables, Awaited, Core, NEW t \in Lw!Thread,
           Lw!CreateNoStack(t) \/ (Lw!ForkNoThread(t) /\ k[t].at = "fork_stack")
    PROVE  ThreadInv'
<1>1. Lw!Running(t) /\ k[t].at \in {"create_stacks", "fork_stack"}
  BY DEF Lw!CreateNoStack, Lw!ForkNoThread, Lw!OnLocked, Lw!On
<1>2. k[t].at \in BuildAt
  BY <1>1 DEF BuildAt
<1>3. PICK u \in Lw!Thread :
        /\ u = k[t].u /\ u # t /\ NewEntryOf(t, u) /\ ~ Alive(u) /\ th[u].tid \in {0, u}
        /\ \A x \in Lw!Thread : x # t /\ Builds(x, BuildAt) => k[x].u # u
        /\ k[t].at \notin {"fork_copy", "fork_run"} => \A p \in Lw!Proc : ~ Member(p, u)
        /\ th[t].state = "RUNNING" /\ Able(t) /\ Lw!My(t) \in Lw!Proc /\ pr[Lw!My(t)].state = "RUNNABLE"
        /\ th[u] \in ThreadEntry /\ k[t] \in CallEntry
  BY <1>1, <1>2, BuildFacts
<1>4. /\ th' = [th EXCEPT ![u] = [@ EXCEPT !.state = "UNUSED"]]
      /\ k' = [k EXCEPT ![t] = Lw!InUser]
      /\ UNCHANGED <<pr, cpu, stacks, fault, overlap>>
      /\ lossy' = lossy \/ lossy' = TRUE
  BY <1>1, <1>3 DEF Lw!CreateNoStack, Lw!ForkNoThread, Lw!OnLocked, Lw!On
<1>5. /\ th' \in [Lw!Thread -> ThreadEntry]
      /\ \A x \in Lw!Thread : x # u => th'[x] = th[x]
      /\ th'[u].state = "UNUSED" /\ th'[u].tid = th[u].tid
  <2>1. [th[u] EXCEPT !.state = "UNUSED"] \in ThreadEntry
    BY <1>3 DEF ThreadEntry, Lw!State
  <2> QED
    BY <1>3, <1>4, <2>1 DEF Tables, ThreadEntry
<1>6. k' \in [Lw!Thread -> CallEntry] /\ k'[t].at = "user" /\ \A x \in Lw!Thread : x # t => k'[x] = k[x]
  BY <1>4, CallOver
<1>7. Tables'
  BY <1>4, <1>5, <1>6 DEF Tables
<1>8. Touches(t, u)
  BY <1>1, <1>3, <1>4, <1>5, <1>6 DEF Touches
<1>9. Builder(t, u)
  BY <1>4, <1>5, <1>6 DEF Builder, Builds, BuildAt, StackAt, ForkAt
<1> QED
  BY <1>7, <1>8, <1>9, TouchStep

\* The stacks of a new thread are nobody else's.
LEMMA CreateStacksStep ==
    ASSUME OneProcessor, Tables, Awaited, Core, NEW t \in Lw!Thread, Lw!CreateStacks(t)
    PROVE  ThreadInv'
<1>1. Lw!Running(t) /\ k[t].at = "create_stacks"
  BY DEF Lw!CreateStacks, Lw!OnLocked, Lw!On
<1>2. k[t].at \in BuildAt
  BY <1>1 DEF BuildAt
<1>3. PICK u \in Lw!Thread :
        /\ u = k[t].u /\ u # t /\ NewEntryOf(t, u) /\ ~ Alive(u) /\ th[u].tid \in {0, u}
        /\ \A x \in Lw!Thread : x # t /\ Builds(x, BuildAt) => k[x].u # u
        /\ k[t].at \notin {"fork_copy", "fork_run"} => \A p \in Lw!Proc : ~ Member(p, u)
        /\ th[t].state = "RUNNING" /\ Able(t) /\ Lw!My(t) \in Lw!Proc /\ pr[Lw!My(t)].state = "RUNNABLE"
        /\ th[u] \in ThreadEntry /\ k[t] \in CallEntry
  BY <1>1, <1>2, BuildFacts
<1>4. PICK P \in Lw!Proc : P = Lw!My(t)
  BY <1>3
<1>5. PICK s \in Lw!Stack : s = Lw!Least(Lw!Stack \ stacks) /\ s \notin stacks
  <2>1. Lw!Stack \ stacks # {} /\ Lw!Stack \ stacks \in SUBSET Nat
    BY DEF Lw!CreateStacks, Lw!Stack, OneProcessor
  <2> QED
    BY <2>1, LeastThread
<1>6. PICK i \in Lw!Thread : i = Lw!TakenSlot(P) /\ ~ pr[P].check[i]
  <2>1. {j \in Lw!Thread : ~ pr[P].check[j]} # {} /\ {j \in Lw!Thread : ~ pr[P].check[j]} \in SUBSET Nat
    BY <1>4 DEF Lw!CreateStacks, Lw!Thread, OneProcessor
  <2>2. Lw!Least({j \in Lw!Thread : ~ pr[P].check[j]}) \in {j \in Lw!Thread : ~ pr[P].check[j]}
    BY <2>1, LeastThread
  <2> QED
    BY <2>2 DEF Lw!TakenSlot
<1>7. /\ th' = [th EXCEPT ![u] = [@ EXCEPT !.kstack = s, !.ustack = i]]
      /\ stacks' = stacks \cup {s}
      /\ pr' = [pr EXCEPT ![P] = [pr[P] EXCEPT !.check = [pr[P].check EXCEPT ![i] = TRUE]]]
      /\ k' = [k EXCEPT ![t] = [@ EXCEPT !.at = "create_find"]]
      /\ UNCHANGED <<cpu, fault, lossy, overlap>>
  BY <1>3, <1>4, <1>5, <1>6 DEF Lw!CreateStacks
<1>8. /\ th' \in [Lw!Thread -> ThreadEntry] /\ k' \in [Lw!Thread -> CallEntry]
      /\ \A x \in Lw!Thread : x # u => th'[x] = th[x]
      /\ \A x \in Lw!Thread : x # t => k'[x] = k[x]
      /\ th'[u].state = th[u].state /\ th'[u].tid = th[u].tid /\ th'[u].kstack = s /\ th'[u].ustack = i
      /\ k'[t].at = "create_find" /\ k'[t].u = u
  <2>1. s \in 0 .. NTHREAD /\ i \in 0 .. NTHREAD
    BY DEF Lw!Stack, Lw!Thread, OneProcessor
  <2>2. [th[u] EXCEPT !.kstack = s, !.ustack = i] \in ThreadEntry
    BY <1>3, <2>1 DEF ThreadEntry
  <2>3. [k[t] EXCEPT !.at = "create_find"] \in CallEntry
    BY <1>3 DEF CallEntry, Places
  <2> QED
    BY <1>3, <1>7, <2>2, <2>3 DEF Tables, ThreadEntry, CallEntry
<1>9. /\ pr' \in [Lw!Proc -> ProcEntry]
      /\ \A p \in Lw!Proc : /\ pr'[p].state = pr[p].state /\ pr'[p].master = pr[p].master /\ pr'[p].workers = pr[p].workers
                            /\ \A j \in Lw!Thread : pr[p].check[j] => pr'[p].check[j]
      /\ pr'[P].check[i]
  <2>1. pr[P] \in ProcEntry /\ pr[P].check \in [Lw!Thread -> BOOLEAN]
    BY EntryTypes DEF Tables
  <2>2. [pr[P].check EXCEPT ![i] = TRUE] \in [Lw!Thread -> BOOLEAN]
    BY <2>1
  <2>3. [pr[P] EXCEPT !.check = [pr[P].check EXCEPT ![i] = TRUE]] \in ProcEntry
    BY <2>1, <2>2 DEF ProcEntry
  <2>4. pr' = [pr EXCEPT ![P] = [pr[P] EXCEPT !.check = [pr[P].check EXCEPT ![i] = TRUE]]]
    BY <1>7
  <2> QED
    BY <2>1, <2>2, <2>3, <2>4 DEF Tables, ProcEntry
<1>10. Tables'
  <2>1. stacks' \subseteq Lw!Stack
    BY <1>7 DEF Tables
  <2> QED
    BY <1>7, <1>8, <1>9, <2>1 DEF Tables
<1>11. Touches(t, u)
  <2>1. th[u].state \in {"EMBRYO", "ZOMBIE"}
    BY <1>3 DEF NewEntryOf
  <2> QED
    BY <1>1, <1>3, <1>7, <1>8, <1>9, <2>1 DEF Touches
<1>12. NewEntryOf(t, u)'
  <2>1. ~ Lw!Running(u)' /\ \A p \in Lw!Proc : ~ Member(p, u)'
    BY <1>1, <1>3, <1>11, TouchFacts
  <2> QED
    BY <1>1, <1>3, <1>8, <2>1 DEF NewEntryOf
<1>13. \A w \in Lw!Thread : Serves(P, w) => th[w].ustack # i
  BY <1>3, <1>4, <1>6 DEF Core, UserStacks
<1>14. \A x \in Lw!Thread : HasStack(x) => th[x].kstack # s
  BY <1>5 DEF Core, StacksHeld
<1>15. Builder(t, u)
  <2>1. i # 0 /\ Lw!My(t)' = Lw!My(t) /\ Able(t)'
    BY <1>11, TouchFacts DEF Lw!Thread, OneProcessor
  <2>2. Builds(t, BuildAt)' /\ ~ Builds(t, ForkAt)'
    BY <1>8, <2>1 DEF Builds, BuildAt, StackAt, ForkAt
  <2> QED
    BY <1>4, <1>7, <1>8, <1>9, <1>12, <1>13, <1>14, <2>1, <2>2 DEF Builder
<1> QED
  BY <1>10, <1>11, <1>15, TouchStep

\* The place in workers that is found is free.
LEMMA CreateFindStep ==
    ASSUME OneProcessor, Tables, Awaited, Core, NEW t \in Lw!Thread, Lw!CreateFind(t)
    PROVE  ThreadInv'
<1>1. Lw!Running(t) /\ k[t].at = "create_find"
  BY DEF Lw!CreateFind, Lw!On
<1>2. k[t].at \in BuildAt
  BY <1>1 DEF BuildAt, StackAt
<1>3. PICK u \in Lw!Thread :
        /\ u = k[t].u /\ u # t /\ NewEntryOf(t, u) /\ ~ Alive(u) /\ th[u].tid \in {0, u}
        /\ \A x \in Lw!Thread : x # t /\ Builds(x, BuildAt) => k[x].u # u
        /\ k[t].at \notin {"fork_copy", "fork_run"} => \A p \in Lw!Proc : ~ Member(p, u)
        /\ th[t].state = "RUNNING" /\ Able(t) /\ Lw!My(t) \in Lw!Proc /\ pr[Lw!My(t)].state = "RUNNABLE"
        /\ th[u] \in ThreadEntry /\ k[t] \in CallEntry
  BY <1>1, <1>2, BuildFacts
<1>4. PICK P \in Lw!Proc : P = Lw!My(t)
  BY <1>3
<1>5. PICK i \in Lw!Thread : i = Lw!Least({j \in Lw!Thread : pr[P].workers[j] = 0}) /\ pr[P].workers[i] = 0
  <2>1. {j \in Lw!Thread : pr[P].workers[j] = 0} # {} /\ {j \in Lw!Thread : pr[P].workers[j] = 0} \in SUBSET Nat
    BY <1>3, <1>4, WorkersRoom DEF Core, Lw!Thread, OneProcessor
  <2>2. Lw!Least({j \in Lw!Thread : pr[P].workers[j] = 0}) \in {j \in Lw!Thread : pr[P].workers[j] = 0}
    BY <2>1, LeastThread
  <2> QED
    BY <2>2
<1>6. /\ th' = [th EXCEPT ![u] = [@ EXCEPT !.process = P]]
      /\ k' = [k EXCEPT ![t] = [@ EXCEPT !.at = "create_store", !.i = i]]
      /\ UNCHANGED <<pr, cpu, stacks, fault, lossy, overlap>>
  BY <1>3, <1>4, <1>5 DEF Lw!CreateFind
<1>7. /\ th' \in [Lw!Thread -> ThreadEntry] /\ k' \in [Lw!Thread -> CallEntry]
      /\ \A x \in Lw!Thread : x # u => th'[x] = th[x]
      /\ \A x \in Lw!Thread : x # t => k'[x] = k[x]
      /\ th'[u].state = th[u].state /\ th'[u].tid = th[u].tid /\ th'[u].kstack = th[u].kstack
      /\ th'[u].ustack = th[u].ustack /\ th'[u].process = P
      /\ k'[t].at = "create_store" /\ k'[t].u = u /\ k'[t].i = i
  <2>1. P \in 0 .. NPROC /\ i \in 0 .. NTHREAD + 1
    BY DEF Lw!Proc, Lw!Thread, OneProcessor
  <2>2. [th[u] EXCEPT !.process = P] \in ThreadEntry
    BY <1>3, <2>1 DEF ThreadEntry
  <2>3. [k[t] EXCEPT !.at = "create_store", !.i = i] \in CallEntry
    BY <1>3, <2>1 DEF CallEntry, Places
  <2> QED
    BY <1>3, <1>6, <2>2, <2>3 DEF Tables, ThreadEntry, CallEntry
<1>8. Tables'
  BY <1>6, <1>7 DEF Tables
<1>9. Touches(t, u)
  <2>1. th[u].state \in {"EMBRYO", "ZOMBIE"}
    BY <1>3 DEF NewEntryOf
  <2> QED
    BY <1>1, <1>3, <1>6, <1>7, <2>1 DEF Touches
<1>10. Lw!My(t)' = Lw!My(t) /\ Able(t)' /\ ~ Lw!Running(u)' /\ \A p \in Lw!Proc : ~ Member(p, u)'
  BY <1>1, <1>3, <1>9, TouchFacts
<1>11. NewEntryOf(t, u)'
  BY <1>1, <1>3, <1>4, <1>5, <1>6, <1>7, <1>10 DEF NewEntryOf
<1>12. Builder(t, u)
  <2>1. Builds(t, BuildAt)' /\ ~ Builds(t, ForkAt)'
    BY <1>7, <1>10 DEF Builds, BuildAt, StackAt, ForkAt
  <2>2. Builds(t, {"create_find", "create_store"}) /\ HasStack(u)
    BY <1>1, <1>3 DEF Builds, StackAt, HasStack
  <2>3. th[u].kstack \in stacks /\ \A x \in Lw!Thread : HasStack(x) /\ x # u => th[x].kstack # th[u].kstack
    BY <2>2 DEF Core, StacksHeld
  <2>4. LET s == th[u].ustack
        IN  s # 0 /\ pr[Lw!My(t)].check[s] /\ \A w \in Lw!Thread : Serves(Lw!My(t), w) => th[w].ustack # s
    BY <1>3, <2>2 DEF Core, UserStacks
  <2> QED
    BY <1>6, <1>7, <1>11, <2>1, <2>3, <2>4 DEF Builder
<1> QED
  BY <1>8, <1>9, <1>12, TouchStep

--------------------------------------------------------------------------------
(* Steps that give threads of a process back *)

\* t gives the threads G of the process P back: of its own, or of a child that has ended.
Removes(t, P, G) ==
    /\ Lw!Running(t) /\ th[t].state = "RUNNING" /\ t \notin G
    /\ \A x \in G : Member(P, x)
    /\ cpu' = cpu /\ overlap' = overlap /\ fault' = fault
    /\ stacks' = stacks \ {th[x].kstack : x \in G}
    /\ \A x \in Lw!Thread \ G : th'[x] = th[x]
    /\ \A x \in G : th'[x].state = "UNUSED" /\ th'[x].tid \in {0, x}
    /\ \A x \in Lw!Thread : x # t => k'[x] = k[x]
    /\ k[t].at \notin BuildAt \cup ForkAt \cup {"exit_mark"}
    /\ k'[t].at \in {"user", "exec"}
    /\ k[t].at = "exec" => k'[t].at = "exec" \/ \A x \in Lw!Thread : x # t /\ Lw!My(x) = Lw!My(t) => ~ Alive(x)
    /\ \A p \in Lw!Proc : p # P => pr'[p] = pr[p]
    /\ \A i \in Lw!Thread : pr'[P].workers[i] \in {pr[P].workers[i], 0}
    /\ \A x \in Lw!Thread : Member(P, x)' <=> Member(P, x) /\ x \notin G
    /\ ~ Serves(P, pr[P].master)'
    /\ \/ /\ P # Lw!My(t) /\ pr[P].state = "ZOMBIE"
          /\ pr'[P].state = "UNUSED" /\ pr'[P].master = 0 /\ \A i \in Lw!Thread : pr'[P].workers[i] = 0
       \/ /\ P = Lw!My(t) /\ pr'[P].state = pr[P].state /\ pr'[P].master \in {pr[P].master, t}
          /\ k'[t].at = "exec" \/ pr[P].master = t
    /\ \A x \in Lw!Thread : Serves(P, x)' /\ pr'[P].state = "RUNNABLE" => pr'[P].check[th[x].ustack]
    /\ ~ lossy' => ~ lossy /\ \A x \in G : ~ Builds(x, BuildAt)

\* Everybody else is where and what he was.
LEMMA RemoveFacts ==
    ASSUME OneProcessor, Tables, Core, NEW t \in Lw!Thread, NEW P \in Lw!Proc, NEW G \in SUBSET Lw!Thread, Removes(t, P, G)
    PROVE  /\ Able(t) /\ Able(t)' /\ Lw!My(t) \in Lw!Proc /\ pr[Lw!My(t)].state = "RUNNABLE"
           /\ th'[t] = th[t] /\ Lw!My(t)' = Lw!My(t)
           /\ (\A x \in Lw!Thread : Lw!Running(x) => x = t) /\ (\A x : Lw!Running(x)' <=> Lw!Running(x))
           /\ pr[P].state = IF P = Lw!My(t) THEN "RUNNABLE" ELSE "ZOMBIE"
           /\ \A p \in Lw!Proc, x \in Lw!Thread : /\ Member(p, x)' <=> Member(p, x) /\ x \notin G
                                                  /\ Serves(p, x)' => Serves(p, x) /\ x \notin G
                                                  /\ Member(p, x) /\ x \in G => p = P
           /\ \A x \in Lw!Thread : /\ Alive(x)' <=> Alive(x) /\ x \notin G
                                   /\ Able(x)' <=> Able(x) /\ x \notin G
                                   /\ Able(x) => Alive(x)
                                   /\ x \notin G => Lw!My(x)' = Lw!My(x)
           /\ \A x \in Lw!Thread : \A S : x # t => (Builds(x, S)' <=> Builds(x, S) /\ x \notin G)
<1>1. Lw!Running(t) /\ th[t].state = "RUNNING" /\ t \notin G /\ th'[t] = th[t] /\ cpu' = cpu
  BY DEF Removes
<1>2. Lw!My(t) \in Lw!Proc /\ pr[Lw!My(t)].state = "RUNNABLE" /\ \A x \in Lw!Thread : Lw!Running(x) => x = t
  BY <1>1, RunnerFacts DEF Core
<1>3. pr[P].state = IF P = Lw!My(t) THEN "RUNNABLE" ELSE "ZOMBIE"
  BY <1>2 DEF Removes
<1>4. \A p \in Lw!Proc, x \in Lw!Thread : Member(p, x) /\ x \in G => p = P
  BY DEF Core, MembersApart, Removes
<1>5. \A p \in Lw!Proc, x \in Lw!Thread : Member(p, x)' <=> Member(p, x) /\ x \notin G
  <2> SUFFICES ASSUME NEW p \in Lw!Proc, NEW x \in Lw!Thread, p # P PROVE Member(p, x)' <=> Member(p, x) /\ x \notin G
    BY DEF Removes
  <2>1. pr'[p] = pr[p]
    BY DEF Removes
  <2>2. Member(p, x)' <=> Member(p, x)
    BY <2>1 DEF Member, Serves
  <2> QED
    BY <1>4, <2>2
<1>6. \A p \in Lw!Proc, x \in Lw!Thread : Serves(p, x)' => Serves(p, x) /\ x \notin G
  <2> SUFFICES ASSUME NEW p \in Lw!Proc, NEW x \in Lw!Thread, Serves(p, x)' PROVE Serves(p, x)
    BY <1>5 DEF Member
  <2>1. CASE p # P
    <3>1. pr'[p] = pr[p]
      BY <2>1 DEF Removes
    <3> QED
      BY <3>1 DEF Serves
  <2>2. CASE p = P
    BY <2>2 DEF Removes, Serves
  <2> QED
    BY <2>1, <2>2
<1>7. \A x \in Lw!Thread : /\ Alive(x)' <=> Alive(x) /\ x \notin G
                           /\ Able(x)' <=> Able(x) /\ x \notin G
                           /\ Able(x) => Alive(x)
                           /\ x \notin G => Lw!My(x)' = Lw!My(x)
  BY DEF Removes, Alive, Able, Lw!My
<1>8. \A x \in Lw!Thread : \A S : x # t => (Builds(x, S)' <=> Builds(x, S) /\ x \notin G)
  BY <1>7 DEF Removes, Builds
<1> QED
  BY <1>1, <1>2, <1>3, <1>4, <1>5, <1>6, <1>7, <1>8 DEF Able, Lw!My, Lw!Running

LEMMA RemoveKeepsMembers ==
    ASSUME OneProcessor, Tables, Core, NEW t \in Lw!Thread, NEW P \in Lw!Proc, NEW G \in SUBSET Lw!Thread, Removes(t, P, G)
    PROVE  MembersApart' /\ ProcStates' /\ MemberEntries' /\ Homes'
<1>1. \A p \in Lw!Proc : p # P => pr'[p] = pr[p]
  BY DEF Removes
<1>2. \A x \in Lw!Thread \ G : th'[x] = th[x]
  BY DEF Removes
<1>3. MembersApart'
  <2>1. ASSUME NEW p \in Lw!Proc PROVE ~ Serves(p, pr[p].master)'
    <3>1. CASE p # P
      BY <1>1, <3>1 DEF Core, MembersApart, Serves
    <3> QED
      BY <3>1 DEF Removes
  <2>2. ASSUME NEW p \in Lw!Proc, NEW i \in Lw!Thread, NEW j \in Lw!Thread,
               pr'[p].workers[i] = pr'[p].workers[j], pr'[p].workers[i] # 0
        PROVE  i = j
    <3>1. pr'[p].workers[i] = pr[p].workers[i] /\ pr'[p].workers[j] = pr[p].workers[j]
      BY <1>1, <2>2 DEF Removes
    <3> QED
      BY <2>2, <3>1 DEF Core, MembersApart
  <2>3. \A p, q \in Lw!Proc, x \in Lw!Thread : Member(p, x)' /\ Member(q, x)' => p = q
    BY RemoveFacts DEF Core, MembersApart
  <2> QED
    BY <2>1, <2>2, <2>3 DEF MembersApart
<1>4. ProcStates'
  <2> SUFFICES ASSUME NEW p \in Lw!Proc
               PROVE  /\ pr'[p].state \in {"UNUSED", "EMBRYO", "RUNNABLE", "ZOMBIE"}
                      /\ pr'[p].state = "UNUSED" => pr'[p].master = 0
                      /\ pr'[p].state \in {"UNUSED", "EMBRYO"} => \A i \in Lw!Thread : pr'[p].workers[i] = 0
                      /\ pr'[p].state \in {"RUNNABLE", "ZOMBIE"} => pr'[p].master # 0 /\ th'[pr'[p].master].process = p
    BY DEF ProcStates
  <2>1. ASSUME pr[p].state \in {"RUNNABLE", "ZOMBIE"}, pr'[p].master = pr[p].master
        PROVE  pr'[p].master # 0 /\ th'[pr'[p].master].process = p
    <3>1. pr[p].master # 0 /\ th[pr[p].master].process = p
      BY <2>1 DEF Core, ProcStates
    <3>2. PICK m \in Lw!Thread : m = pr[p].master
      BY <3>1, EntryTypes DEF Lw!Thread, OneProcessor
    <3>3. Member(p, m)'
      BY <2>1, <3>1, <3>2 DEF Member
    <3>4. m \notin G
      BY <3>3, RemoveFacts
    <3> QED
      BY <1>2, <2>1, <3>1, <3>2, <3>4
  <2>2. CASE p # P
    BY <1>1, <2>1, <2>2 DEF Core, ProcStates
  <2>3. CASE p = P /\ P # Lw!My(t)
    BY <2>3 DEF Removes
  <2>4. CASE p = P /\ P = Lw!My(t)
    <3>1. pr'[p].state = "RUNNABLE" /\ pr'[p].master \in {pr[p].master, t}
      BY <2>4, RemoveFacts DEF Removes
    <3>2. pr'[p].master = t => pr'[p].master # 0 /\ th'[pr'[p].master].process = p
      BY <2>4, RemoveFacts DEF Lw!My, Lw!Thread
    <3> QED
      BY <2>1, <2>4, <3>1, <3>2, RemoveFacts
  <2> QED
    BY <2>2, <2>3, <2>4
<1>5. MemberEntries'
  <2>1. \A x \in Lw!Thread : th'[x].tid \in {0, x}
    BY <1>2 DEF Core, MemberEntries, Removes
  <2>2. \A p \in Lw!Proc, x \in Lw!Thread : /\ Member(p, x)' => Member(p, x) /\ th'[x] = th[x]
                                            /\ Serves(p, x)' => Serves(p, x) /\ th'[x] = th[x]
    BY <1>2, RemoveFacts
  <2> QED
    BY <2>1, <2>2 DEF Core, MemberEntries
<1>6. Homes'
  <2> SUFFICES ASSUME NEW x \in Lw!Thread, Alive(x)' \/ Lw!Running(x)'
               PROVE  Lw!My(x)' \in Lw!Proc /\ Member(Lw!My(x), x)' /\ pr'[Lw!My(x)'].state = "RUNNABLE"
    BY DEF Homes
  <2>1. x \notin G /\ (Alive(x) \/ Lw!Running(x)) /\ Lw!My(x)' = Lw!My(x)
    BY RemoveFacts DEF Removes
  <2>2. PICK p \in Lw!Proc : p = Lw!My(x) /\ Member(p, x) /\ pr[p].state = "RUNNABLE"
    BY <2>1 DEF Core, Homes
  <2>3. Member(p, x)'
    BY <2>1, <2>2, RemoveFacts
  <2>4. pr'[p].state = "RUNNABLE"
    BY <1>1, <2>2, RemoveFacts DEF Removes
  <2> QED
    BY <2>1, <2>2, <2>3, <2>4 DEF Member, Serves
<1> QED
  BY <1>3, <1>4, <1>5, <1>6

LEMMA RemoveKeepsMaking ==
    ASSUME OneProcessor, Tables, Core, NEW t \in Lw!Thread, NEW P \in Lw!Proc, NEW G \in SUBSET Lw!Thread, Removes(t, P, G)
    PROVE  StacksHeld' /\ NewEntries' /\ NewProcs' /\ UserStacks' /\ Kept'
<1>1. \A p \in Lw!Proc : p # P => pr'[p] = pr[p]
  BY DEF Removes
<1>2. \A x \in Lw!Thread \ G : th'[x] = th[x]
  BY DEF Removes
<1>3. \A S : ~ Builds(t, S)' \/ S \cap {"user", "exec"} # {}
  BY DEF Removes, Builds
<1>4. ASSUME NEW x \in Lw!Thread, NEW S \in {BuildAt, ForkAt, StackAt, {"create_find", "create_store"}}, Builds(x, S)'
      PROVE  x # t /\ k'[x] = k[x] /\ x \notin G /\ Builds(x, S) /\ Lw!My(x)' = Lw!My(x) /\ Lw!My(x) \in Lw!Proc
  <2>1. x # t
    BY <1>3, <1>4 DEF BuildAt, StackAt, ForkAt
  <2>2. Builds(x, S) /\ x \notin G /\ Lw!My(x)' = Lw!My(x) /\ k'[x] = k[x]
    BY <1>4, <2>1, RemoveFacts DEF Removes
  <2> QED
    BY <2>1, <2>2 DEF Builds, Able, Alive, Core, Homes
<1>5. \A x \in Lw!Thread : Builds(x, ForkAt) => k[x].q \in Lw!Proc /\ k[x].q # P /\ pr[k[x].q].state = "EMBRYO"
  BY RemoveFacts DEF Core, NewProcs
<1>6. ASSUME NEW x \in Lw!Thread, NEW w \in 0 .. NTHREAD, Builds(x, BuildAt), k[x].u = w
      PROVE  w \in Lw!Thread /\ w \notin G
  <2>1. NewEntryOf(x, w)
    BY <1>6 DEF Core, NewEntries
  <2>2. ASSUME w \in G PROVE FALSE
    <3>1. k[x].at \in {"fork_copy", "fork_run"} /\ P = k[x].q
      BY <2>1, <2>2 DEF NewEntryOf, Removes
    <3> QED
      BY <1>5, <1>6, <3>1 DEF Builds, ForkAt
  <2> QED
    BY <2>1, <2>2 DEF NewEntryOf
<1>7. \A x \in Lw!Thread : Builds(x, StackAt) => Builds(x, BuildAt)
  BY DEF Builds, BuildAt
<1>8. StacksHeld'
  <2>1. ASSUME NEW x \in Lw!Thread, HasStack(x)' PROVE HasStack(x) /\ x \notin G
    <3>1. CASE \E p \in Lw!Proc : Member(p, x)'
      BY <3>1, RemoveFacts DEF HasStack
    <3>2. ASSUME NEW y \in Lw!Thread, Builds(y, StackAt)', k'[y].u = x PROVE HasStack(x) /\ x \notin G
      <4>1. Builds(y, StackAt) /\ k[y].u = x
        BY <1>4, <3>2
      <4>2. x \in 0 .. NTHREAD
        BY DEF Lw!Thread, OneProcessor
      <4> QED
        BY <1>6, <1>7, <4>1, <4>2 DEF HasStack
    <3> QED
      BY <2>1, <3>1, <3>2 DEF HasStack
  <2>2. \A x \in G : HasStack(x)
    BY DEF Removes, HasStack
  <2>3. ASSUME NEW x \in Lw!Thread, HasStack(x)' PROVE th'[x].kstack \in stacks'
    <3>1. HasStack(x) /\ x \notin G /\ th'[x] = th[x] /\ th[x].kstack \in stacks
      BY <1>2, <2>1, <2>3 DEF Core, StacksHeld
    <3>2. \A y \in G : th[y].kstack # th[x].kstack
      BY <2>2, <3>1 DEF Core, StacksHeld
    <3> QED
      BY <3>1, <3>2 DEF Removes
  <2>4. fault' = fault
    BY DEF Removes
  <2> QED
    BY <1>2, <2>1, <2>3, <2>4 DEF Core, StacksHeld
<1>9. NewEntries'
  <2>1. ASSUME NEW x \in Lw!Thread, NEW w \in 0 .. NTHREAD, Builds(x, BuildAt)', k'[x].u = w
        PROVE  NewEntryOf(x, w)'
    <3>1. x # t /\ k'[x] = k[x] /\ x \notin G /\ Builds(x, BuildAt) /\ Lw!My(x)' = Lw!My(x) /\ Lw!My(x) \in Lw!Proc
      BY <1>4, <2>1
    <3>2. NewEntryOf(x, w) /\ w \in Lw!Thread /\ w \notin G /\ th'[w] = th[w]
      BY <1>2, <1>6, <2>1, <3>1 DEF Core, NewEntries
    <3>3. ~ Lw!Running(w)' /\ \A p \in Lw!Proc : Member(p, w)' => k[x].at \in {"fork_copy", "fork_run"} /\ p = k[x].q
      BY <3>2, RemoveFacts DEF NewEntryOf
    <3>4. k[x].at \in {"fork_copy", "fork_run"} => k[x].q \in Lw!Proc /\ pr'[k[x].q] = pr[k[x].q]
      BY <1>1, <1>5, <3>1 DEF Builds, ForkAt
    <3>5. \A p \in Lw!Proc, i \in Lw!Thread : pr[p].workers[i] = 0 => pr'[p].workers[i] = 0
      BY <1>1 DEF Removes
    <3>6. k[x].at = "create_store" => pr'[Lw!My(x)].workers[k[x].i] = 0
      BY <3>1, <3>2, <3>5 DEF NewEntryOf
    <3> QED
      BY <3>1, <3>2, <3>3, <3>4, <3>6 DEF NewEntryOf
  <2>2. \A x, y \in Lw!Thread : Builds(x, BuildAt)' /\ Builds(y, BuildAt)' /\ x # y => k'[x].u # k'[y].u
    BY <1>4 DEF Core, NewEntries
  <2> QED
    BY <2>1, <2>2 DEF NewEntries
<1>10. NewProcs'
  <2>1. \A x \in Lw!Thread : Builds(x, ForkAt)' => Builds(x, ForkAt) /\ k'[x] = k[x]
    BY <1>4
  <2> QED
    BY <1>1, <1>5, <2>1 DEF Core, NewProcs
<1>11. UserStacks'
  <2>1. \A p \in Lw!Proc, x \in Lw!Thread : Serves(p, x)' => Serves(p, x) /\ th'[x] = th[x]
    BY <1>2, RemoveFacts
  <2>2. ASSUME NEW p \in Lw!Proc, NEW x \in Lw!Thread, pr'[p].state = "RUNNABLE", Serves(p, x)'
        PROVE  th'[x].ustack # 0 /\ pr'[p].check[th'[x].ustack]
    <3>1. CASE p # P
      BY <1>1, <2>1, <2>2, <3>1 DEF Core, UserStacks
    <3>2. CASE p = P
      <4>1. pr[p].state = "RUNNABLE"
        BY <2>2, <3>2, RemoveFacts DEF Removes
      <4> QED
        BY <2>1, <2>2, <3>2, <4>1 DEF Core, UserStacks, Removes
    <3> QED
      BY <3>1, <3>2
  <2>3. ASSUME NEW x \in Lw!Thread, NEW w \in Lw!Thread, Builds(x, {"create_find", "create_store"})', k'[x].u = w
        PROVE  LET s == th'[w].ustack
               IN  s # 0 /\ pr'[Lw!My(x)'].check[s] /\ \A y \in Lw!Thread : Serves(Lw!My(x), y)' => th'[y].ustack # s
    <3>1. x # t /\ k'[x] = k[x] /\ Builds(x, {"create_find", "create_store"}) /\ Lw!My(x)' = Lw!My(x)
      BY <1>4, <2>3
    <3>2. PICK p \in Lw!Proc : p = Lw!My(x) /\ pr[p].state = "RUNNABLE"
      BY <3>1 DEF Builds, Able, Alive, Core, Homes
    <3>3. Lw!My(x) # Lw!My(t)
      BY <3>1, RemoveFacts DEF Core, OneRuns, AloneAt, Builds, Removes
    <3>4. p # P /\ pr'[p] = pr[p]
      BY <1>1, <3>2, <3>3, RemoveFacts
    <3>5. Builds(x, BuildAt) /\ w \in 0 .. NTHREAD
      BY <3>1 DEF Builds, BuildAt, StackAt, Lw!Thread, OneProcessor
    <3>6. th'[w] = th[w]
      BY <1>2, <1>6, <2>3, <3>1, <3>5
    <3>7. LET s == th[w].ustack
          IN  s # 0 /\ pr[p].check[s] /\ \A y \in Lw!Thread : Serves(p, y) => th[y].ustack # s
      BY <2>3, <3>1, <3>2 DEF Core, UserStacks
    <3>8. \A y \in Lw!Thread : Serves(p, y)' => th'[y].ustack # th[w].ustack
      BY <2>1, <3>7
    <3>9. \A y \in Lw!Thread : Serves(Lw!My(x), y)' <=> Serves(p, y)'
      BY <3>1, <3>2 DEF Serves
    <3> QED
      BY <3>1, <3>2, <3>4, <3>6, <3>7, <3>8, <3>9
  <2>4. \A p \in Lw!Proc, x, y \in Lw!Thread : Serves(p, x)' /\ Serves(p, y)' /\ x # y => th'[x].ustack # th'[y].ustack
    BY <2>1 DEF Core, UserStacks
  <2> QED
    BY <2>2, <2>3, <2>4 DEF UserStacks
<1>12. Kept'
  <2> SUFFICES ASSUME ~ lossy', NEW x \in Lw!Thread, th'[x].state # "UNUSED"
               PROVE  (\E p \in Lw!Proc : Member(p, x)') \/ \E y \in Lw!Thread : Builds(y, BuildAt)' /\ k'[y].u = x
    BY DEF Kept
  <2>1. ~ lossy /\ x \notin G /\ th[x].state # "UNUSED" /\ \A y \in G : ~ Builds(y, BuildAt)
    BY DEF Removes
  <2>2. CASE \E p \in Lw!Proc : Member(p, x)
    BY <2>1, <2>2, RemoveFacts
  <2>3. ASSUME NEW y \in Lw!Thread, Builds(y, BuildAt), k[y].u = x PROVE Builds(y, BuildAt)' /\ k'[y].u = x
    <3>1. y # t /\ y \notin G
      BY <2>1, <2>3 DEF Removes, Builds
    <3> QED
      BY <2>3, <3>1, RemoveFacts DEF Removes
  <2> QED
    BY <2>1, <2>2, <2>3 DEF Core, Kept
<1> QED
  BY <1>8, <1>9, <1>10, <1>11, <1>12

\* Such a step keeps the invariant.
LEMMA RemoveStep ==
    ASSUME OneProcessor, Tables, Awaited, Core, NEW t \in Lw!Thread, NEW P \in Lw!Proc, NEW G \in SUBSET Lw!Thread,
           Removes(t, P, G), ExecingOf(t)', Tables'
    PROVE  ThreadInv'
<1>1. \A x \in Lw!Thread \ G : th'[x] = th[x]
  BY DEF Removes
<1>2. \A p \in Lw!Proc : p # P => pr'[p] = pr[p]
  BY DEF Removes
<1>3. Aside(t)
  <2>1. \A x \in Lw!Thread : x # t /\ Alive(x)' => Alive(x) /\ th'[x] = th[x] /\ k'[x] = k[x]
    BY <1>1, RemoveFacts DEF Removes
  <2>2. ASSUME NEW x \in Lw!Thread, x # t, Alive(x), Lw!My(x) # Lw!My(t)
        PROVE  Alive(x)' /\ th'[x] = th[x] /\ k'[x] = k[x]
    <3>1. PICK p \in Lw!Proc : p = Lw!My(x) /\ Member(p, x) /\ pr[p].state = "RUNNABLE"
      BY <2>2 DEF Core, Homes
    <3>2. x \notin G
      BY <2>2, <3>1, RemoveFacts
    <3> QED
      BY <1>1, <2>2, <3>2, RemoveFacts DEF Removes
  <2>3. \A p \in Lw!Proc : p # Lw!My(t) /\ pr[p].state = "RUNNABLE" => pr'[p] = pr[p]
    BY <1>2, RemoveFacts
  <2>4. ASSUME NEW x \in Lw!Thread, x # t, pr[Lw!My(t)].master = x, Serves(Lw!My(t), k[x].u), k'[t].at # "exec"
        PROVE  pr'[Lw!My(t)].master = x /\ Serves(Lw!My(t), k[x].u)'
    <3>1. k'[x] = k[x] /\ Lw!My(t) \in Lw!Proc /\ Lw!My(t)' = Lw!My(t)
      BY <2>4, RemoveFacts DEF Removes
    <3>2. P # Lw!My(t)
      BY <2>4 DEF Removes
    <3>3. pr'[Lw!My(t)] = pr[Lw!My(t)]
      BY <1>2, <3>1, <3>2
    <3> QED
      BY <2>4, <3>1, <3>3 DEF Serves
  <2>5. ASSUME NEW p \in Lw!Proc, NEW w \in Lw!Thread, Serves(p, w), pr[p].state = "RUNNABLE",
          th'[w].state \in {"ZOMBIE", "UNUSED"}
        PROVE  \/ th[w].state \in {"ZOMBIE", "UNUSED"}
               \/ p = Lw!My(t) /\ (k'[t].at = "exec" \/ pr[p].master = t)
    <3>1. CASE w \notin G
      BY <1>1, <2>5, <3>1
    <3>2. CASE w \in G
      <4>1. p = P /\ P = Lw!My(t)
        BY <2>5, <3>2, RemoveFacts DEF Member
      <4> QED
        BY <4>1 DEF Removes
    <3> QED
      BY <3>1, <3>2
  <2> QED
    BY <2>1, <2>2, <2>3, <2>4, <2>5 DEF Aside
<1>4. /\ Lw!Running(t) /\ th[t].state = "RUNNING" /\ cpu' = cpu /\ th'[t] = th[t]
      /\ k'[t].at \notin {"asleep", "exited", "exit_wakeup", "exit_sched", "joined", "exit_mark"}
      /\ k[t].at # "exit_mark"
      /\ k[t].at = "exec" => k'[t].at = "exec" \/ \A x \in Lw!Thread : x # t /\ Lw!My(x) = Lw!My(t) => ~ Alive(x)
  BY DEF Removes
<1>5. OneRuns' /\ CallStates' /\ Joining' /\ Exiting' /\ Execing' /\ Awaited'
  BY <1>3, <1>4, CourseStep
<1> QED
  BY <1>5, RemoveKeepsMembers, RemoveKeepsMaking DEF ThreadInv, Core

\* The master of a process joins a worker of its own.
LEMMA JoinFacts ==
    ASSUME OneProcessor, Tables, Core, NEW t \in Lw!Thread, Lw!JoinWoken(t) \/ \E u \in Lw!Thread : Lw!JoinZombie(t, u)
    PROVE  \E u \in Lw!Thread, P \in Lw!Proc :
             /\ Lw!Running(t) /\ th[t].state = "RUNNING" /\ k[t].at \in {"user", "joined"} /\ u # t
             /\ P = Lw!My(t) /\ P = Lw!My(u) /\ pr[P].state = "RUNNABLE" /\ pr[P].master = t /\ Serves(P, u) /\ th[u].tid = u
             /\ Lw!Joined(t, u) /\ cpu' = cpu /\ overlap' = overlap
<1>1. Lw!Running(t) /\ k[t].at \in {"user", "joined"} /\ cpu' = cpu /\ overlap' = overlap
  BY DEF Lw!JoinWoken, Lw!JoinZombie, Lw!User, Lw!On
<1>2. th[t].state = "RUNNING" /\ Alive(t) /\ Lw!My(t) \in Lw!Proc /\ pr[Lw!My(t)].state = "RUNNABLE"
  BY <1>1, RunnerFacts DEF Core
<1>3. PICK u \in Lw!Thread : Serves(Lw!My(t), u) /\ pr[Lw!My(t)].master = t /\ Lw!Joined(t, u)
  <2>1. CASE Lw!JoinWoken(t)
    <3>1. k[t].at = "joined" /\ Lw!Joined(t, k[t].u)
      BY <2>1 DEF Lw!JoinWoken, Lw!On
    <3>2. pr[Lw!My(t)].master = t /\ Serves(Lw!My(t), k[t].u)
      BY <1>1, <1>2, <3>1 DEF Core, Joining, JoiningOf, OneRuns, Builds, AloneAt
    <3>3. k[t].u \in Lw!Thread
      BY <3>2, EntryTypes DEF Serves, Lw!Thread, OneProcessor
    <3> QED
      BY <3>1, <3>2, <3>3
  <2>2. ASSUME NEW u \in Lw!Thread, Lw!JoinZombie(t, u)
        PROVE  Serves(Lw!My(t), u) /\ pr[Lw!My(t)].master = t /\ Lw!Joined(t, u)
    BY <2>2 DEF Lw!JoinZombie, Lw!Joinable, Serves, Lw!Thread, OneProcessor
  <2> QED
    BY <2>1, <2>2
<1>4. PICK P \in Lw!Proc : P = Lw!My(t)
  BY <1>2
<1>5. u # t /\ Lw!My(u) = P /\ th[u].tid = u
  BY <1>3, <1>4 DEF Core, MembersApart, MemberEntries, Lw!My
<1> QED
  BY <1>1, <1>2, <1>3, <1>4, <1>5

\* thread_join() gives back what the thread has, once.
LEMMA JoinedStep ==
    ASSUME OneProcessor, Tables, Awaited, Core, NEW t \in Lw!Thread, Lw!JoinWoken(t) \/ \E u \in Lw!Thread : Lw!JoinZombie(t, u)
    PROVE  ThreadInv'
<1>1. PICK u \in Lw!Thread, P \in Lw!Proc :
        /\ Lw!Running(t) /\ th[t].state = "RUNNING" /\ k[t].at \in {"user", "joined"} /\ u # t
        /\ P = Lw!My(t) /\ P = Lw!My(u) /\ pr[P].state = "RUNNABLE" /\ pr[P].master = t /\ Serves(P, u) /\ th[u].tid = u
        /\ Lw!Joined(t, u) /\ cpu' = cpu /\ overlap' = overlap
  BY JoinFacts
<1> DEFINE c == th[u].ustack
<1> DEFINE A == Lw!Unlisted(P, u)
<1>2. c \in Lw!Thread
  BY <1>1, EntryTypes DEF Core, UserStacks, Lw!Thread, OneProcessor
<1>3. PICK i \in Lw!Thread : pr[P].workers[i] = u
  BY <1>1 DEF Serves
<1>4. A = [j \in Lw!Thread |-> IF j = i THEN 0 ELSE pr[P].workers[j]]
  <2> DEFINE at == {j \in Lw!Thread : pr[P].workers[j] # 0 /\ th[pr[P].workers[j]].tid = u}
  <2>1. i \in at
    BY <1>1, <1>3 DEF Lw!Thread
  <2>2. ASSUME NEW j \in at PROVE j = i
    <3>1. pr[P].workers[j] \in Lw!Thread
      BY EntryTypes DEF Lw!Thread, OneProcessor
    <3>2. PICK w \in Lw!Thread : w = pr[P].workers[j]
      BY <3>1
    <3>3. th[w].tid = w
      BY <3>2 DEF Serves, Core, MemberEntries
    <3> QED
      BY <1>3, <3>2, <3>3 DEF Core, MembersApart
  <2>3. at = {i} /\ at \in SUBSET Nat
    BY <2>1, <2>2 DEF Lw!Thread, OneProcessor
  <2>4. Lw!Least(at) = i
    BY <2>3, LeastThread
  <2> QED
    BY <2>3, <2>4 DEF Lw!Unlisted
<1>5. A \in [Lw!Thread -> 0 .. NTHREAD]
  <2>1. 0 \in 0 .. NTHREAD /\ \A j \in Lw!Thread : pr[P].workers[j] \in 0 .. NTHREAD
    BY EntryTypes DEF OneProcessor
  <2> QED
    BY <1>4, <2>1
<1>6. /\ pr' \in [Lw!Proc -> ProcEntry]
      /\ \A p \in Lw!Proc : p # P => pr'[p] = pr[p]
      /\ pr'[P].workers = A /\ pr'[P].state = pr[P].state /\ pr'[P].master = pr[P].master
      /\ \A s \in Lw!Thread : s # c => pr'[P].check[s] = pr[P].check[s]
  <2>1. pr[P] \in ProcEntry /\ pr \in [Lw!Proc -> ProcEntry]
    BY DEF Tables
  <2> DEFINE W == [pr EXCEPT ![P].workers = A]
  <2>2. pr' = [W EXCEPT ![P].check[c] = FALSE]
    BY <1>1 DEF Lw!Joined, Lw!My
  <2>3. [pr[P] EXCEPT !.workers = A] \in ProcEntry
    BY <1>5, <2>1 DEF ProcEntry
  <2>4. W \in [Lw!Proc -> ProcEntry] /\ W[P] = [pr[P] EXCEPT !.workers = A] /\ \A p \in Lw!Proc : p # P => W[p] = pr[p]
    BY <2>1, <2>3
  <2> HIDE DEF W, A, c
  <2>5. /\ W[P].workers = A /\ W[P].state = pr[P].state /\ W[P].master = pr[P].master /\ W[P].check = pr[P].check
        /\ W[P] \in ProcEntry /\ W[P].check \in [Lw!Thread -> BOOLEAN]
    BY <2>1, <2>4 DEF ProcEntry
  <2>6. [W[P].check EXCEPT ![c] = FALSE] \in [Lw!Thread -> BOOLEAN]
    BY <2>5
  <2>7. [W[P] EXCEPT !.check = [W[P].check EXCEPT ![c] = FALSE]] \in ProcEntry
    BY <2>5, <2>6 DEF ProcEntry
  <2>8. pr' = [W EXCEPT ![P] = [W[P] EXCEPT !.check = [W[P].check EXCEPT ![c] = FALSE]]]
    BY <2>2
  <2>9. pr' \in [Lw!Proc -> ProcEntry] /\ pr'[P] = [W[P] EXCEPT !.check = [W[P].check EXCEPT ![c] = FALSE]]
        /\ \A p \in Lw!Proc : p # P => pr'[p] = pr[p]
    BY <2>4, <2>7, <2>8
  <2>10. pr'[P].check = [pr[P].check EXCEPT ![c] = FALSE] /\ pr[P].check \in [Lw!Thread -> BOOLEAN]
    BY <2>5, <2>9 DEF ProcEntry
  <2>11. pr'[P].workers = A /\ pr'[P].state = pr[P].state /\ pr'[P].master = pr[P].master
    BY <2>5, <2>9 DEF ProcEntry
  <2> QED
    BY <2>9, <2>10, <2>11
<1>7. /\ stacks' = stacks \ {th[u].kstack} /\ fault' = fault
      /\ th' = [th EXCEPT ![u] = Lw!UnusedThread] /\ k' = [k EXCEPT ![t] = Lw!InUser]
      /\ lossy' = (lossy \/ Lw!Cut({u}))
  <2>1. th[u].kstack \in stacks
    BY <1>1 DEF Core, StacksHeld, HasStack, Member
  <2>2. fault' = (fault \/ ~ {th[u].kstack} \subseteq stacks)
    BY <1>1 DEF Lw!Joined, Lw!kfree
  <2>3. fault' = fault
    BY <2>1, <2>2 DEF Tables
  <2> QED
    BY <1>1, <2>3 DEF Lw!Joined, Lw!kfree
<1> HIDE DEF A
<1>8. /\ th' \in [Lw!Thread -> ThreadEntry] /\ th'[u].state = "UNUSED" /\ th'[u].tid = 0
      /\ \A x \in Lw!Thread : x # u => th'[x] = th[x]
  <2>1. Lw!NOCHAN \in Channels \X Nat /\ 0 \in 0 .. NTHREAD /\ 0 \in 0 .. NPROC
    BY DEF Lw!NOCHAN, Channels, OneProcessor
  <2>2. Lw!UnusedThread \in ThreadEntry
    BY <2>1 DEF Lw!UnusedThread, ThreadEntry, Lw!State
  <2> QED
    BY <1>7, <2>2 DEF Tables, Lw!UnusedThread
<1>9. k' \in [Lw!Thread -> CallEntry] /\ k'[t].at = "user" /\ \A x \in Lw!Thread : x # t => k'[x] = k[x]
  BY <1>7, CallOver
<1>10. Tables'
  <2>1. stacks' \subseteq Lw!Stack /\ fault' \in BOOLEAN /\ lossy' \in BOOLEAN
    BY <1>7 DEF Tables, Lw!Cut
  <2> QED
    BY <1>1, <1>6, <1>8, <1>9, <2>1 DEF Tables
<1>11. \A x \in Lw!Thread : Serves(P, x)' <=> Serves(P, x) /\ x # u
  <2> SUFFICES ASSUME NEW x \in Lw!Thread PROVE Serves(P, x)' <=> Serves(P, x) /\ x # u
    OBVIOUS
  <2>1. x # 0
    BY DEF Lw!Thread
  <2>2. \A j \in Lw!Thread : pr'[P].workers[j] = x <=> j # i /\ pr[P].workers[j] = x
    BY <1>4, <1>6, <2>1
  <2>3. \A j \in Lw!Thread : pr[P].workers[j] = u => j = i
    BY <1>1, <1>3 DEF Core, MembersApart, Serves
  <2>4. pr[P].workers[i] = x => x = u
    BY <1>3
  <2> QED
    BY <2>1, <2>2, <2>3, <2>4 DEF Serves
<1>12. Removes(t, P, {u})
  <2>1. \A x \in Lw!Thread : Member(P, x)' <=> Member(P, x) /\ x \notin {u}
    BY <1>1, <1>6, <1>11 DEF Member
  <2>2. ~ Serves(P, pr[P].master)'
    BY <1>1, <1>6, <1>11 DEF Core, MembersApart, Serves
  <2>3. \A x \in Lw!Thread : Serves(P, x)' => pr'[P].check[th[x].ustack]
    <3> SUFFICES ASSUME NEW x \in Lw!Thread, Serves(P, x)' PROVE pr'[P].check[th[x].ustack]
      OBVIOUS
    <3>1. Serves(P, x) /\ x # u
      BY <1>11
    <3>2. th[x].ustack # c /\ th[x].ustack # 0 /\ pr[P].check[th[x].ustack]
      BY <1>1, <3>1 DEF Core, UserStacks
    <3>3. th[x].ustack \in Lw!Thread
      BY <3>2, EntryTypes DEF Lw!Thread, OneProcessor
    <3> QED
      BY <1>6, <3>2, <3>3
  <2>4. ~ lossy' => ~ lossy /\ ~ Builds(u, BuildAt)
    BY <1>7 DEF Lw!Cut, Lw!Idle, Builds, BuildAt, StackAt
  <2>5. k[t].at \notin BuildAt \cup ForkAt \cup {"exit_mark"} /\ k[t].at # "exec"
    BY <1>1 DEF BuildAt, StackAt, ForkAt
  <2>6. {th[x].kstack : x \in {u}} = {th[u].kstack}
    OBVIOUS
  <2>7. \A j \in Lw!Thread : pr'[P].workers[j] \in {pr[P].workers[j], 0}
    BY <1>4, <1>6
  <2> HIDE DEF c
  <2> QED
    BY <1>1, <1>6, <1>7, <1>8, <1>9, <2>1, <2>2, <2>3, <2>4, <2>5, <2>6, <2>7 DEF Removes, Member
<1>13. ExecingOf(t)'
  BY <1>9 DEF ExecingOf, Builds
<1> QED
  BY <1>10, <1>12, <1>13, RemoveStep

\* wait() gives back what a child that has exited still has.
LEMMA WaitReapStep ==
    ASSUME OneProcessor, Tables, Awaited, Core, NEW t \in Lw!Thread, NEW q \in Lw!Proc, Lw!WaitReap(t, q)
    PROVE  ThreadInv'
<1>1. Lw!Running(t) /\ k[t].at \in {"user", "waiting"} /\ pr[q].state = "ZOMBIE"
  BY DEF Lw!WaitReap, Lw!User, Lw!On
<1>2. th[t].state = "RUNNING" /\ Lw!My(t) \in Lw!Proc /\ Member(Lw!My(t), t) /\ pr[Lw!My(t)].state = "RUNNABLE"
  BY <1>1, RunnerFacts DEF Core
<1> DEFINE G == Lw!Reaped(q)
<1>3. \A x \in Lw!Thread : x \in G <=> Member(q, x)
  <2>1. pr[q].master # 0
    BY <1>1 DEF Core, ProcStates
  <2> QED
    BY <2>1 DEF Lw!Reaped, Lw!Workers, Member, Serves, Lw!Thread
<1>4. G \in SUBSET Lw!Thread
  <2>1. pr[q].master \in Lw!Thread
    BY <1>1, EntryTypes DEF Core, ProcStates, Lw!Thread, OneProcessor
  <2>2. \A i \in Lw!Thread : pr[q].workers[i] # 0 => pr[q].workers[i] \in Lw!Thread
    <3>1. pr[q].workers \in [Lw!Thread -> 0 .. NTHREAD]
      BY EntryTypes
    <3> QED
      BY <3>1 DEF Lw!Thread, OneProcessor
  <2> QED
    BY <2>1, <2>2 DEF Lw!Reaped, Lw!Workers
<1>5. t \notin G /\ q # Lw!My(t)
  BY <1>1, <1>2, <1>3 DEF Core, MembersApart
<1>6. /\ stacks' = stacks \ {th[x].kstack : x \in G} /\ fault' = fault
      /\ UNCHANGED <<cpu, lossy, overlap>>
      /\ pr' = [pr EXCEPT ![q] = [Lw!UnusedProc EXCEPT !.check = pr[q].check]]
      /\ k' = [k EXCEPT ![t] = Lw!InUser]
  <2>1. \A x \in G : th[x].kstack \in stacks
    BY <1>3, <1>4 DEF Core, StacksHeld, HasStack
  <2>2. fault' = (fault \/ ~ {th[x].kstack : x \in G} \subseteq stacks)
    BY DEF Lw!WaitReap, Lw!kfree
  <2>3. {th[x].kstack : x \in G} \subseteq stacks
    BY <2>1
  <2>4. fault' = fault
    BY <2>2, <2>3 DEF Tables
  <2> QED
    BY <2>4 DEF Lw!WaitReap, Lw!kfree
<1>7. /\ th' \in [Lw!Thread -> ThreadEntry]
      /\ \A x \in Lw!Thread \ G : th'[x] = th[x]
      /\ \A x \in G : th'[x].state = "UNUSED" /\ th'[x].tid = th[x].tid
  <2>1. \A x \in Lw!Thread : th[x] \in ThreadEntry
    BY DEF Tables
  <2>2. \A x \in Lw!Thread : [th[x] EXCEPT !.state = "UNUSED"] \in ThreadEntry
    BY <2>1 DEF ThreadEntry, Lw!State
  <2>3. \A x \in Lw!Thread : [th[x] EXCEPT !.state = "UNUSED", !.kstack = 0, !.process = 0] \in ThreadEntry
    <3>1. 0 \in 0 .. NTHREAD /\ 0 \in 0 .. NPROC
      BY DEF OneProcessor
    <3> QED
      BY <2>1, <3>1 DEF ThreadEntry, Lw!State
  <2>4. th' = [x \in Lw!Thread |-> IF x = pr[q].master THEN [th[x] EXCEPT !.state = "UNUSED", !.kstack = 0, !.process = 0]
                                ELSE IF x \in G THEN [th[x] EXCEPT !.state = "UNUSED"] ELSE th[x]]
    BY DEF Lw!WaitReap
  <2>5. pr[q].master \in G
    BY DEF Lw!Reaped
  <2> HIDE DEF G
  <2>6. th' \in [Lw!Thread -> ThreadEntry]
    BY <2>1, <2>2, <2>3, <2>4
  <2>7. \A x \in Lw!Thread : [th[x] EXCEPT !.state = "UNUSED"].tid = th[x].tid
          /\ [th[x] EXCEPT !.state = "UNUSED"].state = "UNUSED"
    BY <2>1 DEF ThreadEntry
  <2>8. \A x \in Lw!Thread : /\ [th[x] EXCEPT !.state = "UNUSED", !.kstack = 0, !.process = 0].tid = th[x].tid
                             /\ [th[x] EXCEPT !.state = "UNUSED", !.kstack = 0, !.process = 0].state = "UNUSED"
    BY <2>1 DEF ThreadEntry
  <2> QED
    BY <1>4, <2>4, <2>5, <2>6, <2>7, <2>8
<1>8. k' \in [Lw!Thread -> CallEntry] /\ k'[t].at = "user" /\ \A x \in Lw!Thread : x # t => k'[x] = k[x]
  BY <1>6, CallOver
<1>9. /\ pr' \in [Lw!Proc -> ProcEntry]
      /\ \A p \in Lw!Proc : p # q => pr'[p] = pr[p]
      /\ pr'[q].state = "UNUSED" /\ pr'[q].master = 0 /\ \A i \in Lw!Thread : pr'[q].workers[i] = 0
  <2>1. pr[q].check \in [Lw!Thread -> BOOLEAN]
    BY EntryTypes
  <2>2. 0 \in 0 .. NTHREAD /\ 0 \in 0 .. NPROC /\ [i \in Lw!Thread |-> 0] \in [Lw!Thread -> 0 .. NTHREAD]
    BY DEF OneProcessor
  <2>3. Lw!UnusedProc \in ProcEntry /\ Lw!UnusedProc.state = "UNUSED" /\ Lw!UnusedProc.master = 0
        /\ Lw!UnusedProc.workers = [i \in Lw!Thread |-> 0]
    BY <2>2 DEF Lw!UnusedProc, ProcEntry, Lw!State
  <2>4. /\ [Lw!UnusedProc EXCEPT !.check = pr[q].check] \in ProcEntry
        /\ [Lw!UnusedProc EXCEPT !.check = pr[q].check].state = "UNUSED"
        /\ [Lw!UnusedProc EXCEPT !.check = pr[q].check].master = 0
        /\ [Lw!UnusedProc EXCEPT !.check = pr[q].check].workers = [i \in Lw!Thread |-> 0]
    BY <2>1, <2>3 DEF ProcEntry
  <2> QED
    BY <1>6, <2>4 DEF Tables
<1>10. Tables'
  <2>1. stacks' \subseteq Lw!Stack
    BY <1>6 DEF Tables
  <2> QED
    BY <1>6, <1>7, <1>8, <1>9, <2>1 DEF Tables
<1>11. Removes(t, q, G)
  <2>1. \A x \in Lw!Thread : Member(q, x)' <=> Member(q, x) /\ x \notin G
    BY <1>3, <1>9 DEF Member, Serves
  <2>2. ~ Serves(q, pr[q].master)'
    BY <1>9 DEF Serves
  <2>3. \A x \in G : Member(q, x) /\ ~ Able(x) /\ th[x].tid \in {0, x}
    BY <1>1, <1>3, <1>4 DEF Able, Alive, Core, Homes, MembersApart, MemberEntries
  <2>4. k[t].at \notin BuildAt \cup ForkAt \cup {"exit_mark"} /\ k[t].at # "exec"
    BY <1>1 DEF BuildAt, StackAt, ForkAt
  <2> HIDE DEF G
  <2> QED
    BY <1>1, <1>2, <1>5, <1>6, <1>7, <1>8, <1>9, <2>1, <2>2, <2>3, <2>4 DEF Removes, Builds
<1>12. ExecingOf(t)'
  BY <1>8 DEF ExecingOf, Builds
<1> HIDE DEF G
<1> QED
  BY <1>4, <1>10, <1>11, <1>12, RemoveStep

\* exec() gives back one worker, or the master for the caller.
LEMMA ExecWorkerStep ==
    ASSUME OneProcessor, Tables, Awaited, Core, NEW t \in Lw!Thread, Lw!ExecWorker(t)
    PROVE  ThreadInv'
<1>1. Lw!Running(t) /\ k[t].at = "exec" /\ k[t].i <= NTHREAD
  BY DEF Lw!ExecWorker, Lw!On
<1>2. th[t].state = "RUNNING" /\ Able(t) /\ Lw!My(t) \in Lw!Proc /\ Member(Lw!My(t), t) /\ pr[Lw!My(t)].state = "RUNNABLE"
  BY <1>1, RunnerFacts DEF Core
<1>3. PICK P \in Lw!Proc : P = Lw!My(t)
  BY <1>2
<1>4. Builds(t, {"exec"}) /\ k[t].i >= 1 /\ \A j \in Lw!Thread : j < k[t].i => pr[P].workers[j] = 0
  BY <1>1, <1>2, <1>3 DEF Builds, Core, Execing, ExecingOf
<1>5. PICK i \in Lw!Thread : i = k[t].i
  BY <1>1, <1>4, EntryTypes DEF Lw!Thread, OneProcessor
<1>6. PICK w \in 0 .. NTHREAD : w = pr[P].workers[i]
  BY EntryTypes
<1>7. PICK m \in Lw!Thread : m = pr[P].master
  BY <1>2, <1>3, EntryTypes DEF Core, ProcStates, Lw!Thread, OneProcessor
<1> DEFINE gone == IF w = t THEN m ELSE w
<1> DEFINE G == {gone} \ {0}
<1>8. /\ pr' = [pr EXCEPT ![P].workers[i] = 0, ![P].master = IF w = t THEN t ELSE m]
      /\ IF gone = 0 THEN UNCHANGED <<th, stacks, fault, lossy>>
         ELSE /\ th' = [th EXCEPT ![gone] = Lw!UnusedThread] /\ Lw!kfree({th[gone].kstack})
              /\ lossy' = (lossy \/ Lw!Cut({gone}))
      /\ k' = [k EXCEPT ![t].i = k[t].i + 1]
      /\ UNCHANGED <<cpu, overlap>>
  BY <1>3, <1>5, <1>6, <1>7 DEF Lw!ExecWorker
<1>9. t # 0 /\ m # 0 /\ G \in SUBSET Lw!Thread
  BY DEF Lw!Thread, OneProcessor
<1>10. ~ Serves(P, m) /\ (w # 0 => Serves(P, w)) /\ Member(P, m)
  BY <1>6, <1>7, <1>9 DEF Core, MembersApart, Serves, Member
<1>11. t \notin G /\ \A x \in G : Member(P, x)
  BY <1>10 DEF Member
<1>12. /\ pr' \in [Lw!Proc -> ProcEntry]
       /\ \A p \in Lw!Proc : p # P => pr'[p] = pr[p]
       /\ \A j \in Lw!Thread : pr'[P].workers[j] = IF j = i THEN 0 ELSE pr[P].workers[j]
       /\ pr'[P].master = (IF w = t THEN t ELSE m)
       /\ pr'[P].state = pr[P].state /\ pr'[P].check = pr[P].check
  <2>1. pr[P] \in ProcEntry /\ pr \in [Lw!Proc -> ProcEntry] /\ pr[P].workers \in [Lw!Thread -> 0 .. NTHREAD]
    BY EntryTypes DEF Tables
  <2> DEFINE A == [pr[P].workers EXCEPT ![i] = 0]
  <2> DEFINE M == IF w = t THEN t ELSE m
  <2>2. A \in [Lw!Thread -> 0 .. NTHREAD] /\ \A j \in Lw!Thread : A[j] = IF j = i THEN 0 ELSE pr[P].workers[j]
    <3>1. 0 \in 0 .. NTHREAD
      BY DEF OneProcessor
    <3> QED
      BY <2>1, <3>1
  <2>3. M \in 0 .. NTHREAD
    BY DEF Lw!Thread, OneProcessor
  <2> DEFINE W == [pr EXCEPT ![P].workers[i] = 0]
  <2>4. pr' = [W EXCEPT ![P].master = M]
    BY <1>8
  <2>5. W = [pr EXCEPT ![P] = [pr[P] EXCEPT !.workers = A]]
    OBVIOUS
  <2>6. [pr[P] EXCEPT !.workers = A] \in ProcEntry
    BY <2>1, <2>2 DEF ProcEntry
  <2>7. W \in [Lw!Proc -> ProcEntry] /\ W[P] = [pr[P] EXCEPT !.workers = A] /\ \A p \in Lw!Proc : p # P => W[p] = pr[p]
    BY <2>1, <2>5, <2>6
  <2> HIDE DEF W, A, M
  <2>8. W[P].workers = A /\ W[P].state = pr[P].state /\ W[P].check = pr[P].check /\ W[P] \in ProcEntry
    BY <2>1, <2>7 DEF ProcEntry
  <2>9. [W[P] EXCEPT !.master = M] \in ProcEntry
    BY <2>3, <2>8 DEF ProcEntry
  <2>10. pr' \in [Lw!Proc -> ProcEntry] /\ pr'[P] = [W[P] EXCEPT !.master = M] /\ \A p \in Lw!Proc : p # P => pr'[p] = pr[p]
    BY <2>4, <2>7, <2>9
  <2>11. pr'[P].workers = A /\ pr'[P].state = pr[P].state /\ pr'[P].check = pr[P].check /\ pr'[P].master = M
    BY <2>8, <2>10 DEF ProcEntry
  <2> QED
    BY <2>2, <2>10, <2>11 DEF M
<1>13. /\ th' \in [Lw!Thread -> ThreadEntry]
       /\ \A x \in Lw!Thread \ G : th'[x] = th[x]
       /\ \A x \in G : th'[x].state = "UNUSED" /\ th'[x].tid = 0
       /\ stacks' = stacks \ {th[x].kstack : x \in G} /\ fault' = fault
       /\ lossy' \in BOOLEAN
       /\ ~ lossy' => ~ lossy /\ \A x \in G : ~ Builds(x, BuildAt)
  <2>1. CASE gone = 0
    <3>1. G = {} /\ UNCHANGED <<th, stacks, fault, lossy>>
      BY <1>8, <2>1
    <3> QED
      BY <3>1 DEF Tables
  <2>2. CASE gone # 0
    <3>1. G = {gone} /\ gone \in Lw!Thread
      BY <1>9, <2>2
    <3>2. /\ th' = [th EXCEPT ![gone] = Lw!UnusedThread] /\ stacks' = stacks \ {th[gone].kstack}
          /\ fault' = (fault \/ ~ {th[gone].kstack} \subseteq stacks) /\ lossy' = (lossy \/ Lw!Cut({gone}))
      BY <1>8, <2>2 DEF Lw!kfree
    <3>3. th[gone].kstack \in stacks
      BY <1>11, <3>1 DEF Core, StacksHeld, HasStack
    <3>4. Lw!NOCHAN \in Channels \X Nat /\ 0 \in 0 .. NTHREAD /\ 0 \in 0 .. NPROC
      BY DEF Lw!NOCHAN, Channels, OneProcessor
    <3>5. Lw!UnusedThread \in ThreadEntry
      BY <3>4 DEF Lw!UnusedThread, ThreadEntry, Lw!State
    <3>6. ~ lossy' => ~ Builds(gone, BuildAt)
      BY <3>2 DEF Lw!Cut, Lw!Idle, Builds, BuildAt, StackAt
    <3>7. {th[x].kstack : x \in G} = {th[gone].kstack}
      BY <3>1
    <3> HIDE DEF gone, G
    <3> QED
      BY <3>1, <3>2, <3>3, <3>5, <3>6, <3>7 DEF Tables, Lw!UnusedThread, Lw!Cut
  <2> QED
    BY <2>1, <2>2
<1>14. /\ k' \in [Lw!Thread -> CallEntry] /\ \A x \in Lw!Thread : x # t => k'[x] = k[x]
       /\ k'[t].at = "exec" /\ k'[t].i = i + 1
  <2>1. k[t] \in CallEntry /\ i + 1 \in 0 .. NTHREAD + 1
    BY DEF Tables, Lw!Thread, OneProcessor
  <2>2. [k[t] EXCEPT !.i = i + 1] \in CallEntry
    BY <2>1 DEF CallEntry
  <2> QED
    BY <1>1, <1>5, <1>8, <2>1, <2>2 DEF Tables, CallEntry
<1>15. \A x \in Lw!Thread : Serves(P, x)' <=> Serves(P, x) /\ x # w
  <2> SUFFICES ASSUME NEW x \in Lw!Thread PROVE Serves(P, x)' <=> Serves(P, x) /\ x # w
    OBVIOUS
  <2>1. x # 0
    BY DEF Lw!Thread
  <2>2. \A j \in Lw!Thread : pr'[P].workers[j] = x <=> j # i /\ pr[P].workers[j] = x
    BY <1>12, <2>1
  <2>3. \A j \in Lw!Thread : pr[P].workers[j] = w /\ w # 0 => j = i
    BY <1>6 DEF Core, MembersApart
  <2> QED
    BY <1>6, <2>1, <2>2, <2>3 DEF Serves
<1>16. \A x \in Lw!Thread : Member(P, x)' <=> Member(P, x) /\ x \notin G
  <2> SUFFICES ASSUME NEW x \in Lw!Thread PROVE Member(P, x)' <=> Member(P, x) /\ x \notin G
    OBVIOUS
  <2>1. x # 0 /\ (Member(P, x) <=> Serves(P, x) \/ x = m)
    BY <1>7 DEF Member, Lw!Thread
  <2>2. Member(P, x)' <=> (Serves(P, x) /\ x # w) \/ pr'[P].master = x
    BY <1>15, <2>1 DEF Member
  <2>3. pr'[P].master = IF w = t THEN t ELSE m
    BY <1>12
  <2> QED
    BY <1>9, <1>10, <2>1, <2>2, <2>3
<1>17. ~ Serves(P, pr[P].master)'
  <2>1. ~ Serves(P, t)' \/ w # t
    BY <1>15
  <2>2. ~ Serves(P, m)'
    BY <1>10, <1>15
  <2> QED
    BY <1>12, <2>1, <2>2 DEF Serves
<1>18. \A x \in Lw!Thread : Serves(P, x)' => pr'[P].check[th[x].ustack]
  BY <1>2, <1>3, <1>12, <1>15 DEF Core, UserStacks
<1>19. Removes(t, P, G)
  <2>1. k[t].at \notin BuildAt \cup ForkAt \cup {"exit_mark"}
    BY <1>1 DEF BuildAt, StackAt, ForkAt
  <2>2. \A j \in Lw!Thread : pr'[P].workers[j] \in {pr[P].workers[j], 0}
    BY <1>12
  <2>3. pr'[P].master \in {pr[P].master, t}
    BY <1>7, <1>12
  <2> HIDE DEF gone, G
  <2> QED
    BY <1>1, <1>2, <1>3, <1>8, <1>11, <1>12, <1>13, <1>14, <1>16, <1>17, <1>18, <2>1, <2>2, <2>3 DEF Removes
<1> HIDE DEF gone, G
<1>20. Tables'
  <2>1. stacks' \subseteq Lw!Stack
    BY <1>13 DEF Tables
  <2> QED
    BY <1>8, <1>12, <1>13, <1>14, <2>1 DEF Tables
<1>21. ExecingOf(t)'
  <2>1. Lw!My(t)' = Lw!My(t)
    BY <1>11, <1>13 DEF Lw!My
  <2>2. i + 1 >= 1 /\ \A j \in Lw!Thread : j < i + 1 => j < i \/ j = i
    BY DEF Lw!Thread, OneProcessor
  <2> QED
    BY <1>3, <1>4, <1>5, <1>12, <1>14, <2>1, <2>2 DEF ExecingOf
<1> QED
  BY <1>9, <1>19, <1>20, <1>21, RemoveStep

--------------------------------------------------------------------------------
(* Steps that make threads and processes *)

\* t gives the thread u (0: no thread) to the process q, or takes it back.
Makes(t, u, q) ==
    /\ Lw!Running(t) /\ th[t].state = "RUNNING" /\ u # t
    /\ cpu' = cpu /\ overlap' = overlap /\ fault' = fault
    /\ \A p \in Lw!Proc : p # q => pr'[p] = pr[p] /\ ~ Member(p, u)
    /\ \A x \in Lw!Thread : x # u => /\ th'[x] = th[x]
                                     /\ Member(q, x)' <=> Member(q, x)
                                     /\ Serves(q, x)' <=> Serves(q, x)
    /\ \A x \in Lw!Thread : x # t => k'[x] = k[x] \/ (x = u /\ k'[x].at = "user")
    /\ k[t].at \notin {"exec", "exit_mark"}
    /\ k'[t].at \in {"user", "fork_thread", "fork_copy", "fork_run"}
    /\ \A x \in Lw!Thread : x # t => /\ Builds(x, BuildAt) => k[x].u # u
                                     /\ Builds(x, ForkAt) => k[x].q # q
    /\ Builds(t, BuildAt) => k[t].u = u
    /\ u \in Lw!Thread => ~ Alive(u)

\* What the process has then come to.
NewProc(t, u, q) ==
    /\ pr[q].state \in {"UNUSED", "EMBRYO", "RUNNABLE"} /\ pr'[q].state \in {"UNUSED", "EMBRYO", "RUNNABLE"}
    /\ pr'[q].state = "UNUSED" => pr'[q].master = 0
    /\ pr'[q].state = "RUNNABLE" => pr'[q].master # 0 /\ th'[pr'[q].master].process = q
    /\ pr[q].state = "RUNNABLE" =>
        /\ q = Lw!My(t) /\ ~ Member(q, u)
        /\ pr'[q].state = "RUNNABLE" /\ pr'[q].master = pr[q].master /\ pr'[q].check = pr[q].check
        /\ \A i \in Lw!Thread : pr[q].workers[i] # 0 => pr'[q].workers[i] = pr[q].workers[i]
    /\ pr[q].state # "RUNNABLE" => \A i \in Lw!Thread : pr'[q].workers[i] = 0
    /\ \A i, j \in Lw!Thread : pr'[q].workers[i] = pr'[q].workers[j] /\ pr'[q].workers[i] # 0 => i = j
    /\ ~ Serves(q, pr[q].master)'
    /\ Builds(t, ForkAt)' => /\ k'[t].q = q /\ pr'[q].state = "EMBRYO"
                             /\ k'[t].at = "fork_thread" => pr'[q].master = 0

\* What the thread has then come to.
NewThread(t, u, q) ==
    /\ u \in Lw!Thread =>
        /\ th'[u].tid \in {0, u}
        /\ Member(q, u)' => th'[u].state # "UNUSED"
        /\ th'[u].state \in {"UNUSED", "EMBRYO", "ZOMBIE", "RUNNABLE"}
        /\ th'[u].state = "RUNNABLE" => th'[u].process = q /\ k'[u].at = "user" /\ Member(q, u)' /\ pr'[q].state = "RUNNABLE"
        /\ Serves(q, u)' => /\ th'[u].process = q /\ th'[u].tid = u
                            /\ th'[u].ustack # 0 /\ pr'[q].check[th'[u].ustack]
                            /\ \A w \in Lw!Thread : w # u /\ Serves(q, w) => th[w].ustack # th'[u].ustack
        /\ HasStack(u)' => /\ th'[u].kstack \in stacks'
                        /\ \A x \in Lw!Thread : HasStack(x) /\ x # u => th[x].kstack # th'[u].kstack
        /\ ~ lossy' /\ th'[u].state # "UNUSED" => Member(q, u)'
    /\ \A x \in Lw!Thread : HasStack(x) /\ x # u => th[x].kstack \in stacks'
    /\ Builds(t, BuildAt)' => u \in Lw!Thread /\ k'[t].u = u /\ NewEntryOf(t, u)'
    /\ ~ lossy' => ~ lossy

\* Everybody else is where and what he was.
LEMMA MakeFacts ==
    ASSUME OneProcessor, Tables, Core, NEW t \in Lw!Thread, NEW u \in 0 .. NTHREAD, NEW q \in Lw!Proc,
           Makes(t, u, q), NewThread(t, u, q)
    PROVE  /\ Able(t) /\ Able(t)' /\ Lw!My(t) \in Lw!Proc /\ pr[Lw!My(t)].state = "RUNNABLE"
           /\ th'[t] = th[t] /\ Lw!My(t)' = Lw!My(t)
           /\ ~ Lw!Running(u) \/ u \notin Lw!Thread
           /\ (\A x \in Lw!Thread : Lw!Running(x) => x = t) /\ (\A x : Lw!Running(x)' <=> Lw!Running(x))
           /\ \A p \in Lw!Proc, x \in Lw!Thread : x # u => (Member(p, x)' <=> Member(p, x)) /\ (Serves(p, x)' <=> Serves(p, x))
           /\ \A p \in Lw!Proc : p # q => ~ Member(p, u)' /\ ~ Member(p, u)
           /\ \A x \in Lw!Thread : /\ Able(x) => Alive(x)
                                   /\ x # u => /\ (Alive(x)' <=> Alive(x)) /\ (Able(x)' <=> Able(x)) /\ Lw!My(x)' = Lw!My(x)
                                               /\ x # t => k'[x] = k[x]
           /\ \A x \in Lw!Thread : \A S : /\ x # t /\ "user" \notin S => (Builds(x, S)' <=> Builds(x, S) /\ x # u)
                                          /\ Builds(x, S) => x # u
<1>1. Lw!Running(t) /\ th[t].state = "RUNNING" /\ u # t /\ th'[t] = th[t] /\ cpu' = cpu
  BY DEF Makes
<1>2. Lw!My(t) \in Lw!Proc /\ pr[Lw!My(t)].state = "RUNNABLE" /\ \A x \in Lw!Thread : Lw!Running(x) => x = t
  BY <1>1, RunnerFacts DEF Core
<1>3. \A p \in Lw!Proc, x \in Lw!Thread : x # u => (Member(p, x)' <=> Member(p, x)) /\ (Serves(p, x)' <=> Serves(p, x))
  <2> SUFFICES ASSUME NEW p \in Lw!Proc, NEW x \in Lw!Thread, x # u, p # q
               PROVE  (Member(p, x)' <=> Member(p, x)) /\ (Serves(p, x)' <=> Serves(p, x))
    BY DEF Makes
  <2>1. pr'[p] = pr[p]
    BY DEF Makes
  <2> QED
    BY <2>1 DEF Member, Serves
<1>4. ASSUME NEW p \in Lw!Proc, p # q PROVE ~ Member(p, u)' /\ ~ Member(p, u)
  <2>1. pr'[p] = pr[p] /\ ~ Member(p, u)
    BY <1>4 DEF Makes
  <2> QED
    BY <2>1 DEF Member, Serves
<1>5. \A x \in Lw!Thread : /\ Able(x) => Alive(x)
                           /\ x # u => /\ (Alive(x)' <=> Alive(x)) /\ (Able(x)' <=> Able(x)) /\ Lw!My(x)' = Lw!My(x)
                                       /\ x # t => k'[x] = k[x]
  BY DEF Makes, Alive, Able, Lw!My
<1>6. \A x \in Lw!Thread : \A S : Builds(x, S) => x # u
  BY <1>5 DEF Makes, Builds
<1>7. \A x \in Lw!Thread : \A S : x # t /\ "user" \notin S => (Builds(x, S)' <=> Builds(x, S) /\ x # u)
  <2> TAKE x \in Lw!Thread
  <2> TAKE S
  <2>1. x # u => (x # t => (Builds(x, S)' <=> Builds(x, S)))
    BY <1>5 DEF Builds
  <2>2. x = u /\ "user" \notin S => ~ Builds(x, S)'
    BY DEF NewThread, Builds, Able
  <2> QED
    BY <2>1, <2>2
<1> QED
  BY <1>1, <1>2, <1>3, <1>4, <1>5, <1>6, <1>7 DEF Able, Lw!My, Lw!Running

LEMMA MakeKeepsMembers ==
    ASSUME OneProcessor, Tables, Core, NEW t \in Lw!Thread, NEW u \in 0 .. NTHREAD, NEW q \in Lw!Proc,
           Makes(t, u, q), NewProc(t, u, q), NewThread(t, u, q)
    PROVE  MembersApart' /\ ProcStates' /\ MemberEntries' /\ Homes'
<1>1. \A p \in Lw!Proc : p # q => pr'[p] = pr[p]
  BY DEF Makes
<1>2. \A x \in Lw!Thread : x # u => th'[x] = th[x]
  BY DEF Makes
<1>3. MembersApart'
  <2>1. \A p, r \in Lw!Proc, x \in Lw!Thread : Member(p, x)' /\ Member(r, x)' => p = r
    BY MakeFacts DEF Core, MembersApart
  <2>2. ASSUME NEW p \in Lw!Proc, NEW i \in Lw!Thread, NEW j \in Lw!Thread,
               pr'[p].workers[i] = pr'[p].workers[j], pr'[p].workers[i] # 0
        PROVE  i = j
    BY <1>1, <2>2 DEF Core, MembersApart, NewProc
  <2>3. ASSUME NEW p \in Lw!Proc PROVE ~ Serves(p, pr[p].master)'
    <3>1. CASE p # q
      BY <1>1, <3>1 DEF Core, MembersApart, Serves
    <3> QED
      BY <3>1 DEF NewProc
  <2> QED
    BY <2>1, <2>2, <2>3 DEF MembersApart
<1>4. ProcStates'
  <2> SUFFICES ASSUME NEW p \in Lw!Proc
               PROVE  /\ pr'[p].state \in {"UNUSED", "EMBRYO", "RUNNABLE", "ZOMBIE"}
                      /\ pr'[p].state = "UNUSED" => pr'[p].master = 0
                      /\ pr'[p].state \in {"UNUSED", "EMBRYO"} => \A i \in Lw!Thread : pr'[p].workers[i] = 0
                      /\ pr'[p].state \in {"RUNNABLE", "ZOMBIE"} => pr'[p].master # 0 /\ th'[pr'[p].master].process = p
    BY DEF ProcStates
  <2>1. CASE p = q
    BY <2>1 DEF NewProc
  <2>2. CASE p # q
    <3>1. pr'[p] = pr[p]
      BY <1>1, <2>2
    <3>2. ASSUME pr[p].state \in {"RUNNABLE", "ZOMBIE"} PROVE pr[p].master # 0 /\ th'[pr[p].master].process = p
      <4>1. pr[p].master # 0 /\ th[pr[p].master].process = p
        BY <3>2 DEF Core, ProcStates
      <4>2. PICK m \in Lw!Thread : m = pr[p].master
        BY <4>1, EntryTypes DEF Lw!Thread, OneProcessor
      <4>3. m # u
        BY <2>2, <4>1, <4>2 DEF Makes, Member
      <4> QED
        BY <1>2, <4>1, <4>2, <4>3
    <3> QED
      BY <3>1, <3>2 DEF Core, ProcStates
  <2> QED
    BY <2>1, <2>2
<1>5. MemberEntries'
  <2>1. \A x \in Lw!Thread : th'[x].tid \in {0, x}
    BY <1>2 DEF Core, MemberEntries, NewThread
  <2>2. ASSUME NEW p \in Lw!Proc, NEW x \in Lw!Thread
        PROVE  /\ Member(p, x)' => th'[x].state # "UNUSED"
               /\ Serves(p, x)' => th'[x].process = p /\ th'[x].tid = x
    <3>1. CASE x # u
      BY <1>2, <3>1, MakeFacts DEF Core, MemberEntries
    <3>2. CASE x = u /\ p = q
      BY <3>2 DEF NewThread
    <3>3. CASE x = u /\ p # q
      BY <3>3, MakeFacts DEF Member
    <3> QED
      BY <3>1, <3>2, <3>3
  <2> QED
    BY <2>1, <2>2 DEF MemberEntries
<1>6. Homes'
  <2> SUFFICES ASSUME NEW x \in Lw!Thread, Alive(x)' \/ Lw!Running(x)'
               PROVE  Lw!My(x)' \in Lw!Proc /\ Member(Lw!My(x), x)' /\ pr'[Lw!My(x)'].state = "RUNNABLE"
    BY DEF Homes
  <2>1. CASE x # u
    <3>1. (Alive(x) \/ Lw!Running(x)) /\ Lw!My(x)' = Lw!My(x)
      BY <2>1, MakeFacts
    <3>2. PICK p \in Lw!Proc : p = Lw!My(x) /\ Member(p, x) /\ pr[p].state = "RUNNABLE"
      BY <3>1 DEF Core, Homes
    <3>3. Member(p, x)'
      BY <2>1, <3>2, MakeFacts
    <3>4. pr'[p].state = "RUNNABLE"
      BY <1>1, <3>2 DEF NewProc
    <3> QED
      BY <3>1, <3>2, <3>3, <3>4 DEF Member, Serves
  <2>2. CASE x = u
    <3>1. Alive(u)'
      BY <2>2, MakeFacts
    <3>2. th'[u].process = q /\ Member(q, u)' /\ pr'[q].state = "RUNNABLE"
      BY <2>2, <3>1 DEF NewThread, Alive
    <3> QED
      BY <2>2, <3>2 DEF Lw!My, Member, Serves
  <2> QED
    BY <2>1, <2>2
<1> QED
  BY <1>3, <1>4, <1>5, <1>6

LEMMA MakeKeepsMaking ==
    ASSUME OneProcessor, Tables, Core, NEW t \in Lw!Thread, NEW u \in 0 .. NTHREAD, NEW q \in Lw!Proc,
           Makes(t, u, q), NewProc(t, u, q), NewThread(t, u, q)
    PROVE  StacksHeld' /\ NewEntries' /\ NewProcs' /\ UserStacks' /\ Kept'
<1>1. \A p \in Lw!Proc : p # q => pr'[p] = pr[p]
  BY DEF Makes
<1>2. \A x \in Lw!Thread : x # u => th'[x] = th[x]
  BY DEF Makes
<1>3. ASSUME NEW x \in Lw!Thread, x # t, NEW S \in {BuildAt, ForkAt, StackAt, {"create_find", "create_store"}}, Builds(x, S)'
      PROVE  x # u /\ k'[x] = k[x] /\ Builds(x, S) /\ Lw!My(x)' = Lw!My(x) /\ Lw!My(x) \in Lw!Proc
  <2>1. "user" \notin S
    BY DEF BuildAt, StackAt, ForkAt
  <2>2. Builds(x, S) /\ x # u /\ k'[x] = k[x] /\ Lw!My(x)' = Lw!My(x)
    BY <1>3, <2>1, MakeFacts
  <2> QED
    BY <2>2 DEF Builds, Able, Alive, Core, Homes
<1>4. ASSUME NEW x \in Lw!Thread, x # t, Builds(x, {"create_find", "create_store"}) PROVE Lw!My(x) # q
  <2>1. Lw!My(x) \in Lw!Proc /\ pr[Lw!My(x)].state = "RUNNABLE"
    BY <1>4 DEF Builds, Able, Alive, Core, Homes
  <2>2. Lw!My(x) # Lw!My(t)
    BY <1>4 DEF Core, OneRuns, AloneAt, Builds, Makes
  <2> QED
    BY <2>1, <2>2 DEF NewProc
<1>5. StacksHeld'
  <2>1. ASSUME NEW x \in Lw!Thread, HasStack(x)', x # u PROVE HasStack(x)
    <3>1. CASE \E p \in Lw!Proc : Member(p, x)'
      BY <2>1, <3>1, MakeFacts DEF HasStack
    <3>2. ASSUME NEW y \in Lw!Thread, Builds(y, StackAt)', k'[y].u = x PROVE HasStack(x)
      <4>1. CASE y = t
        <5>1. Builds(t, BuildAt)'
          BY <3>2, <4>1 DEF Builds, BuildAt
        <5> QED
          BY <2>1, <3>2, <4>1, <5>1 DEF NewThread
      <4>2. CASE y # t
        BY <1>3, <3>2, <4>2 DEF HasStack
      <4> QED
        BY <4>1, <4>2
    <3> QED
      BY <2>1, <3>1, <3>2 DEF HasStack
  <2>2. fault' = fault
    BY DEF Makes
  <2>3. \A x \in Lw!Thread : HasStack(x)' => th'[x].kstack \in stacks'
    BY <1>2, <2>1 DEF NewThread
  <2>4. \A x, y \in Lw!Thread : HasStack(x)' /\ HasStack(y)' /\ x # y => th'[x].kstack # th'[y].kstack
    BY <1>2, <2>1 DEF NewThread, Core, StacksHeld
  <2> QED
    BY <2>2, <2>3, <2>4 DEF Core, StacksHeld
<1>6. NewEntries'
  <2>1. ASSUME NEW x \in Lw!Thread, NEW w \in 0 .. NTHREAD, x # t, Builds(x, BuildAt)', k'[x].u = w
        PROVE  NewEntryOf(x, w)'
    <3>1. x # u /\ k'[x] = k[x] /\ Builds(x, BuildAt) /\ Lw!My(x)' = Lw!My(x) /\ Lw!My(x) \in Lw!Proc
      BY <1>3, <2>1
    <3>2. NewEntryOf(x, w) /\ w \in Lw!Thread /\ w # u /\ th'[w] = th[w]
      BY <1>2, <2>1, <3>1 DEF Core, NewEntries, NewEntryOf, Makes
    <3>3. ~ Lw!Running(w)' /\ \A p \in Lw!Proc : Member(p, w)' => k[x].at \in {"fork_copy", "fork_run"} /\ p = k[x].q
      BY <3>2, MakeFacts DEF NewEntryOf
    <3>4. k[x].at \in {"fork_copy", "fork_run"} => pr'[k[x].q] = pr[k[x].q]
      <4>1. k[x].at \in {"fork_copy", "fork_run"} => Builds(x, ForkAt)
        BY <3>1 DEF Builds, ForkAt
      <4>2. Builds(x, ForkAt) => k[x].q \in Lw!Proc /\ k[x].q # q
        BY <2>1 DEF Core, NewProcs, Makes
      <4> QED
        BY <1>1, <4>1, <4>2
    <3>5. k[x].at = "create_store" => pr'[Lw!My(x)] = pr[Lw!My(x)]
      <4>1. k[x].at = "create_store" => Lw!My(x) # q
        BY <1>4, <2>1, <3>1 DEF Builds
      <4> QED
        BY <1>1, <3>1, <4>1
    <3> QED
      BY <3>1, <3>2, <3>3, <3>4, <3>5 DEF NewEntryOf
  <2>2. ASSUME NEW w \in 0 .. NTHREAD, Builds(t, BuildAt)', k'[t].u = w PROVE NewEntryOf(t, w)'
    <3>1. NewEntryOf(t, u)' /\ w = u
      BY <2>2 DEF NewThread
    <3> QED
      BY <3>1
  <2>3. ASSUME NEW x \in Lw!Thread, NEW y \in Lw!Thread, Builds(x, BuildAt)', Builds(y, BuildAt)', x # y
        PROVE  k'[x].u # k'[y].u
    <3>1. \A z \in Lw!Thread : z # t /\ Builds(z, BuildAt)' => Builds(z, BuildAt) /\ k'[z] = k[z] /\ k[z].u # u
      BY <1>3 DEF Makes
    <3>2. Builds(t, BuildAt)' => k'[t].u = u
      BY DEF NewThread
    <3> QED
      BY <2>3, <3>1, <3>2 DEF Core, NewEntries
  <2> QED
    BY <2>1, <2>2, <2>3 DEF NewEntries
<1>7. NewProcs'
  <2>1. \A x \in Lw!Thread : x # t /\ Builds(x, ForkAt)' => Builds(x, ForkAt) /\ k'[x] = k[x]
          /\ k[x].q \in Lw!Proc /\ k[x].q # q
    BY <1>3 DEF Core, NewProcs, Makes
  <2>2. Builds(t, ForkAt)' => /\ k'[t].q = q /\ pr'[q].state = "EMBRYO"
                              /\ k'[t].at \in {"fork_thread", "fork_stack"} => pr'[q].master = 0
    BY DEF NewProc, Makes
  <2>3. \A x \in Lw!Thread : Builds(x, ForkAt)' =>
          /\ k'[x].q \in Lw!Proc /\ pr'[k'[x].q].state = "EMBRYO"
          /\ k'[x].at \in {"fork_thread", "fork_stack"} => pr'[k'[x].q].master = 0
    BY <1>1, <2>1, <2>2 DEF Core, NewProcs
  <2>4. \A x, y \in Lw!Thread : Builds(x, ForkAt)' /\ Builds(y, ForkAt)' /\ x # y => k'[x].q # k'[y].q
    BY <2>1, <2>2 DEF Core, NewProcs
  <2> QED
    BY <2>3, <2>4 DEF NewProcs
<1>8. UserStacks'
  <2>1. \A p \in Lw!Proc, x \in Lw!Thread : Serves(p, x)' => (x # u /\ Serves(p, x) /\ th'[x] = th[x]) \/ (x = u /\ p = q)
    BY <1>2, MakeFacts DEF Member
  <2>2. \A p \in Lw!Proc, x, y \in Lw!Thread : Serves(p, x)' /\ Serves(p, y)' /\ x # y => th'[x].ustack # th'[y].ustack
    BY <2>1 DEF Core, UserStacks, NewThread
  <2>3. ASSUME NEW p \in Lw!Proc, NEW x \in Lw!Thread, pr'[p].state = "RUNNABLE", Serves(p, x)'
        PROVE  th'[x].ustack # 0 /\ pr'[p].check[th'[x].ustack]
    <3>1. CASE p # q
      BY <1>1, <2>1, <2>3, <3>1 DEF Core, UserStacks
    <3>2. CASE x = u /\ p = q
      BY <2>3, <3>2 DEF NewThread
    <3>3. CASE x # u /\ p = q
      <4>1. pr[q].state = "RUNNABLE"
        BY <2>3, <3>3 DEF NewProc, Serves
      <4>2. pr'[q].check = pr[q].check
        BY <4>1 DEF NewProc
      <4> QED
        BY <2>1, <2>3, <3>3, <4>1, <4>2 DEF Core, UserStacks
    <3> QED
      BY <3>1, <3>2, <3>3
  <2>4. ASSUME NEW x \in Lw!Thread, NEW w \in Lw!Thread, Builds(x, {"create_find", "create_store"})', k'[x].u = w
        PROVE  LET s == th'[w].ustack
               IN  s # 0 /\ pr'[Lw!My(x)'].check[s] /\ \A y \in Lw!Thread : Serves(Lw!My(x), y)' => th'[y].ustack # s
    <3>1. x # t
      BY <2>4 DEF Builds, Makes
    <3>2. k'[x] = k[x] /\ Builds(x, {"create_find", "create_store"}) /\ Lw!My(x)' = Lw!My(x)
      BY <1>3, <2>4, <3>1
    <3>3. PICK p \in Lw!Proc : p = Lw!My(x)
      BY <1>3, <2>4, <3>1
    <3>4. p # q /\ pr'[p] = pr[p]
      BY <1>1, <1>4, <3>1, <3>2, <3>3
    <3>5. Builds(x, BuildAt)
      BY <3>2 DEF Builds, BuildAt, StackAt
    <3>6. w # u /\ th'[w] = th[w]
      BY <1>2, <2>4, <3>1, <3>2, <3>5 DEF Makes
    <3>7. LET s == th[w].ustack
          IN  s # 0 /\ pr[p].check[s] /\ \A y \in Lw!Thread : Serves(p, y) => th[y].ustack # s
      BY <2>4, <3>2, <3>3 DEF Core, UserStacks
    <3>8. \A y \in Lw!Thread : Serves(p, y)' => th'[y].ustack # th[w].ustack
      BY <2>1, <3>4, <3>7
    <3>9. \A y \in Lw!Thread : Serves(Lw!My(x), y)' <=> Serves(p, y)'
      BY <3>2, <3>3 DEF Serves
    <3> QED
      BY <3>2, <3>3, <3>4, <3>6, <3>7, <3>8, <3>9
  <2> QED
    BY <2>2, <2>3, <2>4 DEF UserStacks
<1>9. Kept'
  <2> SUFFICES ASSUME ~ lossy', NEW x \in Lw!Thread, th'[x].state # "UNUSED"
               PROVE  (\E p \in Lw!Proc : Member(p, x)') \/ \E y \in Lw!Thread : Builds(y, BuildAt)' /\ k'[y].u = x
    BY DEF Kept
  <2>1. CASE x = u
    BY <2>1 DEF NewThread
  <2>2. CASE x # u
    <3>1. ~ lossy /\ th[x].state # "UNUSED"
      BY <1>2, <2>2 DEF NewThread
    <3>2. CASE \E p \in Lw!Proc : Member(p, x)
      BY <2>2, <3>2, MakeFacts
    <3>3. ASSUME NEW y \in Lw!Thread, Builds(y, BuildAt), k[y].u = x PROVE Builds(y, BuildAt)' /\ k'[y].u = x
      <4>1. y # t /\ "user" \notin BuildAt
        BY <2>2, <3>3 DEF Makes, BuildAt, StackAt
      <4> QED
        BY <3>3, <4>1, MakeFacts
    <3> QED
      BY <3>1, <3>2, <3>3 DEF Core, Kept
  <2> QED
    BY <2>1, <2>2
<1> QED
  BY <1>5, <1>6, <1>7, <1>8, <1>9

\* Such a step keeps the invariant.
LEMMA MakeStep ==
    ASSUME OneProcessor, Tables, Awaited, Core, NEW t \in Lw!Thread, NEW u \in 0 .. NTHREAD, NEW q \in Lw!Proc,
           Makes(t, u, q), NewProc(t, u, q), NewThread(t, u, q), Tables'
    PROVE  ThreadInv'
<1>1. \A p \in Lw!Proc : p # q => pr'[p] = pr[p]
  BY DEF Makes
<1>2. \A x \in Lw!Thread : x # u => th'[x] = th[x]
  BY DEF Makes
<1>3. \A p \in Lw!Proc : pr[p].state = "RUNNABLE" => ~ Member(p, u)
  BY MakeFacts DEF NewProc
<1>4. Aside(t)
  <2>1. ASSUME NEW x \in Lw!Thread, x # t, Alive(x)'
        PROVE  \/ Alive(x) /\ th'[x] = th[x] /\ k'[x] = k[x]
               \/ th'[x].state = "RUNNABLE" /\ k'[x].at = "user" /\ (Lw!My(x)' = Lw!My(t) \/ pr[Lw!My(x)'].state # "RUNNABLE")
    <3>1. CASE x # u
      BY <1>2, <2>1, <3>1, MakeFacts
    <3>2. CASE x = u
      BY <2>1, <3>2 DEF NewThread, NewProc, Alive, Lw!My
    <3> QED
      BY <3>1, <3>2
  <2>2. \A x \in Lw!Thread : x # t /\ Alive(x) => Alive(x)' /\ th'[x] = th[x] /\ k'[x] = k[x]
    BY <1>2, MakeFacts DEF Makes
  <2>3. \A p \in Lw!Proc : p # Lw!My(t) /\ pr[p].state = "RUNNABLE" => pr'[p] = pr[p]
    BY <1>1 DEF NewProc
  <2>4. ASSUME NEW x \in Lw!Thread, x # t, pr[Lw!My(t)].master = x, Serves(Lw!My(t), k[x].u)
        PROVE  pr'[Lw!My(t)].master = x /\ Serves(Lw!My(t), k[x].u)'
    <3>1. PICK P \in Lw!Proc : P = Lw!My(t) /\ pr[P].state = "RUNNABLE" /\ Lw!My(t)' = P
      BY MakeFacts
    <3>2. x # u
      BY <1>3, <2>4, <3>1 DEF Member, Lw!Thread
    <3>3. k'[x] = k[x]
      BY <2>4, <3>2, MakeFacts
    <3>4. /\ pr'[P].master = pr[P].master
          /\ \A i \in Lw!Thread : pr[P].workers[i] # 0 => pr'[P].workers[i] = pr[P].workers[i]
      BY <1>1, <3>1 DEF NewProc
    <3> QED
      BY <2>4, <3>1, <3>3, <3>4 DEF Serves
  <2>5. \A p \in Lw!Proc, w \in Lw!Thread : Serves(p, w) /\ pr[p].state = "RUNNABLE" => th'[w] = th[w]
    BY <1>2, <1>3 DEF Member
  <2> QED
    BY <2>1, <2>2, <2>3, <2>4, <2>5 DEF Aside
<1>5. /\ Lw!Running(t) /\ th[t].state = "RUNNING" /\ cpu' = cpu /\ th'[t] = th[t]
      /\ k'[t].at \notin {"asleep", "exited", "exit_wakeup", "exit_sched", "joined", "exit_mark", "exec"}
      /\ k[t].at \notin {"exit_mark", "exec"}
  BY DEF Makes
<1>6. ExecingOf(t)'
  BY <1>5 DEF ExecingOf, Builds
<1>7. OneRuns' /\ CallStates' /\ Joining' /\ Exiting' /\ Execing' /\ Awaited'
  BY <1>4, <1>5, <1>6, CourseStep
<1> QED
  BY <1>7, MakeKeepsMembers, MakeKeepsMaking DEF ThreadInv, Core, Makes

\* The new worker starts in a place of workers that was free.
LEMMA CreateStoreStep ==
    ASSUME OneProcessor, Tables, Awaited, Core, NEW t \in Lw!Thread, Lw!CreateStore(t)
    PROVE  ThreadInv'
<1>1. Lw!Running(t) /\ k[t].at = "create_store"
  BY DEF Lw!CreateStore, Lw!OnLocked, Lw!On
<1>2. k[t].at \in BuildAt
  BY <1>1 DEF BuildAt, StackAt
<1>3. PICK u \in Lw!Thread :
        /\ u = k[t].u /\ u # t /\ NewEntryOf(t, u) /\ ~ Alive(u) /\ th[u].tid \in {0, u}
        /\ \A x \in Lw!Thread : x # t /\ Builds(x, BuildAt) => k[x].u # u
        /\ k[t].at \notin {"fork_copy", "fork_run"} => \A p \in Lw!Proc : ~ Member(p, u)
        /\ th[t].state = "RUNNING" /\ Able(t) /\ Lw!My(t) \in Lw!Proc /\ pr[Lw!My(t)].state = "RUNNABLE"
        /\ th[u] \in ThreadEntry /\ k[t] \in CallEntry
  BY <1>1, <1>2, BuildFacts
<1>4. PICK P \in Lw!Proc : P = Lw!My(t)
  BY <1>3
<1>5. PICK i \in Lw!Thread : i = k[t].i /\ pr[P].workers[i] = 0
  BY <1>1, <1>3, <1>4 DEF NewEntryOf
<1>6. th[u].process = P /\ th[u].tid = u /\ ~ Lw!Running(u)
  BY <1>1, <1>3, <1>4 DEF NewEntryOf
<1>7. /\ pr' = [pr EXCEPT ![P] = [pr[P] EXCEPT !.workers = [pr[P].workers EXCEPT ![i] = u]]]
      /\ th' = [th EXCEPT ![u] = [th[u] EXCEPT !.state = "RUNNABLE"]]
      /\ k' = [k EXCEPT ![t] = Lw!InUser, ![u] = Lw!InUser]
      /\ UNCHANGED <<cpu, stacks, fault, lossy, overlap>>
  BY <1>3, <1>4, <1>5 DEF Lw!CreateStore
<1>8. /\ th' \in [Lw!Thread -> ThreadEntry] /\ \A x \in Lw!Thread : x # u => th'[x] = th[x]
      /\ th'[u].state = "RUNNABLE" /\ th'[u].process = P /\ th'[u].tid = u
      /\ th'[u].kstack = th[u].kstack /\ th'[u].ustack = th[u].ustack
  <2>1. [th[u] EXCEPT !.state = "RUNNABLE"] \in ThreadEntry
    BY <1>3 DEF ThreadEntry, Lw!State
  <2> QED
    BY <1>3, <1>6, <1>7, <2>1 DEF Tables, ThreadEntry
<1>9. /\ k' \in [Lw!Thread -> CallEntry] /\ k'[t].at = "user" /\ k'[u].at = "user"
      /\ \A x \in Lw!Thread : x # t /\ x # u => k'[x] = k[x]
  <2>1. Lw!InUser \in CallEntry /\ Lw!InUser.at = "user"
    BY DEF Lw!InUser, CallEntry, Places, OneProcessor
  <2> QED
    BY <1>3, <1>7, <2>1 DEF Tables
<1>10. /\ pr' \in [Lw!Proc -> ProcEntry]
       /\ \A p \in Lw!Proc : p # P => pr'[p] = pr[p]
       /\ pr'[P].state = pr[P].state /\ pr'[P].master = pr[P].master /\ pr'[P].check = pr[P].check
       /\ \A j \in Lw!Thread : pr'[P].workers[j] = IF j = i THEN u ELSE pr[P].workers[j]
  <2>1. pr[P] \in ProcEntry /\ pr[P].workers \in [Lw!Thread -> 0 .. NTHREAD] /\ u \in 0 .. NTHREAD
    BY EntryTypes DEF Tables, Lw!Thread, OneProcessor
  <2> DEFINE A == [pr[P].workers EXCEPT ![i] = u]
  <2>2. A \in [Lw!Thread -> 0 .. NTHREAD] /\ \A j \in Lw!Thread : A[j] = IF j = i THEN u ELSE pr[P].workers[j]
    BY <2>1
  <2>3. pr' = [pr EXCEPT ![P] = [pr[P] EXCEPT !.workers = A]]
    BY <1>7
  <2> HIDE DEF A
  <2>4. [pr[P] EXCEPT !.workers = A] \in ProcEntry
    BY <2>1, <2>2 DEF ProcEntry
  <2> QED
    BY <2>1, <2>2, <2>3, <2>4 DEF Tables, ProcEntry
<1>11. Tables'
  BY <1>7, <1>8, <1>9, <1>10 DEF Tables
<1>12. \A x : Serves(P, x)' <=> Serves(P, x) \/ x = u
  <2> TAKE x
  <2>1. u # 0
    BY DEF Lw!Thread
  <2> QED
    BY <1>5, <1>10, <2>1 DEF Serves
<1>13. \A p \in Lw!Proc : ~ Member(p, u)
  BY <1>1, <1>3
<1>14. Makes(t, u, P)
  <2>1. \A x \in Lw!Thread : x # u => (Member(P, x)' <=> Member(P, x)) /\ (Serves(P, x)' <=> Serves(P, x))
    BY <1>10, <1>12 DEF Member
  <2>2. \A x \in Lw!Thread : Builds(x, ForkAt) => k[x].q # P
    BY <1>3, <1>4 DEF Core, NewProcs
  <2> QED
    BY <1>1, <1>3, <1>7, <1>8, <1>9, <1>10, <1>13, <2>1, <2>2 DEF Makes
<1>15. NewProc(t, u, P)
  <2>1. \A j, l \in Lw!Thread : pr'[P].workers[j] = pr'[P].workers[l] /\ pr'[P].workers[j] # 0 => j = l
    <3>1. \A j \in Lw!Thread : pr[P].workers[j] # u
      BY <1>13 DEF Member, Serves, Lw!Thread
    <3> QED
      BY <1>10, <3>1 DEF Core, MembersApart
  <2>2. ~ Serves(P, pr[P].master)' /\ pr[P].master # u /\ pr[P].master # 0
    <3>1. pr[P].master # 0 /\ ~ Serves(P, pr[P].master)
      BY <1>3, <1>4 DEF Core, ProcStates, MembersApart
    <3>2. pr[P].master # u
      BY <1>13, <3>1 DEF Member
    <3> QED
      BY <1>10, <1>12, <3>1, <3>2 DEF Serves
  <2>3. th'[pr'[P].master].process = P
    <3>1. th[pr[P].master].process = P /\ pr[P].master \in Lw!Thread
      BY <1>3, <1>4, <2>2, EntryTypes DEF Core, ProcStates, Lw!Thread, OneProcessor
    <3> QED
      BY <1>8, <1>10, <2>2, <3>1
  <2>4. ~ Builds(t, ForkAt)'
    BY <1>9 DEF Builds, ForkAt
  <2> QED
    BY <1>3, <1>4, <1>5, <1>10, <1>13, <2>1, <2>2, <2>3, <2>4 DEF NewProc
<1>16. NewThread(t, u, P)
  <2>1. Builds(t, {"create_find", "create_store"}) /\ HasStack(u)
    BY <1>1, <1>3 DEF Builds, StackAt, HasStack
  <2>2. /\ th[u].kstack \in stacks /\ \A x \in Lw!Thread : HasStack(x) => th[x].kstack \in stacks
        /\ \A x \in Lw!Thread : HasStack(x) /\ x # u => th[x].kstack # th[u].kstack
    BY <2>1 DEF Core, StacksHeld
  <2>3. LET s == th[u].ustack
        IN  s # 0 /\ pr[P].check[s] /\ \A w \in Lw!Thread : Serves(P, w) => th[w].ustack # s
    BY <1>3, <1>4, <2>1 DEF Core, UserStacks
  <2>4. Member(P, u)'
    BY <1>12 DEF Member
  <2>5. ~ Builds(t, BuildAt)'
    BY <1>9 DEF Builds, BuildAt, StackAt
  <2>6. pr'[P].state = "RUNNABLE"
    BY <1>3, <1>4, <1>10
  <2>7. /\ th'[u].ustack # 0 /\ pr'[P].check[th'[u].ustack]
        /\ \A w \in Lw!Thread : w # u /\ Serves(P, w) => th[w].ustack # th'[u].ustack
    BY <1>8, <1>10, <2>3
  <2>8. /\ th'[u].kstack \in stacks' /\ \A x \in Lw!Thread : HasStack(x) => th[x].kstack \in stacks'
        /\ \A x \in Lw!Thread : HasStack(x) /\ x # u => th[x].kstack # th'[u].kstack
    BY <1>7, <1>8, <2>2
  <2>9. /\ th'[u].tid \in {0, u} /\ th'[u].state \in {"UNUSED", "EMBRYO", "ZOMBIE", "RUNNABLE"}
        /\ th'[u].state # "UNUSED" /\ th'[u].process = P /\ th'[u].tid = u /\ k'[u].at = "user"
    BY <1>8, <1>9
  <2>10. ~ lossy' => ~ lossy
    BY <1>7
  <2> HIDE DEF Member, Serves, HasStack
  <2> QED
    BY <2>4, <2>5, <2>6, <2>7, <2>8, <2>9, <2>10 DEF NewThread
<1>17. u \in 0 .. NTHREAD
  BY DEF Lw!Thread, OneProcessor
<1> QED
  BY <1>11, <1>14, <1>15, <1>16, <1>17, MakeStep

\* fork() takes an entry of the process table.
LEMMA ForkProcStep ==
    ASSUME OneProcessor, Tables, Awaited, Core, NEW t \in Lw!Thread, Lw!ForkProc(t)
    PROVE  ThreadInv'
<1>1. Lw!Running(t) /\ k[t].at = "user"
  BY DEF Lw!ForkProc, Lw!User, Lw!On
<1>2. th[t].state = "RUNNING" /\ Able(t)
  BY <1>1, RunnerFacts DEF Core
<1>3. PICK q \in Lw!Proc : q = Lw!Least({x \in Lw!Proc : pr[x].state = "UNUSED"}) /\ pr[q].state = "UNUSED"
  <2>1. {x \in Lw!Proc : pr[x].state = "UNUSED"} # {} /\ {x \in Lw!Proc : pr[x].state = "UNUSED"} \in SUBSET Nat
    BY DEF Lw!ForkProc, Lw!Proc, OneProcessor
  <2>2. Lw!Least({x \in Lw!Proc : pr[x].state = "UNUSED"}) \in {x \in Lw!Proc : pr[x].state = "UNUSED"}
    BY <2>1, LeastThread
  <2> QED
    BY <2>2
<1>4. /\ pr' = [pr EXCEPT ![q] = [pr[q] EXCEPT !.state = "EMBRYO"]]
      /\ k' = [k EXCEPT ![t] = [k[t] EXCEPT !.at = "fork_thread", !.q = q]]
      /\ UNCHANGED <<th, cpu, stacks, fault, lossy, overlap>>
  BY <1>3 DEF Lw!ForkProc
<1>5. /\ pr' \in [Lw!Proc -> ProcEntry] /\ \A p \in Lw!Proc : p # q => pr'[p] = pr[p]
      /\ pr'[q].state = "EMBRYO" /\ pr'[q].master = pr[q].master /\ pr'[q].workers = pr[q].workers
  <2>1. pr[q] \in ProcEntry
    BY DEF Tables
  <2>2. [pr[q] EXCEPT !.state = "EMBRYO"] \in ProcEntry
    BY <2>1 DEF ProcEntry, Lw!State
  <2> QED
    BY <1>4, <2>1, <2>2 DEF Tables, ProcEntry
<1>6. /\ k' \in [Lw!Thread -> CallEntry] /\ \A x \in Lw!Thread : x # t => k'[x] = k[x]
      /\ k'[t].at = "fork_thread" /\ k'[t].q = q
  <2>1. k[t] \in CallEntry /\ q \in 0 .. NPROC
    BY DEF Tables, Lw!Proc, OneProcessor
  <2>2. [k[t] EXCEPT !.at = "fork_thread", !.q = q] \in CallEntry
    BY <2>1 DEF CallEntry, Places
  <2> QED
    BY <1>4, <2>1, <2>2 DEF Tables, CallEntry
<1>7. Tables'
  BY <1>4, <1>5, <1>6 DEF Tables
<1>8. pr[q].master = 0 /\ \A i \in Lw!Thread : pr[q].workers[i] = 0
  BY <1>3 DEF Core, ProcStates
<1>9. \A x : (Member(q, x)' <=> Member(q, x)) /\ (Serves(q, x)' <=> Serves(q, x))
  BY <1>5 DEF Member, Serves
<1>10. Makes(t, 0, q)
  <2>1. \A p \in Lw!Proc : ~ Member(p, 0)
    BY DEF Member, Serves
  <2>2. ASSUME NEW x \in Lw!Thread PROVE (Builds(x, BuildAt) => k[x].u # 0) /\ (Builds(x, ForkAt) => k[x].q # q)
    <3>1. Builds(x, BuildAt) => k[x].u # 0
      <4> SUFFICES ASSUME Builds(x, BuildAt), k[x].u = 0 PROVE FALSE
        OBVIOUS
      <4>1. 0 \in 0 .. NTHREAD
        BY DEF OneProcessor
      <4>2. NewEntryOf(x, 0)
        BY <4>1 DEF Core, NewEntries
      <4> QED
        BY <4>2 DEF NewEntryOf, Lw!Thread
    <3>2. Builds(x, ForkAt) => k[x].q # q
      BY <1>3 DEF Core, NewProcs
    <3> QED
      BY <3>1, <3>2
  <2>3. ~ Builds(t, BuildAt) /\ 0 \notin Lw!Thread
    BY <1>1 DEF Builds, BuildAt, StackAt, Lw!Thread
  <2> QED
    BY <1>1, <1>2, <1>4, <1>5, <1>6, <1>9, <2>1, <2>2, <2>3 DEF Makes
<1>11. NewProc(t, 0, q)
  BY <1>3, <1>5, <1>6, <1>8 DEF NewProc, Serves
<1>12. NewThread(t, 0, q)
  <2>1. 0 \notin Lw!Thread /\ ~ Builds(t, BuildAt)'
    BY <1>6 DEF Builds, BuildAt, StackAt, Lw!Thread
  <2>2. \A x \in Lw!Thread : HasStack(x) => th[x].kstack \in stacks'
    BY <1>4 DEF Core, StacksHeld
  <2> QED
    BY <1>4, <2>1, <2>2 DEF NewThread
<1>13. 0 \in 0 .. NTHREAD
  BY DEF OneProcessor
<1> QED
  BY <1>7, <1>10, <1>11, <1>12, <1>13, MakeStep

\* The thread and the process that a call of fork() makes.
Forking(t, u, q) ==
    /\ u = k[t].u /\ q = k[t].q /\ u \in 0 .. NTHREAD
    /\ th[t].state = "RUNNING" /\ Lw!My(t) \in Lw!Proc /\ pr[Lw!My(t)].state = "RUNNABLE" /\ q # Lw!My(t)
    /\ u # t /\ ~ Alive(u) /\ th[u].state \in {"EMBRYO", "ZOMBIE"} /\ th[u] \in ThreadEntry /\ ~ Lw!Running(u)
    /\ th[u].tid \in {0, u}
    /\ pr[q].state = "EMBRYO" /\ \A i \in Lw!Thread : pr[q].workers[i] = 0
    /\ pr[q].master = IF k[t].at = "fork_stack" THEN 0 ELSE u
    /\ k[t].at = "fork_run" => th[u].process = q
    /\ \A x \in Lw!Thread : x # t => /\ Builds(x, BuildAt) => k[x].u # u
                                     /\ Builds(x, ForkAt) => k[x].q # q
    /\ \A p \in Lw!Proc : p # q => ~ Member(p, u)
    /\ \A x : ~ Serves(q, x) /\ (Member(q, x) <=> x # 0 /\ x = pr[q].master)
    /\ k[t].at # "fork_stack" => HasStack(u)

LEMMA ForkFacts ==
    ASSUME OneProcessor, Tables, Core, NEW t \in Lw!Thread, Lw!Running(t), k[t].at \in {"fork_stack", "fork_copy", "fork_run"}
    PROVE  \E u \in Lw!Thread, q \in Lw!Proc : Forking(t, u, q)
<1>1. k[t].at \in BuildAt /\ k[t].at \in ForkAt
  BY DEF BuildAt, StackAt, ForkAt
<1>2. PICK u \in Lw!Thread :
        /\ u = k[t].u /\ u # t /\ NewEntryOf(t, u) /\ ~ Alive(u) /\ th[u].tid \in {0, u}
        /\ \A x \in Lw!Thread : x # t /\ Builds(x, BuildAt) => k[x].u # u
        /\ k[t].at \notin {"fork_copy", "fork_run"} => \A p \in Lw!Proc : ~ Member(p, u)
        /\ th[t].state = "RUNNING" /\ Able(t) /\ Lw!My(t) \in Lw!Proc /\ pr[Lw!My(t)].state = "RUNNABLE"
        /\ th[u] \in ThreadEntry /\ k[t] \in CallEntry
  BY <1>1, BuildFacts
<1>3. Builds(t, ForkAt)
  BY <1>1, <1>2 DEF Builds
<1>4. PICK q \in Lw!Proc : q = k[t].q /\ pr[q].state = "EMBRYO" /\ (k[t].at = "fork_stack" => pr[q].master = 0)
  BY <1>3 DEF Core, NewProcs
<1>5. \A i \in Lw!Thread : pr[q].workers[i] = 0
  BY <1>4 DEF Core, ProcStates
<1>6. \A x \in Lw!Thread : x # t /\ Builds(x, ForkAt) => k[x].q # q
  BY <1>3, <1>4 DEF Core, NewProcs
<1>7. \A x : ~ Serves(q, x) /\ (Member(q, x) <=> x # 0 /\ x = pr[q].master)
  BY <1>5 DEF Serves, Member
<1>8. /\ th[u].state \in {"EMBRYO", "ZOMBIE"} /\ ~ Lw!Running(u)
      /\ \A p \in Lw!Proc : p # q => ~ Member(p, u)
      /\ k[t].at # "fork_stack" => pr[q].master = u
      /\ k[t].at = "fork_run" => th[u].process = q
  BY <1>2, <1>4 DEF NewEntryOf
<1>9. k[t].at # "fork_stack" => HasStack(u)
  BY <1>2 DEF Builds, StackAt, HasStack
<1>10. q # Lw!My(t) /\ u \in 0 .. NTHREAD
  BY <1>2, <1>4 DEF Lw!Thread, OneProcessor
<1> QED
  BY <1>2, <1>4, <1>5, <1>6, <1>7, <1>8, <1>9, <1>10 DEF Forking

\* The stacks of the thread that a call of fork() makes.
LEMMA ForkedStack ==
    ASSUME OneProcessor, Tables, Core, NEW t \in Lw!Thread, NEW u \in Lw!Thread, NEW q \in Lw!Proc, Forking(t, u, q)
    PROVE  /\ \A x \in Lw!Thread : HasStack(x) => th[x].kstack \in stacks
           /\ k[t].at # "fork_stack" =>
                /\ th[u].kstack \in stacks
                /\ \A x \in Lw!Thread : HasStack(x) /\ x # u => th[x].kstack # th[u].kstack
BY DEF Core, StacksHeld, Forking

\* The new process starts.
LEMMA ForkRunStep ==
    ASSUME OneProcessor, Tables, Awaited, Core, NEW t \in Lw!Thread, Lw!ForkRun(t)
    PROVE  ThreadInv'
<1>1. Lw!Running(t) /\ k[t].at = "fork_run"
  BY DEF Lw!ForkRun, Lw!OnLocked, Lw!On
<1>2. PICK u \in Lw!Thread, q \in Lw!Proc : Forking(t, u, q)
  BY <1>1, ForkFacts
<1>3. /\ u = k[t].u /\ q = k[t].q /\ u # t /\ th[t].state = "RUNNING" /\ th[u] \in ThreadEntry
      /\ th[u].process = q /\ pr[q].master = u /\ pr[q].state = "EMBRYO" /\ ~ Alive(u) /\ th[u].tid \in {0, u}
      /\ q # Lw!My(t)
  BY <1>1, <1>2 DEF Forking
<1>4. /\ th' = [th EXCEPT ![u] = [th[u] EXCEPT !.state = "RUNNABLE"]]
      /\ pr' = [pr EXCEPT ![q] = [pr[q] EXCEPT !.state = "RUNNABLE"]]
      /\ k' = [k EXCEPT ![t] = Lw!InUser, ![u] = Lw!InUser]
      /\ UNCHANGED <<cpu, stacks, fault, lossy, overlap>>
  BY <1>3 DEF Lw!ForkRun
<1>5. /\ th' \in [Lw!Thread -> ThreadEntry] /\ \A x \in Lw!Thread : x # u => th'[x] = th[x]
      /\ th'[u].state = "RUNNABLE" /\ th'[u].process = q /\ th'[u].tid = th[u].tid /\ th'[u].kstack = th[u].kstack
  <2>1. [th[u] EXCEPT !.state = "RUNNABLE"] \in ThreadEntry
    BY <1>3 DEF ThreadEntry, Lw!State
  <2> QED
    BY <1>3, <1>4, <2>1 DEF Tables, ThreadEntry
<1>6. /\ pr' \in [Lw!Proc -> ProcEntry] /\ \A p \in Lw!Proc : p # q => pr'[p] = pr[p]
      /\ pr'[q].state = "RUNNABLE" /\ pr'[q].master = u /\ pr'[q].workers = pr[q].workers
  <2>1. pr[q] \in ProcEntry
    BY DEF Tables
  <2>2. [pr[q] EXCEPT !.state = "RUNNABLE"] \in ProcEntry
    BY <2>1 DEF ProcEntry, Lw!State
  <2> QED
    BY <1>3, <1>4, <2>1, <2>2 DEF Tables, ProcEntry
<1>7. /\ k' \in [Lw!Thread -> CallEntry] /\ k'[t].at = "user" /\ k'[u].at = "user"
      /\ \A x \in Lw!Thread : x # t /\ x # u => k'[x] = k[x]
  <2>1. Lw!InUser \in CallEntry /\ Lw!InUser.at = "user"
    BY DEF Lw!InUser, CallEntry, Places, OneProcessor
  <2> QED
    BY <1>3, <1>4, <2>1 DEF Tables
<1>8. Tables'
  BY <1>4, <1>5, <1>6, <1>7 DEF Tables
<1>9. u # 0 /\ u \in 0 .. NTHREAD
  BY DEF Lw!Thread, OneProcessor
<1>10. \A x : (Serves(q, x)' <=> Serves(q, x)) /\ (Member(q, x)' <=> Member(q, x)) /\ ~ Serves(q, x)
  BY <1>2, <1>3, <1>6 DEF Serves, Member, Forking
<1>11. ~ Builds(t, BuildAt)' /\ ~ Builds(t, ForkAt)'
  BY <1>7 DEF Builds, BuildAt, StackAt, ForkAt
<1>12. Makes(t, u, q)
  <2>1. \A x \in Lw!Thread : x # t => (Builds(x, BuildAt) => k[x].u # u) /\ (Builds(x, ForkAt) => k[x].q # q)
    BY <1>2 DEF Forking
  <2>2. \A p \in Lw!Proc : p # q => ~ Member(p, u)
    BY <1>2 DEF Forking
  <2> QED
    BY <1>1, <1>3, <1>4, <1>5, <1>6, <1>7, <1>10, <2>1, <2>2 DEF Makes
<1>13. NewProc(t, u, q)
  <2>1. \A i \in Lw!Thread : pr'[q].workers[i] = 0
    BY <1>2, <1>6 DEF Forking
  <2> QED
    BY <1>3, <1>5, <1>6, <1>9, <1>10, <1>11, <2>1 DEF NewProc
<1>14. NewThread(t, u, q)
  <2>1. /\ th'[u].kstack \in stacks' /\ \A x \in Lw!Thread : HasStack(x) => th[x].kstack \in stacks'
        /\ \A x \in Lw!Thread : HasStack(x) /\ x # u => th[x].kstack # th'[u].kstack
    BY <1>1, <1>2, <1>4, <1>5, ForkedStack
  <2>2. Member(q, u)' /\ ~ Serves(q, u)'
    BY <1>3, <1>9, <1>10 DEF Member
  <2>3. th'[u].tid \in {0, u} /\ th'[u].state = "RUNNABLE" /\ th'[u].process = q /\ k'[u].at = "user"
    BY <1>3, <1>5, <1>7
  <2>4. ~ lossy' => ~ lossy
    BY <1>4
  <2> HIDE DEF Member, Serves, HasStack
  <2> QED
    BY <1>6, <1>11, <2>1, <2>2, <2>3, <2>4 DEF NewThread
<1> QED
  BY <1>8, <1>9, <1>12, <1>13, <1>14, MakeStep

\* The new master gets its process, which gets its parent.
LEMMA ForkCopyStep ==
    ASSUME OneProcessor, Tables, Awaited, Core, NEW t \in Lw!Thread, Lw!ForkCopy(t)
    PROVE  ThreadInv'
<1>1. Lw!Running(t) /\ k[t].at = "fork_copy"
  BY DEF Lw!ForkCopy, Lw!On
<1>2. PICK u \in Lw!Thread, q \in Lw!Proc : Forking(t, u, q)
  BY <1>1, ForkFacts
<1>3. /\ u = k[t].u /\ q = k[t].q /\ u # t /\ th[t].state = "RUNNING" /\ th[u] \in ThreadEntry
      /\ pr[q].master = u /\ pr[q].state = "EMBRYO" /\ ~ Alive(u) /\ th[u].tid \in {0, u}
      /\ q # Lw!My(t) /\ ~ Lw!Running(u) /\ th[u].state \in {"EMBRYO", "ZOMBIE"}
  BY <1>1, <1>2 DEF Forking
<1>4. PICK P \in Lw!Proc : P = Lw!My(t)
  BY <1>2 DEF Forking
<1>5. /\ th' = [th EXCEPT ![u] = [th[u] EXCEPT !.process = q]]
      /\ k' = [k EXCEPT ![t] = [k[t] EXCEPT !.at = "fork_run"]]
      /\ UNCHANGED <<cpu, stacks, fault, lossy, overlap>>
  BY <1>3 DEF Lw!ForkCopy, Lw!Goto
<1>6. /\ th' \in [Lw!Thread -> ThreadEntry] /\ \A x \in Lw!Thread : x # u => th'[x] = th[x]
      /\ th'[u].state = th[u].state /\ th'[u].process = q /\ th'[u].tid = th[u].tid /\ th'[u].kstack = th[u].kstack
  <2>1. [th[u] EXCEPT !.process = q] \in ThreadEntry
    BY <1>3 DEF ThreadEntry, Lw!Proc, OneProcessor
  <2> QED
    BY <1>3, <1>5, <2>1 DEF Tables, ThreadEntry
<1>7. /\ pr' \in [Lw!Proc -> ProcEntry] /\ \A p \in Lw!Proc : p # q => pr'[p] = pr[p]
      /\ pr'[q].state = "EMBRYO" /\ pr'[q].master = u /\ pr'[q].workers = pr[q].workers
  <2> DEFINE C == Lw!UnusedProc.check
  <2>1. pr[q] \in ProcEntry /\ P \in 0 .. NPROC /\ C \in [Lw!Thread -> BOOLEAN]
    BY DEF Tables, Lw!Proc, OneProcessor, Lw!UnusedProc
  <2> DEFINE W == [pr EXCEPT ![q].parent = P]
  <2>2. pr' = [W EXCEPT ![q].check = C]
    BY <1>3, <1>4 DEF Lw!ForkCopy
  <2> HIDE DEF C
  <2>3. [pr[q] EXCEPT !.parent = P] \in ProcEntry
    BY <2>1 DEF ProcEntry
  <2>4. W \in [Lw!Proc -> ProcEntry] /\ W[q] = [pr[q] EXCEPT !.parent = P] /\ \A p \in Lw!Proc : p # q => W[p] = pr[p]
    BY <2>3 DEF Tables
  <2> HIDE DEF W
  <2>5. W[q] \in ProcEntry /\ W[q].state = pr[q].state /\ W[q].master = pr[q].master /\ W[q].workers = pr[q].workers
    BY <2>1, <2>4 DEF ProcEntry
  <2>6. [W[q] EXCEPT !.check = C] \in ProcEntry
    BY <2>1, <2>5 DEF ProcEntry
  <2> QED
    BY <1>3, <2>2, <2>4, <2>5, <2>6 DEF ProcEntry
<1>8. /\ k' \in [Lw!Thread -> CallEntry] /\ \A x \in Lw!Thread : x # t => k'[x] = k[x]
      /\ k'[t].at = "fork_run" /\ k'[t].u = u /\ k'[t].q = q
  <2>1. k[t] \in CallEntry
    BY DEF Tables
  <2>2. [k[t] EXCEPT !.at = "fork_run"] \in CallEntry
    BY <2>1 DEF CallEntry, Places
  <2> QED
    BY <1>3, <1>5, <2>1, <2>2 DEF Tables, CallEntry
<1>9. Tables'
  BY <1>5, <1>6, <1>7, <1>8 DEF Tables
<1>10. u # 0 /\ u \in 0 .. NTHREAD
  BY DEF Lw!Thread, OneProcessor
<1>11. \A x : (Serves(q, x)' <=> Serves(q, x)) /\ (Member(q, x)' <=> Member(q, x)) /\ ~ Serves(q, x)
  BY <1>2, <1>3, <1>7 DEF Serves, Member, Forking
<1>12. \A p \in Lw!Proc : p # q => ~ Member(p, u)
  BY <1>2 DEF Forking
<1>13. Makes(t, u, q)
  <2>1. \A x \in Lw!Thread : x # t => (Builds(x, BuildAt) => k[x].u # u) /\ (Builds(x, ForkAt) => k[x].q # q)
    BY <1>2 DEF Forking
  <2> QED
    BY <1>1, <1>3, <1>5, <1>6, <1>7, <1>8, <1>11, <1>12, <2>1 DEF Makes
<1>14. NewProc(t, u, q)
  <2>1. \A i \in Lw!Thread : pr'[q].workers[i] = 0
    BY <1>2, <1>7 DEF Forking
  <2> QED
    BY <1>3, <1>7, <1>8, <1>10, <1>11, <2>1 DEF NewProc
<1>15. NewEntryOf(t, u)'
  <2>1. \A p \in Lw!Proc : Member(p, u)' => p = q
    <3> SUFFICES ASSUME NEW p \in Lw!Proc, p # q PROVE ~ Member(p, u)'
      OBVIOUS
    <3>1. pr'[p] = pr[p]
      BY <1>7
    <3> QED
      BY <1>12, <3>1 DEF Member, Serves
  <2> QED
    BY <1>3, <1>5, <1>6, <1>7, <1>8, <2>1 DEF NewEntryOf, Lw!Running
<1>16. NewThread(t, u, q)
  <2>1. /\ th'[u].kstack \in stacks' /\ \A x \in Lw!Thread : HasStack(x) => th[x].kstack \in stacks'
        /\ \A x \in Lw!Thread : HasStack(x) /\ x # u => th[x].kstack # th'[u].kstack
    BY <1>1, <1>2, <1>5, <1>6, ForkedStack
  <2>2. Member(q, u)' /\ ~ Serves(q, u)'
    BY <1>3, <1>10, <1>11 DEF Member
  <2>3. th'[u].tid \in {0, u} /\ th'[u].state \in {"EMBRYO", "ZOMBIE"}
    BY <1>3, <1>6
  <2>4. ~ lossy' => ~ lossy
    BY <1>5
  <2> HIDE DEF Member, Serves, HasStack
  <2> QED
    BY <1>8, <1>15, <2>1, <2>2, <2>3, <2>4 DEF NewThread
<1> QED
  BY <1>9, <1>10, <1>13, <1>14, <1>16, MakeStep

\* The new master gets a kernel stack that nobody has.
LEMMA ForkStackStep ==
    ASSUME OneProcessor, Tables, Awaited, Core, NEW t \in Lw!Thread, Lw!ForkStack(t)
    PROVE  ThreadInv'
<1>1. Lw!Running(t) /\ k[t].at = "fork_stack"
  BY DEF Lw!ForkStack, Lw!On
<1>2. PICK u \in Lw!Thread, q \in Lw!Proc : Forking(t, u, q)
  BY <1>1, ForkFacts
<1>3. /\ u = k[t].u /\ q = k[t].q /\ u # t /\ th[t].state = "RUNNING" /\ th[u] \in ThreadEntry
      /\ pr[q].master = 0 /\ pr[q].state = "EMBRYO" /\ ~ Alive(u)
      /\ q # Lw!My(t) /\ ~ Lw!Running(u) /\ th[u].state \in {"EMBRYO", "ZOMBIE"}
  BY <1>1, <1>2 DEF Forking
<1>4. PICK P \in Lw!Proc : P = Lw!My(t)
  BY <1>2 DEF Forking
<1>5. PICK s \in Lw!Stack : s = Lw!Least(Lw!Stack \ stacks) /\ s \notin stacks
  <2>1. Lw!Stack \ stacks # {} /\ Lw!Stack \ stacks \in SUBSET Nat
    BY DEF Lw!ForkStack, Lw!Stack, OneProcessor
  <2> QED
    BY <2>1, LeastThread
<1>6. /\ th' = [th EXCEPT ![u] = [th[u] EXCEPT !.kstack = s, !.tid = 0, !.ustack = 0, !.process = P]]
      /\ k' = [k EXCEPT ![t] = [k[t] EXCEPT !.at = "fork_copy"]]
      /\ stacks' = stacks \cup {s}
      /\ UNCHANGED <<cpu, fault, lossy, overlap>>
  BY <1>3, <1>4, <1>5 DEF Lw!ForkStack, Lw!Goto
<1>7. /\ th' \in [Lw!Thread -> ThreadEntry] /\ \A x \in Lw!Thread : x # u => th'[x] = th[x]
      /\ th'[u].state = th[u].state /\ th'[u].tid = 0 /\ th'[u].kstack = s
  <2>1. P \in 0 .. NPROC /\ s \in 0 .. NTHREAD /\ 0 \in 0 .. NTHREAD
    BY DEF Lw!Proc, Lw!Stack, OneProcessor
  <2>2. [th[u] EXCEPT !.kstack = s, !.tid = 0, !.ustack = 0, !.process = P] \in ThreadEntry
    BY <1>3, <2>1 DEF ThreadEntry
  <2> QED
    BY <1>3, <1>6, <2>2 DEF Tables, ThreadEntry
<1>8. /\ pr' \in [Lw!Proc -> ProcEntry] /\ \A p \in Lw!Proc : p # q => pr'[p] = pr[p]
      /\ pr'[q].state = "EMBRYO" /\ pr'[q].master = u /\ \A i \in Lw!Thread : pr'[q].workers[i] = 0
  <2> DEFINE C == Lw!UnusedProc.workers
  <2>1. 0 \in 0 .. NTHREAD /\ u \in 0 .. NTHREAD /\ pr[q] \in ProcEntry
    BY DEF Tables, Lw!Thread, OneProcessor
  <2>2. C \in [Lw!Thread -> 0 .. NTHREAD] /\ \A i \in Lw!Thread : C[i] = 0
    BY <2>1 DEF Lw!UnusedProc
  <2> DEFINE W == [pr EXCEPT ![q].master = u]
  <2>3. pr' = [W EXCEPT ![q].workers = C]
    BY <1>3 DEF Lw!ForkStack
  <2> HIDE DEF C
  <2>4. [pr[q] EXCEPT !.master = u] \in ProcEntry
    BY <2>1 DEF ProcEntry
  <2>5. W \in [Lw!Proc -> ProcEntry] /\ W[q] = [pr[q] EXCEPT !.master = u] /\ \A p \in Lw!Proc : p # q => W[p] = pr[p]
    BY <2>4 DEF Tables
  <2> HIDE DEF W
  <2>6. W[q] \in ProcEntry /\ W[q].state = pr[q].state /\ W[q].master = u
    BY <2>1, <2>4, <2>5 DEF ProcEntry
  <2>7. [W[q] EXCEPT !.workers = C] \in ProcEntry
    BY <2>2, <2>6 DEF ProcEntry
  <2> QED
    BY <1>3, <2>2, <2>3, <2>5, <2>6, <2>7 DEF ProcEntry
<1>9. /\ k' \in [Lw!Thread -> CallEntry] /\ \A x \in Lw!Thread : x # t => k'[x] = k[x]
      /\ k'[t].at = "fork_copy" /\ k'[t].u = u /\ k'[t].q = q
  <2>1. k[t] \in CallEntry
    BY DEF Tables
  <2>2. [k[t] EXCEPT !.at = "fork_copy"] \in CallEntry
    BY <2>1 DEF CallEntry, Places
  <2> QED
    BY <1>3, <1>6, <2>1, <2>2 DEF Tables, CallEntry
<1>10. Tables'
  <2>1. stacks' \subseteq Lw!Stack
    BY <1>6 DEF Tables
  <2> QED
    BY <1>6, <1>7, <1>8, <1>9, <2>1 DEF Tables
<1>11. u # 0 /\ u \in 0 .. NTHREAD
  BY DEF Lw!Thread, OneProcessor
<1>12. \A x : ~ Serves(q, x)' /\ ~ Serves(q, x) /\ (Member(q, x)' <=> x = u) /\ ~ Member(q, x)
  BY <1>2, <1>3, <1>8, <1>11 DEF Serves, Member, Forking
<1>13. \A p \in Lw!Proc : p # q => ~ Member(p, u)
  BY <1>2 DEF Forking
<1>14. Makes(t, u, q)
  <2>1. \A x \in Lw!Thread : x # t => (Builds(x, BuildAt) => k[x].u # u) /\ (Builds(x, ForkAt) => k[x].q # q)
    BY <1>2 DEF Forking
  <2> QED
    BY <1>1, <1>3, <1>6, <1>7, <1>8, <1>9, <1>12, <1>13, <2>1 DEF Makes
<1>15. NewProc(t, u, q)
  BY <1>3, <1>8, <1>9, <1>11, <1>12 DEF NewProc
<1>16. NewEntryOf(t, u)'
  <2>1. \A p \in Lw!Proc : Member(p, u)' => p = q
    <3> SUFFICES ASSUME NEW p \in Lw!Proc, p # q PROVE ~ Member(p, u)'
      OBVIOUS
    <3>1. pr'[p] = pr[p]
      BY <1>8
    <3> QED
      BY <1>13, <3>1 DEF Member, Serves
  <2> QED
    BY <1>3, <1>6, <1>7, <1>8, <1>9, <2>1 DEF NewEntryOf, Lw!Running
<1>17. NewThread(t, u, q)
  <2>1. /\ th'[u].kstack \in stacks' /\ \A x \in Lw!Thread : HasStack(x) => th[x].kstack \in stacks'
        /\ \A x \in Lw!Thread : HasStack(x) /\ x # u => th[x].kstack # th'[u].kstack
    <3>1. \A x \in Lw!Thread : HasStack(x) => th[x].kstack \in stacks
      BY <1>2, ForkedStack
    <3>2. s \in stacks' /\ s \notin stacks /\ stacks \subseteq stacks' /\ th'[u].kstack = s
      BY <1>5, <1>6, <1>7
    <3> QED
      BY <3>1, <3>2
  <2>2. Member(q, u)' /\ ~ Serves(q, u)'
    BY <1>12
  <2>3. th'[u].tid = 0 /\ th'[u].state \in {"EMBRYO", "ZOMBIE"}
    BY <1>3, <1>7
  <2>4. ~ lossy' => ~ lossy
    BY <1>6
  <2> HIDE DEF Member, Serves, HasStack
  <2> QED
    BY <1>9, <1>16, <2>1, <2>2, <2>3, <2>4 DEF NewThread
<1> QED
  BY <1>10, <1>11, <1>14, <1>15, <1>17, MakeStep

\* When copyuvm() fails, the thread and the process are given back.
LEMMA ForkNoCopyStep ==
    ASSUME OneProcessor, Tables, Awaited, Core, NEW t \in Lw!Thread, Lw!ForkNoCopy(t)
    PROVE  ThreadInv'
<1>1. Lw!Running(t) /\ k[t].at = "fork_copy"
  BY DEF Lw!ForkNoCopy, Lw!On
<1>2. PICK u \in Lw!Thread, q \in Lw!Proc : Forking(t, u, q)
  BY <1>1, ForkFacts
<1>3. /\ u = k[t].u /\ q = k[t].q /\ u # t /\ th[t].state = "RUNNING" /\ th[u] \in ThreadEntry
      /\ pr[q].master = u /\ pr[q].state = "EMBRYO" /\ ~ Alive(u) /\ th[u].tid \in {0, u} /\ q # Lw!My(t)
  BY <1>1, <1>2 DEF Forking
<1>4. /\ th[u].kstack \in stacks /\ \A x \in Lw!Thread : HasStack(x) => th[x].kstack \in stacks
      /\ \A x \in Lw!Thread : HasStack(x) /\ x # u => th[x].kstack # th[u].kstack
  BY <1>1, <1>2, ForkedStack
<1>5. /\ th' = [th EXCEPT ![u] = [th[u] EXCEPT !.state = "UNUSED", !.kstack = 0, !.process = 0]]
      /\ k' = [k EXCEPT ![t] = Lw!InUser]
      /\ stacks' = stacks \ {th[u].kstack} /\ fault' = fault
      /\ UNCHANGED <<cpu, lossy, overlap>>
  <2>1. Lw!kfree({th[u].kstack}) /\ fault \in BOOLEAN
    BY <1>3 DEF Lw!ForkNoCopy, Tables
  <2>2. stacks' = stacks \ {th[u].kstack} /\ fault' = fault
    BY <1>4, <2>1 DEF Lw!kfree
  <2> QED
    BY <1>3, <2>2 DEF Lw!ForkNoCopy
<1>6. /\ th' \in [Lw!Thread -> ThreadEntry] /\ \A x \in Lw!Thread : x # u => th'[x] = th[x]
      /\ th'[u].state = "UNUSED" /\ th'[u].tid = th[u].tid
  <2>1. 0 \in 0 .. NPROC /\ 0 \in 0 .. NTHREAD
    BY DEF OneProcessor
  <2>2. [th[u] EXCEPT !.state = "UNUSED", !.kstack = 0, !.process = 0] \in ThreadEntry
    BY <1>3, <2>1 DEF ThreadEntry, Lw!State
  <2> QED
    BY <1>3, <1>5, <2>2 DEF Tables, ThreadEntry
<1>7. /\ pr' \in [Lw!Proc -> ProcEntry] /\ \A p \in Lw!Proc : p # q => pr'[p] = pr[p]
      /\ pr'[q].state = "UNUSED" /\ pr'[q].master = 0 /\ pr'[q].workers = pr[q].workers
  <2>1. 0 \in 0 .. NTHREAD /\ pr[q] \in ProcEntry
    BY DEF Tables, OneProcessor
  <2> DEFINE W == [pr EXCEPT ![q].master = 0]
  <2>2. pr' = [W EXCEPT ![q].state = "UNUSED"]
    BY <1>3 DEF Lw!ForkNoCopy
  <2>3. [pr[q] EXCEPT !.master = 0] \in ProcEntry
    BY <2>1 DEF ProcEntry
  <2>4. W \in [Lw!Proc -> ProcEntry] /\ W[q] = [pr[q] EXCEPT !.master = 0] /\ \A p \in Lw!Proc : p # q => W[p] = pr[p]
    BY <2>3 DEF Tables
  <2> HIDE DEF W
  <2>5. W[q] \in ProcEntry /\ W[q].workers = pr[q].workers /\ W[q].master = 0
    BY <2>1, <2>3, <2>4 DEF ProcEntry
  <2>6. [W[q] EXCEPT !.state = "UNUSED"] \in ProcEntry
    BY <2>5 DEF ProcEntry, Lw!State
  <2> QED
    BY <2>2, <2>4, <2>5, <2>6 DEF ProcEntry
<1>8. k' \in [Lw!Thread -> CallEntry] /\ k'[t].at = "user" /\ \A x \in Lw!Thread : x # t => k'[x] = k[x]
  BY <1>5, CallOver
<1>9. Tables'
  <2>1. stacks' \subseteq Lw!Stack
    BY <1>5 DEF Tables
  <2> QED
    BY <1>5, <1>6, <1>7, <1>8, <2>1 DEF Tables
<1>10. u # 0 /\ u \in 0 .. NTHREAD
  BY DEF Lw!Thread, OneProcessor
<1>11. \A x : ~ Serves(q, x)' /\ ~ Serves(q, x) /\ ~ Member(q, x)' /\ (Member(q, x) => x = u)
  BY <1>2, <1>3, <1>7 DEF Serves, Member, Forking
<1>12. \A p \in Lw!Proc : p # q => ~ Member(p, u)
  BY <1>2 DEF Forking
<1>13. \A x \in Lw!Thread : x # t => (Builds(x, BuildAt) => k[x].u # u) /\ (Builds(x, ForkAt) => k[x].q # q)
  BY <1>2 DEF Forking
<1>14. Makes(t, u, q)
  BY <1>1, <1>3, <1>5, <1>6, <1>7, <1>8, <1>11, <1>12, <1>13 DEF Makes
<1>15. ~ Builds(t, BuildAt)' /\ ~ Builds(t, ForkAt)'
  BY <1>8 DEF Builds, BuildAt, StackAt, ForkAt
<1>16. NewProc(t, u, q)
  <2>1. \A i \in Lw!Thread : pr'[q].workers[i] = 0
    BY <1>2, <1>7 DEF Forking
  <2> QED
    BY <1>3, <1>7, <1>11, <1>15, <2>1 DEF NewProc
<1>17. ~ HasStack(u)'
  <2>1. ASSUME NEW p \in Lw!Proc PROVE ~ Member(p, u)'
    <3>1. CASE p = q
      BY <1>11, <3>1
    <3>2. CASE p # q
      <4>1. pr'[p] = pr[p]
        BY <1>7, <3>2
      <4> QED
        BY <1>12, <3>2, <4>1 DEF Member, Serves
    <3> QED
      BY <3>1, <3>2
  <2>2. ASSUME NEW x \in Lw!Thread, Builds(x, StackAt)', k'[x].u = u PROVE FALSE
    <3>1. x # t /\ x # u
      BY <1>6, <1>8, <2>2 DEF Builds, StackAt, Able
    <3>2. Builds(x, BuildAt) /\ k[x].u = u
      BY <1>6, <1>8, <2>2, <3>1 DEF Builds, BuildAt, Able
    <3> QED
      BY <1>13, <3>1, <3>2
  <2> QED
    BY <2>1, <2>2 DEF HasStack
<1>18. NewThread(t, u, q)
  <2>1. \A x \in Lw!Thread : HasStack(x) /\ x # u => th[x].kstack \in stacks'
    BY <1>4, <1>5
  <2>2. ~ lossy' => ~ lossy
    BY <1>5
  <2> HIDE DEF Member, Serves, HasStack
  <2> QED
    BY <1>3, <1>6, <1>11, <1>15, <1>17, <2>1, <2>2 DEF NewThread
<1> QED
  BY <1>9, <1>10, <1>14, <1>16, <1>18, MakeStep

--------------------------------------------------------------------------------
(* The ends of exec() and exit() *)

\* The new image of exec() keeps the invariant: no worker is left whose user stack
\* the cleared table of slots would forget.
LEMMA ExecCommitStep ==
    ASSUME OneProcessor, Tables, Awaited, Core, NEW t \in Lw!Thread, Lw!ExecCommit(t)
    PROVE  ThreadInv'
<1>1. Lw!Running(t) /\ k[t].at = "exec" /\ k[t].i > NTHREAD
  BY DEF Lw!ExecCommit, Lw!On
<1>2. th[t].state = "RUNNING" /\ Lw!My(t) \in Lw!Proc
  BY <1>1, RunnerFacts DEF Core
<1>3. PICK P \in Lw!Proc : P = Lw!My(t)
  BY <1>2
<1>4. /\ \A x \in Lw!Thread : x # t /\ Lw!My(x) = Lw!My(t) => ~ Alive(x)
      /\ pr[P].master = t /\ \A i \in Lw!Thread : pr[P].workers[i] = 0
  BY <1>1, <1>3, ExecAlone
<1>5. UNCHANGED <<th, cpu, stacks, fault, lossy, overlap>> /\ k' = [k EXCEPT ![t] = Lw!InUser]
  BY DEF Lw!ExecCommit
<1>6. k' \in [Lw!Thread -> CallEntry] /\ k'[t].at = "user" /\ \A x \in Lw!Thread : x # t => k'[x] = k[x]
  BY <1>5, CallOver
<1>7. /\ pr' \in [Lw!Proc -> ProcEntry] /\ \A p \in Lw!Proc : p # P => pr'[p] = pr[p]
      /\ pr'[P].state = pr[P].state /\ pr'[P].master = pr[P].master /\ pr'[P].workers = pr[P].workers
  <2> DEFINE C == Lw!UnusedProc.check
  <2>1. pr[P] \in ProcEntry /\ C \in [Lw!Thread -> BOOLEAN]
    BY DEF Tables, Lw!UnusedProc
  <2>2. pr' = [pr EXCEPT ![P].check = C]
    BY <1>3 DEF Lw!ExecCommit
  <2> HIDE DEF C
  <2>3. [pr[P] EXCEPT !.check = C] \in ProcEntry
    BY <2>1 DEF ProcEntry
  <2> QED
    BY <2>1, <2>2, <2>3 DEF Tables, ProcEntry
<1>8. Tables'
  BY <1>5, <1>6, <1>7 DEF Tables
<1>9. \A x : (Serves(P, x)' <=> Serves(P, x)) /\ (Member(P, x)' <=> Member(P, x)) /\ ~ Serves(P, x)
  <2>1. \A x : ~ Serves(P, x)
    BY <1>4 DEF Serves
  <2> QED
    BY <1>7, <2>1 DEF Member, Serves
<1>10. Removes(t, P, {})
  <2>1. stacks' = stacks \ {th[x].kstack : x \in {}}
    BY <1>5
  <2>2. k[t].at \notin BuildAt \cup ForkAt \cup {"exit_mark"}
    BY <1>1 DEF BuildAt, StackAt, ForkAt
  <2> QED
    BY <1>1, <1>2, <1>3, <1>4, <1>5, <1>6, <1>7, <1>9, <2>1, <2>2 DEF Removes
<1>11. ExecingOf(t)'
  BY <1>6 DEF ExecingOf, Builds
<1>12. {} \in SUBSET Lw!Thread
  OBVIOUS
<1> QED
  BY <1>8, <1>10, <1>11, <1>12, RemoveStep

\* The end of exit() keeps the invariant: the loop has passed every sibling.
LEMMA ExitSchedStep ==
    ASSUME OneProcessor, Tables, Awaited, Core, NEW t \in Lw!Thread, Lw!ExitSched(t)
    PROVE  ThreadInv'
<1>1. Lw!Running(t) /\ k[t].at = "exit_mark" /\ k[t].i > NTHREAD /\ Lw!sched(t)
  BY DEF Lw!ExitSched, Lw!OnLocked, Lw!On
<1>2. th[t].state = "RUNNING" /\ Able(t) /\ Lw!My(t) \in Lw!Proc /\ pr[Lw!My(t)].state = "RUNNABLE"
  BY <1>1, RunnerFacts DEF Core
<1>3. PICK P \in Lw!Proc : P = Lw!My(t)
  BY <1>2
<1>4. \A x \in Lw!Thread : x # t /\ Lw!My(x) = Lw!My(t) => ~ Alive(x)
  <2>1. \A x \in Lw!Thread : x < k[t].i
    BY <1>1, EntryTypes DEF OneProcessor, Lw!Thread
  <2> QED
    BY <1>1, <1>2, <2>1 DEF Core, Exiting, ExitingOf, Builds
<1>5. k[t].at \notin BuildAt \cup ForkAt
  BY <1>1 DEF BuildAt, StackAt, ForkAt
<1>6. k' \in [Lw!Thread -> CallEntry] /\ k'[t].at = "exited" /\ \A x \in Lw!Thread : x # t => k'[x] = k[x]
  <2>1. k[t] \in CallEntry
    BY DEF Tables
  <2>2. [k[t] EXCEPT !.at = "exited"] \in CallEntry
    BY <2>1 DEF CallEntry, Places
  <2> QED
    BY <2>1, <2>2 DEF Lw!ExitSched, Lw!Goto, Tables, CallEntry
<1>7. k'[t].at \notin BuildAt \cup ForkAt
  BY <1>6 DEF BuildAt, StackAt, ForkAt
<1>8. (\A x \in Lw!Thread : ~ Lw!Running(x)') /\ cpu' \in [Lw!CPU -> 0 .. NTHREAD]
  BY <1>1, SchedFacts
<1>9. UNCHANGED <<stacks, fault, lossy, overlap>>
  BY DEF Lw!ExitSched
<1>10. /\ \A x \in Lw!Thread : x # t =>
            \/ th'[x] = th[x]
            \/ th[x].state = "SLEEPING" /\ th'[x] = [th[x] EXCEPT !.state = "RUNNABLE"]
       /\ th'[t] = [th[t] EXCEPT !.state = "ZOMBIE"] /\ th' = [x \in Lw!Thread |-> th'[x]]
  <2> DEFINE orphans == {q \in Lw!Proc : pr[q].parent = P}
  <2> DEFINE woken == Lw!Woken(th, <<"proc", pr[P].parent>>)
  <2> DEFINE again == IF \E q \in orphans : pr[q].state = "ZOMBIE" THEN Lw!Woken(woken, <<"proc", Lw!initproc>>) ELSE woken
  <2>1. th' = [again EXCEPT ![t].state = "ZOMBIE"]
    BY <1>3 DEF Lw!ExitSched
  <2>2. /\ \A x \in Lw!Thread : \/ woken[x] = th[x]
                                \/ th[x].state = "SLEEPING" /\ woken[x] = [th[x] EXCEPT !.state = "RUNNABLE"]
        /\ woken = [x \in Lw!Thread |-> woken[x]]
    BY DEF Lw!Woken
  <2>3. \A x \in Lw!Thread : [th[x] EXCEPT !.state = "RUNNABLE"].state = "RUNNABLE"
    <3>1. \A x \in Lw!Thread : th[x] \in ThreadEntry
      BY DEF Tables
    <3> QED
      BY <3>1 DEF ThreadEntry
  <2>4. \A x \in Lw!Thread : \/ Lw!Woken(woken, <<"proc", Lw!initproc>>)[x] = woken[x]
                             \/ /\ woken[x].state = "SLEEPING"
                                /\ Lw!Woken(woken, <<"proc", Lw!initproc>>)[x] = [woken[x] EXCEPT !.state = "RUNNABLE"]
    BY DEF Lw!Woken
  <2>5. \A x \in Lw!Thread : \/ again[x] = woken[x]
                             \/ woken[x].state = "SLEEPING" /\ again[x] = [woken[x] EXCEPT !.state = "RUNNABLE"]
    BY <2>4
  <2>6. again = [x \in Lw!Thread |-> again[x]]
    BY DEF Lw!Woken
  <2> HIDE DEF again, woken
  <2>7. \A x \in Lw!Thread : \/ again[x] = th[x]
                             \/ th[x].state = "SLEEPING" /\ again[x] = [th[x] EXCEPT !.state = "RUNNABLE"]
    BY <2>2, <2>3, <2>5
  <2>8. again[t] = th[t]
    BY <1>2, <2>7
  <2>9. th' = [x \in Lw!Thread |-> IF x = t THEN [again[t] EXCEPT !.state = "ZOMBIE"] ELSE again[x]]
    BY <2>1, <2>6
  <2> QED
    BY <2>7, <2>8, <2>9
<1>11. /\ th'[t] \in ThreadEntry /\ th'[t].state = "ZOMBIE"
       /\ th'[t].process = th[t].process /\ th'[t].tid = th[t].tid
       /\ th'[t].kstack = th[t].kstack /\ th'[t].ustack = th[t].ustack
  <2>1. th[t] \in ThreadEntry
    BY DEF Tables
  <2> QED
    BY <1>10, <2>1 DEF ThreadEntry, Lw!State
<1>12. /\ pr' \in [Lw!Proc -> ProcEntry]
       /\ \A p \in Lw!Proc : /\ pr'[p].state = IF p = P THEN "ZOMBIE" ELSE pr[p].state
                             /\ pr'[p].master = pr[p].master
                             /\ pr'[p].workers = pr[p].workers /\ pr'[p].check = pr[p].check
  <2>1. pr' = [p \in Lw!Proc |-> IF p = P THEN [pr[p] EXCEPT !.state = "ZOMBIE"]
                              ELSE IF p \in {q \in Lw!Proc : pr[q].parent = P} THEN [pr[p] EXCEPT !.parent = Lw!initproc]
                              ELSE pr[p]]
    BY <1>3 DEF Lw!ExitSched
  <2>2. \A p \in Lw!Proc : pr[p] \in ProcEntry
    BY DEF Tables
  <2>3. Lw!initproc \in 0 .. NPROC
    BY DEF Lw!initproc, OneProcessor
  <2>4. ASSUME NEW p \in Lw!Proc
        PROVE  /\ [pr[p] EXCEPT !.state = "ZOMBIE"] \in ProcEntry /\ [pr[p] EXCEPT !.parent = Lw!initproc] \in ProcEntry
               /\ [pr[p] EXCEPT !.state = "ZOMBIE"].state = "ZOMBIE"
               /\ [pr[p] EXCEPT !.parent = Lw!initproc].state = pr[p].state
               /\ \A r \in {[pr[p] EXCEPT !.state = "ZOMBIE"], [pr[p] EXCEPT !.parent = Lw!initproc]} :
                    r.master = pr[p].master /\ r.workers = pr[p].workers /\ r.check = pr[p].check
    <3>1. pr[p] \in ProcEntry
      BY <2>2
    <3> QED
      BY <2>3, <3>1 DEF ProcEntry, Lw!State
  <2> QED
    BY <2>1, <2>2, <2>4
<1>13. \A p \in Lw!Proc : pr'[p].state = pr[p].state \/ Ended(p)
  <2>1. \A x \in Lw!Thread : Lw!My(x) = P => ~ Alive(x)' /\ ~ Lw!Running(x)'
    <3> SUFFICES ASSUME NEW x \in Lw!Thread, Lw!My(x) = P PROVE ~ Alive(x)'
      BY <1>8
    <3>1. CASE x = t
      BY <1>11, <3>1 DEF Alive
    <3>2. CASE x # t
      BY <1>3, <1>4, <1>10, <3>2 DEF Alive
    <3> QED
      BY <3>1, <3>2
  <2> QED
    BY <1>2, <1>3, <1>12, <2>1 DEF Ended
<1>14. /\ Steady /\ (\A x \in Lw!Thread : x # t => GoesOn(x))
       /\ \A x \in Lw!Thread : x # t => th'[x] \in ThreadEntry
  <2>1. \A x \in Lw!Thread : x # t => /\ k'[x] = k[x]
                                      /\ \/ th'[x] = th[x]
                                         \/ th[x].state = "SLEEPING" /\ th'[x] = [th[x] EXCEPT !.state = "RUNNABLE"]
    BY <1>6, <1>10
  <2>2. \A p \in Lw!Proc : /\ pr'[p].state = pr[p].state \/ Ended(p)
                           /\ pr'[p].master = pr[p].master
                           /\ pr'[p].workers = pr[p].workers /\ pr'[p].check = pr[p].check
    BY <1>12, <1>13
  <2>3. \A x \in Lw!Thread : Lw!Running(x)' => Lw!Running(x)
    BY <1>8
  <2> QED
    BY <1>1, <1>5, <1>7, <1>9, <1>11, <2>1, <2>2, <2>3, CallStep
<1>15. Tables'
  <2>1. th' \in [Lw!Thread -> ThreadEntry]
    BY <1>10, <1>11, <1>14
  <2> QED
    BY <1>6, <1>8, <1>9, <1>12, <2>1 DEF Tables
<1>16. \A x \in Lw!Thread : Lw!Running(x) => x = t
  BY <1>1, OneThreadRuns
<1>17. Alone(t)
  <2>1. ASSUME NEW x \in Lw!Thread, x # t, th'[x].state = "SLEEPING", k[x].at = "joined", k[x].u = t
        PROVE  \E y \in Lw!Thread : Lw!My(y) = Lw!My(x) /\ Builds(y, {"exit_mark", "exec"})
    <3>1. th[x].state = "SLEEPING"
      <4>1. th[x] \in ThreadEntry
        BY DEF Tables
      <4> QED
        BY <1>10, <2>1, <4>1 DEF ThreadEntry
    <3>2. JoiningOf(x) /\ Alive(x) /\ Lw!My(x) \in Lw!Proc
      BY <3>1 DEF Core, Joining, Alive, Homes
    <3>3. ~ Serves(Lw!My(x), t)
      BY <1>4, <2>1, <3>2 DEF Core, MemberEntries, Lw!My
    <3> QED
      BY <2>1, <3>2, <3>3 DEF JoiningOf, Builds
  <2> QED
    BY <1>1, <1>4, <1>8, <1>14, <1>16, <2>1 DEF Alone
<1>18. CallStateOf(t)' /\ JoiningOf(t)' /\ ExitingOf(t)' /\ ExecingOf(t)' /\ AwaitedOf(t)'
  BY <1>6, <1>8, <1>11 DEF CallStateOf, JoiningOf, ExitingOf, ExecingOf, AwaitedOf, Able, Alive, Builds
<1> QED
  BY <1>14, <1>15, <1>17, <1>18, SteadyStep

--------------------------------------------------------------------------------
(* The theorems *)

\* A thread id is the number of its entry, or 0.
Ids == \A t \in Lw!Thread : th[t].tid \in {0, t}

\* The invariant holds of the one process that init starts with.
LEMMA LwpStarts ==
    ASSUME OneProcessor, Lw!Init
    PROVE  ThreadInv /\ Ids /\ ~ overlap
<1>1. 1 \in Lw!Thread /\ 1 \in Lw!Proc /\ 0 \in 0 .. NTHREAD /\ 0 \in 0 .. NPROC /\ 1 \in 0 .. NTHREAD /\ 1 \in 0 .. NPROC
  BY DEF Lw!Thread, Lw!Proc, OneProcessor
<1>2. \A x \in Lw!Thread : x # 0
  BY DEF Lw!Thread
<1>3. /\ \A x \in Lw!Thread : x # 1 => th[x] = Lw!UnusedThread
      /\ th[1] = [Lw!UnusedThread EXCEPT !.state = "RUNNABLE", !.process = 1, !.kstack = 1]
      /\ \A p \in Lw!Proc : p # 1 => pr[p] = Lw!UnusedProc
      /\ pr[1] = [Lw!UnusedProc EXCEPT !.state = "RUNNABLE", !.master = 1]
      /\ \A x \in Lw!Thread : k[x] = Lw!InUser
      /\ cpu = [c \in Lw!CPU |-> 0] /\ stacks = {1} /\ fault = FALSE /\ lossy = FALSE /\ overlap = FALSE
  BY <1>1 DEF Lw!Init
<1>4. /\ \A x \in Lw!Thread : x # 1 => th[x].state = "UNUSED"
      /\ \A x \in Lw!Thread : th[x].tid = 0
      /\ th[1].state = "RUNNABLE" /\ th[1].process = 1 /\ th[1].kstack = 1
      /\ \A x \in Lw!Thread : k[x].at = "user"
  <2>1. /\ Lw!UnusedThread.state = "UNUSED" /\ Lw!UnusedThread.tid = 0 /\ Lw!UnusedThread.process = 0
           /\ Lw!UnusedThread.kstack = 0
        /\ Lw!InUser.at = "user"
    BY DEF Lw!UnusedThread, Lw!InUser
  <2> DEFINE first == [Lw!UnusedThread EXCEPT !.state = "RUNNABLE", !.process = 1, !.kstack = 1]
  <2>2. first.state = "RUNNABLE" /\ first.process = 1 /\ first.kstack = 1 /\ first.tid = 0
    BY DEF Lw!UnusedThread
  <2>3. th[1] = first
    BY <1>3
  <2> HIDE DEF first
  <2>4. \A x \in Lw!Thread : th[x].tid = 0
    BY <1>3, <2>1, <2>2, <2>3
  <2> QED
    BY <1>3, <2>1, <2>2, <2>3, <2>4
<1>5. /\ \A p \in Lw!Proc : p # 1 => pr[p].state = "UNUSED" /\ pr[p].master = 0
      /\ pr[1].state = "RUNNABLE" /\ pr[1].master = 1
      /\ \A p \in Lw!Proc, i \in Lw!Thread : pr[p].workers[i] = 0
  <2>1. Lw!UnusedProc.state = "UNUSED" /\ Lw!UnusedProc.master = 0 /\ \A i \in Lw!Thread : Lw!UnusedProc.workers[i] = 0
    BY DEF Lw!UnusedProc
  <2> DEFINE first == [Lw!UnusedProc EXCEPT !.state = "RUNNABLE", !.master = 1]
  <2>2. first.state = "RUNNABLE" /\ first.master = 1 /\ \A i \in Lw!Thread : first.workers[i] = 0
    BY DEF Lw!UnusedProc
  <2>3. pr[1] = first
    BY <1>3
  <2> HIDE DEF first
  <2>4. \A p \in Lw!Proc, i \in Lw!Thread : pr[p].workers[i] = 0
    BY <1>3, <2>1, <2>2, <2>3
  <2> QED
    BY <1>3, <2>1, <2>2, <2>3, <2>4
<1>6. \A x \in Lw!Thread : ~ Lw!Running(x)
  BY <1>2, <1>3 DEF Lw!Running
<1>7. \A p \in Lw!Proc : \A x : ~ Serves(p, x) /\ (Member(p, x) <=> p = 1 /\ x = 1)
  BY <1>5 DEF Serves, Member
<1>8. \A x \in Lw!Thread : \A S : "user" \notin S => ~ Builds(x, S)
  BY <1>4 DEF Builds
<1>9. \A x \in Lw!Thread : Alive(x) => x = 1
  BY <1>4 DEF Alive
<1>10. Tables
  <2>1. Lw!NOCHAN \in Channels \X Nat
    BY DEF Lw!NOCHAN, Channels
  <2>2. Lw!UnusedThread \in ThreadEntry
        /\ [Lw!UnusedThread EXCEPT !.state = "RUNNABLE", !.process = 1, !.kstack = 1] \in ThreadEntry
    BY <1>1, <2>1 DEF Lw!UnusedThread, ThreadEntry, Lw!State
  <2>3. Lw!UnusedProc \in ProcEntry
    BY <1>1 DEF Lw!UnusedProc, ProcEntry, Lw!State
  <2>4. [Lw!UnusedProc EXCEPT !.state = "RUNNABLE", !.master = 1] \in ProcEntry
    BY <1>1, <2>3 DEF ProcEntry, Lw!State
  <2>5. Lw!InUser \in CallEntry
    BY <1>1 DEF Lw!InUser, CallEntry, Places, OneProcessor
  <2>6. stacks \subseteq Lw!Stack
    BY <1>1, <1>3 DEF Lw!Stack, Lw!Thread
  <2>7. th \in [Lw!Thread -> ThreadEntry] /\ pr \in [Lw!Proc -> ProcEntry] /\ k \in [Lw!Thread -> CallEntry]
    BY <2>2, <2>3, <2>4, <2>5 DEF Lw!Init
  <2>8. cpu \in [Lw!CPU -> 0 .. NTHREAD]
    BY <1>1, <1>3
  <2> QED
    BY <1>3, <2>6, <2>7, <2>8 DEF Tables
<1>11. MembersApart /\ ProcStates /\ MemberEntries /\ Homes
  <2>1. MembersApart
    BY <1>1, <1>5, <1>7 DEF MembersApart
  <2>2. ProcStates
    BY <1>4, <1>5 DEF ProcStates
  <2>3. MemberEntries
    BY <1>4, <1>7 DEF MemberEntries
  <2>4. Homes
    BY <1>1, <1>4, <1>5, <1>6, <1>7, <1>9 DEF Homes, Lw!My
  <2> QED
    BY <2>1, <2>2, <2>3, <2>4
<1>12. \A x \in Lw!Thread, S \in {BuildAt, ForkAt, StackAt, {"exec"}, {"exit_mark"}, {"exit_mark", "exec"},
        {"create_find", "create_store"}} :
         ~ Builds(x, S)
  BY <1>8 DEF BuildAt, ForkAt, StackAt
<1>13. \A x : HasStack(x) => x = 1
  BY <1>7, <1>12 DEF HasStack
<1>14. StacksHeld /\ NewEntries /\ NewProcs
  <2>1. StacksHeld
    BY <1>3, <1>4, <1>13 DEF StacksHeld
  <2> QED
    BY <1>12, <2>1 DEF NewEntries, NewProcs
<1>15. OneRuns /\ CallStates
  BY <1>4, <1>6 DEF OneRuns, CallStates, CallStateOf, Able
<1>16. Joining /\ Exiting /\ Execing /\ Awaited
  BY <1>4, <1>12 DEF Joining, JoiningOf, Exiting, ExitingOf, Execing, ExecingOf, Awaited, AwaitedOf
<1>17. UserStacks /\ Kept
  BY <1>1, <1>4, <1>7, <1>12 DEF UserStacks, Kept
<1>18. Ids
  BY <1>4 DEF Ids
<1> QED
  BY <1>3, <1>10, <1>11, <1>14, <1>15, <1>16, <1>17, <1>18 DEF ThreadInv, Core

\* Only scheduler() lets a thread overtake another.
LEMMA OverlapsByScheduler ==
    ASSUME NEW t \in Lw!Thread, Lw!Step(t)
    PROVE  overlap' = overlap
BY DEF Lw!Step, Lw!yield, Lw!sys_sleep, Lw!CreateAlloc, Lw!CreateStacks, Lw!CreateNoStack, Lw!CreateBad,
       Lw!CreateFind, Lw!CreateStore, Lw!thread_exit, Lw!ThreadExitWakeup, Lw!ThreadExitSched,
       Lw!JoinZombie, Lw!JoinSleep, Lw!JoinWoken,
       Lw!ForkProc, Lw!ForkThread, Lw!ForkNoThread, Lw!ForkStack, Lw!ForkNoCopy, Lw!ForkCopy, Lw!ForkRun,
       Lw!exit, Lw!ExitMark, Lw!ExitSched, Lw!WaitReap, Lw!kill, Lw!WaitSleep, Lw!WaitNone, Lw!exec,
       Lw!ExecWorker, Lw!ExecCommit, Lw!ExecFail

\* Every step of a thread keeps the invariant.
LEMMA ThreadStepKeeps ==
    ASSUME OneProcessor, Tables, Awaited, Core, NEW t \in Lw!Thread, Lw!Step(t)
    PROVE  ThreadInv'
<1>1. CASE Lw!yield(t) \/ Lw!sys_sleep(t) \/ Lw!WaitSleep(t)
  BY <1>1, YieldStep, SleepStep
<1>2. CASE Lw!CreateAlloc(t) \/ Lw!ForkThread(t)
  BY <1>2, AllocStep
<1>3. CASE Lw!CreateNoStack(t) \/ Lw!ForkNoThread(t)
  <2>1. Lw!ForkNoThread(t) => UNCHANGED th \/ k[t].at = "fork_stack"
    BY DEF Lw!ForkNoThread, Lw!On
  <2> QED
    BY <1>3, <2>1, CreateNoStackStep, CreateBadStep
<1>4. CASE Lw!CreateStacks(t) \/ Lw!CreateBad(t) \/ Lw!CreateFind(t) \/ Lw!CreateStore(t)
  BY <1>4, CreateStacksStep, CreateBadStep, CreateFindStep, CreateStoreStep
<1>5. CASE Lw!thread_exit(t) \/ Lw!ThreadExitWakeup(t) \/ Lw!ThreadExitSched(t)
  BY <1>5, ThreadExitStep, ThreadExitWakeupStep, ThreadExitSchedStep
<1>6. CASE Lw!JoinWoken(t) \/ \E u \in Lw!Thread : Lw!JoinZombie(t, u) \/ Lw!JoinSleep(t, u)
  BY <1>6, JoinedStep, JoinSleepStep
<1>7. CASE Lw!ForkProc(t) \/ Lw!ForkStack(t) \/ Lw!ForkNoCopy(t) \/ Lw!ForkCopy(t) \/ Lw!ForkRun(t)
  BY <1>7, ForkProcStep, ForkStackStep, ForkNoCopyStep, ForkCopyStep, ForkRunStep
<1>8. CASE Lw!exit(t) \/ Lw!exec(t) \/ Lw!WaitNone(t)
  BY <1>8, EnterStep
<1>9. CASE Lw!ExitMark(t) \/ Lw!ExitSched(t)
  BY <1>9, ExitMarkStep, ExitSchedStep
<1>10. CASE \E q \in Lw!Proc : Lw!WaitReap(t, q) \/ Lw!kill(t, q)
  BY <1>10, WaitReapStep, KillStep
<1>11. CASE Lw!ExecWorker(t) \/ Lw!ExecCommit(t) \/ Lw!ExecFail(t)
  BY <1>11, ExecWorkerStep, ExecCommitStep, ExecFailStep
<1> QED
  BY <1>1, <1>2, <1>3, <1>4, <1>5, <1>6, <1>7, <1>8, <1>9, <1>10, <1>11 DEF Lw!Step

\* On one processor the links between the tables of threads and processes, and the
\* calls under way, stay as the invariant says, up to the first overlap.
THEOREM ThreadInvHolds ==
    ASSUME OneProcessor
    PROVE  Lw!Spec => [](ThreadInv /\ Ids)
<1>1. Lw!Init => ThreadInv /\ Ids
  BY LwpStarts
<1>2. ThreadInv /\ Ids /\ [Lw!Next]_Lw!vars => ThreadInv' /\ Ids'
  <2>1. ASSUME ThreadInv, Ids, Lw!Next PROVE ThreadInv' /\ Ids'
    <3>1. Tables /\ Awaited /\ Core /\ ~ overlap
      BY <2>1 DEF ThreadInv, Lw!Next
    <3>2. CASE \E c \in Lw!CPU, t \in Lw!Thread : Lw!scheduler(c, t)
      <4>1. PICK c \in Lw!CPU, t \in Lw!Thread : Lw!scheduler(c, t)
        BY <3>2
      <4>2. th' = [th EXCEPT ![t] = [th[t] EXCEPT !.state = "RUNNING", !.chan = Lw!NOCHAN]]
        BY <4>1 DEF Lw!scheduler
      <4>3. \A x \in Lw!Thread : th'[x].tid = th[x].tid
        <5>1. \A x \in Lw!Thread : th[x] \in ThreadEntry
          BY <3>1 DEF Tables
        <5> QED
          BY <3>1, <4>2, <5>1 DEF Tables, ThreadEntry
      <4>4. ThreadInv'
        BY <3>1, <4>1, SchedulerStep
      <4> QED
        BY <2>1, <4>3, <4>4 DEF Ids
    <3>3. CASE Lw!wakeup
      <4>1. ThreadInv' /\ ~ overlap'
        BY <3>1, <3>3, WakeupStep DEF Lw!wakeup
      <4> QED
        BY <4>1 DEF ThreadInv, Core, MemberEntries, Ids
    <3>4. CASE \E t \in Lw!Thread : Lw!Step(t)
      <4>1. ThreadInv' /\ ~ overlap'
        BY <3>1, <3>4, ThreadStepKeeps, OverlapsByScheduler
      <4> QED
        BY <4>1 DEF ThreadInv, Core, MemberEntries, Ids
    <3> QED
      BY <2>1, <3>2, <3>3, <3>4 DEF Lw!Next
  <2>2. ASSUME ThreadInv, Ids, UNCHANGED Lw!vars PROVE ThreadInv' /\ Ids'
    <3>1. th' = th /\ pr' = pr /\ cpu' = cpu /\ k' = k /\ stacks' = stacks /\ fault' = fault
            /\ lossy' = lossy /\ overlap' = overlap
      BY <2>2 DEF Lw!vars
    <3>2. (Tables' <=> Tables) /\ (Ids' <=> Ids) /\ (Awaited' <=> Awaited)
      BY <3>1 DEF Tables, Ids, Awaited, AwaitedOf, Builds, Able, Lw!Running, Lw!My
    <3>3. (MembersApart' <=> MembersApart) /\ (ProcStates' <=> ProcStates)
            /\ (MemberEntries' <=> MemberEntries) /\ (Homes' <=> Homes)
      BY <3>1 DEF MembersApart, ProcStates, MemberEntries, Homes, Member, Serves, Alive, Lw!Running, Lw!My
    <3>4. (StacksHeld' <=> StacksHeld) /\ (NewEntries' <=> NewEntries) /\ (NewProcs' <=> NewProcs)
      BY <3>1 DEF StacksHeld, NewEntries, NewProcs, NewEntryOf, HasStack, Member, Serves, Builds, Able, Lw!Running, Lw!My
    <3>5. (OneRuns' <=> OneRuns) /\ (CallStates' <=> CallStates) /\ (Joining' <=> Joining)
      BY <3>1 DEF OneRuns, CallStates, CallStateOf, Joining, JoiningOf, Serves, Builds, Able, Alive, Lw!Running, Lw!My
    <3>6. (Exiting' <=> Exiting) /\ (Execing' <=> Execing) /\ (UserStacks' <=> UserStacks) /\ (Kept' <=> Kept)
      BY <3>1 DEF Exiting, ExitingOf, Execing, ExecingOf, UserStacks, Kept, Member, Serves, Builds, Able,
             Alive, Lw!Running, Lw!My
    <3> QED
      BY <2>2, <3>1, <3>2, <3>3, <3>4, <3>5, <3>6 DEF ThreadInv, Core
  <2> QED
    BY <2>1, <2>2
<1> QED
  BY <1>1, <1>2, PTL DEF Lw!Spec

\* The state keeps its type; a thread id is the number of its entry, or 0.
THEOREM ThreadTypeCorrect ==
    ASSUME OneProcessor
    PROVE  Lw!Spec => []Lw!TypeOK
<1>1. ThreadInv /\ Ids => Lw!TypeOK
  <2> SUFFICES ASSUME Tables, Ids PROVE Lw!TypeOK
    BY DEF ThreadInv
  <2>1. \A n \in 0 .. NTHREAD : n \in {0} \cup Lw!Stack /\ n \in {0} \cup Lw!Thread
    BY DEF Lw!Stack, Lw!Thread, OneProcessor
  <2>2. \A t \in Lw!Thread : /\ th[t].state \in Lw!State /\ th[t].process \in 0 .. NPROC
                             /\ th[t].tid \in {0, t} /\ th[t].kstack \in {0} \cup Lw!Stack
                             /\ th[t].ustack \in {0} \cup Lw!Thread
                             /\ k[t].u \in 0 .. NTHREAD /\ k[t].q \in 0 .. NPROC /\ k[t].i \in 0 .. NTHREAD + 1
    BY <2>1, EntryTypes DEF Ids
  <2>3. \A p \in Lw!Proc : /\ pr[p].state \in Lw!State /\ pr[p].parent \in 0 .. NPROC /\ pr[p].killed \in BOOLEAN
                           /\ pr[p].master \in 0 .. NTHREAD
                           /\ pr[p].workers \in [Lw!Thread -> 0 .. NTHREAD] /\ pr[p].check \in [Lw!Thread -> BOOLEAN]
    BY EntryTypes
  <2> QED
    BY <2>2, <2>3 DEF Lw!TypeOK, Tables
<1> QED
  BY <1>1, ThreadInvHolds, PTL

\* Every thread that may run has a kernel stack of its own, and no stack is freed twice.
THEOREM ThreadOwnStackHolds ==
    ASSUME OneProcessor
    PROVE  Lw!Spec => []Lw!OwnStack
<1>1. ThreadInv => Lw!OwnStack
  <2> SUFFICES ASSUME Core PROVE Lw!OwnStack
    BY DEF ThreadInv, Lw!OwnStack
  <2>1. \A t \in Lw!Thread : th[t].state \in {"SLEEPING", "RUNNABLE", "RUNNING"} \/ Lw!Running(t) => HasStack(t)
    BY DEF Core, Homes, Alive, HasStack
  <2> QED
    BY <2>1 DEF Core, StacksHeld, Lw!OwnStack
<1> QED
  BY <1>1, ThreadInvHolds, PTL

\* No two workers of a process share a user stack, and none has a slot that is free.
THEOREM ThreadOwnUserStackHolds ==
    ASSUME OneProcessor
    PROVE  Lw!Spec => []Lw!OwnUserStack
<1>1. ThreadInv => Lw!OwnUserStack
  <2> SUFFICES ASSUME Tables, Core PROVE Lw!OwnUserStack
    BY DEF ThreadInv, Lw!OwnUserStack
  <2>1. \A p \in Lw!Proc : \A t \in Lw!Workers(p) : t \in Lw!Thread /\ Serves(p, t)
    BY EntryTypes DEF Lw!Workers, Serves, Lw!Thread, OneProcessor
  <2> QED
    BY <2>1 DEF Core, UserStacks, Lw!OwnUserStack
<1> QED
  BY <1>1, ThreadInvHolds, PTL

\* Nobody sleeps in thread_join() for a thread that has ended, unless the process as
\* a whole is being ended.
THEOREM NoLostJoinHolds ==
    ASSUME OneProcessor
    PROVE  Lw!Spec => []Lw!NoLostJoin
<1>1. ThreadInv => Lw!NoLostJoin
  BY DEF ThreadInv, Awaited, AwaitedOf, Lw!NoLostJoin, Builds
<1> QED
  BY <1>1, ThreadInvHolds, PTL

\* When a process has exited, and when exec() has passed the last entry of workers,
\* no other thread of the process can run.
THEOREM SiblingsStopHolds ==
    ASSUME OneProcessor
    PROVE  Lw!Spec => []Lw!SiblingsStop
<1>1. ThreadInv => Lw!SiblingsStop
  <2> SUFFICES ASSUME Tables, Core, NEW t \in Lw!Thread, NEW u \in Lw!Thread, t # u, Lw!My(t) = Lw!My(u),
                      pr[Lw!My(t)].state = "ZOMBIE" \/ (Lw!On(t, "exec") /\ k[t].i > NTHREAD)
               PROVE  ~ Alive(u) /\ ~ Lw!Running(u)
    BY DEF ThreadInv, Lw!SiblingsStop, Alive
  <2>1. CASE pr[Lw!My(t)].state = "ZOMBIE"
    BY <2>1 DEF Core, Homes
  <2>2. CASE Lw!On(t, "exec") /\ k[t].i > NTHREAD
    BY <2>2, ExecAlone, OneThreadRuns DEF Lw!On
  <2> QED
    BY <2>1, <2>2
<1> QED
  BY <1>1, ThreadInvHolds, PTL

\* As long as no call was lost, every thread entry in use belongs to a process that is
\* there or to a call under way.
THEOREM LossHasCauseHolds ==
    ASSUME OneProcessor
    PROVE  Lw!Spec => []Lw!LossHasCause
<1>1. ThreadInv => Lw!LossHasCause
  <2> SUFFICES ASSUME Core, ~ lossy, NEW t \in Lw!Thread, th[t].state # "UNUSED"
               PROVE  \/ \E p \in Lw!Proc : pr[p].state # "UNUSED" /\ t \in Lw!Workers(p) \cup {pr[p].master}
                      \/ \E u \in Lw!Thread : k[u].u = t /\ ~ Lw!Idle(k[u].at) /\ th[u].state \in {"RUNNABLE", "RUNNING"}
    BY DEF ThreadInv, Lw!LossHasCause
  <2>1. ASSUME NEW p \in Lw!Proc, Member(p, t)
        PROVE  pr[p].state # "UNUSED" /\ t \in Lw!Workers(p) \cup {pr[p].master}
    BY <2>1 DEF Core, ProcStates, Member, Serves, Lw!Workers
  <2>2. ASSUME NEW x \in Lw!Thread, Builds(x, BuildAt), k[x].u = t
        PROVE  ~ Lw!Idle(k[x].at) /\ th[x].state \in {"RUNNABLE", "RUNNING"}
    BY <2>2 DEF Builds, Able, BuildAt, StackAt, Lw!Idle
  <2> QED
    BY <2>1, <2>2 DEF Core, Kept
<1> QED
  BY <1>1, ThreadInvHolds, PTL

================================================================================
