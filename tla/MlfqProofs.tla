------------------------------ MODULE MlfqProofs ------------------------------
(***************************************************************************)
(* Proofs about Mlfq, for any number of processors, slots and pids and any *)
(* programs: who runs what and who is waited for; that the queues and the  *)
(* table stay in step; that no array is left; that a quantum ends in a     *)
(* demotion; and that a monopoly excludes everybody else.                  *)
(***************************************************************************)
EXTENDS Mlfq, TLAPS, FiniteSetTheorems, SequenceTheorems, WellFoundedInduction

-------------------------------------------------------------------------------
(* Operators *)

\* A set of natural numbers has a least element.
LEMMA Least ==
    ASSUME NEW S \in SUBSET Nat, S # {}
    PROVE  \E x \in S : \A y \in S : x <= y
<1> DEFINE R == OpToRel(<, Nat)
<1>1. IsWellFoundedOn(R, Nat)
  BY NatLessThanWellFounded
<1>2. \A x, y \in Nat : <<y, x>> \in R <=> y < x
  BY DEF OpToRel
<1> HIDE DEF R
<1>3. PICK x \in S : \A y \in S : ~(<<y, x>> \in R)
  BY <1>1, WFMin
<1>4. \A y \in S : ~(y < x) /\ y \in Nat /\ x \in Nat
  BY <1>2, <1>3
<1> QED
  BY <1>4

\* The slot, or the place, that a loop over a table finds is one it looks for.
LEMMA FirstIn ==
    ASSUME NEW S \in SUBSET Nat, S # {}
    PROVE  First(S) \in S
BY Least DEF First

\* A part of a sequence.
LEMMA Part ==
    ASSUME NEW F, NEW s \in Seq(F), NEW m \in Nat \ {0}, NEW n \in Nat, n <= Len(s), m <= n + 1
    PROVE  /\ SubSeq(s, m, n) \in Seq(F)
           /\ Len(SubSeq(s, m, n)) = n - m + 1
           /\ \A i \in 1 .. n - m + 1 : SubSeq(s, m, n)[i] = s[m + i - 1]
<1>1. Len(s) \in Nat
  BY LenProperties
<1>2. \A i \in m .. n : i \in 1 .. Len(s)
  BY <1>1
<1>3. \A i \in m .. n : s[i] \in F
  BY <1>2, ElementOfSeq
<1>4. /\ SubSeq(s, m, n) \in Seq(F)
      /\ Len(SubSeq(s, m, n)) = IF m <= n THEN n - m + 1 ELSE 0
      /\ \A i \in 1 .. n - m + 1 : SubSeq(s, m, n)[i] = s[m + i - 1]
  BY <1>3, SubSeqProperties
<1>5. (IF m <= n THEN n - m + 1 ELSE 0) = n - m + 1
  OBVIOUS
<1> QED
  BY <1>4, <1>5

\* The top frame of a kernel stack is taken off,
LEMMA Popped ==
    ASSUME NEW F, NEW s \in Seq(F), s # <<>>
    PROVE  /\ Front(s) \in Seq(F) /\ Len(Front(s)) = Len(s) - 1
           /\ \A n \in 1 .. Len(s) - 1 : Front(s)[n] = s[n]
<1> DEFINE k == Len(s) - 1
           t == SubSeq(s, 1, k)
<1>1. k \in Nat /\ k <= Len(s) /\ 1 <= k + 1
  BY EmptySeq
<1> HIDE DEF k
<1>2. t \in Seq(F) /\ Len(t) = k - 1 + 1 /\ \A i \in 1 .. k - 1 + 1 : t[i] = s[1 + i - 1]
  BY <1>1, Part
<1> HIDE DEF t
<1>3. t \in Seq(F) /\ Len(t) = k /\ \A i \in 1 .. k : t[i] = s[i]
  BY <1>1, <1>2
<1> QED
  BY <1>3 DEF t, k, Front

\* or replaced.
LEMMA Replaced ==
    ASSUME NEW F, NEW s \in Seq(F), s # <<>>, NEW f \in F
    PROVE  /\ Append(Front(s), f) \in Seq(F)
           /\ Append(Front(s), f) # <<>>
           /\ Len(Append(Front(s), f)) = Len(s)
           /\ Last(Append(Front(s), f)) = f
           /\ \A n \in 1 .. Len(s) - 1 : Append(Front(s), f)[n] = s[n]
<1> DEFINE t == Front(s)
           u == Append(t, f)
<1>1. Len(s) \in Nat \ {0} /\ t \in Seq(F) /\ Len(t) = Len(s) - 1
      /\ \A n \in 1 .. Len(s) - 1 : t[n] = s[n]
  BY EmptySeq, Popped
<1> HIDE DEF t
<1>2. /\ u \in Seq(F) /\ u # <<>> /\ Len(u) = Len(t) + 1
      /\ \A n \in 1 .. Len(t) : u[n] = t[n]
      /\ u[Len(t) + 1] = f
  BY <1>1, AppendProperties
<1> HIDE DEF u
<1>3. Len(u) = Len(s) /\ u[Len(u)] = f /\ \A n \in 1 .. Len(s) - 1 : u[n] = s[n]
  BY <1>1, <1>2
<1> QED
  BY <1>2, <1>3 DEF u, t, Last

\* An entry leaves a queue,
LEMMA Removed ==
    ASSUME NEW F, NEW s \in Seq(F), NEW k \in 1 .. Len(s)
    PROVE  /\ RemoveAt(s, k) \in Seq(F)
           /\ Len(RemoveAt(s, k)) = Len(s) - 1
           /\ \A n \in 1 .. Len(s) - 1 : RemoveAt(s, k)[n] = IF n < k THEN s[n] ELSE s[n + 1]
<1> DEFINE a == SubSeq(s, 1, k - 1)
           b == SubSeq(s, k + 1, Len(s))
           t == a \o b
<1>1. Len(s) \in Nat /\ k - 1 \in Nat /\ k + 1 \in Nat \ {0} /\ k - 1 <= Len(s) /\ 1 <= (k - 1) + 1
      /\ k + 1 <= Len(s) + 1
  BY LenProperties
<1>2. a \in Seq(F) /\ Len(a) = (k - 1) - 1 + 1 /\ \A i \in 1 .. (k - 1) - 1 + 1 : a[i] = s[1 + i - 1]
  BY <1>1, Part
<1>3. b \in Seq(F) /\ Len(b) = Len(s) - (k + 1) + 1
      /\ \A i \in 1 .. Len(s) - (k + 1) + 1 : b[i] = s[(k + 1) + i - 1]
  BY <1>1, Part
<1> HIDE DEF a, b
<1>4. a \in Seq(F) /\ Len(a) = k - 1 /\ \A i \in 1 .. k - 1 : a[i] = s[i]
  BY <1>1, <1>2
<1>5. b \in Seq(F) /\ Len(b) = Len(s) - k /\ \A i \in 1 .. Len(s) - k : b[i] = s[k + i]
  BY <1>1, <1>3, SMTT(40)
<1>6. /\ t \in Seq(F) /\ Len(t) = Len(a) + Len(b)
      /\ \A i \in 1 .. Len(a) + Len(b) : t[i] = IF i <= Len(a) THEN a[i] ELSE b[i - Len(a)]
  BY <1>4, <1>5, ConcatProperties
<1> HIDE DEF t
<1>7. Len(t) = Len(s) - 1
  BY <1>1, <1>4, <1>5, <1>6
<1>8. ASSUME NEW n \in 1 .. Len(s) - 1 PROVE t[n] = IF n < k THEN s[n] ELSE s[n + 1]
  <2>1. n \in 1 .. Len(a) + Len(b)
    BY <1>1, <1>4, <1>5
  <2>2. CASE n < k
    BY <1>1, <1>4, <1>6, <2>1, <2>2
  <2>3. CASE ~(n < k)
    <3>1. ~(n <= Len(a)) /\ n - Len(a) \in 1 .. Len(s) - k /\ k + (n - Len(a)) = n + 1
      BY <1>1, <1>4, <2>3
    <3> QED
      BY <1>5, <1>6, <2>1, <2>3, <3>1
  <2> QED
    BY <2>2, <2>3
<1> QED
  BY <1>6, <1>7, <1>8 DEF t, a, b, RemoveAt

\* or enters one.
LEMMA Inserted ==
    ASSUME NEW F, NEW s \in Seq(F), NEW k \in 1 .. Len(s) + 1, NEW e \in F
    PROVE  /\ InsertAt(s, k, e) \in Seq(F)
           /\ Len(InsertAt(s, k, e)) = Len(s) + 1
           /\ \A n \in 1 .. Len(s) + 1 :
                 InsertAt(s, k, e)[n] = IF n < k THEN s[n] ELSE IF n = k THEN e ELSE s[n - 1]
<1> DEFINE a == SubSeq(s, 1, k - 1)
           b == SubSeq(s, k, Len(s))
           c == a \o <<e>>
           t == c \o b
<1>1. Len(s) \in Nat /\ k \in Nat \ {0} /\ k - 1 \in Nat /\ k - 1 <= Len(s) /\ 1 <= (k - 1) + 1
      /\ k <= Len(s) + 1
  BY LenProperties
<1>2. a \in Seq(F) /\ Len(a) = (k - 1) - 1 + 1 /\ \A i \in 1 .. (k - 1) - 1 + 1 : a[i] = s[1 + i - 1]
  BY <1>1, Part
<1>3. b \in Seq(F) /\ Len(b) = Len(s) - k + 1
      /\ \A i \in 1 .. Len(s) - k + 1 : b[i] = s[k + i - 1]
  BY <1>1, Part
<1> HIDE DEF a, b
<1>4. a \in Seq(F) /\ Len(a) = k - 1 /\ \A i \in 1 .. k - 1 : a[i] = s[i]
  BY <1>1, <1>2
<1>5. <<e>> \in Seq(F) /\ Len(<<e>>) = 1 /\ <<e>>[1] = e
  OBVIOUS
<1>6. /\ c \in Seq(F) /\ Len(c) = Len(a) + Len(<<e>>)
      /\ \A i \in 1 .. Len(a) + Len(<<e>>) : c[i] = IF i <= Len(a) THEN a[i] ELSE <<e>>[i - Len(a)]
  BY <1>4, <1>5, ConcatProperties
<1> HIDE DEF c
<1>7. Len(c) = k /\ c[k] = e /\ \A i \in 1 .. k - 1 : c[i] = s[i]
  <2>1. Len(a) + 1 = k /\ k \in 1 .. Len(a) + 1 /\ ~(k <= Len(a)) /\ k - Len(a) = 1
    BY <1>1, <1>4
  <2>2. c[k] = <<e>>[k - Len(a)]
    BY <1>5, <1>6, <2>1
  <2>3. \A i \in 1 .. k - 1 : i \in 1 .. Len(a) + 1 /\ i <= Len(a)
    BY <1>1, <1>4
  <2> QED
    BY <1>4, <1>5, <1>6, <2>1, <2>2, <2>3
<1>8. /\ t \in Seq(F) /\ Len(t) = Len(c) + Len(b)
      /\ \A i \in 1 .. Len(c) + Len(b) : t[i] = IF i <= Len(c) THEN c[i] ELSE b[i - Len(c)]
  <2>1. c \in Seq(F) /\ b \in Seq(F)
    BY <1>3, <1>6
  <2> QED
    BY <2>1, ConcatProperties
<1> HIDE DEF t
<1>9. Len(t) = Len(s) + 1
  BY <1>1, <1>3, <1>7, <1>8
<1>10. ASSUME NEW n \in 1 .. Len(s) + 1
       PROVE  t[n] = IF n < k THEN s[n] ELSE IF n = k THEN e ELSE s[n - 1]
  <2>1. n \in 1 .. Len(c) + Len(b)
    BY <1>1, <1>3, <1>7
  <2>2. CASE n < k
    BY <1>1, <1>7, <1>8, <2>1, <2>2
  <2>3. CASE n = k
    BY <1>1, <1>7, <1>8, <2>1, <2>3
  <2>4. CASE n > k
    <3>1. ~(n <= Len(c)) /\ n - Len(c) \in 1 .. Len(s) - k + 1 /\ k + (n - Len(c)) - 1 = n - 1
      BY <1>1, <1>7, <2>4
    <3> QED
      BY <1>1, <1>3, <1>8, <2>1, <2>4, <3>1, SMTT(40)
  <2> QED
    BY <1>1, <2>2, <2>3, <2>4
<1> QED
  BY <1>8, <1>9, <1>10 DEF t, c, a, b, InsertAt

-------------------------------------------------------------------------------
(* The inductive invariant *)

\* The code that runs in a timer interrupt, and where a process that the
\* scheduler may switch to goes on.
IrqCode   == {"timer", "yield", "slice", "giveup", "requeue", "yielded", "ret", "exit"}
Resumable == {"forkret", "yielded", "sleep_wake", "wait_wake"}

Code == SystemCalls \cup IrqCode \cup Resumable \cup
        {"fork_stack", "fork_copy", "setmonopoly_remove", "setmonopoly_mark", "setmonopoly_append", "sleep_block",
         "sleep_check", "unmonopolize_ticks"}

\* The frames, with what their locals are.
Frames == {f \in [at : Code, v : Nat, w : Nat, irq : BOOLEAN] :
              /\ f.at \in {"fork_stack", "fork_copy", "setmonopoly_remove", "setmonopoly_mark", "setmonopoly_append"} =>
                     f.v \in Slot
              /\ f.at = "setmonopoly_remove" => f.w \in Level \cup {MOQ}
              /\ f.at = "slice" => f.v # 0
              /\ f.irq => f.at \in IrqCode}

\* A system call, and on it at most the frame of an interrupt.
Stacks == {s \in Seq(Frames) : Len(s) <= 2 /\ (Len(s) = 2 => Last(s).irq)}

\* A process has a kernel stack from its creation to its exit; one that is not
\* running stands where it can be resumed, and so does one just switched to.
Parked ==
    /\ \A p \in Slot :
          /\ proc[p].state \in {"UNUSED", "EMBRYO", "ZOMBIE"} => stack[p] = <<>>
          /\ proc[p].state \in {"RUNNABLE", "SLEEPING"} => stack[p] # <<>> /\ Top(p).at \in Resumable
    /\ \A c \in CPU : ptlock = c /\ cpu[c] # NONE =>
          stack[cpu[c]] # <<>> /\ Top(cpu[c]).at \in Resumable \cup {"wait"}

\* The handler of a tick has interrupted a process outside any handler, and no
\* scheduler.
Interrupted ==
    \A c \in CPU : irq[c] # "none" =>
        /\ ptlock # c
        /\ cpu[c] # NONE /\ stack[cpu[c]] # <<>> => ~Top(cpu[c]).irq

\* fork() of p has allocated the slot np.
Allocates(p, np) ==
    /\ stack[p] # <<>>
    /\ stack[p][1].at \in {"fork_stack", "fork_copy"}
    /\ stack[p][1].v = np

\* A slot that is being filled belongs to one fork() alone.
Allocated ==
    /\ \A p, np \in Slot : Allocates(p, np) => proc[np].state = "EMBRYO"
    /\ \A p, q, np \in Slot : Allocates(p, np) /\ Allocates(q, np) => p = q

\* Who has a parent, and that init has none and stays.
Lineage ==
    /\ \A p \in Slot :
          /\ proc[p].state \in {"UNUSED", "EMBRYO"} => proc[p].parent = NONE
          /\ proc[p].state # "UNUSED" => proc[p].pid # 0
          /\ proc[p].parent # p
    /\ proc[initproc].parent = NONE
    /\ proc[initproc].state \notin {"UNUSED", "EMBRYO", "ZOMBIE"}

\* The pids left suffice for the calls of fork() in progress.
PidsLeft == nextpid + Cardinality(Forking) <= MaxPid + 1

MInv == /\ Types /\ stack \in [Slot -> Stacks] /\ Parked /\ Interrupted
        /\ Allocated /\ Lineage /\ PidsLeft /\ OneCpu /\ NoLostExit

-------------------------------------------------------------------------------
(* The process that runs, and its kernel stack *)

LEMMA Names ==
    /\ NONE \notin Slot /\ NONE \notin CPU /\ TICKS \notin Slot /\ TICKS # NONE
    /\ Slot \subseteq Nat /\ CPU \subseteq Nat /\ initproc \in Slot /\ 1 \in CPU
BY MlfqAssumption DEF NONE, Slot, CPU, TICKS, initproc

LEMMA SlotFinite == IsFiniteSet(Slot)
<1>1. NPROC \in Int
  BY MlfqAssumption
<1> QED
  BY <1>1, FS_Interval DEF Slot

\* The frame r with other code and locals.
LEMMA FrameIn ==
    ASSUME NEW r \in Frames, NEW at \in Code, NEW v \in Nat, NEW w \in Nat,
           at \in {"fork_stack", "fork_copy", "setmonopoly_remove", "setmonopoly_mark", "setmonopoly_append"} => v \in Slot,
           at = "setmonopoly_remove" => w \in Level \cup {MOQ},
           at = "slice" => v # 0,
           at \in IrqCode \/ r.at \notin IrqCode
    PROVE  /\ Frame(at, v, w, r.irq) \in Frames
           /\ Frame(at, v, w, r.irq).at = at /\ Frame(at, v, w, r.irq).v = v
<1> DEFINE f == Frame(at, v, w, r.irq)
<1>1. r.irq \in BOOLEAN /\ (r.irq => r.at \in IrqCode)
  BY DEF Frames
<1>2. /\ f \in [at : Code, v : Nat, w : Nat, irq : BOOLEAN]
      /\ f.at = at /\ f.v = v /\ f.w = w /\ f.irq = r.irq
  BY <1>1 DEF Frame
<1> HIDE DEF f
<1>3. f.irq => f.at \in IrqCode
  BY <1>1, <1>2
<1> QED
  BY <1>2, <1>3 DEF Frames, f

LEMMA TimerFrame ==
    /\ Frame("timer", 0, 0, TRUE) \in Frames
    /\ Frame("timer", 0, 0, TRUE).at = "timer"
    /\ Frame("timer", 0, 0, TRUE).irq
<1>1. ASSUME NEW at \in Code, NEW v \in Nat, NEW i \in BOOLEAN, at = "timer"
      PROVE  /\ Frame(at, v, v, i) \in Frames
             /\ Frame(at, v, v, i).at = at /\ Frame(at, v, v, i).irq = i
  <2> DEFINE f == Frame(at, v, v, i)
  <2>1. /\ f \in [at : Code, v : Nat, w : Nat, irq : BOOLEAN]
        /\ f.at = at /\ f.irq = i
    BY DEF Frame
  <2> HIDE DEF f
  <2> QED
    BY <1>1, <2>1 DEF Frames, IrqCode, f
<1>2. "timer" \in Code
  BY DEF Code, IrqCode
<1>4. 0 \in Nat
  OBVIOUS
<1>3. TRUE \in BOOLEAN
  OBVIOUS
<1> QED
  BY <1>1, <1>2, <1>3, <1>4, Zenon

\* Any stack: its top, and its first frame.
LEMMA StackFacts ==
    ASSUME NEW s \in Stacks, s # <<>>
    PROVE  /\ s \in Seq(Frames) /\ Len(s) \in {1, 2}
           /\ Last(s) \in Frames /\ s[1] \in Frames
           /\ Len(s) = 1 => Last(s) = s[1]
<1>1. s \in Seq(Frames) /\ Len(s) <= 2
  BY DEF Stacks
<1>2. Len(s) \in Nat \ {0}
  BY <1>1, EmptySeq
<1>3. 1 \in 1 .. Len(s) /\ Len(s) \in 1 .. Len(s)
  BY <1>2
<1>4. s[1] \in Frames /\ s[Len(s)] \in Frames
  BY <1>1, <1>3, ElementOfSeq
<1>5. \A n \in Nat \ {0} : n <= 2 => n \in {1, 2}
  OBVIOUS
<1>6. Len(s) \in {1, 2}
  BY <1>1, <1>2, <1>5
<1> QED
  BY <1>1, <1>4, <1>6 DEF Last

\* Goto() and Finish(): the other frames stay.
LEMMA GotoFacts ==
    ASSUME stack \in [Slot -> Stacks], NEW p \in Slot, stack[p] # <<>>, NEW at \in Code,
           NEW v, NEW w, Frame(at, v, w, Top(p).irq) \in Frames
    PROVE  \E t \in Stacks :
              /\ Goto(p, at, v, w) = [stack EXCEPT ![p] = t]
              /\ t # <<>> /\ Len(t) = Len(stack[p])
              /\ Last(t) = Frame(at, v, w, Top(p).irq)
              /\ t[1] = stack[p][1] \/ (Len(t) = 1 /\ t[1] = Last(t))
<1> DEFINE s == stack[p]
           f == Frame(at, v, w, Top(p).irq)
           t == Append(Front(s), f)
<1>1. s \in Stacks /\ s # <<>>
  OBVIOUS
<1>2. s \in Seq(Frames) /\ Len(s) \in {1, 2} /\ (Len(s) = 2 => Last(s).irq)
  BY <1>1, StackFacts DEF Stacks
<1>3. t \in Seq(Frames) /\ t # <<>> /\ Len(t) = Len(s) /\ Last(t) = f
      /\ \A n \in 1 .. Len(s) - 1 : t[n] = s[n]
  BY <1>1, <1>2, Replaced
<1>4. f.irq = Last(s).irq
  BY DEF Frame, Top
<1>5. t \in Stacks
  BY <1>2, <1>3, <1>4 DEF Stacks
<1>6. Goto(p, at, v, w) = [stack EXCEPT ![p] = t]
  BY DEF Goto
<1> HIDE DEF t, f
<1>7. t[1] = s[1] \/ (Len(t) = 1 /\ t[1] = Last(t))
  <2>1. CASE Len(s) = 1
    BY <1>3, <1>5, <2>1, StackFacts
  <2>2. CASE Len(s) = 2
    BY <1>3, <2>2
  <2> QED
    BY <1>2, <2>1, <2>2
<1> QED
  BY <1>3, <1>5, <1>6, <1>7 DEF f

\* The frame that is popped leaves the system call under it.
LEMMA PopFacts ==
    ASSUME NEW s \in Stacks, s # <<>>
    PROVE  Front(s) \in Stacks /\ (Front(s) # <<>> => Front(s)[1] = s[1])
<1>1. s \in Seq(Frames) /\ Len(s) \in {1, 2}
  BY StackFacts
<1>2. Front(s) \in Seq(Frames) /\ Len(Front(s)) = Len(s) - 1
      /\ \A n \in 1 .. Len(s) - 1 : Front(s)[n] = s[n]
  BY <1>1, Popped
<1>3. Front(s) # <<>> => Len(Front(s)) \in Nat \ {0}
  BY <1>2, EmptySeq
<1> QED
  BY <1>1, <1>2, <1>3 DEF Stacks

\* A frame is pushed on a stack that has none of an interrupt.
LEMMA PushFacts ==
    ASSUME NEW s \in Stacks, s # <<>> => ~Last(s).irq, NEW f \in Frames, f.irq
    PROVE  /\ Append(s, f) \in Stacks /\ Append(s, f) # <<>>
           /\ Last(Append(s, f)) = f
           /\ IF s = <<>> THEN Append(s, f)[1] = f ELSE Append(s, f)[1] = s[1]
<1> DEFINE t == Append(s, f)
<1>1. s \in Seq(Frames) /\ Len(s) \in Nat /\ Len(s) <= 1 /\ (s = <<>> <=> Len(s) = 0)
  <2>1. s \in Seq(Frames) /\ (Len(s) = 2 => Last(s).irq) /\ Len(s) <= 2
    BY DEF Stacks
  <2>2. Len(s) \in Nat /\ (s = <<>> <=> Len(s) = 0)
    BY <2>1, EmptySeq, LenProperties
  <2>3. \A n \in Nat : n <= 2 /\ n # 2 => n <= 1
    OBVIOUS
  <2>4. Len(s) # 2
    <3>1. CASE s = <<>>
      BY <2>2, <3>1
    <3>2. CASE s # <<>>
      BY <2>1, <3>2, Zenon
    <3> QED
      BY <3>1, <3>2
  <2> QED
    BY <2>1, <2>2, <2>3, <2>4
<1>2. t \in Seq(Frames) /\ t # <<>> /\ Len(t) = Len(s) + 1
      /\ (\A i \in 1 .. Len(s) : t[i] = s[i]) /\ t[Len(s) + 1] = f
  BY <1>1, AppendProperties
<1> HIDE DEF t
<1>3. Last(t) = f /\ Len(t) <= 2
  BY <1>1, <1>2 DEF Last
<1>4. t \in Stacks
  BY <1>2, <1>3 DEF Stacks
<1>5. IF s = <<>> THEN t[1] = f ELSE t[1] = s[1]
  BY <1>1, <1>2
<1> QED
  BY <1>2, <1>3, <1>4, <1>5 DEF t

\* What is known of a process whose code is executing.
LEMMA AtFacts ==
    ASSUME MInv, NEW c \in CPU, NEW p \in Slot, NEW at, At(c, p, at)
    PROVE  /\ cpu[c] = p /\ irq[c] = "none" /\ fault = "none" /\ proc[p].state = "RUNNING"
           /\ stack[p] \in Stacks /\ stack[p] # <<>> /\ Top(p) \in Frames /\ Top(p).at = at
           /\ at \notin Resumable \cup {"wait"} => ptlock # c
<1>1. cpu[c] = p /\ irq[c] = "none" /\ fault = "none" /\ stack[p] # <<>> /\ Top(p).at = at
  BY DEF At, Runs
<1>2. stack[p] \in Stacks
  BY DEF MInv
<1>3. Top(p) \in Frames
  BY <1>1, <1>2, StackFacts DEF Top
<1>4. proc[p].state = "RUNNING"
  BY <1>1 DEF MInv, OneCpu
<1>5. at \notin Resumable \cup {"wait"} => ptlock # c
  BY <1>1, Names DEF MInv, Parked
<1> QED
  BY <1>1, <1>2, <1>3, <1>4, <1>5

-------------------------------------------------------------------------------
(* Steps, by what they change *)

\* q stays in its state, or is woken.
Mild(q) ==
    \/ proc'[q].state = proc[q].state
    \/ proc[q].state = "SLEEPING" /\ proc'[q].state = "RUNNABLE"

\* The states of a slot without a kernel stack.
Dead == {"UNUSED", "EMBRYO", "ZOMBIE"}

\* Processes are at most woken.
Tame ==
    \A q \in Slot :
        /\ proc'[q].parent = proc[q].parent
        /\ proc'[q].pid = proc[q].pid
        /\ Mild(q)
        /\ proc'[q].state = "SLEEPING" => proc'[q].chan = proc[q].chan

\* Nobody is born, dies or goes to sleep in wait().
Gentle ==
    \A q \in Slot :
        /\ proc'[q].parent = proc[q].parent
        /\ proc'[q].pid = proc[q].pid
        /\ proc'[q].state \in Dead \/ proc[q].state \in Dead => proc'[q].state = proc[q].state
        /\ proc'[q].state = "SLEEPING" =>
              \/ proc'[q].chan # q
              \/ proc[q].state = "SLEEPING" /\ proc'[q].chan = proc[q].chan

\* A frame that is not one of fork().
Plain(f) == f.at \notin {"fork", "fork_stack", "fork_copy"}

\* The stack of p becomes t, which has no new frame of fork().
Moves(p, t) ==
    /\ stack' = [stack EXCEPT ![p] = t]
    /\ t # <<>> => \/ stack[p] # <<>> /\ t[1] = stack[p][1]
                   \/ Plain(t[1])

\* The parts of the invariant that a step by cases has to keep, but for Types.
Rest == /\ stack \in [Slot -> Stacks] /\ Parked /\ Interrupted
        /\ Allocated /\ Lineage /\ PidsLeft /\ OneCpu /\ NoLostExit

\* No fork() starts and no slot leaves the state EMBRYO.
LEMMA ForksKept ==
    ASSUME MInv, nextpid' = nextpid,
           \A q \in Slot : proc[q].state = "EMBRYO" => proc'[q].state = "EMBRYO",
           \A q \in Slot : stack'[q] # <<>> =>
               \/ stack[q] # <<>> /\ stack'[q][1] = stack[q][1]
               \/ Plain(stack'[q][1])
    PROVE  Allocated' /\ PidsLeft'
<1>1. \A q, np \in Slot : Allocates(q, np)' => Allocates(q, np)
  BY DEF Allocates, Plain
<1>2. Allocated'
  BY <1>1 DEF MInv, Allocated
<1>3. Forking' \subseteq Forking /\ Forking \subseteq Slot
  BY DEF Forking, Plain
<1>4. IsFiniteSet(Slot) /\ IsFiniteSet(Forking)
  BY <1>3, SlotFinite, FS_Subset
<1>5. Cardinality(Forking') <= Cardinality(Forking) /\ IsFiniteSet(Forking')
  BY <1>3, <1>4, FS_Subset
<1>6. Cardinality(Forking') \in Nat /\ Cardinality(Forking) \in Nat
  BY <1>4, <1>5, FS_CardinalityType
<1>7. nextpid \in Nat
  BY MlfqAssumption DEF MInv, Types
<1>8. PidsLeft'
  BY <1>5, <1>6, <1>7, MlfqAssumption DEF MInv, PidsLeft
<1> QED
  BY <1>2, <1>8

LEMMA FamilyKept ==
    ASSUME MInv, Gentle
    PROVE  Lineage' /\ NoLostExit'
<1>1. Lineage'
  BY Names DEF MInv, Lineage, Gentle, Dead
<1>2. NoLostExit'
  BY DEF MInv, NoLostExit, Gentle, Dead, Children, Zombies
<1> QED
  BY <1>1, <1>2

LEMMA TameIsGentle == Tame => Gentle
BY DEF Tame, Gentle, Mild, Dead

\* The code of p on CPU c makes a step and stays on the CPU.
LEMMA MoveStep ==
    ASSUME MInv, NEW c \in CPU, NEW p \in Slot, cpu[c] = p, irq[c] = "none",
           NEW t \in Stacks, stack' = [stack EXCEPT ![p] = t], UNCHANGED <<cpu, irq>>,
           \/ ptlock' = ptlock /\ ptlock # c
           \/ ptlock' = NONE
           \/ ptlock' = ptlock /\ t # <<>> /\ Last(t).at = "wait",
           \A q \in Slot : Mild(q) \/ {proc[q].state, proc'[q].state} \subseteq Dead
    PROVE  stack' \in [Slot -> Stacks] /\ Parked' /\ Interrupted' /\ OneCpu'
<1>1. /\ stack' \in [Slot -> Stacks] /\ stack'[p] = t
      /\ \A q \in Slot : q # p => stack'[q] = stack[q]
  BY DEF MInv
<1>2. proc[p].state = "RUNNING" /\ \A d \in CPU : d # c => cpu[d] # p
  BY Names DEF MInv, OneCpu
<1>3. \A d \in CPU : cpu[d] \in Slot \cup {NONE}
  BY DEF MInv, Types
<1>4. Parked'
  <2>1. ASSUME NEW q \in Slot
        PROVE  /\ proc'[q].state \in {"UNUSED", "EMBRYO", "ZOMBIE"} => stack'[q] = <<>>
               /\ proc'[q].state \in {"RUNNABLE", "SLEEPING"} => stack'[q] # <<>> /\ Top(q)'.at \in Resumable
    <3>1. CASE q = p
      BY <1>2, <3>1 DEF Mild, Dead
    <3>2. CASE q # p
      BY <1>1, <3>2 DEF MInv, Parked, Top, Mild, Dead
    <3> QED
      BY <3>1, <3>2
  <2>2. ASSUME NEW d \in CPU, ptlock' = d, cpu'[d] # NONE
        PROVE  stack'[cpu'[d]] # <<>> /\ Top(cpu[d])'.at \in Resumable \cup {"wait"}
    <3>1. ptlock' = ptlock /\ cpu'[d] = cpu[d] /\ cpu[d] \in Slot
      BY <1>3, <2>2, Names
    <3>2. CASE d = c
      BY <1>1, <2>2, <3>1, <3>2, Names DEF Top
    <3>3. CASE d # c
      BY <1>1, <1>2, <2>2, <3>1, <3>3 DEF MInv, Parked, Top
    <3> QED
      BY <3>2, <3>3
  <2> QED
    BY <2>1, <2>2 DEF Parked, Top
<1>5. Interrupted'
  <2> SUFFICES ASSUME NEW d \in CPU, irq'[d] # "none"
               PROVE  /\ ptlock' # d
                      /\ cpu'[d] # NONE /\ stack'[cpu'[d]] # <<>> => ~Top(cpu[d])'.irq
    BY DEF Interrupted, Top
  <2>1. d # c /\ cpu[d] # p /\ ptlock # d /\ cpu'[d] = cpu[d]
    BY <1>2 DEF MInv, Interrupted
  <2>2. ptlock' # d
    BY <2>1, Names
  <2>3. ASSUME cpu[d] # NONE, stack'[cpu[d]] # <<>> PROVE ~Top(cpu[d])'.irq
    <3>1. cpu[d] \in Slot /\ stack'[cpu[d]] = stack[cpu[d]]
      BY <1>1, <1>3, <2>1, <2>3
    <3>2. Top(cpu[d])' = Top(cpu[d])
      BY <3>1, <2>1 DEF Top
    <3> QED
      BY <2>3, <3>1, <3>2, Zenon DEF MInv, Interrupted
  <2> QED
    BY <2>1, <2>2, <2>3
<1>6. OneCpu'
  <2>1. \A q \in Slot : proc'[q].state = "RUNNING" <=> proc[q].state = "RUNNING"
    BY DEF Mild, Dead
  <2> QED
    BY <2>1 DEF MInv, OneCpu
<1> QED
  BY <1>1, <1>4, <1>5, <1>6
\* ... without touching the table but to wake somebody.
LEMMA PlainStep ==
    ASSUME MInv, NEW c \in CPU, NEW p \in Slot, cpu[c] = p, irq[c] = "none",
           NEW t \in Stacks, Moves(p, t), UNCHANGED <<cpu, irq, nextpid>>,
           \/ ptlock' = ptlock /\ ptlock # c
           \/ ptlock' = NONE
           \/ ptlock' = ptlock /\ t # <<>> /\ Last(t).at = "wait",
           Tame
    PROVE  Rest'
<1>1. stack' = [stack EXCEPT ![p] = t]
  BY DEF Moves
<1>2. stack' \in [Slot -> Stacks] /\ Parked' /\ Interrupted' /\ OneCpu'
  <2>1. \A q \in Slot : Mild(q) \/ {proc[q].state, proc'[q].state} \subseteq Dead
    BY DEF Tame
  <2> QED
    BY <1>1, <2>1, MoveStep
<1>3. Allocated' /\ PidsLeft'
  <2>1. \A q \in Slot : stack'[q] # <<>> =>
            \/ stack[q] # <<>> /\ stack'[q][1] = stack[q][1]
            \/ Plain(stack'[q][1])
    <3> SUFFICES ASSUME NEW q \in Slot, stack'[q] # <<>>
                 PROVE  \/ stack[q] # <<>> /\ stack'[q][1] = stack[q][1]
                        \/ Plain(stack'[q][1])
      OBVIOUS
    <3>1. CASE q = p
      <4>1. stack'[p] = t
        BY <1>1 DEF MInv
      <4> QED
        BY <3>1, <4>1 DEF Moves
    <3>2. CASE q # p
      BY <1>1, <3>2 DEF MInv
    <3> QED
      BY <3>1, <3>2
  <2>2. \A q \in Slot : proc[q].state = "EMBRYO" => proc'[q].state = "EMBRYO"
    BY DEF Tame, Mild
  <2> QED
    BY <2>1, <2>2, ForksKept
<1> QED
  BY <1>2, <1>3, TameIsGentle, FamilyKept DEF Rest

\* The top frame of p goes on to other code, outside ptable.lock.
LEMMA GotoStep ==
    ASSUME MInv, NEW c \in CPU, NEW p \in Slot, NEW at, At(c, p, at),
           at \notin Resumable \cup {"wait"} \/ ptlock' = NONE,
           NEW to \in Code, NEW v, NEW w, stack' = Goto(p, to, v, w),
           Frame(to, v, w, Top(p).irq) \in Frames, to \notin {"fork", "fork_stack", "fork_copy"},
           UNCHANGED <<cpu, irq, nextpid>>, ptlock' = ptlock \/ ptlock' = NONE, Tame
    PROVE  Rest'
<1>1. cpu[c] = p /\ irq[c] = "none" /\ stack[p] # <<>> /\ (at \notin Resumable \cup {"wait"} => ptlock # c)
  BY AtFacts
<1>2. PICK t \in Stacks : /\ Goto(p, to, v, w) = [stack EXCEPT ![p] = t]
                          /\ t # <<>> /\ Last(t) = Frame(to, v, w, Top(p).irq)
                          /\ t[1] = stack[p][1] \/ (Len(t) = 1 /\ t[1] = Last(t))
  BY <1>1, GotoFacts DEF MInv
<1>3. Moves(p, t)
  BY <1>1, <1>2 DEF Moves, Plain, Frame
<1> QED
  BY <1>1, <1>3, PlainStep

\* p is switched away from CPU c, which keeps ptable.lock.
LEMMA SchedStep ==
    ASSUME MInv, NEW c \in CPU, NEW p \in Slot, cpu[c] = p, irq[c] = "none", Sched(c), UNCHANGED irq,
           NEW t \in Stacks, stack' = [stack EXCEPT ![p] = t], ptlock \in {NONE, c},
           \/ proc'[p].state \in {"RUNNABLE", "SLEEPING"} /\ t # <<>> /\ Last(t).at \in Resumable
           \/ proc'[p].state = "ZOMBIE" /\ t = <<>>,
           \A q \in Slot : q # p => Mild(q)
    PROVE  stack' \in [Slot -> Stacks] /\ Parked' /\ Interrupted' /\ OneCpu'
<1>1. /\ stack' \in [Slot -> Stacks] /\ stack'[p] = t
      /\ \A q \in Slot : q # p => stack'[q] = stack[q]
  BY DEF MInv
<1>2. proc[p].state = "RUNNING" /\ \A d \in CPU : d # c => cpu[d] # p
  BY Names DEF MInv, OneCpu
<1>3. /\ \A d \in CPU : cpu[d] \in Slot \cup {NONE}
      /\ ptlock' = c /\ cpu'[c] = NONE /\ \A d \in CPU : d # c => cpu'[d] = cpu[d]
  BY DEF MInv, Types, Sched
<1>4. Parked'
  <2>1. ASSUME NEW q \in Slot
        PROVE  /\ proc'[q].state \in {"UNUSED", "EMBRYO", "ZOMBIE"} => stack'[q] = <<>>
               /\ proc'[q].state \in {"RUNNABLE", "SLEEPING"} => stack'[q] # <<>> /\ Top(q)'.at \in Resumable
    <3>1. CASE q = p
      BY <1>1, <3>1 DEF Top
    <3>2. CASE q # p
      BY <1>1, <3>2 DEF MInv, Parked, Top, Mild, Dead
    <3> QED
      BY <3>1, <3>2
  <2> QED
    BY <1>3, <2>1 DEF Parked
<1>5. Interrupted'
  <2> SUFFICES ASSUME NEW d \in CPU, irq'[d] # "none"
               PROVE  /\ ptlock' # d
                      /\ cpu'[d] # NONE /\ stack'[cpu'[d]] # <<>> => ~Last(stack'[cpu'[d]]).irq
    BY DEF Interrupted, Top
  <2>1. d # c /\ cpu[d] # p /\ cpu'[d] = cpu[d] /\ ptlock' # d
    BY <1>2, <1>3
  <2>2. ASSUME cpu[d] # NONE, stack'[cpu[d]] # <<>> PROVE ~Top(cpu[d])'.irq
    <3>1. cpu[d] \in Slot /\ stack'[cpu[d]] = stack[cpu[d]]
      BY <1>1, <1>3, <2>1, <2>2
    <3>2. Top(cpu[d])' = Top(cpu[d])
      BY <3>1, <2>1 DEF Top
    <3> QED
      BY <2>2, <3>1, <3>2, Zenon DEF MInv, Interrupted
  <2> QED
    BY <2>1, <2>2 DEF Top
<1>6. OneCpu'
  <2>1. \A q \in Slot : proc'[q].state = "RUNNING" <=> proc[q].state = "RUNNING" /\ q # p
    BY <1>2 DEF Mild
  <2>2. \A q \in Slot : (\E d \in CPU : cpu'[d] = q) <=> q # p /\ \E d \in CPU : cpu[d] = q
    BY <1>2, <1>3, Names
  <2>3. \A d, e \in CPU : cpu'[d] = cpu'[e] /\ cpu'[d] # NONE => d = e
    BY <1>3 DEF MInv, OneCpu
  <2> QED
    BY <2>1, <2>2, <2>3 DEF MInv, OneCpu
<1> QED
  BY <1>1, <1>4, <1>5, <1>6
\* The scheduler finds a process to run.
LEMMA RunnableFacts ==
    ASSUME Types, NEW l \in Level \cup {MOQ}, Runnable(l) # {}
    PROVE  /\ First(Runnable(l)) \in DOMAIN queue[l]
           /\ queue[l][First(Runnable(l))] \in Slot
           /\ proc[queue[l][First(Runnable(l))]].state = "RUNNABLE"
<1>1. queue[l] \in Seq(Slot)
  BY DEF Types
<1>2. DOMAIN queue[l] = 1 .. Len(queue[l]) /\ Len(queue[l]) \in Nat
  BY <1>1, LenProperties
<1>3. Runnable(l) \in SUBSET Nat
  BY <1>2 DEF Runnable
<1>4. First(Runnable(l)) \in Runnable(l)
  BY <1>3, FirstIn
<1>5. First(Runnable(l)) \in 1 .. Len(queue[l])
  BY <1>2, <1>4 DEF Runnable
<1> QED
  BY <1>1, <1>2, <1>4, <1>5, ElementOfSeq DEF Runnable

\* levelSchedule(): CPU c switches to a process that no CPU runs.
LEMMA SwitchStep ==
    ASSUME MInv, NEW c \in CPU, NEW l \in Level \cup {MOQ}, cpu[c] = NONE, irq[c] = "none",
           ptlock \in {NONE, c}, levelSchedule(c, l), UNCHANGED <<nextpid, irq, stack>>
    PROVE  /\ Rest'
           /\ \E p \in Slot : proc' = [proc EXCEPT ![p].state = "RUNNING"] /\ cpu' = [cpu EXCEPT ![c] = p]
<1> DEFINE p == queue[l][First(Runnable(l))]
<1>1. p \in Slot /\ proc[p].state = "RUNNABLE"
  BY RunnableFacts DEF levelSchedule, MInv
<1>2. proc' = [proc EXCEPT ![p].state = "RUNNING"] /\ cpu' = [cpu EXCEPT ![c] = p] /\ ptlock' = c
  BY DEF levelSchedule
<1> HIDE DEF p
<1>3. /\ \A d \in CPU : cpu[d] \in Slot \cup {NONE} /\ cpu[d] # p
      /\ cpu'[c] = p /\ \A d \in CPU : d # c => cpu'[d] = cpu[d]
  BY <1>1, <1>2 DEF MInv, Types, OneCpu
<1>4. /\ proc'[p] = [proc[p] EXCEPT !.state = "RUNNING"]
      /\ \A q \in Slot : q # p => proc'[q] = proc[q]
  BY <1>1, <1>2 DEF MInv, Types
<1>5. /\ proc'[p].state = "RUNNING" /\ proc'[p].parent = proc[p].parent
      /\ proc'[p].pid = proc[p].pid
  BY <1>1, <1>4 DEF MInv, Types
<1>6. Parked'
  BY <1>1, <1>2, <1>3, <1>4, <1>5, Names DEF MInv, Parked, Top
<1>7. Interrupted'
  BY <1>2, <1>3 DEF MInv, Interrupted, Top
<1>8. OneCpu'
  <2>1. \A d, e \in CPU : cpu'[d] = cpu'[e] /\ cpu'[d] # NONE => d = e
    BY <1>3 DEF MInv, OneCpu
  <2>2. \A q \in Slot : (\E d \in CPU : cpu'[d] = q) <=> q = p \/ \E d \in CPU : cpu[d] = q
    BY <1>3, Names
  <2>3. \A q \in Slot : proc'[q].state = "RUNNING" <=> q = p \/ proc[q].state = "RUNNING"
    BY <1>4, <1>5
  <2> QED
    BY <2>1, <2>2, <2>3 DEF MInv, OneCpu
<1>9. Lineage' /\ NoLostExit'
  <2>1. Gentle
    BY <1>1, <1>4, <1>5 DEF Gentle, Dead
  <2> QED
    BY <2>1, FamilyKept
<1>10. Allocated' /\ PidsLeft'
  <2>1. \A q \in Slot : proc[q].state = "EMBRYO" => proc'[q].state = "EMBRYO"
    BY <1>1, <1>4
  <2> QED
    BY <2>1, ForksKept
<1> QED
  BY <1>1, <1>2, <1>6, <1>7, <1>8, <1>9, <1>10 DEF Rest, MInv

\* The other steps of an idle CPU.
LEMMA IdleStep ==
    ASSUME MInv, NEW c \in CPU, cpu[c] = NONE, irq[c] = "none", ptlock' = ptlock \/ ptlock' = NONE,
           UNCHANGED <<proc, cpu, nextpid, irq, stack>>
    PROVE  Rest'
BY Names DEF MInv, Rest, Parked, Interrupted, Allocated, Allocates, Lineage, PidsLeft, Forking, OneCpu,
             NoLostExit, Children, Zombies, Top
\* The handler of a tick goes on to yield().
LEMMA PushStep ==
    ASSUME MInv, NEW c \in CPU, ptlock # c, EnterYield(c),
           cpu[c] # NONE /\ stack[cpu[c]] # <<>> => ~Top(cpu[c]).irq,
           irq' = [irq EXCEPT ![c] = "none"] \/ (irq' = irq /\ irq[c] = "none"),
           UNCHANGED <<cpu, ptlock, nextpid>>, Tame
    PROVE  Rest'
<1>1. \A d \in CPU : cpu[d] \in Slot \cup {NONE} /\ (d # c /\ cpu[d] # NONE => cpu[d] # cpu[c])
  BY DEF MInv, Types, OneCpu
<1>2. irq'[c] = "none" /\ \A d \in CPU : d # c => irq'[d] = irq[d]
  BY DEF MInv, Types
<1>3. Lineage' /\ NoLostExit'
  BY FamilyKept, TameIsGentle
<1>4. OneCpu'
  <2>1. \A q \in Slot : proc'[q].state = "RUNNING" <=> proc[q].state = "RUNNING"
    BY DEF Tame, Mild
  <2> QED
    BY <2>1 DEF MInv, OneCpu
<1>5. \A q \in Slot : proc[q].state = "EMBRYO" => proc'[q].state = "EMBRYO"
  BY DEF Tame, Mild
<1>6. CASE cpu[c] = NONE
  <2>1. stack' = stack
    BY <1>6 DEF EnterYield
  <2>2. Allocated' /\ PidsLeft'
    BY <1>5, <2>1, ForksKept
  <2>3. Parked'
    BY <2>1 DEF MInv, Parked, Top, Tame, Mild
  <2>4. Interrupted'
    BY <1>2, <2>1 DEF MInv, Interrupted, Top
  <2> QED
    BY <1>3, <1>4, <2>1, <2>2, <2>3, <2>4 DEF Rest, MInv
<1>7. CASE cpu[c] # NONE
  <2> DEFINE p == cpu[c]
             f == Frame("timer", 0, 0, TRUE)
             t == Append(stack[p], f)
  <2>1. p \in Slot /\ proc[p].state = "RUNNING"
    BY <1>1, <1>7 DEF MInv, OneCpu
  <2>2. stack' = [stack EXCEPT ![p] = t]
    BY <1>7 DEF EnterYield
  <2>3. f \in Frames /\ f.irq /\ f.at = "timer"
    BY TimerFrame
  <2>4. stack[p] \in Stacks /\ (stack[p] # <<>> => ~Last(stack[p]).irq)
    BY <1>7, <2>1, Zenon DEF MInv, Top
  <2> HIDE DEF f
  <2>5. t \in Stacks /\ t # <<>> /\ Last(t) = f
        /\ IF stack[p] = <<>> THEN t[1] = f ELSE t[1] = stack[p][1]
    BY <2>3, <2>4, PushFacts
  <2> HIDE DEF t, p
  <2>6. stack' \in [Slot -> Stacks] /\ stack'[p] = t /\ \A q \in Slot : q # p => stack'[q] = stack[q]
    BY <2>1, <2>2, <2>5 DEF MInv
  <2>7. Allocated' /\ PidsLeft'
    <3>1. \A q \in Slot : stack'[q] # <<>> =>
             \/ stack[q] # <<>> /\ stack'[q][1] = stack[q][1]
             \/ Plain(stack'[q][1])
      <4> SUFFICES ASSUME NEW q \in Slot, stack'[q] # <<>>
                   PROVE  \/ stack[q] # <<>> /\ stack'[q][1] = stack[q][1]
                          \/ Plain(stack'[q][1])
        OBVIOUS
      <4>1. CASE q = p
        BY <2>3, <2>5, <2>6, <4>1 DEF Plain
      <4>2. CASE q # p
        BY <2>6, <4>2
      <4> QED
        BY <4>1, <4>2
    <3> QED
      BY <1>5, <3>1, ForksKept
  <2>8. Parked'
    <3>1. \A q \in Slot : q # p =>
             /\ proc'[q].state \in Dead => stack'[q] = <<>>
             /\ proc'[q].state \in {"RUNNABLE", "SLEEPING"} => stack'[q] # <<>> /\ Top(q)'.at \in Resumable
      BY <2>6 DEF MInv, Parked, Top, Tame, Mild, Dead
    <3>2. proc'[p].state = "RUNNING"
      BY <2>1 DEF Tame, Mild
    <3>3. \A d \in CPU : ptlock' = d /\ cpu'[d] # NONE =>
             stack'[cpu[d]] # <<>> /\ Top(cpu[d])'.at \in Resumable \cup {"wait"}
      BY <1>1, <2>6 DEF MInv, Parked, Top, p
    <3> QED
      BY <3>1, <3>2, <3>3 DEF Parked, Dead, Top
  <2>9. Interrupted'
    <3> SUFFICES ASSUME NEW d \in CPU, irq'[d] # "none"
                 PROVE  /\ ptlock' # d
                        /\ cpu'[d] # NONE /\ stack'[cpu'[d]] # <<>> => ~Last(stack'[cpu'[d]]).irq
      BY DEF Interrupted, Top
    <3>1. d # c /\ irq[d] # "none" /\ cpu'[d] = cpu[d]
      BY <1>2
    <3>2. ASSUME cpu[d] # NONE, stack'[cpu[d]] # <<>> PROVE ~Last(stack'[cpu[d]]).irq
      <4>1. cpu[d] \in Slot /\ stack'[cpu[d]] = stack[cpu[d]]
        BY <1>1, <2>6, <3>1, <3>2 DEF p
      <4> QED
        BY <3>1, <3>2, <4>1, Zenon DEF MInv, Interrupted, Top
    <3>3. ptlock' # d
      BY <3>1 DEF MInv, Interrupted
    <3> QED
      BY <3>1, <3>2, <3>3
  <2> QED
    BY <1>3, <1>4, <2>6, <2>7, <2>8, <2>9 DEF Rest
<1> QED
  BY <1>6, <1>7

\* The tick interrupts a process in user mode or in a system call, or the
\* scheduler outside ptable.lock.
LEMMA TickStep ==
    ASSUME MInv, NEW c \in CPU, Interruptible(c), ptlock # c,
           UNCHANGED <<cpu, ptlock, stack, nextpid>>, irq' = [irq EXCEPT ![c] = "mode"], Tame
    PROVE  Rest'
<1>1. \A q \in Slot : proc'[q].state = "RUNNING" <=> proc[q].state = "RUNNING"
  BY DEF Tame, Mild
<1>2. \A q \in Slot : proc[q].state = "EMBRYO" => proc'[q].state = "EMBRYO"
  BY DEF Tame, Mild
<1>3. Allocated' /\ PidsLeft' /\ Lineage' /\ NoLostExit'
  BY <1>2, ForksKept, FamilyKept, TameIsGentle
<1>4. OneCpu'
  BY <1>1 DEF MInv, OneCpu
<1>5. Parked'
  BY DEF MInv, Parked, Top, Tame, Mild
<1>6. Interrupted'
  <2>1. cpu[c] # NONE /\ stack[cpu[c]] # <<>> => ~Top(cpu[c]).irq
    BY Zenon DEF Interruptible
  <2>2. \A d \in CPU : d # c => irq'[d] = irq[d]
    BY DEF MInv, Types
  <2>3. \A d \in CPU : Top(cpu[d])' = Top(cpu[d])
    BY DEF Top
  <2>4. \A d \in CPU : irq'[d] # "none" =>
            /\ ptlock # d
            /\ cpu[d] # NONE /\ stack[cpu[d]] # <<>> => ~Top(cpu[d]).irq
    BY <2>1, <2>2, Zenon DEF MInv, Interrupted
  <2> QED
    BY <2>3, <2>4 DEF Interrupted
<1> QED
  BY <1>3, <1>4, <1>5, <1>6 DEF Rest, MInv
\* GotoStep, from what the frame holds.
LEMMA Goes ==
    ASSUME MInv, NEW c \in CPU, NEW p \in Slot, NEW at, At(c, p, at),
           NEW to \in Code \ {"fork", "fork_stack", "fork_copy"}, NEW v \in Nat, NEW w \in Nat,
           to \in {"setmonopoly_remove", "setmonopoly_mark", "setmonopoly_append"} => v \in Slot,
           to = "setmonopoly_remove" => w \in Level \cup {MOQ},
           to = "slice" => v # 0,
           to \in IrqCode \/ at \notin IrqCode,
           stack' = Goto(p, to, v, w), UNCHANGED <<cpu, irq, nextpid>>,
           \/ ptlock' = ptlock /\ at \notin Resumable \cup {"wait"}
           \/ ptlock' = NONE,
           Tame
    PROVE  Rest'
<1>1. Top(p) \in Frames /\ Top(p).at = at
  BY AtFacts
<1>2. Frame(to, v, w, Top(p).irq) \in Frames
  BY <1>1, FrameIn
<1> QED
  BY <1>2, GotoStep

LEMMA Finishes ==
    ASSUME MInv, NEW c \in CPU, NEW p \in Slot, NEW at, At(c, p, at),
           stack' = Finish(p), UNCHANGED <<cpu, irq, nextpid>>,
           \/ ptlock' = ptlock /\ at \notin Resumable \cup {"wait"}
           \/ ptlock' = NONE,
           Tame
    PROVE  Rest'
<1>1. "ret" \in Code \ {"fork", "fork_stack", "fork_copy"} /\ "ret" \in IrqCode /\ 0 \in Nat
  BY DEF Code, IrqCode
<1>2. stack' = Goto(p, "ret", 0, 0)
  BY DEF Finish
<1> QED
  BY <1>1, <1>2, Goes

LEMMA Unchanged == ASSUME proc' = proc PROVE Tame
BY DEF Tame, Mild

\* The types, when only the kernel stacks change.
LEMMA StackOnly ==
    ASSUME MInv, Rest', UNCHANGED <<proc, queue, mode, ticks, nextpid, ptlock, cpu, sched, irq, fault>>
    PROVE  MInv'
BY DEF MInv, Rest, Types, Stacks

-------------------------------------------------------------------------------
(* The actions *)

\* Interrupt handling, the tests of yield() and of sleep(): only locals change.
LEMMA LocalStep ==
    ASSUME MInv, NEW c \in CPU, NEW p \in Slot,
           Timer(c, p) \/ Return(c, p) \/ YieldTest(c, p) \/ SleepStart(c, p) \/ SleepCheck(c, p)
    PROVE  MInv'
<1>1. UNCHANGED <<proc, queue, mode, ticks, nextpid, ptlock, cpu, sched, irq, fault>>
  BY DEF Timer, Return, YieldTest, SleepStart, SleepCheck
<1>2. Tame
  BY <1>1, Unchanged
<1>3. {"exit", "yield", "giveup", "requeue", "slice", "sleep_block"} \subseteq
         Code \ {"fork", "fork_stack", "fork_copy"} /\ 0 \in Nat
  BY DEF Code, IrqCode
<1>4. CASE Timer(c, p)
  <2>1. At(c, p, "timer") /\ (stack' = Goto(p, "exit", 0, 0) \/ stack' = Goto(p, "yield", 0, 0))
    BY <1>4 DEF Timer
  <2>2. Rest'
    BY <1>1, <1>2, <1>3, <2>1, Goes DEF IrqCode, Resumable
  <2> QED
    BY <1>1, <2>2, StackOnly
<1>5. CASE YieldTest(c, p)
  <2>1. At(c, p, "yield")
    BY <1>5 DEF YieldTest
  <2>2. proc[p].timeslice \in Nat
    BY DEF MInv, Types
  <2>3. CASE stack' = Goto(p, "giveup", 0, 0) \/ stack' = Goto(p, "requeue", 0, 0)
    <3>1. Rest'
      BY <1>1, <1>2, <1>3, <2>1, <2>3, Goes DEF IrqCode, Resumable
    <3> QED
      BY <1>1, <3>1, StackOnly
  <2>4. CASE proc[p].timeslice # 0 /\ stack' = Goto(p, "slice", proc[p].timeslice, 0)
    <3>1. Rest'
      BY <1>1, <1>2, <1>3, <2>1, <2>2, <2>4, Goes DEF IrqCode, Resumable
    <3> QED
      BY <1>1, <3>1, StackOnly
  <2> QED
    BY <1>5, <2>3, <2>4 DEF YieldTest
<1>6. CASE Return(c, p)
  <2>1. At(c, p, "ret")
    BY <1>6 DEF Return
  <2>2. CASE stack' = Goto(p, "exit", 0, 0)
    <3>1. Rest'
      BY <1>1, <1>2, <1>3, <2>1, <2>2, Goes DEF IrqCode, Resumable
    <3> QED
      BY <1>1, <3>1, StackOnly
  <2>3. CASE stack' = [stack EXCEPT ![p] = Front(@)]
    <3>1. stack[p] \in Stacks /\ stack[p] # <<>> /\ cpu[c] = p /\ irq[c] = "none" /\ ptlock # c
      BY <2>1, AtFacts DEF Resumable
    <3>2. Front(stack[p]) \in Stacks /\ Moves(p, Front(stack[p]))
      BY <2>3, <3>1, PopFacts DEF Moves
    <3>3. Rest'
      BY <1>1, <1>2, <3>1, <3>2, PlainStep
    <3> QED
      BY <1>1, <3>3, StackOnly
  <2> QED
    BY <1>6, <2>2, <2>3 DEF Return
<1>7. CASE SleepStart(c, p) \/ SleepCheck(c, p)
  <2>1. PICK at \in {"sleep", "sleep_check"} : At(c, p, at)
    BY <1>7 DEF SleepStart, SleepCheck
  <2>2. ticks \in Nat /\ Top(p).v \in Nat
    <3>1. ticks \in Nat
      BY MlfqAssumption DEF MInv, Types
    <3>2. Top(p) \in Frames
      BY <2>1, AtFacts
    <3> QED
      BY <3>1, <3>2 DEF Frames
  <2>3. \/ stack' = Finish(p)
        \/ stack' = Goto(p, "sleep_block", ticks, 0)
        \/ stack' = Goto(p, "sleep_block", Top(p).v, 0)
    BY <1>7 DEF SleepStart, SleepCheck
  <2>4. at \notin IrqCode /\ at \notin Resumable \cup {"wait"}
    BY DEF IrqCode, Resumable
  <2>5. Rest'
    BY <1>1, <1>2, <1>3, <2>1, <2>2, <2>3, <2>4, Goes, Finishes
  <2> QED
    BY <1>1, <2>5, StackOnly
<1> QED
  BY <1>4, <1>5, <1>6, <1>7
\* setmonopoly() looks for the process.
LEMMA FindStep ==
    ASSUME MInv, NEW c \in CPU, NEW p \in Slot, SetmonopolyFind(c, p)
    PROVE  MInv'
<1> DEFINE found == WithPid(Top(p).v)
           q == First(found)
<1>1. At(c, p, "setmonopoly") /\ UNCHANGED <<proc, queue, mode, ticks, nextpid, ptlock, cpu, sched, irq, fault>>
  BY DEF SetmonopolyFind
<1>2. Tame
  BY <1>1, Unchanged
<1>3. \/ stack' = Finish(p)
      \/ found # {} /\ stack' = Goto(p, "setmonopoly_remove", q, proc[q].qlevel)
  BY DEF SetmonopolyFind
<1>4. Rest'
  <2>1. "setmonopoly" \notin Resumable \cup {"wait"} /\ "setmonopoly" \notin IrqCode
        /\ "setmonopoly_remove" \in Code \ {"fork", "fork_stack", "fork_copy"}
    BY DEF Resumable, IrqCode, Code
  <2>2. CASE stack' = Finish(p)
    BY <1>1, <1>2, <2>1, <2>2, Finishes
  <2>3. CASE found # {} /\ stack' = Goto(p, "setmonopoly_remove", q, proc[q].qlevel)
    <3>1. q \in Slot /\ q \in Nat
      BY <2>3, FirstIn, Names DEF WithPid
    <3>2. proc[q].qlevel \in Level \cup {MOQ} /\ proc[q].qlevel \in Nat
      BY <3>1 DEF MInv, Types, Level, MOQ
    <3> QED
      BY <1>1, <1>2, <2>1, <2>3, <3>1, <3>2, Goes
  <2> QED
    BY <1>3, <2>2, <2>3
<1> QED
  BY <1>1, <1>4, StackOnly

\* The frame of a system call, or of a new process.
LEMMA CallFrame ==
    ASSUME NEW at \in SystemCalls \cup {"forkret"}, NEW v \in Nat
    PROVE  /\ <<Frame(at, v, 0, FALSE)>> \in Stacks
           /\ <<Frame(at, v, 0, FALSE)>> # <<>>
           /\ Last(<<Frame(at, v, 0, FALSE)>>).at = at
           /\ <<Frame(at, v, 0, FALSE)>>[1].at = at
<1>1. ASSUME NEW w \in Nat, NEW i \in BOOLEAN, i = FALSE
      PROVE  Frame(at, v, w, i) \in Frames /\ Frame(at, v, w, i).at = at
  <2> DEFINE f == Frame(at, v, w, i)
  <2>1. at \in Code
    BY DEF Code, Resumable
  <2>2. /\ f \in [at : Code, v : Nat, w : Nat, irq : BOOLEAN]
        /\ f.at = at /\ f.irq = i
    BY <2>1 DEF Frame
  <2> HIDE DEF f
  <2> QED
    BY <1>1, <2>2 DEF Frames, SystemCalls, f
<1>2. 0 \in Nat
  OBVIOUS
<1>3. FALSE \in BOOLEAN
  OBVIOUS
<1>4. Frame(at, v, 0, FALSE) \in Frames /\ Frame(at, v, 0, FALSE).at = at
  BY <1>1, <1>2, <1>3, Zenon
<1>5. ASSUME NEW f \in Frames
      PROVE  <<f>> \in Stacks /\ <<f>> # <<>> /\ Last(<<f>>) = f /\ <<f>>[1] = f
  <2>1. <<f>> \in Seq(Frames) /\ Len(<<f>>) = 1 /\ <<f>>[1] = f /\ <<f>> # <<>>
    OBVIOUS
  <2> QED
    BY <2>1 DEF Stacks, Last
<1> QED
  BY <1>4, <1>5, Zenon

\* A program makes a system call.
LEMMA SyscallStep ==
    ASSUME MInv, NEW c \in CPU, NEW p \in Slot, Syscall(c, p)
    PROVE  MInv'
<1>1. /\ cpu[c] = p /\ irq[c] = "none" /\ ptlock # c /\ stack[p] = <<>>
      /\ UNCHANGED <<proc, queue, mode, ticks, nextpid, ptlock, cpu, sched, irq, fault>>
  BY DEF Syscall, Runs
<1>2. Tame
  BY <1>1, Unchanged
<1>3. PICK call \in SystemCalls, n \in Nat :
         /\ stack' = [stack EXCEPT ![p] = <<Frame(call, n, 0, FALSE)>>]
         /\ call = "fork" => nextpid + Cardinality(Forking) <= MaxPid
  <2>1. CASE stack' = [stack EXCEPT ![p] = <<Frame("exit", 0, 0, FALSE)>>]
    <3>1. "exit" \in SystemCalls /\ "exit" # "fork" /\ 0 \in Nat
      BY DEF SystemCalls
    <3> QED
      BY <2>1, <3>1, Zenon
  <2>2. CASE ~(stack' = [stack EXCEPT ![p] = <<Frame("exit", 0, 0, FALSE)>>])
    <3>1. PICK call \in Calls[proc[p].pid] :
             /\ call = "fork" => nextpid + Cardinality(Forking) <= MaxPid
             /\ \E n \in IF call \in {"kill", "setpriority", "setmonopoly"} THEN PidArgs ELSE {0} :
                   stack' = [stack EXCEPT ![p] = <<Frame(call, n, 0, FALSE)>>]
      BY <2>2, Zenon DEF Syscall
    <3>2. PICK n \in IF call \in {"kill", "setpriority", "setmonopoly"} THEN PidArgs ELSE {0} :
             stack' = [stack EXCEPT ![p] = <<Frame(call, n, 0, FALSE)>>]
      BY <3>1
    <3>3. n \in Nat
      BY MlfqAssumption
    <3>4. proc[p].state = "RUNNING"
      BY <1>1 DEF MInv, OneCpu
    <3>5. proc[p].pid \in 1 .. MaxPid
      BY <3>4, MlfqAssumption DEF MInv, Types, Lineage
    <3>6. call \in SystemCalls
      BY <3>5, MlfqAssumption
    <3> QED
      BY <3>1, <3>2, <3>3, <3>6
  <2> QED
    BY <2>1, <2>2
<1> DEFINE t == <<Frame(call, n, 0, FALSE)>>
<1>4. t \in Stacks /\ t # <<>> /\ t[1].at = call
  BY <1>3, CallFrame
<1> HIDE DEF t
<1>5. stack' = [stack EXCEPT ![p] = t]
  BY <1>3 DEF t
<1>6. CASE call # "fork"
  <2>1. call \notin {"fork", "fork_stack", "fork_copy"}
    BY <1>6 DEF SystemCalls
  <2>2. Rest'
    BY <1>1, <1>2, <1>4, <1>5, <2>1, PlainStep DEF Moves, Plain
  <2> QED
    BY <1>1, <2>2, StackOnly
<1>7. CASE call = "fork"
  <2>1. stack' \in [Slot -> Stacks] /\ stack'[p] = t /\ \A q \in Slot : q # p => stack'[q] = stack[q]
    BY <1>4, <1>5 DEF MInv
  <2>2. Parked' /\ Interrupted' /\ OneCpu'
    BY <1>1, <1>4, <1>5, MoveStep DEF Mild
  <2>3. Forking' = Forking \cup {p} /\ p \notin Forking /\ Forking \subseteq Slot
    BY <1>1, <1>4, <1>7, <2>1 DEF Forking
  <2>4. IsFiniteSet(Forking)
    BY <2>3, SlotFinite, FS_Subset
  <2>5. Cardinality(Forking') = Cardinality(Forking) + 1 /\ Cardinality(Forking) \in Nat
    BY <2>3, <2>4, FS_AddElement, FS_CardinalityType
  <2>6. nextpid \in Nat
    BY MlfqAssumption DEF MInv, Types
  <2>7. PidsLeft'
    BY <1>1, <1>3, <1>7, <2>5, <2>6, MlfqAssumption DEF PidsLeft
  <2>8. Allocated'
    <3>1. \A q, np \in Slot : Allocates(q, np)' => Allocates(q, np)
      BY <1>4, <1>7, <2>1 DEF Allocates
    <3> QED
      BY <1>1, <3>1 DEF MInv, Allocated
  <2>9. Rest'
    BY <1>2, <2>1, <2>2, <2>7, <2>8, TameIsGentle, FamilyKept DEF Rest
  <2> QED
    BY <1>1, <2>9, StackOnly
<1> QED
  BY <1>6, <1>7
\* The frame of a system call is the only one while it is on top.
LEMMA CallTop ==
    ASSUME MInv, NEW c \in CPU, NEW p \in Slot, NEW at \in Code \ IrqCode, At(c, p, at)
    PROVE  Len(stack[p]) = 1 /\ stack[p][1] = Top(p) /\ stack[p][1].at = at
<1>1. stack[p] \in Stacks /\ stack[p] # <<>> /\ Top(p) \in Frames /\ Top(p).at = at
  BY AtFacts
<1>2. Len(stack[p]) \in {1, 2} /\ (Len(stack[p]) = 1 => Last(stack[p]) = stack[p][1])
  BY <1>1, StackFacts
<1>3. ~Top(p).irq
  BY <1>1 DEF Frames
<1>4. Len(stack[p]) # 2
  BY <1>1, <1>3, Zenon DEF Stacks, Top
<1> QED
  BY <1>1, <1>2, <1>4 DEF Top

\* The type of a slot, and of a slot with some of its fields changed.
Procs == [state : States, pid : 0 .. MaxPid, parent : Slot \cup {NONE},
          chan : Slot \cup {NONE, TICKS}, killed : BOOLEAN,
          qlevel : Level \cup {MOQ}, priority : 0 .. 10, timeslice : Nat]

LEMMA TableFacts == MInv => proc \in [Slot -> Procs]
BY DEF MInv, Types, Procs

LEMMA Updated ==
    ASSUME NEW r \in Procs
    PROVE  /\ \A s \in States : [r EXCEPT !.state = s] \in Procs
           /\ \A s \in States, n \in 0 .. MaxPid : [r EXCEPT !.state = s, !.pid = n] \in Procs
           /\ \A q \in Slot \cup {NONE} : [r EXCEPT !.parent = q] \in Procs
           /\ \A s \in States, q \in Slot \cup {NONE} : [r EXCEPT !.parent = q, !.state = s] \in Procs
           /\ \A ch \in Slot \cup {NONE, TICKS} : [r EXCEPT !.chan = ch] \in Procs
           /\ \A s \in States, ch \in Slot \cup {NONE, TICKS} :
                 [r EXCEPT !.chan = ch, !.state = s] \in Procs
           /\ \A l \in Level \cup {MOQ} : [r EXCEPT !.qlevel = l] \in Procs
           /\ \A pr \in 0 .. 10 : [r EXCEPT !.priority = pr] \in Procs
           /\ \A ts \in Nat : [r EXCEPT !.timeslice = ts] \in Procs
           /\ \A ts \in Nat, l \in Level \cup {MOQ} : [r EXCEPT !.timeslice = ts, !.qlevel = l] \in Procs
           /\ \A l \in Level \cup {MOQ}, pr \in 0 .. 10, ts \in Nat :
                 [r EXCEPT !.qlevel = l, !.priority = pr, !.timeslice = ts] \in Procs
           /\ \A l \in Level \cup {MOQ}, pr \in 0 .. 10, ts \in Nat, s \in States :
                 [r EXCEPT !.qlevel = l, !.timeslice = ts, !.priority = pr, !.state = s] \in Procs
           /\ \A k \in BOOLEAN, s \in States : [r EXCEPT !.killed = k, !.state = s] \in Procs
           /\ \A n \in 0 .. MaxPid, q \in Slot \cup {NONE}, k \in BOOLEAN, s \in States :
                 [r EXCEPT !.pid = n, !.parent = q, !.killed = k, !.state = s] \in Procs
BY ZenonT(40) DEF Procs

\* fork(): a slot is allocated.
LEMMA ForkAllocStep ==
    ASSUME MInv, NEW c \in CPU, NEW p \in Slot, ForkAlloc(c, p)
    PROVE  MInv'
<1>1. /\ At(c, p, "fork") /\ ptlock = NONE
      /\ UNCHANGED <<queue, mode, ticks, ptlock, cpu, sched, irq, fault>>
  BY DEF ForkAlloc
<1>2. "fork" \notin Resumable \cup {"wait"} /\ "fork" \in Code \ IrqCode
      /\ "fork_stack" \in Code
  BY DEF Resumable, IrqCode, Code, SystemCalls
<1>3. CASE UnusedSlots = {}
  <2>1. stack' = Finish(p) /\ UNCHANGED <<proc, nextpid>>
    BY <1>3 DEF ForkAlloc
  <2>2. Rest'
    BY <1>1, <1>2, <2>1, Unchanged, Finishes
  <2> QED
    BY <1>1, <2>1, <2>2, StackOnly
<1>4. CASE UnusedSlots # {}
  <2> DEFINE np == First(UnusedSlots)
  <2>1. np \in Slot /\ proc[np].state = "UNUSED" /\ np \in Nat
    BY <1>4, FirstIn, Names DEF UnusedSlots
  <2>2. /\ proc' = [proc EXCEPT ![np].state = "EMBRYO", ![np].pid = nextpid]
        /\ stack' = Goto(p, "fork_stack", np, 0) /\ nextpid' = nextpid + 1
    BY <1>4 DEF ForkAlloc
  <2> HIDE DEF np
  <2>3. /\ cpu[c] = p /\ irq[c] = "none" /\ ptlock # c /\ proc[p].state = "RUNNING"
        /\ Top(p) \in Frames /\ Top(p).at = "fork" /\ stack[p] # <<>>
    BY <1>1, <1>2, AtFacts
  <2>4. Len(stack[p]) = 1 /\ stack[p][1].at = "fork"
    BY <1>1, <1>2, CallTop
  <2>5. /\ Frame("fork_stack", np, 0, Top(p).irq) \in Frames
        /\ Frame("fork_stack", np, 0, Top(p).irq).at = "fork_stack"
        /\ Frame("fork_stack", np, 0, Top(p).irq).v = np
    <3>1. 0 \in Nat
      OBVIOUS
    <3> QED
      BY <1>2, <2>1, <2>3, <3>1, FrameIn
  <2>6. PICK t \in Stacks : /\ stack' = [stack EXCEPT ![p] = t] /\ t # <<>> /\ Len(t) = 1
                            /\ Last(t) = Frame("fork_stack", np, 0, Top(p).irq)
    BY <1>2, <2>2, <2>3, <2>4, <2>5, GotoFacts DEF MInv
  <2>7. t[1].at = "fork_stack" /\ t[1].v = np
    BY <2>5, <2>6, StackFacts
  <2>8. stack' \in [Slot -> Stacks] /\ stack'[p] = t /\ \A q \in Slot : q # p => stack'[q] = stack[q]
    BY <2>6 DEF MInv
  <2>9. /\ proc'[np] = [proc[np] EXCEPT !.state = "EMBRYO", !.pid = nextpid]
        /\ \A q \in Slot : q # np => proc'[q] = proc[q]
    BY <2>1, <2>2 DEF MInv, Types
  <2>10. proc'[np].state = "EMBRYO" /\ proc'[np].pid = nextpid /\ proc'[np].parent = proc[np].parent
    BY <2>1, <2>9 DEF MInv, Types
  <2>11. Parked' /\ Interrupted' /\ OneCpu'
    <3>1. \A q \in Slot : Mild(q) \/ {proc[q].state, proc'[q].state} \subseteq Dead
      BY <2>1, <2>9, <2>10 DEF Mild, Dead
    <3> QED
      BY <1>1, <2>3, <2>6, <3>1, MoveStep
  <2>12. nextpid \in Nat /\ nextpid <= MaxPid /\ nextpid # 0 /\ PidsLeft'
    <3>1. Forking' = Forking \ {p} /\ p \in Forking /\ Forking \subseteq Slot
      BY <2>3, <2>4, <2>7, <2>8 DEF Forking
    <3>2. IsFiniteSet(Forking)
      BY <3>1, SlotFinite, FS_Subset
    <3>3. Cardinality(Forking') = Cardinality(Forking) - 1 /\ Cardinality(Forking) \in Nat
      BY <3>1, <3>2, FS_RemoveElement, FS_CardinalityType
    <3>4. IsFiniteSet(Forking') /\ Cardinality(Forking') \in Nat
      BY <3>1, <3>2, FS_RemoveElement, FS_CardinalityType
    <3>5. nextpid \in Nat /\ nextpid # 0
      BY MlfqAssumption DEF MInv, Types
    <3>6. nextpid + Cardinality(Forking) <= MaxPid + 1
      BY DEF MInv, PidsLeft
    <3>7. nextpid <= MaxPid
      BY <3>3, <3>4, <3>5, <3>6, MlfqAssumption
    <3> QED
      BY <2>2, <3>3, <3>5, <3>6, <3>7, MlfqAssumption DEF PidsLeft
  <2>13. Allocated'
    <3>1. \A q, n \in Slot : Allocates(q, n)' => (q = p /\ n = np) \/ (q # p /\ Allocates(q, n))
      BY <2>7, <2>8 DEF Allocates
    <3>2. \A q, n \in Slot : Allocates(q, n) => n # np /\ proc[n].state = "EMBRYO"
      BY <2>1 DEF MInv, Allocated
    <3> QED
      BY <2>9, <2>10, <3>1, <3>2 DEF MInv, Allocated
  <2>14. Lineage'
    <3>1. initproc # np /\ proc[np].parent = NONE
      BY <2>1, Names DEF MInv, Lineage
    <3>2. ASSUME NEW q \in Slot
          PROVE  /\ proc'[q].state \in {"UNUSED", "EMBRYO"} => proc'[q].parent = NONE
                 /\ proc'[q].state # "UNUSED" => proc'[q].pid # 0
                 /\ proc'[q].parent # q
      <4>1. CASE q = np
        BY <2>10, <2>12, <3>1, <4>1, Names
      <4>2. CASE q # np
        BY <2>9, <4>2 DEF MInv, Lineage
      <4> QED
        BY <4>1, <4>2
    <3>3. proc'[initproc] = proc[initproc]
      BY <2>9, <3>1, Names
    <3> QED
      BY <3>2, <3>3 DEF MInv, Lineage
  <2>15. NoLostExit'
    <3>1. \A x \in Slot : /\ proc'[x].parent = proc[x].parent
                          /\ proc'[x].state = "ZOMBIE" <=> proc[x].state = "ZOMBIE"
      BY <2>1, <2>9, <2>10
    <3>2. \A q \in Slot : Children(q)' = Children(q) /\ Zombies(q)' = Zombies(q)
      BY <3>1 DEF Children, Zombies
    <3> QED
      BY <2>9, <2>10, <3>2 DEF MInv, NoLostExit
  <2>16. Types'
    <3>1. proc' \in [Slot -> Procs]
      <4>1. nextpid \in 0 .. MaxPid /\ "EMBRYO" \in States
        BY <2>12, MlfqAssumption DEF States
      <4>2. [proc[np] EXCEPT !.state = "EMBRYO", !.pid = nextpid] \in Procs
        BY <2>1, <4>1, TableFacts, Updated
      <4> QED
        BY <2>1, <2>2, <4>2, TableFacts
    <3>2. nextpid' \in 2 .. MaxPid + 1
      BY <2>2, <2>12, MlfqAssumption, SMTT(40) DEF MInv, Types
    <3> QED
      BY <1>1, <2>8, <3>1, <3>2 DEF MInv, Types, Procs, Stacks
  <2> QED
    BY <2>8, <2>11, <2>12, <2>13, <2>14, <2>15, <2>16 DEF MInv
<1> QED
  BY <1>3, <1>4

-------------------------------------------------------------------------------
(* The actions that change the table or the queues *)

\* The five arrays.
Queues ==
    /\ DOMAIN queue = Level \cup {MOQ}
    /\ \A l \in DOMAIN queue : queue[l] \in Seq(Slot) /\ Len(queue[l]) <= NPROC

LEMMA TableStep ==
    ASSUME MInv, Rest', proc' \in [Slot -> Procs], ptlock' \in CPU \cup {NONE},
           cpu' \in [CPU -> Slot \cup {NONE}], Queues', mode' \in {0, 1},
           UNCHANGED <<ticks, nextpid, sched, irq, fault>>
    PROVE  MInv'
BY DEF MInv, Rest, Types, Stacks, Procs, Queues

LEMMA Same ==
    ASSUME MInv
    PROVE  /\ queue' = queue => Queues'
           /\ mode' = mode => mode' \in {0, 1}
           /\ ptlock' = ptlock \/ ptlock' = NONE => ptlock' \in CPU \cup {NONE}
           /\ cpu' = cpu => cpu' \in [CPU -> Slot \cup {NONE}]
           /\ \A c \in CPU : Sched(c) => /\ ptlock' \in CPU \cup {NONE}
                                         /\ cpu' \in [CPU -> Slot \cup {NONE}]
BY DEF MInv, Types, Queues, Sched

\* Only slot q changes.
LEMMA SlotChange ==
    ASSUME MInv, NEW q \in Slot, NEW r \in Procs, proc' = [proc EXCEPT ![q] = r]
    PROVE  proc' \in [Slot -> Procs] /\ proc'[q] = r /\ \A x \in Slot : x # q => proc'[x] = proc[x]
BY TableFacts

LEMMA FailStep ==
    ASSUME MInv, Fail("overrun") \/ Fail("panic")
    PROVE  MInv'
<1>1. /\ UNCHANGED <<proc, queue, mode, ticks, nextpid, ptlock, cpu, sched, irq, stack>>
      /\ fault' \in {"none", "overrun", "panic"}
  BY DEF Fail
<1> QED
  BY <1>1 DEF MInv, Types, Parked, Interrupted, Allocated, Allocates, Lineage, PidsLeft, Forking,
              OneCpu, NoLostExit, Children, Zombies, Top

\* The process that has been switched to goes on.
LEMMA ResumeStep ==
    ASSUME MInv, NEW c \in CPU, NEW p \in Slot, Resume(c, p)
    PROVE  MInv'
<1>1. /\ cpu[c] = p /\ irq[c] = "none" /\ fault = "none" /\ ptlock = c
      /\ UNCHANGED <<queue, mode, ticks, nextpid, cpu, sched, irq, fault>>
  BY DEF Resume, Runs
<1>2. stack[p] # <<>> /\ At(c, p, Top(p).at)
  BY <1>1, Names DEF MInv, Parked, At, Runs
<1>3. stack[p] \in Stacks /\ Top(p) \in Frames
  BY <1>2, AtFacts
<1>4. CASE Top(p).at = "forkret" /\ stack' = [stack EXCEPT ![p] = Front(@)] /\ ptlock' = NONE /\ UNCHANGED proc
  <2>1. Front(stack[p]) \in Stacks /\ Moves(p, Front(stack[p]))
    BY <1>2, <1>3, <1>4, PopFacts DEF Moves
  <2>2. Rest'
    BY <1>1, <1>4, <2>1, Unchanged, PlainStep
  <2> QED
    BY <1>1, <1>4, <2>2, TableFacts, Same, TableStep
<1>5. CASE Top(p).at = "yielded" /\ stack' = Finish(p) /\ ptlock' = NONE /\ UNCHANGED proc
  <2>1. Rest'
    BY <1>1, <1>2, <1>5, Unchanged, Finishes
  <2> QED
    BY <1>1, <1>5, <2>1, TableFacts, Same, TableStep
<1>6. ASSUME proc' = [proc EXCEPT ![p].chan = NONE]
      PROVE  proc' \in [Slot -> Procs] /\ Tame
  <2> DEFINE r == [proc[p] EXCEPT !.chan = NONE]
  <2>1. r \in Procs
    BY TableFacts, Updated
  <2>2. proc' = [proc EXCEPT ![p] = r]
    BY <1>6
  <2>3. proc[p].state = "RUNNING" /\ proc[p] \in Procs
    BY <1>1, TableFacts DEF MInv, OneCpu
  <2>4. r.state = proc[p].state /\ r.parent = proc[p].parent /\ r.pid = proc[p].pid
    BY <2>3 DEF Procs
  <2> HIDE DEF r
  <2> QED
    BY <2>1, <2>2, <2>3, <2>4, SlotChange DEF Tame, Mild
<1>7. CASE /\ Top(p).at = "sleep_wake" /\ proc' = [proc EXCEPT ![p].chan = NONE]
           /\ stack' = Goto(p, "sleep_check", Top(p).v, 0) /\ ptlock' = NONE
  <2>1. Top(p).v \in Nat /\ 0 \in Nat
    BY <1>3 DEF Frames
  <2>2. "sleep_check" \in Code \ {"fork", "fork_stack", "fork_copy"} /\ Top(p).at \notin IrqCode
    BY <1>7 DEF Code, IrqCode
  <2>3. Rest'
    BY <1>1, <1>2, <1>6, <1>7, <2>1, <2>2, Goes
  <2> QED
    BY <1>1, <1>6, <1>7, <2>3, Same, TableStep
<1>8. CASE /\ Top(p).at = "wait_wake" /\ proc' = [proc EXCEPT ![p].chan = NONE]
           /\ stack' = Goto(p, "wait", 0, 0) /\ UNCHANGED ptlock
  <2>1. "wait" \in Code /\ Top(p).at \notin IrqCode /\ 0 \in Nat
    BY <1>8 DEF Code, SystemCalls, IrqCode
  <2>2. Frame("wait", 0, 0, Top(p).irq) \in Frames /\ Frame("wait", 0, 0, Top(p).irq).at = "wait"
    BY <1>3, <2>1, FrameIn
  <2>3. PICK t \in Stacks : /\ stack' = [stack EXCEPT ![p] = t] /\ t # <<>>
                            /\ Last(t) = Frame("wait", 0, 0, Top(p).irq)
                            /\ t[1] = stack[p][1] \/ (Len(t) = 1 /\ t[1] = Last(t))
    BY <1>2, <1>8, <2>1, <2>2, GotoFacts DEF MInv
  <2>4. Moves(p, t) /\ Last(t).at = "wait"
    BY <1>2, <2>2, <2>3 DEF Moves, Plain
  <2>5. Rest'
    BY <1>1, <1>6, <1>8, <2>3, <2>4, PlainStep
  <2> QED
    BY <1>1, <1>6, <1>8, <2>5, Same, TableStep
<1> QED
  BY <1>4, <1>5, <1>7, <1>8 DEF Resume

\* yield(): the timeslice, or the CPU, of a process in MoQ.
LEMMA SliceStep ==
    ASSUME MInv, NEW c \in CPU, NEW p \in Slot, YieldSlice(c, p)
    PROVE  MInv'
<1>1. /\ At(c, p, "slice") /\ stack' = Finish(p) /\ proc' = [proc EXCEPT ![p].timeslice = Top(p).v - 1]
      /\ UNCHANGED <<queue, mode, ticks, nextpid, ptlock, cpu, sched, irq, fault>>
  BY DEF YieldSlice
<1>2. Top(p) \in Frames /\ Top(p).at = "slice" /\ "slice" \notin Resumable \cup {"wait"}
  BY <1>1, AtFacts DEF Resumable
<1>3. Top(p).v - 1 \in Nat
  BY <1>2 DEF Frames
<1> DEFINE r == [proc[p] EXCEPT !.timeslice = Top(p).v - 1]
<1>4. r \in Procs /\ proc[p] \in Procs
  BY <1>3, TableFacts, Updated
<1>5. proc' = [proc EXCEPT ![p] = r]
  BY <1>1
<1>6. r.state = proc[p].state /\ r.parent = proc[p].parent /\ r.pid = proc[p].pid /\ r.chan = proc[p].chan
  BY <1>4 DEF Procs
<1> HIDE DEF r
<1>7. proc' \in [Slot -> Procs] /\ Tame
  BY <1>4, <1>5, <1>6, SlotChange DEF Tame, Mild
<1>8. Rest'
  BY <1>1, <1>2, <1>7, Finishes
<1> QED
  BY <1>1, <1>7, <1>8, Same, TableStep

\* p gives up its CPU, to go on at to.
LEMMA LeaveParts ==
    ASSUME MInv, NEW c \in CPU, NEW p \in Slot, NEW at, At(c, p, at), ptlock \in {NONE, c},
           NEW to \in Resumable, NEW v \in Nat, stack' = Goto(p, to, v, 0),
           to \in IrqCode \/ at \notin IrqCode, Sched(c), UNCHANGED <<nextpid, irq>>,
           NEW r \in Procs, proc' = [proc EXCEPT ![p] = r],
           r.parent = proc[p].parent, r.pid = proc[p].pid, r.state \in {"RUNNABLE", "SLEEPING"}
    PROVE  /\ proc' \in [Slot -> Procs] /\ stack' \in [Slot -> Stacks]
           /\ Parked' /\ Interrupted' /\ OneCpu' /\ Allocated' /\ PidsLeft' /\ Lineage'
           /\ proc'[p] = r /\ \A x \in Slot : x # p => proc'[x] = proc[x]
<1>1. /\ cpu[c] = p /\ irq[c] = "none" /\ proc[p].state = "RUNNING" /\ stack[p] # <<>>
      /\ Top(p) \in Frames /\ Top(p).at = at
  BY AtFacts
<1>2. to \in Code /\ 0 \in Nat /\ to \notin {"fork_stack", "fork_copy", "setmonopoly_remove", "setmonopoly_mark", "setmonopoly_append"}
      /\ to # "setmonopoly_remove" /\ to # "slice" /\ to # "fork"
  BY DEF Code, Resumable
<1>3. Frame(to, v, 0, Top(p).irq) \in Frames /\ Frame(to, v, 0, Top(p).irq).at = to
  <2>1. /\ to \in {"fork_stack", "fork_copy", "setmonopoly_remove", "setmonopoly_mark", "setmonopoly_append"} => v \in Slot
        /\ to = "setmonopoly_remove" => 0 \in Level \cup {MOQ}
        /\ to = "slice" => v # 0
        /\ to \in IrqCode \/ Top(p).at \notin IrqCode
    BY <1>1, <1>2
  <2> QED
    BY <1>1, <1>2, <2>1, FrameIn, SMTT(40)
<1>4. PICK t \in Stacks : /\ stack' = [stack EXCEPT ![p] = t] /\ t # <<>>
                          /\ Last(t) = Frame(to, v, 0, Top(p).irq)
                          /\ t[1] = stack[p][1] \/ (Len(t) = 1 /\ t[1] = Last(t))
  BY <1>1, <1>2, <1>3, GotoFacts DEF MInv
<1>5. proc' \in [Slot -> Procs] /\ proc'[p] = r /\ \A x \in Slot : x # p => proc'[x] = proc[x]
  BY SlotChange
<1>6. \A q \in Slot : q # p => Mild(q)
  BY <1>5 DEF Mild
<1>7. proc'[p].state \in {"RUNNABLE", "SLEEPING"} /\ Last(t).at \in Resumable
  BY <1>3, <1>4, <1>5
<1>8. stack' \in [Slot -> Stacks] /\ Parked' /\ Interrupted' /\ OneCpu'
  BY <1>1, <1>4, <1>6, <1>7, SchedStep
<1>9. stack'[p] = t /\ \A q \in Slot : q # p => stack'[q] = stack[q]
  BY <1>4 DEF MInv
<1>10. \A q \in Slot : stack'[q] # <<>> =>
           \/ stack[q] # <<>> /\ stack'[q][1] = stack[q][1]
           \/ Plain(stack'[q][1])
  <2> SUFFICES ASSUME NEW q \in Slot, stack'[q] # <<>>
               PROVE  \/ stack[q] # <<>> /\ stack'[q][1] = stack[q][1]
                      \/ Plain(stack'[q][1])
    OBVIOUS
  <2>1. CASE q = p
    BY <1>1, <1>2, <1>3, <1>4, <1>9, <2>1 DEF Plain
  <2>2. CASE q # p
    BY <1>9, <2>2
  <2> QED
    BY <2>1, <2>2
<1>11. \A q \in Slot : proc[q].state = "EMBRYO" => proc'[q].state = "EMBRYO"
  BY <1>1, <1>5
<1>12. Allocated' /\ PidsLeft'
  BY <1>10, <1>11, ForksKept
<1>13. Lineage'
  <2>1. ASSUME NEW q \in Slot
        PROVE  /\ proc'[q].state \in {"UNUSED", "EMBRYO"} => proc'[q].parent = NONE
               /\ proc'[q].state # "UNUSED" => proc'[q].pid # 0
               /\ proc'[q].parent # q
    BY <1>1, <1>5 DEF MInv, Lineage
  <2>2. proc'[initproc].parent = NONE /\ proc'[initproc].state \notin {"UNUSED", "EMBRYO", "ZOMBIE"}
    BY <1>1, <1>5, Names DEF MInv, Lineage
  <2> QED
    BY <2>1, <2>2 DEF Lineage
<1> QED
  BY <1>5, <1>8, <1>12, <1>13

\* It is ready to run, or waits for a tick.
LEMMA LeaveStep ==
    ASSUME MInv, NEW c \in CPU, NEW p \in Slot, NEW at, At(c, p, at), ptlock = NONE,
           NEW to \in Resumable, NEW v \in Nat, stack' = Goto(p, to, v, 0),
           to \in IrqCode \/ at \notin IrqCode, Sched(c), UNCHANGED <<nextpid, irq>>,
           NEW r \in Procs, proc' = [proc EXCEPT ![p] = r],
           r.parent = proc[p].parent, r.pid = proc[p].pid,
           r.state = "RUNNABLE" \/ (r.state = "SLEEPING" /\ r.chan = TICKS)
    PROVE  Rest' /\ proc' \in [Slot -> Procs]
<1>1. /\ proc' \in [Slot -> Procs] /\ stack' \in [Slot -> Stacks]
      /\ Parked' /\ Interrupted' /\ OneCpu' /\ Allocated' /\ PidsLeft'
      /\ proc'[p] = r /\ \A x \in Slot : x # p => proc'[x] = proc[x]
  BY LeaveParts
<1>2. proc[p].state = "RUNNING"
  BY AtFacts
<1>3. Gentle
  BY <1>1, <1>2, Names DEF Gentle, Dead
<1> QED
  BY <1>1, <1>3, FamilyKept DEF Rest

LEMMA GiveUpStep ==
    ASSUME MInv, NEW c \in CPU, NEW p \in Slot,
           YieldMoq(c, p) \/ Monopolize(c, p) \/ SleepBlock(c, p)
    PROVE  MInv'
<1>1. proc[p] \in Procs /\ "RUNNABLE" \in States /\ "SLEEPING" \in States
  BY TableFacts DEF States
<1>2. CASE YieldMoq(c, p) \/ Monopolize(c, p)
  <2> DEFINE r == [proc[p] EXCEPT !.state = "RUNNABLE"]
  <2>1. PICK at \in {"giveup", "monopolize"} : At(c, p, at)
    BY <1>2 DEF YieldMoq, Monopolize
  <2>2. /\ ptlock = NONE /\ stack' = Goto(p, "yielded", 0, 0) /\ Sched(c) /\ proc' = [proc EXCEPT ![p] = r]
        /\ mode' \in {0, 1} /\ UNCHANGED <<queue, ticks, nextpid, sched, irq, fault>>
    BY <1>2 DEF YieldMoq, Monopolize, MInv, Types
  <2>3. r \in Procs
    BY <1>1, Updated
  <2>4. r.state = "RUNNABLE" /\ r.parent = proc[p].parent /\ r.pid = proc[p].pid
    BY <1>1 DEF Procs
  <2>5. "yielded" \in Resumable /\ "yielded" \in IrqCode /\ 0 \in Nat
    BY DEF Resumable, IrqCode
  <2> HIDE DEF r
  <2>6. Rest' /\ proc' \in [Slot -> Procs]
    BY <2>1, <2>2, <2>3, <2>4, <2>5, LeaveStep
  <2> QED
    BY <2>2, <2>6, Same, TableStep
<1>3. CASE SleepBlock(c, p)
  <2> DEFINE r == [proc[p] EXCEPT !.chan = TICKS, !.state = "SLEEPING"]
  <2>1. /\ At(c, p, "sleep_block") /\ ptlock = NONE /\ stack' = Goto(p, "sleep_wake", Top(p).v, 0)
        /\ Sched(c) /\ UNCHANGED <<queue, mode, ticks, nextpid, sched, irq, fault>>
    BY <1>3 DEF SleepBlock
  <2>2. proc' = [proc EXCEPT ![p] = r]
    BY <1>3, TableFacts DEF SleepBlock
  <2>3. r \in Procs
    BY <1>1, Updated
  <2>4. r.state = "SLEEPING" /\ r.chan = TICKS /\ r.parent = proc[p].parent /\ r.pid = proc[p].pid
    BY <1>1 DEF Procs
  <2>5. "sleep_wake" \in Resumable /\ "sleep_block" \notin IrqCode
    BY DEF Resumable, IrqCode
  <2>6. Top(p).v \in Nat
    BY <2>1, AtFacts DEF Frames
  <2> HIDE DEF r
  <2>7. Rest' /\ proc' \in [Slot -> Procs]
    BY <2>1, <2>2, <2>3, <2>4, <2>5, <2>6, LeaveStep
  <2> QED
    BY <2>1, <2>7, Same, TableStep
<1> QED
  BY <1>2, <1>3

\* removePCB() takes out one entry.
LEMMA RemovedQueues ==
    ASSUME MInv, NEW l \in Level \cup {MOQ}, NEW q \in Slot, ~Overruns(l, q)
    PROVE  /\ DOMAIN removePCB(l, q) = Level \cup {MOQ}
           /\ \A k \in Level \cup {MOQ} : k # l => removePCB(l, q)[k] = queue[k]
           /\ removePCB(l, q)[l] \in Seq(Slot)
           /\ Len(removePCB(l, q)[l]) = Len(queue[l]) - 1
<1> DEFINE n == First(Positions(l, q))
           s == RemoveAt(queue[l], n)
<1>1. DOMAIN queue = Level \cup {MOQ} /\ queue[l] \in Seq(Slot)
  BY DEF MInv, Types
<1>2. DOMAIN queue[l] = 1 .. Len(queue[l]) /\ Len(queue[l]) \in Nat
  BY <1>1, LenProperties
<1>3. Positions(l, q) # {} /\ Positions(l, q) \in SUBSET Nat
  BY <1>2 DEF Overruns, Positions
<1>4. n \in Positions(l, q)
  BY <1>3, FirstIn
<1>5. n \in 1 .. Len(queue[l])
  BY <1>2, <1>4 DEF Positions
<1> HIDE DEF n
<1>6. s \in Seq(Slot) /\ Len(s) = Len(queue[l]) - 1
  BY <1>1, <1>5, Removed
<1> HIDE DEF s
<1>7. removePCB(l, q) = [queue EXCEPT ![l] = s]
  BY DEF removePCB, s, n
<1> QED
  BY <1>1, <1>6, <1>7

\* The place of a process in L3.
LEMMA PlaceIn ==
    ASSUME NEW table, NEW s \in Seq(Slot), NEW n
    PROVE  L3Place(table, s, n) \in 1 .. Len(s) + 1
<1> DEFINE S == {k \in DOMAIN s : table[s[k]].priority < n} \cup {Len(s) + 1}
<1>1. DOMAIN s = 1 .. Len(s) /\ Len(s) \in Nat
  BY LenProperties
<1>2. S \subseteq 1 .. Len(s) + 1 /\ S # {}
  BY <1>1
<1>3. S \in SUBSET Nat
  BY <1>1, <1>2
<1> HIDE DEF S
<1>4. First(S) \in S
  BY <1>2, <1>3, FirstIn
<1> QED
  BY <1>2, <1>4 DEF L3Place, S

\* yield() at the end of a timeslice.
LEMMA RequeueStep ==
    ASSUME MInv, NEW c \in CPU, NEW p \in Slot, YieldRequeue(c, p)
    PROVE  MInv'
<1> DEFINE from == proc[p].qlevel
           to   == NextLevel(from, proc[p].pid)
           prio == Lowered(from, proc[p].priority)
           table == [proc EXCEPT ![p].qlevel = to, ![p].timeslice = Slice[to],
                                 ![p].priority = prio, ![p].state = "RUNNABLE"]
           removed == IF from = MOQ THEN queue ELSE removePCB(from, p)
           place   == IF to = 3 THEN L3Place(table, removed[to], prio) ELSE Len(removed[to]) + 1
           r == [proc[p] EXCEPT !.qlevel = to, !.timeslice = Slice[to], !.priority = prio,
                                !.state = "RUNNABLE"]
<1>1. CASE Fail("overrun")
  BY <1>1, FailStep
<1>2. CASE /\ from # MOQ => ~Overruns(from, p)
           /\ from # to => Len(queue[to]) < NPROC
           /\ proc' = table
           /\ queue' = [removed EXCEPT ![to] = InsertAt(@, place, p)]
           /\ stack' = Goto(p, "yielded", 0, 0)
           /\ Sched(c)
           /\ UNCHANGED <<mode, ticks, nextpid, sched, irq, fault>>
  <2>1. At(c, p, "requeue") /\ ptlock = NONE
    BY DEF YieldRequeue
  <2>2. proc[p] \in Procs
    BY TableFacts
  <2>3. from \in Level \cup {MOQ} /\ to \in 1 .. 3 /\ to \in Level \cup {MOQ} /\ prio \in 0 .. 10
    BY <2>2 DEF Procs, Level, MOQ, NextLevel, Lowered
  <2>4. Slice[to] \in Nat /\ "RUNNABLE" \in States
    BY <2>3, MlfqAssumption DEF Level, MOQ, States
  <2>5. proc' = [proc EXCEPT ![p] = r]
    BY <1>2, TableFacts
  <2>6. r.state = "RUNNABLE" /\ r.parent = proc[p].parent /\ r.pid = proc[p].pid
    BY <2>2 DEF Procs
  <2> HIDE DEF from, to, prio, table
  <2>7. r \in Procs
    BY <2>2, <2>3, <2>4, Updated
  <2> HIDE DEF r
  <2>8. Rest' /\ proc' \in [Slot -> Procs]
    <3>1. "yielded" \in Resumable /\ "yielded" \in IrqCode /\ 0 \in Nat
      BY DEF Resumable, IrqCode
    <3> QED
      BY <1>2, <2>1, <2>5, <2>6, <2>7, <3>1, LeaveStep
  <2>9. /\ DOMAIN removed = Level \cup {MOQ}
        /\ \A k \in Level \cup {MOQ} : removed[k] \in Seq(Slot) /\ Len(removed[k]) <= NPROC
        /\ Len(removed[to]) < NPROC
    <3>1. /\ DOMAIN queue = Level \cup {MOQ}
          /\ \A k \in Level \cup {MOQ} : queue[k] \in Seq(Slot) /\ Len(queue[k]) <= NPROC /\ Len(queue[k]) \in Nat
      BY LenProperties DEF MInv, Types
    <3>2. CASE from = MOQ
      BY <1>2, <2>3, <3>1, <3>2 DEF MOQ
    <3>3. CASE from # MOQ
      <4>1. /\ DOMAIN removePCB(from, p) = Level \cup {MOQ}
            /\ \A k \in Level \cup {MOQ} : k # from => removePCB(from, p)[k] = queue[k]
            /\ removePCB(from, p)[from] \in Seq(Slot)
            /\ Len(removePCB(from, p)[from]) = Len(queue[from]) - 1
        BY <1>2, <2>3, <3>3, RemovedQueues
      <4>2. removed = removePCB(from, p)
        BY <3>3
      <4> HIDE DEF removed
      <4>3. Len(queue[from]) \in Nat /\ Len(queue[from]) <= NPROC /\ NPROC \in Nat
        BY <2>3, <3>1, MlfqAssumption
      <4>4. \A a, b \in Nat : a <= b => a - 1 <= b /\ a - 1 < b
        OBVIOUS
      <4>5. Len(removed[from]) <= NPROC /\ Len(removed[from]) < NPROC
        BY <4>1, <4>2, <4>3, <4>4
      <4> QED
        BY <1>2, <2>3, <3>1, <4>1, <4>2, <4>5
    <3> QED
      BY <3>2, <3>3
  <2> HIDE DEF removed
  <2>10. place \in 1 .. Len(removed[to]) + 1 /\ Len(removed[to]) \in Nat /\ removed[to] \in Seq(Slot)
    <3>1. removed[to] \in Seq(Slot) /\ Len(removed[to]) \in Nat
      BY <2>3, <2>9, LenProperties
    <3> QED
      BY <3>1, PlaceIn
  <2> HIDE DEF place
  <2>11. InsertAt(removed[to], place, p) \in Seq(Slot) /\ Len(InsertAt(removed[to], place, p)) <= NPROC
    <3>1. InsertAt(removed[to], place, p) \in Seq(Slot)
          /\ Len(InsertAt(removed[to], place, p)) = Len(removed[to]) + 1
      BY <2>10, Inserted
    <3> QED
      BY <2>9, <2>10, <3>1, MlfqAssumption
  <2>12. Queues'
    BY <1>2, <2>3, <2>9, <2>11 DEF Queues
  <2> QED
    BY <1>2, <2>8, <2>12, Same, TableStep
<1> QED
  BY <1>1, <1>2 DEF YieldRequeue

\* setmonopoly() takes the process out of its level, marks it, and appends it to MoQ.
LEMMA SetmonopolyStep ==
    ASSUME MInv, NEW c \in CPU, NEW p \in Slot, SetmonopolyRemove(c, p) \/ SetmonopolyMark(c, p) \/ SetmonopolyAppend(c, p)
    PROVE  MInv'
<1> DEFINE q == Top(p).v
           l == Top(p).w
<1>1. CASE SetmonopolyRemove(c, p)
  <2>1. At(c, p, "setmonopoly_remove")
    BY <1>1 DEF SetmonopolyRemove
  <2>2. Top(p) \in Frames /\ Top(p).at = "setmonopoly_remove"
    BY <2>1, AtFacts
  <2>3. q \in Slot /\ l \in Level \cup {MOQ} /\ q \in Nat
    BY <2>2, Names DEF Frames
  <2>4. CASE Fail("overrun")
    BY <2>4, FailStep
  <2>5. CASE /\ l # MOQ => ~Overruns(l, q)
             /\ queue' = IF l = MOQ THEN queue ELSE removePCB(l, q)
             /\ stack' = Goto(p, "setmonopoly_mark", q, 0)
             /\ UNCHANGED <<proc, mode, ticks, nextpid, ptlock, cpu, sched, irq, fault>>
    <3> HIDE DEF q, l
    <3>1. Rest'
      <4>1. "setmonopoly_mark" \in Code \ {"fork", "fork_stack", "fork_copy"} /\ 0 \in Nat
            /\ "setmonopoly_remove" \notin IrqCode /\ "setmonopoly_remove" \notin Resumable \cup {"wait"}
        BY DEF Code, IrqCode, Resumable
      <4> QED
        BY <2>1, <2>3, <2>5, <4>1, Unchanged, Goes
    <3>2. Queues'
      <4>1. /\ DOMAIN queue = Level \cup {MOQ}
            /\ \A k \in Level \cup {MOQ} : queue[k] \in Seq(Slot) /\ Len(queue[k]) <= NPROC /\ Len(queue[k]) \in Nat
        BY LenProperties DEF MInv, Types
      <4>2. CASE l = MOQ
        BY <2>5, <4>1, <4>2 DEF Queues
      <4>3. CASE l # MOQ
        <5>1. /\ DOMAIN queue' = Level \cup {MOQ}
              /\ \A k \in Level \cup {MOQ} : k # l => queue'[k] = queue[k]
              /\ queue'[l] \in Seq(Slot)
              /\ Len(queue'[l]) = Len(queue[l]) - 1
          BY <2>3, <2>5, <4>3, RemovedQueues
        <5>2. Len(queue[l]) \in Nat /\ Len(queue[l]) <= NPROC /\ NPROC \in Nat
          BY <2>3, <4>1, MlfqAssumption
        <5>3. \A a, b \in Nat : a <= b => a - 1 <= b
          OBVIOUS
        <5>4. Len(queue'[l]) <= NPROC
          BY <5>1, <5>2, <5>3
        <5> QED
          BY <4>1, <5>1, <5>4 DEF Queues
      <4> QED
        BY <4>2, <4>3
    <3> QED
      BY <2>5, <3>1, <3>2, TableFacts, Same, TableStep
  <2> QED
    BY <1>1, <2>4, <2>5 DEF SetmonopolyRemove
<1>2. CASE SetmonopolyMark(c, p)
  <2> DEFINE r == [proc[q] EXCEPT !.qlevel = MOQ]
  <2>1. /\ At(c, p, "setmonopoly_mark")
        /\ proc' = [proc EXCEPT ![q] = r]
        /\ stack' = Goto(p, "setmonopoly_append", q, 0)
        /\ UNCHANGED <<queue, mode, ticks, nextpid, ptlock, cpu, sched, irq, fault>>
    BY <1>2 DEF SetmonopolyMark
  <2>2. Top(p) \in Frames /\ Top(p).at = "setmonopoly_mark"
    BY <2>1, AtFacts
  <2>3. q \in Slot /\ q \in Nat
    BY <2>2, Names DEF Frames
  <2> HIDE DEF q
  <2>4. r \in Procs /\ proc[q] \in Procs
    <3>1. MOQ \in Level \cup {MOQ}
      OBVIOUS
    <3> QED
      BY <2>3, <3>1, TableFacts, Updated
  <2>5. r.state = proc[q].state /\ r.parent = proc[q].parent /\ r.pid = proc[q].pid /\ r.chan = proc[q].chan
    BY <2>4 DEF Procs
  <2> HIDE DEF r
  <2>6. proc' \in [Slot -> Procs] /\ Tame
    BY <2>1, <2>3, <2>4, <2>5, SlotChange DEF Tame, Mild
  <2>7. Rest'
    <3>1. "setmonopoly_append" \in Code \ {"fork", "fork_stack", "fork_copy"} /\ 0 \in Nat
          /\ "setmonopoly_mark" \notin IrqCode /\ "setmonopoly_mark" \notin Resumable \cup {"wait"}
      BY DEF Code, IrqCode, Resumable
    <3> QED
      BY <2>1, <2>3, <2>6, <3>1, Goes
  <2> QED
    BY <2>1, <2>6, <2>7, Same, TableStep
<1>3. CASE SetmonopolyAppend(c, p)
  <2>1. /\ At(c, p, "setmonopoly_append")
        /\ proc' = proc
        /\ queue' = [queue EXCEPT ![MOQ] = IF Len(@) < NPROC THEN Append(@, q) ELSE @]
        /\ fault' \in {fault, "overrun"}
        /\ stack' = Finish(p)
        /\ UNCHANGED <<mode, ticks, nextpid, ptlock, cpu, sched, irq>>
    BY <1>3 DEF SetmonopolyAppend
  <2>2. Top(p) \in Frames /\ Top(p).at = "setmonopoly_append"
    BY <2>1, AtFacts
  <2>3. q \in Slot
    BY <2>2 DEF Frames
  <2> HIDE DEF q
  <2>6. proc' \in [Slot -> Procs] /\ Tame
    BY <2>1, TableFacts, Unchanged
  <2>7. Rest'
    <3>1. "setmonopoly_append" \notin Resumable \cup {"wait"}
      BY DEF Resumable
    <3> QED
      BY <2>1, <2>6, <3>1, Finishes
  <2>8. Queues'
    <3>1. /\ DOMAIN queue = Level \cup {MOQ}
          /\ \A k \in Level \cup {MOQ} : queue[k] \in Seq(Slot) /\ Len(queue[k]) <= NPROC /\ Len(queue[k]) \in Nat
      BY LenProperties DEF MInv, Types
    <3>2. MOQ \in Level \cup {MOQ}
      OBVIOUS
    <3> DEFINE s == queue[MOQ]
               t == IF Len(s) < NPROC THEN Append(s, q) ELSE s
    <3>3. t \in Seq(Slot) /\ Len(t) <= NPROC
      <4>1. s \in Seq(Slot) /\ Len(s) \in Nat /\ Len(s) <= NPROC
        BY <3>1, <3>2
      <4> HIDE DEF s
      <4>2. Append(s, q) \in Seq(Slot) /\ Len(Append(s, q)) = Len(s) + 1
        BY <2>3, <4>1, AppendProperties
      <4> QED
        BY <4>1, <4>2, MlfqAssumption
    <3>4. queue' = [queue EXCEPT ![MOQ] = t]
      BY <2>1
    <3> HIDE DEF t
    <3> QED
      BY <3>1, <3>2, <3>3, <3>4 DEF Queues
  <2> QED
    BY <2>1, <2>6, <2>7, <2>8 DEF MInv, Rest, Types, Stacks, Procs, Queues
<1> QED
  BY <1>1, <1>2, <1>3

\* kill() and setpriority() change one slot, and do not put it to sleep.
LEMMA KillStep ==
    ASSUME MInv, NEW c \in CPU, NEW p \in Slot, Kill(c, p) \/ Setpriority(c, p)
    PROVE  MInv'
<1> DEFINE found == WithPid(Top(p).v)
           q == First(found)
<1>1. PICK at \in {"kill", "setpriority"} : At(c, p, at)
  BY DEF Kill, Setpriority
<1>2. stack' = Finish(p) /\ UNCHANGED <<queue, mode, ticks, nextpid, ptlock, cpu, sched, irq, fault>>
  BY DEF Kill, Setpriority
<1>3. at \notin Resumable \cup {"wait"}
  BY DEF Resumable
<1>4. Tame /\ proc' \in [Slot -> Procs]
  <2>1. CASE UNCHANGED proc
    BY <2>1, Unchanged, TableFacts
  <2>2. CASE ~(UNCHANGED proc)
    <3>1. found # {}
      BY <2>2 DEF Kill, Setpriority
    <3>2. q \in Slot
      BY <3>1, FirstIn, Names DEF WithPid
    <3>3. proc[q] \in Procs
      BY <3>2, TableFacts
    <3>4. PICK r \in Procs : /\ proc' = [proc EXCEPT ![q] = r]
                             /\ r.parent = proc[q].parent /\ r.pid = proc[q].pid /\ r.chan = proc[q].chan
                             /\ \/ r.state = proc[q].state
                                \/ proc[q].state = "SLEEPING" /\ r.state = "RUNNABLE"
      <4>1. CASE Kill(c, p)
        <5>1. proc' = [proc EXCEPT ![q].killed = TRUE, ![q].state = IF @ = "SLEEPING" THEN "RUNNABLE" ELSE @]
          BY <2>2, <4>1 DEF Kill
        <5> HIDE DEF q
        <5> DEFINE st == IF proc[q].state = "SLEEPING" THEN "RUNNABLE" ELSE proc[q].state
        <5>2. st \in States
          BY <3>3 DEF Procs, States
        <5>3. ASSUME NEW k \in BOOLEAN,
                     proc' = [proc EXCEPT ![q].killed = k, ![q].state = IF @ = "SLEEPING" THEN "RUNNABLE" ELSE @]
              PROVE  proc' = [proc EXCEPT ![q] = [proc[q] EXCEPT !.killed = k, !.state = st]]
          BY <3>2, <3>3, <5>3, TableFacts DEF Procs
        <5>4. ASSUME NEW k \in BOOLEAN
              PROVE  /\ [proc[q] EXCEPT !.killed = k, !.state = st] \in Procs
                     /\ [proc[q] EXCEPT !.killed = k, !.state = st].parent = proc[q].parent
                     /\ [proc[q] EXCEPT !.killed = k, !.state = st].pid = proc[q].pid
                     /\ [proc[q] EXCEPT !.killed = k, !.state = st].chan = proc[q].chan
                     /\ [proc[q] EXCEPT !.killed = k, !.state = st].state = st
          BY <3>3, <5>2 DEF Procs
        <5>5. TRUE \in BOOLEAN
          OBVIOUS
        <5>6. PICK k \in BOOLEAN : proc' = [proc EXCEPT ![q].killed = k, ![q].state = IF @ = "SLEEPING" THEN "RUNNABLE" ELSE @]
          BY <5>1, <5>5, Zenon
        <5>7. proc' = [proc EXCEPT ![q] = [proc[q] EXCEPT !.killed = k, !.state = st]]
          BY <5>3, <5>6
        <5>8. st = proc[q].state \/ (proc[q].state = "SLEEPING" /\ st = "RUNNABLE")
          OBVIOUS
        <5> HIDE DEF st
        <5> DEFINE r == [proc[q] EXCEPT !.killed = k, !.state = st]
        <5>9. r \in Procs /\ r.parent = proc[q].parent /\ r.pid = proc[q].pid /\ r.chan = proc[q].chan /\ r.state = st
          BY <5>4
        <5>10. proc' = [proc EXCEPT ![q] = r]
          BY <5>7
        <5> HIDE DEF r
        <5> QED
          BY <5>8, <5>9, <5>10
      <4>2. CASE Setpriority(c, p)
        <5>1. PICK n \in Priorities : proc' = [proc EXCEPT ![q].priority = n]
          BY <2>2, <4>2 DEF Setpriority
        <5> HIDE DEF q
        <5> DEFINE r == [proc[q] EXCEPT !.priority = n]
        <5>2. n \in 0 .. 10
          BY <5>1, MlfqAssumption
        <5>3. r \in Procs
          BY <3>3, <5>2, Updated
        <5>4. r.parent = proc[q].parent /\ r.pid = proc[q].pid /\ r.chan = proc[q].chan /\ r.state = proc[q].state
          BY <3>3 DEF Procs
        <5>5. proc' = [proc EXCEPT ![q] = r]
          BY <5>1
        <5> HIDE DEF r
        <5> QED
          BY <5>3, <5>4, <5>5
      <4> QED
        BY <4>1, <4>2
    <3> HIDE DEF q
    <3>5. proc' \in [Slot -> Procs] /\ proc'[q] = r /\ \A x \in Slot : x # q => proc'[x] = proc[x]
      BY <3>2, <3>4, SlotChange
    <3> QED
      BY <3>4, <3>5 DEF Tame, Mild
  <2> QED
    BY <2>1, <2>2
<1>5. Rest'
  BY <1>1, <1>2, <1>3, <1>4, Finishes
<1> QED
  BY <1>2, <1>4, <1>5, Same, TableStep

\* unmonopolize().
LEMMA UnmonopolizeStep ==
    ASSUME MInv, NEW c \in CPU, NEW p \in Slot, Unmonopolize(c, p) \/ UnmonopolizeTicks(c, p)
    PROVE  MInv'
<1>1. UNCHANGED <<proc, queue, nextpid, ptlock, cpu, sched, irq, fault>>
  BY DEF Unmonopolize, UnmonopolizeTicks
<1>2. mode' \in {0, 1} /\ ticks' \in 0 .. TickModulus - 1
  BY MlfqAssumption DEF Unmonopolize, UnmonopolizeTicks, MInv, Types
<1>3. Rest'
  <2>1. "unmonopolize_ticks" \in Code \ {"fork", "fork_stack", "fork_copy"} /\ 0 \in Nat
        /\ "unmonopolize" \notin IrqCode
        /\ {"unmonopolize", "unmonopolize_ticks"} \cap (Resumable \cup {"wait"}) = {}
    BY DEF Code, IrqCode, Resumable
  <2>2. CASE Unmonopolize(c, p)
    <3>1. At(c, p, "unmonopolize") /\ stack' = Goto(p, "unmonopolize_ticks", 0, 0)
      BY <2>2 DEF Unmonopolize
    <3> QED
      BY <1>1, <2>1, <3>1, Unchanged, Goes
  <2>3. CASE UnmonopolizeTicks(c, p)
    <3>1. At(c, p, "unmonopolize_ticks") /\ stack' = Finish(p)
      BY <2>3 DEF UnmonopolizeTicks
    <3> QED
      BY <1>1, <2>1, <3>1, Unchanged, Finishes
  <2> QED
    BY <2>2, <2>3
<1> QED
  BY <1>1, <1>2, <1>3 DEF MInv, Rest, Types, Stacks

\* The slot that a fork() in progress fills.
LEMMA ForkBase ==
    ASSUME MInv, NEW c \in CPU, NEW p \in Slot, NEW at \in {"fork_stack", "fork_copy"}, At(c, p, at)
    PROVE  /\ Top(p).v \in Slot /\ Allocates(p, Top(p).v) /\ Top(p).v # p
           /\ proc[Top(p).v].state = "EMBRYO" /\ stack[Top(p).v] = <<>>
           /\ proc[Top(p).v].parent = NONE /\ Top(p).v # initproc
           /\ \A q, n \in Slot : Allocates(q, n) /\ q # p => n # Top(p).v
           /\ Len(stack[p]) = 1 /\ p \notin Forking
<1>1. proc[p].state = "RUNNING" /\ stack[p] # <<>> /\ Top(p) \in Frames /\ Top(p).at = at
  BY AtFacts
<1>2. at \in Code \ IrqCode
  BY DEF Code, IrqCode
<1>3. Len(stack[p]) = 1 /\ stack[p][1] = Top(p) /\ stack[p][1].at = at
  BY <1>2, CallTop
<1>4. Top(p).v \in Slot
  BY <1>1 DEF Frames
<1>5. Allocates(p, Top(p).v) /\ p \notin Forking
  BY <1>1, <1>3 DEF Allocates, Forking
<1>6. proc[Top(p).v].state = "EMBRYO" /\ \A q, n \in Slot : Allocates(q, n) /\ q # p => n # Top(p).v
  BY <1>4, <1>5 DEF MInv, Allocated
<1> QED
  BY <1>1, <1>3, <1>4, <1>5, <1>6, Names DEF MInv, Parked, Lineage

LEMMA ForkingKept ==
    ASSUME MInv, nextpid' = nextpid, Forking' \subseteq Forking
    PROVE  PidsLeft'
<1>1. IsFiniteSet(Slot) /\ IsFiniteSet(Forking)
  <2>1. Forking \subseteq Slot
    BY DEF Forking
  <2> QED
    BY <2>1, SlotFinite, FS_Subset
<1>2. Cardinality(Forking') <= Cardinality(Forking) /\ IsFiniteSet(Forking')
  BY <1>1, FS_Subset
<1>3. Cardinality(Forking') \in Nat /\ Cardinality(Forking) \in Nat
  BY <1>1, <1>2, FS_CardinalityType
<1>4. nextpid \in Nat
  BY MlfqAssumption DEF MInv, Types
<1> QED
  BY <1>2, <1>3, <1>4, MlfqAssumption DEF MInv, PidsLeft

\* The top frame of a system call that is finished.
LEMMA FinishFacts ==
    ASSUME MInv, NEW c \in CPU, NEW p \in Slot, NEW at, At(c, p, at)
    PROVE  \E t \in Stacks : /\ Finish(p) = [stack EXCEPT ![p] = t] /\ t # <<>>
                             /\ Len(t) = Len(stack[p]) /\ Last(t).at = "ret"
                             /\ Len(t) = 1 => t[1].at = "ret"
<1>1. stack[p] # <<>> /\ Top(p) \in Frames
  BY AtFacts
<1>2. "ret" \in Code /\ "ret" \in IrqCode /\ 0 \in Nat /\ "ret" # "setmonopoly_remove" /\ "ret" # "slice"
      /\ "ret" \notin {"fork_stack", "fork_copy", "setmonopoly_remove", "setmonopoly_mark", "setmonopoly_append"}
  BY DEF Code, IrqCode
<1>3. Frame("ret", 0, 0, Top(p).irq) \in Frames /\ Frame("ret", 0, 0, Top(p).irq).at = "ret"
  <2>1. /\ "ret" \in {"fork_stack", "fork_copy", "setmonopoly_remove", "setmonopoly_mark", "setmonopoly_append"} => 0 \in Slot
        /\ "ret" = "setmonopoly_remove" => 0 \in Level \cup {MOQ}
        /\ "ret" = "slice" => 0 # 0
        /\ "ret" \in IrqCode \/ Top(p).at \notin IrqCode
    BY <1>2
  <2>2. PICK r \in Frames : r = Top(p)
    BY <1>1
  <2>3. PICK at2 : at2 = "ret"
    OBVIOUS
  <2>4. Frame(at2, 0, 0, r.irq) \in Frames /\ Frame(at2, 0, 0, r.irq).at = at2
    BY <1>2, <2>1, <2>2, <2>3, FrameIn
  <2> QED
    BY <2>2, <2>3, <2>4
<1>4. PICK t \in Stacks : /\ Goto(p, "ret", 0, 0) = [stack EXCEPT ![p] = t]
                          /\ t # <<>> /\ Len(t) = Len(stack[p])
                          /\ Last(t) = Frame("ret", 0, 0, Top(p).irq)
  BY <1>1, <1>2, <1>3, GotoFacts DEF MInv
<1>5. Len(t) = 1 => t[1] = Last(t)
  BY <1>4, StackFacts
<1> QED
  BY <1>3, <1>4, <1>5 DEF Finish

\* fork() runs out of memory, and gives the slot back.
LEMMA ForkFails ==
    ASSUME MInv, NEW c \in CPU, NEW p \in Slot, NEW at \in {"fork_stack", "fork_copy"}, At(c, p, at),
           proc' = [proc EXCEPT ![Top(p).v].state = "UNUSED"], stack' = Finish(p),
           UNCHANGED <<queue, mode, ticks, nextpid, ptlock, cpu, sched, irq, fault>>
    PROVE  MInv'
<1> DEFINE np == Top(p).v
           r == [proc[np] EXCEPT !.state = "UNUSED"]
<1>1. /\ np \in Slot /\ np # p /\ np # initproc
      /\ proc[np].state = "EMBRYO" /\ proc[np].parent = NONE
      /\ \A q, n \in Slot : Allocates(q, n) /\ q # p => n # np
      /\ Len(stack[p]) = 1 /\ p \notin Forking
  BY ForkBase
<1>2. proc' = [proc EXCEPT ![np] = r]
  OBVIOUS
<1> HIDE DEF np
<1>3. r \in Procs
  BY <1>1, TableFacts, Updated DEF States
<1>4. r.state = "UNUSED" /\ r.parent = NONE
  BY <1>1, TableFacts DEF Procs
<1> HIDE DEF r
<1>5. proc' \in [Slot -> Procs] /\ proc'[np] = r /\ \A x \in Slot : x # np => proc'[x] = proc[x]
  BY <1>1, <1>2, <1>3, SlotChange
<1>6. PICK t \in Stacks : /\ stack' = [stack EXCEPT ![p] = t] /\ t # <<>>
                          /\ Len(t) = 1 /\ t[1].at = "ret"
  BY <1>1, FinishFacts
<1>7. cpu[c] = p /\ irq[c] = "none" /\ ptlock # c
  BY AtFacts DEF Resumable
<1>8. stack' \in [Slot -> Stacks] /\ Parked' /\ Interrupted' /\ OneCpu'
  <2>1. \A q \in Slot : Mild(q) \/ {proc[q].state, proc'[q].state} \subseteq Dead
    BY <1>1, <1>4, <1>5 DEF Mild, Dead
  <2> QED
    BY <1>6, <1>7, <2>1, MoveStep
<1>9. stack'[p] = t /\ \A q \in Slot : q # p => stack'[q] = stack[q]
  BY <1>6 DEF MInv
<1>10. Allocated'
  <2>1. \A q, n \in Slot : Allocates(q, n)' => q # p /\ Allocates(q, n)
    BY <1>6, <1>9 DEF Allocates
  <2>2. \A q, n \in Slot : Allocates(q, n)' => proc'[n].state = "EMBRYO"
    <3> SUFFICES ASSUME NEW q \in Slot, NEW n \in Slot, Allocates(q, n)'
                 PROVE  proc'[n].state = "EMBRYO"
      OBVIOUS
    <3>1. q # p /\ Allocates(q, n)
      BY <2>1
    <3> QED
      BY <1>1, <1>5, <3>1 DEF MInv, Allocated
  <2>3. \A q, x, n \in Slot : Allocates(q, n)' /\ Allocates(x, n)' => q = x
    BY <2>1 DEF MInv, Allocated
  <2> QED
    BY <2>2, <2>3 DEF Allocated
<1>11. PidsLeft'
  <2>1. Forking' \subseteq Forking
    BY <1>6, <1>9 DEF Forking
  <2> QED
    BY <2>1, ForkingKept
<1>12. Lineage'
  <2>1. ASSUME NEW q \in Slot
        PROVE  /\ proc'[q].state \in {"UNUSED", "EMBRYO"} => proc'[q].parent = NONE
               /\ proc'[q].state # "UNUSED" => proc'[q].pid # 0
               /\ proc'[q].parent # q
    <3>1. CASE q = np
      BY <1>4, <1>5, <3>1, Names
    <3>2. CASE q # np
      BY <1>5, <3>2 DEF MInv, Lineage
    <3> QED
      BY <3>1, <3>2
  <2>2. proc'[initproc] = proc[initproc]
    BY <1>1, <1>5, Names
  <2> QED
    BY <2>1, <2>2 DEF MInv, Lineage
<1>13. NoLostExit'
  <2>1. \A x \in Slot : /\ proc'[x].parent = proc[x].parent
                        /\ proc'[x].state = "ZOMBIE" <=> proc[x].state = "ZOMBIE"
    BY <1>1, <1>4, <1>5
  <2>2. \A q \in Slot : Children(q)' = Children(q) /\ Zombies(q)' = Zombies(q)
    BY <2>1 DEF Children, Zombies
  <2> QED
    BY <1>4, <1>5, <2>2 DEF MInv, NoLostExit
<1>14. Rest'
  BY <1>8, <1>10, <1>11, <1>12, <1>13 DEF Rest
<1> QED
  BY <1>5, <1>14, Same, TableStep

\* The slot gets a kernel stack, and enters L0.
LEMMA ForkStackStep ==
    ASSUME MInv, NEW c \in CPU, NEW p \in Slot, ForkStack(c, p)
    PROVE  MInv'
<1> DEFINE np == Top(p).v
<1>1. At(c, p, "fork_stack")
  BY DEF ForkStack
<1>2. CASE /\ proc' = [proc EXCEPT ![np].state = "UNUSED"] /\ stack' = Finish(p)
           /\ UNCHANGED <<queue, mode, ticks, nextpid, ptlock, cpu, sched, irq, fault>>
  BY <1>1, <1>2, ForkFails
<1>3. CASE Fail("overrun")
  BY <1>3, FailStep
<1>4. CASE /\ Len(queue[0]) < NPROC
           /\ proc' = [proc EXCEPT ![np].qlevel = 0, ![np].priority = 0, ![np].timeslice = Slice[0]]
           /\ queue' = [queue EXCEPT ![0] = Append(@, np)]
           /\ stack' = Goto(p, "fork_copy", np, 0)
           /\ UNCHANGED <<mode, ticks, nextpid, ptlock, cpu, sched, irq, fault>>
  <2> DEFINE r == [proc[np] EXCEPT !.qlevel = 0, !.priority = 0, !.timeslice = Slice[0]]
  <2>1. np \in Slot /\ Allocates(p, np) /\ Len(stack[p]) = 1 /\ np \in Nat
    BY <1>1, ForkBase, Names
  <2>2. /\ cpu[c] = p /\ irq[c] = "none" /\ ptlock # c /\ stack[p] # <<>>
        /\ Top(p) \in Frames /\ Top(p).at = "fork_stack"
    BY <1>1, AtFacts DEF Resumable
  <2> HIDE DEF np
  <2>3. proc' = [proc EXCEPT ![np] = r]
    BY <1>4, <2>1, TableFacts DEF Procs
  <2>4. r \in Procs /\ proc[np] \in Procs
    <3>1. 0 \in Level \cup {MOQ} /\ 0 \in 0 .. 10 /\ Slice[0] \in Nat
      BY MlfqAssumption DEF Level
    <3> QED
      BY <2>1, <3>1, TableFacts, Updated
  <2>5. r.state = proc[np].state /\ r.parent = proc[np].parent /\ r.pid = proc[np].pid /\ r.chan = proc[np].chan
    BY <2>4 DEF Procs
  <2> HIDE DEF r
  <2>6. proc' \in [Slot -> Procs] /\ Tame
    BY <2>1, <2>3, <2>4, <2>5, SlotChange DEF Tame, Mild
  <2>7. /\ Frame("fork_copy", np, 0, Top(p).irq) \in Frames
        /\ Frame("fork_copy", np, 0, Top(p).irq).at = "fork_copy"
        /\ Frame("fork_copy", np, 0, Top(p).irq).v = np
        /\ "fork_copy" \in Code
    <3>1. "fork_copy" \in Code /\ "fork_stack" \notin IrqCode /\ 0 \in Nat
      BY DEF Code, IrqCode
    <3> QED
      BY <2>1, <2>2, <3>1, FrameIn
  <2>8. PICK t \in Stacks : /\ stack' = [stack EXCEPT ![p] = t] /\ t # <<>> /\ Len(t) = 1
                            /\ Last(t) = Frame("fork_copy", np, 0, Top(p).irq)
    BY <1>4, <2>1, <2>2, <2>7, GotoFacts DEF MInv
  <2>9. t[1].at = "fork_copy" /\ t[1].v = np
    BY <2>7, <2>8, StackFacts
  <2>10. stack' \in [Slot -> Stacks] /\ Parked' /\ Interrupted' /\ OneCpu'
    <3>1. \A q \in Slot : Mild(q) \/ {proc[q].state, proc'[q].state} \subseteq Dead
      BY <2>6 DEF Tame
    <3> QED
      BY <1>4, <2>2, <2>8, <3>1, MoveStep, ZenonT(40)
  <2>11. stack'[p] = t /\ \A q \in Slot : q # p => stack'[q] = stack[q]
    BY <2>8 DEF MInv
  <2>12. Allocated'
    <3>1. \A q, n \in Slot : Allocates(q, n)' => Allocates(q, n)
      BY <2>1, <2>9, <2>11 DEF Allocates
    <3>2. \A q \in Slot : proc[q].state = "EMBRYO" => proc'[q].state = "EMBRYO"
      BY <2>6 DEF Tame, Mild
    <3> QED
      BY <3>1, <3>2 DEF MInv, Allocated
  <2>13. PidsLeft'
    <3>1. Forking' \subseteq Forking
      BY <2>9, <2>11 DEF Forking
    <3> QED
      BY <1>4, <3>1, ForkingKept
  <2>14. Rest'
    BY <2>6, <2>10, <2>12, <2>13, TameIsGentle, FamilyKept DEF Rest
  <2>15. Queues'
    <3>1. /\ DOMAIN queue = Level \cup {MOQ}
          /\ \A k \in Level \cup {MOQ} : queue[k] \in Seq(Slot) /\ Len(queue[k]) <= NPROC /\ Len(queue[k]) \in Nat
      BY LenProperties DEF MInv, Types
    <3>2. 0 \in Level \cup {MOQ}
      BY DEF Level
    <3> DEFINE s == queue[0]
               u == Append(s, np)
    <3>3. u \in Seq(Slot) /\ Len(u) <= NPROC
      <4>1. s \in Seq(Slot) /\ Len(s) \in Nat /\ Len(s) < NPROC
        BY <1>4, <3>1, <3>2
      <4> HIDE DEF s
      <4>2. Append(s, np) \in Seq(Slot) /\ Len(Append(s, np)) = Len(s) + 1
        BY <2>1, <4>1, AppendProperties
      <4> QED
        BY <4>1, <4>2, MlfqAssumption
    <3>4. queue' = [queue EXCEPT ![0] = u]
      BY <1>4
    <3> HIDE DEF u
    <3> QED
      BY <3>1, <3>2, <3>3, <3>4 DEF Queues
  <2> QED
    BY <1>4, <2>6, <2>14, <2>15, Same, TableStep
<1> QED
  BY <1>2, <1>3, <1>4 DEF ForkStack

\* The child is ready to run.
LEMMA ForkCopyStep ==
    ASSUME MInv, NEW c \in CPU, NEW p \in Slot, ForkCopy(c, p)
    PROVE  MInv'
<1> DEFINE np == Top(p).v
           u == <<Frame("forkret", 0, 0, FALSE)>>
           r == [proc[np] EXCEPT !.parent = p, !.state = "RUNNABLE"]
<1>1. /\ At(c, p, "fork_copy")
      /\ UNCHANGED <<queue, mode, ticks, nextpid, ptlock, cpu, sched, irq, fault>>
  BY DEF ForkCopy
<1>2. CASE proc' = [proc EXCEPT ![np].state = "UNUSED"] /\ stack' = Finish(p)
  BY <1>1, <1>2, ForkFails
<1>3. CASE /\ ptlock = NONE
           /\ proc' = [proc EXCEPT ![np].parent = p, ![np].state = "RUNNABLE"]
           /\ stack' = [Finish(p) EXCEPT ![np] = u]
  <2>1. /\ np \in Slot /\ np # p /\ np # initproc
        /\ proc[np].state = "EMBRYO" /\ proc[np].parent = NONE
        /\ \A q, n \in Slot : Allocates(q, n) /\ q # p => n # np
        /\ Len(stack[p]) = 1 /\ p \notin Forking
    BY <1>1, ForkBase
  <2>2. /\ cpu[c] = p /\ irq[c] = "none" /\ proc[p].state = "RUNNING" /\ stack[p] # <<>>
    BY <1>1, AtFacts
  <2>3. u \in Stacks /\ u # <<>> /\ Last(u).at = "forkret" /\ u[1].at = "forkret"
    <3>1. "forkret" \in SystemCalls \cup {"forkret"} /\ 0 \in Nat
      OBVIOUS
    <3> QED
      BY <3>1, CallFrame
  <2> HIDE DEF np, u
  <2>4. proc' = [proc EXCEPT ![np] = r]
    BY <1>3, <2>1, TableFacts DEF Procs
  <2>5. r \in Procs
    <3>1. p \in Slot \cup {NONE} /\ "RUNNABLE" \in States
      BY DEF States
    <3> QED
      BY <2>1, <3>1, TableFacts, Updated
  <2>6. r.state = "RUNNABLE" /\ r.parent = p /\ r.pid = proc[np].pid
    BY <2>1, TableFacts DEF Procs
  <2> HIDE DEF r
  <2>7. proc' \in [Slot -> Procs] /\ proc'[np] = r /\ \A x \in Slot : x # np => proc'[x] = proc[x]
    BY <2>1, <2>4, <2>5, SlotChange
  <2>8. PICK t \in Stacks : /\ Finish(p) = [stack EXCEPT ![p] = t] /\ t # <<>>
                            /\ Len(t) = Len(stack[p]) /\ (Len(t) = 1 => t[1].at = "ret")
    BY <1>1, FinishFacts
  <2>9. /\ stack' \in [Slot -> Stacks] /\ stack'[p] = t /\ stack'[np] = u
        /\ \A q \in Slot : q # p /\ q # np => stack'[q] = stack[q]
    BY <1>3, <2>1, <2>3, <2>8 DEF MInv
  <2>10. t[1].at = "ret"
    BY <2>1, <2>8
  <2>11. Parked'
    <3>1. ASSUME NEW q \in Slot
          PROVE  /\ proc'[q].state \in {"UNUSED", "EMBRYO", "ZOMBIE"} => stack'[q] = <<>>
                 /\ proc'[q].state \in {"RUNNABLE", "SLEEPING"} =>
                       stack'[q] # <<>> /\ Last(stack'[q]).at \in Resumable
      <4>1. CASE q = p
        BY <2>1, <2>2, <2>7, <4>1
      <4>2. CASE q = np
        BY <2>3, <2>6, <2>7, <2>9, <4>2 DEF Resumable
      <4>3. CASE q # p /\ q # np
        BY <2>7, <2>9, <4>3 DEF MInv, Parked, Top
      <4> QED
        BY <4>1, <4>2, <4>3
    <3> QED
      BY <1>1, <1>3, <3>1, Names DEF Parked, Top
  <2>12. Interrupted'
    <3> SUFFICES ASSUME NEW d \in CPU, irq'[d] # "none"
                 PROVE  /\ ptlock' # d
                        /\ cpu'[d] # NONE /\ stack'[cpu'[d]] # <<>> => ~Last(stack'[cpu'[d]]).irq
      BY DEF Interrupted, Top
    <3>1. d # c /\ cpu'[d] = cpu[d] /\ ptlock' # d /\ irq[d] # "none"
      BY <1>1, <1>3, <2>2, Names
    <3>2. ASSUME cpu[d] # NONE, stack'[cpu[d]] # <<>> PROVE ~Last(stack'[cpu[d]]).irq
      <4>1. cpu[d] \in Slot /\ cpu[d] # p
        BY <2>2, <3>1, <3>2 DEF MInv, Types, OneCpu
      <4>2. proc[cpu[d]].state = "RUNNING"
        BY <4>1 DEF MInv, OneCpu
      <4>3. stack'[cpu[d]] = stack[cpu[d]]
        BY <2>1, <2>9, <4>1, <4>2
      <4> QED
        BY <3>1, <3>2, <4>3, Zenon DEF MInv, Interrupted, Top
    <3> QED
      BY <3>1, <3>2
  <2>13. OneCpu'
    <3>1. \A q \in Slot : proc'[q].state = "RUNNING" <=> proc[q].state = "RUNNING"
      BY <2>1, <2>6, <2>7
    <3> QED
      BY <1>1, <3>1 DEF MInv, OneCpu
  <2>14. Allocated'
    <3>1. \A q, n \in Slot : Allocates(q, n)' => q # p /\ Allocates(q, n)
      BY <2>3, <2>9, <2>10 DEF Allocates
    <3>2. \A q, n \in Slot : Allocates(q, n)' => proc'[n].state = "EMBRYO"
      <4> SUFFICES ASSUME NEW q \in Slot, NEW n \in Slot, Allocates(q, n)'
                   PROVE  proc'[n].state = "EMBRYO"
        OBVIOUS
      <4>1. q # p /\ Allocates(q, n)
        BY <3>1
      <4> QED
        BY <2>1, <2>7, <4>1 DEF MInv, Allocated
    <3>3. \A q, x, n \in Slot : Allocates(q, n)' /\ Allocates(x, n)' => q = x
      BY <3>1 DEF MInv, Allocated
    <3> QED
      BY <3>2, <3>3 DEF Allocated
  <2>15. PidsLeft'
    <3>1. Forking' \subseteq Forking
      BY <2>3, <2>9, <2>10 DEF Forking
    <3> QED
      BY <1>1, <3>1, ForkingKept
  <2>16. Lineage'
    <3>1. ASSUME NEW q \in Slot
          PROVE  /\ proc'[q].state \in {"UNUSED", "EMBRYO"} => proc'[q].parent = NONE
                 /\ proc'[q].state # "UNUSED" => proc'[q].pid # 0
                 /\ proc'[q].parent # q
      <4>1. CASE q = np
        BY <2>1, <2>6, <2>7, <4>1 DEF MInv, Lineage
      <4>2. CASE q # np
        BY <2>7, <4>2 DEF MInv, Lineage
      <4> QED
        BY <4>1, <4>2
    <3>2. proc'[initproc] = proc[initproc]
      BY <2>1, <2>7, Names
    <3> QED
      BY <3>1, <3>2 DEF MInv, Lineage
  <2>17. NoLostExit'
    <3>1. ASSUME NEW q \in Slot, proc'[q].state = "SLEEPING", proc'[q].chan = q
          PROVE  Children(q)' # {} /\ Zombies(q)' = {}
      <4>1. q # np /\ q # p /\ proc[q].state = "SLEEPING" /\ proc[q].chan = q
        BY <2>2, <2>6, <2>7, <3>1
      <4>2. Children(q) # {} /\ Zombies(q) = {}
        BY <4>1 DEF MInv, NoLostExit
      <4>3. \A x \in Slot : proc'[x].parent = q <=> proc[x].parent = q
        BY <2>1, <2>6, <2>7, <4>1, Names
      <4>4. \A x \in Slot : proc'[x].state = "ZOMBIE" <=> proc[x].state = "ZOMBIE"
        BY <2>1, <2>6, <2>7
      <4>5. Children(q)' = Children(q) /\ Zombies(q)' = Zombies(q)
        BY <4>3, <4>4 DEF Children, Zombies
      <4> QED
        BY <4>2, <4>5
    <3> QED
      BY <3>1 DEF NoLostExit
  <2>18. Rest'
    BY <2>9, <2>11, <2>12, <2>13, <2>14, <2>15, <2>16, <2>17 DEF Rest
  <2> QED
    BY <1>1, <2>7, <2>18, Same, TableStep
<1> QED
  BY <1>2, <1>3 DEF ForkCopy

\* wakeup1(), and the loop of exit() over the children.
LEMMA WokenTable ==
    ASSUME NEW table \in [Slot -> Procs], NEW ch
    PROVE  /\ Wakeup1(table, ch) \in [Slot -> Procs]
           /\ \A q \in Slot :
                 /\ Wakeup1(table, ch)[q].parent = table[q].parent
                 /\ Wakeup1(table, ch)[q].pid = table[q].pid
                 /\ Wakeup1(table, ch)[q].chan = table[q].chan
                 /\ Wakeup1(table, ch)[q].state = IF table[q].state = "SLEEPING" /\ table[q].chan = ch
                                                  THEN "RUNNABLE" ELSE table[q].state
<1> DEFINE W == Wakeup1(table, ch)
<1>1. ASSUME NEW q \in Slot
      PROVE  /\ W[q] \in Procs
             /\ W[q].parent = table[q].parent /\ W[q].pid = table[q].pid /\ W[q].chan = table[q].chan
             /\ W[q].state = IF table[q].state = "SLEEPING" /\ table[q].chan = ch
                             THEN "RUNNABLE" ELSE table[q].state
  <2>1. table[q] \in Procs /\ "RUNNABLE" \in States
    BY DEF States
  <2> DEFINE r == [table[q] EXCEPT !.state = "RUNNABLE"]
  <2>2. r \in Procs
    BY <2>1, Updated
  <2>3. r.parent = table[q].parent /\ r.pid = table[q].pid /\ r.chan = table[q].chan /\ r.state = "RUNNABLE"
    BY <2>1 DEF Procs
  <2>4. W[q] = IF table[q].state = "SLEEPING" /\ table[q].chan = ch THEN r ELSE table[q]
    BY DEF Wakeup1
  <2> HIDE DEF r, W
  <2> QED
    BY <2>1, <2>2, <2>3, <2>4
<1>2. W = [q \in Slot |-> W[q]]
  BY DEF Wakeup1
<1> HIDE DEF W
<1>3. W \in [Slot -> Procs]
  BY <1>1, <1>2
<1> QED
  BY <1>1, <1>3 DEF W

LEMMA OrphanedTable ==
    ASSUME NEW table \in [Slot -> Procs], NEW p \in Slot
    PROVE  /\ Orphaned(table, p) \in [Slot -> Procs]
           /\ \A q \in Slot :
                 /\ Orphaned(table, p)[q].parent = IF proc[q].parent = p THEN initproc ELSE table[q].parent
                 /\ Orphaned(table, p)[q].pid = table[q].pid
                 /\ Orphaned(table, p)[q].chan = table[q].chan
                 /\ Orphaned(table, p)[q].state = table[q].state
<1> DEFINE W == Orphaned(table, p)
<1>1. ASSUME NEW q \in Slot
      PROVE  /\ W[q] \in Procs
             /\ W[q].parent = IF proc[q].parent = p THEN initproc ELSE table[q].parent
             /\ W[q].pid = table[q].pid /\ W[q].chan = table[q].chan /\ W[q].state = table[q].state
  <2>1. table[q] \in Procs /\ initproc \in Slot \cup {NONE}
    BY Names
  <2> DEFINE r == [table[q] EXCEPT !.parent = initproc]
  <2>2. r \in Procs
    BY <2>1, Updated
  <2>3. r.parent = initproc /\ r.pid = table[q].pid /\ r.chan = table[q].chan /\ r.state = table[q].state
    BY <2>1 DEF Procs
  <2>4. W[q] = IF proc[q].parent = p THEN r ELSE table[q]
    BY DEF Orphaned
  <2> HIDE DEF r, W
  <2> QED
    BY <2>1, <2>2, <2>3, <2>4
<1>2. W = [q \in Slot |-> W[q]]
  BY DEF Orphaned
<1> HIDE DEF W
<1>3. W \in [Slot -> Procs]
  BY <1>1, <1>2
<1> QED
  BY <1>1, <1>3 DEF W

\* The table after exit() has passed on its children.
LEMMA LeftTable ==
    ASSUME MInv, NEW p \in Slot
    PROVE  /\ LeaveChildren(p) \in [Slot -> Procs]
           /\ \A q \in Slot :
                 /\ LeaveChildren(p)[q].parent = IF proc[q].parent = p THEN initproc ELSE proc[q].parent
                 /\ LeaveChildren(p)[q].pid = proc[q].pid
                 /\ LeaveChildren(p)[q].chan = proc[q].chan
                 /\ LeaveChildren(p)[q].state =
                       IF /\ proc[q].state = "SLEEPING"
                          /\ proc[q].chan = proc[p].parent \/ (Zombies(p) # {} /\ proc[q].chan = initproc)
                       THEN "RUNNABLE" ELSE proc[q].state
<1> DEFINE A == Wakeup1(proc, proc[p].parent)
           B == Orphaned(A, p)
           C == Wakeup1(B, initproc)
           D == LeaveChildren(p)
<1>1. /\ A \in [Slot -> Procs]
      /\ \A q \in Slot :
            /\ A[q].parent = proc[q].parent /\ A[q].pid = proc[q].pid /\ A[q].chan = proc[q].chan
            /\ A[q].state = IF proc[q].state = "SLEEPING" /\ proc[q].chan = proc[p].parent
                            THEN "RUNNABLE" ELSE proc[q].state
  BY TableFacts, WokenTable
<1> HIDE DEF A
<1>2. /\ B \in [Slot -> Procs]
      /\ \A q \in Slot :
            /\ B[q].parent = IF proc[q].parent = p THEN initproc ELSE A[q].parent
            /\ B[q].pid = A[q].pid /\ B[q].chan = A[q].chan /\ B[q].state = A[q].state
  BY <1>1, OrphanedTable
<1> HIDE DEF B
<1>3. /\ C \in [Slot -> Procs]
      /\ \A q \in Slot :
            /\ C[q].parent = B[q].parent /\ C[q].pid = B[q].pid /\ C[q].chan = B[q].chan
            /\ C[q].state = IF B[q].state = "SLEEPING" /\ B[q].chan = initproc
                            THEN "RUNNABLE" ELSE B[q].state
  BY <1>2, WokenTable
<1> HIDE DEF C
<1>4. D = IF Zombies(p) = {} THEN B ELSE C
  BY DEF LeaveChildren, A, B, C
<1> HIDE DEF D
<1>5. CASE Zombies(p) = {}
  <2>1. D = B
    BY <1>4, <1>5
  <2>2. \A q \in Slot :
           /\ D[q].parent = IF proc[q].parent = p THEN initproc ELSE proc[q].parent
           /\ D[q].pid = proc[q].pid /\ D[q].chan = proc[q].chan
           /\ D[q].state = IF proc[q].state = "SLEEPING" /\ proc[q].chan = proc[p].parent
                           THEN "RUNNABLE" ELSE proc[q].state
    BY <1>1, <1>2, <2>1
  <2> QED
    BY <1>2, <1>5, <2>1, <2>2 DEF D
<1>6. CASE Zombies(p) # {}
  <2>1. D = C
    BY <1>4, <1>6
  <2>2. \A q \in Slot :
           /\ D[q].parent = IF proc[q].parent = p THEN initproc ELSE proc[q].parent
           /\ D[q].pid = proc[q].pid /\ D[q].chan = proc[q].chan
    BY <1>1, <1>2, <1>3, <2>1
  <2>3. \A q \in Slot :
           D[q].state = IF proc[q].state = "SLEEPING"
                           /\ (proc[q].chan = proc[p].parent \/ proc[q].chan = initproc)
                        THEN "RUNNABLE" ELSE proc[q].state
    BY <1>1, <1>2, <1>3, <2>1
  <2> QED
    BY <1>3, <1>6, <2>1, <2>2, <2>3 DEF D
<1> QED
  BY <1>5, <1>6

\* exit().
LEMMA ExitStep ==
    ASSUME MInv, NEW c \in CPU, NEW p \in Slot, Exit(c, p)
    PROVE  MInv'
<1>1. CASE Fail("panic")
  BY <1>1, FailStep
<1>2. CASE /\ p # initproc /\ ptlock = NONE
           /\ proc' = [LeaveChildren(p) EXCEPT ![p].state = "ZOMBIE"]
           /\ stack' = [stack EXCEPT ![p] = <<>>]
           /\ Sched(c)
           /\ UNCHANGED <<queue, mode, ticks, nextpid, sched, irq, fault>>
  <2> DEFINE T == LeaveChildren(p)
             r == [T[p] EXCEPT !.state = "ZOMBIE"]
             woken(q) == \/ proc[q].chan = proc[p].parent
                         \/ (Zombies(p) # {} /\ proc[q].chan = initproc)
  <2>1. /\ cpu[c] = p /\ irq[c] = "none" /\ proc[p].state = "RUNNING"
    BY AtFacts DEF Exit
  <2>2. /\ T \in [Slot -> Procs]
        /\ \A q \in Slot :
              /\ T[q].parent = IF proc[q].parent = p THEN initproc ELSE proc[q].parent
              /\ T[q].pid = proc[q].pid /\ T[q].chan = proc[q].chan
              /\ T[q].state = IF proc[q].state = "SLEEPING" /\ woken(q) THEN "RUNNABLE" ELSE proc[q].state
    BY LeftTable
  <2> HIDE DEF T, woken
  <2>3. proc' = [T EXCEPT ![p] = r]
    BY <1>2 DEF T
  <2>4. r \in Procs
    <3>1. T[p] \in Procs /\ "ZOMBIE" \in States
      BY <2>2 DEF States
    <3> QED
      BY <3>1, Updated
  <2>5. r.state = "ZOMBIE" /\ r.parent = T[p].parent /\ r.pid = T[p].pid /\ r.chan = T[p].chan
    BY <2>2 DEF Procs
  <2> HIDE DEF r
  <2>6. proc' \in [Slot -> Procs] /\ proc'[p] = r /\ \A q \in Slot : q # p => proc'[q] = T[q]
    BY <2>2, <2>3, <2>4
  <2>7. proc[p].parent # p
    BY DEF MInv, Lineage
  <2>8. /\ proc'[p].state = "ZOMBIE" /\ proc'[p].parent = proc[p].parent /\ proc'[p].pid = proc[p].pid
        /\ \A q \in Slot : q # p =>
              /\ proc'[q].parent = IF proc[q].parent = p THEN initproc ELSE proc[q].parent
              /\ proc'[q].pid = proc[q].pid /\ proc'[q].chan = proc[q].chan
              /\ proc'[q].state = IF proc[q].state = "SLEEPING" /\ woken(q) THEN "RUNNABLE" ELSE proc[q].state
    BY <2>2, <2>5, <2>6, <2>7
  <2>9. <<>> \in Stacks
    <3>1. <<>> \in Seq(Frames) /\ Len(<<>>) = 0
      BY EmptySeq
    <3> QED
      BY <3>1 DEF Stacks
  <2>10. stack' \in [Slot -> Stacks] /\ Parked' /\ Interrupted' /\ OneCpu'
    <3>1. \A q \in Slot : q # p => Mild(q)
      BY <2>8 DEF Mild
    <3> QED
      BY <1>2, <2>1, <2>8, <2>9, <3>1, SchedStep
  <2>11. Allocated' /\ PidsLeft'
    <3>1. \A q \in Slot : proc[q].state = "EMBRYO" => proc'[q].state = "EMBRYO"
      BY <2>1, <2>8
    <3>2. stack'[p] = <<>> /\ \A q \in Slot : q # p => stack'[q] = stack[q]
      BY <1>2 DEF MInv
    <3> QED
      BY <1>2, <3>1, <3>2, ForksKept
  <2>12. Lineage'
    <3>1. proc[initproc].parent = NONE /\ proc[initproc].state \notin {"UNUSED", "EMBRYO", "ZOMBIE"}
          /\ initproc \in Slot /\ initproc # p
      BY <1>2, Names DEF MInv, Lineage
    <3>2. ASSUME NEW q \in Slot
          PROVE  /\ proc'[q].state \in {"UNUSED", "EMBRYO"} => proc'[q].parent = NONE
                 /\ proc'[q].state # "UNUSED" => proc'[q].pid # 0
                 /\ proc'[q].parent # q
      <4>1. CASE q = p
        BY <2>1, <2>8, <4>1 DEF MInv, Lineage
      <4>2. CASE q # p
        <5>1. proc'[q].state \in {"UNUSED", "EMBRYO"} => proc[q].state \in {"UNUSED", "EMBRYO"}
          BY <2>8, <4>2
        <5>2. proc[q].parent = p => q # initproc
          BY <3>1, Names
        <5> QED
          BY <2>8, <3>1, <4>2, <5>1, <5>2, Names DEF MInv, Lineage
      <4> QED
        BY <4>1, <4>2
    <3>3. proc'[initproc].parent = NONE /\ proc'[initproc].state \notin {"UNUSED", "EMBRYO", "ZOMBIE"}
      BY <2>8, <3>1, Names
    <3> QED
      BY <3>2, <3>3 DEF Lineage
  <2>13. NoLostExit'
    <3>1. ASSUME NEW q \in Slot, proc'[q].state = "SLEEPING", proc'[q].chan = q
          PROVE  Children(q)' # {} /\ Zombies(q)' = {}
      <4>1. q # p /\ proc[q].state = "SLEEPING" /\ proc[q].chan = q /\ ~woken(q)
        BY <2>8, <3>1
      <4>2. q # proc[p].parent /\ (Zombies(p) = {} \/ q # initproc)
        BY <4>1 DEF woken
      <4>3. Children(q) # {} /\ Zombies(q) = {}
        BY <4>1 DEF MInv, NoLostExit
      <4>4. PICK x \in Slot : proc[x].parent = q
        BY <4>3 DEF Children
      <4>5. x # p /\ proc'[x].parent = q
        BY <2>8, <4>1, <4>2, <4>4
      <4>6. Children(q)' # {}
        BY <4>5 DEF Children
      <4>7. ASSUME NEW y \in Slot, proc'[y].parent = q, proc'[y].state = "ZOMBIE" PROVE FALSE
        <5>1. y # p
          BY <2>8, <4>2, <4>7
        <5>2. proc[y].state = "ZOMBIE"
          BY <2>8, <4>7, <5>1
        <5>3. CASE proc[y].parent = p
          <6>1. y \in Zombies(p) /\ q = initproc
            BY <2>8, <4>7, <5>1, <5>2, <5>3 DEF Zombies, Children
          <6> QED
            BY <4>2, <6>1
        <5>4. CASE proc[y].parent # p
          <6>1. y \in Zombies(q)
            BY <2>8, <4>7, <5>1, <5>2, <5>4 DEF Zombies, Children
          <6> QED
            BY <4>3, <6>1
        <5> QED
          BY <5>3, <5>4
      <4>8. Zombies(q)' = {}
        BY <4>7 DEF Zombies, Children
      <4> QED
        BY <4>6, <4>8
    <3> QED
      BY <3>1 DEF NoLostExit
  <2>14. Rest'
    BY <2>10, <2>11, <2>12, <2>13 DEF Rest
  <2> QED
    BY <1>2, <2>6, <2>14, Same, TableStep
<1> QED
  BY <1>1, <1>2 DEF Exit

\* The queue that a reaped process leaves.
LEMMA ReapedQueue ==
    ASSUME NEW table, NEW s \in Seq(Slot), Len(s) <= NPROC
    PROVE  Reaped(table, s) \in Seq(Slot) /\ Len(Reaped(table, s)) <= NPROC
<1> DEFINE S == {k \in DOMAIN s : table[s[k]].state = "UNUSED"}
<1>1. DOMAIN s = 1 .. Len(s) /\ Len(s) \in Nat
  BY LenProperties
<1>2. S \subseteq 1 .. Len(s) /\ S \in SUBSET Nat
  BY <1>1
<1>3. Reaped(table, s) = IF S = {} THEN s ELSE RemoveAt(s, First(S))
  BY DEF Reaped
<1> HIDE DEF S
<1>4. CASE S # {}
  <2>1. First(S) \in 1 .. Len(s)
    BY <1>2, <1>4, FirstIn
  <2>2. RemoveAt(s, First(S)) \in Seq(Slot) /\ Len(RemoveAt(s, First(S))) = Len(s) - 1
    BY <2>1, Removed
  <2>3. \A a, b \in Nat : a <= b => a - 1 <= b
    OBVIOUS
  <2>4. Len(s) - 1 <= NPROC
    BY <1>1, <2>3, MlfqAssumption
  <2> QED
    BY <1>3, <1>4, <2>2, <2>4
<1> QED
  BY <1>3, <1>4

\* wait().
LEMMA WaitStep ==
    ASSUME MInv, NEW c \in CPU, NEW p \in Slot, Wait(c, p)
    PROVE  MInv'
<1>1. At(c, p, "wait") /\ ptlock \in {NONE, c} /\ UNCHANGED <<mode, ticks, nextpid, sched, irq, fault>>
  BY DEF Wait
<1>2. cpu[c] = p /\ irq[c] = "none" /\ proc[p].state = "RUNNING" /\ stack[p] # <<>>
  BY <1>1, AtFacts
<1>3. CASE /\ Zombies(p) = {} /\ stack' = Finish(p) /\ ptlock' = NONE /\ UNCHANGED <<proc, queue, cpu>>
  <2>1. Rest'
    BY <1>1, <1>3, Unchanged, Finishes
  <2> QED
    BY <1>1, <1>3, <2>1, TableFacts, Same, TableStep
<1>4. CASE /\ Zombies(p) = {} /\ Children(p) # {}
           /\ proc' = [proc EXCEPT ![p].chan = p, ![p].state = "SLEEPING"]
           /\ stack' = Goto(p, "wait_wake", 0, 0) /\ Sched(c) /\ UNCHANGED queue
  <2> DEFINE r == [proc[p] EXCEPT !.chan = p, !.state = "SLEEPING"]
  <2>1. proc[p] \in Procs /\ p \in Slot \cup {NONE, TICKS} /\ "SLEEPING" \in States
    BY TableFacts DEF States
  <2>2. proc' = [proc EXCEPT ![p] = r]
    BY <1>4, <2>1, TableFacts
  <2>3. r \in Procs
    BY <2>1, Updated
  <2>4. r.state = "SLEEPING" /\ r.parent = proc[p].parent /\ r.pid = proc[p].pid
    BY <2>1 DEF Procs
  <2> HIDE DEF r
  <2>5. "wait_wake" \in Resumable /\ "wait" \notin IrqCode /\ 0 \in Nat
    BY DEF Resumable, IrqCode
  <2>6. /\ proc' \in [Slot -> Procs] /\ stack' \in [Slot -> Stacks]
        /\ Parked' /\ Interrupted' /\ OneCpu' /\ Allocated' /\ PidsLeft' /\ Lineage'
        /\ proc'[p] = r /\ \A x \in Slot : x # p => proc'[x] = proc[x]
    BY <1>1, <1>4, <2>2, <2>3, <2>4, <2>5, LeaveParts
  <2>7. NoLostExit'
    <3>1. \A x \in Slot : /\ proc'[x].parent = proc[x].parent
                          /\ proc'[x].state = "ZOMBIE" <=> proc[x].state = "ZOMBIE"
      BY <1>2, <2>4, <2>6
    <3>2. \A q \in Slot : Children(q)' = Children(q) /\ Zombies(q)' = Zombies(q)
      BY <3>1 DEF Children, Zombies
    <3>3. ASSUME NEW q \in Slot, proc'[q].state = "SLEEPING", proc'[q].chan = q
          PROVE  Children(q) # {} /\ Zombies(q) = {}
      <4>1. CASE q = p
        BY <1>4, <4>1
      <4>2. CASE q # p
        BY <2>6, <3>3, <4>2 DEF MInv, NoLostExit
      <4> QED
        BY <4>1, <4>2
    <3> QED
      BY <3>2, <3>3 DEF NoLostExit
  <2>8. Rest'
    BY <2>6, <2>7 DEF Rest
  <2> QED
    BY <1>1, <1>4, <2>6, <2>8, Same, TableStep
<1>5. CASE Zombies(p) # {}
  <2> DEFINE z == First(Zombies(p))
             freed == [proc EXCEPT ![z].pid = 0, ![z].parent = NONE, ![z].killed = FALSE,
                                   ![z].state = "UNUSED"]
             l == proc[z].qlevel
  <2>1. z \in Slot /\ proc[z].parent = p /\ proc[z].state = "ZOMBIE"
    <3>1. Zombies(p) \in SUBSET Nat
      BY Names DEF Zombies, Children
    <3>2. z \in Zombies(p)
      BY <1>5, <3>1, FirstIn
    <3> QED
      BY <3>2 DEF Zombies, Children
  <2>2. /\ proc' = freed
        /\ queue' = [queue EXCEPT ![l] = Reaped(freed, @)]
        /\ stack' = Finish(p) /\ ptlock' = NONE /\ UNCHANGED cpu
    BY <1>5 DEF Wait
  <2> HIDE DEF z
  <2>3. PICK r \in Procs : /\ proc' = [proc EXCEPT ![z] = r]
                           /\ r.state = "UNUSED" /\ r.parent = NONE /\ r.pid = 0
    <3>1. proc[z] \in Procs /\ 0 \in 0 .. MaxPid /\ NONE \in Slot \cup {NONE} /\ "UNUSED" \in States
      BY <2>1, TableFacts, MlfqAssumption DEF States
    <3>2. PICK k \in BOOLEAN : proc' = [proc EXCEPT ![z].pid = 0, ![z].parent = NONE, ![z].killed = k,
                                                     ![z].state = "UNUSED"]
      <4>1. FALSE \in BOOLEAN
        OBVIOUS
      <4> QED
        BY <2>2, <4>1, Zenon
    <3> DEFINE r == [proc[z] EXCEPT !.pid = 0, !.parent = NONE, !.killed = k, !.state = "UNUSED"]
    <3>3. proc' = [proc EXCEPT ![z] = r]
      BY <2>1, <3>1, <3>2, TableFacts DEF Procs
    <3>4. r \in Procs
      BY <3>1, Updated
    <3>5. r.state = "UNUSED" /\ r.parent = NONE /\ r.pid = 0
      BY <3>1 DEF Procs
    <3> HIDE DEF r
    <3> QED
      BY <3>3, <3>4, <3>5
  <2>4. proc' \in [Slot -> Procs] /\ proc'[z] = r /\ \A x \in Slot : x # z => proc'[x] = proc[x]
    BY <2>1, <2>3, SlotChange
  <2>5. z # p /\ z # initproc
    BY <1>2, <2>1, Names DEF MInv, Lineage
  <2>6. PICK t \in Stacks : /\ stack' = [stack EXCEPT ![p] = t] /\ t # <<>> /\ Len(t) = Len(stack[p])
                            /\ (Len(t) = 1 => t[1].at = "ret")
    BY <1>1, <2>2, FinishFacts
  <2>7. Len(t) = 1
    <3>1. "wait" \in Code \ IrqCode
      BY DEF Code, SystemCalls, IrqCode
    <3> QED
      BY <1>1, <2>6, <3>1, CallTop
  <2>8. stack' \in [Slot -> Stacks] /\ Parked' /\ Interrupted' /\ OneCpu'
    <3>1. \A q \in Slot : Mild(q) \/ {proc[q].state, proc'[q].state} \subseteq Dead
      BY <2>1, <2>3, <2>4 DEF Mild, Dead
    <3> QED
      BY <1>1, <1>2, <2>2, <2>6, <3>1, MoveStep, ZenonT(40)
  <2>9. Allocated' /\ PidsLeft'
    <3>1. \A q \in Slot : proc[q].state = "EMBRYO" => proc'[q].state = "EMBRYO"
      BY <2>1, <2>4
    <3>2. stack'[p] = t /\ \A q \in Slot : q # p => stack'[q] = stack[q]
      BY <2>6 DEF MInv
    <3>3. Plain(t[1])
      BY <2>6, <2>7 DEF Plain
    <3> QED
      BY <1>1, <3>1, <3>2, <3>3, ForksKept
  <2>10. Lineage'
    <3>1. ASSUME NEW q \in Slot
          PROVE  /\ proc'[q].state \in {"UNUSED", "EMBRYO"} => proc'[q].parent = NONE
                 /\ proc'[q].state # "UNUSED" => proc'[q].pid # 0
                 /\ proc'[q].parent # q
      <4>1. CASE q = z
        BY <2>3, <2>4, <4>1, Names
      <4>2. CASE q # z
        BY <2>4, <4>2 DEF MInv, Lineage
      <4> QED
        BY <4>1, <4>2
    <3>2. proc'[initproc] = proc[initproc]
      BY <2>4, <2>5, Names
    <3> QED
      BY <3>1, <3>2 DEF MInv, Lineage
  <2>11. NoLostExit'
    <3>1. ASSUME NEW q \in Slot, proc'[q].state = "SLEEPING", proc'[q].chan = q
          PROVE  Children(q)' # {} /\ Zombies(q)' = {}
      <4>1. q # z /\ q # p /\ proc[q].state = "SLEEPING" /\ proc[q].chan = q
        BY <1>2, <2>3, <2>4, <2>5, <3>1
      <4>2. Children(q) # {} /\ Zombies(q) = {}
        BY <4>1 DEF MInv, NoLostExit
      <4>3. \A x \in Slot : proc'[x].parent = q <=> proc[x].parent = q
        BY <2>1, <2>3, <2>4, <4>1, Names
      <4>4. \A x \in Slot : proc[x].parent = q => (proc'[x].state = "ZOMBIE" <=> proc[x].state = "ZOMBIE")
        BY <2>1, <2>4, <4>1
      <4>5. Children(q)' = Children(q) /\ Zombies(q)' = Zombies(q)
        BY <4>3, <4>4 DEF Children, Zombies
      <4> QED
        BY <4>2, <4>5
    <3> QED
      BY <3>1 DEF NoLostExit
  <2>12. Queues'
    <3>1. /\ DOMAIN queue = Level \cup {MOQ}
          /\ \A k \in Level \cup {MOQ} : queue[k] \in Seq(Slot) /\ Len(queue[k]) <= NPROC
      BY DEF MInv, Types
    <3>2. l \in Level \cup {MOQ}
      BY <2>1, TableFacts DEF Procs
    <3> HIDE DEF l, freed
    <3>3. Reaped(freed, queue[l]) \in Seq(Slot) /\ Len(Reaped(freed, queue[l])) <= NPROC
      BY <3>1, <3>2, ReapedQueue
    <3> QED
      BY <2>2, <3>1, <3>2, <3>3 DEF Queues
  <2>13. Rest'
    BY <2>8, <2>9, <2>10, <2>11 DEF Rest
  <2> QED
    BY <1>1, <2>2, <2>4, <2>12, <2>13, Same, TableStep
<1> QED
  BY <1>3, <1>4, <1>5 DEF Wait

LEMMA TypedStep ==
    ASSUME MInv, Rest', proc' \in [Slot -> Procs], ptlock' \in CPU \cup {NONE},
           cpu' \in [CPU -> Slot \cup {NONE}], Queues', mode' \in {0, 1},
           ticks' \in 0 .. TickModulus - 1, nextpid' = nextpid,
           sched' \in [CPU -> {"loop", "break", "unmonopolize", "reset", "moq"}],
           irq' \in [CPU -> {"none", "mode", "boost"}], fault' = fault
    PROVE  MInv'
BY DEF MInv, Rest, Types, Stacks, Procs, Queues

\* scheduler().
LEMMA SchedulerStep ==
    ASSUME MInv, NEW c \in CPU, Scheduler(c)
    PROVE  MInv'
<1>1. cpu[c] = NONE /\ irq[c] = "none" /\ ptlock \in {NONE, c}
      /\ UNCHANGED <<queue, nextpid, irq, stack, fault>>
  BY DEF Scheduler, ScheduleMlfq, ScheduleMoq, ScheduleUnmonopolize, ScheduleReset, ScheduleMoqLast,
         ScheduleRelease, Scheduling
<1>2. mode' \in {0, 1} /\ ticks' \in 0 .. TickModulus - 1 /\ irq' \in [CPU -> {"none", "mode", "boost"}]
  BY MlfqAssumption DEF MInv, Types, Scheduler, ScheduleMlfq, ScheduleMoq, ScheduleUnmonopolize,
         ScheduleReset, ScheduleMoqLast, ScheduleRelease
<1>3. sched' \in [CPU -> {"loop", "break", "unmonopolize", "reset", "moq"}]
  BY DEF MInv, Types, Scheduler, ScheduleMlfq, ScheduleMoq, ScheduleUnmonopolize,
         ScheduleReset, ScheduleMoqLast, ScheduleRelease
<1>4. \/ \E l \in Level \cup {MOQ} : levelSchedule(c, l)
      \/ UNCHANGED <<proc, cpu>> /\ (ptlock' = ptlock \/ ptlock' = NONE)
  BY DEF Scheduler, ScheduleMlfq, ScheduleMoq, ScheduleUnmonopolize, ScheduleReset, ScheduleMoqLast,
         ScheduleRelease
<1>5. CASE UNCHANGED <<proc, cpu>> /\ (ptlock' = ptlock \/ ptlock' = NONE)
  <2>1. Rest'
    BY <1>1, <1>5, IdleStep
  <2> QED
    BY <1>1, <1>2, <1>3, <1>5, <2>1, TableFacts, Same, TypedStep
<1>6. ASSUME NEW l \in Level \cup {MOQ}, levelSchedule(c, l) PROVE MInv'
  <2>1. PICK p \in Slot : Rest' /\ proc' = [proc EXCEPT ![p].state = "RUNNING"] /\ cpu' = [cpu EXCEPT ![c] = p]
    BY <1>1, <1>6, SwitchStep
  <2>2. ptlock' = c
    BY <1>6 DEF levelSchedule
  <2> DEFINE r == [proc[p] EXCEPT !.state = "RUNNING"]
  <2>3. r \in Procs
    BY TableFacts, Updated DEF States
  <2>4. proc' = [proc EXCEPT ![p] = r]
    BY <2>1
  <2> HIDE DEF r
  <2>5. proc' \in [Slot -> Procs]
    BY <2>3, <2>4, SlotChange
  <2>6. cpu' \in [CPU -> Slot \cup {NONE}] /\ ptlock' \in CPU \cup {NONE}
    BY <2>1, <2>2 DEF MInv, Types
  <2> QED
    BY <1>1, <1>2, <1>3, <2>1, <2>5, <2>6, Same, TypedStep
<1> QED
  BY <1>4, <1>5, <1>6

\* The tick, on the CPU that counts it and on the others.
LEMMA ClockTickStep ==
    ASSUME MInv, NEW c \in CPU, ClockTick(c)
    PROVE  MInv'
<1>1. /\ Interruptible(c) /\ ptlock = NONE /\ ticks' = (ticks + 1) % TickModulus
      /\ proc' = Wakeup1(proc, TICKS) /\ irq' = [irq EXCEPT ![c] = "mode"]
      /\ UNCHANGED <<queue, mode, nextpid, ptlock, cpu, sched, stack, fault>>
  BY DEF ClockTick
<1>2. /\ proc' \in [Slot -> Procs]
      /\ \A q \in Slot :
            /\ proc'[q].parent = proc[q].parent /\ proc'[q].pid = proc[q].pid /\ proc'[q].chan = proc[q].chan
            /\ proc'[q].state = IF proc[q].state = "SLEEPING" /\ proc[q].chan = TICKS
                                THEN "RUNNABLE" ELSE proc[q].state
  BY <1>1, TableFacts, WokenTable
<1>3. Tame
  BY <1>2 DEF Tame, Mild
<1>4. Rest'
  BY <1>1, <1>3, TickStep, Names
<1>5. ticks' \in 0 .. TickModulus - 1
  <2>1. ticks + 1 \in Nat /\ TickModulus \in Nat \ {0}
    BY MlfqAssumption DEF MInv, Types
  <2> QED
    BY <1>1, <2>1
<1>6. irq' \in [CPU -> {"none", "mode", "boost"}] /\ sched' \in [CPU -> {"loop", "break", "unmonopolize", "reset", "moq"}]
  BY <1>1 DEF MInv, Types
<1> QED
  BY <1>1, <1>2, <1>4, <1>5, <1>6, Same, TypedStep

LEMMA ClockModeStep ==
    ASSUME MInv, NEW c \in CPU, ClockMode(c) \/ LocalTick(c)
    PROVE  MInv'
<1>1. UNCHANGED <<proc, queue, mode, ticks, nextpid, ptlock, cpu, sched, fault>>
  BY DEF ClockMode, LocalTick
<1>2. irq' \in [CPU -> {"none", "mode", "boost"}] /\ sched' \in [CPU -> {"loop", "break", "unmonopolize", "reset", "moq"}]
      /\ ticks' \in 0 .. TickModulus - 1
  BY <1>1 DEF MInv, Types, ClockMode, LocalTick
<1>3. CASE irq[c] = "mode" /\ irq' = [irq EXCEPT ![c] = "boost"] /\ UNCHANGED stack
  <2>1. \A d \in CPU : irq'[d] # "none" => irq[d] # "none"
    BY <1>3 DEF MInv, Types
  <2>2. Interrupted'
    BY <1>1, <1>3, <2>1 DEF MInv, Interrupted, Top
  <2>3. Rest'
    BY <1>1, <1>3, <2>2 DEF MInv, Rest, Parked, Allocated, Allocates, Lineage, PidsLeft, Forking, OneCpu,
                            NoLostExit, Children, Zombies, Top
  <2> QED
    BY <1>1, <1>2, <2>3, TableFacts, Same, TypedStep
<1>4. CASE irq[c] = "mode" /\ irq' = [irq EXCEPT ![c] = "none"] /\ EnterYield(c)
  <2>1. ptlock # c /\ (cpu[c] # NONE /\ stack[cpu[c]] # <<>> => ~Top(cpu[c]).irq)
    <3>1. irq[c] # "none"
      BY <1>4
    <3> QED
      BY <3>1, Zenon DEF MInv, Interrupted
  <2>2. Rest'
    BY <1>1, <1>4, <2>1, Unchanged, PushStep
  <2> QED
    BY <1>1, <1>2, <2>2, TableFacts, Same, TypedStep
<1>5. CASE LocalTick(c)
  <2>1. Interruptible(c) /\ EnterYield(c) /\ irq' = irq
    BY <1>5 DEF LocalTick
  <2>2. ptlock # c /\ irq[c] = "none" /\ (cpu[c] # NONE /\ stack[cpu[c]] # <<>> => ~Top(cpu[c]).irq)
    BY <2>1, Zenon DEF Interruptible
  <2>3. Rest'
    BY <1>1, <2>1, <2>2, Unchanged, PushStep
  <2> QED
    BY <1>1, <1>2, <2>3, TableFacts, Same, TypedStep
<1> QED
  BY <1>3, <1>4, <1>5 DEF ClockMode

\* boost().
LEMMA BoostStep ==
    ASSUME MInv, NEW c \in CPU, boost(c)
    PROVE  MInv'
<1> DEFINE moved == queue[1] \o queue[2] \o queue[3]
           all   == queue[0] \o moved
<1>1. CASE Fail("overrun")
  BY <1>1, FailStep
<1>2. CASE /\ Len(all) <= NPROC
           /\ queue' = [l \in DOMAIN queue |->
                              IF l = 0 THEN all ELSE IF l = MOQ THEN queue[l] ELSE <<>>]
           /\ proc' = [p \in Slot |-> IF p \in ToSet(moved) THEN Boosted(p) ELSE proc[p]]
           /\ irq' = [irq EXCEPT ![c] = "none"]
           /\ EnterYield(c)
           /\ UNCHANGED <<mode, ticks, nextpid, ptlock, cpu, sched, fault>>
  <2>1. irq[c] = "boost"
    BY DEF boost
  <2>2. all \in Seq(Slot)
    <3>1. queue[0] \in Seq(Slot) /\ queue[1] \in Seq(Slot) /\ queue[2] \in Seq(Slot) /\ queue[3] \in Seq(Slot)
      BY DEF MInv, Types, Level
    <3>2. queue[1] \o queue[2] \in Seq(Slot)
      BY <3>1, ConcatProperties
    <3>3. moved \in Seq(Slot)
      BY <3>1, <3>2, ConcatProperties
    <3> HIDE DEF moved
    <3> QED
      BY <3>1, <3>3, ConcatProperties
  <2> HIDE DEF all, moved
  <2>3. Queues'
    <3>1. DOMAIN queue = Level \cup {MOQ} /\ \A l \in DOMAIN queue : queue[l] \in Seq(Slot) /\ Len(queue[l]) <= NPROC
      BY DEF MInv, Types
    <3>2. <<>> \in Seq(Slot) /\ Len(<<>>) <= NPROC
      BY EmptySeq, MlfqAssumption
    <3>3. DOMAIN queue' = Level \cup {MOQ}
      BY <1>2, <3>1
    <3>4. ASSUME NEW l \in Level \cup {MOQ} PROVE queue'[l] \in Seq(Slot) /\ Len(queue'[l]) <= NPROC
      <4>1. queue'[l] = IF l = 0 THEN all ELSE IF l = MOQ THEN queue[l] ELSE <<>>
        BY <1>2, <3>1
      <4> QED
        BY <1>2, <2>2, <3>1, <3>2, <4>1
    <3> QED
      BY <3>3, <3>4 DEF Queues
  <2>4. ASSUME NEW q \in Slot
        PROVE  /\ proc'[q] \in Procs /\ proc'[q].parent = proc[q].parent /\ proc'[q].pid = proc[q].pid
               /\ proc'[q].chan = proc[q].chan /\ proc'[q].state = proc[q].state
    <3>1. proc[q] \in Procs /\ Slice[0] \in Nat /\ 0 \in Level \cup {MOQ}
      BY TableFacts, MlfqAssumption DEF Level
    <3>2. Boosted(q) \in Procs
      BY <3>1, Updated DEF Boosted
    <3>3. /\ Boosted(q).parent = proc[q].parent /\ Boosted(q).pid = proc[q].pid
          /\ Boosted(q).chan = proc[q].chan /\ Boosted(q).state = proc[q].state
      BY <3>1 DEF Boosted, Procs
    <3>4. proc'[q] = IF q \in ToSet(moved) THEN Boosted(q) ELSE proc[q]
      BY <1>2
    <3> QED
      BY <3>1, <3>2, <3>3, <3>4
  <2>5. proc' \in [Slot -> Procs]
    <3>1. proc' = [q \in Slot |-> proc'[q]]
      BY <1>2
    <3> QED
      BY <2>4, <3>1
  <2>6. Tame
    BY <2>4 DEF Tame, Mild
  <2>7. ptlock # c /\ (cpu[c] # NONE /\ stack[cpu[c]] # <<>> => ~Top(cpu[c]).irq)
    <3>1. irq[c] # "none"
      BY <2>1
    <3> QED
      BY <3>1, Zenon DEF MInv, Interrupted
  <2>8. Rest'
    BY <1>2, <2>6, <2>7, PushStep
  <2>9. irq' \in [CPU -> {"none", "mode", "boost"}] /\ sched' \in [CPU -> {"loop", "break", "unmonopolize", "reset", "moq"}]
        /\ ticks' \in 0 .. TickModulus - 1
    BY <1>2 DEF MInv, Types
  <2> QED
    BY <1>2, <2>3, <2>5, <2>8, <2>9, Same, TypedStep
<1> QED
  BY <1>1, <1>2 DEF boost

-------------------------------------------------------------------------------
(* The theorems *)

\* pinit() and userinit() establish the invariant.
LEMMA InitInv == Init => MInv
<1> SUFFICES ASSUME Init PROVE MInv
  OBVIOUS
<1> DEFINE u == <<Frame("forkret", 0, 0, FALSE)>>
<1>1. u \in Stacks /\ u # <<>> /\ Last(u).at = "forkret" /\ u[1].at = "forkret"
  <2>1. "forkret" \in SystemCalls \cup {"forkret"} /\ 0 \in Nat
    OBVIOUS
  <2> QED
    BY <2>1, CallFrame
<1>2. stack = [p \in Slot |-> IF p = initproc THEN u ELSE <<>>]
  BY DEF Init
<1> HIDE DEF u
<1>3. <<>> \in Stacks
  <2>1. <<>> \in Seq(Frames) /\ Len(<<>>) = 0
    BY EmptySeq
  <2> QED
    BY <2>1 DEF Stacks
<1>4. stack \in [Slot -> Stacks]
  BY <1>1, <1>2, <1>3
<1>5. Free \in Procs /\ Free.state = "UNUSED" /\ Free.parent = NONE
  <2>1. ASSUME NEW k \in BOOLEAN
        PROVE  [state |-> "UNUSED", pid |-> 0, parent |-> NONE, chan |-> NONE,
                killed |-> k, qlevel |-> 0, priority |-> 0, timeslice |-> 0] \in Procs
    BY MlfqAssumption DEF Procs, States, Level
  <2>2. FALSE \in BOOLEAN
    OBVIOUS
  <2>3. Free \in Procs
    BY <2>1, <2>2, Zenon DEF Free
  <2> QED
    BY <2>3 DEF Free
<1> DEFINE r == [Free EXCEPT !.state = "RUNNABLE", !.pid = 1, !.timeslice = Slice[0]]
<1>6. r \in Procs /\ r.state = "RUNNABLE" /\ r.pid = 1 /\ r.parent = NONE
  <2>1. Slice[0] \in Nat /\ 1 \in 0 .. MaxPid /\ "RUNNABLE" \in States
    BY MlfqAssumption DEF States
  <2>2. ASSUME NEW f \in Procs
        PROVE  LET s == [f EXCEPT !.state = "RUNNABLE", !.pid = 1, !.timeslice = Slice[0]]
               IN  s \in Procs /\ s.state = "RUNNABLE" /\ s.pid = 1 /\ s.parent = f.parent
    BY <2>1 DEF Procs
  <2> QED
    BY <1>5, <2>2
<1>7. proc = [p \in Slot |-> IF p = initproc THEN r ELSE Free]
  BY DEF Init
<1> HIDE DEF r
<1>8. proc \in [Slot -> Procs]
  BY <1>5, <1>6, <1>7
<1>9. /\ proc[initproc].state = "RUNNABLE" /\ proc[initproc].pid = 1 /\ proc[initproc].parent = NONE
      /\ \A p \in Slot : p # initproc => proc[p].state = "UNUSED" /\ proc[p].parent = NONE
  BY <1>5, <1>6, <1>7, Names
<1>10. Types
  <2>1. Queues
    <3>1. queue = [l \in Level \cup {MOQ} |-> IF l = 0 THEN <<initproc>> ELSE <<>>]
      BY DEF Init
    <3>2. <<initproc>> \in Seq(Slot) /\ Len(<<initproc>>) <= NPROC
      BY Names, MlfqAssumption
    <3>3. <<>> \in Seq(Slot) /\ Len(<<>>) <= NPROC
      BY EmptySeq, MlfqAssumption
    <3> QED
      BY <3>1, <3>2, <3>3 DEF Queues
  <2>2. /\ mode \in {0, 1} /\ ticks \in 0 .. TickModulus - 1 /\ nextpid \in 2 .. MaxPid + 1
        /\ ptlock \in CPU \cup {NONE} /\ cpu \in [CPU -> Slot \cup {NONE}]
        /\ sched \in [CPU -> {"loop", "break", "unmonopolize", "reset", "moq"}]
        /\ irq \in [CPU -> {"none", "mode", "boost"}] /\ fault \in {"none", "overrun", "panic"}
    BY MlfqAssumption DEF Init
  <2> QED
    BY <1>4, <1>8, <2>1, <2>2 DEF Types, Procs, Queues, Stacks
<1>11. Parked
  <2>1. \A p \in Slot :
          /\ proc[p].state \in {"UNUSED", "EMBRYO", "ZOMBIE"} => stack[p] = <<>>
          /\ proc[p].state \in {"RUNNABLE", "SLEEPING"} => stack[p] # <<>> /\ Top(p).at \in Resumable
    BY <1>1, <1>2, <1>9 DEF Top, Resumable
  <2>2. ptlock = NONE
    BY DEF Init
  <2> QED
    BY <2>1, <2>2, Names DEF Parked
<1>12. Interrupted
  BY DEF Interrupted, Init
<1>13. Allocated /\ PidsLeft
  <2>1. \A p \in Slot : stack[p] # <<>> => stack[p][1].at = "forkret"
    BY <1>1, <1>2
  <2>2. Allocated
    BY <2>1 DEF Allocated, Allocates
  <2>3. Forking = {}
    BY <2>1 DEF Forking
  <2>4. Cardinality(Forking) = 0
    BY <2>3, FS_EmptySet
  <2> QED
    BY <2>2, <2>4, MlfqAssumption DEF PidsLeft, Init
<1>14. Lineage
  BY <1>9, Names DEF Lineage
<1>15. OneCpu
  BY <1>9, Names DEF OneCpu, Init
<1>16. NoLostExit
  BY <1>9 DEF NoLostExit
<1> QED
  BY <1>4, <1>10, <1>11, <1>12, <1>13, <1>14, <1>15, <1>16 DEF MInv

LEMMA NextInv == MInv /\ [Next]_vars => MInv'
<1> SUFFICES ASSUME MInv, [Next]_vars PROVE MInv'
  OBVIOUS
<1>1. CASE UNCHANGED vars
  BY <1>1 DEF vars, MInv, Types, Parked, Interrupted, Allocated, Allocates, Lineage, PidsLeft, Forking,
              OneCpu, NoLostExit, Children, Zombies, Top
<1>2. ASSUME NEW c \in CPU, Clock(c) PROVE MInv'
  BY <1>2, ClockTickStep, ClockModeStep, BoostStep DEF Clock
<1>3. ASSUME NEW c \in CPU, NEW p \in Slot, Kernel(c, p) PROVE MInv'
  <2>1. CASE Resume(c, p) \/ Timer(c, p) \/ Return(c, p)
    BY <2>1, ResumeStep, LocalStep
  <2>2. CASE Yield(c, p)
    BY <2>2, LocalStep, SliceStep, GiveUpStep, RequeueStep DEF Yield
  <2>3. CASE Fork(c, p)
    BY <2>3, ForkAllocStep, ForkStackStep, ForkCopyStep DEF Fork
  <2>4. CASE Exit(c, p) \/ Wait(c, p)
    BY <2>4, ExitStep, WaitStep
  <2>5. CASE Kill(c, p) \/ Setpriority(c, p)
    BY <2>5, KillStep
  <2>6. CASE Sleep(c, p)
    BY <2>6, LocalStep, GiveUpStep DEF Sleep
  <2>7. CASE Setmonopoly(c, p)
    BY <2>7, FindStep, SetmonopolyStep DEF Setmonopoly
  <2>8. CASE Monopolize(c, p)
    BY <2>8, GiveUpStep
  <2>9. CASE Unmonopolize(c, p) \/ UnmonopolizeTicks(c, p)
    BY <2>9, UnmonopolizeStep
  <2> QED
    BY <1>3, <2>1, <2>2, <2>3, <2>4, <2>5, <2>6, <2>7, <2>8, <2>9 DEF Kernel
<1> QED
  BY <1>1, <1>2, <1>3, SchedulerStep, SyscallStep DEF Next, Followed

\* The inductive invariant of Project2's kernel: wherever the CPUs, the timer and
\* the calls interleave, every process stands where the code that finds it expects
\* it, and every slot that fork() fills belongs to one fork() alone.
THEOREM InvariantHolds == Spec => []MInv
BY InitInv, NextInv, PTL DEF Spec

\* The table, the queues, the clocks and the kernel stacks keep their types: pids
\* stay below MaxPid, and no queue is longer than its array.
THEOREM TypeCorrect == Spec => []TypeOK
<1>1. MInv => Types
  BY DEF MInv
<1> DEFINE Flag == overtaken \in BOOLEAN
<1>2. Init => Flag
  BY DEF Init
<1>3. Flag /\ [Next]_vars => Flag'
  <2>1. Next => Flag'
    BY DEF Next, Followed, Overtaking
  <2> QED
    BY <2>1 DEF vars
<1>4. Types /\ Flag => TypeOK
  BY DEF TypeOK
<1> HIDE DEF Flag
<1> QED
  BY InvariantHolds, <1>1, <1>2, <1>3, <1>4, PTL DEF Spec

\* No two CPUs run one process, and the table marks as RUNNING exactly those that
\* a CPU runs: for any number of CPUs and slots, and whatever the programs call.
THEOREM OneCpuHolds == Spec => []OneCpu
<1>1. MInv => OneCpu
  BY DEF MInv
<1> QED
  BY InvariantHolds, <1>1, PTL

\* A parent asleep in wait() has a child and no zombie to reap: no exit(), on any
\* CPU, of a child or of the parent of a zombie, is missed.
THEOREM NoLostExitHolds == Spec => []NoLostExit
<1>1. MInv => NoLostExit
  BY DEF MInv
<1> QED
  BY InvariantHolds, <1>1, PTL

-------------------------------------------------------------------------------
(* The queues, when nobody calls setmonopoly() and fork() has memory *)

\* The part of Project2 that keeps its queues in step.  setmonopoly() changes them
\* without ptable.lock, and a fork() that fails leaves its slot in L0.
Steady ==
    /\ ~MemoryFails
    /\ \A n \in 1 .. MaxPid : "setmonopoly" \notin Calls[n]

\* The code of setmonopoly().
Moving == {"setmonopoly", "setmonopoly_remove", "setmonopoly_mark", "setmonopoly_append"}

Placed(p) == proc[p].state # "UNUSED" /\ ~Unqueued(p)

\* No entry of a queue is repeated, and the entries are the processes whose
\* qlevel names it.
Single == \A l \in Level : IsInjective(queue[l])

InPlace ==
    \A l \in Level, p \in Slot : Contains(queue[l], p) <=> Placed(p) /\ proc[p].qlevel = l

\* MoQ is empty.
Unmoved == queue[MOQ] = <<>> /\ \A p \in Slot : proc[p].qlevel # MOQ

\* A pid names one process, so removePCB() finds the one it is called for.
Named ==
    /\ \A p, q \in Slot : proc[p].pid = proc[q].pid /\ proc[p].pid # 0 => p = q
    /\ \A p \in Slot : /\ proc[p].state = "UNUSED" => proc[p].pid = 0
                       /\ proc[p].pid < nextpid

\* Nobody executes setmonopoly(), and exit() starts on an empty kernel stack.
Settled ==
    \A p \in Slot : stack[p] # <<>> =>
        /\ stack[p][1].at \notin Moving
        /\ Top(p).at = "exit" => Len(stack[p]) = 1

QInv == Single /\ InPlace /\ Unmoved /\ Named /\ Settled

\* Nobody has killed init, and it has not called exit().
InitStays ==
    /\ proc[initproc].pid = 1
    /\ ~proc[initproc].killed
    /\ \A p \in Slot : stack[p] # <<>> => /\ stack[p][1].at = "kill" => stack[p][1].v # 1
                                          /\ p = initproc => stack[p][1].at # "exit"

\* The stack t of p keeps the entry of fork() between its slot and its queue,
\* and has no frame of setmonopoly().
Smooth(p, t) ==
    /\ t # <<>> => t[1].at \notin Moving /\ (Last(t).at = "exit" => Len(t) = 1)
    /\ t # <<>> /\ t[1].at = "fork_stack" => stack[p] # <<>> /\ stack[p][1] = t[1]
    /\ stack[p] # <<>> /\ stack[p][1].at = "fork_stack" => t # <<>> /\ stack[p][1] = t[1]

\* The table keeps what the queues depend on.
Kept ==
    \A q \in Slot : /\ proc'[q].pid = proc[q].pid
                    /\ proc'[q].qlevel = proc[q].qlevel
                    /\ proc'[q].state = "UNUSED" <=> proc[q].state = "UNUSED"

\* The stacks do.
Stacked == Settled' /\ \A n \in Slot : Unqueued(n)' <=> Unqueued(n)

\* A step that leaves the queues alone.
LEMMA Calm ==
    ASSUME QInv, UNCHANGED <<queue, nextpid>>, Kept, Stacked
    PROVE  QInv'
<1>1. Single' /\ Unmoved' /\ Named'
  BY DEF QInv, Single, Unmoved, Named, Kept
<1>2. InPlace'
  BY DEF QInv, InPlace, Placed, Kept, Stacked
<1> QED
  BY <1>1, <1>2 DEF QInv, Stacked

LEMMA SameTable == ASSUME proc' = proc PROVE Kept
BY DEF Kept

LEMMA SameStacks == ASSUME QInv, stack' = stack PROVE Stacked
BY DEF Stacked, QInv, Settled, Unqueued, Top

LEMMA SmoothStep ==
    ASSUME stack \in [Slot -> Stacks], QInv, NEW p \in Slot, NEW t \in Stacks, Smooth(p, t),
           stack' = [stack EXCEPT ![p] = t]
    PROVE  Stacked
<1>1. stack'[p] = t /\ \A q \in Slot : q # p => stack'[q] = stack[q]
  OBVIOUS
<1>2. Settled'
  <2>1. ASSUME NEW q \in Slot, stack'[q] # <<>>
        PROVE  stack'[q][1].at \notin Moving /\ (Last(stack'[q]).at = "exit" => Len(stack'[q]) = 1)
    <3>1. CASE q = p
      BY <1>1, <2>1, <3>1 DEF Smooth
    <3>2. CASE q # p
      BY <1>1, <2>1, <3>2 DEF QInv, Settled, Top
    <3> QED
      BY <3>1, <3>2
  <2> QED
    BY <2>1 DEF Settled, Top
<1>3. ASSUME NEW q \in Slot, NEW n \in Slot
      PROVE  (stack'[q] # <<>> /\ stack'[q][1].at = "fork_stack" /\ stack'[q][1].v = n)
                <=> (stack[q] # <<>> /\ stack[q][1].at = "fork_stack" /\ stack[q][1].v = n)
  BY <1>1 DEF Smooth
<1> QED
  BY <1>2, <1>3 DEF Stacked, Unqueued

\* What becomes of the first frame when the top frame goes on.
LEMMA FirstFrame ==
    ASSUME stack \in [Slot -> Stacks], NEW p \in Slot, stack[p] # <<>>, NEW to \in Code,
           NEW v \in Nat, NEW w \in Nat,
           to \in {"fork_stack", "fork_copy", "setmonopoly_remove", "setmonopoly_mark", "setmonopoly_append"} => v \in Slot,
           to = "setmonopoly_remove" => w \in Level \cup {MOQ},
           to = "slice" => v # 0,
           to \in IrqCode \/ Top(p).at \notin IrqCode
    PROVE  \E t \in Stacks :
              /\ Goto(p, to, v, w) = [stack EXCEPT ![p] = t]
              /\ t # <<>> /\ Len(t) = Len(stack[p]) /\ Last(t).at = to
              /\ \/ t[1] = stack[p][1]
                 \/ stack[p][1] = Top(p) /\ t[1].at = to
<1>1. stack[p] \in Stacks
  OBVIOUS
<1>2. Top(p) \in Frames
  BY <1>1, StackFacts DEF Top
<1>3. Frame(to, v, w, Top(p).irq) \in Frames /\ Frame(to, v, w, Top(p).irq).at = to
  BY <1>2, FrameIn
<1>4. PICK t \in Stacks : /\ Goto(p, to, v, w) = [stack EXCEPT ![p] = t]
                          /\ t # <<>> /\ Len(t) = Len(stack[p])
                          /\ Last(t) = Frame(to, v, w, Top(p).irq)
                          /\ t[1] = stack[p][1] \/ (Len(t) = 1 /\ t[1] = Last(t))
  BY <1>3, GotoFacts
<1>5. Len(t) = 1 => stack[p][1] = Top(p)
  BY <1>1, <1>4, StackFacts DEF Top
<1> QED
  BY <1>3, <1>4, <1>5

\* Other code than the one that queues a new process.
LEMMA SmoothGoto ==
    ASSUME MInv, QInv, NEW p \in Slot, stack[p] # <<>>, Top(p).at # "fork_stack",
           NEW to \in Code \ (Moving \cup {"fork_stack"}), NEW v \in Nat, NEW w \in Nat,
           to = "fork_copy" => v \in Slot, to = "slice" => v # 0,
           to \in IrqCode \/ Top(p).at \notin IrqCode,
           to = "exit" => Len(stack[p]) = 1,
           stack' = Goto(p, to, v, w)
    PROVE  Stacked
<1>1. /\ to \in {"fork_stack", "fork_copy", "setmonopoly_remove", "setmonopoly_mark", "setmonopoly_append"} => v \in Slot
      /\ to = "setmonopoly_remove" => w \in Level \cup {MOQ}
  BY DEF Moving
<1>2. stack \in [Slot -> Stacks]
  BY DEF MInv
<1>3. PICK t \in Stacks : /\ Goto(p, to, v, w) = [stack EXCEPT ![p] = t]
                          /\ t # <<>> /\ Len(t) = Len(stack[p]) /\ Last(t).at = to
                          /\ \/ t[1] = stack[p][1]
                             \/ stack[p][1] = Top(p) /\ t[1].at = to
  BY <1>1, <1>2, FirstFrame
<1>4. Smooth(p, t)
  BY <1>3 DEF Smooth, QInv, Settled
<1> QED
  BY <1>2, <1>3, <1>4, SmoothStep

LEMMA SmoothFinish ==
    ASSUME MInv, QInv, NEW p \in Slot, stack[p] # <<>>, Top(p).at # "fork_stack", stack' = Finish(p)
    PROVE  Stacked
<1>1. "ret" \in Code \ (Moving \cup {"fork_stack"}) /\ "ret" \in IrqCode /\ 0 \in Nat
      /\ "ret" \notin {"fork_copy", "slice", "exit"}
  BY DEF Code, IrqCode, Moving
<1>2. stack' = Goto(p, "ret", 0, 0)
  BY DEF Finish
<1> QED
  BY <1>1, <1>2, SmoothGoto

\* The top frame is popped,
LEMMA SmoothPop ==
    ASSUME MInv, QInv, NEW p \in Slot, stack[p] # <<>>, Top(p).at # "fork_stack",
           stack' = [stack EXCEPT ![p] = Front(@)]
    PROVE  Stacked
<1> DEFINE s == stack[p]
           t == Front(s)
<1>1. s \in Stacks /\ s # <<>> /\ stack \in [Slot -> Stacks]
  BY DEF MInv
<1>2. s \in Seq(Frames) /\ Len(s) \in {1, 2} /\ (Len(s) = 1 => Last(s) = s[1])
  BY <1>1, StackFacts
<1>3. t \in Stacks /\ (t # <<>> => t[1] = s[1])
  BY <1>1, PopFacts
<1>4. t \in Seq(Frames) /\ Len(t) = Len(s) - 1
  BY <1>1, <1>2, Popped
<1>5. t = <<>> => Len(s) = 1
  <2>1. t = <<>> => Len(t) = 0
    BY <1>4, EmptySeq
  <2> QED
    BY <1>2, <1>4, <2>1
<1>6. stack' = [stack EXCEPT ![p] = t]
  OBVIOUS
<1> HIDE DEF t
<1>7. t # <<>> => Len(t) = 1
  <2>1. t # <<>> => Len(t) # 0
    BY <1>4, EmptySeq
  <2> QED
    BY <1>2, <1>4, <2>1
<1>8. Smooth(p, t)
  BY <1>2, <1>3, <1>5, <1>7 DEF Smooth, QInv, Settled, Top
<1> QED
  BY <1>1, <1>3, <1>6, <1>8, SmoothStep

\* or that of an interrupt is pushed.
LEMMA SmoothPush ==
    ASSUME MInv, QInv, NEW c \in CPU, EnterYield(c),
           cpu[c] # NONE /\ stack[cpu[c]] # <<>> => ~Top(cpu[c]).irq
    PROVE  Stacked
<1>1. CASE cpu[c] = NONE
  BY <1>1, SameStacks DEF EnterYield
<1>2. CASE cpu[c] # NONE
  <2> DEFINE f == Frame("timer", 0, 0, TRUE)
  <2>1. PICK p \in Slot : p = cpu[c]
    BY <1>2 DEF MInv, Types
  <2>2. stack' = [stack EXCEPT ![p] = Append(@, f)]
    BY <1>2, <2>1 DEF EnterYield
  <2>3. f \in Frames /\ f.irq /\ f.at = "timer"
    BY TimerFrame
  <2>4. stack[p] \in Stacks /\ (stack[p] # <<>> => ~Last(stack[p]).irq) /\ stack \in [Slot -> Stacks]
    BY <1>2, <2>1, Zenon DEF MInv, Top
  <2> HIDE DEF f
  <2>5. PICK t \in Stacks : /\ stack' = [stack EXCEPT ![p] = t] /\ t # <<>> /\ Last(t) = f
                            /\ IF stack[p] = <<>> THEN t[1] = f ELSE t[1] = stack[p][1]
    BY <2>2, <2>3, <2>4, PushFacts
  <2>6. Smooth(p, t)
    BY <2>3, <2>5 DEF Smooth, QInv, Settled, Moving
  <2> QED
    BY <2>4, <2>5, <2>6, SmoothStep
<1> QED
  BY <1>1, <1>2

\* A slot changes in other fields.
LEMMA SlotKept ==
    ASSUME MInv, NEW q \in Slot, NEW r, proc' = [proc EXCEPT ![q] = r],
           r.pid = proc[q].pid, r.qlevel = proc[q].qlevel,
           r.state = "UNUSED" <=> proc[q].state = "UNUSED"
    PROVE  Kept
BY TableFacts DEF Kept

\* Its state, its channel and its timeslice among them.
LEMMA FieldsKept ==
    ASSUME NEW r \in Procs
    PROVE  /\ \A s : LET x == [r EXCEPT !.state = s]
                     IN  x.pid = r.pid /\ x.qlevel = r.qlevel /\ x.state = s
           /\ \A s, ch : LET x == [r EXCEPT !.chan = ch, !.state = s]
                         IN  x.pid = r.pid /\ x.qlevel = r.qlevel /\ x.state = s
           /\ \A s, q : LET x == [r EXCEPT !.parent = q, !.state = s]
                        IN  x.pid = r.pid /\ x.qlevel = r.qlevel /\ x.state = s
           /\ \A s, k : LET x == [r EXCEPT !.killed = k, !.state = s]
                        IN  x.pid = r.pid /\ x.qlevel = r.qlevel /\ x.state = s
           /\ \A ch : LET x == [r EXCEPT !.chan = ch]
                      IN  x.pid = r.pid /\ x.qlevel = r.qlevel /\ x.state = r.state
           /\ \A ts : LET x == [r EXCEPT !.timeslice = ts]
                      IN  x.pid = r.pid /\ x.qlevel = r.qlevel /\ x.state = r.state
           /\ \A pr : LET x == [r EXCEPT !.priority = pr]
                      IN  x.pid = r.pid /\ x.qlevel = r.qlevel /\ x.state = r.state
BY DEF Procs

\* wakeup1().
LEMMA WokenKept ==
    ASSUME MInv, NEW table \in [Slot -> Procs], NEW ch
    PROVE  \A q \in Slot : /\ Wakeup1(table, ch)[q].qlevel = table[q].qlevel
                           /\ Wakeup1(table, ch)[q].killed = table[q].killed
<1> TAKE q \in Slot
<1>1. table[q] \in Procs
  OBVIOUS
<1> DEFINE r == [table[q] EXCEPT !.state = "RUNNABLE"]
<1>2. r.qlevel = table[q].qlevel /\ r.killed = table[q].killed
  BY <1>1 DEF Procs
<1>3. Wakeup1(table, ch)[q] = IF table[q].state = "SLEEPING" /\ table[q].chan = ch THEN r ELSE table[q]
  BY DEF Wakeup1
<1> HIDE DEF r
<1> QED
  BY <1>2, <1>3

LEMMA OrphanedKept ==
    ASSUME MInv, NEW table \in [Slot -> Procs], NEW p \in Slot
    PROVE  \A q \in Slot : /\ Orphaned(table, p)[q].qlevel = table[q].qlevel
                           /\ Orphaned(table, p)[q].killed = table[q].killed
<1> TAKE q \in Slot
<1>1. table[q] \in Procs
  OBVIOUS
<1> DEFINE r == [table[q] EXCEPT !.parent = initproc]
<1>2. r.qlevel = table[q].qlevel /\ r.killed = table[q].killed
  BY <1>1 DEF Procs
<1>3. Orphaned(table, p)[q] = IF proc[q].parent = p THEN r ELSE table[q]
  BY DEF Orphaned
<1> HIDE DEF r
<1> QED
  BY <1>2, <1>3

LEMMA LeftKept ==
    ASSUME MInv, NEW p \in Slot
    PROVE  \A q \in Slot : /\ LeaveChildren(p)[q].qlevel = proc[q].qlevel
                           /\ LeaveChildren(p)[q].killed = proc[q].killed
<1> DEFINE A == Wakeup1(proc, proc[p].parent)
           B == Orphaned(A, p)
           C == Wakeup1(B, initproc)
<1>1. A \in [Slot -> Procs] /\ \A q \in Slot : A[q].qlevel = proc[q].qlevel /\ A[q].killed = proc[q].killed
  BY TableFacts, WokenTable, WokenKept
<1>2. LeaveChildren(p) = IF Zombies(p) = {} THEN B ELSE C
  BY DEF LeaveChildren
<1> HIDE DEF A
<1>3. B \in [Slot -> Procs] /\ \A q \in Slot : B[q].qlevel = A[q].qlevel /\ B[q].killed = A[q].killed
  BY <1>1, OrphanedTable, OrphanedKept
<1> HIDE DEF B
<1>4. \A q \in Slot : C[q].qlevel = B[q].qlevel /\ C[q].killed = B[q].killed
  BY <1>3, WokenKept
<1> HIDE DEF C
<1> QED
  BY <1>1, <1>2, <1>3, <1>4

\* The scheduler marks a process RUNNING.
LEMMA CalmScheduler ==
    ASSUME MInv, QInv, NEW c \in CPU, Scheduler(c)
    PROVE  QInv'
<1>1. UNCHANGED <<queue, nextpid, stack>>
  BY DEF Scheduler, ScheduleMlfq, ScheduleMoq, ScheduleUnmonopolize, ScheduleReset, ScheduleMoqLast,
         ScheduleRelease
<1>2. UNCHANGED proc \/ \E l \in Level \cup {MOQ} : levelSchedule(c, l)
  BY DEF Scheduler, ScheduleMlfq, ScheduleMoq, ScheduleUnmonopolize, ScheduleReset, ScheduleMoqLast,
         ScheduleRelease
<1>3. ASSUME NEW l \in Level \cup {MOQ}, levelSchedule(c, l) PROVE Kept
  <2> DEFINE p == queue[l][First(Runnable(l))]
             r == [proc[p] EXCEPT !.state = "RUNNING"]
  <2>1. p \in Slot /\ proc[p].state = "RUNNABLE"
    BY <1>3, RunnableFacts DEF levelSchedule, MInv
  <2>2. proc' = [proc EXCEPT ![p] = r]
    BY <1>3 DEF levelSchedule
  <2> HIDE DEF p
  <2>3. proc[p] \in Procs
    BY <2>1, TableFacts
  <2>4. r.pid = proc[p].pid /\ r.qlevel = proc[p].qlevel /\ r.state = "RUNNING"
    BY <2>3, FieldsKept
  <2> HIDE DEF r
  <2> QED
    BY <2>1, <2>2, <2>4, SlotKept
<1> QED
  BY <1>1, <1>2, <1>3, SameTable, SameStacks, Calm

\* The timer, but for boost().
LEMMA CalmClock ==
    ASSUME MInv, QInv, NEW c \in CPU, ClockTick(c) \/ ClockMode(c) \/ LocalTick(c)
    PROVE  QInv'
<1>1. CASE ClockTick(c)
  <2>1. proc' = Wakeup1(proc, TICKS) /\ UNCHANGED <<queue, nextpid, stack>>
    BY <1>1 DEF ClockTick
  <2>2. Kept
    <3>1. proc \in [Slot -> Procs]
      BY TableFacts
    <3>2. \A q \in Slot : /\ proc'[q].qlevel = proc[q].qlevel /\ proc'[q].pid = proc[q].pid
                          /\ proc'[q].state = IF proc[q].state = "SLEEPING" /\ proc[q].chan = TICKS
                                              THEN "RUNNABLE" ELSE proc[q].state
      BY <2>1, <3>1, WokenTable, WokenKept
    <3> QED
      BY <3>2 DEF Kept
  <2> QED
    BY <2>1, <2>2, SameStacks, Calm
<1>2. CASE ClockMode(c)
  <2>1. UNCHANGED <<proc, queue, nextpid>> /\ (stack' = stack \/ EnterYield(c)) /\ irq[c] # "none"
    BY <1>2 DEF ClockMode
  <2>2. cpu[c] # NONE /\ stack[cpu[c]] # <<>> => ~Top(cpu[c]).irq
    BY <2>1, Zenon DEF MInv, Interrupted
  <2> QED
    BY <2>1, <2>2, SameTable, SameStacks, SmoothPush, Calm
<1>3. CASE LocalTick(c)
  <2>1. UNCHANGED <<proc, queue, nextpid>> /\ EnterYield(c) /\ Interruptible(c)
    BY <1>3 DEF LocalTick
  <2>2. cpu[c] # NONE /\ stack[cpu[c]] # <<>> => ~Top(cpu[c]).irq
    BY <2>1, Zenon DEF Interruptible
  <2> QED
    BY <2>1, <2>2, SameTable, SmoothPush, Calm
<1> QED
  BY <1>1, <1>2, <1>3

\* The code of a process that only moves on.
LEMMA CalmMoves ==
    ASSUME MInv, QInv, NEW c \in CPU, NEW p \in Slot,
           \/ Timer(c, p) \/ Return(c, p) \/ YieldTest(c, p) \/ SleepStart(c, p) \/ SleepCheck(c, p)
           \/ Unmonopolize(c, p) \/ UnmonopolizeTicks(c, p)
    PROVE  QInv'
<1>1. UNCHANGED <<proc, queue, nextpid>>
  BY DEF Timer, Return, YieldTest, SleepStart, SleepCheck, Unmonopolize, UnmonopolizeTicks
<1>2. stack[p] # <<>> /\ Top(p).at # "fork_stack"
  BY DEF Timer, Return, YieldTest, SleepStart, SleepCheck, Unmonopolize, UnmonopolizeTicks, At
<1>3. stack[p] \in Stacks /\ Top(p) \in Frames /\ Len(stack[p]) \in {1, 2}
  BY <1>2, StackFacts DEF MInv, Top
<1>4. proc[p] \in Procs /\ ticks \in Nat /\ Top(p).v \in Nat /\ 0 \in Nat
  <2>1. proc[p] \in Procs
    BY TableFacts
  <2>2. ticks \in Nat
    BY MlfqAssumption DEF MInv, Types
  <2> QED
    BY <1>3, <2>1, <2>2 DEF Frames
<1>5. proc[p].timeslice \in Nat
  BY <1>4 DEF Procs
<1>6. CASE Timer(c, p) \/ Return(c, p) \/ YieldTest(c, p)
  <2>1. {"exit", "yield", "giveup", "slice", "requeue"} \subseteq IrqCode
        /\ {"exit", "yield", "giveup", "slice", "requeue"} \subseteq Code \ (Moving \cup {"fork_stack"})
    BY DEF Code, IrqCode, Moving
  <2>2. \/ stack' = Goto(p, "exit", 0, 0) /\ Len(stack[p]) = 1
        \/ stack' = Goto(p, "yield", 0, 0) \/ stack' = Goto(p, "giveup", 0, 0)
        \/ stack' = Goto(p, "slice", proc[p].timeslice, 0) /\ proc[p].timeslice # 0
        \/ stack' = Goto(p, "requeue", 0, 0)
        \/ stack' = [stack EXCEPT ![p] = Front(@)]
    <3>1. CASE Timer(c, p)
      BY <3>1 DEF Timer
    <3>2. CASE Return(c, p)
      <4>1. ~Top(p).irq => Len(stack[p]) = 1
        BY <1>3, Zenon DEF Stacks, Top
      <4> QED
        BY <3>2, <4>1, Zenon DEF Return
    <3>3. CASE YieldTest(c, p)
      BY <3>3 DEF YieldTest
    <3> QED
      BY <1>6, <3>1, <3>2, <3>3
  <2>3. Stacked
    <3>1. CASE stack' = Goto(p, "exit", 0, 0) /\ Len(stack[p]) = 1
      BY <1>2, <1>4, <2>1, <3>1, SmoothGoto
    <3>2. CASE stack' = Goto(p, "slice", proc[p].timeslice, 0) /\ proc[p].timeslice # 0
      BY <1>2, <1>4, <1>5, <2>1, <3>2, SmoothGoto
    <3>3. CASE stack' = [stack EXCEPT ![p] = Front(@)]
      BY <1>2, <3>3, SmoothPop
    <3>4. CASE stack' = Goto(p, "yield", 0, 0) \/ stack' = Goto(p, "giveup", 0, 0) \/ stack' = Goto(p, "requeue", 0, 0)
      BY <1>2, <1>4, <2>1, <3>4, SmoothGoto
    <3> QED
      BY <2>2, <3>1, <3>2, <3>3, <3>4
  <2> QED
    BY <1>1, <2>3, SameTable, Calm
<1>7. CASE SleepStart(c, p) \/ SleepCheck(c, p) \/ Unmonopolize(c, p) \/ UnmonopolizeTicks(c, p)
  <2>1. {"sleep_block", "unmonopolize_ticks"} \subseteq Code \ (Moving \cup {"fork_stack"})
        /\ Top(p).at \notin IrqCode
    BY <1>7 DEF Code, IrqCode, Moving, SleepStart, SleepCheck, Unmonopolize, UnmonopolizeTicks, At
  <2>2. \/ stack' = Finish(p)
        \/ \E v \in Nat : stack' = Goto(p, "sleep_block", v, 0)
        \/ stack' = Goto(p, "unmonopolize_ticks", 0, 0)
    BY <1>4, <1>7 DEF SleepStart, SleepCheck, Unmonopolize, UnmonopolizeTicks
  <2>3. Stacked
    BY <1>2, <1>4, <2>1, <2>2, SmoothFinish, SmoothGoto
  <2> QED
    BY <1>1, <2>3, SameTable, Calm
<1> QED
  BY <1>6, <1>7

\* The process that has been switched to goes on.
LEMMA CalmResume ==
    ASSUME MInv, QInv, NEW c \in CPU, NEW p \in Slot, Resume(c, p)
    PROVE  QInv'
<1>1. Runs(c, p) /\ ptlock = c /\ UNCHANGED <<queue, nextpid>>
  BY DEF Resume
<1>2. stack[p] # <<>> /\ Top(p).at # "fork_stack" /\ At(c, p, Top(p).at)
  BY <1>1, Names DEF MInv, Parked, Resumable, At, Runs
<1>3. Top(p) \in Frames /\ proc[p] \in Procs
  BY <1>2, AtFacts, TableFacts
<1>4. Top(p).v \in Nat /\ 0 \in Nat
  BY <1>3 DEF Frames
<1>5. {"sleep_check", "wait"} \subseteq Code \ (Moving \cup {"fork_stack"})
  BY DEF Code, SystemCalls, Moving
<1>6. Stacked
  <2>1. CASE stack' = [stack EXCEPT ![p] = Front(@)]
    BY <1>2, <2>1, SmoothPop
  <2>2. CASE stack' = Finish(p)
    BY <1>2, <2>2, SmoothFinish
  <2>3. CASE Top(p).at \in {"sleep_wake", "wait_wake"}
             /\ (stack' = Goto(p, "sleep_check", Top(p).v, 0) \/ stack' = Goto(p, "wait", 0, 0))
    <3>1. Top(p).at \notin IrqCode
      BY <2>3 DEF IrqCode
    <3> QED
      BY <1>2, <1>4, <1>5, <2>3, <3>1, SmoothGoto
  <2> QED
    BY <2>1, <2>2, <2>3 DEF Resume
<1>7. Kept
  <2>1. proc' = proc \/ proc' = [proc EXCEPT ![p].chan = NONE]
    BY DEF Resume
  <2> DEFINE r == [proc[p] EXCEPT !.chan = NONE]
  <2>2. proc' = proc \/ proc' = [proc EXCEPT ![p] = r]
    BY <2>1
  <2>3. r.pid = proc[p].pid /\ r.qlevel = proc[p].qlevel /\ r.state = proc[p].state
    BY <1>3, FieldsKept
  <2> HIDE DEF r
  <2> QED
    BY <2>2, <2>3, SameTable, SlotKept
<1> QED
  BY <1>1, <1>6, <1>7, Calm

\* The steps of a running process that change its slot in other fields, and finish
\* or leave the CPU.
LEMMA CalmLeave ==
    ASSUME MInv, QInv, NEW c \in CPU, NEW p \in Slot,
           YieldSlice(c, p) \/ YieldMoq(c, p) \/ SleepBlock(c, p) \/ Monopolize(c, p)
    PROVE  QInv'
<1>1. PICK at \in {"slice", "giveup", "sleep_block", "monopolize"} : At(c, p, at)
  BY DEF YieldSlice, YieldMoq, SleepBlock, Monopolize
<1>2. stack[p] # <<>> /\ Top(p).at = at /\ Top(p) \in Frames /\ proc[p].state = "RUNNING" /\ proc[p] \in Procs
  BY <1>1, AtFacts, TableFacts
<1>3. Top(p).v \in Nat /\ 0 \in Nat
  BY <1>2 DEF Frames
<1>4. UNCHANGED <<queue, nextpid>>
  BY DEF YieldSlice, YieldMoq, SleepBlock, Monopolize
<1>5. Stacked
  <2>1. \/ stack' = Finish(p) \/ stack' = Goto(p, "yielded", 0, 0)
        \/ at = "sleep_block" /\ stack' = Goto(p, "sleep_wake", Top(p).v, 0)
    BY <1>2 DEF YieldSlice, YieldMoq, SleepBlock, Monopolize, At
  <2>2. {"sleep_wake", "yielded"} \subseteq Code \ (Moving \cup {"fork_stack"}) /\ "yielded" \in IrqCode
        /\ "sleep_block" \notin IrqCode
    BY DEF Code, Resumable, Moving, IrqCode
  <2>3. CASE stack' = Goto(p, "yielded", 0, 0)
    BY <1>2, <1>3, <2>2, <2>3, SmoothGoto
  <2>4. CASE at = "sleep_block" /\ stack' = Goto(p, "sleep_wake", Top(p).v, 0)
    BY <1>2, <1>3, <2>2, <2>4, SmoothGoto
  <2> QED
    BY <1>2, <2>1, <2>3, <2>4, SmoothFinish
<1>6. Kept
  <2>1. CASE YieldSlice(c, p)
    <3> DEFINE r == [proc[p] EXCEPT !.timeslice = Top(p).v - 1]
    <3>1. proc' = [proc EXCEPT ![p] = r]
      BY <2>1 DEF YieldSlice
    <3>2. r.pid = proc[p].pid /\ r.qlevel = proc[p].qlevel /\ r.state = proc[p].state
      BY <1>2, FieldsKept
    <3> HIDE DEF r
    <3> QED
      BY <3>1, <3>2, SlotKept
  <2>2. CASE YieldMoq(c, p) \/ Monopolize(c, p)
    <3> DEFINE r == [proc[p] EXCEPT !.state = "RUNNABLE"]
    <3>1. proc' = [proc EXCEPT ![p] = r]
      BY <2>2 DEF YieldMoq, Monopolize
    <3>2. r.pid = proc[p].pid /\ r.qlevel = proc[p].qlevel /\ r.state = "RUNNABLE"
      BY <1>2, FieldsKept
    <3> HIDE DEF r
    <3> QED
      BY <1>2, <3>1, <3>2, SlotKept
  <2>3. CASE SleepBlock(c, p)
    <3> DEFINE r == [proc[p] EXCEPT !.chan = TICKS, !.state = "SLEEPING"]
    <3>1. proc' = [proc EXCEPT ![p] = r]
      BY <2>3, TableFacts DEF SleepBlock
    <3>2. r.pid = proc[p].pid /\ r.qlevel = proc[p].qlevel /\ r.state = "SLEEPING"
      BY <1>2, FieldsKept
    <3> HIDE DEF r
    <3> QED
      BY <1>2, <3>1, <3>2, SlotKept
  <2> QED
    BY <2>1, <2>2, <2>3
<1> QED
  BY <1>4, <1>5, <1>6, Calm

\* setpriority() and kill(), of any process.
LEMMA CalmKill ==
    ASSUME MInv, QInv, NEW c \in CPU, NEW p \in Slot, Kill(c, p) \/ Setpriority(c, p)
    PROVE  QInv'
<1> DEFINE found == WithPid(Top(p).v)
           q == First(found)
<1>1. UNCHANGED <<queue, nextpid>> /\ stack' = Finish(p)
      /\ stack[p] # <<>> /\ Top(p).at # "fork_stack"
  BY DEF Kill, Setpriority, At
<1>2. found # {} => q \in Slot /\ proc[q] \in Procs
  <2>1. found \in SUBSET Nat
    BY Names DEF WithPid
  <2>2. found # {} => q \in found
    BY <2>1, FirstIn
  <2> QED
    BY <2>2, TableFacts DEF WithPid
<1>3. CASE proc' = proc
  BY <1>1, <1>3, SameTable, SmoothFinish, Calm
<1>4. ASSUME NEW n, found # {}, proc' = [proc EXCEPT ![q].priority = n] PROVE Kept
  <2> HIDE DEF q, found
  <2> DEFINE r == [proc[q] EXCEPT !.priority = n]
  <2>1. proc' = [proc EXCEPT ![q] = r]
    BY <1>4
  <2>2. r.pid = proc[q].pid /\ r.qlevel = proc[q].qlevel /\ r.state = proc[q].state
    BY <1>2, <1>4, FieldsKept
  <2> HIDE DEF r
  <2> QED
    BY <1>2, <1>4, <2>1, <2>2, SlotKept
<1>5. ASSUME found # {},
             proc' = [proc EXCEPT ![q].killed = TRUE,
                                  ![q].state = IF @ = "SLEEPING" THEN "RUNNABLE" ELSE @]
      PROVE  Kept
  <2> HIDE DEF q, found
  <2>1. PICK s : s = IF proc[q].state = "SLEEPING" THEN "RUNNABLE" ELSE proc[q].state
    OBVIOUS
  <2>2. PICK k : k = TRUE
    OBVIOUS
  <2> DEFINE r == [proc[q] EXCEPT !.killed = k, !.state = s]
  <2>3. proc' = [proc EXCEPT ![q] = r]
    <3>1. [proc[q] EXCEPT !.killed = TRUE].state = proc[q].state
      BY <1>2, <1>5 DEF Procs
    <3> QED
      BY <1>2, <1>5, <2>1, <2>2, <3>1, TableFacts
  <2>4. r.pid = proc[q].pid /\ r.qlevel = proc[q].qlevel /\ r.state = s
    BY <1>2, <1>5, FieldsKept
  <2> HIDE DEF r
  <2>5. s = "UNUSED" <=> proc[q].state = "UNUSED"
    BY <2>1
  <2> QED
    BY <1>2, <1>5, <2>3, <2>4, <2>5, SlotKept
<1>6. proc' = proc \/ Kept
  BY <1>4, <1>5 DEF Kill, Setpriority
<1> QED
  BY <1>1, <1>3, <1>6, SmoothFinish, Calm

\* A system call, which is not setmonopoly().
LEMMA CalmSyscall ==
    ASSUME Steady, MInv, QInv, NEW c \in CPU, NEW p \in Slot, Syscall(c, p)
    PROVE  QInv'
<1>1. /\ Runs(c, p) /\ stack[p] = <<>> /\ UNCHANGED <<proc, queue, nextpid>>
      /\ \E call \in SystemCalls, n \in Nat :
            /\ stack' = [stack EXCEPT ![p] = <<Frame(call, n, 0, FALSE)>>]
            /\ call # "setmonopoly"
  <2>1. Runs(c, p) /\ stack[p] = <<>> /\ UNCHANGED <<proc, queue, nextpid>>
    BY DEF Syscall
  <2>2. proc[p].state = "RUNNING" /\ proc[p] \in Procs
    BY <2>1, TableFacts DEF Runs, MInv, OneCpu
  <2>3. proc[p].pid \in 1 .. MaxPid
    <3>1. proc[p].pid \in 0 .. MaxPid /\ proc[p].pid # 0
      BY <2>2 DEF MInv, Lineage, Procs
    <3> QED
      BY <3>1, MlfqAssumption
  <2>4. Calls[proc[p].pid] \subseteq SystemCalls /\ "setmonopoly" \notin Calls[proc[p].pid]
    BY <2>3, MlfqAssumption DEF Steady
  <2>5. "exit" \in SystemCalls /\ 0 \in Nat /\ PidArgs \subseteq Nat
    BY MlfqAssumption DEF SystemCalls
  <2>6. \/ stack' = [stack EXCEPT ![p] = <<Frame("exit", 0, 0, FALSE)>>]
        \/ \E call \in Calls[proc[p].pid], n \in PidArgs \cup {0} :
              stack' = [stack EXCEPT ![p] = <<Frame(call, n, 0, FALSE)>>]
    <3>1. CASE proc[p].killed /\ stack' = [stack EXCEPT ![p] = <<Frame("exit", 0, 0, FALSE)>>]
      BY <3>1, Zenon
    <3>2. ASSUME NEW call \in Calls[proc[p].pid],
                 NEW n \in IF call \in {"kill", "setpriority", "setmonopoly"} THEN PidArgs ELSE {0},
                 stack' = [stack EXCEPT ![p] = <<Frame(call, n, 0, FALSE)>>]
          PROVE  \E a \in Calls[proc[p].pid], m \in PidArgs \cup {0} :
                    stack' = [stack EXCEPT ![p] = <<Frame(a, m, 0, FALSE)>>]
      <4>1. n \in PidArgs \cup {0}
        BY <3>2
      <4> QED
        BY <3>2, <4>1, Zenon
    <3> QED
      BY <3>1, <3>2, Zenon DEF Syscall
  <2>7. CASE stack' = [stack EXCEPT ![p] = <<Frame("exit", 0, 0, FALSE)>>]
    <3>1. "exit" # "setmonopoly"
      OBVIOUS
    <3> QED
      BY <2>1, <2>5, <2>7, <3>1, Zenon
  <2>8. ASSUME NEW call \in Calls[proc[p].pid], NEW n \in PidArgs \cup {0},
               stack' = [stack EXCEPT ![p] = <<Frame(call, n, 0, FALSE)>>]
        PROVE  \E a \in SystemCalls, m \in Nat :
                  /\ stack' = [stack EXCEPT ![p] = <<Frame(a, m, 0, FALSE)>>]
                  /\ a # "setmonopoly"
    <3>1. call \in SystemCalls /\ n \in Nat /\ call # "setmonopoly"
      BY <2>4, <2>5
    <3> QED
      BY <2>8, <3>1, Zenon
  <2> QED
    BY <2>1, <2>6, <2>7, <2>8, Zenon
<1>2. PICK call \in SystemCalls, n \in Nat :
          /\ stack' = [stack EXCEPT ![p] = <<Frame(call, n, 0, FALSE)>>]
          /\ call # "setmonopoly"
  BY <1>1, Zenon
<1> DEFINE t == <<Frame(call, n, 0, FALSE)>>
<1>3. t \in Stacks /\ t # <<>> /\ Last(t).at = call /\ t[1].at = call
  BY CallFrame
<1>4. stack' = [stack EXCEPT ![p] = t] /\ Len(t) = 1
  BY <1>2
<1> HIDE DEF t
<1>5. Smooth(p, t)
  BY <1>1, <1>2, <1>3, <1>4 DEF Smooth, Moving, SystemCalls
<1>6. Stacked
  BY <1>3, <1>4, <1>5, SmoothStep DEF MInv
<1> QED
  BY <1>1, <1>6, SameTable, Calm

\* The entries of a queue without repetitions, when one is taken out,
LEMMA RemovedEntry ==
    ASSUME NEW F, NEW s \in Seq(F), IsInjective(s), NEW k \in 1 .. Len(s)
    PROVE  /\ IsInjective(RemoveAt(s, k))
           /\ \A e : Contains(RemoveAt(s, k), e) <=> Contains(s, e) /\ e # s[k]
<1> DEFINE t == RemoveAt(s, k)
<1>1. /\ t \in Seq(F) /\ Len(t) = Len(s) - 1 /\ Len(s) \in Nat
      /\ \A n \in 1 .. Len(s) - 1 : t[n] = IF n < k THEN s[n] ELSE s[n + 1]
  BY Removed, LenProperties
<1>2. DOMAIN t = 1 .. Len(s) - 1 /\ DOMAIN s = 1 .. Len(s)
  BY <1>1, LenProperties
<1>3. \A m, n \in 1 .. Len(s) : s[m] = s[n] => m = n
  BY <1>2 DEF IsInjective
<1> HIDE DEF t
<1>4. ASSUME NEW m \in 1 .. Len(s) - 1, NEW n \in 1 .. Len(s) - 1, t[m] = t[n] PROVE m = n
  <2>1. PICK i, j \in 1 .. Len(s) : /\ t[m] = s[i] /\ i = (IF m < k THEN m ELSE m + 1)
                                    /\ t[n] = s[j] /\ j = (IF n < k THEN n ELSE n + 1)
    BY <1>1
  <2>2. i = j
    BY <1>3, <1>4, <2>1
  <2> QED
    BY <1>1, <2>1, <2>2
<1>5. ASSUME NEW e PROVE Contains(t, e) <=> Contains(s, e) /\ e # s[k]
  <2>1. ASSUME NEW n \in 1 .. Len(s) - 1, t[n] = e PROVE Contains(s, e) /\ e # s[k]
    <3>1. PICK i \in 1 .. Len(s) : e = s[i] /\ i = (IF n < k THEN n ELSE n + 1)
      BY <1>1, <2>1
    <3>2. i # k
      BY <3>1
    <3> QED
      BY <1>3, <3>1, <3>2 DEF Contains
  <2>2. ASSUME NEW i \in 1 .. Len(s), s[i] = e, e # s[k] PROVE Contains(t, e)
    <3>1. CASE i < k
      <4>1. i \in 1 .. Len(s) - 1 /\ t[i] = s[i]
        BY <1>1, <3>1
      <4> QED
        BY <1>1, <2>2, <4>1 DEF Contains
    <3>2. CASE i > k
      <4>1. i - 1 \in 1 .. Len(s) - 1 /\ ~(i - 1 < k) /\ (i - 1) + 1 = i
        BY <1>1, <3>2
      <4>2. t[i - 1] = s[i]
        BY <1>1, <4>1
      <4> QED
        BY <1>1, <2>2, <4>1, <4>2 DEF Contains
    <3> QED
      BY <1>1, <2>2, <3>1, <3>2
  <2> QED
    BY <1>1, <2>1, <2>2 DEF Contains
<1>6. IsInjective(t)
  BY <1>2, <1>4 DEF IsInjective
<1> QED
  BY <1>5, <1>6 DEF t

\* one is put in,
LEMMA InsertedEntry ==
    ASSUME NEW F, NEW s \in Seq(F), IsInjective(s), NEW k \in 1 .. Len(s) + 1, NEW e \in F, ~Contains(s, e)
    PROVE  /\ IsInjective(InsertAt(s, k, e))
           /\ \A x : Contains(InsertAt(s, k, e), x) <=> Contains(s, x) \/ x = e
<1> DEFINE t == InsertAt(s, k, e)
<1>1. /\ t \in Seq(F) /\ Len(t) = Len(s) + 1 /\ Len(s) \in Nat
      /\ \A n \in 1 .. Len(s) + 1 : t[n] = IF n < k THEN s[n] ELSE IF n = k THEN e ELSE s[n - 1]
  BY Inserted, LenProperties
<1>2. DOMAIN t = 1 .. Len(s) + 1 /\ DOMAIN s = 1 .. Len(s)
  BY <1>1, LenProperties
<1>3. \A m, n \in 1 .. Len(s) : s[m] = s[n] => m = n
  BY <1>2 DEF IsInjective
<1>4. \A n \in 1 .. Len(s) : s[n] # e
  BY DEF Contains
<1> HIDE DEF t
<1>5. ASSUME NEW n \in 1 .. Len(s) + 1
      PROVE  \/ n = k /\ t[n] = e
             \/ n # k /\ \E i \in 1 .. Len(s) : t[n] = s[i] /\ i = (IF n < k THEN n ELSE n - 1)
  BY <1>1
<1>6. ASSUME NEW m \in 1 .. Len(s) + 1, NEW n \in 1 .. Len(s) + 1, t[m] = t[n] PROVE m = n
  <2>1. CASE m = k \/ n = k
    BY <1>4, <1>5, <1>6, <2>1
  <2>2. CASE m # k /\ n # k
    <3>1. PICK i, j \in 1 .. Len(s) : /\ t[m] = s[i] /\ i = (IF m < k THEN m ELSE m - 1)
                                      /\ t[n] = s[j] /\ j = (IF n < k THEN n ELSE n - 1)
      BY <1>5, <2>2
    <3>2. i = j
      BY <1>3, <1>6, <3>1
    <3> QED
      BY <1>1, <2>2, <3>1, <3>2
  <2> QED
    BY <2>1, <2>2
<1>7. ASSUME NEW x PROVE Contains(t, x) <=> Contains(s, x) \/ x = e
  <2>1. ASSUME NEW n \in 1 .. Len(s) + 1, t[n] = x PROVE Contains(s, x) \/ x = e
    BY <1>5, <2>1 DEF Contains
  <2>2. ASSUME NEW i \in 1 .. Len(s), s[i] = x PROVE Contains(t, x)
    <3>1. CASE i < k
      <4>1. i \in 1 .. Len(s) + 1 /\ t[i] = s[i]
        BY <1>1, <3>1
      <4> QED
        BY <1>1, <2>2, <4>1 DEF Contains
    <3>2. CASE ~(i < k)
      <4>1. i + 1 \in 1 .. Len(s) + 1 /\ ~(i + 1 < k) /\ i + 1 # k /\ (i + 1) - 1 = i
        BY <1>1, <3>2
      <4>2. t[i + 1] = s[i]
        BY <1>1, <4>1
      <4> QED
        BY <1>1, <2>2, <4>1, <4>2 DEF Contains
    <3> QED
      BY <3>1, <3>2
  <2>3. Contains(t, e)
    <3>1. t[k] = e
      BY <1>1
    <3> QED
      BY <1>1, <3>1 DEF Contains
  <2> QED
    BY <1>1, <2>1, <2>2, <2>3 DEF Contains
<1>8. IsInjective(t)
  BY <1>2, <1>6 DEF IsInjective
<1> QED
  BY <1>7, <1>8 DEF t

\* one is appended,
LEMMA AppendedEntry ==
    ASSUME NEW F, NEW s \in Seq(F), IsInjective(s), NEW e \in F, ~Contains(s, e)
    PROVE  /\ IsInjective(Append(s, e))
           /\ \A x : Contains(Append(s, e), x) <=> Contains(s, x) \/ x = e
<1> DEFINE t == Append(s, e)
<1>1. /\ t \in Seq(F) /\ Len(t) = Len(s) + 1 /\ Len(s) \in Nat
      /\ (\A n \in 1 .. Len(s) : t[n] = s[n]) /\ t[Len(s) + 1] = e
  BY AppendProperties, LenProperties
<1>2. DOMAIN t = 1 .. Len(s) + 1 /\ DOMAIN s = 1 .. Len(s)
  BY <1>1, LenProperties
<1> HIDE DEF t
<1>3. \A n \in 1 .. Len(s) + 1 : n \in 1 .. Len(s) \/ n = Len(s) + 1
  BY <1>1
<1>4. IsInjective(t)
  BY <1>1, <1>2, <1>3 DEF IsInjective, Contains
<1>5. \A x : Contains(t, x) <=> Contains(s, x) \/ x = e
  BY <1>1, <1>3 DEF Contains
<1> QED
  BY <1>4, <1>5 DEF t

\* and two queues are joined.
LEMMA JoinedEntries ==
    ASSUME NEW F, NEW a \in Seq(F), NEW b \in Seq(F), IsInjective(a), IsInjective(b),
           \A x : ~(Contains(a, x) /\ Contains(b, x))
    PROVE  /\ a \o b \in Seq(F) /\ IsInjective(a \o b)
           /\ \A x : Contains(a \o b, x) <=> Contains(a, x) \/ Contains(b, x)
<1> DEFINE t == a \o b
<1>1. /\ t \in Seq(F) /\ Len(t) = Len(a) + Len(b) /\ Len(a) \in Nat /\ Len(b) \in Nat
      /\ \A i \in 1 .. Len(a) + Len(b) : t[i] = IF i <= Len(a) THEN a[i] ELSE b[i - Len(a)]
  BY ConcatProperties, LenProperties
<1>2. DOMAIN t = 1 .. Len(a) + Len(b) /\ DOMAIN a = 1 .. Len(a) /\ DOMAIN b = 1 .. Len(b)
  BY <1>1, LenProperties
<1>3. /\ \A m, n \in 1 .. Len(a) : a[m] = a[n] => m = n
      /\ \A m, n \in 1 .. Len(b) : b[m] = b[n] => m = n
      /\ \A m \in 1 .. Len(a), n \in 1 .. Len(b) : a[m] # b[n]
  BY <1>2 DEF IsInjective, Contains
<1> HIDE DEF t
<1>4. ASSUME NEW n \in 1 .. Len(a) + Len(b)
      PROVE  \/ n \in 1 .. Len(a) /\ t[n] = a[n]
             \/ ~(n <= Len(a)) /\ n - Len(a) \in 1 .. Len(b) /\ t[n] = b[n - Len(a)]
  BY <1>1
<1>5. ASSUME NEW m \in 1 .. Len(a) + Len(b), NEW n \in 1 .. Len(a) + Len(b), t[m] = t[n] PROVE m = n
  <2>1. CASE m <= Len(a) /\ n <= Len(a)
    BY <1>3, <1>4, <1>5, <2>1
  <2>2. CASE ~(m <= Len(a)) /\ ~(n <= Len(a))
    <3>1. m - Len(a) = n - Len(a)
      BY <1>3, <1>4, <1>5, <2>2
    <3> QED
      BY <1>1, <3>1
  <2>3. CASE m <= Len(a) /\ ~(n <= Len(a))
    BY <1>3, <1>4, <1>5, <2>3
  <2>4. CASE ~(m <= Len(a)) /\ n <= Len(a)
    <3>1. t[m] = b[m - Len(a)] /\ t[n] = a[n] /\ n \in 1 .. Len(a) /\ m - Len(a) \in 1 .. Len(b)
      BY <1>1, <1>4, <2>4
    <3> QED
      BY <1>3, <1>5, <3>1
  <2> QED
    BY <2>1, <2>2, <2>3, <2>4
<1>6. ASSUME NEW x PROVE Contains(t, x) <=> Contains(a, x) \/ Contains(b, x)
  <2>1. ASSUME NEW n \in 1 .. Len(a) + Len(b), t[n] = x PROVE Contains(a, x) \/ Contains(b, x)
    BY <1>4, <2>1 DEF Contains
  <2>2. ASSUME NEW i \in 1 .. Len(a), a[i] = x PROVE Contains(t, x)
    <3>1. i \in 1 .. Len(a) + Len(b) /\ t[i] = a[i]
      BY <1>1
    <3> QED
      BY <1>1, <2>2, <3>1 DEF Contains
  <2>3. ASSUME NEW i \in 1 .. Len(b), b[i] = x PROVE Contains(t, x)
    <3>1. i + Len(a) \in 1 .. Len(a) + Len(b) /\ ~(i + Len(a) <= Len(a)) /\ (i + Len(a)) - Len(a) = i
      BY <1>1
    <3>2. t[i + Len(a)] = b[i]
      BY <1>1, <3>1
    <3> QED
      BY <1>1, <2>3, <3>1, <3>2 DEF Contains
  <2> QED
    BY <1>1, <2>1, <2>2, <2>3 DEF Contains
<1>7. IsInjective(t)
  BY <1>2, <1>5 DEF IsInjective
<1> QED
  BY <1>1, <1>6, <1>7 DEF t

\* It is no longer than there are slots.
LEMMA EntriesBound ==
    ASSUME NEW S \in SUBSET Slot, NEW s \in Seq(Slot), IsInjective(s), \A x : Contains(s, x) => x \in S
    PROVE  Len(s) <= Cardinality(S) /\ Cardinality(S) \in Nat
<1>1. Len(s) \in Nat /\ DOMAIN s = 1 .. Len(s) /\ s \in [1 .. Len(s) -> Slot]
  BY LenProperties
<1>2. s \in [1 .. Len(s) -> S]
  BY <1>1 DEF Contains
<1>3. s \in Injection(1 .. Len(s), S)
  BY <1>2 DEF Injection
<1>4. IsFiniteSet(S)
  BY SlotFinite, FS_Subset
<1>5. Cardinality(1 .. Len(s)) <= Cardinality(S)
  BY <1>3, <1>4, FS_Injection
<1>6. Cardinality(1 .. Len(s)) = Len(s)
  BY <1>1, FS_Interval
<1> QED
  BY <1>4, <1>5, <1>6, FS_CardinalityType

\* The five arrays, as sequences, and who is in them.
LEMMA QueueFacts ==
    ASSUME MInv, QInv, NEW l \in Level
    PROVE  /\ queue[l] \in Seq(Slot) /\ Len(queue[l]) \in Nat /\ Len(queue[l]) <= NPROC
           /\ DOMAIN queue[l] = 1 .. Len(queue[l]) /\ IsInjective(queue[l])
           /\ DOMAIN queue = Level \cup {MOQ} /\ MOQ \notin Level
           /\ \A n \in 1 .. Len(queue[l]) :
                 /\ queue[l][n] \in Slot /\ Placed(queue[l][n]) /\ proc[queue[l][n]].qlevel = l
                 /\ proc[queue[l][n]].pid # 0
<1>1. DOMAIN queue = Level \cup {MOQ} /\ queue[l] \in Seq(Slot) /\ Len(queue[l]) <= NPROC
  BY DEF MInv, Types
<1>2. Len(queue[l]) \in Nat /\ DOMAIN queue[l] = 1 .. Len(queue[l])
  BY <1>1, LenProperties
<1>3. IsInjective(queue[l])
  BY DEF QInv, Single
<1>4. ASSUME NEW n \in 1 .. Len(queue[l])
      PROVE  /\ queue[l][n] \in Slot /\ Placed(queue[l][n]) /\ proc[queue[l][n]].qlevel = l
             /\ proc[queue[l][n]].pid # 0
  <2>1. queue[l][n] \in Slot /\ Contains(queue[l], queue[l][n])
    BY <1>1, <1>2, ElementOfSeq DEF Contains
  <2> QED
    BY <2>1 DEF QInv, InPlace, Placed, MInv, Lineage
<1> QED
  BY <1>1, <1>2, <1>3, <1>4 DEF Level, MOQ

\* A slot that waits for its entry is EMBRYO.
LEMMA UnqueuedFacts ==
    ASSUME MInv, NEW n \in Slot, Unqueued(n)
    PROVE  proc[n].state = "EMBRYO"
BY DEF MInv, Allocated, Allocates, Unqueued

\* A process that has got past that, in one of the levels.
LEMMA PlacedFacts ==
    ASSUME MInv, QInv, NEW p \in Slot, proc[p].state \notin {"UNUSED", "EMBRYO"}
    PROVE  /\ Placed(p) /\ proc[p].qlevel \in Level /\ Contains(queue[proc[p].qlevel], p)
           /\ proc[p].pid # 0
<1>1. Placed(p)
  BY UnqueuedFacts DEF Placed
<1>2. proc[p].qlevel \in Level
  BY TableFacts DEF Procs, QInv, Unmoved
<1> QED
  BY <1>1, <1>2 DEF QInv, InPlace, MInv, Lineage

\* fork() takes a slot: it has no entry in a queue yet.
LEMMA QueueForkAlloc ==
    ASSUME MInv, QInv, NEW c \in CPU, NEW p \in Slot, ForkAlloc(c, p)
    PROVE  QInv'
<1>1. At(c, p, "fork") /\ UNCHANGED queue
  BY DEF ForkAlloc
<1>2. stack[p] # <<>> /\ Top(p).at = "fork" /\ stack[p] \in Stacks /\ stack \in [Slot -> Stacks]
  BY <1>1, AtFacts DEF MInv
<1>3. "fork" \in Code \ IrqCode /\ "fork_stack" \in Code /\ "fork_stack" \notin Moving
  BY DEF Code, SystemCalls, IrqCode, Moving
<1>4. Len(stack[p]) = 1 /\ stack[p][1].at = "fork"
  BY <1>1, <1>3, CallTop
<1>5. CASE UnusedSlots = {}
  <2>1. stack' = Finish(p) /\ UNCHANGED proc /\ nextpid' = nextpid
    BY <1>5 DEF ForkAlloc
  <2> QED
    BY <1>1, <1>2, <2>1, SameTable, SmoothFinish, Calm
<1>6. CASE UnusedSlots # {}
  <2>1. PICK np : np = First(UnusedSlots)
    OBVIOUS
  <2>2. np \in Slot /\ proc[np].state = "UNUSED" /\ np \in Nat /\ proc[np] \in Procs
    BY <1>6, <2>1, FirstIn, Names, TableFacts DEF UnusedSlots
  <2>3. /\ proc' = [proc EXCEPT ![np].state = "EMBRYO", ![np].pid = nextpid]
        /\ stack' = Goto(p, "fork_stack", np, 0) /\ nextpid' = nextpid + 1
    BY <1>6, <2>1 DEF ForkAlloc
  <2>4. nextpid \in Nat /\ nextpid \in 2 .. MaxPid + 1
    BY MlfqAssumption DEF MInv, Types
  <2> DEFINE r == [proc[np] EXCEPT !.state = "EMBRYO", !.pid = nextpid]
  <2>5. r.state = "EMBRYO" /\ r.pid = nextpid /\ r.qlevel = proc[np].qlevel
    BY <2>2 DEF Procs
  <2>6. proc' = [proc EXCEPT ![np] = r]
    BY <2>2, <2>3, TableFacts DEF Procs
  <2> HIDE DEF r
  <2>7. proc'[np] = r /\ \A q \in Slot : q # np => proc'[q] = proc[q]
    BY <2>2, <2>6, TableFacts
  <2>8. PICK t \in Stacks : /\ stack' = [stack EXCEPT ![p] = t]
                            /\ t # <<>> /\ Len(t) = 1
                            /\ Last(t) = Frame("fork_stack", np, 0, Top(p).irq)
    <3>1. Frame("fork_stack", np, 0, Top(p).irq) \in Frames
      <4>1. Top(p) \in Frames /\ Top(p).at \notin IrqCode /\ 0 \in Nat
        BY <1>2, <1>3, StackFacts DEF Top
      <4> QED
        BY <1>3, <2>2, <4>1, FrameIn
    <3> QED
      BY <1>2, <1>3, <1>4, <2>3, <3>1, GotoFacts
  <2>9. t[1].at = "fork_stack" /\ t[1].v = np /\ Last(t) = t[1]
    BY <2>8, StackFacts DEF Frame
  <2>10. stack'[p] = t /\ \A q \in Slot : q # p => stack'[q] = stack[q]
    BY <1>2, <2>8
  <2>11. \A n \in Slot : Unqueued(n)' <=> Unqueued(n) \/ n = np
    <3> SUFFICES ASSUME NEW n \in Slot
                 PROVE  (\E q \in Slot : stack'[q] # <<>> /\ stack'[q][1].at = "fork_stack" /\ stack'[q][1].v = n)
                        <=> \/ \E q \in Slot : stack[q] # <<>> /\ stack[q][1].at = "fork_stack" /\ stack[q][1].v = n
                            \/ n = np
      BY DEF Unqueued
    <3> QED
      BY <1>4, <2>8, <2>9, <2>10
  <2>12. Settled'
    <3>1. ASSUME NEW q \in Slot, stack'[q] # <<>>
          PROVE  stack'[q][1].at \notin Moving /\ (Last(stack'[q]).at = "exit" => Len(stack'[q]) = 1)
      <4>1. CASE q = p
        BY <1>3, <2>8, <2>9, <2>10, <4>1
      <4>2. CASE q # p
        BY <2>10, <3>1, <4>2 DEF QInv, Settled, Top
      <4> QED
        BY <4>1, <4>2
    <3> QED
      BY <3>1 DEF Settled, Top
  <2>13. Single' /\ Unmoved'
    BY <1>1, <2>5, <2>7 DEF QInv, Single, Unmoved
  <2>14. InPlace'
    <3>1. \A q \in Slot : /\ Placed(q)' <=> Placed(q)
                          /\ proc'[q].qlevel = proc[q].qlevel
      BY <2>2, <2>5, <2>7, <2>11 DEF Placed
    <3> QED
      BY <1>1, <3>1 DEF QInv, InPlace
  <2>15. Named'
    <3>1. \A q \in Slot : proc[q].pid < nextpid /\ proc[q].pid \in Nat
      BY TableFacts, MlfqAssumption DEF QInv, Named, Procs
    <3>2. ASSUME NEW q \in Slot PROVE proc'[q].pid < nextpid'
      <4>1. nextpid' = nextpid + 1
        BY <2>3
      <4>2. proc'[q].pid = nextpid \/ proc'[q].pid = proc[q].pid
        BY <2>5, <2>7
      <4>3. nextpid < nextpid + 1 /\ \A n \in Nat : n < nextpid => n < nextpid + 1
        BY <2>4
      <4> QED
        BY <3>1, <4>1, <4>2, <4>3
    <3>3. \A q \in Slot : proc'[q].state = "UNUSED" => proc'[q].pid = 0
      BY <2>5, <2>7 DEF QInv, Named
    <3>4. ASSUME NEW q \in Slot, NEW o \in Slot, proc'[q].pid = proc'[o].pid, proc'[q].pid # 0
          PROVE  q = o
      <4>1. \A x \in Slot : proc[x].pid # nextpid
        BY <2>4, <3>1
      <4>2. CASE q = np \/ o = np
        BY <2>5, <2>7, <3>4, <4>1, <4>2
      <4>3. CASE q # np /\ o # np
        BY <2>7, <3>4, <4>3 DEF QInv, Named
      <4> QED
        BY <4>2, <4>3
    <3> QED
      BY <3>2, <3>3, <3>4 DEF Named
  <2> QED
    BY <2>12, <2>13, <2>14, <2>15 DEF QInv
<1> QED
  BY <1>5, <1>6

\* fork() appends it to L0,
LEMMA QueueForkStack ==
    ASSUME Steady, MInv, QInv, NEW c \in CPU, NEW p \in Slot, ForkStack(c, p), fault' = fault
    PROVE  QInv'
<1>1. PICK np : np = Top(p).v
  OBVIOUS
<1>2. At(c, p, "fork_stack") /\ fault = "none"
  BY DEF ForkStack, At, Runs
<1>3. /\ Len(queue[0]) < NPROC
      /\ proc' = [proc EXCEPT ![np].qlevel = 0, ![np].priority = 0, ![np].timeslice = Slice[0]]
      /\ queue' = [queue EXCEPT ![0] = Append(@, np)]
      /\ stack' = Goto(p, "fork_copy", np, 0) /\ nextpid' = nextpid
  BY <1>1, <1>2 DEF ForkStack, Fail, Steady
<1>4. /\ np \in Slot /\ np \in Nat /\ proc[np].state = "EMBRYO" /\ proc[np] \in Procs
      /\ \A q, n \in Slot : Allocates(q, n) /\ q # p => n # np
      /\ Len(stack[p]) = 1 /\ Allocates(p, np)
  BY <1>1, <1>2, ForkBase, Names, TableFacts
<1>5. stack[p] # <<>> /\ Top(p).at = "fork_stack" /\ stack[p] \in Stacks /\ stack \in [Slot -> Stacks]
      /\ stack[p][1] = Top(p)
  <2>1. "fork_stack" \in Code \ IrqCode
    BY DEF Code, IrqCode
  <2> QED
    BY <1>2, <2>1, AtFacts, CallTop DEF MInv
<1> DEFINE r == [proc[np] EXCEPT !.qlevel = 0, !.priority = 0, !.timeslice = Slice[0]]
<1>6. r.state = "EMBRYO" /\ r.pid = proc[np].pid /\ r.qlevel = 0
  BY <1>4 DEF Procs
<1>7. proc' = [proc EXCEPT ![np] = r]
  BY <1>3, <1>4, TableFacts DEF Procs
<1> HIDE DEF r
<1>8. proc'[np] = r /\ \A q \in Slot : q # np => proc'[q] = proc[q]
  BY <1>4, <1>7, TableFacts
<1>9. PICK t \in Stacks : /\ stack' = [stack EXCEPT ![p] = t]
                          /\ t # <<>> /\ Len(t) = 1 /\ Last(t).at = "fork_copy" /\ t[1].at = "fork_copy"
  <2>1. "fork_copy" \in Code /\ "fork_copy" \notin {"setmonopoly_remove", "slice"} /\ 0 \in Nat
        /\ Top(p).at \notin IrqCode
    BY <1>5 DEF Code, IrqCode
  <2>2. PICK t \in Stacks : /\ Goto(p, "fork_copy", np, 0) = [stack EXCEPT ![p] = t]
                            /\ t # <<>> /\ Len(t) = Len(stack[p]) /\ Last(t).at = "fork_copy"
    BY <1>4, <1>5, <2>1, FirstFrame
  <2>3. t[1] = Last(t)
    BY <1>4, <2>2, StackFacts
  <2> QED
    BY <1>3, <1>4, <2>2, <2>3
<1>10. stack'[p] = t /\ \A q \in Slot : q # p => stack'[q] = stack[q]
  BY <1>5, <1>9
<1>11. Unqueued(np)
  BY <1>1, <1>5 DEF Unqueued
<1>12. \A n \in Slot : Unqueued(n)' <=> Unqueued(n) /\ n # np
  <2> SUFFICES ASSUME NEW n \in Slot
               PROVE  (\E q \in Slot : stack'[q] # <<>> /\ stack'[q][1].at = "fork_stack" /\ stack'[q][1].v = n)
                      <=> /\ \E q \in Slot : stack[q] # <<>> /\ stack[q][1].at = "fork_stack" /\ stack[q][1].v = n
                          /\ n # np
    BY DEF Unqueued
  <2> QED
    BY <1>1, <1>4, <1>5, <1>9, <1>10 DEF Allocates
<1>13. Settled'
  <2>1. ASSUME NEW q \in Slot, stack'[q] # <<>>
        PROVE  stack'[q][1].at \notin Moving /\ (Last(stack'[q]).at = "exit" => Len(stack'[q]) = 1)
    <3>1. CASE q = p
      BY <1>9, <1>10, <3>1 DEF Moving
    <3>2. CASE q # p
      BY <1>10, <2>1, <3>2 DEF QInv, Settled, Top
    <3> QED
      BY <3>1, <3>2
  <2> QED
    BY <2>1 DEF Settled, Top
<1>14. 0 \in Level
  BY DEF Level
<1>15. ~Contains(queue[0], np)
  BY <1>4, <1>11, <1>14 DEF QInv, InPlace, Placed
<1>16. queue[0] \in Seq(Slot) /\ IsInjective(queue[0]) /\ DOMAIN queue = Level \cup {MOQ} /\ MOQ \notin Level
  BY <1>14, QueueFacts
<1>17. /\ IsInjective(Append(queue[0], np))
       /\ \A x : Contains(Append(queue[0], np), x) <=> Contains(queue[0], x) \/ x = np
  BY <1>4, <1>15, <1>16, AppendedEntry
<1>18. queue'[0] = Append(queue[0], np) /\ \A l \in Level \cup {MOQ} : l # 0 => queue'[l] = queue[l]
  BY <1>3, <1>14, <1>16
<1>19. Single' /\ Unmoved'
  <2>1. MOQ # 0 /\ \A q \in Slot : proc'[q].qlevel # MOQ
    BY <1>6, <1>8 DEF QInv, Unmoved, MOQ
  <2> QED
    BY <1>17, <1>18, <2>1 DEF QInv, Single, Unmoved
<1>20. InPlace'
  <2>1. ASSUME NEW l \in Level, NEW q \in Slot
        PROVE  Contains(queue'[l], q) <=> Placed(q)' /\ proc'[q].qlevel = l
    <3>1. CASE q = np
      <4>1. Placed(np)' /\ proc'[np].qlevel = 0
        BY <1>4, <1>6, <1>8, <1>12 DEF Placed
      <4>2. Contains(queue'[0], np)
        BY <1>17, <1>18
      <4>3. ~Contains(queue[l], np)
        BY <1>4, <1>11 DEF QInv, InPlace, Placed
      <4> QED
        BY <1>18, <3>1, <4>1, <4>2, <4>3
    <3>2. CASE q # np
      <4>1. (Placed(q)' <=> Placed(q)) /\ proc'[q] = proc[q]
        BY <1>8, <1>12, <3>2 DEF Placed
      <4>2. Contains(queue'[l], q) <=> Contains(queue[l], q)
        BY <1>17, <1>18, <3>2
      <4> QED
        BY <4>1, <4>2 DEF QInv, InPlace
    <3> QED
      BY <3>1, <3>2
  <2> QED
    BY <2>1 DEF InPlace
<1>21. Named'
  <2>1. nextpid' = nextpid
    BY <1>3
  <2>2. \A q \in Slot : /\ proc'[q].pid = proc[q].pid
                        /\ proc'[q].state = "UNUSED" <=> proc[q].state = "UNUSED"
    BY <1>4, <1>6, <1>8
  <2> QED
    BY <2>1, <2>2 DEF QInv, Named
<1> QED
  BY <1>13, <1>19, <1>20, <1>21 DEF QInv

\* and makes it ready.
LEMMA CalmForkCopy ==
    ASSUME Steady, MInv, QInv, NEW c \in CPU, NEW p \in Slot, ForkCopy(c, p)
    PROVE  QInv'
<1>1. PICK np : np = Top(p).v
  OBVIOUS
<1>2. PICK u : u = <<Frame("forkret", 0, 0, FALSE)>>
  OBVIOUS
<1>3. /\ At(c, p, "fork_copy") /\ UNCHANGED <<queue, nextpid>>
      /\ proc' = [proc EXCEPT ![np].parent = p, ![np].state = "RUNNABLE"]
      /\ stack' = [Finish(p) EXCEPT ![np] = u]
  BY <1>1, <1>2 DEF ForkCopy, Steady
<1>4. /\ np \in Slot /\ np # p /\ proc[np].state = "EMBRYO" /\ stack[np] = <<>> /\ Len(stack[p]) = 1
  BY <1>1, <1>3, ForkBase
<1>5. stack[p] # <<>> /\ Top(p).at = "fork_copy" /\ stack[p] \in Stacks /\ stack \in [Slot -> Stacks]
      /\ stack[p][1] = Top(p)
  <2>1. "fork_copy" \in Code \ IrqCode
    BY DEF Code, IrqCode
  <2> QED
    BY <1>3, <2>1, AtFacts, CallTop DEF MInv
<1>6. Last(u).at = "forkret" /\ u[1].at = "forkret" /\ u # <<>> /\ Len(u) = 1
  <2>1. "forkret" \in SystemCalls \cup {"forkret"} /\ 0 \in Nat
    OBVIOUS
  <2> QED
    BY <1>2, <2>1, CallFrame
<1>7. PICK t \in Stacks : /\ Finish(p) = [stack EXCEPT ![p] = t]
                          /\ t # <<>> /\ Len(t) = Len(stack[p]) /\ Last(t).at = "ret" /\ (Len(t) = 1 => t[1].at = "ret")
  BY <1>3, FinishFacts
<1>8. stack'[p] = t /\ stack'[np] = u /\ \A q \in Slot : q # p /\ q # np => stack'[q] = stack[q]
  BY <1>3, <1>4, <1>5, <1>7
<1>9. Settled'
  <2>1. ASSUME NEW q \in Slot, stack'[q] # <<>>
        PROVE  stack'[q][1].at \notin Moving /\ (Last(stack'[q]).at = "exit" => Len(stack'[q]) = 1)
    <3>1. CASE q = p \/ q = np
      BY <1>4, <1>6, <1>7, <1>8, <3>1 DEF Moving
    <3>2. CASE q # p /\ q # np
      BY <1>8, <2>1, <3>2 DEF QInv, Settled, Top
    <3> QED
      BY <3>1, <3>2
  <2> QED
    BY <2>1 DEF Settled, Top
<1>10. \A n \in Slot : Unqueued(n)' <=> Unqueued(n)
  <2>1. ASSUME NEW q \in Slot, NEW n \in Slot
        PROVE  (stack'[q] # <<>> /\ stack'[q][1].at = "fork_stack" /\ stack'[q][1].v = n)
                <=> (stack[q] # <<>> /\ stack[q][1].at = "fork_stack" /\ stack[q][1].v = n)
    BY <1>4, <1>5, <1>6, <1>7, <1>8
  <2> QED
    BY <2>1 DEF Unqueued
<1>11. Kept
  <2> DEFINE r == [proc[np] EXCEPT !.parent = p, !.state = "RUNNABLE"]
  <2>1. proc[np] \in Procs
    BY <1>4, TableFacts
  <2>2. proc' = [proc EXCEPT ![np] = r]
    BY <1>3, <1>4, TableFacts DEF Procs
  <2>3. r.pid = proc[np].pid /\ r.qlevel = proc[np].qlevel /\ r.state = "RUNNABLE"
    BY <2>1, FieldsKept
  <2> HIDE DEF r
  <2> QED
    BY <1>4, <2>2, <2>3, SlotKept
<1> QED
  BY <1>3, <1>9, <1>10, <1>11, Calm DEF Stacked

\* A panic changes nothing else.
LEMMA CalmFail ==
    ASSUME QInv, UNCHANGED <<proc, queue, nextpid, stack>>
    PROVE  QInv'
BY SameTable, SameStacks, Calm

\* exit(): a zombie stays in its queue.
LEMMA CalmExit ==
    ASSUME MInv, QInv, NEW c \in CPU, NEW p \in Slot, Exit(c, p)
    PROVE  QInv'
<1>1. CASE Fail("panic")
  BY <1>1, CalmFail DEF Fail
<1>2. CASE /\ proc' = [LeaveChildren(p) EXCEPT ![p].state = "ZOMBIE"]
           /\ stack' = [stack EXCEPT ![p] = <<>>] /\ UNCHANGED <<queue, nextpid>>
  <2>1. At(c, p, "exit")
    BY DEF Exit
  <2>2. stack[p] # <<>> /\ Top(p).at = "exit" /\ stack[p] \in Stacks /\ stack \in [Slot -> Stacks]
        /\ proc[p].state = "RUNNING"
    BY <2>1, AtFacts DEF MInv
  <2>3. Len(stack[p]) = 1 /\ stack[p][1] = Top(p)
    BY <2>2, StackFacts DEF QInv, Settled, Top
  <2>4. <<>> \in Stacks
    <3>1. <<>> \in Seq(Frames) /\ Len(<<>>) = 0
      BY EmptySeq
    <3> QED
      BY <3>1 DEF Stacks
  <2>5. Smooth(p, <<>>)
    BY <2>2, <2>3 DEF Smooth
  <2>6. Stacked
    BY <1>2, <2>2, <2>4, <2>5, SmoothStep
  <2>7. PICK T \in [Slot -> Procs] : T = LeaveChildren(p)
    BY LeftTable
  <2>8. \A q \in Slot : /\ T[q].pid = proc[q].pid /\ T[q].qlevel = proc[q].qlevel
                        /\ T[q].state = "UNUSED" <=> proc[q].state = "UNUSED"
    BY <2>7, LeftTable, LeftKept
  <2> DEFINE r == [T[p] EXCEPT !.state = "ZOMBIE"]
  <2>9. T[p] \in Procs
    OBVIOUS
  <2>10. r.pid = T[p].pid /\ r.qlevel = T[p].qlevel /\ r.state = "ZOMBIE"
    BY <2>9, FieldsKept
  <2>11. proc' = [T EXCEPT ![p] = r]
    BY <1>2, <2>7
  <2> HIDE DEF r
  <2>12. Kept
    BY <2>2, <2>8, <2>10, <2>11 DEF Kept
  <2> QED
    BY <1>2, <2>6, <2>12, Calm
<1> QED
  BY <1>1, <1>2 DEF Exit

\* wait() frees a zombie: the entry that it takes out is the zombie's, the only
\* one of an UNUSED slot.
LEMMA QueueWait ==
    ASSUME MInv, QInv, NEW c \in CPU, NEW p \in Slot, Wait(c, p)
    PROVE  QInv'
<1>1. At(c, p, "wait") /\ nextpid' = nextpid
  BY DEF Wait
<1>2. stack[p] # <<>> /\ Top(p).at = "wait" /\ proc[p].state = "RUNNING" /\ proc[p] \in Procs
  BY <1>1, AtFacts, TableFacts
<1>3. CASE stack' = Finish(p) /\ UNCHANGED <<proc, queue>>
  BY <1>1, <1>2, <1>3, SameTable, SmoothFinish, Calm
<1>4. CASE /\ proc' = [proc EXCEPT ![p].chan = p, ![p].state = "SLEEPING"]
           /\ stack' = Goto(p, "wait_wake", 0, 0) /\ UNCHANGED queue
  <2> DEFINE r == [proc[p] EXCEPT !.chan = p, !.state = "SLEEPING"]
  <2>1. proc' = [proc EXCEPT ![p] = r]
    BY <1>4, TableFacts
  <2>2. r.pid = proc[p].pid /\ r.qlevel = proc[p].qlevel /\ r.state = "SLEEPING"
    BY <1>2, FieldsKept
  <2> HIDE DEF r
  <2>3. Kept
    BY <1>2, <2>1, <2>2, SlotKept
  <2>4. "wait_wake" \in Code \ (Moving \cup {"fork_stack"}) /\ "wait" \notin IrqCode /\ 0 \in Nat
    BY DEF Code, Resumable, Moving, IrqCode
  <2>5. Stacked
    BY <1>2, <1>4, <2>4, SmoothGoto
  <2> QED
    BY <1>1, <1>4, <2>3, <2>5, Calm
<1>5. CASE Zombies(p) # {}
  <2>1. PICK z : z = First(Zombies(p))
    OBVIOUS
  <2>2. z \in Slot /\ proc[z].state = "ZOMBIE" /\ proc[z] \in Procs
    <3>1. Zombies(p) \in SUBSET Nat
      BY Names DEF Zombies, Children
    <3>2. z \in Zombies(p)
      BY <1>5, <2>1, <3>1, FirstIn
    <3> QED
      BY <3>2, TableFacts DEF Zombies, Children
  <2>3. PICK l : l = proc[z].qlevel
    OBVIOUS
  <2>4. l \in Level /\ Contains(queue[l], z) /\ Placed(z)
    BY <2>2, <2>3, PlacedFacts
  <2>5. PICK k : k = FALSE
    OBVIOUS
  <2> DEFINE r == [proc[z] EXCEPT !.pid = 0, !.parent = NONE, !.killed = k, !.state = "UNUSED"]
             freed == [proc EXCEPT ![z] = r]
  <2>6. /\ proc' = freed
        /\ queue' = [queue EXCEPT ![l] = Reaped(freed, @)]
        /\ stack' = Finish(p)
    <3>1. [proc EXCEPT ![z].pid = 0, ![z].parent = NONE, ![z].killed = FALSE, ![z].state = "UNUSED"] = freed
      BY <2>2, <2>5, TableFacts
    <3> QED
      BY <1>5, <2>1, <2>3, <3>1 DEF Wait
  <2>7. r.state = "UNUSED" /\ r.pid = 0 /\ r.qlevel = l
    BY <2>2, <2>3 DEF Procs
  <2> HIDE DEF r
  <2>8. freed[z] = r /\ \A q \in Slot : q # z => freed[q] = proc[q]
    BY <2>2, TableFacts
  <2> HIDE DEF freed
  <2>9. PICK s \in Seq(Slot) : s = queue[l]
    BY <2>4, QueueFacts
  <2>10. /\ DOMAIN s = 1 .. Len(s) /\ IsInjective(s) /\ DOMAIN queue = Level \cup {MOQ} /\ MOQ \notin Level
         /\ \A n \in 1 .. Len(s) : s[n] \in Slot /\ proc[s[n]].state # "UNUSED"
    BY <2>4, <2>9, QueueFacts DEF Placed
  <2>11. PICK n \in 1 .. Len(s) : s[n] = z
    BY <2>4, <2>9 DEF Contains
  <2>12. Reaped(freed, s) = RemoveAt(s, n)
    <3> DEFINE unused == {i \in DOMAIN s : freed[s[i]].state = "UNUSED"}
    <3>1. unused = {n}
      <4>1. n \in unused
        BY <2>7, <2>8, <2>10, <2>11
      <4>2. ASSUME NEW i \in 1 .. Len(s), freed[s[i]].state = "UNUSED" PROVE i = n
        <5>1. s[i] = z
          BY <2>8, <2>10, <4>2
        <5> QED
          BY <2>10, <2>11, <5>1 DEF IsInjective
      <4> QED
        BY <2>10, <4>1, <4>2
    <3>2. Reaped(freed, s) = IF unused = {} THEN s ELSE RemoveAt(s, First(unused))
      BY DEF Reaped
    <3> HIDE DEF unused
    <3>3. First(unused) = n
      <4>1. unused \in SUBSET Nat /\ unused # {}
        BY <3>1
      <4> QED
        BY <3>1, <4>1, FirstIn
    <3> QED
      BY <3>1, <3>2, <3>3
  <2>13. queue'[l] = RemoveAt(s, n) /\ \A i \in Level \cup {MOQ} : i # l => queue'[i] = queue[i]
    BY <2>4, <2>6, <2>9, <2>10, <2>12
  <2>14. IsInjective(queue'[l]) /\ \A x : Contains(queue'[l], x) <=> Contains(queue[l], x) /\ x # z
    BY <2>9, <2>10, <2>11, <2>13, RemovedEntry
  <2>15. Stacked
    BY <1>2, <2>6, SmoothFinish
  <2>16. proc'[z] = r /\ \A q \in Slot : q # z => proc'[q] = proc[q]
    BY <2>6, <2>8
  <2>17. Single'
    BY <2>13, <2>14 DEF QInv, Single
  <2>18. Unmoved'
    <3>1. queue'[MOQ] = <<>>
      BY <2>4, <2>10, <2>13 DEF QInv, Unmoved
    <3>2. \A q \in Slot : proc'[q].qlevel # MOQ
      BY <2>4, <2>7, <2>10, <2>16 DEF QInv, Unmoved
    <3> QED
      BY <3>1, <3>2 DEF Unmoved
  <2>19. Named'
    <3>1. \A q \in Slot : proc'[q].pid # 0 => q # z /\ proc'[q].pid = proc[q].pid
      BY <2>7, <2>16
    <3>2. \A q \in Slot : proc'[q].state = "UNUSED" => proc'[q].pid = 0
      BY <2>7, <2>16 DEF QInv, Named
    <3>3. \A q \in Slot : proc'[q].pid < nextpid'
      <4>1. 0 < nextpid
        BY MlfqAssumption DEF MInv, Types
      <4> QED
        BY <1>1, <2>7, <2>16, <4>1 DEF QInv, Named
    <3> QED
      BY <3>1, <3>2, <3>3 DEF QInv, Named
  <2>20. InPlace'
    <3>1. ASSUME NEW i \in Level, NEW q \in Slot
          PROVE  Contains(queue'[i], q) <=> Placed(q)' /\ proc'[q].qlevel = i
      <4>1. CASE q = z
        <5>1. ~Placed(z)'
          BY <2>7, <2>16 DEF Placed
        <5>2. ~Contains(queue'[i], z)
          <6>1. CASE i = l
            BY <2>14, <6>1
          <6>2. CASE i # l
            BY <2>2, <2>3, <2>13, <6>2 DEF QInv, InPlace
          <6> QED
            BY <6>1, <6>2
        <5> QED
          BY <4>1, <5>1, <5>2
      <4>2. CASE q # z
        <5>1. proc'[q] = proc[q] /\ (Placed(q)' <=> Placed(q))
          BY <2>15, <2>16, <4>2 DEF Placed, Stacked
        <5>2. Contains(queue'[i], q) <=> Contains(queue[i], q)
          BY <2>13, <2>14, <4>2
        <5> QED
          BY <5>1, <5>2 DEF QInv, InPlace
      <4> QED
        BY <4>1, <4>2
    <3> QED
      BY <3>1 DEF InPlace
  <2> QED
    BY <2>15, <2>17, <2>18, <2>19, <2>20 DEF QInv, Stacked
<1> QED
  BY <1>3, <1>4, <1>5 DEF Wait

\* The only place that removePCB() finds for a running process is its entry.
LEMMA OnePosition ==
    ASSUME MInv, QInv, NEW p \in Slot, proc[p].state = "RUNNING",
           NEW l, l = proc[p].qlevel
    PROVE  /\ l \in Level
           /\ \E k \in 1 .. Len(queue[l]) :
                 /\ queue[l][k] = p /\ Positions(l, p) = {k}
                 /\ removePCB(l, p) = [queue EXCEPT ![l] = RemoveAt(queue[l], k)]
<1>1. l \in Level /\ Contains(queue[l], p) /\ proc[p].pid # 0
  BY PlacedFacts
<1>2. PICK k \in 1 .. Len(queue[l]) : queue[l][k] = p
  BY <1>1 DEF Contains
<1>3. /\ DOMAIN queue[l] = 1 .. Len(queue[l]) /\ IsInjective(queue[l])
      /\ \A n \in 1 .. Len(queue[l]) : queue[l][n] \in Slot
  BY <1>1, QueueFacts
<1>4. \A n \in 1 .. Len(queue[l]) : proc[queue[l][n]].pid = proc[p].pid <=> n = k
  <2>1. ASSUME NEW n \in 1 .. Len(queue[l]), proc[queue[l][n]].pid = proc[p].pid PROVE n = k
    <3>1. queue[l][n] = p
      BY <1>1, <1>3, <2>1 DEF QInv, Named
    <3> QED
      BY <1>2, <1>3, <3>1 DEF IsInjective
  <2> QED
    BY <1>2, <2>1
<1>5. Positions(l, p) = {k}
  BY <1>2, <1>3, <1>4 DEF Positions
<1>6. First(Positions(l, p)) = k
  <2>1. Positions(l, p) \in SUBSET Nat /\ Positions(l, p) # {}
    BY <1>5
  <2>2. First(Positions(l, p)) \in Positions(l, p)
    BY <2>1, FirstIn
  <2> QED
    BY <1>5, <2>2
<1>7. removePCB(l, p) = [queue EXCEPT ![l] = RemoveAt(queue[l], k)]
  BY <1>6 DEF removePCB
<1> QED
  BY <1>1, <1>2, <1>5, <1>7

\* yield() moves a process to the queue of its new level.
LEMMA QueueRequeue ==
    ASSUME MInv, QInv, NEW c \in CPU, NEW p \in Slot, YieldRequeue(c, p), fault' = fault
    PROVE  QInv'
<1>1. At(c, p, "requeue") /\ fault = "none"
  BY DEF YieldRequeue, At, Runs
<1>2. stack[p] # <<>> /\ Top(p).at = "requeue" /\ proc[p].state = "RUNNING" /\ proc[p] \in Procs
  BY <1>1, AtFacts, TableFacts
<1>3. PICK from : from = proc[p].qlevel
  OBVIOUS
<1>4. PICK to : to = NextLevel(from, proc[p].pid)
  OBVIOUS
<1>5. PICK prio : prio = Lowered(from, proc[p].priority)
  OBVIOUS
<1>6. PICK k \in 1 .. Len(queue[from]) :
          /\ queue[from][k] = p
          /\ removePCB(from, p) = [queue EXCEPT ![from] = RemoveAt(queue[from], k)]
  BY <1>2, <1>3, OnePosition
<1>7. from \in Level /\ from # MOQ /\ to \in Level
  <2>1. from \in Level
    BY <1>2, <1>3, OnePosition
  <2> QED
    BY <1>4, <2>1 DEF Level, MOQ, NextLevel
<1>8. PICK removed : removed = removePCB(from, p)
  OBVIOUS
<1>9. \E place \in 1 .. Len(removed[to]) + 1 :
          /\ proc' = [proc EXCEPT ![p].qlevel = to, ![p].timeslice = Slice[to],
                                  ![p].priority = prio, ![p].state = "RUNNABLE"]
          /\ queue' = [removed EXCEPT ![to] = InsertAt(@, place, p)]
          /\ stack' = Goto(p, "yielded", 0, 0) /\ nextpid' = nextpid
  <2>1. removed[to] \in Seq(Slot)
    <3>1. queue[from] \in Seq(Slot) /\ queue[to] \in Seq(Slot) /\ DOMAIN queue = Level \cup {MOQ}
      BY <1>7, QueueFacts
    <3>2. RemoveAt(queue[from], k) \in Seq(Slot)
      BY <3>1, Removed
    <3> QED
      BY <1>6, <1>7, <1>8, <3>1, <3>2
  <2> DEFINE place(table) == IF to = 3 THEN L3Place(table, removed[to], prio) ELSE Len(removed[to]) + 1
  <2>2. \A table : place(table) \in 1 .. Len(removed[to]) + 1
    <3>1. Len(removed[to]) \in Nat
      BY <2>1, LenProperties
    <3> QED
      BY <2>1, <3>1, PlaceIn
  <2>3. \E table :
          /\ proc' = [proc EXCEPT ![p].qlevel = to, ![p].timeslice = Slice[to],
                                  ![p].priority = prio, ![p].state = "RUNNABLE"]
          /\ queue' = [removed EXCEPT ![to] = InsertAt(@, place(table), p)]
          /\ stack' = Goto(p, "yielded", 0, 0) /\ nextpid' = nextpid
    BY <1>1, <1>3, <1>4, <1>5, <1>7, <1>8 DEF YieldRequeue, Fail
  <2> HIDE DEF place
  <2> QED
    BY <2>2, <2>3
<1>10. PICK place \in 1 .. Len(removed[to]) + 1 :
          /\ proc' = [proc EXCEPT ![p].qlevel = to, ![p].timeslice = Slice[to],
                                  ![p].priority = prio, ![p].state = "RUNNABLE"]
          /\ queue' = [removed EXCEPT ![to] = InsertAt(@, place, p)]
          /\ stack' = Goto(p, "yielded", 0, 0) /\ nextpid' = nextpid
  BY <1>9
<1> DEFINE r == [proc[p] EXCEPT !.qlevel = to, !.timeslice = Slice[to], !.priority = prio, !.state = "RUNNABLE"]
<1>11. r.state = "RUNNABLE" /\ r.qlevel = to /\ r.pid = proc[p].pid
  BY <1>2 DEF Procs
<1>12. proc' = [proc EXCEPT ![p] = r]
  BY <1>10, TableFacts
<1> HIDE DEF r
<1>13. proc'[p] = r /\ \A q \in Slot : q # p => proc'[q] = proc[q]
  BY <1>12, TableFacts
<1>14. \A l \in Level : /\ queue[l] \in Seq(Slot) /\ IsInjective(queue[l])
                        /\ l # from => ~Contains(queue[l], p)
  BY <1>3, QueueFacts DEF QInv, InPlace
<1>15. DOMAIN queue = Level \cup {MOQ} /\ MOQ \notin Level
  BY <1>7, QueueFacts
<1>16. /\ removed[from] = RemoveAt(queue[from], k)
       /\ \A l \in Level \cup {MOQ} : l # from => removed[l] = queue[l]
       /\ DOMAIN removed = Level \cup {MOQ}
  BY <1>6, <1>7, <1>8, <1>15
<1>17. \A l \in Level : /\ removed[l] \in Seq(Slot) /\ IsInjective(removed[l])
                        /\ \A x : Contains(removed[l], x) <=> Contains(queue[l], x) /\ x # p
  <2>1. /\ removed[from] \in Seq(Slot) /\ IsInjective(removed[from])
        /\ \A x : Contains(removed[from], x) <=> Contains(queue[from], x) /\ x # p
    BY <1>6, <1>7, <1>14, <1>16, Removed, RemovedEntry
  <2> QED
    BY <1>14, <1>16, <2>1
<1>18. /\ queue'[to] = InsertAt(removed[to], place, p)
       /\ \A l \in Level \cup {MOQ} : l # to => queue'[l] = removed[l]
  BY <1>7, <1>10, <1>16
<1>19. IsInjective(queue'[to]) /\ \A x : Contains(queue'[to], x) <=> Contains(removed[to], x) \/ x = p
  <2>1. removed[to] \in Seq(Slot) /\ IsInjective(removed[to]) /\ ~Contains(removed[to], p)
    BY <1>7, <1>17
  <2>2. /\ IsInjective(InsertAt(removed[to], place, p))
        /\ \A x : Contains(InsertAt(removed[to], place, p), x) <=> Contains(removed[to], x) \/ x = p
    BY <2>1, InsertedEntry
  <2> QED
    BY <1>18, <2>2
<1>20. Stacked
  <2>1. "yielded" \in Code \ (Moving \cup {"fork_stack"}) /\ "yielded" \in IrqCode /\ 0 \in Nat
    BY DEF Code, Moving, IrqCode
  <2> QED
    BY <1>2, <1>10, <2>1, SmoothGoto
<1>21. Single'
  BY <1>17, <1>18, <1>19 DEF Single
<1>22. Unmoved'
  BY <1>7, <1>11, <1>13, <1>15, <1>16, <1>18 DEF QInv, Unmoved
<1>23. Named'
  <2>1. nextpid' = nextpid
    BY <1>10
  <2>2. \A q \in Slot : proc'[q].pid = proc[q].pid /\ (proc'[q].state = "UNUSED" <=> proc[q].state = "UNUSED")
    BY <1>2, <1>11, <1>13
  <2> QED
    BY <2>1, <2>2 DEF QInv, Named
<1>24. InPlace'
  <2>1. ASSUME NEW l \in Level, NEW q \in Slot
        PROVE  Contains(queue'[l], q) <=> Placed(q)' /\ proc'[q].qlevel = l
    <3>1. Placed(q)' <=> Placed(q)
      BY <1>2, <1>11, <1>13, <1>20 DEF Placed, Stacked
    <3>2. CASE q = p
      <4>1. Placed(p) /\ proc'[p].qlevel = to
        BY <1>2, <1>11, <1>13, PlacedFacts
      <4>2. Contains(queue'[l], p) <=> l = to
        BY <1>17, <1>18, <1>19
      <4> QED
        BY <3>1, <3>2, <4>1, <4>2
    <3>3. CASE q # p
      <4>1. Contains(queue'[l], q) <=> Contains(queue[l], q)
        BY <1>17, <1>18, <1>19, <3>3
      <4> QED
        BY <1>13, <3>1, <3>3, <4>1 DEF QInv, InPlace
    <3> QED
      BY <3>2, <3>3
  <2> QED
    BY <2>1 DEF InPlace
<1> QED
  BY <1>20, <1>21, <1>22, <1>23, <1>24 DEF QInv, Stacked

\* The four levels, one behind the other, as boost() makes them L0.
LEMMA AllLevels ==
    ASSUME MInv, QInv, NEW moved, moved = queue[1] \o queue[2] \o queue[3],
           NEW all, all = queue[0] \o moved
    PROVE  /\ moved \in Seq(Slot) /\ all \in Seq(Slot) /\ IsInjective(all)
           /\ \A q \in Slot : q \in ToSet(moved) <=> Placed(q) /\ proc[q].qlevel \in {1, 2, 3}
           /\ \A x : Contains(all, x) <=> x \in Slot /\ Placed(x)
<1>1. {0, 1, 2, 3} = Level
  BY DEF Level
<1>2. \A l \in Level : queue[l] \in Seq(Slot) /\ IsInjective(queue[l])
  BY QueueFacts
<1>3. \A l \in Level : \A x : Contains(queue[l], x) <=> x \in Slot /\ Placed(x) /\ proc[x].qlevel = l
  <2>1. \A l \in Level : \A x : Contains(queue[l], x) => x \in Slot
    BY QueueFacts DEF Contains
  <2> QED
    BY <2>1 DEF QInv, InPlace
<1>4. PICK a0, a1, a2, a3 : a0 = queue[0] /\ a1 = queue[1] /\ a2 = queue[2] /\ a3 = queue[3]
  OBVIOUS
<1>5. /\ a0 \in Seq(Slot) /\ a1 \in Seq(Slot) /\ a2 \in Seq(Slot) /\ a3 \in Seq(Slot)
      /\ IsInjective(a0) /\ IsInjective(a1) /\ IsInjective(a2) /\ IsInjective(a3)
      /\ \A x : /\ Contains(a0, x) <=> x \in Slot /\ Placed(x) /\ proc[x].qlevel = 0
                /\ Contains(a1, x) <=> x \in Slot /\ Placed(x) /\ proc[x].qlevel = 1
                /\ Contains(a2, x) <=> x \in Slot /\ Placed(x) /\ proc[x].qlevel = 2
                /\ Contains(a3, x) <=> x \in Slot /\ Placed(x) /\ proc[x].qlevel = 3
  BY <1>1, <1>2, <1>3, <1>4
<1>6. PICK a12 : a12 = a1 \o a2
  OBVIOUS
<1>7. a12 \in Seq(Slot) /\ IsInjective(a12) /\ \A x : Contains(a12, x) <=> Contains(a1, x) \/ Contains(a2, x)
  <2>1. \A x : ~(Contains(a1, x) /\ Contains(a2, x))
    BY <1>5
  <2> QED
    BY <1>5, <1>6, <2>1, JoinedEntries
<1>8. moved = a12 \o a3
  BY <1>4, <1>6
<1>9. /\ moved \in Seq(Slot) /\ IsInjective(moved)
      /\ \A x : Contains(moved, x) <=> Contains(a12, x) \/ Contains(a3, x)
  <2>1. \A x : ~(Contains(a12, x) /\ Contains(a3, x))
    BY <1>5, <1>7
  <2>2. a12 \in Seq(Slot) /\ IsInjective(a12) /\ a3 \in Seq(Slot) /\ IsInjective(a3)
    BY <1>5, <1>7
  <2> QED
    BY <1>8, <2>1, <2>2, JoinedEntries
<1>10. all = a0 \o moved
  BY <1>4
<1>11. /\ all \in Seq(Slot) /\ IsInjective(all)
       /\ \A x : Contains(all, x) <=> Contains(a0, x) \/ Contains(moved, x)
  <2>1. \A x : ~(Contains(a0, x) /\ Contains(moved, x))
    BY <1>5, <1>7, <1>9
  <2>2. a0 \in Seq(Slot) /\ IsInjective(a0) /\ moved \in Seq(Slot) /\ IsInjective(moved)
    BY <1>5, <1>9
  <2>3. PICK b \in Seq(Slot) : b = moved
    BY <2>2
  <2>4. IsInjective(b) /\ \A x : ~(Contains(a0, x) /\ Contains(b, x))
    BY <2>1, <2>2, <2>3, Zenon
  <2>5. /\ a0 \o b \in Seq(Slot) /\ IsInjective(a0 \o b)
        /\ \A x : Contains(a0 \o b, x) <=> Contains(a0, x) \/ Contains(b, x)
    BY <2>2, <2>4, JoinedEntries
  <2> QED
    BY <1>10, <2>3, <2>5, Zenon
<1>12. \A q : q \in ToSet(moved) <=> Contains(moved, q)
  <2>1. DOMAIN moved = 1 .. Len(moved)
    BY <1>9, LenProperties
  <2> QED
    BY <2>1 DEF ToSet, Contains
<1>13. \A q \in Slot : q \in ToSet(moved) <=> Placed(q) /\ proc[q].qlevel \in {1, 2, 3}
  BY <1>5, <1>7, <1>9, <1>12
<1>14. \A x : Contains(all, x) <=> x \in Slot /\ Placed(x)
  <2>1. \A q \in Slot : proc[q].qlevel \in {0, 1, 2, 3}
    BY <1>1, TableFacts DEF QInv, Unmoved, Procs
  <2> QED
    BY <1>5, <1>7, <1>9, <1>11, <2>1
<1> QED
  BY <1>9, <1>11, <1>13, <1>14

LEMMA QueueBoost ==
    ASSUME MInv, QInv, NEW c \in CPU, boost(c), fault' = fault
    PROVE  QInv'
<1>1. irq[c] = "boost" /\ fault = "none"
  BY DEF boost
<1>2. PICK moved : moved = queue[1] \o queue[2] \o queue[3]
  OBVIOUS
<1>3. PICK all : all = queue[0] \o moved
  OBVIOUS
<1>4. /\ queue' = [l \in DOMAIN queue |-> IF l = 0 THEN all ELSE IF l = MOQ THEN queue[l] ELSE <<>>]
      /\ proc' = [p \in Slot |-> IF p \in ToSet(moved) THEN Boosted(p) ELSE proc[p]]
      /\ EnterYield(c) /\ nextpid' = nextpid
  BY <1>1, <1>2, <1>3 DEF boost, Fail
<1>5. /\ moved \in Seq(Slot) /\ all \in Seq(Slot) /\ IsInjective(all)
      /\ \A q \in Slot : q \in ToSet(moved) <=> Placed(q) /\ proc[q].qlevel \in {1, 2, 3}
      /\ \A x : Contains(all, x) <=> x \in Slot /\ Placed(x)
  BY <1>2, <1>3, AllLevels
<1>6. DOMAIN queue = Level \cup {MOQ} /\ MOQ \notin Level /\ 0 \in Level
  BY QueueFacts DEF Level
<1>7. queue'[0] = all /\ queue'[MOQ] = queue[MOQ] /\ \A l \in Level : l # 0 => queue'[l] = <<>>
  BY <1>4, <1>6
<1>8. \A q \in Slot : /\ proc'[q].state = proc[q].state /\ proc'[q].pid = proc[q].pid
                      /\ proc'[q].qlevel = IF q \in ToSet(moved) THEN 0 ELSE proc[q].qlevel
  <2> TAKE q \in Slot
  <2>1. proc[q] \in Procs
    BY TableFacts
  <2>2. Boosted(q).state = proc[q].state /\ Boosted(q).pid = proc[q].pid /\ Boosted(q).qlevel = 0
    BY <2>1 DEF Boosted, Procs
  <2> QED
    BY <1>4, <2>2
<1>9. Stacked
  <2>1. cpu[c] # NONE /\ stack[cpu[c]] # <<>> => ~Top(cpu[c]).irq
    <3>1. irq[c] # "none"
      BY <1>1
    <3> QED
      BY <3>1, Zenon DEF MInv, Interrupted
  <2> QED
    BY <1>4, <2>1, SmoothPush
<1>10. IsInjective(<<>>) /\ \A x : ~Contains(<<>>, x)
  BY DEF IsInjective, Contains
<1>11. Single'
  BY <1>5, <1>7, <1>10 DEF Single
<1>12. Unmoved'
  BY <1>6, <1>7, <1>8 DEF QInv, Unmoved
<1>13. Named'
  BY <1>4, <1>8 DEF QInv, Named
<1>14. InPlace'
  <2>1. ASSUME NEW l \in Level, NEW q \in Slot
        PROVE  Contains(queue'[l], q) <=> Placed(q)' /\ proc'[q].qlevel = l
    <3>1. Placed(q)' <=> Placed(q)
      BY <1>8, <1>9 DEF Placed, Stacked
    <3>2. Placed(q) => proc'[q].qlevel = 0
      <4>1. proc[q].qlevel \in {0, 1, 2, 3}
        BY TableFacts DEF QInv, Unmoved, Procs, Level
      <4> QED
        BY <1>5, <1>8, <4>1
    <3> QED
      BY <1>5, <1>7, <1>10, <3>1, <3>2
  <2> QED
    BY <2>1 DEF InPlace
<1> QED
  BY <1>9, <1>11, <1>12, <1>13, <1>14 DEF QInv, Stacked

\* Without setmonopoly(), nobody stands in its code.
LEMMA NobodyMoves ==
    ASSUME MInv, QInv, NEW c \in CPU, NEW p \in Slot, NEW at \in Moving
    PROVE  ~At(c, p, at)
<1> SUFFICES ASSUME At(c, p, at) PROVE FALSE
  OBVIOUS
<1>1. at \in Code \ IrqCode
  BY DEF Moving, Code, SystemCalls, IrqCode
<1>2. stack[p] # <<>> /\ stack[p][1].at = at
  BY <1>1, CallTop, AtFacts
<1> QED
  BY <1>2 DEF QInv, Settled

LEMMA NoSetmonopoly ==
    ASSUME MInv, QInv, NEW c \in CPU, NEW p \in Slot
    PROVE  ~Setmonopoly(c, p)
BY NobodyMoves DEF Setmonopoly, SetmonopolyFind, SetmonopolyRemove, SetmonopolyMark, SetmonopolyAppend, Moving

\* The steps that can leave a queue.
LEMMA FailOrNot ==
    ASSUME NEW c \in CPU, NEW p \in Slot
    PROVE  /\ YieldRequeue(c, p) => Fail("overrun") \/ fault' = fault
           /\ ForkStack(c, p) => Fail("overrun") \/ fault' = fault
           /\ boost(c) => Fail("overrun") \/ fault' = fault
BY DEF YieldRequeue, ForkStack, boost

\* Every step of the kernel keeps the queues in step with the table.
LEMMA NextQueues ==
    ASSUME Steady, MInv, QInv, [Next]_vars
    PROVE  QInv'
<1>1. CASE UNCHANGED vars
  BY <1>1, CalmFail DEF vars
<1>2. ASSUME Fail("overrun") PROVE QInv'
  BY <1>2, CalmFail DEF Fail
<1>3. ASSUME NEW c \in CPU, Clock(c) PROVE QInv'
  <2>1. PICK p \in Slot : p = initproc
    BY Names
  <2> QED
    BY <1>2, <1>3, <2>1, CalmClock, QueueBoost, FailOrNot DEF Clock
<1>4. ASSUME NEW c \in CPU, NEW p \in Slot, Kernel(c, p) PROVE QInv'
  <2>1. CASE Resume(c, p) \/ Timer(c, p) \/ Return(c, p)
    BY <2>1, CalmResume, CalmMoves
  <2>2. CASE Yield(c, p)
    BY <1>2, <2>2, CalmMoves, CalmLeave, QueueRequeue, FailOrNot DEF Yield
  <2>3. CASE Fork(c, p)
    BY <1>2, <2>3, QueueForkAlloc, QueueForkStack, CalmForkCopy, FailOrNot DEF Fork
  <2>4. CASE Exit(c, p) \/ Wait(c, p)
    BY <2>4, CalmExit, QueueWait
  <2>5. CASE Kill(c, p) \/ Setpriority(c, p)
    BY <2>5, CalmKill
  <2>6. CASE Sleep(c, p)
    BY <2>6, CalmMoves, CalmLeave DEF Sleep
  <2>7. CASE Monopolize(c, p)
    BY <2>7, CalmLeave
  <2>8. CASE Unmonopolize(c, p) \/ UnmonopolizeTicks(c, p)
    BY <2>8, CalmMoves
  <2> QED
    BY <1>4, <2>1, <2>2, <2>3, <2>4, <2>5, <2>6, <2>7, <2>8, NoSetmonopoly DEF Kernel
<1>5. ASSUME NEW c \in CPU, Scheduler(c) PROVE QInv'
  BY <1>5, CalmScheduler
<1>6. ASSUME NEW c \in CPU, NEW p \in Slot, Syscall(c, p) PROVE QInv'
  BY <1>6, CalmSyscall
<1> QED
  BY <1>1, <1>3, <1>4, <1>5, <1>6 DEF Next, Followed

\* In the initial state init is in L0, and nobody else anywhere.
LEMMA InitQueues == Init => QInv
<1> SUFFICES ASSUME Init PROVE QInv
  OBVIOUS
<1>1. /\ proc[initproc].state = "RUNNABLE" /\ proc[initproc].pid = 1 /\ proc[initproc].qlevel = 0
      /\ ~proc[initproc].killed
      /\ \A p \in Slot : p # initproc => /\ proc[p].state = "UNUSED" /\ proc[p].pid = 0
                                         /\ proc[p].qlevel = 0
  <2>1. \A p \in Slot : p # initproc => proc[p] = Free
    BY DEF Init
  <2>2. proc[initproc] = [Free EXCEPT !.state = "RUNNABLE", !.pid = 1, !.timeslice = Slice[0]]
    BY Names DEF Init
  <2>3. Free.state = "UNUSED" /\ Free.pid = 0 /\ Free.qlevel = 0 /\ ~Free.killed
    BY DEF Free
  <2>4. ~proc[initproc].killed
    BY <2>2 DEF Free
  <2>5. proc[initproc].state = "RUNNABLE" /\ proc[initproc].pid = 1 /\ proc[initproc].qlevel = 0
    BY <2>2 DEF Free
  <2> QED
    BY <2>1, <2>3, <2>4, <2>5
<1>2. \A p \in Slot : stack[p] # <<>> => /\ p = initproc /\ stack[p][1].at = "forkret" /\ Top(p).at = "forkret"
  <2>1. "forkret" \in SystemCalls \cup {"forkret"} /\ 0 \in Nat
    OBVIOUS
  <2>2. PICK u : u = <<Frame("forkret", 0, 0, FALSE)>>
    OBVIOUS
  <2>3. Last(u).at = "forkret" /\ u[1].at = "forkret"
    BY <2>1, <2>2, CallFrame
  <2>4. stack = [p \in Slot |-> IF p = initproc THEN u ELSE <<>>]
    BY <2>2 DEF Init
  <2> QED
    BY <2>3, <2>4 DEF Top
<1>3. queue = [l \in Level \cup {MOQ} |-> IF l = 0 THEN <<initproc>> ELSE <<>>] /\ nextpid = 2
  BY DEF Init
<1>4. Settled
  BY <1>2 DEF Settled, Moving
<1>5. \A p \in Slot : ~Unqueued(p)
  BY <1>2 DEF Unqueued
<1>6. Named
  BY <1>1, <1>3 DEF Named
<1>7. Unmoved
  BY <1>1, <1>3 DEF Unmoved, MOQ
<1>8. \A x : IsInjective(<<x>>) /\ \A y : Contains(<<x>>, y) <=> y = x
  BY DEF IsInjective, Contains
<1>9. IsInjective(<<>>) /\ \A x : ~Contains(<<>>, x)
  BY DEF IsInjective, Contains
<1>10. Single
  BY <1>3, <1>8, <1>9 DEF Single
<1>11. InPlace
  <2>1. ASSUME NEW l \in Level, NEW p \in Slot
        PROVE  Contains(queue[l], p) <=> Placed(p) /\ proc[p].qlevel = l
    <3>1. Placed(p) <=> p = initproc
      BY <1>1, <1>5 DEF Placed
    <3>2. Contains(queue[l], p) <=> l = 0 /\ p = initproc
      <4>1. queue[l] = IF l = 0 THEN <<initproc>> ELSE <<>>
        BY <1>3
      <4> QED
        BY <1>8, <1>9, <4>1
    <3> QED
      BY <1>1, <3>1, <3>2
  <2> QED
    BY <2>1 DEF InPlace
<1> QED
  BY <1>4, <1>6, <1>7, <1>10, <1>11 DEF QInv

\* How often a process is in a queue.
LEMMA QueuesCount == MInv /\ QInv => OneQueue
<1> SUFFICES ASSUME MInv, QInv, NEW p \in Slot, NEW l \in Level \cup {MOQ}
             PROVE  Entries(l, p) = IF proc[p].state = "UNUSED" \/ l # proc[p].qlevel \/ Unqueued(p)
                                    THEN 0 ELSE 1
  BY DEF OneQueue
<1> DEFINE S == {n \in DOMAIN queue[l] : queue[l][n] = p}
<1>1. Entries(l, p) = Cardinality(S)
  BY DEF Entries
<1>2. CASE l \in Level /\ Placed(p) /\ proc[p].qlevel = l
  <2>1. DOMAIN queue[l] = 1 .. Len(queue[l]) /\ IsInjective(queue[l])
    BY <1>2, QueueFacts
  <2>2. PICK n \in 1 .. Len(queue[l]) : queue[l][n] = p
    BY <1>2 DEF QInv, InPlace, Contains
  <2>3. S = {n}
    BY <2>1, <2>2 DEF IsInjective
  <2> QED
    BY <1>1, <1>2, <2>3, FS_Singleton DEF Placed
<1>3. CASE ~(l \in Level /\ Placed(p) /\ proc[p].qlevel = l)
  <2>1. S = {}
    <3>1. CASE l \in Level
      <4>1. DOMAIN queue[l] = 1 .. Len(queue[l]) /\ ~Contains(queue[l], p)
        BY <1>3, <3>1, QueueFacts DEF QInv, InPlace
      <4> QED
        BY <4>1 DEF Contains
    <3>2. CASE l = MOQ
      BY <3>2 DEF QInv, Unmoved
    <3> QED
      BY <3>1, <3>2
  <2>2. proc[p].state = "UNUSED" \/ l # proc[p].qlevel \/ Unqueued(p)
    BY <1>3 DEF Placed, QInv, Unmoved
  <2> QED
    BY <1>1, <2>1, <2>2, FS_EmptySet
<1> QED
  BY <1>2, <1>3

\* The queues and the table stay in step, as long as nobody calls setmonopoly(),
\* which changes them without ptable.lock, and fork() gets its memory: across every
\* demotion, boost, fork(), exit() and wait(), on any number of CPUs, each process
\* is in exactly one queue, once, and its qlevel names it.
THEOREM OneQueueHolds ==
    ASSUME Steady
    PROVE  Spec => []OneQueue
<1>1. Init => QInv
  BY InitQueues
<1>2. MInv /\ QInv /\ [Next]_vars => QInv'
  BY NextQueues
<1>3. MInv /\ QInv => OneQueue
  BY QueuesCount
<1> QED
  BY <1>1, <1>2, <1>3, InvariantHolds, PTL DEF Spec

-------------------------------------------------------------------------------
(* The ends of the arrays *)

\* A queue that misses one process has room.
LEMMA Room ==
    ASSUME MInv, QInv, NEW l \in Level, NEW q \in Slot, ~Contains(queue[l], q)
    PROVE  Len(queue[l]) < NPROC
<1>1. queue[l] \in Seq(Slot) /\ IsInjective(queue[l]) /\ DOMAIN queue[l] = 1 .. Len(queue[l])
      /\ \A n \in 1 .. Len(queue[l]) : queue[l][n] \in Slot
  BY QueueFacts
<1>2. Slot \ {q} \in SUBSET Slot /\ \A x : Contains(queue[l], x) => x \in Slot \ {q}
  BY <1>1 DEF Contains
<1>3. Len(queue[l]) <= Cardinality(Slot \ {q})
  BY <1>1, <1>2, EntriesBound
<1>4. Cardinality(Slot \ {q}) = Cardinality(Slot) - 1
  BY SlotFinite, FS_RemoveElement
<1>5. Cardinality(Slot) = NPROC
  BY MlfqAssumption, FS_Interval DEF Slot
<1> QED
  BY <1>1, <1>3, <1>4, <1>5, MlfqAssumption, LenProperties

\* boost() never runs out of L0,
LEMMA BoostFits ==
    ASSUME MInv, QInv, NEW c \in CPU, boost(c), fault = "none"
    PROVE  fault' = "none"
<1>1. PICK moved : moved = queue[1] \o queue[2] \o queue[3]
  OBVIOUS
<1>2. PICK all : all = queue[0] \o moved
  OBVIOUS
<1>3. all \in Seq(Slot) /\ IsInjective(all) /\ \A x : Contains(all, x) => x \in Slot
  BY <1>1, <1>2, AllLevels
<1>4. Len(all) <= Cardinality(Slot)
  <2>1. Slot \in SUBSET Slot
    OBVIOUS
  <2> QED
    BY <1>3, <2>1, EntriesBound
<1>5. Cardinality(Slot) = NPROC
  BY MlfqAssumption, FS_Interval DEF Slot
<1>6. ~(Len(all) > NPROC)
  BY <1>3, <1>4, <1>5, MlfqAssumption, LenProperties
<1> QED
  BY <1>1, <1>2, <1>6 DEF boost

\* fork() never runs out of L0,
LEMMA ForkFits ==
    ASSUME MInv, QInv, NEW c \in CPU, NEW p \in Slot, ForkStack(c, p)
    PROVE  fault' = fault
<1>1. PICK np : np = Top(p).v
  OBVIOUS
<1>2. At(c, p, "fork_stack")
  BY DEF ForkStack
<1>3. np \in Slot /\ Allocates(p, np)
  BY <1>1, <1>2, ForkBase
<1>4. stack[p] # <<>> /\ stack[p][1] = Top(p) /\ Top(p).at = "fork_stack"
  <2>1. "fork_stack" \in Code \ IrqCode
    BY DEF Code, IrqCode
  <2> QED
    BY <1>2, <2>1, AtFacts, CallTop DEF MInv
<1>5. Unqueued(np)
  BY <1>1, <1>4 DEF Unqueued
<1>6. 0 \in Level
  BY DEF Level
<1>7. ~Contains(queue[0], np)
  BY <1>3, <1>5, <1>6 DEF QInv, InPlace, Placed
<1>8. Len(queue[0]) # NPROC
  BY <1>3, <1>6, <1>7, Room, QueueFacts, MlfqAssumption
<1> QED
  BY <1>8 DEF ForkStack

\* and yield() leaves an array only where a queue of NPROC entries is.
LEMMA RequeueFits ==
    ASSUME MInv, QInv, NEW c \in CPU, NEW p \in Slot, YieldRequeue(c, p), fault' # fault
    PROVE  \A q \in Slot : proc[q].state # "UNUSED"
<1>1. At(c, p, "requeue")
  BY DEF YieldRequeue
<1>2. proc[p].state = "RUNNING"
  BY <1>1, AtFacts
<1>3. PICK from : from = proc[p].qlevel
  OBVIOUS
<1>4. PICK to : to = NextLevel(from, proc[p].pid)
  OBVIOUS
<1>5. from \in Level /\ Positions(from, p) # {}
  BY <1>2, <1>3, OnePosition
<1>6. to \in Level
  BY <1>4, <1>5 DEF Level, NextLevel
<1>7. \/ Len(queue[from]) = NPROC
      \/ from # to /\ Len(queue[to]) = NPROC
  BY <1>3, <1>4, <1>5 DEF YieldRequeue, Overruns
<1>8. ~(from # to /\ Len(queue[to]) = NPROC)
  <2>1. from # to => ~Contains(queue[to], p)
    BY <1>3, <1>6 DEF QInv, InPlace
  <2> QED
    BY <1>6, <2>1, Room, QueueFacts, MlfqAssumption
<1>9. ASSUME NEW q \in Slot, proc[q].state = "UNUSED" PROVE FALSE
  <2>1. ~Contains(queue[from], q)
    BY <1>5, <1>9 DEF QInv, InPlace, Placed
  <2> QED
    BY <1>5, <1>7, <1>8, <2>1, Room, QueueFacts, MlfqAssumption
<1> QED
  BY <1>9

\* Nothing else leaves an array.
LEMMA OverrunCause ==
    ASSUME MInv, QInv, [Next]_vars, fault = "none", fault' = "overrun"
    PROVE  \A q \in Slot : proc[q].state # "UNUSED"
<1>1. PICK c \in CPU : Scheduler(c) \/ Clock(c) \/ \E p \in Slot : Kernel(c, p) \/ Syscall(c, p)
  BY DEF Next, Followed, vars
<1>2. ~Scheduler(c)
  BY DEF Scheduler, ScheduleMlfq, ScheduleMoq, ScheduleUnmonopolize, ScheduleReset, ScheduleMoqLast,
         ScheduleRelease
<1>3. ~Clock(c)
  BY BoostFits DEF Clock, ClockTick, ClockMode, LocalTick
<1>4. PICK p \in Slot : Kernel(c, p) \/ Syscall(c, p)
  BY <1>1, <1>2, <1>3
<1>5. YieldRequeue(c, p)
  <2>1. ~Syscall(c, p) /\ ~Resume(c, p) /\ ~Timer(c, p) /\ ~Return(c, p)
    BY DEF Syscall, Resume, Timer, Return
  <2>2. ~YieldTest(c, p) /\ ~YieldSlice(c, p) /\ ~YieldMoq(c, p)
    BY DEF YieldTest, YieldSlice, YieldMoq
  <2>3. ~Fork(c, p)
    BY ForkFits DEF Fork, ForkAlloc, ForkCopy
  <2>4. ~Exit(c, p) /\ ~Wait(c, p) /\ ~Kill(c, p) /\ ~Setpriority(c, p)
    BY DEF Exit, Wait, Kill, Setpriority, Fail
  <2>5. ~Sleep(c, p)
    BY DEF Sleep, SleepStart, SleepCheck, SleepBlock
  <2>6. ~Monopolize(c, p) /\ ~Unmonopolize(c, p) /\ ~UnmonopolizeTicks(c, p) /\ ~Setmonopoly(c, p)
    BY NoSetmonopoly DEF Monopolize, Unmonopolize, UnmonopolizeTicks
  <2> QED
    BY <1>4, <2>1, <2>2, <2>3, <2>4, <2>5, <2>6 DEF Kernel, Yield
<1> QED
  BY <1>5, RequeueFits

\* Only the array that holds all NPROC processes is ever left, by the removePCB()
\* of yield(), which clears the word behind the last entry: boost() and fork() stay
\* inside the queues, and so does yield() as long as one slot of the table is free.
THEOREM OverrunsWhenFull ==
    ASSUME Steady
    PROVE  Spec => [][fault = "none" /\ fault' = "overrun" => \A q \in Slot : proc[q].state # "UNUSED"]_vars
<1>1. Init => QInv
  BY InitQueues
<1>2. MInv /\ QInv /\ [Next]_vars => QInv'
  BY NextQueues
<1>3. MInv /\ QInv /\ [Next]_vars =>
        [fault = "none" /\ fault' = "overrun" => \A q \in Slot : proc[q].state # "UNUSED"]_vars
  BY OverrunCause
<1> QED
  BY <1>1, <1>2, <1>3, InvariantHolds, PTL DEF Spec

-------------------------------------------------------------------------------
(* init stays *)

\* What InitStays says of the stacks, after a step, and of the slot of init.
Guarded ==
    \A p \in Slot : stack'[p] # <<>> => /\ stack'[p][1].at = "kill" => stack'[p][1].v # 1
                                        /\ p = initproc => stack'[p][1].at # "exit"

Spared == proc'[initproc].pid = 1 /\ ~proc'[initproc].killed

LEMMA StaysNext ==
    ASSUME Guarded, Spared
    PROVE  InitStays'
BY DEF Guarded, Spared, InitStays

LEMMA SameGuarded == ASSUME InitStays, stack' = stack PROVE Guarded
BY DEF Guarded, InitStays

LEMMA SameSpared == ASSUME InitStays, proc' = proc PROVE Spared
BY DEF Spared, InitStays

\* One stack changes.
LEMMA GuardedStep ==
    ASSUME MInv, InitStays, NEW p \in Slot, NEW t, stack' = [stack EXCEPT ![p] = t],
           t # <<>> => \/ stack[p] # <<>> /\ t[1] = stack[p][1]
                       \/ t[1].at \notin {"kill", "exit"}
                       \/ t[1].at = "kill" /\ t[1].v # 1
                       \/ t[1].at = "exit" /\ p # initproc
    PROVE  Guarded
<1>1. stack'[p] = t /\ \A q \in Slot : q # p => stack'[q] = stack[q]
  BY DEF MInv
<1> QED
  BY <1>1 DEF Guarded, InitStays

\* The first frame, when the top frame goes on to other code.
LEMMA FirstAfter ==
    ASSUME MInv, NEW p \in Slot, stack[p] # <<>>, NEW to, NEW v, NEW w
    PROVE  \E t : /\ Goto(p, to, v, w) = [stack EXCEPT ![p] = t]
                  /\ t # <<>> /\ Len(t) = Len(stack[p]) /\ Len(t) \in {1, 2}
                  /\ Last(t).at = to /\ Last(t).irq = Top(p).irq
                  /\ t[1] = stack[p][1] \/ t[1].at = to
                  /\ Len(t) = 2 => t[1] = stack[p][1]
<1> DEFINE s == stack[p]
           f == Frame(to, v, w, Top(p).irq)
           F == Frames \cup {f}
           t == Append(Front(s), f)
<1>1. s \in Stacks
  BY DEF MInv
<1>2. s \in Seq(Frames) /\ Len(s) \in {1, 2}
  BY <1>1, StackFacts
<1>3. f.at = to /\ f.irq = Top(p).irq
  BY DEF Frame
<1> HIDE DEF f
<1>4. s \in Seq(F) /\ f \in F
  <2>1. \A n \in 1 .. Len(s) : s[n] \in F
    BY <1>2, ElementOfSeq
  <2> QED
    BY <1>2, <2>1, SeqDef
<1>5. Goto(p, to, v, w) = [stack EXCEPT ![p] = t]
  BY DEF Goto, f
<1> HIDE DEF F, s
<1>6. /\ t # <<>> /\ Len(t) = Len(s) /\ Last(t) = f
      /\ \A n \in 1 .. Len(s) - 1 : t[n] = s[n]
  <2>1. s # <<>>
    BY DEF s
  <2> QED
    BY <1>4, <2>1, Replaced
<1> HIDE DEF t
<1>7. (t[1] = s[1] \/ t[1] = f) /\ (Len(t) = 2 => t[1] = s[1])
  BY <1>2, <1>6 DEF Last
<1> QED
  BY <1>2, <1>3, <1>5, <1>6, <1>7 DEF s

LEMMA GuardedGoto ==
    ASSUME MInv, InitStays, NEW p \in Slot, stack[p] # <<>>, NEW to, NEW v, NEW w,
           to # "kill", to = "exit" => p # initproc, stack' = Goto(p, to, v, w)
    PROVE  Guarded
<1>1. PICK t : /\ Goto(p, to, v, w) = [stack EXCEPT ![p] = t]
               /\ t # <<>>
               /\ t[1] = stack[p][1] \/ t[1].at = to
  BY FirstAfter
<1> QED
  BY <1>1, GuardedStep

LEMMA GuardedFinish ==
    ASSUME MInv, InitStays, NEW p \in Slot, stack[p] # <<>>, stack' = Finish(p)
    PROVE  Guarded
<1>1. "ret" # "kill" /\ "ret" # "exit" /\ stack' = Goto(p, "ret", 0, 0)
  BY DEF Finish
<1> QED
  BY <1>1, GuardedGoto

LEMMA GuardedPop ==
    ASSUME MInv, InitStays, NEW p \in Slot, stack[p] # <<>>, stack' = [stack EXCEPT ![p] = Front(@)]
    PROVE  Guarded
<1>1. PICK t : t = Front(stack[p])
  OBVIOUS
<1>2. stack' = [stack EXCEPT ![p] = t]
  BY <1>1
<1>3. stack[p] \in Stacks
  BY DEF MInv
<1>4. t # <<>> => t[1] = stack[p][1]
  BY <1>1, <1>3, PopFacts
<1> QED
  BY <1>2, <1>4, GuardedStep

LEMMA GuardedPush ==
    ASSUME MInv, InitStays, NEW c \in CPU, EnterYield(c),
           cpu[c] # NONE /\ stack[cpu[c]] # <<>> => ~Top(cpu[c]).irq
    PROVE  Guarded
<1>1. CASE cpu[c] = NONE
  BY <1>1, SameGuarded DEF EnterYield
<1>2. CASE cpu[c] # NONE
  <2> DEFINE f == Frame("timer", 0, 0, TRUE)
  <2>1. PICK p \in Slot : p = cpu[c]
    BY <1>2 DEF MInv, Types
  <2>2. stack' = [stack EXCEPT ![p] = Append(@, f)]
    BY <1>2, <2>1 DEF EnterYield
  <2>3. f \in Frames /\ f.irq /\ f.at = "timer"
    BY TimerFrame
  <2>4. stack[p] \in Stacks /\ (stack[p] # <<>> => ~Last(stack[p]).irq) /\ stack \in [Slot -> Stacks]
    BY <1>2, <2>1, Zenon DEF MInv, Top
  <2> HIDE DEF f
  <2>5. PICK t \in Stacks : /\ stack' = [stack EXCEPT ![p] = t] /\ t # <<>> /\ Last(t) = f
                            /\ IF stack[p] = <<>> THEN t[1] = f ELSE t[1] = stack[p][1]
    BY <2>2, <2>3, <2>4, PushFacts
  <2> QED
    BY <2>3, <2>5, GuardedStep
<1> QED
  BY <1>1, <1>2

\* One slot of the table does.
LEMMA SparedStep ==
    ASSUME MInv, InitStays, NEW q \in Slot, NEW r, proc' = [proc EXCEPT ![q] = r],
           q # initproc \/ (r.pid = proc[q].pid /\ r.killed = proc[q].killed)
    PROVE  Spared
<1>1. initproc \in Slot /\ proc \in [Slot -> Procs]
  BY Names, TableFacts
<1> QED
  BY <1>1 DEF Spared, InitStays

\* The fields of a slot that most steps change are others.
LEMMA FieldsSpared ==
    ASSUME NEW r \in Procs
    PROVE  /\ \A s : [r EXCEPT !.state = s].pid = r.pid /\ [r EXCEPT !.state = s].killed = r.killed
           /\ \A s, ch : LET x == [r EXCEPT !.chan = ch, !.state = s]
                         IN  x.pid = r.pid /\ x.killed = r.killed
           /\ \A ch : [r EXCEPT !.chan = ch].pid = r.pid /\ [r EXCEPT !.chan = ch].killed = r.killed
           /\ \A ts : LET x == [r EXCEPT !.timeslice = ts] IN x.pid = r.pid /\ x.killed = r.killed
           /\ \A pr : LET x == [r EXCEPT !.priority = pr] IN x.pid = r.pid /\ x.killed = r.killed
           /\ \A l, ts : LET x == [r EXCEPT !.timeslice = ts, !.qlevel = l]
                         IN  x.pid = r.pid /\ x.killed = r.killed
           /\ \A l, ts, pr, s : LET x == [r EXCEPT !.qlevel = l, !.timeslice = ts, !.priority = pr, !.state = s]
                                IN  x.pid = r.pid /\ x.killed = r.killed
BY DEF Procs

\* The scheduler, and the timer.
LEMMA StaysScheduler ==
    ASSUME MInv, InitStays, NEW c \in CPU, Scheduler(c)
    PROVE  InitStays'
<1>1. UNCHANGED stack
  BY DEF Scheduler, ScheduleMlfq, ScheduleMoq, ScheduleUnmonopolize, ScheduleReset, ScheduleMoqLast,
         ScheduleRelease
<1>2. UNCHANGED proc \/ \E l \in Level \cup {MOQ} : levelSchedule(c, l)
  BY DEF Scheduler, ScheduleMlfq, ScheduleMoq, ScheduleUnmonopolize, ScheduleReset, ScheduleMoqLast,
         ScheduleRelease
<1>3. ASSUME NEW l \in Level \cup {MOQ}, levelSchedule(c, l) PROVE Spared
  <2>1. PICK p : p = queue[l][First(Runnable(l))]
    OBVIOUS
  <2>2. p \in Slot /\ proc' = [proc EXCEPT ![p].state = "RUNNING"]
    BY <1>3, <2>1, RunnableFacts DEF levelSchedule, MInv
  <2> DEFINE r == [proc[p] EXCEPT !.state = "RUNNING"]
  <2>3. r.pid = proc[p].pid /\ r.killed = proc[p].killed
    BY <2>2, TableFacts, FieldsSpared
  <2>4. proc' = [proc EXCEPT ![p] = r]
    BY <2>2
  <2> HIDE DEF r
  <2> QED
    BY <2>2, <2>3, <2>4, SparedStep
<1> QED
  BY <1>1, <1>2, <1>3, SameGuarded, SameSpared, StaysNext

LEMMA StaysClock ==
    ASSUME MInv, InitStays, NEW c \in CPU, Clock(c)
    PROVE  InitStays'
<1>1. CASE ClockTick(c)
  <2>1. proc' = Wakeup1(proc, TICKS) /\ UNCHANGED stack
    BY <1>1 DEF ClockTick
  <2>2. proc \in [Slot -> Procs] /\ initproc \in Slot
    BY TableFacts, Names
  <2>3. proc'[initproc].pid = proc[initproc].pid /\ proc'[initproc].killed = proc[initproc].killed
    BY <2>1, <2>2, WokenTable, WokenKept
  <2> QED
    BY <2>1, <2>3, SameGuarded, StaysNext DEF Spared, InitStays
<1>2. ASSUME irq[c] # "none" PROVE cpu[c] # NONE /\ stack[cpu[c]] # <<>> => ~Top(cpu[c]).irq
  BY <1>2, Zenon DEF MInv, Interrupted
<1>3. CASE ClockMode(c)
  <2>1. proc' = proc /\ (stack' = stack \/ EnterYield(c)) /\ irq[c] # "none"
    BY <1>3 DEF ClockMode
  <2> QED
    BY <1>2, <2>1, SameSpared, SameGuarded, GuardedPush, StaysNext
<1>4. CASE LocalTick(c)
  <2>1. proc' = proc /\ EnterYield(c) /\ Interruptible(c)
    BY <1>4 DEF LocalTick
  <2>2. cpu[c] # NONE /\ stack[cpu[c]] # <<>> => ~Top(cpu[c]).irq
    BY <2>1, Zenon DEF Interruptible
  <2> QED
    BY <2>1, <2>2, SameSpared, GuardedPush, StaysNext
<1>5. CASE boost(c)
  <2>1. PICK moved : moved = queue[1] \o queue[2] \o queue[3]
    OBVIOUS
  <2>2. \/ proc' = proc /\ stack' = stack
        \/ /\ proc' = [p \in Slot |-> IF p \in ToSet(moved) THEN Boosted(p) ELSE proc[p]]
           /\ EnterYield(c)
    BY <1>5, <2>1 DEF boost, Fail
  <2>3. irq[c] # "none"
    BY <1>5 DEF boost
  <2>4. proc[initproc] \in Procs /\ initproc \in Slot
    BY TableFacts, Names
  <2>5. Boosted(initproc).pid = proc[initproc].pid /\ Boosted(initproc).killed = proc[initproc].killed
    BY <2>4, FieldsSpared DEF Boosted
  <2>6. CASE proc' = proc /\ stack' = stack
    BY <2>6, SameSpared, SameGuarded, StaysNext
  <2>7. CASE /\ proc' = [p \in Slot |-> IF p \in ToSet(moved) THEN Boosted(p) ELSE proc[p]]
             /\ EnterYield(c)
    <3>1. Spared
      BY <2>4, <2>5, <2>7 DEF Spared, InitStays
    <3> QED
      BY <1>2, <2>3, <2>7, <3>1, GuardedPush, StaysNext
  <2> QED
    BY <2>2, <2>6, <2>7
<1> QED
  BY <1>1, <1>3, <1>4, <1>5 DEF Clock

\* The code of a process that only moves on: exit() is for a killed one.
LEMMA StaysMoves ==
    ASSUME MInv, InitStays, NEW c \in CPU, NEW p \in Slot,
           \/ Timer(c, p) \/ Return(c, p) \/ YieldTest(c, p) \/ SleepStart(c, p) \/ SleepCheck(c, p)
           \/ Unmonopolize(c, p) \/ UnmonopolizeTicks(c, p)
    PROVE  InitStays'
<1>1. proc' = proc
  BY DEF Timer, Return, YieldTest, SleepStart, SleepCheck, Unmonopolize, UnmonopolizeTicks
<1>2. stack[p] # <<>>
  BY DEF Timer, Return, YieldTest, SleepStart, SleepCheck, Unmonopolize, UnmonopolizeTicks, At
<1>3. \/ stack' = [stack EXCEPT ![p] = Front(@)]
      \/ stack' = Finish(p)
      \/ \E to, v : /\ stack' = Goto(p, to, v, 0)
                    /\ to # "kill"
                    /\ to = "exit" => proc[p].killed
  <2>1. CASE Timer(c, p)
    BY <2>1 DEF Timer
  <2>2. CASE Return(c, p)
    BY <2>2, Zenon DEF Return
  <2>3. CASE YieldTest(c, p)
    BY <2>3 DEF YieldTest
  <2>4. CASE SleepStart(c, p) \/ SleepCheck(c, p)
    BY <2>4 DEF SleepStart, SleepCheck
  <2>5. CASE Unmonopolize(c, p) \/ UnmonopolizeTicks(c, p)
    BY <2>5 DEF Unmonopolize, UnmonopolizeTicks
  <2> QED
    BY <2>1, <2>2, <2>3, <2>4, <2>5
<1>4. Guarded
  BY <1>2, <1>3, GuardedPop, GuardedFinish, GuardedGoto DEF InitStays
<1> QED
  BY <1>1, <1>4, SameSpared, StaysNext

\* The steps of a running process that change other fields of its slot.
LEMMA StaysFields ==
    ASSUME MInv, InitStays, NEW c \in CPU, NEW p \in Slot,
           Resume(c, p) \/ YieldSlice(c, p) \/ YieldMoq(c, p) \/ SleepBlock(c, p) \/ Monopolize(c, p)
    PROVE  InitStays'
<1>1. stack[p] # <<>>
  <2>1. Resume(c, p) => Runs(c, p) /\ ptlock = c
    BY DEF Resume
  <2> QED
    BY <2>1, Names DEF MInv, Parked, Runs, YieldSlice, YieldMoq, SleepBlock, Monopolize, At
<1>2. Guarded
  <2>1. \/ stack' = [stack EXCEPT ![p] = Front(@)]
        \/ stack' = Finish(p)
        \/ \E to \in {"sleep_check", "wait", "yielded", "sleep_wake"} : \E v : stack' = Goto(p, to, v, 0)
    BY DEF Resume, YieldSlice, YieldMoq, SleepBlock, Monopolize
  <2> QED
    BY <1>1, <2>1, GuardedPop, GuardedFinish, GuardedGoto
<1>3. Spared
  <2>1. \/ proc' = proc
        \/ proc' = [proc EXCEPT ![p].chan = NONE]
        \/ proc' = [proc EXCEPT ![p].timeslice = Top(p).v - 1]
        \/ proc' = [proc EXCEPT ![p].state = "RUNNABLE"]
        \/ proc' = [proc EXCEPT ![p].chan = TICKS, ![p].state = "SLEEPING"]
    BY DEF Resume, YieldSlice, YieldMoq, SleepBlock, Monopolize
  <2>2. proc[p] \in Procs
    BY TableFacts
  <2>3. CASE proc' = [proc EXCEPT ![p].chan = TICKS, ![p].state = "SLEEPING"]
    <3> DEFINE r == [proc[p] EXCEPT !.chan = TICKS, !.state = "SLEEPING"]
    <3>1. proc' = [proc EXCEPT ![p] = r]
      BY <2>3, TableFacts
    <3>2. r.pid = proc[p].pid /\ r.killed = proc[p].killed
      BY <2>2, FieldsSpared
    <3> HIDE DEF r
    <3> QED
      BY <3>1, <3>2, SparedStep
  <2>4. ASSUME NEW r, proc' = [proc EXCEPT ![p] = r], r.pid = proc[p].pid, r.killed = proc[p].killed
        PROVE  Spared
    BY <2>4, SparedStep
  <2>5. CASE \/ proc' = [proc EXCEPT ![p].chan = NONE]
             \/ proc' = [proc EXCEPT ![p].timeslice = Top(p).v - 1]
             \/ proc' = [proc EXCEPT ![p].state = "RUNNABLE"]
    BY <2>2, <2>4, <2>5, FieldsSpared
  <2> QED
    BY <2>1, <2>3, <2>5, SameSpared
<1> QED
  BY <1>2, <1>3, StaysNext

LEMMA StaysRequeue ==
    ASSUME MInv, InitStays, NEW c \in CPU, NEW p \in Slot, YieldRequeue(c, p)
    PROVE  InitStays'
<1>1. PICK from : from = proc[p].qlevel
  OBVIOUS
<1>2. PICK to : to = NextLevel(from, proc[p].pid)
  OBVIOUS
<1>3. PICK prio : prio = Lowered(from, proc[p].priority)
  OBVIOUS
<1>4. \/ proc' = proc /\ stack' = stack
      \/ /\ stack[p] # <<>> /\ stack' = Goto(p, "yielded", 0, 0)
         /\ proc' = [proc EXCEPT ![p].qlevel = to, ![p].timeslice = Slice[to],
                                 ![p].priority = prio, ![p].state = "RUNNABLE"]
  BY <1>1, <1>2, <1>3 DEF YieldRequeue, Fail, At
<1>5. CASE proc' = proc /\ stack' = stack
  BY <1>5, SameSpared, SameGuarded, StaysNext
<1>6. CASE /\ stack[p] # <<>> /\ stack' = Goto(p, "yielded", 0, 0)
           /\ proc' = [proc EXCEPT ![p].qlevel = to, ![p].timeslice = Slice[to],
                                   ![p].priority = prio, ![p].state = "RUNNABLE"]
  <2> DEFINE r == [proc[p] EXCEPT !.qlevel = to, !.timeslice = Slice[to], !.priority = prio,
                                  !.state = "RUNNABLE"]
  <2>1. proc' = [proc EXCEPT ![p] = r]
    BY <1>6, TableFacts
  <2>2. r.pid = proc[p].pid /\ r.killed = proc[p].killed
    BY TableFacts, FieldsSpared
  <2> HIDE DEF r
  <2>3. Spared
    BY <2>1, <2>2, SparedStep
  <2> QED
    BY <1>6, <2>3, GuardedGoto, StaysNext
<1> QED
  BY <1>4, <1>5, <1>6

\* fork() fills other slots than that of init,
LEMMA StaysFork ==
    ASSUME Steady, MInv, InitStays, NEW c \in CPU, NEW p \in Slot, Fork(c, p)
    PROVE  InitStays'
<1>1. CASE ForkAlloc(c, p)
  <2>1. stack[p] # <<>>
    BY <1>1 DEF ForkAlloc, At
  <2>2. PICK np : np = First(UnusedSlots)
    OBVIOUS
  <2>3. \/ UnusedSlots = {} /\ stack' = Finish(p) /\ proc' = proc
        \/ /\ UnusedSlots # {} /\ stack' = Goto(p, "fork_stack", np, 0)
           /\ proc' = [proc EXCEPT ![np].state = "EMBRYO", ![np].pid = nextpid]
    BY <1>1, <2>2 DEF ForkAlloc
  <2>4. UnusedSlots # {} => np \in Slot /\ np # initproc
    <3>1. UnusedSlots \in SUBSET Nat
      BY Names DEF UnusedSlots
    <3> QED
      BY <2>2, <3>1, FirstIn DEF UnusedSlots, MInv, Lineage
  <2>5. Guarded
    BY <2>1, <2>3, GuardedFinish, GuardedGoto
  <2>6. Spared
    <3>1. UnusedSlots # {} /\ stack' = Goto(p, "fork_stack", np, 0)
            => proc'[initproc] = proc[initproc]
      BY <2>3, <2>4, Names, TableFacts, SameSpared
    <3> QED
      BY <2>3, <3>1, SameSpared DEF Spared, InitStays
  <2> QED
    BY <2>5, <2>6, StaysNext
<1>2. CASE ForkStack(c, p)
  <2>1. PICK np : np = Top(p).v
    OBVIOUS
  <2>2. At(c, p, "fork_stack")
    BY <1>2 DEF ForkStack
  <2>3. stack[p] # <<>> /\ np \in Slot /\ np # initproc
    BY <2>1, <2>2, AtFacts, ForkBase
  <2>4. \/ proc' = proc /\ stack' = stack
        \/ /\ stack' = Goto(p, "fork_copy", np, 0)
           /\ proc' = [proc EXCEPT ![np].qlevel = 0, ![np].priority = 0, ![np].timeslice = Slice[0]]
    BY <1>2, <2>1 DEF ForkStack, Fail, Steady
  <2>5. Guarded
    BY <2>3, <2>4, SameGuarded, GuardedGoto
  <2>6. proc'[initproc] = proc[initproc]
    BY <2>3, <2>4, Names, TableFacts
  <2> QED
    BY <2>5, <2>6, StaysNext DEF Spared, InitStays
<1>3. CASE ForkCopy(c, p)
  <2>1. PICK np : np = Top(p).v
    OBVIOUS
  <2>2. PICK u : u = <<Frame("forkret", 0, 0, FALSE)>>
    OBVIOUS
  <2>3. /\ At(c, p, "fork_copy")
        /\ proc' = [proc EXCEPT ![np].parent = p, ![np].state = "RUNNABLE"]
        /\ stack' = [Finish(p) EXCEPT ![np] = u]
    BY <1>3, <2>1, <2>2 DEF ForkCopy, Steady
  <2>4. stack[p] # <<>> /\ np \in Slot /\ np # initproc /\ np # p
    BY <2>1, <2>3, AtFacts, ForkBase
  <2>5. u[1].at = "forkret"
    BY <2>2, CallFrame
  <2>6. PICK t : /\ Finish(p) = [stack EXCEPT ![p] = t]
                 /\ t # <<>>
                 /\ t[1] = stack[p][1] \/ t[1].at = "ret"
    BY <2>4, FirstAfter DEF Finish
  <2>7. stack'[p] = t /\ stack'[np] = u /\ \A q \in Slot : q # p /\ q # np => stack'[q] = stack[q]
    BY <2>3, <2>4, <2>6 DEF MInv
  <2>8. Guarded
    BY <2>4, <2>5, <2>6, <2>7 DEF Guarded, InitStays
  <2>9. proc'[initproc] = proc[initproc]
    BY <2>3, <2>4, Names, TableFacts
  <2> QED
    BY <2>8, <2>9, StaysNext DEF Spared, InitStays
<1> QED
  BY <1>1, <1>2, <1>3 DEF Fork

\* init does not exit, and nobody can wait for it.
LEMMA StaysExit ==
    ASSUME MInv, InitStays, NEW c \in CPU, NEW p \in Slot, Exit(c, p) \/ Wait(c, p)
    PROVE  InitStays'
<1>1. stack[p] # <<>>
  BY DEF Exit, Wait, At
<1>2. CASE Exit(c, p)
  <2>1. \/ proc' = proc /\ stack' = stack
        \/ /\ proc' = [LeaveChildren(p) EXCEPT ![p].state = "ZOMBIE"]
           /\ stack' = [stack EXCEPT ![p] = <<>>] /\ p # initproc
    BY <1>2 DEF Exit, Fail
  <2>2. CASE proc' = proc /\ stack' = stack
    BY <2>2, SameSpared, SameGuarded, StaysNext
  <2>3. CASE /\ proc' = [LeaveChildren(p) EXCEPT ![p].state = "ZOMBIE"]
             /\ stack' = [stack EXCEPT ![p] = <<>>] /\ p # initproc
    <3>1. Guarded
      BY <2>3, GuardedStep
    <3>2. LeaveChildren(p) \in [Slot -> Procs] /\ initproc \in Slot
      BY LeftTable, Names
    <3>3. proc'[initproc] = LeaveChildren(p)[initproc]
      BY <2>3, <3>2
    <3>4. LeaveChildren(p)[initproc].pid = proc[initproc].pid
          /\ LeaveChildren(p)[initproc].killed = proc[initproc].killed
      BY <3>2, LeftTable, LeftKept
    <3> QED
      BY <3>1, <3>3, <3>4, StaysNext DEF Spared, InitStays
  <2> QED
    BY <2>1, <2>2, <2>3
<1>3. CASE Wait(c, p)
  <2>1. PICK z : z = First(Zombies(p))
    OBVIOUS
  <2>2. Zombies(p) # {} => z \in Slot /\ z # initproc
    <3>1. Zombies(p) \in SUBSET Nat
      BY Names DEF Zombies, Children
    <3> QED
      BY <2>1, <3>1, FirstIn DEF Zombies, Children, MInv, Lineage
  <2>3. \/ proc' = proc /\ stack' = Finish(p)
        \/ /\ Zombies(p) # {} /\ stack' = Finish(p)
           /\ proc' = [proc EXCEPT ![z].pid = 0, ![z].parent = NONE, ![z].killed = FALSE,
                                   ![z].state = "UNUSED"]
        \/ /\ stack' = Goto(p, "wait_wake", 0, 0)
           /\ proc' = [proc EXCEPT ![p].chan = p, ![p].state = "SLEEPING"]
    BY <1>3, <2>1 DEF Wait
  <2>4. Guarded
    BY <1>1, <2>3, GuardedFinish, GuardedGoto
  <2>5. CASE proc' = [proc EXCEPT ![p].chan = p, ![p].state = "SLEEPING"]
    <3> DEFINE r == [proc[p] EXCEPT !.chan = p, !.state = "SLEEPING"]
    <3>1. proc' = [proc EXCEPT ![p] = r]
      BY <2>5, TableFacts
    <3>2. r.pid = proc[p].pid /\ r.killed = proc[p].killed
      BY TableFacts, FieldsSpared
    <3> HIDE DEF r
    <3> QED
      BY <2>4, <3>1, <3>2, SparedStep, StaysNext
  <2>6. CASE /\ Zombies(p) # {}
             /\ proc' = [proc EXCEPT ![z].pid = 0, ![z].parent = NONE, ![z].killed = FALSE,
                                     ![z].state = "UNUSED"]
    <3>1. proc'[initproc] = proc[initproc]
      BY <2>2, <2>6, Names, TableFacts
    <3> QED
      BY <2>4, <3>1, StaysNext DEF Spared, InitStays
  <2> QED
    BY <2>3, <2>4, <2>5, <2>6, SameSpared, StaysNext
<1> QED
  BY <1>2, <1>3

\* kill() of another pid than that of init does not find init.
LEMMA StaysKill ==
    ASSUME MInv, InitStays, NEW c \in CPU, NEW p \in Slot, Kill(c, p) \/ Setpriority(c, p)
    PROVE  InitStays'
<1>1. PICK found : found = WithPid(Top(p).v)
  OBVIOUS
<1>2. PICK q : q = First(found)
  OBVIOUS
<1>3. stack[p] # <<>> /\ stack' = Finish(p)
  BY DEF Kill, Setpriority, At
<1>4. Guarded
  BY <1>3, GuardedFinish
<1>5. found # {} => q \in Slot /\ proc[q].pid = Top(p).v
  <2>1. found \in SUBSET Nat
    BY <1>1, Names DEF WithPid
  <2> QED
    BY <1>1, <1>2, <2>1, FirstIn DEF WithPid
<1>6. CASE Kill(c, p)
  <2>1. At(c, p, "kill")
    BY <1>6 DEF Kill
  <2>2. stack[p][1].at = "kill" /\ stack[p][1] = Top(p)
    <3>1. "kill" \in Code \ IrqCode
      BY DEF Code, SystemCalls, IrqCode
    <3> QED
      BY <2>1, <3>1, CallTop
  <2>3. found # {} => q # initproc
    BY <1>3, <1>5, <2>2 DEF InitStays
  <2>4. \/ proc' = proc
        \/ /\ found # {}
           /\ \E s : proc' = [proc EXCEPT ![q].killed = TRUE, ![q].state = s]
    <3> DEFINE s == IF [proc EXCEPT ![q].killed = TRUE][q].state = "SLEEPING" THEN "RUNNABLE"
                    ELSE [proc EXCEPT ![q].killed = TRUE][q].state
    <3>1. proc' = proc \/ (found # {} /\ proc' = [proc EXCEPT ![q].killed = TRUE, ![q].state = s])
      BY <1>1, <1>2, <1>6 DEF Kill
    <3> QED
      BY <3>1
  <2>5. found # {} /\ (\E s : proc' = [proc EXCEPT ![q].killed = TRUE, ![q].state = s])
          => proc'[initproc] = proc[initproc]
    BY <1>5, <2>3, Names, TableFacts
  <2>6. Spared
    BY <2>4, <2>5, SameSpared DEF Spared, InitStays
  <2> QED
    BY <1>4, <2>6, StaysNext
<1>7. CASE Setpriority(c, p)
  <2>1. proc' = proc \/ (found # {} /\ \E n \in Priorities : proc' = [proc EXCEPT ![q].priority = n])
    BY <1>1, <1>2, <1>7 DEF Setpriority
  <2>2. ASSUME found # {}, NEW n, proc' = [proc EXCEPT ![q].priority = n] PROVE Spared
    <3> DEFINE r == [proc[q] EXCEPT !.priority = n]
    <3>1. r.pid = proc[q].pid /\ r.killed = proc[q].killed
      BY <1>5, <2>2, TableFacts, FieldsSpared
    <3>2. proc' = [proc EXCEPT ![q] = r]
      BY <2>2
    <3> HIDE DEF r
    <3> QED
      BY <1>5, <2>2, <3>1, <3>2, SparedStep
  <2> QED
    BY <1>4, <2>1, <2>2, SameSpared, StaysNext
<1> QED
  BY <1>6, <1>7

\* init has no exit() to call, and nobody names it to kill().
LEMMA StaysSyscall ==
    ASSUME 1 \notin PidArgs, MInv, InitStays, NEW c \in CPU, NEW p \in Slot, Syscall(c, p)
    PROVE  InitStays'
<1>1. stack[p] = <<>> /\ proc' = proc
  BY DEF Syscall
<1>2. \/ stack' = [stack EXCEPT ![p] = <<Frame("exit", 0, 0, FALSE)>>] /\ p # initproc
      \/ \E call, n : /\ stack' = [stack EXCEPT ![p] = <<Frame(call, n, 0, FALSE)>>]
                      /\ call = "exit" => p # initproc
                      /\ call = "kill" => n \in PidArgs
  <2>1. CASE proc[p].killed /\ stack' = [stack EXCEPT ![p] = <<Frame("exit", 0, 0, FALSE)>>]
    BY <2>1 DEF InitStays
  <2>2. ASSUME NEW call, call = "exit" => p # initproc,
               NEW n \in IF call \in {"kill", "setpriority", "setmonopoly"} THEN PidArgs ELSE {0},
               stack' = [stack EXCEPT ![p] = <<Frame(call, n, 0, FALSE)>>]
        PROVE  \E a, m : /\ stack' = [stack EXCEPT ![p] = <<Frame(a, m, 0, FALSE)>>]
                         /\ a = "exit" => p # initproc
                         /\ a = "kill" => m \in PidArgs
    <3>1. call = "kill" => n \in PidArgs
      BY <2>2
    <3> QED
      BY <2>2, <3>1, Zenon
  <2> QED
    BY <2>1, <2>2, Zenon DEF Syscall
<1>3. ASSUME NEW f, f.at = "exit" => p # initproc, f.at = "kill" => f.v \in PidArgs,
             stack' = [stack EXCEPT ![p] = <<f>>]
      PROVE  Guarded
  <2> DEFINE t == <<f>>
  <2>1. stack' = [stack EXCEPT ![p] = t] /\ t[1] = f
    BY <1>3
  <2> HIDE DEF t
  <2> QED
    BY <1>3, <2>1, GuardedStep
<1>4. \A call, n : Frame(call, n, 0, FALSE).at = call /\ Frame(call, n, 0, FALSE).v = n
  BY DEF Frame
<1>5. ASSUME stack' = [stack EXCEPT ![p] = <<Frame("exit", 0, 0, FALSE)>>], p # initproc
      PROVE  Guarded
  <2>1. PICK f : f = Frame("exit", 0, 0, FALSE)
    OBVIOUS
  <2>2. f.at = "exit"
    BY <1>4, <2>1
  <2> QED
    BY <1>3, <1>5, <2>1, <2>2
<1>6. ASSUME NEW call, NEW n, call = "exit" => p # initproc, call = "kill" => n \in PidArgs,
             stack' = [stack EXCEPT ![p] = <<Frame(call, n, 0, FALSE)>>]
      PROVE  Guarded
  <2>1. PICK f : f = Frame(call, n, 0, FALSE)
    OBVIOUS
  <2>2. f.at = call /\ f.v = n
    BY <1>4, <2>1, Zenon
  <2> QED
    BY <1>3, <1>6, <2>1, <2>2
<1>7. Guarded
  BY <1>2, <1>5, <1>6, Zenon
<1> QED
  BY <1>1, <1>7, SameSpared, StaysNext

\* No step makes init exit.
LEMMA NextStays ==
    ASSUME Steady, 1 \notin PidArgs, MInv, QInv, InitStays, [Next]_vars
    PROVE  InitStays'
<1>1. CASE UNCHANGED vars
  BY <1>1, SameSpared, SameGuarded, StaysNext DEF vars
<1>2. ASSUME NEW c \in CPU, NEW p \in Slot, Kernel(c, p) PROVE InitStays'
  <2>1. CASE Resume(c, p) \/ Timer(c, p) \/ Return(c, p)
    BY <2>1, StaysFields, StaysMoves
  <2>2. CASE Yield(c, p)
    BY <2>2, StaysMoves, StaysFields, StaysRequeue DEF Yield
  <2>3. CASE Fork(c, p)
    BY <2>3, StaysFork
  <2>4. CASE Exit(c, p) \/ Wait(c, p)
    BY <2>4, StaysExit
  <2>5. CASE Kill(c, p) \/ Setpriority(c, p)
    BY <2>5, StaysKill
  <2>6. CASE Sleep(c, p)
    BY <2>6, StaysMoves, StaysFields DEF Sleep
  <2>7. CASE Monopolize(c, p) \/ Unmonopolize(c, p) \/ UnmonopolizeTicks(c, p)
    BY <2>7, StaysFields, StaysMoves
  <2> QED
    BY <1>2, <2>1, <2>2, <2>3, <2>4, <2>5, <2>6, <2>7, NoSetmonopoly DEF Kernel
<1> QED
  BY <1>1, <1>2, StaysScheduler, StaysClock, StaysSyscall DEF Next, Followed

LEMMA InitStaysFirst == Init => InitStays
<1> SUFFICES ASSUME Init PROVE InitStays
  OBVIOUS
<1>1. initproc \in Slot
  BY Names
<1>2. proc[initproc].pid = 1 /\ ~proc[initproc].killed
  BY <1>1 DEF Init, Free
<1>3. PICK f : f = Frame("forkret", 0, 0, FALSE)
  OBVIOUS
<1>4. f.at = "forkret"
  BY <1>3 DEF Frame
<1>5. \A p \in Slot : stack[p] = IF p = initproc THEN <<f>> ELSE <<>>
  BY <1>3 DEF Init
<1> QED
  BY <1>2, <1>4, <1>5 DEF InitStays

\* There is a free slot, if there are fewer pids.
LEMMA SlotLeft ==
    ASSUME MaxPid < NPROC, MInv, QInv
    PROVE  \E q \in Slot : proc[q].state = "UNUSED"
<1> SUFFICES ASSUME \A q \in Slot : proc[q].state # "UNUSED" PROVE FALSE
  OBVIOUS
<1> DEFINE f == [q \in Slot |-> proc[q].pid]
<1>1. \A q \in Slot : proc[q].pid \in 1 .. MaxPid
  <2>1. \A q \in Slot : proc[q].pid \in 0 .. MaxPid /\ proc[q].pid # 0
    BY TableFacts DEF MInv, Lineage, Procs
  <2> QED
    BY <2>1, MlfqAssumption
<1>2. \A q, o \in Slot : proc[q].pid = proc[o].pid => q = o
  <2>1. \A q \in Slot : proc[q].pid # 0
    BY <1>1
  <2> QED
    BY <2>1 DEF QInv, Named
<1>3. f \in Injection(Slot, 1 .. MaxPid)
  <2>1. f \in [Slot -> 1 .. MaxPid] /\ \A q \in Slot : f[q] = proc[q].pid
    BY <1>1
  <2> HIDE DEF f
  <2>2. IsInjective(f)
    BY <1>2, <2>1 DEF IsInjective
  <2> QED
    BY <2>1, <2>2 DEF Injection
<1>4. IsFiniteSet(1 .. MaxPid) /\ Cardinality(1 .. MaxPid) = MaxPid
  <2>1. MaxPid \in Int /\ 1 \in Int /\ MaxPid - 1 + 1 = MaxPid /\ ~(1 > MaxPid)
    BY MlfqAssumption
  <2> QED
    BY <2>1, FS_Interval
<1>5. Cardinality(Slot) <= Cardinality(1 .. MaxPid)
  BY <1>3, <1>4, FS_Injection
<1>6. Cardinality(Slot) = NPROC
  BY MlfqAssumption, FS_Interval DEF Slot
<1> QED
  BY <1>4, <1>5, <1>6, MlfqAssumption

LEMMA NextFaultless ==
    ASSUME Steady, MaxPid < NPROC, MInv, QInv, InitStays, NoFault, [Next]_vars
    PROVE  NoFault'
<1> SUFFICES ASSUME fault' # "none" PROVE FALSE
  BY DEF NoFault
<1>1. fault' # "overrun"
  BY OverrunCause, SlotLeft DEF NoFault
<1>2. PICK c \in CPU : Scheduler(c) \/ Clock(c) \/ \E p \in Slot : Kernel(c, p) \/ Syscall(c, p)
  BY DEF Next, Followed, vars, NoFault
<1>3. ~Scheduler(c)
  BY DEF NoFault, Scheduler, ScheduleMlfq, ScheduleMoq, ScheduleUnmonopolize, ScheduleReset,
         ScheduleMoqLast, ScheduleRelease
<1>4. ~Clock(c)
  BY BoostFits DEF NoFault, Clock, ClockTick, ClockMode, LocalTick
<1>5. PICK p \in Slot : Kernel(c, p) \/ Syscall(c, p)
  BY <1>2, <1>3, <1>4
<1>6. Exit(c, p) /\ p = initproc
  <2>1. ~Syscall(c, p) /\ ~Resume(c, p) /\ ~Timer(c, p) /\ ~Return(c, p)
    BY DEF NoFault, Syscall, Resume, Timer, Return
  <2>2. ~Yield(c, p)
    BY <1>1, FailOrNot DEF NoFault, Fail, Yield, YieldTest, YieldSlice, YieldMoq
  <2>3. ~Fork(c, p)
    BY ForkFits DEF NoFault, Fork, ForkAlloc, ForkCopy
  <2>4. ~Wait(c, p) /\ ~Kill(c, p) /\ ~Setpriority(c, p)
    BY DEF NoFault, Wait, Kill, Setpriority
  <2>5. ~Sleep(c, p)
    BY DEF NoFault, Sleep, SleepStart, SleepCheck, SleepBlock
  <2>6. ~Monopolize(c, p) /\ ~Unmonopolize(c, p) /\ ~UnmonopolizeTicks(c, p) /\ ~Setmonopoly(c, p)
    BY NoSetmonopoly DEF NoFault, Monopolize, Unmonopolize, UnmonopolizeTicks
  <2>7. Exit(c, p)
    BY <1>5, <2>1, <2>2, <2>3, <2>4, <2>5, <2>6 DEF Kernel
  <2> QED
    BY <2>7 DEF Exit, NoFault
<1>7. At(c, p, "exit") /\ p = initproc
  BY <1>6 DEF Exit
<1>8. stack[p] \in Stacks /\ stack[p] # <<>> /\ Top(p).at = "exit"
  BY <1>7, AtFacts
<1>9. Len(stack[p]) = 1
  BY <1>8 DEF QInv, Settled
<1>10. stack[p][1] = Top(p)
  BY <1>8, <1>9, StackFacts DEF Top
<1> QED
  BY <1>7, <1>8, <1>10 DEF InitStays

\* With a slot to spare, no queue operation of yield(), fork(), wait() and boost(),
\* on any number of CPUs, leaves its array, and with nobody to kill init the kernel
\* does not panic.
THEOREM NoFaultHolds ==
    ASSUME Steady, MaxPid < NPROC, 1 \notin PidArgs
    PROVE  Spec => []NoFault
<1>1. Init => QInv /\ InitStays /\ NoFault
  BY InitQueues, InitStaysFirst DEF Init, NoFault
<1>2. MInv /\ QInv /\ [Next]_vars => QInv'
  BY NextQueues
<1>3. MInv /\ QInv /\ InitStays /\ [Next]_vars => InitStays'
  BY NextStays
<1>4. MInv /\ QInv /\ InitStays /\ NoFault /\ [Next]_vars => NoFault'
  BY NextFaultless
<1> QED
  BY <1>1, <1>2, <1>3, <1>4, InvariantHolds, PTL DEF Spec

-------------------------------------------------------------------------------
(* The quantum, on one CPU that only the timer takes away *)

\* yield() called by the timer alone.
Timed == NCPU = 1 /\ \A n \in 1 .. MaxPid : "yield" \notin Calls[n]

TimerCode == {"timer", "yield", "slice", "giveup", "requeue"}

\* That code runs with interrupts off, so that nobody changes the timeslice or the
\* level of a process between the test and the move.
Masked(t, r) ==
    t # <<>> => /\ Last(t).at \in TimerCode => Last(t).irq
                /\ Len(t) = 2 => t[1].at \notin TimerCode
                /\ Last(t).at = "requeue" => r.timeslice = 0 /\ r.qlevel # MOQ

Quantum == \A p \in Slot : Masked(stack[p], proc[p])

\* Who does not run is not in that code.
LEMMA Alone ==
    ASSUME NCPU = 1, MInv, NEW c \in CPU, NEW p, cpu[c] = p, NEW q \in Slot, q # p, stack[q] # <<>>
    PROVE  Last(stack[q]).at \in Resumable
<1>1. \A d \in CPU : d = c
  BY DEF CPU
<1>2. proc[q].state # "RUNNING"
  BY <1>1 DEF MInv, OneCpu
<1>3. proc[q].state \in States
  BY TableFacts DEF Procs
<1> QED
  BY <1>2, <1>3, Zenon DEF MInv, Parked, Top, States

LEMMA MaskedStep ==
    ASSUME NCPU = 1, MInv, Quantum, NEW c \in CPU, NEW p \in Slot, cpu[c] = p, NEW t,
           stack' = [stack EXCEPT ![p] = t], Masked(t, proc'[p])
    PROVE  Quantum'
<1>1. stack'[p] = t /\ \A q \in Slot : q # p => stack'[q] = stack[q]
  BY DEF MInv
<1>2. "requeue" \notin Resumable
  BY DEF Resumable
<1>3. ASSUME NEW q \in Slot, q # p PROVE Masked(stack'[q], proc'[q])
  <2>1. stack[q] # <<>> => Last(stack[q]).at # "requeue"
    BY <1>2, <1>3, Alone
  <2> QED
    BY <1>1, <1>3, <2>1 DEF Quantum, Masked
<1> QED
  BY <1>1, <1>3 DEF Quantum

LEMMA MaskedGoto ==
    ASSUME NCPU = 1, MInv, Quantum, NEW c \in CPU, NEW p \in Slot, cpu[c] = p, stack[p] # <<>>,
           NEW to, NEW v, NEW w, stack' = Goto(p, to, v, w),
           to \in TimerCode => Top(p).at \in TimerCode,
           to = "requeue" => proc'[p].timeslice = 0 /\ proc'[p].qlevel # MOQ
    PROVE  Quantum'
<1>1. PICK t : /\ Goto(p, to, v, w) = [stack EXCEPT ![p] = t]
               /\ t # <<>> /\ Len(t) = Len(stack[p])
               /\ Last(t).at = to /\ Last(t).irq = Top(p).irq
               /\ Len(t) = 2 => t[1] = stack[p][1]
  BY FirstAfter
<1>2. Masked(t, proc'[p])
  BY <1>1 DEF Masked, Quantum, Top
<1> QED
  BY <1>1, <1>2, MaskedStep

LEMMA MaskedPop ==
    ASSUME NCPU = 1, MInv, Quantum, NEW c \in CPU, NEW p \in Slot, cpu[c] = p, stack[p] # <<>>,
           stack' = [stack EXCEPT ![p] = Front(@)]
    PROVE  Quantum'
<1>1. PICK t : t = Front(stack[p])
  OBVIOUS
<1>2. stack[p] \in Stacks
  BY DEF MInv
<1>3. stack[p] \in Seq(Frames) /\ Len(stack[p]) \in {1, 2}
  BY <1>2, StackFacts
<1>4. t \in Seq(Frames) /\ Len(t) = Len(stack[p]) - 1 /\ (t # <<>> => t[1] = stack[p][1])
  BY <1>1, <1>2, <1>3, Popped, PopFacts
<1>5. t # <<>> => Len(stack[p]) = 2 /\ Len(t) = 1
  BY <1>3, <1>4, EmptySeq
<1>6. Masked(t, proc'[p])
  BY <1>4, <1>5 DEF Masked, Quantum, Last, TimerCode
<1>7. stack' = [stack EXCEPT ![p] = t]
  BY <1>1
<1> QED
  BY <1>6, <1>7, MaskedStep

\* Nobody is in that code, whatever happens to the timeslices.
LEMMA MaskedStays ==
    ASSUME NCPU = 1, MInv, Quantum, NEW c \in CPU, stack' = stack,
           cpu[c] # NONE /\ stack[cpu[c]] # <<>> => ~Top(cpu[c]).irq
    PROVE  Quantum'
<1>1. ASSUME NEW q \in Slot, stack[q] # <<>> PROVE Last(stack[q]).at # "requeue"
  <2>1. CASE q = cpu[c]
    <3>1. q # NONE
      BY Names
    <3>2. ~Last(stack[q]).irq
      BY <1>1, <2>1, <3>1, Zenon DEF Top
    <3>3. "requeue" \in TimerCode
      BY DEF TimerCode
    <3> QED
      BY <1>1, <3>2, <3>3, Zenon DEF Quantum, Masked
  <2>2. CASE q # cpu[c]
    <3>1. PICK p : p = cpu[c]
      OBVIOUS
    <3>2. Last(stack[q]).at \in Resumable
      BY <1>1, <2>2, <3>1, Alone
    <3> QED
      BY <3>2 DEF Resumable
  <2> QED
    BY <2>1, <2>2
<1> QED
  BY <1>1 DEF Quantum, Masked

LEMMA MaskedPush ==
    ASSUME NCPU = 1, MInv, Quantum, NEW c \in CPU, EnterYield(c),
           cpu[c] # NONE /\ stack[cpu[c]] # <<>> => ~Top(cpu[c]).irq
    PROVE  Quantum'
<1>1. CASE cpu[c] = NONE
  BY <1>1, MaskedStays DEF EnterYield
<1>2. CASE cpu[c] # NONE
  <2> DEFINE f == Frame("timer", 0, 0, TRUE)
  <2>1. PICK p \in Slot : p = cpu[c]
    BY <1>2 DEF MInv, Types
  <2>2. stack' = [stack EXCEPT ![p] = Append(@, f)]
    BY <1>2, <2>1 DEF EnterYield
  <2>3. f \in Frames /\ f.irq /\ f.at = "timer"
    BY TimerFrame
  <2>4. stack[p] \in Stacks /\ (stack[p] # <<>> => ~Last(stack[p]).irq) /\ stack \in [Slot -> Stacks]
    BY <1>2, <2>1, Zenon DEF MInv, Top
  <2> HIDE DEF f
  <2>5. PICK t \in Stacks : /\ stack' = [stack EXCEPT ![p] = t] /\ t # <<>> /\ Last(t) = f
                            /\ IF stack[p] = <<>> THEN t[1] = f ELSE t[1] = stack[p][1]
                            /\ Len(t) = Len(stack[p]) + 1
    <3>1. Len(Append(stack[p], f)) = Len(stack[p]) + 1
      BY <2>3, <2>4, AppendProperties DEF Stacks
    <3> QED
      BY <2>2, <2>3, <2>4, <3>1, PushFacts
  <2>6. Len(t) = 2 => t[1].at \notin TimerCode
    <3>1. ASSUME Len(t) = 2 PROVE t[1].at \notin TimerCode
      <4>1. stack[p] # <<>> /\ Len(stack[p]) = 1
        <5>1. Len(stack[p]) \in Nat /\ (stack[p] = <<>> <=> Len(stack[p]) = 0)
          BY <2>4, EmptySeq, LenProperties DEF Stacks
        <5>2. Len(t) = Len(stack[p]) + 1
          BY <2>5, Zenon
        <5>3. PICK m, k : m = Len(stack[p]) /\ k = Len(t)
          OBVIOUS
        <5>4. m \in Nat /\ k = 2 /\ k = m + 1
          BY <3>1, <5>1, <5>2, <5>3, Zenon
        <5>5. m = 1
          BY <5>4
        <5>6. m # 0
          BY <5>5
        <5> QED
          BY <5>1, <5>3, <5>5, <5>6, Zenon
      <4>2. Last(stack[p]) = stack[p][1]
        BY <4>1 DEF Last
      <4>3. Masked(stack[p], proc[p])
        BY DEF Quantum
      <4>4. Last(stack[p]).at \notin TimerCode
        BY <2>4, <4>1, <4>3, Zenon DEF Masked
      <4> QED
        BY <2>5, <4>1, <4>2, <4>4
    <3> QED
      BY <3>1
  <2>7. Masked(t, proc'[p])
    BY <2>3, <2>5, <2>6 DEF Masked
  <2> QED
    BY <2>1, <2>5, <2>7, MaskedStep
<1> QED
  BY <1>1, <1>2

LEMMA FinishAfter ==
    ASSUME MInv, NEW p \in Slot, stack[p] # <<>>
    PROVE  \E t : /\ Finish(p) = [stack EXCEPT ![p] = t]
                  /\ t # <<>> /\ Len(t) = Len(stack[p]) /\ Last(t).at = "ret"
                  /\ Len(t) = 2 => t[1] = stack[p][1]
<1>1. PICK to, v, w : to = "ret" /\ Finish(p) = Goto(p, to, v, w)
  BY DEF Finish
<1>2. PICK t : /\ Goto(p, to, v, w) = [stack EXCEPT ![p] = t]
               /\ t # <<>> /\ Len(t) = Len(stack[p])
               /\ Last(t).at = to /\ Last(t).irq = Top(p).irq
               /\ Len(t) = 2 => t[1] = stack[p][1]
  BY FirstAfter
<1> QED
  BY <1>1, <1>2

\* Every step keeps it.
LEMMA QuantumKernel ==
    ASSUME Timed, MInv, Quantum, NEW c \in CPU, NEW p \in Slot, Kernel(c, p)
    PROVE  Quantum'
<1>1. NCPU = 1
  BY DEF Timed
<1>2. cpu[c] = p /\ stack[p] # <<>>
  <2>1. Resume(c, p) => Runs(c, p) /\ ptlock = c
    BY DEF Resume
  <2>2. Resume(c, p) => cpu[c] = p /\ stack[p] # <<>>
    BY <2>1, Names DEF MInv, Parked, Runs
  <2>3. Fork(c, p) \/ Sleep(c, p) \/ Yield(c, p) \/ Setmonopoly(c, p) => \E at : At(c, p, at)
    BY DEF Fork, ForkAlloc, ForkStack, ForkCopy, Sleep, SleepStart, SleepCheck, SleepBlock,
           Yield, YieldTest, YieldSlice, YieldMoq, YieldRequeue,
           Setmonopoly, SetmonopolyFind, SetmonopolyRemove, SetmonopolyMark, SetmonopolyAppend
  <2>4. Timer(c, p) \/ Return(c, p) \/ Exit(c, p) \/ Wait(c, p) \/ Kill(c, p) \/ Setpriority(c, p)
          \/ Monopolize(c, p) \/ Unmonopolize(c, p) \/ UnmonopolizeTicks(c, p) => \E at : At(c, p, at)
    BY DEF Timer, Return, Exit, Wait, Kill, Setpriority, Monopolize, Unmonopolize, UnmonopolizeTicks
  <2> QED
    BY <2>2, <2>3, <2>4 DEF Kernel, At, Runs
<1>3. ASSUME proc' = proc, stack' = stack PROVE Quantum'
  BY <1>3 DEF Quantum
<1>4. ASSUME stack' = [stack EXCEPT ![p] = Front(@)] PROVE Quantum'
  BY <1>1, <1>2, <1>4, MaskedPop
<1>5. ASSUME NEW to, NEW v, NEW w, to \notin TimerCode, stack' = Goto(p, to, v, w) PROVE Quantum'
  <2>1. to # "requeue"
    BY <1>5 DEF TimerCode
  <2> QED
    BY <1>1, <1>2, <1>5, <2>1, MaskedGoto
<1>6. ASSUME stack' = Finish(p) PROVE Quantum'
  <2>1. "ret" \notin TimerCode /\ stack' = Goto(p, "ret", 0, 0)
    BY <1>6 DEF Finish, TimerCode
  <2> QED
    BY <1>5, <2>1
<1>7. CASE Timer(c, p) \/ YieldTest(c, p)
  <2>1. Top(p).at \in TimerCode /\ "exit" \notin TimerCode
    BY <1>7 DEF Timer, YieldTest, At, TimerCode
  <2>2. \/ stack' = Goto(p, "exit", 0, 0)
        \/ stack' = Goto(p, "yield", 0, 0) \/ stack' = Goto(p, "giveup", 0, 0)
        \/ stack' = Goto(p, "slice", proc[p].timeslice, 0)
        \/ /\ stack' = Goto(p, "requeue", 0, 0) /\ proc' = proc
           /\ proc[p].timeslice = 0 /\ proc[p].qlevel # MOQ
    BY <1>7 DEF Timer, YieldTest
  <2> QED
    BY <1>1, <1>2, <1>5, <2>1, <2>2, MaskedGoto
<1>8. CASE Return(c, p)
  <2>1. "exit" \notin TimerCode
    BY DEF TimerCode
  <2>2. stack' = Goto(p, "exit", 0, 0) \/ stack' = [stack EXCEPT ![p] = Front(@)]
    BY <1>8, Zenon DEF Return
  <2> QED
    BY <1>4, <1>5, <2>1, <2>2
<1>9. CASE Resume(c, p) \/ YieldSlice(c, p) \/ YieldMoq(c, p) \/ YieldRequeue(c, p) \/ Monopolize(c, p)
           \/ Unmonopolize(c, p) \/ UnmonopolizeTicks(c, p) \/ Sleep(c, p)
  <2>1. \/ proc' = proc /\ stack' = stack
        \/ stack' = [stack EXCEPT ![p] = Front(@)]
        \/ stack' = Finish(p)
        \/ \E to \in {"sleep_check", "wait", "yielded", "sleep_block", "sleep_wake", "unmonopolize_ticks"} : \E v :
              stack' = Goto(p, to, v, 0)
    <3>1. CASE Resume(c, p)
      BY <3>1 DEF Resume
    <3>2. CASE YieldSlice(c, p) \/ YieldMoq(c, p) \/ Monopolize(c, p) \/ Unmonopolize(c, p) \/ UnmonopolizeTicks(c, p)
      BY <3>2 DEF YieldSlice, YieldMoq, Monopolize, Unmonopolize, UnmonopolizeTicks
    <3>3. CASE YieldRequeue(c, p)
      BY <3>3 DEF YieldRequeue, Fail
    <3>4. CASE Sleep(c, p)
      BY <3>4 DEF Sleep, SleepStart, SleepCheck, SleepBlock
    <3> QED
      BY <1>9, <3>1, <3>2, <3>3, <3>4
  <2>2. {"sleep_check", "wait", "yielded", "sleep_block", "sleep_wake", "unmonopolize_ticks"} \cap TimerCode = {}
    BY DEF TimerCode
  <2> QED
    BY <1>3, <1>4, <1>5, <1>6, <2>1, <2>2
<1>10. CASE Wait(c, p) \/ Kill(c, p) \/ Setpriority(c, p) \/ Setmonopoly(c, p)
            \/ ForkAlloc(c, p) \/ ForkStack(c, p)
  <2>1. \/ proc' = proc /\ stack' = stack
        \/ stack' = Finish(p)
        \/ \E to \in {"wait_wake", "setmonopoly_remove", "setmonopoly_mark", "setmonopoly_append", "fork_stack", "fork_copy"} : \E v, w :
              stack' = Goto(p, to, v, w)
    <3>1. CASE Wait(c, p) \/ Kill(c, p) \/ Setpriority(c, p)
      BY <3>1 DEF Wait, Kill, Setpriority
    <3>2. CASE Setmonopoly(c, p)
      BY <3>2 DEF Setmonopoly, SetmonopolyFind, SetmonopolyRemove, SetmonopolyMark, SetmonopolyAppend, Fail
    <3>3. CASE ForkAlloc(c, p) \/ ForkStack(c, p)
      BY <3>3 DEF ForkAlloc, ForkStack, Fail
    <3> QED
      BY <1>10, <3>1, <3>2, <3>3
  <2>2. {"wait_wake", "setmonopoly_remove", "setmonopoly_mark", "setmonopoly_append", "fork_stack", "fork_copy"} \cap TimerCode = {}
    BY DEF TimerCode
  <2> QED
    BY <1>3, <1>5, <1>6, <2>1, <2>2
<1>11. CASE Exit(c, p)
  <2>1. (proc' = proc /\ stack' = stack) \/ stack' = [stack EXCEPT ![p] = <<>>]
    BY <1>11 DEF Exit, Fail
  <2>2. Masked(<<>>, proc'[p])
    BY DEF Masked
  <2> QED
    BY <1>1, <1>2, <1>3, <2>1, <2>2, MaskedStep
<1>12. CASE ForkCopy(c, p)
  <2>1. PICK np : np = Top(p).v
    OBVIOUS
  <2>2. PICK u : u = <<Frame("forkret", 0, 0, FALSE)>>
    OBVIOUS
  <2>3. CASE stack' = [Finish(p) EXCEPT ![np] = u]
    <3>1. At(c, p, "fork_copy")
      BY <1>12 DEF ForkCopy
    <3>2. np \in Slot /\ np # p
      BY <2>1, <3>1, ForkBase
    <3>3. Last(u).at = "forkret" /\ Len(u) = 1
      BY <2>2, CallFrame
    <3>4. PICK t : /\ Finish(p) = [stack EXCEPT ![p] = t]
                   /\ t # <<>> /\ Len(t) = Len(stack[p]) /\ Last(t).at = "ret"
                   /\ Len(t) = 2 => t[1] = stack[p][1]
      BY <1>2, FinishAfter
    <3>5. stack'[p] = t /\ stack'[np] = u /\ \A q \in Slot : q # p /\ q # np => stack'[q] = stack[q]
      BY <2>3, <3>2, <3>4 DEF MInv
    <3>6. ASSUME NEW q \in Slot PROVE Masked(stack'[q], proc'[q])
      <4>1. CASE q = p
        BY <3>4, <3>5, <4>1 DEF Masked, Quantum, TimerCode
      <4>2. CASE q = np
        <5>1. Masked(u, proc'[q])
          BY <3>3 DEF Masked, TimerCode
        <5> QED
          BY <3>5, <4>2, <5>1
      <4>3. CASE q # p /\ q # np
        <5>1. stack[q] # <<>> => Last(stack[q]).at \in Resumable
          BY <1>1, <1>2, <4>3, Alone
        <5> QED
          BY <3>5, <4>3, <5>1 DEF Masked, Quantum, Resumable
      <4> QED
        BY <4>1, <4>2, <4>3
    <3> QED
      BY <3>6 DEF Quantum
  <2> QED
    BY <1>6, <1>12, <2>1, <2>2, <2>3 DEF ForkCopy
<1> QED
  BY <1>7, <1>8, <1>9, <1>10, <1>11, <1>12 DEF Kernel, Yield, Fork

LEMMA NextQuantum ==
    ASSUME Timed, MInv, Quantum, [Next]_vars
    PROVE  Quantum'
<1>1. NCPU = 1
  BY DEF Timed
<1>2. CASE UNCHANGED vars
  BY <1>2 DEF Quantum, vars
<1>3. ASSUME NEW c \in CPU, Scheduler(c) PROVE Quantum'
  <2>1. stack' = stack /\ cpu[c] = NONE
    BY <1>3 DEF Scheduler, ScheduleMlfq, ScheduleMoq, ScheduleUnmonopolize, ScheduleReset, ScheduleMoqLast,
                ScheduleRelease, Scheduling
  <2> QED
    BY <1>1, <2>1, MaskedStays
<1>4. ASSUME NEW c \in CPU, Clock(c) PROVE Quantum'
  <2>1. irq[c] # "none" => (cpu[c] # NONE /\ stack[cpu[c]] # <<>> => ~Top(cpu[c]).irq)
    BY Zenon DEF MInv, Interrupted
  <2>2. Interruptible(c) => (cpu[c] # NONE /\ stack[cpu[c]] # <<>> => ~Top(cpu[c]).irq)
    BY Zenon DEF Interruptible
  <2>3. /\ irq[c] # "none" \/ Interruptible(c)
        /\ stack' = stack \/ EnterYield(c)
    BY <1>4 DEF Clock, ClockTick, ClockMode, boost, LocalTick, Fail
  <2> QED
    BY <1>1, <2>1, <2>2, <2>3, MaskedStays, MaskedPush
<1>5. ASSUME NEW c \in CPU, NEW p \in Slot, Syscall(c, p) PROVE Quantum'
  <2>1. cpu[c] = p /\ stack[p] = <<>> /\ proc' = proc /\ proc[p].state = "RUNNING"
    BY <1>5 DEF Syscall, Runs, MInv, OneCpu
  <2>2. proc[p].pid \in 1 .. MaxPid
    <3>1. proc[p].pid \in 0 .. MaxPid /\ proc[p].pid # 0
      BY <2>1, TableFacts DEF MInv, Lineage, Procs
    <3> QED
      BY <3>1, MlfqAssumption
  <2>3. Calls[proc[p].pid] \subseteq SystemCalls \ {"yield"}
    BY <2>2, MlfqAssumption DEF Timed
  <2>4. \E call \in SystemCalls \ {"yield"} : \E n : stack' = [stack EXCEPT ![p] = <<Frame(call, n, 0, FALSE)>>]
    <3>1. "exit" \in SystemCalls \ {"yield"}
      BY DEF SystemCalls
    <3>2. \/ stack' = [stack EXCEPT ![p] = <<Frame("exit", 0, 0, FALSE)>>]
          \/ \E call \in Calls[proc[p].pid] : \E n : stack' = [stack EXCEPT ![p] = <<Frame(call, n, 0, FALSE)>>]
      BY <1>5, Zenon DEF Syscall
    <3> QED
      BY <2>3, <3>1, <3>2, Zenon
  <2>5. PICK call, n : call \in SystemCalls \ {"yield"} /\ stack' = [stack EXCEPT ![p] = <<Frame(call, n, 0, FALSE)>>]
    BY <2>4
  <2>6. PICK f : f = Frame(call, n, 0, FALSE)
    OBVIOUS
  <2>7. f.at = call
    BY <2>6 DEF Frame
  <2> DEFINE t == <<f>>
  <2>8. Last(t) = f /\ Len(t) = 1
    BY DEF Last
  <2>9. stack' = [stack EXCEPT ![p] = t]
    BY <2>5, <2>6
  <2> HIDE DEF t
  <2>10. Masked(t, proc'[p])
    BY <2>5, <2>7, <2>8 DEF Masked, TimerCode, SystemCalls
  <2> QED
    BY <1>1, <2>1, <2>9, <2>10, MaskedStep
<1> QED
  BY <1>2, <1>3, <1>4, <1>5, QuantumKernel DEF Next, Followed

\* At the start nobody is in that code.
LEMMA InitQuantum == Init => Quantum
<1> SUFFICES ASSUME Init, NEW p \in Slot PROVE Masked(stack[p], proc[p])
  BY DEF Quantum
<1>1. PICK f : f = Frame("forkret", 0, 0, FALSE)
  OBVIOUS
<1>2. f.at = "forkret"
  BY <1>1 DEF Frame
<1>3. stack[p] = IF p = initproc THEN <<f>> ELSE <<>>
  BY <1>1 DEF Init
<1>4. PICK t : t = <<f>>
  OBVIOUS
<1>5. Last(t) = f /\ Len(t) = 1
  BY <1>4 DEF Last
<1>6. Masked(t, proc[p])
  BY <1>2, <1>5 DEF Masked, TimerCode
<1>7. Masked(<<>>, proc[p])
  BY DEF Masked
<1> QED
  BY <1>3, <1>4, <1>6, <1>7

\* The level of a process stays, or it goes to L0 or to MoQ.
LevelKept(r, s) == s.qlevel \in {r.qlevel, 0, MOQ}

LevelsKept == \A x \in Slot : LevelKept(proc[x], proc'[x])

\* One slot changes in other fields, or goes to L0 or MoQ.
LEMMA LevelChange ==
    ASSUME MInv, NEW q
    PROVE  /\ \A s : proc' = [proc EXCEPT ![q].state = s] => LevelsKept
           /\ \A ch : proc' = [proc EXCEPT ![q].chan = ch] => LevelsKept
           /\ \A ts : proc' = [proc EXCEPT ![q].timeslice = ts] => LevelsKept
           /\ \A pr : proc' = [proc EXCEPT ![q].priority = pr] => LevelsKept
           /\ proc' = [proc EXCEPT ![q].qlevel = MOQ] => LevelsKept
           /\ \A s, n : proc' = [proc EXCEPT ![q].state = s, ![q].pid = n] => LevelsKept
           /\ \A s, ch : proc' = [proc EXCEPT ![q].chan = ch, ![q].state = s] => LevelsKept
           /\ \A s, o : proc' = [proc EXCEPT ![q].parent = o, ![q].state = s] => LevelsKept
           /\ \A s, k : proc' = [proc EXCEPT ![q].killed = k, ![q].state = s] => LevelsKept
           /\ \A pr, ts : proc' = [proc EXCEPT ![q].qlevel = 0, ![q].priority = pr, ![q].timeslice = ts] => LevelsKept
           /\ \A n, o, k, s : proc' = [proc EXCEPT ![q].pid = n, ![q].parent = o, ![q].killed = k, ![q].state = s] => LevelsKept
<1>1. proc \in [Slot -> Procs]
  BY TableFacts
<1>2. ASSUME NEW s, proc' = [proc EXCEPT ![q].state = s]
      PROVE  LevelsKept
  BY <1>1, <1>2 DEF Procs, LevelKept, LevelsKept
<1>3. ASSUME NEW ch, proc' = [proc EXCEPT ![q].chan = ch]
      PROVE  LevelsKept
  BY <1>1, <1>3 DEF Procs, LevelKept, LevelsKept
<1>4. ASSUME NEW ts, proc' = [proc EXCEPT ![q].timeslice = ts]
      PROVE  LevelsKept
  BY <1>1, <1>4 DEF Procs, LevelKept, LevelsKept
<1>5. ASSUME NEW pr, proc' = [proc EXCEPT ![q].priority = pr]
      PROVE  LevelsKept
  BY <1>1, <1>5 DEF Procs, LevelKept, LevelsKept
<1>6. ASSUME proc' = [proc EXCEPT ![q].qlevel = MOQ]
      PROVE  LevelsKept
  BY <1>1, <1>6 DEF Procs, LevelKept, LevelsKept
<1>7. ASSUME NEW s, NEW n, proc' = [proc EXCEPT ![q].state = s, ![q].pid = n]
      PROVE  LevelsKept
  BY <1>1, <1>7 DEF Procs, LevelKept, LevelsKept
<1>8. ASSUME NEW s, NEW ch, proc' = [proc EXCEPT ![q].chan = ch, ![q].state = s]
      PROVE  LevelsKept
  BY <1>1, <1>8 DEF Procs, LevelKept, LevelsKept
<1>9. ASSUME NEW s, NEW o, proc' = [proc EXCEPT ![q].parent = o, ![q].state = s]
      PROVE  LevelsKept
  BY <1>1, <1>9 DEF Procs, LevelKept, LevelsKept
<1>10. ASSUME NEW s, NEW k, proc' = [proc EXCEPT ![q].killed = k, ![q].state = s]
      PROVE  LevelsKept
  BY <1>1, <1>10 DEF Procs, LevelKept, LevelsKept
<1>11. ASSUME NEW pr, NEW ts, proc' = [proc EXCEPT ![q].qlevel = 0, ![q].priority = pr, ![q].timeslice = ts]
      PROVE  LevelsKept
  BY <1>1, <1>11 DEF Procs, LevelKept, LevelsKept
<1>12. ASSUME NEW n, NEW o, NEW k, NEW s, proc' = [proc EXCEPT ![q].pid = n, ![q].parent = o, ![q].killed = k, ![q].state = s]
      PROVE  LevelsKept
  BY <1>1, <1>12 DEF Procs, LevelKept, LevelsKept
<1> QED
  BY <1>2, <1>3, <1>4, <1>5, <1>6, <1>7, <1>8, <1>9, <1>10, <1>11, <1>12, Zenon

LEMMA LevelSame == ASSUME proc' = proc PROVE LevelsKept
BY DEF LevelsKept, LevelKept

\* What a process does on the CPU, but for the move at the end of its quantum.
LEMMA KernelLevels ==
    ASSUME MInv, NEW c \in CPU, NEW p \in Slot, Kernel(c, p), ~YieldRequeue(c, p)
    PROVE  LevelsKept
<1>1. CASE Timer(c, p) \/ Return(c, p) \/ YieldTest(c, p) \/ SleepStart(c, p) \/ SleepCheck(c, p)
           \/ Unmonopolize(c, p) \/ UnmonopolizeTicks(c, p) \/ SetmonopolyFind(c, p) \/ SetmonopolyRemove(c, p)
           \/ SetmonopolyAppend(c, p)
  <2>1. proc' = proc
    BY <1>1 DEF Timer, Return, YieldTest, SleepStart, SleepCheck, Unmonopolize, UnmonopolizeTicks,
                SetmonopolyFind, SetmonopolyRemove, SetmonopolyAppend, Fail
  <2> QED
    BY <2>1, LevelSame
<1>2. CASE Resume(c, p) \/ YieldSlice(c, p) \/ YieldMoq(c, p) \/ SleepBlock(c, p) \/ Monopolize(c, p)
  <2>1. \/ proc' = proc
        \/ proc' = [proc EXCEPT ![p].chan = NONE]
        \/ proc' = [proc EXCEPT ![p].timeslice = Top(p).v - 1]
        \/ proc' = [proc EXCEPT ![p].state = "RUNNABLE"]
        \/ proc' = [proc EXCEPT ![p].chan = TICKS, ![p].state = "SLEEPING"]
    BY <1>2 DEF Resume, YieldSlice, YieldMoq, SleepBlock, Monopolize
  <2> QED
    BY <2>1, LevelSame, LevelChange, Zenon
<1>3. CASE Fork(c, p)
  <2>1. PICK np, o : np = Top(p).v /\ o = First(UnusedSlots)
    OBVIOUS
  <2>2. \/ proc' = proc
        \/ proc' = [proc EXCEPT ![o].state = "EMBRYO", ![o].pid = nextpid]
        \/ proc' = [proc EXCEPT ![np].state = "UNUSED"]
        \/ proc' = [proc EXCEPT ![np].qlevel = 0, ![np].priority = 0, ![np].timeslice = Slice[0]]
        \/ proc' = [proc EXCEPT ![np].parent = p, ![np].state = "RUNNABLE"]
    BY <1>3, <2>1 DEF Fork, ForkAlloc, ForkStack, ForkCopy, Fail
  <2> QED
    BY <2>2, LevelSame, LevelChange, Zenon
<1>4. CASE Exit(c, p)
  <2>1. PICK L \in [Slot -> Procs] : L = LeaveChildren(p)
    BY LeftTable
  <2>2. proc' = proc \/ proc' = [L EXCEPT ![p].state = "ZOMBIE"]
    BY <1>4, <2>1 DEF Exit, Fail
  <2>3. CASE proc' = [L EXCEPT ![p].state = "ZOMBIE"]
    <3>1. \A x \in Slot : proc'[x].qlevel = L[x].qlevel
      BY <2>3 DEF Procs
    <3>2. \A x \in Slot : L[x].qlevel = proc[x].qlevel
      BY <2>1, LeftKept
    <3> QED
      BY <3>1, <3>2 DEF LevelsKept, LevelKept
  <2> QED
    BY <2>2, <2>3, LevelSame
<1>5. CASE Wait(c, p)
  <2>1. PICK z : z = First(Zombies(p))
    OBVIOUS
  <2>2. \/ proc' = proc
        \/ proc' = [proc EXCEPT ![z].pid = 0, ![z].parent = NONE, ![z].killed = FALSE, ![z].state = "UNUSED"]
        \/ proc' = [proc EXCEPT ![p].chan = p, ![p].state = "SLEEPING"]
    BY <1>5, <2>1 DEF Wait
  <2>3. CASE proc' = [proc EXCEPT ![z].pid = 0, ![z].parent = NONE, ![z].killed = FALSE, ![z].state = "UNUSED"]
    <3>1. PICK n, o, k, s : proc' = [proc EXCEPT ![z].pid = n, ![z].parent = o, ![z].killed = k, ![z].state = s]
      BY <2>3
    <3>2. \A n1, o1, k1, s1 :
            proc' = [proc EXCEPT ![z].pid = n1, ![z].parent = o1, ![z].killed = k1, ![z].state = s1]
              => LevelsKept
      BY LevelChange
    <3> QED
      BY <3>1, <3>2
  <2>4. CASE proc' = [proc EXCEPT ![p].chan = p, ![p].state = "SLEEPING"]
    BY <2>4, LevelChange, Zenon
  <2> QED
    BY <2>2, <2>3, <2>4, LevelSame
<1>6. CASE Kill(c, p) \/ Setpriority(c, p)
  <2>1. PICK q : q = First(WithPid(Top(p).v))
    OBVIOUS
  <2>2. CASE Kill(c, p)
    <3> DEFINE s == IF [proc EXCEPT ![q].killed = TRUE][q].state = "SLEEPING" THEN "RUNNABLE"
                    ELSE [proc EXCEPT ![q].killed = TRUE][q].state
    <3>1. proc' = proc \/ proc' = [proc EXCEPT ![q].killed = TRUE, ![q].state = s]
      BY <2>1, <2>2 DEF Kill
    <3> HIDE DEF s
    <3> QED
      BY <3>1, LevelSame, LevelChange, Zenon
  <2>3. CASE Setpriority(c, p)
    <3>1. proc' = proc \/ \E n \in Priorities : proc' = [proc EXCEPT ![q].priority = n]
      BY <2>1, <2>3 DEF Setpriority
    <3> QED
      BY <3>1, LevelSame, LevelChange, Zenon
  <2> QED
    BY <1>6, <2>2, <2>3
<1>7. CASE SetmonopolyMark(c, p)
  <2>1. PICK q : q = Top(p).v
    OBVIOUS
  <2>2. proc' = [proc EXCEPT ![q].qlevel = MOQ]
    BY <1>7, <2>1 DEF SetmonopolyMark
  <2> QED
    BY <2>2, LevelChange, Zenon
<1> QED
  BY <1>1, <1>2, <1>3, <1>4, <1>5, <1>6, <1>7 DEF Kernel, Yield, Sleep, Setmonopoly

\* The scheduler and the timer: boost() is the way back to L0.
LEMMA ClockLevels ==
    ASSUME MInv, NEW c \in CPU, Scheduler(c) \/ Clock(c)
    PROVE  LevelsKept
<1>1. CASE Scheduler(c)
  <2>1. UNCHANGED proc \/ \E l \in Level \cup {MOQ} : levelSchedule(c, l)
    BY <1>1 DEF Scheduler, ScheduleMlfq, ScheduleMoq, ScheduleUnmonopolize, ScheduleReset, ScheduleMoqLast,
                ScheduleRelease
  <2>2. UNCHANGED proc \/ \E q : proc' = [proc EXCEPT ![q].state = "RUNNING"]
    BY <2>1 DEF levelSchedule
  <2> QED
    BY <2>2, LevelSame, LevelChange, Zenon
<1>2. CASE ClockTick(c)
  <2>1. proc' = Wakeup1(proc, TICKS)
    BY <1>2 DEF ClockTick
  <2>2. \A x \in Slot : proc'[x].qlevel = proc[x].qlevel
    BY <2>1, TableFacts, WokenKept
  <2> QED
    BY <2>2 DEF LevelsKept, LevelKept
<1>3. CASE ClockMode(c) \/ LocalTick(c)
  <2>1. proc' = proc
    BY <1>3 DEF ClockMode, LocalTick
  <2> QED
    BY <2>1, LevelSame
<1>4. CASE boost(c)
  <2>1. PICK moved : moved = queue[1] \o queue[2] \o queue[3]
    OBVIOUS
  <2>2. \/ proc' = proc
        \/ proc' = [p \in Slot |-> IF p \in ToSet(moved) THEN Boosted(p) ELSE proc[p]]
    BY <1>4, <2>1 DEF boost, Fail
  <2>3. \A p \in Slot : Boosted(p).qlevel = 0
    BY TableFacts DEF Boosted, Procs
  <2>4. CASE proc' = [p \in Slot |-> IF p \in ToSet(moved) THEN Boosted(p) ELSE proc[p]]
    BY <2>3, <2>4 DEF LevelsKept, LevelKept
  <2> QED
    BY <2>2, <2>4, LevelSame
<1> QED
  BY <1>1, <1>2, <1>3, <1>4 DEF Clock

\* A process that leaves L0 for L1 or L2 has no timeslice left.
LEMMA Demoted ==
    ASSUME MInv, Quantum, [Next]_vars, NEW q \in Slot, proc[q].qlevel = 0, proc'[q].qlevel \in {1, 2}
    PROVE  proc[q].timeslice = 0
<1>1. ~LevelsKept
  BY DEF LevelsKept, LevelKept, MOQ
<1>2. CASE UNCHANGED vars
  BY <1>1, <1>2, LevelSame DEF vars
<1>3. ASSUME NEW c \in CPU, NEW p \in Slot, Syscall(c, p) PROVE FALSE
  <2>1. proc' = proc
    BY <1>3 DEF Syscall
  <2> QED
    BY <1>1, <2>1, LevelSame
<1>4. ASSUME NEW c \in CPU, NEW p \in Slot, YieldRequeue(c, p) PROVE proc[q].timeslice = 0
  <2>1. stack[p] # <<>> /\ Last(stack[p]).at = "requeue"
    BY <1>4 DEF YieldRequeue, At, Top
  <2>2. proc[p].timeslice = 0
    BY <2>1, Zenon DEF Quantum, Masked
  <2>3. PICK to, prio : \/ proc' = proc
                        \/ proc' = [proc EXCEPT ![p].qlevel = to, ![p].timeslice = Slice[to],
                                                ![p].priority = prio, ![p].state = "RUNNABLE"]
    BY <1>4 DEF YieldRequeue, Fail
  <2>4. q # p => proc'[q] = proc[q]
    BY <2>3, TableFacts
  <2>5. q = p
    BY <2>4
  <2> QED
    BY <2>2, <2>5
<1> QED
  BY <1>1, <1>2, <1>3, <1>4, KernelLevels, ClockLevels DEF Next, Followed

\* DemotedAfterQuantum, for every number of processes and length of quanta.
THEOREM DemotedHolds ==
    ASSUME Timed
    PROVE  Spec => DemotedAfterQuantum
<1>1. Init => Quantum
  BY InitQuantum
<1>2. MInv /\ Quantum /\ [Next]_vars => Quantum'
  BY NextQuantum
<1>3. MInv /\ Quantum /\ [Next]_vars =>
        [\A p \in Slot : proc[p].qlevel = 0 /\ proc'[p].qlevel \in {1, 2} => proc[p].timeslice = 0]_vars
  BY Demoted
<1> QED
  BY <1>1, <1>2, <1>3, InvariantHolds, PTL DEF Spec, DemotedAfterQuantum
-------------------------------------------------------------------------------
(* The monopoly, on one CPU, of a parent that alone calls setmonopoly() *)

\* The programs for which MoQ holds what it should: as in test 4 of mlfq_test.c, the
\* first process alone forks, waits for its children and moves them to MoQ.  Were
\* there another, a process could be reaped, and its slot taken again, between the
\* search of setmonopoly() and its two stores, which hold no lock.
Monopolists ==
    /\ ~MemoryFails
    /\ 0 \notin PidArgs
    /\ \A n \in 2 .. MaxPid : Calls[n] \cap {"fork", "wait", "setmonopoly"} = {}

\* The code of those calls.
Parental == {"fork", "fork_stack", "fork_copy", "wait", "wait_wake",
             "setmonopoly", "setmonopoly_remove", "setmonopoly_mark", "setmonopoly_append"}

\* n is in no queue.
Out(n) == \A l \in Level \cup {MOQ} : ~Contains(queue[l], n)

\* Code that is about to put n into a queue for which it has left any other.
Holds(at, v, w, n) ==
    /\ v = n
    /\ \/ at \in {"fork_stack", "setmonopoly_mark", "setmonopoly_append"}
       \/ at = "setmonopoly_remove" /\ w = MOQ

\* init executes it.
Held(n) == LET f == stack[initproc][1] IN stack[initproc] # <<>> /\ Holds(f.at, f.v, f.w, n)

\* No entry is repeated, and it is in the queue that its qlevel names.
Lone    == \A l \in Level \cup {MOQ} : IsInjective(queue[l])
Ordered == \A l \in Level \cup {MOQ}, p \in Slot : Contains(queue[l], p) => proc[p].qlevel = l

\* A free slot, or one that init is about to queue, is in no queue.
Apart ==
    \A n \in Slot : /\ proc[n].state = "UNUSED" \/ Held(n) => Out(n)
                    /\ Held(n) => proc[n].state # "UNUSED"

\* Only init, whose pid is 1, executes that code, and setmonopoly() never for pid 0.
Ruled(p, f) == /\ p # initproc => f.at \notin Parental
               /\ f.at = "setmonopoly" => f.v # 0

Ruling == \A p \in Slot : stack[p] # <<>> => Ruled(p, stack[p][1])

MoqInv == Lone /\ Ordered /\ Apart /\ Named /\ proc[initproc].pid = 1 /\ Ruling

\* A step that leaves the queues alone, and takes hold of nothing.
LEMMA MoqCalm ==
    ASSUME MoqInv, UNCHANGED <<queue, nextpid>>, Kept, Ruling', \A n \in Slot : Held(n)' => Held(n)
    PROVE  MoqInv'
<1>1. Lone' /\ Named' /\ proc'[initproc].pid = 1
  BY Names DEF MoqInv, Lone, Named, Kept
<1>2. Ordered'
  BY DEF MoqInv, Ordered, Kept
<1>3. Apart'
  <2>1. \A n : Out(n)' <=> Out(n)
    BY DEF Out
  <2> QED
    BY <2>1 DEF MoqInv, Apart, Kept
<1> QED
  BY <1>1, <1>2, <1>3 DEF MoqInv

LEMMA RuledSame ==
    ASSUME Ruling, stack' = stack
    PROVE  Ruling' /\ \A n : Held(n)' <=> Held(n)
BY DEF Ruling, Held

\* The stack of p becomes t.
LEMMA RuledStep ==
    ASSUME MInv, Ruling, NEW p \in Slot, NEW t, stack' = [stack EXCEPT ![p] = t],
           t # <<>> => \/ stack[p] # <<>> /\ t[1] = stack[p][1]
                       \/ Ruled(p, t[1])
    PROVE  /\ Ruling'
           /\ p # initproc => \A n : Held(n)' <=> Held(n)
           /\ p = initproc => \A n : Held(n)' <=> t # <<>> /\ Holds(t[1].at, t[1].v, t[1].w, n)
<1>1. stack'[p] = t /\ \A q \in Slot : q # p => stack'[q] = stack[q]
  BY DEF MInv
<1>2. Ruling'
  BY <1>1 DEF Ruling
<1>3. ASSUME p # initproc, NEW n PROVE Held(n)' <=> Held(n)
  BY <1>1, <1>3, Names DEF Held
<1>4. ASSUME p = initproc, NEW n PROVE Held(n)' <=> t # <<>> /\ Holds(t[1].at, t[1].v, t[1].w, n)
  BY <1>1, <1>4 DEF Held
<1> QED
  BY <1>2, <1>3, <1>4

\* The first frame, with its locals, when the top frame goes on to other code.
LEMMA FrameAfter ==
    ASSUME MInv, NEW p \in Slot, stack[p] # <<>>, NEW to, NEW v, NEW w
    PROVE  \E t : /\ Goto(p, to, v, w) = [stack EXCEPT ![p] = t]
                  /\ t # <<>> /\ Len(t) = Len(stack[p])
                  /\ \/ t[1] = stack[p][1]
                     \/ t[1] = Frame(to, v, w, Top(p).irq)
                  /\ Len(t) = 1 => t[1] = Frame(to, v, w, Top(p).irq)
<1> DEFINE s == stack[p]
           f == Frame(to, v, w, Top(p).irq)
           F == Frames \cup {f}
           t == Append(Front(s), f)
<1>1. s \in Stacks
  BY DEF MInv
<1>2. s \in Seq(Frames) /\ Len(s) \in {1, 2}
  BY <1>1, StackFacts
<1> HIDE DEF f
<1>3. s \in Seq(F) /\ f \in F
  <2>1. \A n \in 1 .. Len(s) : s[n] \in F
    BY <1>2, ElementOfSeq
  <2> QED
    BY <1>2, <2>1, SeqDef
<1>4. Goto(p, to, v, w) = [stack EXCEPT ![p] = t]
  BY DEF Goto, f
<1> HIDE DEF F, s
<1>5. /\ t # <<>> /\ Len(t) = Len(s) /\ Last(t) = f
      /\ \A n \in 1 .. Len(s) - 1 : t[n] = s[n]
  <2>1. s # <<>>
    BY DEF s
  <2> QED
    BY <1>3, <2>1, Replaced
<1> HIDE DEF t
<1>6. (t[1] = s[1] \/ t[1] = f) /\ (Len(t) = 1 => t[1] = f)
  BY <1>2, <1>5 DEF Last
<1> QED
  BY <1>4, <1>5, <1>6 DEF s, f

\* Other code than that of the parent, or that of the parent in init.
LEMMA RuledGoto ==
    ASSUME MInv, Ruling, NEW p \in Slot, stack[p] # <<>>, NEW to, NEW v, NEW w, stack' = Goto(p, to, v, w),
           to \in Parental => p = initproc, to # "setmonopoly"
    PROVE  /\ Ruling'
           /\ \A n : Held(n)' => Held(n) \/ Holds(to, v, w, n)
           /\ p = initproc /\ Len(stack[p]) = 1 => \A n : Held(n)' <=> Holds(to, v, w, n)
<1>1. PICK f : f = Frame(to, v, w, Top(p).irq)
  OBVIOUS
<1>2. f.at = to /\ f.v = v /\ f.w = w
  BY <1>1 DEF Frame
<1>3. PICK t : /\ Goto(p, to, v, w) = [stack EXCEPT ![p] = t]
               /\ t # <<>> /\ Len(t) = Len(stack[p])
               /\ t[1] = stack[p][1] \/ t[1] = f
               /\ Len(t) = 1 => t[1] = f
  BY <1>1, FrameAfter
<1>4. Ruled(p, f)
  BY <1>2 DEF Ruled
<1>5. stack' = [stack EXCEPT ![p] = t] /\ (t # <<>> => (stack[p] # <<>> /\ t[1] = stack[p][1]) \/ Ruled(p, t[1]))
  BY <1>3, <1>4
<1>6. /\ Ruling'
      /\ p # initproc => \A n : Held(n)' <=> Held(n)
      /\ p = initproc => \A n : Held(n)' <=> t # <<>> /\ Holds(t[1].at, t[1].v, t[1].w, n)
  BY <1>5, RuledStep
<1>7. ASSUME NEW n, Held(n)' PROVE Held(n) \/ Holds(to, v, w, n)
  <2>1. CASE p = initproc /\ t[1] = f
    BY <1>2, <1>6, <1>7, <2>1
  <2>2. CASE p = initproc /\ t[1] = stack[p][1]
    BY <1>6, <1>7, <2>2 DEF Held
  <2> QED
    BY <1>3, <1>6, <1>7, <2>1, <2>2
<1>8. ASSUME p = initproc, Len(stack[p]) = 1, NEW n PROVE Held(n)' <=> Holds(to, v, w, n)
  BY <1>2, <1>3, <1>6, <1>8
<1> QED
  BY <1>6, <1>7, <1>8

\* The end of a call; the code of a parent is left for good.
LEMMA RuledFinish ==
    ASSUME MInv, Ruling, NEW p \in Slot, stack[p] # <<>>, stack' = Finish(p)
    PROVE  /\ Ruling' /\ \A n : Held(n)' => Held(n)
           /\ p = initproc /\ Len(stack[p]) = 1 => \A n : ~Held(n)'
<1>1. PICK to, v, w : to = "ret" /\ stack' = Goto(p, to, v, w)
  BY DEF Finish
<1>2. to \notin Parental /\ to # "setmonopoly" /\ \A n : ~Holds(to, v, w, n)
  BY <1>1 DEF Parental, Holds
<1>3. /\ Ruling'
      /\ \A n : Held(n)' => Held(n) \/ Holds(to, v, w, n)
      /\ p = initproc /\ Len(stack[p]) = 1 => \A n : Held(n)' <=> Holds(to, v, w, n)
  BY <1>1, <1>2, RuledGoto
<1> QED
  BY <1>2, <1>3

\* The top frame is popped,
LEMMA RuledPop ==
    ASSUME MInv, Ruling, NEW p \in Slot, stack[p] # <<>>, stack' = [stack EXCEPT ![p] = Front(@)]
    PROVE  Ruling' /\ \A n : Held(n)' => Held(n)
<1>1. PICK t : t = Front(stack[p])
  OBVIOUS
<1>2. stack[p] \in Stacks
  BY DEF MInv
<1>3. t # <<>> => t[1] = stack[p][1]
  BY <1>1, <1>2, PopFacts
<1>4. stack' = [stack EXCEPT ![p] = t]
  BY <1>1
<1>5. /\ Ruling'
      /\ p # initproc => \A n : Held(n)' <=> Held(n)
      /\ p = initproc => \A n : Held(n)' <=> t # <<>> /\ Holds(t[1].at, t[1].v, t[1].w, n)
  BY <1>3, <1>4, RuledStep
<1> QED
  BY <1>3, <1>5 DEF Held

\* or that of an interrupt is pushed.
LEMMA RuledPush ==
    ASSUME MInv, Ruling, NEW c \in CPU, EnterYield(c),
           cpu[c] # NONE /\ stack[cpu[c]] # <<>> => ~Top(cpu[c]).irq
    PROVE  Ruling' /\ \A n : Held(n)' => Held(n)
<1>1. CASE cpu[c] = NONE
  BY <1>1, RuledSame DEF EnterYield
<1>2. CASE cpu[c] # NONE
  <2> DEFINE f == Frame("timer", 0, 0, TRUE)
  <2>1. PICK p \in Slot : p = cpu[c]
    BY <1>2 DEF MInv, Types
  <2>2. stack' = [stack EXCEPT ![p] = Append(@, f)]
    BY <1>2, <2>1 DEF EnterYield
  <2>3. f \in Frames /\ f.irq /\ f.at = "timer"
    BY TimerFrame
  <2>4. stack[p] \in Stacks /\ (stack[p] # <<>> => ~Last(stack[p]).irq) /\ stack \in [Slot -> Stacks]
    BY <1>2, <2>1, Zenon DEF MInv, Top
  <2> HIDE DEF f
  <2>5. PICK t \in Stacks : /\ stack' = [stack EXCEPT ![p] = t] /\ t # <<>> /\ Last(t) = f
                            /\ IF stack[p] = <<>> THEN t[1] = f ELSE t[1] = stack[p][1]
    BY <2>2, <2>3, <2>4, PushFacts
  <2>6. Ruled(p, f) /\ \A n : ~Holds(f.at, f.v, f.w, n)
    BY <2>3 DEF Ruled, Parental, Holds
  <2>7. /\ Ruling'
        /\ p # initproc => \A n : Held(n)' <=> Held(n)
        /\ p = initproc => \A n : Held(n)' <=> t # <<>> /\ Holds(t[1].at, t[1].v, t[1].w, n)
    BY <2>5, <2>6, RuledStep
  <2> QED
    BY <2>5, <2>6, <2>7 DEF Held
<1> QED
  BY <1>1, <1>2

\* Who executes the code of a parent.
LEMMA Parent ==
    ASSUME MInv, Ruling, NEW c \in CPU, NEW p \in Slot, NEW at \in Parental, At(c, p, at)
    PROVE  /\ p = initproc /\ Len(stack[p]) = 1 /\ stack[p][1] = Top(p) /\ stack[p] # <<>>
           /\ Top(p).at = at /\ Top(p) \in Frames /\ proc[p].state = "RUNNING" /\ at \notin IrqCode
           /\ \A n : Held(n) <=> Holds(at, Top(p).v, Top(p).w, n)
<1>1. at \in Code \ IrqCode
  BY DEF Parental, Code, SystemCalls, IrqCode, Resumable
<1>2. /\ Len(stack[p]) = 1 /\ stack[p][1] = Top(p) /\ stack[p] # <<>>
      /\ Top(p).at = at /\ Top(p) \in Frames /\ proc[p].state = "RUNNING"
  BY <1>1, CallTop, AtFacts
<1>3. p = initproc
  BY <1>2 DEF Ruling, Ruled
<1> QED
  BY <1>1, <1>2, <1>3 DEF Held

\* A slot changes in other fields.
LEMMA KeptChange ==
    ASSUME MInv, NEW q \in Slot, NEW s, s = "UNUSED" <=> proc[q].state = "UNUSED"
    PROVE  /\ proc' = [proc EXCEPT ![q].state = s] => Kept
           /\ \A ch : proc' = [proc EXCEPT ![q].chan = ch] => Kept
           /\ \A ts : proc' = [proc EXCEPT ![q].timeslice = ts] => Kept
           /\ \A pr : proc' = [proc EXCEPT ![q].priority = pr] => Kept
           /\ \A ch : proc' = [proc EXCEPT ![q].chan = ch, ![q].state = s] => Kept
           /\ \A o : proc' = [proc EXCEPT ![q].parent = o, ![q].state = s] => Kept
           /\ \A k : proc' = [proc EXCEPT ![q].killed = k, ![q].state = s] => Kept
<1>1. proc \in [Slot -> Procs]
  BY TableFacts
<1>2. ASSUME proc' = [proc EXCEPT ![q].state = s] PROVE Kept
  BY <1>1, <1>2 DEF Procs, Kept
<1>3. ASSUME NEW ch, proc' = [proc EXCEPT ![q].chan = ch] PROVE Kept
  BY <1>1, <1>3 DEF Procs, Kept
<1>4. ASSUME NEW ts, proc' = [proc EXCEPT ![q].timeslice = ts] PROVE Kept
  BY <1>1, <1>4 DEF Procs, Kept
<1>5. ASSUME NEW pr, proc' = [proc EXCEPT ![q].priority = pr] PROVE Kept
  BY <1>1, <1>5 DEF Procs, Kept
<1>6. ASSUME NEW ch, proc' = [proc EXCEPT ![q].chan = ch, ![q].state = s] PROVE Kept
  BY <1>1, <1>6 DEF Procs, Kept
<1>7. ASSUME NEW o, proc' = [proc EXCEPT ![q].parent = o, ![q].state = s] PROVE Kept
  BY <1>1, <1>7 DEF Procs, Kept
<1>8. ASSUME NEW k, proc' = [proc EXCEPT ![q].killed = k, ![q].state = s] PROVE Kept
  BY <1>1, <1>8 DEF Procs, Kept
<1> QED
  BY <1>2, <1>3, <1>4, <1>5, <1>6, <1>7, <1>8, Zenon

\* The scheduler marks a process RUNNING.
LEMMA MoqScheduler ==
    ASSUME MInv, MoqInv, NEW c \in CPU, Scheduler(c)
    PROVE  MoqInv'
<1>1. UNCHANGED <<queue, nextpid, stack>>
  BY DEF Scheduler, ScheduleMlfq, ScheduleMoq, ScheduleUnmonopolize, ScheduleReset, ScheduleMoqLast,
         ScheduleRelease
<1>2. UNCHANGED proc \/ \E l \in Level \cup {MOQ} : levelSchedule(c, l)
  BY DEF Scheduler, ScheduleMlfq, ScheduleMoq, ScheduleUnmonopolize, ScheduleReset, ScheduleMoqLast,
         ScheduleRelease
<1>3. ASSUME NEW l \in Level \cup {MOQ}, levelSchedule(c, l) PROVE Kept
  <2>1. PICK p : p = queue[l][First(Runnable(l))]
    OBVIOUS
  <2>2. p \in Slot /\ proc[p].state = "RUNNABLE"
    BY <1>3, <2>1, RunnableFacts DEF levelSchedule, MInv
  <2>3. proc' = [proc EXCEPT ![p].state = "RUNNING"]
    BY <1>3, <2>1 DEF levelSchedule
  <2>4. "RUNNING" = "UNUSED" <=> proc[p].state = "UNUSED"
    BY <2>2
  <2> QED
    BY <2>2, <2>3, <2>4, KeptChange
<1>4. Kept
  BY <1>2, <1>3, SameTable
<1>5. Ruling' /\ \A n : Held(n)' <=> Held(n)
  BY <1>1, RuledSame DEF MoqInv
<1> QED
  BY <1>1, <1>4, <1>5, MoqCalm

\* The timer, but for boost().
LEMMA MoqClock ==
    ASSUME MInv, MoqInv, NEW c \in CPU, ClockTick(c) \/ ClockMode(c) \/ LocalTick(c)
    PROVE  MoqInv'
<1>1. UNCHANGED <<queue, nextpid>> /\ (stack' = stack \/ EnterYield(c))
      /\ (irq[c] # "none" \/ Interruptible(c))
      /\ (proc' = proc \/ proc' = Wakeup1(proc, TICKS))
  BY DEF ClockTick, ClockMode, LocalTick
<1>2. cpu[c] # NONE /\ stack[cpu[c]] # <<>> => ~Top(cpu[c]).irq
  BY <1>1, Zenon DEF MInv, Interrupted, Interruptible
<1>3. Ruling' /\ \A n : Held(n)' => Held(n)
  BY <1>1, <1>2, RuledSame, RuledPush DEF MoqInv
<1>4. Kept
  <2>1. CASE proc' = Wakeup1(proc, TICKS)
    <3>1. proc \in [Slot -> Procs]
      BY TableFacts
    <3>2. \A q \in Slot : /\ proc'[q].qlevel = proc[q].qlevel /\ proc'[q].pid = proc[q].pid
                          /\ proc'[q].state = IF proc[q].state = "SLEEPING" /\ proc[q].chan = TICKS
                                              THEN "RUNNABLE" ELSE proc[q].state
      BY <2>1, <3>1, WokenTable, WokenKept
    <3> QED
      BY <3>2 DEF Kept
  <2> QED
    BY <1>1, <2>1, SameTable
<1> QED
  BY <1>1, <1>3, <1>4, MoqCalm

\* The code of a process that leaves the queues alone.
LEMMA MoqMoves ==
    ASSUME MInv, MoqInv, NEW c \in CPU, NEW p \in Slot,
           \/ Resume(c, p) \/ Timer(c, p) \/ Return(c, p) \/ YieldTest(c, p) \/ YieldSlice(c, p)
           \/ YieldMoq(c, p) \/ Kill(c, p) \/ Setpriority(c, p) \/ Sleep(c, p)
           \/ Monopolize(c, p) \/ Unmonopolize(c, p) \/ UnmonopolizeTicks(c, p)
    PROVE  MoqInv'
<1>1. UNCHANGED <<queue, nextpid>>
  BY DEF Resume, Timer, Return, YieldTest, YieldSlice, YieldMoq, Kill, Setpriority, Sleep, SleepStart,
         SleepCheck, SleepBlock, Monopolize, Unmonopolize, UnmonopolizeTicks
<1>2. cpu[c] = p /\ stack[p] # <<>> /\ proc[p].state = "RUNNING"
  <2>1. Runs(c, p)
    BY DEF Resume, Timer, Return, YieldTest, YieldSlice, YieldMoq, Kill, Setpriority, Sleep, SleepStart,
           SleepCheck, SleepBlock, Monopolize, Unmonopolize, UnmonopolizeTicks, At
  <2>2. Resume(c, p) => stack[p] # <<>>
    BY <2>1, Names DEF MInv, Parked, Runs, Resume
  <2>3. ~Resume(c, p) => stack[p] # <<>>
    BY DEF Timer, Return, YieldTest, YieldSlice, YieldMoq, Kill, Setpriority, Sleep, SleepStart,
           SleepCheck, SleepBlock, Monopolize, Unmonopolize, UnmonopolizeTicks, At
  <2> QED
    BY <2>1, <2>2, <2>3 DEF Runs, MInv, OneCpu
<1>3. Kept
  <2>1. CASE Resume(c, p) \/ YieldSlice(c, p) \/ YieldMoq(c, p) \/ Monopolize(c, p)
             \/ Timer(c, p) \/ Return(c, p) \/ YieldTest(c, p) \/ Sleep(c, p)
             \/ Unmonopolize(c, p) \/ UnmonopolizeTicks(c, p)
    <3>1. \/ proc' = proc
          \/ proc' = [proc EXCEPT ![p].chan = NONE]
          \/ proc' = [proc EXCEPT ![p].timeslice = Top(p).v - 1]
          \/ proc' = [proc EXCEPT ![p].state = "RUNNABLE"]
          \/ proc' = [proc EXCEPT ![p].chan = TICKS, ![p].state = "SLEEPING"]
      BY <2>1 DEF Resume, YieldSlice, YieldMoq, Monopolize, Timer, Return, YieldTest, Sleep, SleepStart,
                  SleepCheck, SleepBlock, Unmonopolize, UnmonopolizeTicks
    <3>2. ("RUNNABLE" = "UNUSED" <=> proc[p].state = "UNUSED") /\ ("SLEEPING" = "UNUSED" <=> proc[p].state = "UNUSED")
      BY <1>2
    <3> QED
      BY <3>1, <3>2, SameTable, KeptChange, Zenon
  <2>2. CASE Kill(c, p) \/ Setpriority(c, p)
    <3>1. PICK found : found = WithPid(Top(p).v)
      OBVIOUS
    <3>2. PICK q : q = First(found)
      OBVIOUS
    <3>3. found # {} => q \in Slot
      <4>1. found \in SUBSET Nat
        BY <3>1, Names DEF WithPid
      <4>2. found # {} => q \in found
        BY <3>2, <4>1, FirstIn
      <4> QED
        BY <3>1, <4>2 DEF WithPid
    <3>4. CASE Kill(c, p) /\ found # {}
      <4> DEFINE s == IF [proc EXCEPT ![q].killed = TRUE][q].state = "SLEEPING" THEN "RUNNABLE"
                      ELSE [proc EXCEPT ![q].killed = TRUE][q].state
      <4>1. proc' = [proc EXCEPT ![q].killed = TRUE, ![q].state = s]
        BY <3>1, <3>2, <3>4 DEF Kill
      <4>2. s = "UNUSED" <=> proc[q].state = "UNUSED"
        BY <3>3, <3>4, TableFacts DEF Procs
      <4> HIDE DEF s
      <4> QED
        BY <3>3, <3>4, <4>1, <4>2, KeptChange, Zenon
    <3>5. CASE Setpriority(c, p) /\ found # {}
      <4>1. \E n \in Priorities : proc' = [proc EXCEPT ![q].priority = n]
        BY <3>1, <3>2, <3>5 DEF Setpriority
      <4>2. PICK s : s = "UNUSED" <=> proc[q].state = "UNUSED"
        OBVIOUS
      <4> QED
        BY <3>3, <3>5, <4>1, <4>2, KeptChange, Zenon
    <3> QED
      BY <2>2, <3>1, <3>4, <3>5, SameTable DEF Kill, Setpriority
  <2> QED
    BY <2>1, <2>2
<1>4. Ruling' /\ \A n : Held(n)' => Held(n)
  <2>1. \/ stack' = stack
        \/ stack' = [stack EXCEPT ![p] = Front(@)]
        \/ stack' = Finish(p)
        \/ \E to \in {"exit", "yield", "giveup", "slice", "requeue", "sleep_check", "yielded",
                       "sleep_block", "sleep_wake", "unmonopolize_ticks"} : \E v : stack' = Goto(p, to, v, 0)
        \/ stack' = Goto(p, "wait", 0, 0) /\ Resume(c, p) /\ Top(p).at = "wait_wake"
    <3>1. CASE Resume(c, p)
      BY <3>1 DEF Resume
    <3>2. CASE Timer(c, p) \/ YieldTest(c, p) \/ YieldSlice(c, p) \/ YieldMoq(c, p)
      BY <3>2 DEF Timer, YieldTest, YieldSlice, YieldMoq
    <3>3. CASE Return(c, p)
      <4>1. stack' = Goto(p, "exit", 0, 0) \/ stack' = [stack EXCEPT ![p] = Front(@)]
        BY <3>3, Zenon DEF Return
      <4> QED
        BY <4>1
    <3>4. CASE Kill(c, p) \/ Setpriority(c, p) \/ Monopolize(c, p) \/ Unmonopolize(c, p) \/ UnmonopolizeTicks(c, p)
      BY <3>4 DEF Kill, Setpriority, Monopolize, Unmonopolize, UnmonopolizeTicks
    <3>5. CASE Sleep(c, p)
      BY <3>5 DEF Sleep, SleepStart, SleepCheck, SleepBlock
    <3> QED
      BY <3>1, <3>2, <3>3, <3>4, <3>5
  <2>2. ASSUME NEW to \in {"exit", "yield", "giveup", "slice", "requeue", "sleep_check", "yielded",
                          "sleep_block", "sleep_wake", "unmonopolize_ticks"}, NEW v, stack' = Goto(p, to, v, 0)
        PROVE  Ruling' /\ \A n : Held(n)' => Held(n)
    <3>1. PICK w : w = 0
      OBVIOUS
    <3>2. to \notin Parental /\ to # "setmonopoly" /\ \A n : ~Holds(to, v, w, n)
      BY DEF Parental, Holds
    <3> QED
      BY <1>2, <2>2, <3>1, <3>2, RuledGoto DEF MoqInv
  <2>3. ASSUME stack' = Goto(p, "wait", 0, 0), Resume(c, p), Top(p).at = "wait_wake"
        PROVE  Ruling' /\ \A n : Held(n)' => Held(n)
    <3>1. PICK to, v, w : to = "wait" /\ stack' = Goto(p, to, v, w)
      BY <2>3
    <3>2. At(c, p, "wait_wake") /\ "wait_wake" \in Parental
      BY <1>2, <2>3 DEF At, Resume, Parental
    <3>3. p = initproc
      BY <3>2, Parent DEF MoqInv
    <3>4. to # "setmonopoly" /\ \A n : ~Holds(to, v, w, n)
      BY <3>1 DEF Holds
    <3> QED
      BY <1>2, <3>1, <3>3, <3>4, RuledGoto DEF MoqInv
  <2> QED
    BY <1>2, <2>1, <2>2, <2>3, RuledSame, RuledPop, RuledFinish DEF MoqInv
<1> QED
  BY <1>1, <1>3, <1>4, MoqCalm

\* A program makes a call: only that of init one of a parent.
LEMMA MoqSyscall ==
    ASSUME Monopolists, MInv, MoqInv, NEW c \in CPU, NEW p \in Slot, Syscall(c, p)
    PROVE  MoqInv'
<1>1. Runs(c, p) /\ stack[p] = <<>> /\ UNCHANGED <<proc, queue, nextpid>>
  BY DEF Syscall
<1>2. proc[p].state = "RUNNING" /\ proc[p] \in Procs
  BY <1>1, TableFacts DEF Runs, MInv, OneCpu
<1>3. proc[p].pid \in 1 .. MaxPid /\ (p # initproc => proc[p].pid \in 2 .. MaxPid)
  <2>1. proc[p].pid \in 0 .. MaxPid /\ proc[p].pid # 0
    BY <1>2 DEF MInv, Lineage, Procs
  <2>2. p # initproc => proc[p].pid # 1
    BY <2>1, Names DEF MoqInv, Named
  <2> QED
    BY <2>1, <2>2, MlfqAssumption
<1>4. Calls[proc[p].pid] \subseteq SystemCalls
      /\ (p # initproc => Calls[proc[p].pid] \cap {"fork", "wait", "setmonopoly"} = {})
  BY <1>3, MlfqAssumption DEF Monopolists
<1>5. \/ stack' = [stack EXCEPT ![p] = <<Frame("exit", 0, 0, FALSE)>>]
      \/ \E call \in Calls[proc[p].pid],
            n \in Nat : /\ stack' = [stack EXCEPT ![p] = <<Frame(call, n, 0, FALSE)>>]
                        /\ call = "setmonopoly" => n # 0
  <2>1. CASE proc[p].killed /\ stack' = [stack EXCEPT ![p] = <<Frame("exit", 0, 0, FALSE)>>]
    BY <2>1, Zenon
  <2>2. ASSUME NEW call \in Calls[proc[p].pid],
               NEW n \in IF call \in {"kill", "setpriority", "setmonopoly"} THEN PidArgs ELSE {0},
               stack' = [stack EXCEPT ![p] = <<Frame(call, n, 0, FALSE)>>]
        PROVE  \E a \in Calls[proc[p].pid],
                  m \in Nat : /\ stack' = [stack EXCEPT ![p] = <<Frame(a, m, 0, FALSE)>>]
                              /\ a = "setmonopoly" => m # 0
    <3>1. n \in Nat /\ (call = "setmonopoly" => n # 0)
      BY <2>2, MlfqAssumption DEF Monopolists
    <3> QED
      BY <2>2, <3>1, Zenon
  <2> QED
    BY <2>1, <2>2, Zenon DEF Syscall
<1>6. PICK call \in SystemCalls, n \in Nat :
          /\ stack' = [stack EXCEPT ![p] = <<Frame(call, n, 0, FALSE)>>]
          /\ p # initproc => call \notin {"fork", "wait", "setmonopoly"}
          /\ call = "setmonopoly" => n # 0
  <2>1. CASE stack' = [stack EXCEPT ![p] = <<Frame("exit", 0, 0, FALSE)>>]
    <3>1. "exit" \in SystemCalls /\ 0 \in Nat /\ "exit" \notin {"fork", "wait", "setmonopoly"}
      BY DEF SystemCalls
    <3> QED
      BY <2>1, <3>1, Zenon
  <2>2. ASSUME NEW call \in Calls[proc[p].pid], NEW n \in Nat,
               stack' = [stack EXCEPT ![p] = <<Frame(call, n, 0, FALSE)>>],
               call = "setmonopoly" => n # 0
        PROVE  \E a \in SystemCalls, m \in Nat :
                  /\ stack' = [stack EXCEPT ![p] = <<Frame(a, m, 0, FALSE)>>]
                  /\ p # initproc => a \notin {"fork", "wait", "setmonopoly"}
                  /\ a = "setmonopoly" => m # 0
    <3>1. call \in SystemCalls /\ (p # initproc => call \notin {"fork", "wait", "setmonopoly"})
      BY <1>4
    <3> QED
      BY <2>2, <3>1, Zenon
  <2> QED
    BY <1>5, <2>1, <2>2, Zenon
<1> DEFINE t == <<Frame(call, n, 0, FALSE)>>
<1>7. t # <<>> /\ t[1].at = call /\ t[1].v = n
  BY DEF Frame
<1>8. stack' = [stack EXCEPT ![p] = t]
  BY <1>6
<1> HIDE DEF t
<1>9. Ruled(p, t[1])
  BY <1>6, <1>7 DEF Ruled, Parental, SystemCalls
<1>10. \A m : ~Holds(t[1].at, t[1].v, t[1].w, m)
  BY <1>6, <1>7 DEF Holds, SystemCalls
<1>11. /\ Ruling'
       /\ p # initproc => \A m : Held(m)' <=> Held(m)
       /\ p = initproc => \A m : Held(m)' <=> t # <<>> /\ Holds(t[1].at, t[1].v, t[1].w, m)
  BY <1>8, <1>9, RuledStep DEF MoqInv
<1> QED
  BY <1>1, <1>10, <1>11, SameTable, MoqCalm

\* A panic, or an access outside a queue, changes nothing else.
LEMMA MoqFail ==
    ASSUME MoqInv, UNCHANGED <<proc, queue, nextpid, stack>>
    PROVE  MoqInv'
BY SameTable, RuledSame, MoqCalm DEF MoqInv

\* exit(): a zombie stays in its queue.
LEMMA MoqExit ==
    ASSUME MInv, MoqInv, NEW c \in CPU, NEW p \in Slot, Exit(c, p)
    PROVE  MoqInv'
<1>1. CASE Fail("panic")
  BY <1>1, MoqFail DEF Fail
<1>2. CASE /\ proc' = [LeaveChildren(p) EXCEPT ![p].state = "ZOMBIE"]
           /\ stack' = [stack EXCEPT ![p] = <<>>] /\ UNCHANGED <<queue, nextpid>>
  <2>1. proc[p].state = "RUNNING"
    BY AtFacts DEF Exit
  <2>2. PICK T \in [Slot -> Procs] : T = LeaveChildren(p)
    BY LeftTable
  <2>3. \A q \in Slot : /\ T[q].pid = proc[q].pid /\ T[q].qlevel = proc[q].qlevel
                        /\ T[q].state = "UNUSED" <=> proc[q].state = "UNUSED"
    BY <2>2, LeftTable, LeftKept
  <2> DEFINE r == [T[p] EXCEPT !.state = "ZOMBIE"]
  <2>4. T[p] \in Procs
    OBVIOUS
  <2>5. r.pid = T[p].pid /\ r.qlevel = T[p].qlevel /\ r.state = "ZOMBIE"
    BY <2>4, FieldsKept
  <2>6. proc' = [T EXCEPT ![p] = r]
    BY <1>2, <2>2
  <2> HIDE DEF r
  <2>7. Kept
    BY <2>1, <2>3, <2>5, <2>6 DEF Kept
  <2>8. PICK t : t = <<>>
    OBVIOUS
  <2>9. stack' = [stack EXCEPT ![p] = t]
    BY <1>2, <2>8
  <2>10. /\ Ruling'
         /\ p # initproc => \A n : Held(n)' <=> Held(n)
         /\ p = initproc => \A n : Held(n)' <=> t # <<>> /\ Holds(t[1].at, t[1].v, t[1].w, n)
    BY <2>8, <2>9, RuledStep DEF MoqInv
  <2> QED
    BY <1>2, <2>7, <2>8, <2>10, MoqCalm
<1> QED
  BY <1>1, <1>2 DEF Exit

\* fork() of init takes a slot: it has no entry in a queue yet.
LEMMA MoqForkAlloc ==
    ASSUME MInv, MoqInv, NEW c \in CPU, NEW p \in Slot, ForkAlloc(c, p)
    PROVE  MoqInv'
<1>1. At(c, p, "fork") /\ UNCHANGED queue /\ "fork" \in Parental
  BY DEF ForkAlloc, Parental
<1>2. p = initproc /\ Len(stack[p]) = 1 /\ stack[p] # <<>> /\ proc[p].state = "RUNNING"
  BY <1>1, Parent DEF MoqInv
<1>3. CASE UnusedSlots = {}
  <2>1. stack' = Finish(p) /\ UNCHANGED proc /\ nextpid' = nextpid
    BY <1>3 DEF ForkAlloc
  <2> QED
    BY <1>1, <1>2, <2>1, SameTable, RuledFinish, MoqCalm DEF MoqInv
<1>4. CASE UnusedSlots # {}
  <2>1. PICK np : np = First(UnusedSlots)
    OBVIOUS
  <2>2. np \in Slot /\ proc[np].state = "UNUSED" /\ proc[np] \in Procs
    BY <1>4, <2>1, FirstIn, Names, TableFacts DEF UnusedSlots
  <2>3. /\ proc' = [proc EXCEPT ![np].state = "EMBRYO", ![np].pid = nextpid]
        /\ stack' = Goto(p, "fork_stack", np, 0) /\ nextpid' = nextpid + 1
    BY <1>4, <2>1 DEF ForkAlloc
  <2>4. nextpid \in Nat /\ nextpid \in 2 .. MaxPid + 1
    BY MlfqAssumption DEF MInv, Types
  <2> DEFINE r == [proc[np] EXCEPT !.state = "EMBRYO", !.pid = nextpid]
  <2>5. r.state = "EMBRYO" /\ r.pid = nextpid /\ r.qlevel = proc[np].qlevel
    BY <2>2 DEF Procs
  <2>6. proc' = [proc EXCEPT ![np] = r]
    BY <2>2, <2>3, TableFacts DEF Procs
  <2> HIDE DEF r
  <2>7. proc'[np] = r /\ \A q \in Slot : q # np => proc'[q] = proc[q]
    BY <2>2, <2>6, TableFacts
  <2>8. Ruling' /\ \A n : Held(n)' <=> n = np
    <3>1. PICK to, w : to = "fork_stack" /\ stack' = Goto(p, to, np, w)
      BY <2>3
    <3>2. to # "setmonopoly" /\ \A n : Holds(to, np, w, n) <=> n = np
      BY <3>1 DEF Holds
    <3> QED
      BY <1>2, <3>1, <3>2, RuledGoto DEF MoqInv
  <2>9. Lone' /\ Ordered'
    BY <1>1, <2>5, <2>7 DEF MoqInv, Lone, Ordered
  <2>10. Apart'
    <3>1. \A n : Out(n)' <=> Out(n)
      BY <1>1 DEF Out
    <3> QED
      BY <2>2, <2>5, <2>7, <2>8, <3>1 DEF MoqInv, Apart
  <2>11. Named'
    <3>1. \A q \in Slot : proc[q].pid < nextpid /\ proc[q].pid \in Nat
      BY TableFacts, MlfqAssumption DEF MoqInv, Named, Procs
    <3>2. ASSUME NEW q \in Slot PROVE proc'[q].pid < nextpid'
      <4>1. nextpid' = nextpid + 1
        BY <2>3
      <4>2. proc'[q].pid = nextpid \/ proc'[q].pid = proc[q].pid
        BY <2>5, <2>7
      <4>3. nextpid < nextpid + 1 /\ \A n \in Nat : n < nextpid => n < nextpid + 1
        BY <2>4
      <4> QED
        BY <3>1, <4>1, <4>2, <4>3
    <3>3. \A q \in Slot : proc'[q].state = "UNUSED" => proc'[q].pid = 0
      BY <2>5, <2>7 DEF MoqInv, Named
    <3>4. ASSUME NEW q \in Slot, NEW o \in Slot, proc'[q].pid = proc'[o].pid, proc'[q].pid # 0
          PROVE  q = o
      <4>1. \A x \in Slot : proc[x].pid # nextpid
        BY <2>4, <3>1
      <4>2. CASE q = np \/ o = np
        BY <2>5, <2>7, <3>4, <4>1, <4>2
      <4>3. CASE q # np /\ o # np
        BY <2>7, <3>4, <4>3 DEF MoqInv, Named
      <4> QED
        BY <4>2, <4>3
    <3> QED
      BY <3>2, <3>3, <3>4 DEF Named
  <2>12. proc'[initproc].pid = 1
    BY <1>2, <2>2, <2>7, Names DEF MoqInv
  <2> QED
    BY <2>8, <2>9, <2>10, <2>11, <2>12 DEF MoqInv
<1> QED
  BY <1>3, <1>4

\* A queue, as a sequence.
LEMMA MoqQueue ==
    ASSUME MInv, MoqInv, NEW l \in Level \cup {MOQ}
    PROVE  /\ queue[l] \in Seq(Slot) /\ Len(queue[l]) \in Nat /\ Len(queue[l]) <= NPROC
           /\ DOMAIN queue[l] = 1 .. Len(queue[l]) /\ IsInjective(queue[l])
           /\ DOMAIN queue = Level \cup {MOQ} /\ MOQ \notin Level /\ 0 \in Level
           /\ \A n \in 1 .. Len(queue[l]) :
                 /\ queue[l][n] \in Slot /\ Contains(queue[l], queue[l][n])
                 /\ proc[queue[l][n]].qlevel = l
                 /\ proc[queue[l][n]].state # "UNUSED" /\ proc[queue[l][n]].pid # 0
<1>1. DOMAIN queue = Level \cup {MOQ} /\ queue[l] \in Seq(Slot) /\ Len(queue[l]) <= NPROC
  BY DEF MInv, Types
<1>2. Len(queue[l]) \in Nat /\ DOMAIN queue[l] = 1 .. Len(queue[l])
  BY <1>1, LenProperties
<1>3. IsInjective(queue[l])
  BY DEF MoqInv, Lone
<1>4. ASSUME NEW n \in 1 .. Len(queue[l])
      PROVE  /\ queue[l][n] \in Slot /\ Contains(queue[l], queue[l][n]) /\ proc[queue[l][n]].qlevel = l
             /\ proc[queue[l][n]].state # "UNUSED" /\ proc[queue[l][n]].pid # 0
  <2>1. queue[l][n] \in Slot /\ Contains(queue[l], queue[l][n])
    BY <1>1, <1>2, ElementOfSeq DEF Contains
  <2>2. proc[queue[l][n]].state # "UNUSED"
    BY <2>1 DEF MoqInv, Apart, Out
  <2> QED
    BY <2>1, <2>2 DEF MoqInv, Ordered, MInv, Lineage
<1> QED
  BY <1>1, <1>2, <1>3, <1>4 DEF Level, MOQ

\* One slot changes its level, and the entries of its queues are those of that level.
LEMMA MoqMoved ==
    ASSUME MInv, MoqInv, NEW q \in Slot, proc[q].state # "UNUSED", nextpid' = nextpid, Ruling',
           proc'[q].pid = proc[q].pid, proc'[q].state # "UNUSED",
           \A x \in Slot : x # q => proc'[x] = proc[x],
           \A l \in Level \cup {MOQ} :
              /\ IsInjective(queue'[l])
              /\ \A x \in Slot : x # q => (Contains(queue'[l], x) <=> Contains(queue[l], x))
              /\ Contains(queue'[l], q) => proc'[q].qlevel = l,
           \A n \in Slot : Held(n)' => IF n = q THEN Out(n)' ELSE Held(n)
    PROVE  MoqInv'
<1>1. Lone'
  BY DEF Lone
<1>2. Ordered'
  BY DEF MoqInv, Ordered
<1>3. \A x \in Slot : x # q => (Out(x)' <=> Out(x))
  BY DEF Out
<1>4. Apart'
  BY <1>3 DEF MoqInv, Apart
<1>5. Named' /\ proc'[initproc].pid = 1
  <2>1. \A x \in Slot : proc'[x].pid = proc[x].pid /\ (proc'[x].state = "UNUSED" <=> proc[x].state = "UNUSED")
    OBVIOUS
  <2> QED
    BY <2>1, Names DEF MoqInv, Named
<1> QED
  BY <1>1, <1>2, <1>4, <1>5 DEF MoqInv

\* fork() appends it to L0,
LEMMA MoqForkStack ==
    ASSUME Monopolists, MInv, MoqInv, NEW c \in CPU, NEW p \in Slot, ForkStack(c, p), fault' = fault
    PROVE  MoqInv'
<1>1. PICK np : np = Top(p).v
  OBVIOUS
<1>2. At(c, p, "fork_stack") /\ fault = "none" /\ "fork_stack" \in Parental
  BY DEF ForkStack, At, Runs, Parental
<1>3. /\ Len(queue[0]) < NPROC
      /\ proc' = [proc EXCEPT ![np].qlevel = 0, ![np].priority = 0, ![np].timeslice = Slice[0]]
      /\ queue' = [queue EXCEPT ![0] = Append(@, np)]
      /\ stack' = Goto(p, "fork_copy", np, 0) /\ nextpid' = nextpid
  BY <1>1, <1>2 DEF ForkStack, Fail, Monopolists
<1>4. np \in Slot /\ proc[np].state = "EMBRYO" /\ proc[np] \in Procs
  BY <1>1, <1>2, ForkBase, TableFacts
<1>5. p = initproc /\ Len(stack[p]) = 1 /\ stack[p] # <<>> /\ Held(np)
  <2>1. \A n : Holds("fork_stack", np, Top(p).w, n) <=> n = np
    BY DEF Holds
  <2> QED
    BY <1>1, <1>2, <2>1, Parent DEF MoqInv
<1> DEFINE r == [proc[np] EXCEPT !.qlevel = 0, !.priority = 0, !.timeslice = Slice[0]]
<1>6. r.state = "EMBRYO" /\ r.pid = proc[np].pid /\ r.qlevel = 0
  BY <1>4 DEF Procs
<1>7. proc' = [proc EXCEPT ![np] = r]
  BY <1>3, <1>4, TableFacts DEF Procs
<1> HIDE DEF r
<1>8. proc'[np] = r /\ \A q \in Slot : q # np => proc'[q] = proc[q]
  BY <1>4, <1>7, TableFacts
<1>9. Ruling' /\ \A n : ~Held(n)'
  <2>1. PICK to, w : to = "fork_copy" /\ stack' = Goto(p, to, np, w)
    BY <1>3
  <2>2. to # "setmonopoly" /\ \A n : ~Holds(to, np, w, n)
    BY <2>1 DEF Holds
  <2> QED
    BY <1>5, <2>1, <2>2, RuledGoto DEF MoqInv
<1>10. 0 \in Level
  BY DEF Level
<1>11. \A l \in Level \cup {MOQ} : ~Contains(queue[l], np) /\ IsInjective(queue[l])
  BY <1>4, <1>5 DEF MoqInv, Apart, Out, Lone
<1>12. queue[0] \in Seq(Slot) /\ DOMAIN queue = Level \cup {MOQ}
  BY <1>10, MoqQueue
<1>13. /\ IsInjective(Append(queue[0], np))
       /\ \A x : Contains(Append(queue[0], np), x) <=> Contains(queue[0], x) \/ x = np
  BY <1>4, <1>10, <1>11, <1>12, AppendedEntry
<1>14. queue'[0] = Append(queue[0], np) /\ \A l \in Level \cup {MOQ} : l # 0 => queue'[l] = queue[l]
  BY <1>3, <1>10, <1>12
<1>15. ASSUME NEW l \in Level \cup {MOQ}
       PROVE  /\ IsInjective(queue'[l])
              /\ \A x \in Slot : x # np => (Contains(queue'[l], x) <=> Contains(queue[l], x))
              /\ Contains(queue'[l], np) => proc'[np].qlevel = l
  BY <1>6, <1>8, <1>11, <1>13, <1>14
<1> QED
  BY <1>3, <1>4, <1>6, <1>8, <1>9, <1>15, MoqMoved

\* and makes it ready.
LEMMA MoqForkCopy ==
    ASSUME Monopolists, MInv, MoqInv, NEW c \in CPU, NEW p \in Slot, ForkCopy(c, p)
    PROVE  MoqInv'
<1>1. PICK np : np = Top(p).v
  OBVIOUS
<1>2. PICK u : u = <<Frame("forkret", 0, 0, FALSE)>>
  OBVIOUS
<1>3. /\ At(c, p, "fork_copy") /\ UNCHANGED <<queue, nextpid>> /\ "fork_copy" \in Parental
      /\ proc' = [proc EXCEPT ![np].parent = p, ![np].state = "RUNNABLE"]
      /\ stack' = [Finish(p) EXCEPT ![np] = u]
  BY <1>1, <1>2 DEF ForkCopy, Monopolists, Parental
<1>4. np \in Slot /\ np # p /\ proc[np].state = "EMBRYO" /\ stack \in [Slot -> Stacks]
  BY <1>1, <1>3, ForkBase DEF MInv
<1>5. p = initproc /\ Len(stack[p]) = 1 /\ stack[p] # <<>>
  BY <1>3, Parent DEF MoqInv
<1>6. u[1].at = "forkret" /\ u # <<>>
  BY <1>2 DEF Frame
<1>7. PICK t \in Stacks : /\ Finish(p) = [stack EXCEPT ![p] = t]
                          /\ t # <<>> /\ Len(t) = Len(stack[p]) /\ (Len(t) = 1 => t[1].at = "ret")
  BY <1>3, FinishFacts
<1>8. stack'[p] = t /\ stack'[np] = u /\ \A q \in Slot : q # p /\ q # np => stack'[q] = stack[q]
  BY <1>3, <1>4, <1>7
<1>9. Ruling'
  <2>1. Ruled(np, u[1]) /\ Ruled(p, t[1])
    BY <1>5, <1>6, <1>7 DEF Ruled, Parental
  <2> QED
    BY <1>4, <1>8, <2>1 DEF MoqInv, Ruling
<1>10. \A n : ~Held(n)'
  BY <1>5, <1>7, <1>8 DEF Held, Holds
<1>11. Kept
  <2>1. "RUNNABLE" = "UNUSED" <=> proc[np].state = "UNUSED"
    BY <1>4
  <2> QED
    BY <1>3, <1>4, <2>1, KeptChange
<1> QED
  BY <1>3, <1>9, <1>10, <1>11, MoqCalm

\* wait() of init frees a zombie: the entry that it takes out is the zombie's, the
\* only one of an UNUSED slot.
LEMMA MoqWait ==
    ASSUME MInv, MoqInv, NEW c \in CPU, NEW p \in Slot, Wait(c, p)
    PROVE  MoqInv'
<1>1. At(c, p, "wait") /\ nextpid' = nextpid /\ "wait" \in Parental
  BY DEF Wait, Parental
<1>2. p = initproc /\ Len(stack[p]) = 1 /\ stack[p] # <<>> /\ proc[p].state = "RUNNING"
  BY <1>1, Parent DEF MoqInv
<1>3. CASE stack' = Finish(p) /\ UNCHANGED <<proc, queue>>
  BY <1>1, <1>2, <1>3, SameTable, RuledFinish, MoqCalm DEF MoqInv
<1>4. CASE /\ proc' = [proc EXCEPT ![p].chan = p, ![p].state = "SLEEPING"]
           /\ stack' = Goto(p, "wait_wake", 0, 0) /\ UNCHANGED queue
  <2>1. Kept
    <3>1. "SLEEPING" = "UNUSED" <=> proc[p].state = "UNUSED"
      BY <1>2
    <3> QED
      BY <1>4, <3>1, KeptChange
  <2>2. PICK to, v, w : to = "wait_wake" /\ stack' = Goto(p, to, v, w)
    BY <1>4
  <2>3. to # "setmonopoly" /\ \A n : ~Holds(to, v, w, n)
    BY <2>2 DEF Holds
  <2>4. Ruling' /\ \A n : Held(n)' => Held(n)
    BY <1>2, <2>2, <2>3, RuledGoto DEF MoqInv
  <2> QED
    BY <1>1, <1>4, <2>1, <2>4, MoqCalm
<1>5. CASE Zombies(p) # {}
  <2>1. PICK z : z = First(Zombies(p))
    OBVIOUS
  <2>2. z \in Slot /\ proc[z].state = "ZOMBIE" /\ proc[z] \in Procs
    <3>1. Zombies(p) \in SUBSET Nat
      BY Names DEF Zombies, Children
    <3>2. z \in Zombies(p)
      BY <1>5, <2>1, <3>1, FirstIn
    <3> QED
      BY <3>2, TableFacts DEF Zombies, Children
  <2>3. PICK l \in Level \cup {MOQ} : l = proc[z].qlevel
    BY <2>2 DEF Procs
  <2>4. PICK k : k = FALSE
    OBVIOUS
  <2> DEFINE r == [proc[z] EXCEPT !.pid = 0, !.parent = NONE, !.killed = k, !.state = "UNUSED"]
             freed == [proc EXCEPT ![z] = r]
  <2>5. /\ proc' = freed
        /\ queue' = [queue EXCEPT ![l] = Reaped(freed, @)]
        /\ stack' = Finish(p)
    <3>1. [proc EXCEPT ![z].pid = 0, ![z].parent = NONE, ![z].killed = FALSE, ![z].state = "UNUSED"] = freed
      BY <2>2, <2>4, TableFacts
    <3> QED
      BY <1>5, <2>1, <2>3, <3>1 DEF Wait
  <2>6. r.state = "UNUSED" /\ r.pid = 0
    BY <2>2 DEF Procs
  <2> HIDE DEF r
  <2>7. freed[z] = r /\ \A q \in Slot : q # z => freed[q] = proc[q]
    BY <2>2, TableFacts
  <2> HIDE DEF freed
  <2>8. PICK s \in Seq(Slot) : s = queue[l]
    BY MoqQueue
  <2>9. /\ DOMAIN s = 1 .. Len(s) /\ IsInjective(s) /\ DOMAIN queue = Level \cup {MOQ}
        /\ \A n \in 1 .. Len(s) : s[n] \in Slot /\ proc[s[n]].state # "UNUSED"
    BY <2>8, MoqQueue
  <2> DEFINE unused == {i \in DOMAIN s : freed[s[i]].state = "UNUSED"}
  <2>10. Reaped(freed, s) = IF unused = {} THEN s ELSE RemoveAt(s, First(unused))
    BY DEF Reaped
  <2>11. \A i \in DOMAIN s : i \in unused <=> s[i] = z
    BY <2>6, <2>7, <2>9
  <2>12. IsInjective(Reaped(freed, s)) /\ \A x : Contains(Reaped(freed, s), x) <=> Contains(s, x) /\ x # z
    <3>1. CASE unused = {}
      <4>1. ~Contains(s, z)
        BY <2>9, <2>11, <3>1 DEF Contains
      <4> QED
        BY <2>9, <2>10, <3>1, <4>1
    <3>2. CASE unused # {}
      <4>1. unused \in SUBSET Nat
        BY <2>9
      <4> HIDE DEF unused
      <4>2. PICK n : n = First(unused) /\ n \in unused
        BY <3>2, <4>1, FirstIn
      <4>3. n \in DOMAIN s
        BY <4>2 DEF unused
      <4>4. n \in 1 .. Len(s) /\ s[n] = z
        BY <2>9, <2>11, <4>2, <4>3
      <4> QED
        BY <2>9, <2>10, <3>2, <4>2, <4>4, RemovedEntry
    <3> QED
      BY <3>1, <3>2
  <2>13. queue'[l] = Reaped(freed, s) /\ \A i \in Level \cup {MOQ} : i # l => queue'[i] = queue[i]
    BY <2>5, <2>8, <2>9
  <2>14. \A i \in Level \cup {MOQ} :
            /\ IsInjective(queue'[i])
            /\ \A x \in Slot : Contains(queue'[i], x) <=> Contains(queue[i], x) /\ x # z
    <3> TAKE i \in Level \cup {MOQ}
    <3>1. CASE i = l
      BY <2>8, <2>12, <2>13, <3>1
    <3>2. CASE i # l
      BY <2>2, <2>3, <2>13, <3>2 DEF MoqInv, Lone, Ordered
    <3> QED
      BY <3>1, <3>2
  <2>15. Ruling' /\ \A n : ~Held(n)'
    BY <1>2, <2>5, RuledFinish DEF MoqInv
  <2>16. proc'[z] = r /\ \A q \in Slot : q # z => proc'[q] = proc[q]
    BY <2>5, <2>7
  <2>17. Lone' /\ Ordered'
    BY <2>14, <2>16 DEF MoqInv, Lone, Ordered
  <2>18. Apart'
    <3>1. Out(z)' /\ \A x \in Slot : Out(x) => Out(x)'
      BY <2>2, <2>14 DEF Out
    <3> QED
      BY <2>15, <2>16, <3>1 DEF MoqInv, Apart
  <2>19. Named'
    <3>1. \A q \in Slot : proc'[q].pid # 0 => q # z /\ proc'[q].pid = proc[q].pid
      BY <2>6, <2>16
    <3>2. \A q \in Slot : proc'[q].state = "UNUSED" => proc'[q].pid = 0
      BY <2>6, <2>16 DEF MoqInv, Named
    <3>3. \A q \in Slot : proc'[q].pid < nextpid'
      <4>1. 0 < nextpid
        BY MlfqAssumption DEF MInv, Types
      <4> QED
        BY <1>1, <2>6, <2>16, <4>1 DEF MoqInv, Named
    <3> QED
      BY <3>1, <3>2, <3>3 DEF MoqInv, Named
  <2>20. proc'[initproc].pid = 1
    <3>1. z # initproc
      BY <2>2 DEF MInv, Lineage
    <3> QED
      BY <2>16, <3>1, Names DEF MoqInv
  <2> QED
    BY <2>15, <2>17, <2>18, <2>19, <2>20 DEF MoqInv
<1> QED
  BY <1>3, <1>4, <1>5 DEF Wait

\* What removePCB() takes out of the array: the entry of the process it is called for.
LEMMA MoqRemoved ==
    ASSUME MInv, MoqInv, NEW l \in Level, NEW q \in Slot, ~Overruns(l, q)
    PROVE  /\ DOMAIN removePCB(l, q) = Level \cup {MOQ}
           /\ \A i \in Level \cup {MOQ} : i # l => removePCB(l, q)[i] = queue[i]
           /\ removePCB(l, q)[l] \in Seq(Slot) /\ IsInjective(removePCB(l, q)[l])
           /\ \A x : Contains(removePCB(l, q)[l], x) <=> Contains(queue[l], x) /\ x # q
           /\ Contains(queue[l], q) /\ proc[q].state # "UNUSED"
<1>1. /\ queue[l] \in Seq(Slot) /\ DOMAIN queue[l] = 1 .. Len(queue[l]) /\ IsInjective(queue[l])
      /\ DOMAIN queue = Level \cup {MOQ}
      /\ \A n \in 1 .. Len(queue[l]) : /\ queue[l][n] \in Slot /\ Contains(queue[l], queue[l][n])
                                       /\ proc[queue[l][n]].pid # 0
                                       /\ proc[queue[l][n]].state # "UNUSED"
  BY MoqQueue
<1>2. PICK k : k = First(Positions(l, q))
  OBVIOUS
<1>3. k \in 1 .. Len(queue[l]) /\ queue[l][k] = q
  <2>1. Positions(l, q) \in SUBSET Nat /\ Positions(l, q) # {}
    BY <1>1 DEF Positions, Overruns
  <2>2. k \in Positions(l, q)
    BY <1>2, <2>1, FirstIn
  <2>3. k \in 1 .. Len(queue[l]) /\ proc[queue[l][k]].pid = proc[q].pid
    BY <1>1, <2>2 DEF Positions
  <2> QED
    BY <1>1, <2>3 DEF MoqInv, Named
<1>4. removePCB(l, q) = [queue EXCEPT ![l] = RemoveAt(queue[l], k)]
  BY <1>2 DEF removePCB
<1>5. /\ RemoveAt(queue[l], k) \in Seq(Slot) /\ IsInjective(RemoveAt(queue[l], k))
      /\ \A x : Contains(RemoveAt(queue[l], k), x) <=> Contains(queue[l], x) /\ x # q
  BY <1>1, <1>3, Removed, RemovedEntry
<1> QED
  BY <1>1, <1>3, <1>4, <1>5

\* yield() moves a process that is in no MoQ to the queue of its new level.
LEMMA MoqRequeue ==
    ASSUME MInv, MoqInv, Quantum, NEW c \in CPU, NEW p \in Slot, YieldRequeue(c, p), fault' = fault
    PROVE  MoqInv'
<1>1. At(c, p, "requeue") /\ fault = "none"
  BY DEF YieldRequeue, At, Runs
<1>2. stack[p] # <<>> /\ Top(p).at = "requeue" /\ proc[p].state = "RUNNING" /\ proc[p] \in Procs
  BY <1>1, AtFacts, TableFacts
<1>3. PICK from : from = proc[p].qlevel
  OBVIOUS
<1>4. PICK to : to = NextLevel(from, proc[p].pid)
  OBVIOUS
<1>5. PICK prio : prio = Lowered(from, proc[p].priority)
  OBVIOUS
<1>6. from \in Level /\ to \in Level /\ from # MOQ
  <2>1. from # MOQ
    BY <1>2, <1>3 DEF Quantum, Masked, Top
  <2>2. from \in Level \cup {MOQ}
    BY <1>2, <1>3 DEF Procs
  <2> QED
    BY <1>4, <2>1, <2>2 DEF Level, NextLevel
<1>7. ~Overruns(from, p)
  BY <1>1, <1>3, <1>6 DEF YieldRequeue, Fail
<1>8. PICK removed : removed = removePCB(from, p)
  OBVIOUS
<1>9. /\ DOMAIN removed = Level \cup {MOQ}
      /\ \A i \in Level \cup {MOQ} : i # from => removed[i] = queue[i]
      /\ removed[from] \in Seq(Slot) /\ IsInjective(removed[from])
      /\ \A x : Contains(removed[from], x) <=> Contains(queue[from], x) /\ x # p
  BY <1>6, <1>7, <1>8, MoqRemoved
<1>10. ASSUME NEW i \in Level \cup {MOQ}
       PROVE  /\ removed[i] \in Seq(Slot) /\ IsInjective(removed[i])
              /\ \A x : Contains(removed[i], x) <=> Contains(queue[i], x) /\ x # p
  <2>1. CASE i = from
    BY <1>9, <2>1
  <2>2. CASE i # from
    <3>1. removed[i] = queue[i] /\ queue[i] \in Seq(Slot) /\ IsInjective(queue[i])
      BY <1>9, <2>2, MoqQueue
    <3>2. ~Contains(queue[i], p)
      BY <1>3, <2>2 DEF MoqInv, Ordered
    <3> QED
      BY <3>1, <3>2
  <2> QED
    BY <2>1, <2>2
<1>11. \E place \in 1 .. Len(removed[to]) + 1 :
          /\ proc' = [proc EXCEPT ![p].qlevel = to, ![p].timeslice = Slice[to],
                                  ![p].priority = prio, ![p].state = "RUNNABLE"]
          /\ queue' = [removed EXCEPT ![to] = InsertAt(@, place, p)]
          /\ stack' = Goto(p, "yielded", 0, 0) /\ nextpid' = nextpid
  <2>1. removed[to] \in Seq(Slot)
    BY <1>6, <1>10
  <2> DEFINE place(table) == IF to = 3 THEN L3Place(table, removed[to], prio) ELSE Len(removed[to]) + 1
  <2>2. \A table : place(table) \in 1 .. Len(removed[to]) + 1
    <3>1. Len(removed[to]) \in Nat
      BY <2>1, LenProperties
    <3> QED
      BY <2>1, <3>1, PlaceIn
  <2>3. \E table :
          /\ proc' = [proc EXCEPT ![p].qlevel = to, ![p].timeslice = Slice[to],
                                  ![p].priority = prio, ![p].state = "RUNNABLE"]
          /\ queue' = [removed EXCEPT ![to] = InsertAt(@, place(table), p)]
          /\ stack' = Goto(p, "yielded", 0, 0) /\ nextpid' = nextpid
    BY <1>1, <1>3, <1>4, <1>5, <1>6, <1>8 DEF YieldRequeue, Fail
  <2> HIDE DEF place
  <2> QED
    BY <2>2, <2>3
<1>12. PICK place \in 1 .. Len(removed[to]) + 1 :
          /\ proc' = [proc EXCEPT ![p].qlevel = to, ![p].timeslice = Slice[to],
                                  ![p].priority = prio, ![p].state = "RUNNABLE"]
          /\ queue' = [removed EXCEPT ![to] = InsertAt(@, place, p)]
          /\ stack' = Goto(p, "yielded", 0, 0) /\ nextpid' = nextpid
  BY <1>11
<1> DEFINE r == [proc[p] EXCEPT !.qlevel = to, !.timeslice = Slice[to], !.priority = prio, !.state = "RUNNABLE"]
<1>13. r.state = "RUNNABLE" /\ r.qlevel = to /\ r.pid = proc[p].pid
  BY <1>2 DEF Procs
<1>14. proc' = [proc EXCEPT ![p] = r]
  BY <1>12, TableFacts
<1> HIDE DEF r
<1>15. proc'[p] = r /\ \A q \in Slot : q # p => proc'[q] = proc[q]
  BY <1>14, TableFacts
<1>16. /\ queue'[to] = InsertAt(removed[to], place, p)
       /\ \A i \in Level \cup {MOQ} : i # to => queue'[i] = removed[i]
  BY <1>6, <1>9, <1>12
<1>17. IsInjective(queue'[to]) /\ \A x : Contains(queue'[to], x) <=> Contains(removed[to], x) \/ x = p
  <2>1. removed[to] \in Seq(Slot) /\ IsInjective(removed[to]) /\ ~Contains(removed[to], p)
    BY <1>6, <1>10
  <2>2. /\ IsInjective(InsertAt(removed[to], place, p))
        /\ \A x : Contains(InsertAt(removed[to], place, p), x) <=> Contains(removed[to], x) \/ x = p
    BY <2>1, InsertedEntry
  <2> QED
    BY <1>16, <2>2
<1>18. ASSUME NEW i \in Level \cup {MOQ}
       PROVE  /\ IsInjective(queue'[i])
              /\ \A x \in Slot : x # p => (Contains(queue'[i], x) <=> Contains(queue[i], x))
              /\ Contains(queue'[i], p) => proc'[p].qlevel = i
  <2>1. CASE i = to
    BY <1>10, <1>13, <1>15, <1>17, <2>1
  <2>2. CASE i # to
    BY <1>10, <1>16, <2>2
  <2> QED
    BY <2>1, <2>2
<1>19. Ruling' /\ \A n : Held(n)' => Held(n)
  <2>1. PICK at, v, w : at = "yielded" /\ stack' = Goto(p, at, v, w)
    BY <1>12
  <2>2. at \notin Parental /\ at # "setmonopoly" /\ \A n : ~Holds(at, v, w, n)
    BY <2>1 DEF Parental, Holds
  <2> QED
    BY <1>2, <2>1, <2>2, RuledGoto DEF MoqInv
<1>20. ~Held(p)'
  <2>1. Contains(queue[from], p)
    BY <1>6, <1>7, MoqRemoved
  <2>2. ~Held(p)
    BY <1>6, <2>1 DEF MoqInv, Apart, Out
  <2> QED
    BY <1>19, <2>2
<1> QED
  BY <1>2, <1>12, <1>13, <1>15, <1>18, <1>19, <1>20, MoqMoved

\* The four levels, one behind the other.
LEMMA MoqLevels ==
    ASSUME MInv, MoqInv, NEW moved, moved = queue[1] \o queue[2] \o queue[3],
           NEW all, all = queue[0] \o moved
    PROVE  /\ IsInjective(all)
           /\ \A x : x \in ToSet(moved) <=> \E l \in {1, 2, 3} : Contains(queue[l], x)
           /\ \A x : Contains(all, x) <=> \E l \in Level : Contains(queue[l], x)
<1>1. {0, 1, 2, 3} = Level
  BY DEF Level
<1>2. PICK a0, a1, a2, a3 : a0 = queue[0] /\ a1 = queue[1] /\ a2 = queue[2] /\ a3 = queue[3]
  OBVIOUS
<1>3. \A l \in Level : /\ queue[l] \in Seq(Slot) /\ IsInjective(queue[l])
                       /\ \A x : Contains(queue[l], x) => x \in Slot /\ proc[x].qlevel = l
  BY MoqQueue DEF Contains
<1>4. /\ a0 \in Seq(Slot) /\ a1 \in Seq(Slot) /\ a2 \in Seq(Slot) /\ a3 \in Seq(Slot)
      /\ IsInjective(a0) /\ IsInjective(a1) /\ IsInjective(a2) /\ IsInjective(a3)
      /\ \A x : /\ Contains(a0, x) => proc[x].qlevel = 0
                /\ Contains(a1, x) => proc[x].qlevel = 1
                /\ Contains(a2, x) => proc[x].qlevel = 2
                /\ Contains(a3, x) => proc[x].qlevel = 3
  BY <1>1, <1>2, <1>3
<1>5. PICK a12 : a12 = a1 \o a2
  OBVIOUS
<1>6. a12 \in Seq(Slot) /\ IsInjective(a12) /\ \A x : Contains(a12, x) <=> Contains(a1, x) \/ Contains(a2, x)
  <2>1. \A x : ~(Contains(a1, x) /\ Contains(a2, x))
    BY <1>4
  <2> QED
    BY <1>4, <1>5, <2>1, JoinedEntries
<1>7. PICK b : b = a12 \o a3
  OBVIOUS
<1>8. b \in Seq(Slot) /\ IsInjective(b) /\ \A x : Contains(b, x) <=> Contains(a12, x) \/ Contains(a3, x)
  <2>1. \A x : ~(Contains(a12, x) /\ Contains(a3, x))
    <3> TAKE x
    <3>1. Contains(a12, x) => Contains(a1, x) \/ Contains(a2, x)
      BY <1>6
    <3>2. Contains(a12, x) => proc[x].qlevel \in {1, 2}
      BY <1>4, <3>1
    <3>3. Contains(a3, x) => proc[x].qlevel = 3
      BY <1>4
    <3> QED
      BY <3>2, <3>3
  <2> QED
    BY <1>4, <1>6, <1>7, <2>1, JoinedEntries
<1>9. moved = b /\ all = a0 \o b
  BY <1>2, <1>5, <1>7
<1>10. IsInjective(a0 \o b) /\ \A x : Contains(a0 \o b, x) <=> Contains(a0, x) \/ Contains(b, x)
  <2>1. \A x : ~(Contains(a0, x) /\ Contains(b, x))
    <3> TAKE x
    <3>1. Contains(b, x) => Contains(a1, x) \/ Contains(a2, x) \/ Contains(a3, x)
      BY <1>6, <1>8
    <3>2. Contains(b, x) => proc[x].qlevel \in {1, 2, 3}
      BY <1>4, <3>1
    <3>3. Contains(a0, x) => proc[x].qlevel = 0
      BY <1>4
    <3> QED
      BY <3>2, <3>3
  <2> QED
    BY <1>4, <1>8, <2>1, JoinedEntries
<1>11. \A x : x \in ToSet(b) <=> Contains(b, x)
  <2>1. DOMAIN b = 1 .. Len(b)
    BY <1>8, LenProperties
  <2> QED
    BY <2>1 DEF ToSet, Contains
<1>12. \A x : Contains(b, x) <=> \E l \in {1, 2, 3} : Contains(queue[l], x)
  BY <1>2, <1>6, <1>8
<1>13. \A x : Contains(a0 \o b, x) <=> \E l \in Level : Contains(queue[l], x)
  <2> TAKE x
  <2>1. (\E l \in Level : Contains(queue[l], x)) <=> Contains(queue[0], x) \/ \E l \in {1, 2, 3} : Contains(queue[l], x)
    BY <1>1
  <2> QED
    BY <1>2, <1>10, <1>12, <2>1
<1> QED
  BY <1>9, <1>10, <1>11, <1>12, <1>13, Zenon

\* boost() leaves MoQ as it is.
LEMMA MoqBoost ==
    ASSUME MInv, MoqInv, NEW c \in CPU, boost(c), fault' = fault
    PROVE  MoqInv'
<1>1. irq[c] = "boost" /\ fault = "none"
  BY DEF boost
<1>2. PICK moved : moved = queue[1] \o queue[2] \o queue[3]
  OBVIOUS
<1>3. PICK all : all = queue[0] \o moved
  OBVIOUS
<1>4. /\ queue' = [l \in DOMAIN queue |-> IF l = 0 THEN all ELSE IF l = MOQ THEN queue[l] ELSE <<>>]
      /\ proc' = [p \in Slot |-> IF p \in ToSet(moved) THEN Boosted(p) ELSE proc[p]]
      /\ EnterYield(c) /\ nextpid' = nextpid
  BY <1>1, <1>2, <1>3 DEF boost, Fail
<1>5. /\ IsInjective(all)
      /\ \A x : x \in ToSet(moved) <=> \E l \in {1, 2, 3} : Contains(queue[l], x)
      /\ \A x : Contains(all, x) <=> \E l \in Level : Contains(queue[l], x)
  BY <1>2, <1>3, MoqLevels
<1>6. DOMAIN queue = Level \cup {MOQ} /\ MOQ \notin Level /\ 0 \in Level
  BY MoqQueue
<1>7. queue'[0] = all /\ queue'[MOQ] = queue[MOQ] /\ \A l \in Level : l # 0 => queue'[l] = <<>>
  BY <1>4, <1>6
<1>8. \A q \in Slot : /\ proc'[q].state = proc[q].state /\ proc'[q].pid = proc[q].pid
                      /\ proc'[q].qlevel = IF q \in ToSet(moved) THEN 0 ELSE proc[q].qlevel
  <2> TAKE q \in Slot
  <2>1. proc[q] \in Procs
    BY TableFacts
  <2>2. Boosted(q).state = proc[q].state /\ Boosted(q).pid = proc[q].pid /\ Boosted(q).qlevel = 0
    BY <2>1 DEF Boosted, Procs
  <2> QED
    BY <1>4, <2>2
<1>9. Ruling' /\ \A n : Held(n)' => Held(n)
  <2>1. cpu[c] # NONE /\ stack[cpu[c]] # <<>> => ~Top(cpu[c]).irq
    <3>1. irq[c] # "none"
      BY <1>1
    <3> QED
      BY <3>1, Zenon DEF MInv, Interrupted
  <2> QED
    BY <1>4, <2>1, RuledPush DEF MoqInv
<1>10. IsInjective(<<>>) /\ \A x : ~Contains(<<>>, x)
  BY DEF IsInjective, Contains
<1>11. Lone'
  BY <1>5, <1>7, <1>10 DEF MoqInv, Lone
<1>12. Ordered'
  <2>1. ASSUME NEW q \in Slot, Contains(queue'[0], q) PROVE proc'[q].qlevel = 0
    <3>1. PICK l \in Level : Contains(queue[l], q)
      BY <1>5, <1>7, <2>1
    <3>2. proc[q].qlevel = l
      BY <3>1 DEF MoqInv, Ordered
    <3>3. l # 0 => l \in {1, 2, 3}
      BY DEF Level
    <3> QED
      BY <1>5, <1>8, <3>1, <3>2, <3>3
  <2>2. ASSUME NEW q \in Slot, Contains(queue'[MOQ], q) PROVE proc'[q].qlevel = MOQ
    <3>1. proc[q].qlevel = MOQ
      BY <1>7, <2>2 DEF MoqInv, Ordered
    <3>2. {1, 2, 3} \subseteq Level
      BY DEF Level
    <3>3. q \notin ToSet(moved)
      BY <1>5, <1>6, <3>1, <3>2 DEF MoqInv, Ordered
    <3> QED
      BY <1>8, <3>1, <3>3
  <2> QED
    BY <1>7, <1>10, <2>1, <2>2 DEF Ordered
<1>13. Apart'
  <2>1. ASSUME NEW q \in Slot, Out(q) PROVE Out(q)'
    BY <1>5, <1>7, <1>10, <2>1 DEF Out
  <2> QED
    BY <1>8, <1>9, <2>1 DEF MoqInv, Apart
<1>14. Named' /\ proc'[initproc].pid = 1
  BY <1>4, <1>8, Names DEF MoqInv, Named
<1> QED
  BY <1>9, <1>11, <1>12, <1>13, <1>14 DEF MoqInv

\* setmonopoly() of init finds a process; one that has the level of MoQ, and is not in
\* MoQ, is in no queue.
LEMMA MoqFind ==
    ASSUME MInv, MoqInv, NEW c \in CPU, NEW p \in Slot, SetmonopolyFind(c, p)
    PROVE  MoqInv'
<1>1. At(c, p, "setmonopoly") /\ UNCHANGED <<proc, queue, nextpid>> /\ "setmonopoly" \in Parental
  BY DEF SetmonopolyFind, Parental
<1>2. p = initproc /\ Len(stack[p]) = 1 /\ stack[p] # <<>> /\ Top(p).v # 0
  <2>1. stack[p] # <<>> /\ Top(p).at = "setmonopoly" /\ stack[p][1] = Top(p) /\ p = initproc /\ Len(stack[p]) = 1
    BY <1>1, Parent DEF MoqInv
  <2> QED
    BY <2>1 DEF MoqInv, Ruling, Ruled
<1>3. CASE stack' = Finish(p)
  BY <1>1, <1>2, <1>3, SameTable, RuledFinish, MoqCalm DEF MoqInv
<1>4. CASE stack' # Finish(p)
  <2>1. PICK n : n = Top(p).v
    OBVIOUS
  <2>2. PICK found : found = WithPid(n)
    OBVIOUS
  <2>3. PICK q : q = First(found)
    OBVIOUS
  <2>4. /\ found # {}
        /\ \A k \in DOMAIN queue[MOQ] : proc[queue[MOQ][k]].pid # n
        /\ stack' = Goto(p, "setmonopoly_remove", q, proc[q].qlevel)
    BY <1>4, <2>1, <2>2, <2>3 DEF SetmonopolyFind
  <2>5. q \in Slot /\ proc[q].pid = n
    <3>1. found \in SUBSET Nat
      BY <2>2, Names DEF WithPid
    <3>2. q \in found
      BY <2>3, <2>4, <3>1, FirstIn
    <3> QED
      BY <2>2, <3>2 DEF WithPid
  <2>6. proc[q].state # "UNUSED"
    BY <1>2, <2>1, <2>5 DEF MoqInv, Named
  <2>7. PICK to, w : to = "setmonopoly_remove" /\ w = proc[q].qlevel /\ stack' = Goto(p, to, q, w)
    BY <2>4
  <2>8. Ruling' /\ \A x : Held(x)' => x = q /\ proc[q].qlevel = MOQ
    <3>1. to # "setmonopoly" /\ \A x : Holds(to, q, w, x) => x = q /\ proc[q].qlevel = MOQ
      BY <2>7 DEF Holds
    <3> QED
      BY <1>2, <2>7, <3>1, RuledGoto DEF MoqInv
  <2>9. proc[q].qlevel = MOQ => Out(q)
    <3>1. ~Contains(queue[MOQ], q)
      <4>1. DOMAIN queue[MOQ] = 1 .. Len(queue[MOQ])
        BY MoqQueue
      <4> QED
        BY <2>4, <2>5, <4>1 DEF Contains
    <3> QED
      BY <2>5, <3>1 DEF MoqInv, Ordered, Out
  <2>10. \A x : Held(x)' => IF x = q THEN Out(x)' ELSE Held(x)
    BY <1>1, <2>8, <2>9 DEF Out
  <2>11. \A l \in Level \cup {MOQ} :
            /\ IsInjective(queue'[l])
            /\ \A x \in Slot : x # q => (Contains(queue'[l], x) <=> Contains(queue[l], x))
            /\ Contains(queue'[l], q) => proc'[q].qlevel = l
    BY <1>1, <2>5 DEF MoqInv, Lone, Ordered
  <2> QED
    BY <1>1, <2>5, <2>6, <2>8, <2>10, <2>11, MoqMoved
<1> QED
  BY <1>3, <1>4

\* It is taken out of its level,
LEMMA MoqRemove ==
    ASSUME MInv, MoqInv, NEW c \in CPU, NEW p \in Slot, SetmonopolyRemove(c, p)
    PROVE  MoqInv'
<1>1. PICK q, l : q = Top(p).v /\ l = Top(p).w
  OBVIOUS
<1>2. At(c, p, "setmonopoly_remove") /\ "setmonopoly_remove" \in Parental
  BY DEF SetmonopolyRemove, Parental
<1>3. p = initproc /\ Len(stack[p]) = 1 /\ stack[p] # <<>> /\ q \in Slot /\ l \in Level \cup {MOQ}
      /\ \A n : Held(n) <=> Holds("setmonopoly_remove", q, l, n)
  <2>1. Top(p) \in Frames /\ Top(p).at = "setmonopoly_remove"
    BY <1>2, AtFacts
  <2> QED
    BY <1>1, <1>2, <2>1, Parent DEF MoqInv, Frames
<1>4. CASE Fail("overrun")
  BY <1>4, MoqFail DEF Fail
<1>5. CASE /\ l # MOQ => ~Overruns(l, q)
           /\ queue' = IF l = MOQ THEN queue ELSE removePCB(l, q)
           /\ stack' = Goto(p, "setmonopoly_mark", q, 0) /\ UNCHANGED <<proc, nextpid>>
  <2>1. Ruling' /\ \A n : Held(n)' <=> n = q
    <3>1. PICK to, w : to = "setmonopoly_mark" /\ stack' = Goto(p, to, q, w)
      BY <1>5
    <3>2. to # "setmonopoly" /\ \A n : Holds(to, q, w, n) <=> n = q
      BY <3>1 DEF Holds
    <3> QED
      BY <1>3, <3>1, <3>2, RuledGoto DEF MoqInv
  <2>2. CASE l = MOQ
    <3>1. \A n : Held(n) <=> n = q
      BY <1>3, <2>2 DEF Holds
    <3> QED
      BY <1>5, <2>1, <2>2, <3>1, SameTable, MoqCalm
  <2>3. CASE l # MOQ
    <3>1. l \in Level /\ ~Overruns(l, q) /\ queue' = removePCB(l, q)
      BY <1>3, <1>5, <2>3
    <3>2. /\ \A i \in Level \cup {MOQ} : i # l => queue'[i] = queue[i]
          /\ IsInjective(queue'[l])
          /\ \A x : Contains(queue'[l], x) <=> Contains(queue[l], x) /\ x # q
          /\ Contains(queue[l], q) /\ proc[q].state # "UNUSED"
      BY <1>3, <3>1, MoqRemoved
    <3>3. proc[q].qlevel = l
      BY <1>3, <3>2 DEF MoqInv, Ordered
    <3>4. ASSUME NEW i \in Level \cup {MOQ}
          PROVE  /\ IsInjective(queue'[i])
                 /\ \A x \in Slot : x # q => (Contains(queue'[i], x) <=> Contains(queue[i], x))
                 /\ ~Contains(queue'[i], q)
      BY <1>3, <3>2, <3>3 DEF MoqInv, Lone, Ordered
    <3>5. Out(q)'
      BY <3>4 DEF Out
    <3> QED
      BY <1>3, <1>5, <2>1, <3>2, <3>4, <3>5, MoqMoved
  <2> QED
    BY <2>2, <2>3
<1> QED
  BY <1>1, <1>4, <1>5 DEF SetmonopolyRemove

\* Between its last two steps setmonopoly() has given q the level of MoQ, and nobody takes
\* it away without overtaking it.
Marked ==
    LET f == stack[initproc][1]
    IN  ~overtaken /\ stack[initproc] # <<>> /\ f.at = "setmonopoly_append" => proc[f.v].qlevel = MOQ

\* init does not come to the last step of setmonopoly().
Elsewhere ==
    stack'[initproc] # <<>> /\ stack'[initproc][1].at = "setmonopoly_append" =>
        stack[initproc] # <<>> /\ stack'[initproc][1] = stack[initproc][1]

\* The stack of p becomes t.
LEMMA ElsewhereStep ==
    ASSUME MInv, NEW p \in Slot, NEW t, stack' = [stack EXCEPT ![p] = t],
           t # <<>> => \/ stack[p] # <<>> /\ t[1] = stack[p][1]
                       \/ t[1].at # "setmonopoly_append"
    PROVE  Elsewhere
<1>1. stack'[p] = t /\ \A q \in Slot : q # p => stack'[q] = stack[q]
  BY DEF MInv
<1> QED
  BY <1>1, Names DEF Elsewhere

LEMMA ElsewhereGoto ==
    ASSUME MInv, NEW p \in Slot, stack[p] # <<>>, NEW to, NEW v, NEW w,
           to # "setmonopoly_append", stack' = Goto(p, to, v, w)
    PROVE  Elsewhere
<1>1. PICK t : /\ Goto(p, to, v, w) = [stack EXCEPT ![p] = t]
               /\ t # <<>>
               /\ t[1] = stack[p][1] \/ t[1].at = to
  BY FirstAfter
<1> QED
  BY <1>1, ElsewhereStep

LEMMA ElsewherePush ==
    ASSUME MInv, NEW c \in CPU, EnterYield(c),
           cpu[c] # NONE /\ stack[cpu[c]] # <<>> => ~Top(cpu[c]).irq
    PROVE  Elsewhere
<1>1. CASE cpu[c] = NONE
  BY <1>1 DEF EnterYield, Elsewhere
<1>2. CASE cpu[c] # NONE
  <2> DEFINE f == Frame("timer", 0, 0, TRUE)
  <2>1. PICK p \in Slot : p = cpu[c]
    BY <1>2 DEF MInv, Types
  <2>2. stack' = [stack EXCEPT ![p] = Append(@, f)]
    BY <1>2, <2>1 DEF EnterYield
  <2>3. f \in Frames /\ f.irq /\ f.at = "timer"
    BY TimerFrame
  <2>4. stack[p] \in Stacks /\ (stack[p] # <<>> => ~Last(stack[p]).irq) /\ stack \in [Slot -> Stacks]
    BY <1>2, <2>1, Zenon DEF MInv, Top
  <2> HIDE DEF f
  <2>5. PICK t \in Stacks : /\ stack' = [stack EXCEPT ![p] = t] /\ t # <<>> /\ Last(t) = f
                            /\ IF stack[p] = <<>> THEN t[1] = f ELSE t[1] = stack[p][1]
    BY <2>2, <2>3, <2>4, PushFacts
  <2> QED
    BY <2>3, <2>5, ElsewhereStep
<1> QED
  BY <1>1, <1>2

\* Only the step before it does.
LEMMA ElsewhereKernel ==
    ASSUME MInv, NEW c \in CPU, NEW p \in Slot, Kernel(c, p), ~SetmonopolyMark(c, p)
    PROVE  Elsewhere
<1>1. stack[p] # <<>>
  <2>1. Resume(c, p) => cpu[c] = p /\ ptlock = c
    BY DEF Resume, Runs
  <2>2. Resume(c, p) => stack[p] # <<>>
    BY <2>1, Names DEF MInv, Parked, Runs
  <2>3. Fork(c, p) \/ Sleep(c, p) \/ Yield(c, p) \/ Setmonopoly(c, p) => \E at : At(c, p, at)
    BY DEF Fork, ForkAlloc, ForkStack, ForkCopy, Sleep, SleepStart, SleepCheck, SleepBlock,
           Yield, YieldTest, YieldSlice, YieldMoq, YieldRequeue,
           Setmonopoly, SetmonopolyFind, SetmonopolyRemove, SetmonopolyMark, SetmonopolyAppend
  <2>4. Timer(c, p) \/ Return(c, p) \/ Exit(c, p) \/ Wait(c, p) \/ Kill(c, p) \/ Setpriority(c, p)
          \/ Monopolize(c, p) \/ Unmonopolize(c, p) \/ UnmonopolizeTicks(c, p) => \E at : At(c, p, at)
    BY DEF Timer, Return, Exit, Wait, Kill, Setpriority, Monopolize, Unmonopolize, UnmonopolizeTicks
  <2> QED
    BY <2>2, <2>3, <2>4 DEF Kernel, At
<1>2. ASSUME stack' = stack PROVE Elsewhere
  BY <1>2 DEF Elsewhere
<1>3. ASSUME stack' = [stack EXCEPT ![p] = Front(@)] PROVE Elsewhere
  <2>1. PICK t : t = Front(stack[p])
    OBVIOUS
  <2>2. stack' = [stack EXCEPT ![p] = t] /\ stack[p] \in Stacks
    BY <1>3, <2>1 DEF MInv
  <2>3. t # <<>> => t[1] = stack[p][1]
    BY <1>1, <2>1, <2>2, PopFacts
  <2> QED
    BY <1>1, <2>2, <2>3, ElsewhereStep
<1>4. ASSUME NEW to, NEW v, NEW w, to # "setmonopoly_append", stack' = Goto(p, to, v, w) PROVE Elsewhere
  BY <1>1, <1>4, ElsewhereGoto
<1>5. ASSUME stack' = Finish(p) PROVE Elsewhere
  <2>1. "ret" # "setmonopoly_append" /\ stack' = Goto(p, "ret", 0, 0)
    BY <1>5 DEF Finish
  <2> QED
    BY <1>4, <2>1
<1>6. CASE \/ Resume(c, p) \/ Timer(c, p) \/ Return(c, p) \/ Yield(c, p) \/ ForkAlloc(c, p) \/ ForkStack(c, p)
           \/ Wait(c, p) \/ Kill(c, p) \/ Sleep(c, p) \/ Setpriority(c, p) \/ Setmonopoly(c, p)
           \/ Monopolize(c, p) \/ Unmonopolize(c, p) \/ UnmonopolizeTicks(c, p)
  <2>1. \/ stack' = stack
        \/ stack' = [stack EXCEPT ![p] = Front(@)]
        \/ stack' = Finish(p)
        \/ \E to, v, w : to # "setmonopoly_append" /\ stack' = Goto(p, to, v, w)
    <3>1. CASE Resume(c, p)
      BY <3>1 DEF Resume
    <3>2. CASE Timer(c, p) \/ YieldTest(c, p)
      BY <3>2 DEF Timer, YieldTest
    <3>3. CASE Return(c, p)
      BY <3>3, Zenon DEF Return
    <3>4. CASE YieldSlice(c, p) \/ YieldMoq(c, p) \/ YieldRequeue(c, p)
      BY <3>4 DEF YieldSlice, YieldMoq, YieldRequeue, Fail
    <3>5. CASE ForkAlloc(c, p) \/ ForkStack(c, p)
      BY <3>5 DEF ForkAlloc, ForkStack, Fail
    <3>6. CASE Wait(c, p) \/ Kill(c, p) \/ Setpriority(c, p)
      BY <3>6 DEF Wait, Kill, Setpriority
    <3>7. CASE Sleep(c, p)
      BY <3>7 DEF Sleep, SleepStart, SleepCheck, SleepBlock
    <3>8. CASE SetmonopolyFind(c, p) \/ SetmonopolyRemove(c, p) \/ SetmonopolyAppend(c, p)
      BY <3>8 DEF SetmonopolyFind, SetmonopolyRemove, SetmonopolyAppend, Fail
    <3>9. CASE Monopolize(c, p) \/ Unmonopolize(c, p) \/ UnmonopolizeTicks(c, p)
      BY <3>9 DEF Monopolize, Unmonopolize, UnmonopolizeTicks
    <3> QED
      BY <1>6, <3>1, <3>2, <3>3, <3>4, <3>5, <3>6, <3>7, <3>8, <3>9 DEF Yield, Setmonopoly
  <2> QED
    BY <1>2, <1>3, <1>4, <1>5, <2>1
<1>7. CASE Exit(c, p)
  <2>1. stack' = stack \/ stack' = [stack EXCEPT ![p] = <<>>]
    BY <1>7 DEF Exit, Fail
  <2> QED
    BY <1>2, <2>1, ElsewhereStep
<1>8. CASE ForkCopy(c, p)
  <2>1. PICK np, u : np = Top(p).v /\ u = <<Frame("forkret", 0, 0, FALSE)>>
    OBVIOUS
  <2>2. CASE stack' = [Finish(p) EXCEPT ![np] = u]
    <3>1. At(c, p, "fork_copy")
      BY <1>8 DEF ForkCopy
    <3>2. np \in Slot /\ np # p
      BY <2>1, <3>1, ForkBase
    <3>3. u[1].at = "forkret"
      BY <2>1 DEF Frame
    <3>4. PICK to, v, w : to = "ret" /\ Finish(p) = Goto(p, to, v, w)
      BY DEF Finish
    <3>5. PICK t : /\ Finish(p) = [stack EXCEPT ![p] = t]
                   /\ t[1] = stack[p][1] \/ t[1].at = "ret"
      BY <1>1, <3>4, FirstAfter
    <3>6. stack'[p] = t /\ stack'[np] = u /\ \A q \in Slot : q # p /\ q # np => stack'[q] = stack[q]
      BY <2>2, <3>2, <3>5 DEF MInv
    <3> QED
      BY <1>1, <3>2, <3>3, <3>5, <3>6, Names DEF Elsewhere
  <2> QED
    BY <1>2, <1>5, <1>8, <2>1, <2>2 DEF ForkCopy
<1> QED
  BY <1>6, <1>7, <1>8 DEF Kernel, Fork

\* Every step keeps the level.
LEMMA NextMarked ==
    ASSUME MInv, MoqInv, Marked, [Next]_vars
    PROVE  Marked'
<1>1. CASE UNCHANGED vars
  BY <1>1 DEF Marked, vars
<1>2. ASSUME Next, Elsewhere PROVE Marked'
  <2>1. ~overtaken /\ overtaken' = Overtaking /\ initproc \in Slot
    BY <1>2, Names DEF Next, Followed
  <2>2. ASSUME ~overtaken', stack'[initproc] # <<>>, stack'[initproc][1].at = "setmonopoly_append"
        PROVE  proc'[stack'[initproc][1].v].qlevel = MOQ
    <3>1. PICK f : f = stack[initproc][1]
      OBVIOUS
    <3>2. stack[initproc] # <<>> /\ stack'[initproc][1] = f /\ f.at = "setmonopoly_append"
      BY <1>2, <2>2, <3>1 DEF Elsewhere
    <3>3. proc[f.v].qlevel = MOQ
      BY <2>1, <3>1, <3>2 DEF Marked
    <3>4. Monopolizing(initproc)
      BY <3>1, <3>2 DEF Monopolizing
    <3>5. proc'[f.v].qlevel = proc[f.v].qlevel
      BY <2>1, <2>2, <3>1, <3>2, <3>4 DEF Overtaking
    <3> QED
      BY <3>2, <3>3, <3>5
  <2> QED
    BY <2>2 DEF Marked
<1>3. ASSUME NEW c \in CPU, Scheduler(c) PROVE Elsewhere
  <2>1. stack' = stack
    BY <1>3 DEF Scheduler, ScheduleMlfq, ScheduleMoq, ScheduleUnmonopolize, ScheduleReset, ScheduleMoqLast,
                ScheduleRelease
  <2> QED
    BY <2>1 DEF Elsewhere
<1>4. ASSUME NEW c \in CPU, Clock(c) PROVE Elsewhere
  <2>1. irq[c] # "none" => (cpu[c] # NONE /\ stack[cpu[c]] # <<>> => ~Top(cpu[c]).irq)
    BY Zenon DEF MInv, Interrupted
  <2>2. Interruptible(c) => (cpu[c] # NONE /\ stack[cpu[c]] # <<>> => ~Top(cpu[c]).irq)
    BY Zenon DEF Interruptible
  <2>3. /\ irq[c] # "none" \/ Interruptible(c)
        /\ stack' = stack \/ EnterYield(c)
    BY <1>4 DEF Clock, ClockTick, ClockMode, boost, LocalTick, Fail
  <2>4. CASE stack' = stack
    BY <2>4 DEF Elsewhere
  <2> QED
    BY <2>1, <2>2, <2>3, <2>4, ElsewherePush
<1>5. ASSUME NEW c \in CPU, NEW p \in Slot, Syscall(c, p) PROVE Elsewhere
  <2>1. \E call, n : /\ call # "setmonopoly_append"
                     /\ stack' = [stack EXCEPT ![p] = <<Frame(call, n, 0, FALSE)>>]
    <3>1. CASE stack' = [stack EXCEPT ![p] = <<Frame("exit", 0, 0, FALSE)>>]
      BY <3>1, Zenon
    <3>2. CASE \E call \in Calls[proc[p].pid] : \E n : stack' = [stack EXCEPT ![p] = <<Frame(call, n, 0, FALSE)>>]
      <4>1. proc[p].pid \in 1 .. MaxPid
        <5>1. cpu[c] = p /\ proc[p].state = "RUNNING"
          BY <1>5 DEF Syscall, Runs, MInv, OneCpu
        <5>2. proc[p].pid \in 0 .. MaxPid /\ proc[p].pid # 0
          BY <5>1, TableFacts DEF MInv, Lineage, Procs
        <5> QED
          BY <5>2, MlfqAssumption
      <4>2. Calls[proc[p].pid] \subseteq SystemCalls /\ "setmonopoly_append" \notin SystemCalls
        BY <4>1, MlfqAssumption DEF SystemCalls
      <4> QED
        BY <3>2, <4>2, Zenon
    <3>3. \/ stack' = [stack EXCEPT ![p] = <<Frame("exit", 0, 0, FALSE)>>]
          \/ \E call \in Calls[proc[p].pid] : \E n : stack' = [stack EXCEPT ![p] = <<Frame(call, n, 0, FALSE)>>]
      BY <1>5, Zenon DEF Syscall
    <3> QED
      BY <3>1, <3>2, <3>3
  <2>2. PICK call, n : call # "setmonopoly_append" /\ stack' = [stack EXCEPT ![p] = <<Frame(call, n, 0, FALSE)>>]
    BY <2>1
  <2>3. PICK f : f = Frame(call, n, 0, FALSE)
    OBVIOUS
  <2>4. f.at # "setmonopoly_append"
    BY <2>2, <2>3 DEF Frame
  <2>5. PICK t : t = <<f>>
    OBVIOUS
  <2>6. t[1] = f /\ stack' = [stack EXCEPT ![p] = t]
    BY <2>2, <2>3, <2>5
  <2> QED
    BY <2>4, <2>6, ElsewhereStep
<1>6. ASSUME NEW c \in CPU, NEW p \in Slot, SetmonopolyMark(c, p) PROVE Marked'
  <2>1. PICK q : q = Top(p).v
    OBVIOUS
  <2>2. /\ At(c, p, "setmonopoly_mark") /\ "setmonopoly_mark" \in Parental
        /\ proc' = [proc EXCEPT ![q].qlevel = MOQ] /\ stack' = Goto(p, "setmonopoly_append", q, 0)
    BY <1>6, <2>1 DEF SetmonopolyMark, Parental
  <2>3. p = initproc /\ Len(stack[p]) = 1 /\ stack[p] # <<>> /\ q \in Slot
    <3>1. Top(p) \in Frames /\ Top(p).at = "setmonopoly_mark"
      BY <2>2, AtFacts
    <3> QED
      BY <2>1, <2>2, <3>1, Parent DEF MoqInv, Frames
  <2>4. PICK f : f = Frame("setmonopoly_append", q, 0, Top(p).irq)
    OBVIOUS
  <2>5. f.v = q
    BY <2>4 DEF Frame
  <2>6. PICK t : stack' = [stack EXCEPT ![p] = t] /\ Len(t) = Len(stack[p]) /\ (Len(t) = 1 => t[1] = f)
    BY <2>2, <2>3, <2>4, FrameAfter
  <2>7. stack'[initproc][1] = f
    BY <2>3, <2>6, Names DEF MInv
  <2>8. proc'[q].qlevel = MOQ
    BY <2>2, <2>3, TableFacts DEF Procs
  <2> QED
    BY <2>5, <2>7, <2>8 DEF Marked
<1> QED
  BY <1>1, <1>2, <1>3, <1>4, <1>5, <1>6, ElsewhereKernel DEF Next, Followed

\* gets the level of MoQ,
LEMMA MoqMark ==
    ASSUME MInv, MoqInv, NEW c \in CPU, NEW p \in Slot, SetmonopolyMark(c, p)
    PROVE  MoqInv'
<1>1. PICK q : q = Top(p).v
  OBVIOUS
<1>2. /\ At(c, p, "setmonopoly_mark") /\ "setmonopoly_mark" \in Parental /\ nextpid' = nextpid
      /\ proc' = [proc EXCEPT ![q].qlevel = MOQ] /\ queue' = queue
      /\ stack' = Goto(p, "setmonopoly_append", q, 0)
  BY <1>1 DEF SetmonopolyMark, Parental
<1>3. p = initproc /\ Len(stack[p]) = 1 /\ stack[p] # <<>> /\ q \in Slot /\ Held(q)
  <2>1. Top(p) \in Frames /\ Top(p).at = "setmonopoly_mark"
    BY <1>2, AtFacts
  <2>2. \A n : Held(n) <=> Holds("setmonopoly_mark", q, Top(p).w, n)
    BY <1>1, <1>2, Parent DEF MoqInv
  <2> QED
    BY <1>1, <1>2, <2>1, <2>2, Parent DEF MoqInv, Frames, Holds
<1>4. Out(q) /\ proc[q].state # "UNUSED"
  BY <1>3 DEF MoqInv, Apart
<1>5. Ruling' /\ \A n : Held(n)' <=> n = q
  <2>1. PICK to, w : to = "setmonopoly_append" /\ stack' = Goto(p, to, q, w)
    BY <1>2
  <2>2. to # "setmonopoly" /\ \A n : Holds(to, q, w, n) <=> n = q
    BY <2>1 DEF Holds
  <2> QED
    BY <1>3, <2>1, <2>2, RuledGoto DEF MoqInv
<1>6. /\ proc'[q].pid = proc[q].pid /\ proc'[q].state = proc[q].state
      /\ \A x \in Slot : x # q => proc'[x] = proc[x]
  BY <1>2, <1>3, TableFacts DEF Procs
<1>7. \A l \in Level \cup {MOQ} :
         /\ IsInjective(queue'[l])
         /\ \A x \in Slot : x # q => (Contains(queue'[l], x) <=> Contains(queue[l], x))
         /\ ~Contains(queue'[l], q)
  BY <1>2, <1>4 DEF MoqInv, Lone, Out
<1>8. Out(q)'
  BY <1>7 DEF Out
<1> QED
  BY <1>2, <1>3, <1>4, <1>5, <1>6, <1>7, <1>8, MoqMoved

\* and is appended to MoQ, which its qlevel names.
LEMMA MoqAppend ==
    ASSUME MInv, MoqInv, Marked, ~overtaken, NEW c \in CPU, NEW p \in Slot, SetmonopolyAppend(c, p)
    PROVE  MoqInv'
<1>1. PICK q : q = Top(p).v
  OBVIOUS
<1>2. /\ At(c, p, "setmonopoly_append") /\ "setmonopoly_append" \in Parental /\ nextpid' = nextpid
      /\ proc' = proc
      /\ queue' = [queue EXCEPT ![MOQ] = IF Len(@) < NPROC THEN Append(@, q) ELSE @]
      /\ stack' = Finish(p)
  BY <1>1 DEF SetmonopolyAppend, Parental
<1>3. p = initproc /\ Len(stack[p]) = 1 /\ stack[p] # <<>> /\ q \in Slot /\ Held(q)
  <2>1. Top(p) \in Frames /\ Top(p).at = "setmonopoly_append"
    BY <1>2, AtFacts
  <2>2. \A n : Held(n) <=> Holds("setmonopoly_append", q, Top(p).w, n)
    BY <1>1, <1>2, Parent DEF MoqInv
  <2> QED
    BY <1>1, <1>2, <2>1, <2>2, Parent DEF MoqInv, Frames, Holds
<1>4. Out(q) /\ proc[q].state # "UNUSED"
  BY <1>3 DEF MoqInv, Apart
<1>5. Ruling' /\ \A n : ~Held(n)'
  BY <1>2, <1>3, RuledFinish DEF MoqInv
<1>6. proc[q].qlevel = MOQ
  <2>1. stack[p][1] = Top(p) /\ Top(p).at = "setmonopoly_append"
    BY <1>2, Parent DEF MoqInv
  <2> QED
    BY <1>1, <1>3, <2>1 DEF Marked
<1>7. queue[MOQ] \in Seq(Slot) /\ IsInjective(queue[MOQ]) /\ DOMAIN queue = Level \cup {MOQ}
      /\ ~Contains(queue[MOQ], q)
  BY <1>4, MoqQueue DEF Out
<1>8. /\ IsInjective(Append(queue[MOQ], q))
      /\ \A x : Contains(Append(queue[MOQ], q), x) <=> Contains(queue[MOQ], x) \/ x = q
  BY <1>3, <1>7, AppendedEntry
<1>9. /\ queue'[MOQ] = Append(queue[MOQ], q) \/ queue'[MOQ] = queue[MOQ]
      /\ \A i \in Level \cup {MOQ} : i # MOQ => queue'[i] = queue[i]
  BY <1>2, <1>7
<1>10. ASSUME NEW i \in Level \cup {MOQ}
       PROVE  /\ IsInjective(queue'[i])
              /\ \A x \in Slot : x # q => (Contains(queue'[i], x) <=> Contains(queue[i], x))
              /\ Contains(queue'[i], q) => proc'[q].qlevel = i
  <2>1. CASE i = MOQ
    BY <1>2, <1>6, <1>7, <1>8, <1>9, <2>1
  <2>2. CASE i # MOQ
    BY <1>4, <1>9, <2>2 DEF MoqInv, Lone, Out
  <2> QED
    BY <2>1, <2>2
<1> QED
  BY <1>2, <1>3, <1>4, <1>5, <1>6, <1>10, MoqMoved

\* Every step of the kernel.
LEMMA NextMoq ==
    ASSUME Monopolists, MInv, Quantum, MoqInv, Marked, [Next]_vars
    PROVE  MoqInv'
<1>1. CASE UNCHANGED vars
  BY <1>1, MoqFail DEF vars
<1>2. ASSUME Fail("overrun") PROVE MoqInv'
  BY <1>2, MoqFail DEF Fail
<1>3. ASSUME NEW c \in CPU, Clock(c) PROVE MoqInv'
  <2>1. PICK p \in Slot : p = initproc
    BY Names
  <2> QED
    BY <1>2, <1>3, <2>1, MoqClock, MoqBoost, FailOrNot DEF Clock
<1>4. ASSUME ~overtaken, NEW c \in CPU, NEW p \in Slot, Kernel(c, p) PROVE MoqInv'
  <2>1. CASE \/ Resume(c, p) \/ Timer(c, p) \/ Return(c, p) \/ Kill(c, p) \/ Setpriority(c, p) \/ Sleep(c, p)
             \/ Monopolize(c, p) \/ Unmonopolize(c, p) \/ UnmonopolizeTicks(c, p)
    BY <2>1, MoqMoves
  <2>2. CASE Yield(c, p)
    BY <1>2, <2>2, MoqMoves, MoqRequeue, FailOrNot DEF Yield
  <2>3. CASE Fork(c, p)
    BY <1>2, <2>3, MoqForkAlloc, MoqForkStack, MoqForkCopy, FailOrNot DEF Fork
  <2>4. CASE Exit(c, p) \/ Wait(c, p)
    BY <2>4, MoqExit, MoqWait
  <2>5. CASE Setmonopoly(c, p)
    BY <1>4, <2>5, MoqFind, MoqRemove, MoqMark, MoqAppend DEF Setmonopoly
  <2> QED
    BY <1>4, <2>1, <2>2, <2>3, <2>4, <2>5 DEF Kernel
<1>5. ASSUME NEW c \in CPU, Scheduler(c) PROVE MoqInv'
  BY <1>5, MoqScheduler
<1>6. ASSUME NEW c \in CPU, NEW p \in Slot, Syscall(c, p) PROVE MoqInv'
  BY <1>6, MoqSyscall
<1> QED
  BY <1>1, <1>3, <1>4, <1>5, <1>6 DEF Next, Followed

\* In the initial state init is in L0, and nobody else anywhere.
LEMMA InitMoq == Init => MoqInv /\ Marked
<1> SUFFICES ASSUME Init PROVE MoqInv /\ Marked
  OBVIOUS
<1>1. QInv
  BY InitQueues
<1>2. proc[initproc].pid = 1 /\ proc[initproc].qlevel = 0 /\ proc[initproc].state # "UNUSED"
      /\ \A p \in Slot : p # initproc => proc[p].state = "UNUSED"
  <2>1. \A p \in Slot : p # initproc => proc[p] = Free
    BY DEF Init
  <2>2. proc[initproc] = [Free EXCEPT !.state = "RUNNABLE", !.pid = 1, !.timeslice = Slice[0]]
    BY Names DEF Init
  <2>3. Free.state = "UNUSED"
    BY DEF Free
  <2>4. proc[initproc].pid = 1 /\ proc[initproc].qlevel = 0 /\ proc[initproc].state # "UNUSED"
    BY <2>2 DEF Free
  <2> QED
    BY <2>1, <2>3, <2>4
<1>3. \A p \in Slot : stack[p] # <<>> => stack[p][1].at = "forkret"
  <2>1. PICK u : u = <<Frame("forkret", 0, 0, FALSE)>>
    OBVIOUS
  <2>2. u[1].at = "forkret"
    BY <2>1 DEF Frame
  <2>3. stack = [p \in Slot |-> IF p = initproc THEN u ELSE <<>>]
    BY <2>1 DEF Init
  <2> QED
    BY <2>2, <2>3
<1>4. Ruling /\ \A n : ~Held(n)
  BY <1>3, Names DEF Ruling, Ruled, Parental, Held, Holds
<1>5. queue = [l \in Level \cup {MOQ} |-> IF l = 0 THEN <<initproc>> ELSE <<>>]
  BY DEF Init
<1>6. \A x : IsInjective(<<x>>) /\ \A y : Contains(<<x>>, y) <=> y = x
  BY DEF IsInjective, Contains
<1>7. IsInjective(<<>>) /\ \A x : ~Contains(<<>>, x)
  BY DEF IsInjective, Contains
<1>8. \A l \in Level \cup {MOQ} : /\ IsInjective(queue[l])
                                  /\ \A x : Contains(queue[l], x) => l = 0 /\ x = initproc
  <2> TAKE l \in Level \cup {MOQ}
  <2>1. queue[l] = IF l = 0 THEN <<initproc>> ELSE <<>>
    BY <1>5
  <2> QED
    BY <1>6, <1>7, <2>1
<1>9. Lone /\ Ordered /\ Apart
  BY <1>2, <1>4, <1>8 DEF Lone, Ordered, Apart, Out
<1>10. Marked
  BY <1>3, Names DEF Marked
<1> QED
  BY <1>1, <1>2, <1>4, <1>9, <1>10 DEF MoqInv, QInv

\* Only the scheduler gives a process to a CPU, in MoQ mode one of MoQ.
LEMMA Dispatched ==
    ASSUME MInv, MoqInv, [Next]_vars, NEW c \in CPU, cpu[c] = NONE, cpu'[c] # NONE, mode = 1
    PROVE  proc[cpu'[c]].qlevel = MOQ
<1>1. cpu \in [CPU -> Slot \cup {NONE}]
  BY DEF MInv, Types
<1>2. ASSUME NEW d \in CPU, Sched(d) PROVE FALSE
  BY <1>1, <1>2 DEF Sched
<1>3. \E d \in CPU, l \in Level \cup {MOQ} : Scheduler(d) /\ levelSchedule(d, l) /\ (mode = 1 => l = MOQ)
  <2>1. cpu' # cpu
    OBVIOUS
  <2>2. ~UNCHANGED vars
    BY <2>1 DEF vars
  <2>3. ASSUME NEW d \in CPU, Clock(d) PROVE FALSE
    BY <2>1, <2>3 DEF Clock, ClockTick, ClockMode, boost, LocalTick, Fail
  <2>4. ASSUME NEW d \in CPU, NEW p \in Slot, Kernel(d, p) PROVE FALSE
    <3>1. cpu' = cpu \/ Sched(d)
      BY <2>4 DEF Kernel, Resume, Timer, Return, Yield, YieldTest, YieldSlice, YieldMoq, YieldRequeue, Fork,
                  ForkAlloc, ForkStack, ForkCopy, Exit, Wait, Kill, Sleep, SleepStart, SleepCheck, SleepBlock,
                  Setpriority, Setmonopoly, SetmonopolyFind, SetmonopolyRemove, SetmonopolyMark, SetmonopolyAppend,
                  Monopolize, Unmonopolize, UnmonopolizeTicks, Fail
    <3> QED
      BY <1>2, <2>1, <3>1
  <2>5. ASSUME NEW d \in CPU, NEW p \in Slot, Syscall(d, p) PROVE FALSE
    BY <2>1, <2>5 DEF Syscall
  <2>6. PICK d \in CPU : Scheduler(d)
    BY <2>2, <2>3, <2>4, <2>5 DEF Next, Followed
  <2>7. \E l \in Level \cup {MOQ} : levelSchedule(d, l) /\ (mode = 1 => l = MOQ)
    <3>1. CASE ScheduleMlfq(d)
      BY <3>1 DEF ScheduleMlfq
    <3>2. CASE ScheduleMoq(d) \/ ScheduleMoqLast(d)
      BY <2>1, <3>2 DEF ScheduleMoq, ScheduleMoqLast
    <3> QED
      BY <2>1, <2>6, <3>1, <3>2 DEF Scheduler, ScheduleUnmonopolize, ScheduleReset, ScheduleRelease
  <2> QED
    BY <2>6, <2>7
<1>4. PICK d \in CPU : levelSchedule(d, MOQ)
  BY <1>3
<1>5. PICK k : k = First(Runnable(MOQ))
  OBVIOUS
<1>6. k \in DOMAIN queue[MOQ] /\ cpu' = [cpu EXCEPT ![d] = queue[MOQ][k]]
  BY <1>4, <1>5, RunnableFacts DEF levelSchedule, MInv
<1>7. cpu'[c] = queue[MOQ][k]
  BY <1>1, <1>6
<1>8. proc[queue[MOQ][k]].qlevel = MOQ
  <2>1. DOMAIN queue[MOQ] = 1 .. Len(queue[MOQ])
        /\ \A n \in 1 .. Len(queue[MOQ]) : proc[queue[MOQ][n]].qlevel = MOQ
    BY MoqQueue
  <2> QED
    BY <1>6, <2>1
<1> QED
  BY <1>7, <1>8

\* On one CPU, with programs that do not call yield() and where the first process
\* alone forks, waits and calls setmonopoly(), never for pid 0, and gets its memory:
\* in MoQ mode the CPU switches only to processes that setmonopoly() has put into
\* MoQ, whatever demotions, boosts, exits and wakeups there are, until one of them
\* overtakes a setmonopoly() between its parts.
THEOREM MonopolyIsExclusiveHolds ==
    ASSUME Timed, Monopolists
    PROVE  Spec => MonopolyIsExclusive
<1>1. Init => Quantum /\ MoqInv /\ Marked
  BY InitQuantum, InitMoq
<1>2. MInv /\ Quantum /\ MoqInv /\ Marked /\ [Next]_vars => Quantum' /\ MoqInv' /\ Marked'
  BY NextQuantum, NextMoq, NextMarked
<1>3. MInv /\ MoqInv /\ [Next]_vars =>
         [\A c \in CPU : cpu[c] = NONE /\ cpu'[c] # NONE /\ mode = 1 => proc[cpu'[c]].qlevel = MOQ]_vars
  BY Dispatched
<1> QED
  BY <1>1, <1>2, <1>3, InvariantHolds, PTL DEF Spec, MonopolyIsExclusive
===============================================================================
