----------------------------- MODULE SpinLockProofs ----------------------------
(***************************************************************************)
(* Proofs about SpinLock, for any processors and any processes: what the   *)
(* run of one small instance checks holds of every instance.  After them,  *)
(* proofs about two other parts that run on those processors: the start of *)
(* the processors (Kalloc) and the process table of Project1 (Proc).       *)
(***************************************************************************)
EXTENDS SpinLock, TLAPS, FiniteSetTheorems, WellFoundedInduction

-------------------------------------------------------------------------------
(* The inductive invariant *)

Cpus == [if : BOOLEAN, ncli : 0 .. 2, intena : BOOLEAN, proc : Thread \cup {None},
         spin : Lock \cup {NoSpin}, frame : BOOLEAN, intr : SUBSET Lock]

Threads == [state : {"unused", "runnable", "running", "sleeping"}, intena : BOOLEAN,
            frame : BOOLEAN, phase : {"new", "forkret", "old"}]

\* The locks that c has and the one it waits for.
Depth(c) == (IF owner["dev"] = c THEN 1 ELSE 0) + (IF owner["ptable"] = c THEN 1 ELSE 0)
            + (IF Busy(c) THEN 1 ELSE 0)

\* ncli counts them, a handler has taken all that its processor has, the scheduler
\* takes no lock of a device, and nobody waits for a lock that it has.
Counted(c) ==
    /\ cpu[c].ncli = Depth(c)
    /\ cpu[c].if => cpu[c].ncli = 0
    /\ cpu[c].frame => cpu[c].intr = Held(c)
    /\ ~Runs(c) /\ ~cpu[c].frame => owner["dev"] # c /\ cpu[c].spin # "dev"
    /\ Busy(c) => owner[cpu[c].spin] # c

\* The flag is, and after the last release() will be, that of the code of the process.
Flagged(c) ==
    Runs(c) /\ ~InForkret(c) =>
        IF cpu[c].ncli = 0 THEN cpu[c].if <=> ~cpu[c].frame ELSE cpu[c].intena <=> ~cpu[c].frame

\* A process that is switched away takes it along.
Saved ==
    \A t \in Thread :
        /\ ths[t].state \in {"runnable", "sleeping"} /\ ths[t].phase = "old" =>
              (ths[t].intena <=> ~ths[t].frame)
        /\ ths[t].state = "running" => ths[t].phase # "new"

SInv == /\ cpu \in [CPU -> Cpus] /\ owner \in [Lock -> CPU \cup {None}] /\ ths \in [Thread -> Threads]
        /\ panicked \in BOOLEAN /\ ~panicked
        /\ \A c \in CPU : Counted(c) /\ Flagged(c)
        /\ Saved /\ OneProcessor

\* No processor and no process has the name that stands for none.
Named == None \notin CPU /\ None \notin Thread

-------------------------------------------------------------------------------
(* The fields that a step changes *)

\* pushcli() and the test of acquire().
LEMMA PushFields ==
    ASSUME NEW x \in Cpus, NEW l \in Lock, x.ncli \in 0 .. 1
    PROVE  LET y == [pushcli(x) EXCEPT !.spin = l]
           IN  /\ y \in Cpus /\ ~y.if /\ y.ncli = x.ncli + 1
               /\ (IF x.ncli = 0 THEN y.intena <=> x.if ELSE y.intena <=> x.intena)
               /\ y.spin = l /\ y.proc = x.proc /\ (y.frame <=> x.frame) /\ y.intr = x.intr
<1>1. ASSUME NEW b \in BOOLEAN, NEW n \in 0 .. 2, NEW i \in BOOLEAN
      PROVE  LET y == [x EXCEPT !.if = b, !.ncli = n, !.intena = i, !.spin = l]
             IN  /\ y \in Cpus /\ y.if = b /\ y.ncli = n /\ y.intena = i
                 /\ y.spin = l /\ y.proc = x.proc /\ y.frame = x.frame /\ y.intr = x.intr
  BY DEF Cpus
<1> DEFINE i == IF x.ncli = 0 THEN x.if ELSE x.intena
<1>2. i \in BOOLEAN /\ x.ncli + 1 \in 0 .. 2 /\ FALSE \in BOOLEAN
  BY DEF Cpus
<1> HIDE DEF i
<1>3. LET y == [x EXCEPT !.if = FALSE, !.ncli = x.ncli + 1, !.intena = i, !.spin = l]
      IN  /\ y \in Cpus /\ y.if = FALSE /\ y.ncli = x.ncli + 1 /\ y.intena = i
          /\ y.spin = l /\ y.proc = x.proc /\ y.frame = x.frame /\ y.intr = x.intr
  BY <1>1, <1>2, ZenonT(40)
<1> DEFINE y == [pushcli(x) EXCEPT !.spin = l]
<1>4. y = [x EXCEPT !.if = FALSE, !.ncli = x.ncli + 1, !.intena = i, !.spin = l]
  BY DEF pushcli, i
<1> HIDE DEF y
<1>5. /\ y \in Cpus /\ y.if = FALSE /\ y.ncli = x.ncli + 1 /\ y.intena = i
      /\ y.spin = l /\ y.proc = x.proc /\ y.frame = x.frame /\ y.intr = x.intr
  BY <1>3, <1>4, Zenon
<1> QED
  BY <1>5, Zenon DEF y, i

\* release(): popcli(), and the lock leaves the locks of the handler.
LEMMA PopFields ==
    ASSUME NEW x \in Cpus, NEW l \in Lock, x.ncli \in 1 .. 2
    PROVE  LET y == [popcli(x) EXCEPT !.intr = @ \ {l}]
           IN  /\ y \in Cpus /\ (y.if <=> x.ncli = 1 /\ x.intena) /\ y.ncli = x.ncli - 1
               /\ (y.intena <=> x.intena) /\ y.spin = x.spin /\ y.proc = x.proc
               /\ (y.frame <=> x.frame) /\ y.intr = x.intr \ {l}
<1> DEFINE b == x.ncli = 1 /\ x.intena
           n == x.ncli - 1
           S == x.intr \ {l}
           y == [popcli(x) EXCEPT !.intr = @ \ {l}]
<1>2. b \in BOOLEAN /\ n \in 0 .. 2 /\ S \in SUBSET Lock
  BY DEF Cpus
<1>3. y = [x EXCEPT !.ncli = n, !.if = b, !.intr = S]
  BY DEF popcli, Cpus
<1> HIDE DEF b, n, S
<1>4. LET z == [x EXCEPT !.ncli = n, !.if = b, !.intr = S]
      IN  /\ z \in Cpus /\ z.if = b /\ z.ncli = n /\ z.intena = x.intena
          /\ z.spin = x.spin /\ z.proc = x.proc /\ z.frame = x.frame /\ z.intr = S
  BY <1>2 DEF Cpus
<1> HIDE DEF y
<1>5. /\ y \in Cpus /\ y.if = b /\ y.ncli = n /\ y.intena = x.intena
      /\ y.spin = x.spin /\ y.proc = x.proc /\ y.frame = x.frame /\ y.intr = S
  BY <1>3, <1>4, Zenon
<1> QED
  BY <1>5, Zenon DEF y, b, n, S

-------------------------------------------------------------------------------
(* What a step of one processor leaves alone *)

\* The other processors, when c takes a lock, releases one, or does neither.
LEMMA OthersKept ==
    ASSUME SInv, NEW c \in CPU,
           \A d \in CPU : d # c => cpu'[d] = cpu[d],
           \A d \in CPU, l \in Lock : d # c => (owner'[l] = d <=> owner[l] = d),
           \A d \in CPU : d # c /\ cpu[d].proc # None => ths'[cpu[d].proc].phase = ths[cpu[d].proc].phase
    PROVE  \A d \in CPU : d # c => Counted(d)' /\ Flagged(d)'
<1> SUFFICES ASSUME NEW d \in CPU, d # c PROVE Counted(d)' /\ Flagged(d)'
  OBVIOUS
<1>1. cpu'[d] = cpu[d] /\ cpu[d] \in Cpus /\ Counted(d) /\ Flagged(d)
  BY DEF SInv
<1>2. (Runs(d)' <=> Runs(d)) /\ (Busy(d)' <=> Busy(d)) /\ Held(d)' = Held(d)
  BY <1>1 DEF Runs, Busy, Held
<1>3. InForkret(d)' <=> InForkret(d)
  BY <1>1 DEF InForkret, Runs
<1>4. Depth(d)' = Depth(d)
  <2>1. "dev" \in Lock /\ "ptable" \in Lock
    BY DEF Lock
  <2>2. (owner'["dev"] = d <=> owner["dev"] = d) /\ (owner'["ptable"] = d <=> owner["ptable"] = d)
    BY <2>1
  <2> QED
    BY <1>2, <2>2 DEF Depth
<1>5. Counted(d)'
  <2>1. Busy(d) => cpu[d].spin \in Lock
    BY <1>1 DEF Busy, Cpus
  <2>2. "dev" \in Lock
    BY DEF Lock
  <2> QED
    BY <1>1, <1>2, <1>4, <2>1, <2>2 DEF Counted
<1>6. Flagged(d)'
  BY <1>1, <1>2, <1>3 DEF Flagged
<1> QED
  BY <1>5, <1>6

\* The processes, when c neither switches nor makes one.
LEMMA ProcessesKept ==
    ASSUME SInv, ths' = ths, \A c \in CPU : cpu'[c].proc = cpu[c].proc
    PROVE  Saved' /\ OneProcessor'
<1>1. Saved'
  BY DEF SInv, Saved
<1>2. OneProcessor'
  BY DEF SInv, OneProcessor, Runs
<1> QED
  BY <1>1, <1>2

-------------------------------------------------------------------------------
(* spinlock.c *)

LEMMA AcquireStep ==
    ASSUME SInv, Named, NEW c \in CPU, acquire(c)
    PROVE  SInv'
<1> DEFINE x == cpu[c]
           y == cpu'[c]
<1>1. PICK l \in Wanted(c) : /\ cpu' = [cpu EXCEPT ![c] = [pushcli(@) EXCEPT !.spin = l]]
                             /\ panicked' = (owner[l] = c)
  BY DEF acquire
<1>2. ~Busy(c) /\ owner' = owner /\ ths' = ths
  BY DEF acquire
<1>3. x \in Cpus /\ Counted(c) /\ Flagged(c) /\ x.spin = NoSpin
  BY <1>2 DEF SInv, Busy
<1>4. l \in Lock /\ owner[l] # c
  <2>1. l \in Lock /\ l \notin (IF cpu[c].frame THEN cpu[c].intr ELSE Held(c))
    BY <1>1 DEF Wanted
  <2>2. l \notin Held(c)
    BY <1>3, <2>1, Zenon DEF Counted
  <2> QED
    BY <2>1, <2>2 DEF Held
<1>5. x.ncli \in 0 .. 1
  BY <1>2, <1>3, <1>4 DEF Counted, Depth, Lock
<1>6. /\ y \in Cpus /\ ~y.if /\ y.ncli = x.ncli + 1
      /\ (IF x.ncli = 0 THEN y.intena <=> x.if ELSE y.intena <=> x.intena)
      /\ y.spin = l /\ y.proc = x.proc /\ (y.frame <=> x.frame) /\ y.intr = x.intr
  <2>1. y = [pushcli(x) EXCEPT !.spin = l]
    BY <1>1 DEF SInv
  <2> HIDE DEF y
  <2> QED
    BY <1>3, <1>4, <1>5, <2>1, PushFields, Zenon
<1>7. cpu' \in [CPU -> Cpus] /\ \A d \in CPU : d # c => cpu'[d] = cpu[d]
  BY <1>1, <1>6 DEF SInv
<1> HIDE DEF x, y
<1>8. \A d \in CPU : d # c => Counted(d)' /\ Flagged(d)'
  BY <1>2, <1>7, OthersKept
<1>9. Busy(c)' /\ (Runs(c)' <=> Runs(c)) /\ Held(c)' = Held(c) /\ (InForkret(c)' <=> InForkret(c))
  BY <1>2, <1>4, <1>6 DEF Busy, Runs, Held, InForkret, x, y, Lock, NoSpin
<1>10. Counted(c)'
  <2>1. y.ncli = Depth(c)'
    BY <1>2, <1>3, <1>5, <1>6, <1>9 DEF Counted, Depth, x, y
  <2>2. y.frame => y.intr = Held(c)'
    BY <1>3, <1>6, <1>9 DEF Counted, x, y
  <2>3. ~Runs(c)' /\ ~y.frame => owner'["dev"] # c /\ y.spin # "dev"
    <3>1. ~Runs(c) /\ ~x.frame => l # "dev"
      BY <1>1 DEF Wanted, x
    <3> QED
      BY <1>2, <1>3, <1>6, <1>9, <3>1 DEF Counted, x
  <2>4. owner'[y.spin] # c
    BY <1>2, <1>4, <1>6
  <2> QED
    BY <1>6, <2>1, <2>2, <2>3, <2>4 DEF Counted, y
<1>11. Flagged(c)'
  <2>1. y.ncli # 0
    BY <1>5, <1>6
  <2>2. Runs(c) /\ ~InForkret(c) => (y.intena <=> ~y.frame)
    BY <1>3, <1>6 DEF Flagged, x
  <2> QED
    BY <1>9, <2>1, <2>2 DEF Flagged, y
<1>12. Saved' /\ OneProcessor'
  <2>1. \A d \in CPU : cpu'[d].proc = cpu[d].proc
    BY <1>6, <1>7 DEF x, y
  <2> QED
    BY <1>2, <2>1, ProcessesKept
<1>13. panicked' \in BOOLEAN /\ ~panicked'
  BY <1>1, <1>4, Zenon
<1> QED
  BY <1>2, <1>7, <1>8, <1>10, <1>11, <1>12, <1>13 DEF SInv

LEMMA XchgStep ==
    ASSUME SInv, Named, NEW c \in CPU, xchg(c)
    PROVE  SInv'
<1> DEFINE x == cpu[c]
           y == cpu'[c]
           l == cpu[c].spin
<1>1. /\ Busy(c) /\ owner[l] = None /\ owner' = [owner EXCEPT ![l] = c]
      /\ cpu' = [cpu EXCEPT ![c].spin = NoSpin, ![c].intr = IF cpu[c].frame THEN @ \cup {l} ELSE @]
      /\ ths' = ths /\ panicked' = panicked
  BY DEF xchg
<1>2. x \in Cpus /\ Counted(c) /\ Flagged(c) /\ l \in Lock
  BY <1>1 DEF SInv, Busy, Cpus
<1>3. /\ y \in Cpus /\ (y.if <=> x.if) /\ y.ncli = x.ncli /\ (y.intena <=> x.intena)
      /\ y.spin = NoSpin /\ y.proc = x.proc /\ (y.frame <=> x.frame)
      /\ y.intr = IF x.frame THEN x.intr \cup {l} ELSE x.intr
  <2>1. y = [x EXCEPT !.spin = NoSpin, !.intr = IF x.frame THEN x.intr \cup {l} ELSE x.intr]
    BY <1>1 DEF SInv
  <2>2. (IF x.frame THEN x.intr \cup {l} ELSE x.intr) \in SUBSET Lock
    BY <1>2 DEF Cpus
  <2> HIDE DEF y, x, l
  <2> QED
    BY <1>2, <2>1, <2>2 DEF Cpus
<1>4. cpu' \in [CPU -> Cpus] /\ \A d \in CPU : d # c => cpu'[d] = cpu[d]
  BY <1>1, <1>3 DEF SInv
<1>5. owner' \in [Lock -> CPU \cup {None}] /\ owner'[l] = c /\ \A m \in Lock : m # l => owner'[m] = owner[m]
  BY <1>1, <1>2 DEF SInv
<1> HIDE DEF x, y, l
<1>6. \A d \in CPU : d # c => Counted(d)' /\ Flagged(d)'
  <2>1. \A d \in CPU, m \in Lock : d # c => (owner'[m] = d <=> owner[m] = d)
    BY <1>1, <1>2, <1>5 DEF Named
  <2> QED
    BY <1>1, <1>4, <2>1, OthersKept
<1>7. ~Busy(c)' /\ (Runs(c)' <=> Runs(c)) /\ Held(c)' = Held(c) \cup {l} /\ (InForkret(c)' <=> InForkret(c))
  <2>1. Held(c)' = Held(c) \cup {l}
    BY <1>2, <1>5 DEF Held
  <2> QED
    BY <1>1, <1>3, <2>1 DEF Busy, Runs, InForkret, x, y
<1>8. Counted(c)'
  <2>1. y.ncli = Depth(c)'
    <3>1. owner[l] # c
      BY <1>1 DEF Named
    <3> QED
      BY <1>1, <1>2, <1>3, <1>5, <1>7, <3>1 DEF Counted, Depth, Lock, x
  <2>2. y.frame => y.intr = Held(c)'
    BY <1>2, <1>3, <1>7 DEF Counted, x
  <2>3. ~Runs(c)' /\ ~y.frame => owner'["dev"] # c /\ y.spin # "dev"
    BY <1>2, <1>3, <1>5, <1>7 DEF Counted, x, l, NoSpin, Lock
  <2> QED
    BY <1>2, <1>3, <1>7, <2>1, <2>2, <2>3 DEF Counted, x, y
<1>9. Flagged(c)'
  BY <1>2, <1>3, <1>7 DEF Flagged, x, y
<1>10. Saved' /\ OneProcessor'
  <2>1. \A d \in CPU : cpu'[d].proc = cpu[d].proc
    BY <1>3, <1>4 DEF x, y
  <2> QED
    BY <1>1, <2>1, ProcessesKept
<1> QED
  BY <1>1, <1>4, <1>5, <1>6, <1>8, <1>9, <1>10 DEF SInv

LEMMA ReleaseStep ==
    ASSUME SInv, Named, NEW c \in CPU, release(c)
    PROVE  SInv'
<1> DEFINE x == cpu[c]
           y == cpu'[c]
<1>1. PICK l \in (IF cpu[c].frame THEN cpu[c].intr ELSE Held(c)) :
          /\ owner' = [owner EXCEPT ![l] = None]
          /\ cpu' = [cpu EXCEPT ![c] = [popcli(cpu[c]) EXCEPT !.intr = @ \ {l}]]
          /\ panicked' = (cpu[c].if \/ cpu[c].ncli = 0)
  BY DEF release
<1>2. ~Busy(c) /\ ths' = ths
  BY DEF release
<1>3. x \in Cpus /\ Counted(c) /\ Flagged(c) /\ x.spin = NoSpin
  BY <1>2 DEF SInv, Busy
<1>4. l \in Lock /\ owner[l] = c
  <2>1. l \in Held(c)
    BY <1>1, <1>3, Zenon DEF Counted
  <2> QED
    BY <2>1 DEF Held
<1>5. x.ncli \in 1 .. 2 /\ ~x.if
  <2>1. x.ncli \in 1 .. 2
    BY <1>2, <1>3, <1>4 DEF Counted, Depth, Lock
  <2> QED
    BY <1>3, <2>1 DEF Counted
<1>6. /\ y \in Cpus /\ (y.if <=> x.ncli = 1 /\ x.intena) /\ y.ncli = x.ncli - 1
      /\ (y.intena <=> x.intena) /\ y.spin = x.spin /\ y.proc = x.proc
      /\ (y.frame <=> x.frame) /\ y.intr = x.intr \ {l}
  <2>1. y = [popcli(x) EXCEPT !.intr = @ \ {l}]
    BY <1>1 DEF SInv
  <2> HIDE DEF y
  <2> QED
    BY <1>3, <1>4, <1>5, <2>1, PopFields, Zenon
<1>7. cpu' \in [CPU -> Cpus] /\ \A d \in CPU : d # c => cpu'[d] = cpu[d]
  BY <1>1, <1>6 DEF SInv
<1>8. owner' \in [Lock -> CPU \cup {None}] /\ owner'[l] = None /\ \A m \in Lock : m # l => owner'[m] = owner[m]
  BY <1>1, <1>4 DEF SInv
<1> HIDE DEF x, y
<1>9. \A d \in CPU : d # c => Counted(d)' /\ Flagged(d)'
  <2>1. \A d \in CPU, m \in Lock : d # c => (owner'[m] = d <=> owner[m] = d)
    BY <1>4, <1>8 DEF Named
  <2> QED
    BY <1>2, <1>7, <2>1, OthersKept
<1>10. ~Busy(c)' /\ (Runs(c)' <=> Runs(c)) /\ Held(c)' = Held(c) \ {l} /\ (InForkret(c)' <=> InForkret(c))
  <2>1. Held(c)' = Held(c) \ {l}
    BY <1>4, <1>8 DEF Held, Named
  <2> QED
    BY <1>2, <1>3, <1>6, <2>1 DEF Busy, Runs, InForkret, x, y
<1>11. Counted(c)'
  <2>1. y.ncli = Depth(c)'
    <3>1. owner'[l] # c
      BY <1>8 DEF Named
    <3> QED
      BY <1>2, <1>3, <1>4, <1>5, <1>6, <1>8, <1>10, <3>1 DEF Counted, Depth, Lock, x
  <2>2. y.frame => y.intr = Held(c)'
    BY <1>3, <1>6, <1>10 DEF Counted, x
  <2>3. ~Runs(c)' /\ ~y.frame => owner'["dev"] # c /\ y.spin # "dev"
    BY <1>3, <1>4, <1>6, <1>8, <1>10 DEF Counted, x, NoSpin, Lock, Named
  <2>4. y.if => y.ncli = 0
    BY <1>5, <1>6
  <2> QED
    BY <1>10, <2>1, <2>2, <2>3, <2>4 DEF Counted, y
<1>12. Flagged(c)'
  <2>1. Runs(c) /\ ~InForkret(c) => (x.intena <=> ~x.frame)
    BY <1>3, <1>5 DEF Flagged, x
  <2>2. y.ncli = 0 => (y.if <=> x.intena)
    BY <1>5, <1>6
  <2> QED
    BY <1>6, <1>10, <2>1, <2>2 DEF Flagged, y
<1>13. Saved' /\ OneProcessor'
  <2>1. \A d \in CPU : cpu'[d].proc = cpu[d].proc
    BY <1>6, <1>7 DEF x, y
  <2> QED
    BY <1>2, <2>1, ProcessesKept
<1>14. panicked' \in BOOLEAN /\ ~panicked'
  <2>1. x.ncli # 0
    BY <1>5
  <2> QED
    BY <1>1, <1>5, <2>1, Zenon DEF x
<1> QED
  BY <1>2, <1>7, <1>8, <1>9, <1>11, <1>12, <1>13, <1>14 DEF SInv

-------------------------------------------------------------------------------
(* trap.c and the flag *)

\* if and frame of c are set; the locks and the processes are left alone.
LEMMA FlagFields ==
    ASSUME cpu \in [CPU -> Cpus], NEW c \in CPU, NEW b \in BOOLEAN, NEW f \in BOOLEAN, NEW S \in SUBSET Lock,
           cpu' = [cpu EXCEPT ![c].if = b, ![c].frame = f, ![c].intr = S]
    PROVE  /\ cpu' \in [CPU -> Cpus] /\ \A d \in CPU : d # c => cpu'[d] = cpu[d]
           /\ cpu'[c].if = b /\ cpu'[c].frame = f /\ cpu'[c].intr = S
           /\ cpu'[c].ncli = cpu[c].ncli /\ (cpu'[c].intena <=> cpu[c].intena)
           /\ cpu'[c].proc = cpu[c].proc /\ cpu'[c].spin = cpu[c].spin
<1>1. cpu'[c] = [cpu[c] EXCEPT !.if = b, !.frame = f, !.intr = S] /\ cpu[c] \in Cpus
  OBVIOUS
<1>2. cpu'[c] \in Cpus
  BY <1>1 DEF Cpus
<1>3. cpu' \in [CPU -> Cpus] /\ \A d \in CPU : d # c => cpu'[d] = cpu[d]
  BY <1>2
<1> QED
  BY <1>1, <1>3 DEF Cpus

\* The invariant, when it holds of c and nothing but cpu[c] changes, the process excepted.
LEMMA FlagStep ==
    ASSUME SInv, NEW c \in CPU, cpu' \in [CPU -> Cpus], \A d \in CPU : d # c => cpu'[d] = cpu[d],
           cpu'[c].proc = cpu[c].proc, UNCHANGED <<owner, ths, panicked>>,
           Counted(c)', Flagged(c)'
    PROVE  SInv'
<1>1. \A d \in CPU : d # c => Counted(d)' /\ Flagged(d)'
  BY OthersKept
<1>2. Saved' /\ OneProcessor'
  BY ProcessesKept
<1> QED
  BY <1>1, <1>2 DEF SInv

\* c keeps its locks and the process in it, whatever becomes of its flags.
LEMMA SameLocks ==
    ASSUME SInv, NEW c \in CPU, cpu'[c].proc = cpu[c].proc, cpu'[c].spin = cpu[c].spin, UNCHANGED <<owner, ths>>
    PROVE  /\ (Runs(c)' <=> Runs(c)) /\ (Busy(c)' <=> Busy(c)) /\ Held(c)' = Held(c)
           /\ (InForkret(c)' <=> InForkret(c)) /\ Depth(c)' = Depth(c)
<1>1. (Runs(c)' <=> Runs(c)) /\ (Busy(c)' <=> Busy(c)) /\ Held(c)' = Held(c)
  BY DEF Runs, Busy, Held
<1> QED
  BY <1>1 DEF InForkret, Depth

LEMMA InterruptStep ==
    ASSUME SInv, Named, NEW c \in CPU, Interrupt(c)
    PROVE  SInv'
<1> DEFINE x == cpu[c]
           y == cpu'[c]
<1>1. /\ x.if /\ ~x.frame /\ UNCHANGED <<owner, ths, panicked>>
      /\ cpu' = [cpu EXCEPT ![c].if = FALSE, ![c].frame = TRUE, ![c].intr = {}]
  BY DEF Interrupt
<1>2. x \in Cpus /\ Counted(c) /\ Flagged(c) /\ cpu \in [CPU -> Cpus]
  BY DEF SInv
<1>3. /\ cpu' \in [CPU -> Cpus] /\ \A d \in CPU : d # c => cpu'[d] = cpu[d]
      /\ y.if = FALSE /\ y.frame = TRUE /\ y.intr = {}
      /\ y.ncli = x.ncli /\ (y.intena <=> x.intena) /\ y.proc = x.proc /\ y.spin = x.spin
  <2>1. \A b \in BOOLEAN, f \in BOOLEAN, S \in SUBSET Lock :
          cpu' = [cpu EXCEPT ![c].if = b, ![c].frame = f, ![c].intr = S] =>
          /\ cpu' \in [CPU -> Cpus] /\ \A d \in CPU : d # c => cpu'[d] = cpu[d]
          /\ y.if = b /\ y.frame = f /\ y.intr = S
          /\ y.ncli = x.ncli /\ (y.intena <=> x.intena) /\ y.proc = x.proc /\ y.spin = x.spin
    BY <1>2, FlagFields, ZenonT(40)
  <2>2. FALSE \in BOOLEAN /\ TRUE \in BOOLEAN /\ {} \in SUBSET Lock
    OBVIOUS
  <2> HIDE DEF x, y
  <2> QED
    BY <1>1, <2>1, <2>2, Zenon
<1>4. ~y.if /\ y.frame
  BY <1>3, Zenon
<1> HIDE DEF x, y
<1>5. /\ (Runs(c)' <=> Runs(c)) /\ (Busy(c)' <=> Busy(c)) /\ Held(c)' = Held(c)
      /\ (InForkret(c)' <=> InForkret(c)) /\ Depth(c)' = Depth(c)
  BY <1>1, <1>3, SameLocks DEF x, y
<1>6. x.ncli = 0 /\ owner["dev"] # c /\ owner["ptable"] # c /\ ~Busy(c)
  BY <1>1, <1>2 DEF Counted, Depth, x
<1>7. Held(c) = {}
  BY <1>6 DEF Held, Lock
<1>8. Counted(c)'
  BY <1>2, <1>3, <1>4, <1>5, <1>6, <1>7 DEF Counted, x, y
<1>9. Flagged(c)'
  BY <1>3, <1>4, <1>6 DEF Flagged, y
<1> QED
  BY <1>1, <1>3, <1>8, <1>9, FlagStep DEF x, y

LEMMA IretStep ==
    ASSUME SInv, Named, NEW c \in CPU, Iret(c)
    PROVE  SInv'
<1> DEFINE x == cpu[c]
           y == cpu'[c]
<1>1. /\ x.frame /\ ~Busy(c) /\ x.intr = {} /\ UNCHANGED <<owner, ths, panicked>>
      /\ cpu' = [cpu EXCEPT ![c].if = TRUE, ![c].frame = FALSE]
  BY DEF Iret
<1>2. x \in Cpus /\ Counted(c) /\ Flagged(c) /\ cpu \in [CPU -> Cpus]
  BY DEF SInv
<1>3. /\ cpu' \in [CPU -> Cpus] /\ \A d \in CPU : d # c => cpu'[d] = cpu[d]
      /\ y.if = TRUE /\ y.frame = FALSE /\ y.intr = x.intr
      /\ y.ncli = x.ncli /\ (y.intena <=> x.intena) /\ y.proc = x.proc /\ y.spin = x.spin
  <2>1. \A b \in BOOLEAN, f \in BOOLEAN :
          cpu' = [cpu EXCEPT ![c].if = b, ![c].frame = f] =>
          /\ cpu' \in [CPU -> Cpus] /\ \A d \in CPU : d # c => cpu'[d] = cpu[d]
          /\ y.if = b /\ y.frame = f /\ y.intr = x.intr
          /\ y.ncli = x.ncli /\ (y.intena <=> x.intena) /\ y.proc = x.proc /\ y.spin = x.spin
    <3> SUFFICES ASSUME NEW b \in BOOLEAN, NEW f \in BOOLEAN, cpu' = [cpu EXCEPT ![c].if = b, ![c].frame = f]
                 PROVE  /\ cpu' \in [CPU -> Cpus] /\ \A d \in CPU : d # c => cpu'[d] = cpu[d]
                        /\ y.if = b /\ y.frame = f /\ y.intr = x.intr
                        /\ y.ncli = x.ncli /\ (y.intena <=> x.intena) /\ y.proc = x.proc /\ y.spin = x.spin
      OBVIOUS
    <3>1. y = [x EXCEPT !.if = b, !.frame = f]
      BY <1>2
    <3>2. y \in Cpus
      BY <1>2, <3>1 DEF Cpus
    <3>3. cpu' \in [CPU -> Cpus] /\ \A d \in CPU : d # c => cpu'[d] = cpu[d]
      BY <1>2, <3>2
    <3> HIDE DEF x, y
    <3> QED
      BY <1>2, <3>1, <3>3 DEF Cpus
  <2>2. FALSE \in BOOLEAN /\ TRUE \in BOOLEAN
    OBVIOUS
  <2> HIDE DEF x, y
  <2> QED
    BY <1>1, <2>1, <2>2, Zenon
<1>4. y.if /\ ~y.frame
  BY <1>3, Zenon
<1> HIDE DEF x, y
<1>5. /\ (Runs(c)' <=> Runs(c)) /\ (Busy(c)' <=> Busy(c)) /\ Held(c)' = Held(c)
      /\ (InForkret(c)' <=> InForkret(c)) /\ Depth(c)' = Depth(c)
  BY <1>1, <1>3, SameLocks DEF x, y
<1>6. Held(c) = {}
  BY <1>1, <1>2 DEF Counted, x
<1>7. x.ncli = 0 /\ owner["dev"] # c /\ x.spin = NoSpin
  <2>1. owner["dev"] # c /\ owner["ptable"] # c
    BY <1>6 DEF Held, Lock
  <2> QED
    BY <1>1, <1>2, <2>1 DEF Counted, Depth, x, Busy
<1>8. Counted(c)'
  BY <1>1, <1>2, <1>3, <1>4, <1>5, <1>7 DEF Counted, x, y, NoSpin
<1>9. Flagged(c)'
  BY <1>3, <1>4, <1>7 DEF Flagged, y
<1> QED
  BY <1>1, <1>3, <1>8, <1>9, FlagStep DEF x, y

\* The flag of c is set by sti() in the scheduler or by the return from forkret().
LEMMA SetFields ==
    ASSUME cpu \in [CPU -> Cpus], NEW c \in CPU, cpu' = [cpu EXCEPT ![c].if = TRUE]
    PROVE  /\ cpu' \in [CPU -> Cpus] /\ \A d \in CPU : d # c => cpu'[d] = cpu[d]
           /\ cpu'[c].if /\ (cpu'[c].frame <=> cpu[c].frame) /\ cpu'[c].intr = cpu[c].intr
           /\ cpu'[c].ncli = cpu[c].ncli /\ (cpu'[c].intena <=> cpu[c].intena)
           /\ cpu'[c].proc = cpu[c].proc /\ cpu'[c].spin = cpu[c].spin
<1>1. \A b \in BOOLEAN :
          cpu' = [cpu EXCEPT ![c].if = b] =>
          /\ cpu' \in [CPU -> Cpus] /\ \A d \in CPU : d # c => cpu'[d] = cpu[d]
          /\ cpu'[c].if = b /\ cpu'[c].frame = cpu[c].frame /\ cpu'[c].intr = cpu[c].intr
          /\ cpu'[c].ncli = cpu[c].ncli /\ cpu'[c].intena = cpu[c].intena
          /\ cpu'[c].proc = cpu[c].proc /\ cpu'[c].spin = cpu[c].spin
  <2> SUFFICES ASSUME NEW b \in BOOLEAN, cpu' = [cpu EXCEPT ![c].if = b]
               PROVE  /\ cpu' \in [CPU -> Cpus] /\ \A d \in CPU : d # c => cpu'[d] = cpu[d]
                      /\ cpu'[c].if = b /\ cpu'[c].frame = cpu[c].frame /\ cpu'[c].intr = cpu[c].intr
                      /\ cpu'[c].ncli = cpu[c].ncli /\ cpu'[c].intena = cpu[c].intena
                      /\ cpu'[c].proc = cpu[c].proc /\ cpu'[c].spin = cpu[c].spin
    OBVIOUS
  <2>1. cpu'[c] = [cpu[c] EXCEPT !.if = b] /\ cpu[c] \in Cpus
    OBVIOUS
  <2>2. cpu'[c] \in Cpus
    BY <2>1 DEF Cpus
  <2> QED
    BY <2>1, <2>2 DEF Cpus
<1>2. TRUE \in BOOLEAN
  OBVIOUS
<1> QED
  BY <1>1, <1>2, Zenon

\* The flag may be set where no lock is held and none is asked for.
LEMMA SetCounted ==
    ASSUME SInv, NEW c \in CPU, cpu' = [cpu EXCEPT ![c].if = TRUE], owner' = owner,
           ~cpu[c].frame, ~Busy(c), Held(c) = {}
    PROVE  Counted(c)' /\ cpu'[c].ncli = 0 /\ cpu'[c].if /\ ~cpu'[c].frame
<1>1. /\ cpu'[c].if /\ (cpu'[c].frame <=> cpu[c].frame) /\ cpu'[c].intr = cpu[c].intr
      /\ cpu'[c].ncli = cpu[c].ncli /\ cpu'[c].proc = cpu[c].proc /\ cpu'[c].spin = cpu[c].spin
  BY SetFields DEF SInv
<1>2. owner["dev"] # c /\ owner["ptable"] # c
  BY DEF Held, Lock
<1>3. Counted(c) /\ cpu[c].ncli = 0
  BY <1>2 DEF SInv, Counted, Depth
<1>4. (Runs(c)' <=> Runs(c)) /\ ~Busy(c)'
  BY <1>1 DEF Runs, Busy
<1>5. Depth(c)' = 0
  BY <1>2, <1>4 DEF Depth
<1> QED
  BY <1>1, <1>2, <1>3, <1>4, <1>5 DEF Counted, Busy, NoSpin

LEMMA StiStep ==
    ASSUME SInv, Named, NEW c \in CPU, sti(c)
    PROVE  SInv'
<1>1. /\ ~Runs(c) /\ ~cpu[c].frame /\ ~Busy(c) /\ Held(c) = {}
      /\ cpu' = [cpu EXCEPT ![c].if = TRUE] /\ UNCHANGED <<owner, ths, panicked>>
  BY DEF sti
<1>2. /\ cpu' \in [CPU -> Cpus] /\ \A d \in CPU : d # c => cpu'[d] = cpu[d]
      /\ cpu'[c].proc = cpu[c].proc
  BY <1>1, SetFields DEF SInv
<1>3. Counted(c)'
  BY <1>1, SetCounted
<1>4. Flagged(c)'
  BY <1>1, <1>2 DEF Flagged, Runs
<1> QED
  BY <1>1, <1>2, <1>3, <1>4, FlagStep

LEMMA ForkRetStep ==
    ASSUME SInv, Named, NEW c \in CPU, ForkRet(c)
    PROVE  SInv'
<1> DEFINE t == cpu[c].proc
<1>1. /\ InForkret(c) /\ ~cpu[c].frame /\ ~Busy(c) /\ Held(c) = {}
      /\ cpu' = [cpu EXCEPT ![c].if = TRUE] /\ owner' = owner /\ panicked' = panicked
      /\ ths' = [ths EXCEPT ![t].phase = "old"]
  BY DEF ForkRet
<1>2. t \in Thread /\ cpu[c] \in Cpus
  BY <1>1 DEF SInv, InForkret, Runs, Cpus
<1>3. /\ cpu' \in [CPU -> Cpus] /\ \A d \in CPU : d # c => cpu'[d] = cpu[d]
      /\ cpu'[c].proc = cpu[c].proc
  BY <1>1, SetFields DEF SInv
<1>4. /\ ths' \in [Thread -> Threads] /\ \A u \in Thread : ths'[u].state = ths[u].state
      /\ (\A u \in Thread : u # t => ths'[u] = ths[u]) /\ ths'[t].phase = "old"
  BY <1>1, <1>2 DEF SInv, Threads
<1>5. ths[t].state = "running" /\ \A d \in CPU : d # c => cpu[d].proc # t
  BY <1>1, <1>2 DEF SInv, OneProcessor, InForkret, Runs
<1> HIDE DEF t
<1>6. \A d \in CPU : d # c => Counted(d)' /\ Flagged(d)'
  <2>1. \A d \in CPU : d # c /\ cpu[d].proc # None => ths'[cpu[d].proc].phase = ths[cpu[d].proc].phase
    BY <1>4, <1>5 DEF SInv, Cpus
  <2> QED
    BY <1>1, <1>3, <2>1, OthersKept
<1>7. Counted(c)' /\ cpu'[c].ncli = 0 /\ cpu'[c].if /\ ~cpu'[c].frame
  BY <1>1, SetCounted
<1>8. Flagged(c)'
  BY <1>7 DEF Flagged
<1>9. Saved'
  <2>1. ths'[t].state = "running" /\ ths'[t].phase = "old"
    BY <1>2, <1>4, <1>5
  <2> SUFFICES ASSUME NEW u \in Thread
               PROVE  /\ (ths'[u].state \in {"runnable", "sleeping"} /\ ths'[u].phase = "old" =>
                             (ths'[u].intena <=> ~ths'[u].frame))
                      /\ (ths'[u].state = "running" => ths'[u].phase # "new")
    BY DEF Saved
  <2>2. CASE u = t
    BY <2>1, <2>2
  <2>3. CASE u # t
    BY <1>4, <2>3 DEF SInv, Saved
  <2> QED
    BY <2>2, <2>3
<1>10. OneProcessor'
  <2>1. \A d \in CPU : cpu'[d].proc = cpu[d].proc
    BY <1>3
  <2> QED
    BY <1>4, <2>1 DEF SInv, OneProcessor, Runs
<1> QED
  BY <1>1, <1>3, <1>4, <1>6, <1>7, <1>8, <1>9, <1>10 DEF SInv

-------------------------------------------------------------------------------
(* proc.c *)

\* A step that changes a process that is on no processor, and leaves it on none.
LEMMA TableStep ==
    ASSUME SInv, NEW t \in Thread, NEW r \in Threads, ths[t].state # "running",
           ths' = [ths EXCEPT ![t] = r], r.state # "running",
           r.state \in {"runnable", "sleeping"} /\ r.phase = "old" => (r.intena <=> ~r.frame),
           UNCHANGED <<cpu, owner, panicked>>
    PROVE  SInv'
<1>1. ths' \in [Thread -> Threads] /\ ths'[t] = r /\ \A u \in Thread : u # t => ths'[u] = ths[u]
  BY DEF SInv
<1>2. \A d \in CPU : cpu[d].proc # t
  BY DEF SInv, OneProcessor
<1>3. \A d \in CPU : Counted(d)'
  <2> SUFFICES ASSUME NEW d \in CPU PROVE Counted(d)'
    OBVIOUS
  <2>1. Depth(d)' = Depth(d) /\ Held(d)' = Held(d)
    BY DEF Depth, Held, Busy
  <2> QED
    BY <2>1 DEF SInv, Counted, Runs, Busy
<1>4. \A d \in CPU : Flagged(d)'
  <2> SUFFICES ASSUME NEW d \in CPU PROVE Flagged(d)'
    OBVIOUS
  <2>1. InForkret(d)' <=> InForkret(d)
    BY <1>1, <1>2 DEF SInv, Cpus, InForkret, Runs
  <2> QED
    BY <2>1 DEF SInv, Flagged, Runs
<1>5. Saved'
  <2> SUFFICES ASSUME NEW u \in Thread
               PROVE  /\ (ths'[u].state \in {"runnable", "sleeping"} /\ ths'[u].phase = "old" =>
                             (ths'[u].intena <=> ~ths'[u].frame))
                      /\ (ths'[u].state = "running" => ths'[u].phase # "new")
    BY DEF Saved
  <2>1. CASE u = t
    BY <1>1, <2>1
  <2>2. CASE u # t
    BY <1>1, <2>2 DEF SInv, Saved
  <2> QED
    BY <2>1, <2>2
<1>6. OneProcessor'
  BY <1>1, <1>2 DEF SInv, OneProcessor, Runs
<1> QED
  BY <1>1, <1>3, <1>4, <1>5, <1>6 DEF SInv

LEMMA ForkStep ==
    ASSUME SInv, NEW c \in CPU, fork(c)
    PROVE  SInv'
<1>1. PICK t \in Thread : ths[t].state = "unused" /\ ths' = [ths EXCEPT ![t] = New]
  BY DEF fork
<1>2. UNCHANGED <<cpu, owner, panicked>>
  BY DEF fork
<1>3. New \in Threads /\ New.state = "runnable" /\ New.phase = "new"
  BY DEF New, Unused, Threads
<1> QED
  BY <1>1, <1>2, <1>3, TableStep

LEMMA WakeupStep ==
    ASSUME SInv, NEW c \in CPU, wakeup(c)
    PROVE  SInv'
<1>1. PICK t \in Thread : ths[t].state = "sleeping" /\ ths' = [ths EXCEPT ![t].state = "runnable"]
  BY DEF wakeup
<1>2. UNCHANGED <<cpu, owner, panicked>>
  BY DEF wakeup
<1> DEFINE r == [ths[t] EXCEPT !.state = "runnable"]
<1>3. ths[t] \in Threads /\ ths' = [ths EXCEPT ![t] = r]
  BY <1>1 DEF SInv
<1>4. /\ r \in Threads /\ r.state = "runnable" /\ r.phase = ths[t].phase
      /\ (r.intena <=> ths[t].intena) /\ (r.frame <=> ths[t].frame)
  BY <1>3 DEF Threads
<1>5. ths[t].phase = "old" => (ths[t].intena <=> ~ths[t].frame)
  BY <1>1 DEF SInv, Saved
<1> HIDE DEF r
<1> QED
  BY <1>1, <1>2, <1>3, <1>4, <1>5, TableStep

\* Whoever gives up the processor, or gets it, holds ptable.lock and nothing else.
LEMMA AtSwitch ==
    ASSUME SInv, NEW c \in CPU, HasPtable(c), owner["dev"] # c
    PROVE  cpu[c].ncli = 1 /\ ~cpu[c].if /\ Held(c) = {"ptable"} /\ cpu[c].spin = NoSpin
<1>1. Counted(c) /\ ~Busy(c) /\ owner["ptable"] = c
  BY DEF SInv, HasPtable
<1>2. cpu[c].ncli = 1
  BY <1>1 DEF Counted, Depth
<1>3. ~cpu[c].if
  BY <1>1, <1>2 DEF Counted
<1> QED
  BY <1>1, <1>2, <1>3 DEF Held, Lock, Busy

LEMMA SchedStep ==
    ASSUME SInv, Named, NEW c \in CPU, sched(c)
    PROVE  SInv'
<1> DEFINE x == cpu[c]
           y == cpu'[c]
           t == cpu[c].proc
<1>1. /\ HasPtable(c) /\ Runs(c) /\ (x.frame => x.intr = {"ptable"}) /\ ("dev" \in Held(c) => x.frame)
      /\ panicked' = (x.ncli # 1 \/ x.if) /\ owner' = owner
      /\ cpu' = [cpu EXCEPT ![c].proc = None, ![c].frame = FALSE, ![c].intr = {}]
  BY DEF sched
<1>2. PICK state \in {"runnable", "sleeping", "unused"} :
          ths' = [ths EXCEPT ![t] = IF state = "unused" THEN Unused
                                    ELSE [@ EXCEPT !.state = state, !.intena = x.intena, !.frame = x.frame]]
  BY DEF sched
<1>3. x \in Cpus /\ cpu \in [CPU -> Cpus] /\ Counted(c) /\ Flagged(c) /\ t \in Thread /\ ths[t] \in Threads
  BY <1>1 DEF SInv, Runs, Cpus
<1>4. owner["dev"] # c
  <2>1. "dev" \notin Held(c)
    BY <1>1, <1>3 DEF Counted
  <2> QED
    BY <2>1 DEF Held, Lock
<1>5. x.ncli = 1 /\ ~x.if /\ Held(c) = {"ptable"} /\ x.spin = NoSpin
  BY <1>1, <1>4, AtSwitch
<1>6. /\ y \in Cpus /\ y.proc = None /\ y.frame = FALSE /\ y.intr = {}
      /\ (y.if <=> x.if) /\ y.ncli = x.ncli /\ y.spin = x.spin
  <2>1. PICK b \in BOOLEAN : b = FALSE
    OBVIOUS
  <2>2. y = [x EXCEPT !.proc = None, !.frame = b, !.intr = {}]
    BY <1>1, <1>3, <2>1, Zenon
  <2> HIDE DEF x, y
  <2>3. /\ y \in Cpus /\ y.proc = None /\ y.frame = b /\ y.intr = {}
        /\ (y.if <=> x.if) /\ y.ncli = x.ncli /\ y.spin = x.spin
    BY <1>3, <2>2 DEF Cpus
  <2> QED
    BY <2>1, <2>3, Zenon
<1>7. cpu' \in [CPU -> Cpus] /\ \A d \in CPU : d # c => cpu'[d] = cpu[d]
  <2>1. \A d \in CPU : d # c => cpu'[d] = cpu[d]
    BY <1>1, <1>3, Zenon
  <2>2. cpu' = [d \in CPU |-> cpu'[d]]
    BY <1>1, <1>3, Zenon
  <2> HIDE DEF y
  <2>3. \A d \in CPU : cpu'[d] \in Cpus
    BY <1>3, <1>6, <2>1 DEF y
  <2> QED
    BY <2>1, <2>2, <2>3, Zenon
<1> DEFINE r == IF state = "unused" THEN Unused
                ELSE [ths[t] EXCEPT !.state = state, !.intena = x.intena, !.frame = x.frame]
<1>8. /\ r \in Threads /\ r.state = state
      /\ (state # "unused" => r.phase = ths[t].phase /\ (r.intena <=> x.intena) /\ (r.frame <=> x.frame))
  <2>1. CASE state = "unused"
    <3>1. Unused \in Threads /\ Unused.state = "unused"
      BY DEF Unused, Threads
    <3> QED
      BY <2>1, <3>1
  <2>2. CASE state # "unused"
    <3>1. x.intena \in BOOLEAN /\ x.frame \in BOOLEAN
      BY <1>3 DEF Cpus
    <3> HIDE DEF x
    <3> QED
      BY <1>3, <2>2, <3>1 DEF Threads
  <2> QED
    BY <2>1, <2>2
<1>9. ths' \in [Thread -> Threads] /\ ths'[t] = r /\ \A u \in Thread : u # t => ths'[u] = ths[u]
  <2>1. ths' = [ths EXCEPT ![t] = r]
    BY <1>2
  <2> HIDE DEF r
  <2> QED
    BY <1>3, <1>8, <2>1 DEF SInv
<1> HIDE DEF r
<1>10. ths[t].state = "running" /\ \A d \in CPU : d # c => cpu[d].proc # t
  BY <1>1, <1>3 DEF SInv, OneProcessor, Runs
<1> HIDE DEF x, y, t
<1>11. \A d \in CPU : d # c => Counted(d)' /\ Flagged(d)'
  <2>1. \A d \in CPU : d # c /\ cpu[d].proc # None => ths'[cpu[d].proc].phase = ths[cpu[d].proc].phase
    BY <1>3, <1>9, <1>10 DEF Cpus
  <2> QED
    BY <1>1, <1>7, <2>1, OthersKept
<1>12. ~Runs(c)' /\ ~Busy(c)' /\ ~y.frame /\ ~y.if
  BY <1>5, <1>6 DEF Runs, Busy, y
<1>13. Counted(c)'
  <2>1. Depth(c)' = 1
    BY <1>1, <1>4, <1>12 DEF Depth, HasPtable
  <2> QED
    BY <1>1, <1>4, <1>5, <1>6, <1>12, <2>1 DEF Counted, y, NoSpin
<1>14. Flagged(c)'
  BY <1>12 DEF Flagged
<1>15. Saved'
  <2> SUFFICES ASSUME NEW u \in Thread
               PROVE  /\ (ths'[u].state \in {"runnable", "sleeping"} /\ ths'[u].phase = "old" =>
                             (ths'[u].intena <=> ~ths'[u].frame))
                      /\ (ths'[u].state = "running" => ths'[u].phase # "new")
    BY DEF Saved
  <2>1. CASE u = t
    <3>1. state # "unused" /\ r.phase = "old" => ~InForkret(c)
      BY <1>8 DEF InForkret, t
    <3>2. ~InForkret(c) => (x.intena <=> ~x.frame)
      BY <1>1, <1>3, <1>5 DEF Flagged, x
    <3> QED
      BY <1>2, <1>8, <1>9, <2>1, <3>1, <3>2
  <2>2. CASE u # t
    BY <1>9, <2>2 DEF SInv, Saved
  <2> QED
    BY <2>1, <2>2
<1>16. OneProcessor'
  <2>1. \A d, e \in CPU : Runs(d)' /\ cpu'[d].proc = cpu'[e].proc => d = e
    BY <1>6, <1>7 DEF SInv, OneProcessor, Runs, y
  <2> SUFFICES ASSUME NEW u \in Thread
               PROVE  ths'[u].state = "running" <=> \E d \in CPU : cpu'[d].proc = u
    BY <2>1 DEF OneProcessor
  <2>2. CASE u = t
    BY <1>2, <1>6, <1>7, <1>8, <1>9, <1>10, <2>2 DEF Named, y
  <2>3. CASE u # t
    BY <1>6, <1>7, <1>9, <2>3 DEF SInv, OneProcessor, Named, y, t
  <2> QED
    BY <2>2, <2>3
<1>17. panicked' \in BOOLEAN /\ ~panicked'
  BY <1>1, <1>5, Zenon
<1> QED
  BY <1>1, <1>7, <1>9, <1>11, <1>13, <1>14, <1>15, <1>16, <1>17 DEF SInv

LEMMA SwtchStep ==
    ASSUME SInv, Named, NEW c \in CPU, Swtch(c)
    PROVE  SInv'
<1> DEFINE x == cpu[c]
           y == cpu'[c]
<1>1. HasPtable(c) /\ ~Runs(c) /\ ~x.frame /\ owner' = owner /\ panicked' = panicked
  BY DEF Swtch
<1>2. PICK t \in Thread :
          /\ ths[t].state = "runnable"
          /\ ths' = [ths EXCEPT ![t].state = "running", ![t].phase = IF @ = "new" THEN "forkret" ELSE @]
          /\ cpu' = [cpu EXCEPT ![c].proc = t, ![c].frame = ths[t].frame,
                                ![c].intr = IF ths[t].frame THEN {"ptable"} ELSE {},
                                ![c].intena = Restored(c, t)]
  BY DEF Swtch
<1>3. x \in Cpus /\ cpu \in [CPU -> Cpus] /\ Counted(c) /\ ths[t] \in Threads
  BY DEF SInv
<1>4. owner["dev"] # c
  BY <1>1, <1>3 DEF Counted
<1>5. x.ncli = 1 /\ ~x.if /\ Held(c) = {"ptable"} /\ x.spin = NoSpin
  BY <1>1, <1>4, AtSwitch
<1> DEFINE S == IF ths[t].frame THEN {"ptable"} ELSE {}
           i == Restored(c, t)
           f == ths[t].frame
<1>6. S \in SUBSET Lock /\ i \in BOOLEAN /\ f \in BOOLEAN
  BY <1>3 DEF Restored, Cpus, Threads, Lock
<1>7. /\ y \in Cpus /\ y.proc = t /\ y.frame = f /\ y.intr = S /\ y.intena = i
      /\ (y.if <=> x.if) /\ y.ncli = x.ncli /\ y.spin = x.spin
  <2>1. y = [x EXCEPT !.proc = t, !.frame = f, !.intr = S, !.intena = i]
    BY <1>2, <1>3, Zenon
  <2> HIDE DEF x, y, S, i, f
  <2> QED
    BY <1>3, <1>6, <2>1 DEF Cpus
<1>8. cpu' \in [CPU -> Cpus] /\ \A d \in CPU : d # c => cpu'[d] = cpu[d]
  <2>1. \A d \in CPU : d # c => cpu'[d] = cpu[d]
    BY <1>2, <1>3, Zenon
  <2>2. cpu' = [d \in CPU |-> cpu'[d]]
    BY <1>2, <1>3, Zenon
  <2> HIDE DEF y, S, i, f
  <2>3. \A d \in CPU : cpu'[d] \in Cpus
    BY <1>3, <1>7, <2>1 DEF y
  <2> QED
    BY <2>1, <2>2, <2>3, Zenon
<1>9. /\ ths' \in [Thread -> Threads] /\ (\A u \in Thread : u # t => ths'[u] = ths[u])
      /\ ths'[t].state = "running" /\ ths'[t].phase = IF ths[t].phase = "new" THEN "forkret" ELSE ths[t].phase
  BY <1>2, <1>3 DEF SInv, Threads
<1>10. \A d \in CPU : cpu[d].proc # t
  BY <1>2 DEF SInv, OneProcessor
<1>11. t # None
  BY DEF Named
<1>12. (f => S = {"ptable"}) /\ (~f => S = {}) /\ (ths[t].phase = "old" => (i <=> ~f))
  BY <1>2 DEF SInv, Saved, Restored
<1> HIDE DEF x, y, S, i, f
<1>13. \A d \in CPU : d # c => Counted(d)' /\ Flagged(d)'
  <2>1. \A d \in CPU : d # c /\ cpu[d].proc # None => ths'[cpu[d].proc].phase = ths[cpu[d].proc].phase
    BY <1>3, <1>9, <1>10 DEF Cpus
  <2> QED
    BY <1>1, <1>8, <2>1, OthersKept
<1>14. Runs(c)' /\ ~Busy(c)' /\ (y.frame <=> f) /\ (y.intena <=> i) /\ ~y.if /\ Held(c)' = {"ptable"}
  BY <1>1, <1>5, <1>7, <1>11 DEF Runs, Busy, y, Held
<1>15. Counted(c)'
  <2>1. Depth(c)' = 1
    BY <1>1, <1>4, <1>14 DEF Depth, HasPtable
  <2> QED
    BY <1>5, <1>7, <1>12, <1>14, <2>1 DEF Counted, y
<1>16. Flagged(c)'
  <2>1. ~InForkret(c)' => ths[t].phase = "old"
    BY <1>3, <1>7, <1>9, <1>14 DEF InForkret, y, Threads
  <2> QED
    BY <1>5, <1>7, <1>12, <1>14, <2>1 DEF Flagged, y
<1>17. Saved'
  <2> SUFFICES ASSUME NEW u \in Thread
               PROVE  /\ (ths'[u].state \in {"runnable", "sleeping"} /\ ths'[u].phase = "old" =>
                             (ths'[u].intena <=> ~ths'[u].frame))
                      /\ (ths'[u].state = "running" => ths'[u].phase # "new")
    BY DEF Saved
  <2>1. CASE u = t
    BY <1>9, <2>1
  <2>2. CASE u # t
    BY <1>9, <2>2 DEF SInv, Saved
  <2> QED
    BY <2>1, <2>2
<1>18. OneProcessor'
  <2>1. \A d, e \in CPU : Runs(d)' /\ cpu'[d].proc = cpu'[e].proc => d = e
    BY <1>7, <1>8, <1>10 DEF SInv, OneProcessor, Runs, y
  <2> SUFFICES ASSUME NEW u \in Thread
               PROVE  ths'[u].state = "running" <=> \E d \in CPU : cpu'[d].proc = u
    BY <2>1 DEF OneProcessor
  <2>2. CASE u = t
    BY <1>7, <1>9, <2>2 DEF y
  <2>3. CASE u # t
    <3>1. cpu[c].proc = None
      BY <1>1 DEF Runs
    <3> QED
      BY <1>7, <1>8, <1>9, <2>3, <3>1 DEF SInv, OneProcessor, Named, y
  <2> QED
    BY <2>2, <2>3
<1> QED
  BY <1>1, <1>8, <1>9, <1>13, <1>15, <1>16, <1>17, <1>18 DEF SInv

-------------------------------------------------------------------------------
(* Theorems *)

LEMMA InitInv ==
    ASSUME Named, Init
    PROVE  SInv
<1>1. PICK first \in Thread : ths = [t \in Thread |-> IF t = first THEN New ELSE Unused]
  BY DEF Init
<1>2. New \in Threads /\ New.state = "runnable" /\ New.phase = "new" /\ Unused \in Threads /\ Unused.state = "unused"
  BY DEF New, Unused, Threads
<1>3. /\ ths \in [Thread -> Threads]
      /\ \A t \in Thread : ths[t].state # "running" /\ (ths[t].phase = "new" \/ ths[t].state = "unused")
  BY <1>1, <1>2
<1> DEFINE x == [if |-> TRUE, ncli |-> 0, intena |-> FALSE, proc |-> None, spin |-> NoSpin,
                 frame |-> FALSE, intr |-> {}]
<1>4. /\ x \in Cpus /\ x.if = TRUE /\ x.ncli = 0 /\ x.proc = None /\ x.spin = NoSpin /\ x.frame = FALSE
  <2>1. \A b, i, f \in BOOLEAN : LET z == [if |-> b, ncli |-> 0, intena |-> i, proc |-> None, spin |-> NoSpin,
                                           frame |-> f, intr |-> {}]
                                 IN  z \in Cpus /\ z.if = b /\ z.ncli = 0 /\ z.proc = None /\ z.spin = NoSpin
                                     /\ z.frame = f
    BY DEF Cpus
  <2>2. TRUE \in BOOLEAN /\ FALSE \in BOOLEAN
    OBVIOUS
  <2> QED
    BY <2>1, <2>2, Zenon
<1>5. cpu = [c \in CPU |-> x] /\ owner = [l \in Lock |-> None] /\ panicked = FALSE
  BY Zenon DEF Init
<1> HIDE DEF x
<1>6. \A c \in CPU : cpu[c].if /\ cpu[c].ncli = 0 /\ cpu[c].proc = None /\ cpu[c].spin = NoSpin /\ ~cpu[c].frame
  BY <1>4, <1>5, Zenon
<1>7. cpu \in [CPU -> Cpus] /\ owner \in [Lock -> CPU \cup {None}] /\ panicked \in BOOLEAN /\ ~panicked
  BY <1>4, <1>5
<1>8. \A c \in CPU : Counted(c) /\ Flagged(c)
  <2> SUFFICES ASSUME NEW c \in CPU PROVE Counted(c) /\ Flagged(c)
    OBVIOUS
  <2>1. owner["dev"] # c /\ owner["ptable"] # c /\ ~Busy(c) /\ ~Runs(c)
    BY <1>5, <1>6 DEF Lock, Named, Busy, Runs
  <2>2. Depth(c) = 0
    BY <2>1 DEF Depth
  <2> QED
    BY <1>6, <2>1, <2>2 DEF Counted, Flagged, NoSpin
<1>9. Saved
  BY <1>3 DEF Saved
<1>10. OneProcessor
  BY <1>3, <1>6 DEF OneProcessor, Runs, Named
<1> QED
  BY <1>3, <1>7, <1>8, <1>9, <1>10 DEF SInv

LEMMA NextInv ==
    ASSUME Named, SInv, [Next]_spinVars
    PROVE  SInv'
<1>1. CASE UNCHANGED spinVars
  <2>1. cpu' = cpu /\ owner' = owner /\ ths' = ths /\ panicked' = panicked
    BY <1>1 DEF spinVars
  <2>2. \A c \in CPU : Counted(c)' /\ Flagged(c)'
    BY <2>1 DEF SInv, Counted, Flagged, Depth, Busy, Runs, Held, InForkret
  <2>3. Saved' /\ OneProcessor'
    BY <2>1, ProcessesKept
  <2> QED
    BY <2>1, <2>2, <2>3 DEF SInv
<1>2. ASSUME NEW c \in CPU,
             \/ acquire(c) \/ xchg(c) \/ release(c) \/ Interrupt(c) \/ Iret(c)
             \/ sched(c) \/ Swtch(c) \/ sti(c) \/ ForkRet(c) \/ fork(c) \/ wakeup(c)
      PROVE  SInv'
  BY <1>2, AcquireStep, XchgStep, ReleaseStep, InterruptStep, IretStep, SchedStep, SwtchStep, StiStep,
     ForkRetStep, ForkStep, WakeupStep
<1> QED
  BY <1>1, <1>2 DEF Next

\* The inductive invariant: ncli counts the locks, a flag is off while there are any, and
\* what release() will restore is that of the process.
THEOREM InvariantHolds ==
    ASSUME Named PROVE Spec => []SInv
<1>1. Init => SInv
  BY InitInv
<1>2. SInv /\ [Next]_spinVars => SInv'
  BY NextInv
<1> QED
  BY <1>1, <1>2, PTL DEF Spec

\* The fields of a processor and the owners of the locks keep their types; ncli, in particular,
\* is never more than 2 and, in popcli(), never less than 0.
THEOREM TypeCorrect ==
    ASSUME Named PROVE Spec => []TypeOK
<1>1. SInv => TypeOK
  BY Zenon DEF SInv, TypeOK, Cpus
<1> QED
  BY <1>1, InvariantHolds, PTL

\* As many locks as the two tests count.
LEMMA HeldCount ==
    ASSUME NEW c
    PROVE  Cardinality(Held(c)) = (IF owner["dev"] = c THEN 1 ELSE 0) + (IF owner["ptable"] = c THEN 1 ELSE 0)
<1>1. CASE owner["dev"] = c /\ owner["ptable"] = c
  <2>1. Held(c) = {"dev"} \cup {"ptable"} /\ "ptable" \notin {"dev"}
    BY <1>1 DEF Held, Lock
  <2>2. IsFiniteSet({"dev"}) /\ Cardinality({"dev"}) = 1
    BY FS_Singleton
  <2>3. Cardinality({"dev"} \cup {"ptable"}) = 2
    BY <2>1, <2>2, FS_AddElement
  <2> QED
    BY <1>1, <2>1, <2>3
<1>2. CASE owner["dev"] = c /\ owner["ptable"] # c
  <2>1. Held(c) = {"dev"}
    BY <1>2 DEF Held, Lock
  <2> QED
    BY <1>2, <2>1, FS_Singleton, SMTT(40)
<1>3. CASE owner["dev"] # c /\ owner["ptable"] = c
  <2>1. Held(c) = {"ptable"}
    BY <1>3 DEF Held, Lock
  <2>2. Cardinality({"ptable"}) = 1
    BY FS_Singleton
  <2> QED
    BY <1>3, <2>1, <2>2
<1>4. CASE owner["dev"] # c /\ owner["ptable"] # c
  <2>1. Held(c) = {}
    BY <1>4 DEF Held, Lock
  <2> QED
    BY <1>4, <2>1, FS_EmptySet
<1> QED
  BY <1>1, <1>2, <1>3, <1>4

\* acquire(), release(), popcli() and sched() never panic, on any number of processors: ncli is
\* the number of locks that a processor has or waits for, and interrupts are off while there are any.
THEOREM NeverPanicsHolds ==
    ASSUME Named PROVE Spec => []NeverPanics
<1>1. SInv => NeverPanics
  <2> SUFFICES ASSUME SInv, NEW c \in CPU
               PROVE  /\ cpu[c].ncli = Cardinality(Held(c)) + IF Busy(c) THEN 1 ELSE 0
                      /\ cpu[c].if => cpu[c].ncli = 0
    BY DEF NeverPanics, SInv
  <2>1. Counted(c)
    BY DEF SInv
  <2> QED
    BY <2>1, HeldCount DEF Counted, Depth
<1> QED
  BY <1>1, InvariantHolds, PTL

\* A process that has left forkret() and has no lock runs with interrupts on, and its handler with
\* interrupts off, whatever processor sched() and scheduler() have moved it to.
THEOREM InterruptsKeptHolds ==
    ASSUME Named PROVE Spec => []InterruptsKept
<1>1. SInv => InterruptsKept
  <2> SUFFICES ASSUME SInv, NEW c \in CPU, Runs(c), ~InForkret(c), ~Busy(c), Held(c) = {}
               PROVE  cpu[c].if = ~cpu[c].frame
    BY DEF InterruptsKept
  <2>1. owner["dev"] # c /\ owner["ptable"] # c
    BY DEF Held, Lock
  <2>2. cpu[c].ncli = 0 /\ cpu[c] \in Cpus
    BY <2>1 DEF SInv, Counted, Depth
  <2>3. cpu[c].if <=> ~cpu[c].frame
    BY <2>2 DEF SInv, Flagged
  <2>4. cpu[c].if \in BOOLEAN /\ cpu[c].frame \in BOOLEAN
    BY <2>2 DEF Cpus
  <2> QED
    BY <2>3, <2>4, Zenon
<1> QED
  BY <1>1, InvariantHolds, PTL

\* A process is on one processor at most, and on one exactly when it is RUNNING.
THEOREM OneProcessorHolds ==
    ASSUME Named PROVE Spec => []OneProcessor
<1>1. SInv => OneProcessor
  BY DEF SInv
<1> QED
  BY <1>1, InvariantHolds, PTL

\* spinlock.c with sched() and scheduler() of proc.c, all together: the locks are guarded, the
\* flag follows the process, and a process is on one processor.
THEOREM LocksGuardedHolds ==
    ASSUME Named PROVE Spec => []LocksGuarded
<1>1. NeverPanics /\ InterruptsKept /\ OneProcessor => LocksGuarded
  BY DEF LocksGuarded
<1> QED
  BY <1>1, NeverPanicsHolds, InterruptsKeptHolds, OneProcessorHolds, PTL

-------------------------------------------------------------------------------
(* The start of the processors (Kalloc) *)

CONSTANTS NCPU, LowPages, NPages, Allocating

VARIABLES freelist, next, boot, ap, slot, stack, started, held, at, r, cnt

KA == INSTANCE Kalloc

\* Page 1 .. LowPages are enough for a page table and for the stacks.
LowMemory ==
    /\ NCPU \in Nat \ {0} /\ LowPages \in Nat /\ NPages \in Nat
    /\ NCPU <= LowPages /\ LowPages <= NPages

\* Until kinit2() the free list is what is left of the first part, from its end: each stack is
\* the page at its head, and processor ap, the only one that may enter, takes that one.
BootInv ==
    /\ boot \in {"kinit1", "kvmalloc", "start", "spin", "done"}
    /\ ap \in 1 .. NCPU
    /\ stack \in [0 .. NCPU - 1 -> Int] /\ started \in [0 .. NCPU - 1 -> BOOLEAN]
    /\ boot = "kinit1" => freelist = 0 /\ ap = 1
    /\ boot = "kvmalloc" => freelist = LowPages /\ ap = 1
    /\ boot = "start" => freelist = LowPages - ap
    /\ boot = "spin" => slot = LowPages - ap /\ freelist = slot - 1 /\ ap < NCPU
    /\ boot = "done" => ap = NCPU
    /\ boot \in {"kvmalloc", "start", "spin"} => \A x \in 1 .. LowPages : next[x] = x - 1
    /\ stack[0] = 0
    /\ \A c \in 1 .. NCPU - 1 :
        /\ c < ap => stack[c] = LowPages - c
        /\ c = ap => IF boot = "spin" THEN stack[c] \in {0, LowPages - c} ELSE stack[c] = 0
        /\ c > ap => stack[c] = 0
        /\ started[c] => stack[c] # 0

LEMMA BootInit ==
    ASSUME LowMemory, KA!Init
    PROVE  BootInv
<1>1. NCPU \in Nat \ {0} /\ 1 \in 1 .. NCPU /\ 0 \in 0 .. NCPU - 1
  BY DEF LowMemory
<1>2. /\ next = [x \in 1 .. NPages |-> 0] /\ stack = [c \in 0 .. NCPU - 1 |-> 0]
      /\ started = [c \in 0 .. NCPU - 1 |-> c = 0] /\ boot = "kinit1" /\ ap = 1 /\ freelist = 0
  BY DEF KA!Init, KA!Page, KA!CPU, KA!NULL
<1>3. \A c \in 1 .. NCPU - 1 : c \in 0 .. NCPU - 1 /\ ~started[c] /\ stack[c] = 0 /\ ~(c < 1)
  <2>1. \A c \in 1 .. NCPU - 1 : c \in 0 .. NCPU - 1 /\ c # 0 /\ ~(c < 1)
    BY <1>1
  <2>2. \A c \in 0 .. NCPU - 1 : stack[c] = 0 /\ (started[c] <=> c = 0)
    BY <1>2, Zenon
  <2> QED
    BY <2>1, <2>2
<1> QED
  BY <1>1, <1>2, <1>3 DEF BootInv

LEMMA BootStep ==
    ASSUME LowMemory, BootInv, [KA!Next]_(KA!vars)
    PROVE  BootInv'
<1>1. /\ NCPU \in Nat \ {0} /\ LowPages \in Nat /\ NPages \in Nat /\ NCPU <= LowPages /\ LowPages <= NPages
      /\ ap \in 1 .. NCPU
      /\ stack \in [0 .. NCPU - 1 -> Int] /\ started \in [0 .. NCPU - 1 -> BOOLEAN]
  BY DEF LowMemory, BootInv
<1>2. CASE KA!kinit1
  <2>1. /\ boot = "kinit1" /\ boot' = "kvmalloc" /\ freelist' = LowPages /\ UNCHANGED <<ap, slot, stack, started>>
        /\ freelist = 0 /\ ap = 1
        /\ next' = [x \in 1 .. NPages |-> IF x = 1 THEN freelist ELSE IF x \in 1 + 1 .. LowPages THEN x - 1 ELSE next[x]]
    BY <1>2 DEF KA!kinit1, KA!FreeRange, KA!Page, BootInv
  <2>2. \A x \in 1 .. LowPages : next'[x] = x - 1
    BY <1>1, <2>1
  <2> QED
    BY <1>1, <2>1, <2>2 DEF BootInv
<1>3. CASE KA!kvmalloc
  <2>1. /\ boot = "kvmalloc" /\ boot' = "start" /\ freelist' = next[freelist] /\ UNCHANGED <<next, ap, slot, stack, started>>
        /\ freelist = LowPages /\ ap = 1 /\ \A x \in 1 .. LowPages : next[x] = x - 1
    BY <1>3 DEF KA!kvmalloc, KA!Pop, BootInv
  <2>2. freelist' = LowPages - ap
    BY <1>1, <2>1
  <2> QED
    BY <1>1, <2>1, <2>2 DEF BootInv
<1>4. CASE KA!StartAp
  <2>1. /\ boot = "start" /\ ap < NCPU /\ slot' = freelist /\ freelist' = next[freelist] /\ boot' = "spin"
        /\ UNCHANGED <<next, ap, stack, started>>
        /\ freelist = LowPages - ap /\ \A x \in 1 .. LowPages : next[x] = x - 1
    BY <1>4 DEF KA!StartAp, KA!Pop, BootInv
  <2>2. slot' = LowPages - ap /\ freelist' = slot' - 1
    <3>1. LowPages - ap \in 1 .. LowPages
      BY <1>1, <2>1
    <3> QED
      BY <2>1, <3>1
  <2> QED
    BY <1>1, <2>1, <2>2 DEF BootInv
<1>5. CASE KA!Spin
  <2>1. /\ boot = "spin" /\ started[ap] /\ ap' = ap + 1 /\ boot' = "start" /\ UNCHANGED <<freelist, next, slot, stack, started>>
        /\ slot = LowPages - ap /\ freelist = slot - 1 /\ ap < NCPU
        /\ \A x \in 1 .. LowPages : next[x] = x - 1
    BY <1>5 DEF KA!Spin, BootInv
  <2>2. ap' \in 1 .. NCPU /\ freelist' = LowPages - ap' /\ ap \in 1 .. NCPU - 1
    BY <1>1, <2>1
  <2>3. stack[ap] = LowPages - ap
    BY <2>1, <2>2 DEF BootInv
  <2>4. ASSUME NEW c \in 1 .. NCPU - 1
        PROVE  /\ c < ap' => stack[c] = LowPages - c
               /\ c >= ap' => stack[c] = 0
    BY <1>1, <2>1, <2>3 DEF BootInv
  <2> QED
    BY <1>1, <2>1, <2>2, <2>4 DEF BootInv
<1>6. CASE KA!kinit2
  <2>1. /\ boot = "start" /\ ap = NCPU /\ boot' = "done" /\ UNCHANGED <<ap, slot, stack, started>>
    BY <1>6 DEF KA!kinit2, KA!ApsDone
  <2> QED
    BY <1>1, <2>1 DEF BootInv
<1>7. ASSUME NEW c \in 0 .. NCPU - 1, KA!mpenter(c) PROVE BootInv'
  <2>1. /\ c # 0 /\ stack[c] = 0 /\ (IF boot = "spin" THEN c <= ap ELSE c < ap)
        /\ stack' = [stack EXCEPT ![c] = slot] /\ UNCHANGED <<freelist, next, boot, ap, slot, started>>
    BY <1>7 DEF KA!mpenter, KA!NULL
  <2>2. c \in 1 .. NCPU - 1
    BY <1>1, <2>1
  <2>3. LowPages - c # 0
    BY <1>1, <2>2
  <2>4. c = ap /\ boot = "spin"
    BY <1>1, <2>1, <2>2, <2>3 DEF BootInv
  <2>5. slot = LowPages - c
    BY <2>4 DEF BootInv
  <2>6. /\ stack' \in [0 .. NCPU - 1 -> Int] /\ stack'[c] = LowPages - c
        /\ \A d \in 0 .. NCPU - 1 : d # c => stack'[d] = stack[d]
    BY <1>1, <2>1, <2>5
  <2>7. 0 \in 0 .. NCPU - 1 /\ stack'[0] = 0
    BY <1>1, <2>1, <2>6 DEF BootInv
  <2>8. ASSUME NEW d \in 1 .. NCPU - 1
        PROVE  /\ d < ap => stack'[d] = LowPages - d
               /\ d = ap => stack'[d] = LowPages - d
               /\ d > ap => stack'[d] = 0
               /\ started[d] => stack'[d] # 0
    <3>1. d \in 0 .. NCPU - 1
      OBVIOUS
    <3> QED
      BY <1>1, <2>3, <2>4, <2>6, <3>1 DEF BootInv
  <2> QED
    BY <1>1, <2>1, <2>4, <2>6, <2>7, <2>8 DEF BootInv
<1>8. ASSUME NEW c \in 0 .. NCPU - 1, KA!mpmain(c) PROVE BootInv'
  <2>1. stack[c] # 0 /\ started' = [started EXCEPT ![c] = TRUE] /\ UNCHANGED <<freelist, next, boot, ap, slot, stack>>
    BY <1>8 DEF KA!mpmain, KA!NULL
  <2>2. started' \in [0 .. NCPU - 1 -> BOOLEAN] /\ \A d \in 1 .. NCPU - 1 : started'[d] => stack[d] # 0
    BY <1>1, <2>1 DEF BootInv
  <2> QED
    BY <1>1, <2>1, <2>2 DEF BootInv
<1>9. ASSUME NEW c \in 0 .. NCPU - 1,
             KA!kalloc(c) \/ KA!KallocPop(c) \/ KA!countfp(c) \/ KA!CountWalk(c) \/ (\E v \in KA!Page : KA!kfree(c, v))
      PROVE  BootInv'
  <2>1. boot = "done" /\ UNCHANGED <<boot, ap, slot, stack, started>>
    BY <1>9 DEF KA!kalloc, KA!KallocPop, KA!countfp, KA!CountWalk, KA!kfree, KA!Ready
  <2> QED
    BY <1>1, <2>1 DEF BootInv
<1>10. CASE UNCHANGED KA!vars
  BY <1>10 DEF KA!vars, BootInv
<1> QED
  BY <1>2, <1>3, <1>4, <1>5, <1>6, <1>7, <1>8, <1>9, <1>10 DEF KA!Next, KA!Boot, KA!Thread, KA!CPU

\* main.c: every processor has a stack of its own, in the memory that entrypgdir maps while
\* it starts, although startothers() hands the stacks over in one word.
THEOREM OwnLowStackHolds == ASSUME LowMemory PROVE KA!Spec => []KA!OwnLowStack
<1>1. KA!Init => BootInv
  BY BootInit
<1>2. BootInv /\ [KA!Next]_(KA!vars) => BootInv'
  BY BootStep
<1>3. BootInv => KA!OwnLowStack
  <2> SUFFICES ASSUME BootInv PROVE KA!OwnLowStack
    OBVIOUS
  <2>1. NCPU \in Nat /\ LowPages \in Nat /\ ap \in 1 .. NCPU
    BY DEF LowMemory, BootInv
  <2>2. ASSUME NEW c \in 0 .. NCPU - 1, stack[c] # 0
        PROVE  c \in 1 .. NCPU - 1 /\ stack[c] = LowPages - c
    <3>1. c # 0
      BY <2>2 DEF BootInv
    <3>2. c \in 1 .. NCPU - 1
      BY <2>1, <3>1
    <3> QED
      BY <2>1, <2>2, <3>2 DEF BootInv
  <2>3. ASSUME NEW c \in 0 .. NCPU - 1, NEW d \in 0 .. NCPU - 1, stack[c] # 0, d # c PROVE stack[d] # stack[c]
    <3>1. CASE stack[d] = 0
      BY <2>3, <3>1
    <3>2. CASE stack[d] # 0
      BY <2>1, <2>2, <2>3, <3>2
    <3> QED
      BY <3>1, <3>2
  <2>4. ASSUME NEW c \in 0 .. NCPU - 1, stack[c] # 0 PROVE stack[c] <= LowPages
    BY <2>1, <2>2, <2>4
  <2> QED
    BY <2>3, <2>4 DEF KA!OwnLowStack, KA!CPU, KA!NULL
<1> QED
  BY <1>1, <1>2, <1>3, PTL DEF KA!Spec

-------------------------------------------------------------------------------
(* Processes and their memory in Project1 (Proc) *)

CONSTANTS NPROC, Base, MaxSz, MaxCalls

VARIABLES ptable, nfree, cur, ncalls

PR == INSTANCE Proc

Table == NPROC \in Nat \ {0} /\ Base \in Nat /\ MaxSz \in Nat

Pid == 1 .. NPROC

Entries == [state : {"UNUSED", "EMBRYO", "RUN", "SLEEPING", "ZOMBIE"}, parent : Pid \cup {0}, killed : BOOLEAN,
            kstack : Int, sz : Int, user : Int, base : Int]

CallRecs == [at : {"user", "stack", "copy", "load", "grow", "wait", "getgpid"}, np : Pid \cup {0}, goal : Int, n : Int,
             pp : Pid \cup {0}]

Blank == {"UNUSED", "EMBRYO"}
Live == {"RUN", "SLEEPING"}
Forks == {"stack", "copy"}

ProcTypes == ptable \in [Pid -> Entries] /\ cur \in [Pid -> CallRecs]

\* init stays; who is in a call lives; every process but init has a parent that lives.
Family ==
    /\ ptable[1].parent = 0 /\ ptable[1].state \in Live /\ cur[1].at # "getgpid"
    /\ \A s \in Pid :
        /\ ptable[s].state \in Blank => ptable[s].parent = 0
        /\ cur[s].at # "user" => ptable[s].state \in Live
        /\ ptable[s].state = "SLEEPING" => cur[s].at = "wait"
        /\ s # 1 /\ ptable[s].state \notin Blank =>
              ptable[s].parent \in Pid \ {s} /\ ptable[ptable[s].parent].state \in Live

\* A fork() has its child for itself.
Forking ==
    \A s \in Pid : cur[s].at \in Forks =>
        /\ cur[s].np \in Pid /\ ptable[cur[s].np].state = "EMBRYO"
        /\ \A q \in Pid \ {s} : cur[q].at \in Forks => cur[q].np # cur[s].np

\* Who sleeps in wait() has a child, and none that has ended.
Awaiting ==
    \A s \in Pid : ptable[s].state = "SLEEPING" =>
        /\ \E c \in Pid : ptable[c].parent = s
        /\ \A c \in Pid : ptable[c].parent = s => ptable[c].state # "ZOMBIE"

\* Who makes a call has all its pages.
Present == \A s \in Pid : ptable[s].user # ptable[s].sz => ptable[s].user = 0 /\ cur[s].at = "user"

ProcInv == ProcTypes /\ Family /\ Forking /\ Awaiting /\ Present

\* Min() of slots is one of them.
LEMMA FirstSlot ==
    ASSUME NEW S \in SUBSET Pid, S # {}, Table
    PROVE  PR!Min(S) \in S
<1> DEFINE R == OpToRel(<, Nat)
<1>1. IsWellFoundedOn(R, Nat)
  BY NatLessThanWellFounded
<1>2. \A x, y \in Nat : <<y, x>> \in R <=> y < x
  BY DEF OpToRel
<1> HIDE DEF R
<1>3. S \in SUBSET Nat
  BY DEF Pid, Table
<1>4. PICK x \in S : \A y \in S : ~(<<y, x>> \in R)
  BY <1>1, <1>3, WFMin
<1>5. \A y \in S : ~(y < x) /\ y \in Nat /\ x \in Nat
  BY <1>2, <1>3, <1>4
<1>6. \A y \in S : x <= y
  BY <1>5
<1> QED
  BY <1>6 DEF PR!Min

\* A step of p that neither begins nor ends a process: it may wake sleepers.
LEMMA QuietProc ==
    ASSUME Table, ProcInv, ProcTypes', NEW p \in Pid, ptable[p].state = "RUN",
           \A s \in Pid : /\ ptable'[s].parent = ptable[s].parent
                          /\ \/ ptable'[s].state = ptable[s].state
                             \/ ptable[s].state = "SLEEPING" /\ ptable'[s].state = "RUN",
           \A s \in Pid \ {p} : cur'[s] = cur[s] /\ ptable'[s].user = ptable[s].user /\ ptable'[s].sz = ptable[s].sz,
           cur'[p].at \in Forks => cur[p].at \in Forks /\ cur'[p].np = cur[p].np,
           cur'[p].at = "getgpid" => p # 1,
           ptable'[p].user # ptable'[p].sz => ptable'[p].user = 0 /\ cur'[p].at = "user"
    PROVE  ProcInv'
<1>1. ptable'[p].state = "RUN"
  OBVIOUS
<1>2. 1 \in Pid
  BY DEF Table, Pid
<1>3. Family'
  <2>1. ptable'[1].parent = 0 /\ ptable'[1].state \in Live /\ cur'[1].at # "getgpid"
    BY <1>2 DEF ProcInv, Family, Live
  <2>2. ASSUME NEW s \in Pid
        PROVE  /\ ptable'[s].state \in Blank => ptable'[s].parent = 0
               /\ cur'[s].at # "user" => ptable'[s].state \in Live
               /\ ptable'[s].state = "SLEEPING" => cur'[s].at = "wait"
    BY <1>1 DEF ProcInv, Family, Live, Blank
  <2>3. ASSUME NEW s \in Pid, s # 1, ptable'[s].state \notin Blank
        PROVE  ptable'[s].parent \in Pid \ {s} /\ ptable'[ptable'[s].parent].state \in Live
    <3>1. ptable[s].state \notin Blank
      BY <2>3 DEF Blank
    <3>2. PICK q \in Pid \ {s} : q = ptable[s].parent /\ ptable[q].state \in Live
      BY <2>3, <3>1 DEF ProcInv, Family
    <3>3. ptable'[s].parent = q /\ ptable'[q].state \in Live
      BY <3>2 DEF Live
    <3> QED
      BY <3>2, <3>3
  <2> QED
    BY <2>1, <2>2, <2>3 DEF Family
<1>4. Forking'
  <2> SUFFICES ASSUME NEW s \in Pid, cur'[s].at \in Forks
               PROVE  /\ cur'[s].np \in Pid /\ ptable'[cur'[s].np].state = "EMBRYO"
                      /\ \A q \in Pid \ {s} : cur'[q].at \in Forks => cur'[q].np # cur'[s].np
    BY DEF Forking
  <2>1. \A q \in Pid : cur'[q].at \in Forks => cur[q].at \in Forks /\ cur'[q].np = cur[q].np
    OBVIOUS
  <2>2. PICK n \in Pid : n = cur[s].np /\ ptable[n].state = "EMBRYO"
    BY <2>1 DEF ProcInv, Forking
  <2>3. cur'[s].np = n /\ ptable'[n].state = "EMBRYO"
    BY <2>1, <2>2
  <2>4. \A q \in Pid \ {s} : cur'[q].at \in Forks => cur'[q].np # n
    BY <2>1, <2>2 DEF ProcInv, Forking
  <2> QED
    BY <2>3, <2>4
<1>5. Awaiting'
  BY DEF ProcInv, Awaiting
<1>6. Present'
  BY DEF ProcInv, Present
<1> QED
  BY <1>3, <1>4, <1>5, <1>6 DEF ProcInv

LEMMA ProcInit ==
    ASSUME Table, PR!Init
    PROVE  ProcInv
<1>1. 1 \in Pid /\ Base \in Int
  BY DEF Table, Pid
<1>2. /\ ptable = [s \in Pid |-> IF s = 1 THEN [PR!Unused EXCEPT !.state = "RUN", !.kstack = 1, !.sz = 1, !.user = 1, !.base = Base]
                                 ELSE PR!Unused]
      /\ cur = [s \in Pid |-> PR!User]
  BY DEF PR!Init, PR!Slot, PR!initproc, Pid
<1>3. PR!Unused \in Entries /\ PR!Unused.state = "UNUSED" /\ PR!Unused.parent = 0 /\ PR!Unused.user = PR!Unused.sz
  BY DEF PR!Unused, PR!NoProc, Entries
<1>4. PICK x : x = [PR!Unused EXCEPT !.state = "RUN", !.kstack = 1, !.sz = 1, !.user = 1, !.base = Base]
  OBVIOUS
<1>5. x = [state |-> "RUN", parent |-> 0, killed |-> FALSE, kstack |-> 1, sz |-> 1, user |-> 1, base |-> Base]
  BY <1>4 DEF PR!Unused, PR!NoProc
<1>6. x \in Entries /\ x.state = "RUN" /\ x.parent = 0 /\ x.user = x.sz
  BY <1>1, <1>5 DEF Entries
<1>7. PR!User \in CallRecs /\ PR!User.at = "user"
  BY DEF PR!User, PR!NoProc, CallRecs
<1>8. ptable[1] = x /\ \A s \in Pid : cur[s] = PR!User /\ ptable[s] = (IF s = 1 THEN x ELSE PR!Unused)
  BY <1>1, <1>2, <1>4
<1>9. ProcTypes
  BY <1>2, <1>3, <1>4, <1>6, <1>7 DEF ProcTypes
<1>10. Family /\ Forking /\ Awaiting /\ Present
  <2>1. ptable[1].parent = 0 /\ ptable[1].state \in Live /\ cur[1].at # "getgpid"
    BY <1>1, <1>6, <1>7, <1>8 DEF Live
  <2>2. Family
    BY <2>1, <1>3, <1>6, <1>7, <1>8 DEF Family, Live, Blank
  <2> QED
    BY <2>2, <1>3, <1>6, <1>7, <1>8 DEF Forking, Forks, Awaiting, Present
<1> QED
  BY <1>9, <1>10 DEF ProcInv

\* A call goes on, or begins, or returns, and no process begins or ends.
LEMMA QuietSteps ==
    ASSUME Table, ProcInv, NEW p \in Pid,
           \/ PR!Kalloc(p) \/ PR!exec(p) \/ PR!ExecBad(p) \/ PR!ExecCommit(p) \/ PR!growproc(p) \/ PR!GrowDone(p)
           \/ PR!GrowFail(p) \/ PR!Shrink(p) \/ PR!WaitNone(p) \/ PR!getgpid(p) \/ PR!GetgpidRead(p)
    PROVE  ProcInv'
<1>1. /\ ptable \in [Pid -> Entries] /\ cur \in [Pid -> CallRecs] /\ ptable[p] \in Entries /\ cur[p] \in CallRecs
      /\ ptable[p].user # ptable[p].sz => ptable[p].user = 0 /\ cur[p].at = "user"
      /\ cur[p].n \in Int /\ cur[p].goal \in Int /\ ptable[p].sz \in Int /\ ptable[p].user \in Int /\ Base \in Int
  BY DEF ProcInv, ProcTypes, Present, Table, Entries, CallRecs
<1>2. PR!User \in CallRecs /\ PR!User.at = "user" /\ "user" \notin Forks /\ "user" # "getgpid"
  BY DEF PR!User, PR!NoProc, CallRecs, Forks
<1>3. ASSUME ptable[p].state = "RUN", ptable' = ptable, cur' = [cur EXCEPT ![p] = PR!User] PROVE ProcInv'
  <2>1. ProcTypes' /\ cur'[p] = PR!User /\ \A s \in Pid \ {p} : cur'[s] = cur[s]
    BY <1>1, <1>2, <1>3 DEF ProcTypes
  <2> QED
    BY <1>1, <1>2, <1>3, <2>1, QuietProc
<1>4. CASE PR!Kalloc(p)
  <2>1. ptable[p].state = "RUN" /\ ptable' = ptable /\ cur' = [cur EXCEPT ![p].n = cur[p].n + 1]
    BY <1>4 DEF PR!Kalloc
  <2>2. PICK c : c = [cur[p] EXCEPT !.n = cur[p].n + 1]
    OBVIOUS
  <2>3. c \in CallRecs /\ c.at = cur[p].at /\ c.np = cur[p].np
    BY <1>1, <2>2 DEF CallRecs
  <2>4. ProcTypes' /\ cur'[p] = c /\ \A s \in Pid \ {p} : cur'[s] = cur[s]
    BY <1>1, <2>1, <2>2, <2>3 DEF ProcTypes
  <2>5. c.at = "getgpid" => p # 1
    BY <2>3 DEF ProcInv, Family
  <2> QED
    BY <1>1, <2>1, <2>3, <2>4, <2>5, QuietProc
<1>5. ASSUME NEW c \in CallRecs, PR!Runs(p), ptable' = ptable, cur' = [cur EXCEPT ![p] = c],
             c.at \notin Forks, c.at = "getgpid" => p # 1
      PROVE  ProcInv'
  <2>1. ProcTypes' /\ cur'[p] = c /\ \A s \in Pid \ {p} : cur'[s] = cur[s]
    BY <1>1, <1>5 DEF ProcTypes
  <2>2. ptable[p].state = "RUN" /\ ptable[p].user = ptable[p].sz
    BY <1>1, <1>5 DEF PR!Runs, PR!At
  <2> QED
    BY <1>5, <2>1, <2>2, QuietProc
<1>6. CASE PR!exec(p)
  <2>1. PICK sz \in 3 .. MaxSz : cur' = [cur EXCEPT ![p] = [PR!User EXCEPT !.at = "load", !.goal = Base + sz]]
    BY <1>6 DEF PR!exec
  <2>2. PICK g \in Int : g = Base + sz
    BY <1>1
  <2>3. PICK c : c = [PR!User EXCEPT !.at = "load", !.goal = g]
    OBVIOUS
  <2>4. c = [at |-> "load", np |-> 0, goal |-> g, n |-> 0, pp |-> 0]
    BY <2>3 DEF PR!User, PR!NoProc
  <2>5. c \in CallRecs /\ c.at \notin Forks /\ c.at # "getgpid"
    BY <2>4 DEF CallRecs, Forks
  <2> QED
    BY <1>5, <1>6, <2>1, <2>2, <2>3, <2>5 DEF PR!exec, PR!Calls
<1>7. CASE PR!growproc(p)
  <2>1. PICK n \in 1 .. MaxSz - ptable[p].sz : cur' = [cur EXCEPT ![p] = [PR!User EXCEPT !.at = "grow", !.goal = n]]
    BY <1>7 DEF PR!growproc
  <2>5. PICK g \in Int : g = n
    OBVIOUS
  <2>2. PICK c : c = [PR!User EXCEPT !.at = "grow", !.goal = g]
    OBVIOUS
  <2>3. c = [at |-> "grow", np |-> 0, goal |-> g, n |-> 0, pp |-> 0]
    BY <2>2 DEF PR!User, PR!NoProc
  <2>4. c \in CallRecs /\ c.at \notin Forks /\ c.at # "getgpid"
    BY <2>3 DEF CallRecs, Forks
  <2> QED
    BY <1>5, <1>7, <2>1, <2>2, <2>4, <2>5 DEF PR!growproc, PR!Calls
<1>8. CASE PR!getgpid(p)
  <2>1. p # 1 /\ cur' = [cur EXCEPT ![p] = [PR!User EXCEPT !.at = "getgpid", !.pp = ptable[p].parent]]
    BY <1>8 DEF PR!getgpid, PR!initproc
  <2>2. PICK q \in Pid \cup {0} : q = ptable[p].parent
    BY <1>1 DEF Entries
  <2>3. PICK c : c = [PR!User EXCEPT !.at = "getgpid", !.pp = q]
    OBVIOUS
  <2>4. c = [at |-> "getgpid", np |-> 0, goal |-> 0, n |-> 0, pp |-> q]
    BY <2>3 DEF PR!User, PR!NoProc
  <2>5. c \in CallRecs /\ c.at \notin Forks
    BY <2>4 DEF CallRecs, Forks
  <2> QED
    BY <1>5, <1>8, <2>1, <2>2, <2>3, <2>5 DEF PR!getgpid
<1>9. CASE PR!ExecBad(p) \/ PR!GrowFail(p) \/ PR!WaitNone(p) \/ PR!GetgpidRead(p)
  BY <1>3, <1>9 DEF PR!ExecBad, PR!GrowFail, PR!WaitNone, PR!GetgpidRead, PR!At, PR!Returns
<1>10. ASSUME NEW x \in Entries, ptable[p].state = "RUN", x.state = ptable[p].state, x.parent = ptable[p].parent,
              ptable' = [ptable EXCEPT ![p] = x], cur' = [cur EXCEPT ![p] = PR!User] \/ (cur' = cur /\ cur[p].at = "user"),
              x.user # x.sz => x.user = 0
       PROVE  ProcInv'
  <2>1. /\ ProcTypes' /\ \A s \in Pid \ {p} : cur'[s] = cur[s] /\ ptable'[s] = ptable[s]
        /\ cur'[p].at = "user" /\ ptable'[p] = x
    BY <1>1, <1>2, <1>10 DEF ProcTypes
  <2> QED
    BY <1>2, <1>10, <2>1, QuietProc
<1>11. CASE PR!ExecCommit(p)
  <2>1. /\ ptable[p].state = "RUN" /\ cur' = [cur EXCEPT ![p] = PR!User]
        /\ ptable' = [ptable EXCEPT ![p].sz = cur[p].goal - Base, ![p].user = cur[p].goal - Base, ![p].base = Base]
    BY <1>11 DEF PR!ExecCommit, PR!At, PR!Returns
  <2>2. PICK g \in Int : g = cur[p].goal - Base
    BY <1>1
  <2>3. PICK x : x = [ptable[p] EXCEPT !.sz = g, !.user = g, !.base = Base]
    OBVIOUS
  <2>4. x \in Entries /\ x.state = ptable[p].state /\ x.parent = ptable[p].parent /\ x.user = x.sz
    BY <1>1, <2>3 DEF Entries
  <2>5. ptable' = [ptable EXCEPT ![p] = x]
    BY <1>1, <2>1, <2>2, <2>3
  <2> QED
    BY <1>10, <2>1, <2>4, <2>5
<1>12. CASE PR!GrowDone(p)
  <2>1. /\ ptable[p].state = "RUN" /\ cur' = [cur EXCEPT ![p] = PR!User] /\ cur[p].at = "grow"
        /\ ptable' = [ptable EXCEPT ![p].sz = ptable[p].sz + cur[p].n, ![p].user = ptable[p].user + cur[p].n]
    BY <1>12 DEF PR!GrowDone, PR!At, PR!Returns
  <2>2. PICK g \in Int : g = ptable[p].sz + cur[p].n /\ g = ptable[p].user + cur[p].n
    BY <1>1, <2>1
  <2>3. PICK x : x = [ptable[p] EXCEPT !.sz = g, !.user = g]
    OBVIOUS
  <2>4. x \in Entries /\ x.state = ptable[p].state /\ x.parent = ptable[p].parent /\ x.user = x.sz
    BY <1>1, <2>3 DEF Entries
  <2>5. ptable' = [ptable EXCEPT ![p] = x]
    BY <1>1, <2>1, <2>2, <2>3
  <2> QED
    BY <1>10, <2>1, <2>4, <2>5
<1>13. CASE PR!Shrink(p)
  <2>1. /\ ptable[p].state = "RUN" /\ cur' = cur /\ cur[p].at = "user" /\ ptable[p].user > 0
    BY <1>13 DEF PR!Shrink, PR!Calls, PR!Runs, PR!At
  <2>2. PICK n \in 1 .. ptable[p].sz :
            ptable' = [ptable EXCEPT ![p].user = ptable[p].user - n, ![p].sz = IF ptable[p].sz = n THEN ptable[p].sz ELSE ptable[p].sz - n]
    BY <1>13 DEF PR!Shrink
  <2>3. PICK u \in Int, z \in Int : u = ptable[p].user - n /\ z = IF ptable[p].sz = n THEN ptable[p].sz ELSE ptable[p].sz - n
    BY <1>1, <2>2
  <2>4. u # z => u = 0
    BY <1>1, <2>1, <2>3
  <2>5. PICK x : x = [ptable[p] EXCEPT !.user = u, !.sz = z]
    OBVIOUS
  <2>6. x \in Entries /\ x.state = ptable[p].state /\ x.parent = ptable[p].parent /\ x.user = u /\ x.sz = z
    BY <1>1, <2>5 DEF Entries
  <2>7. ptable' = [ptable EXCEPT ![p] = x]
    BY <1>1, <2>2, <2>3, <2>5
  <2> QED
    BY <1>10, <2>1, <2>4, <2>6, <2>7
<1> QED
  BY <1>4, <1>6, <1>7, <1>8, <1>9, <1>11, <1>12, <1>13

LEMMA KillQuiet ==
    ASSUME Table, ProcInv, NEW p \in Pid, PR!kill(p)
    PROVE  ProcInv'
<1>1. /\ ptable \in [Pid -> Entries] /\ cur \in [Pid -> CallRecs]
      /\ ptable[p].state = "RUN" /\ cur' = cur /\ ptable[p].user = ptable[p].sz
  BY DEF ProcInv, ProcTypes, Present, PR!kill, PR!Calls, PR!Runs, PR!At
<1>2. PICK s \in Pid : ptable' = [PR!Woken(ptable, s) EXCEPT ![s].killed = TRUE]
  BY DEF PR!kill, PR!Slot, Pid
<1>3. PICK t : t = PR!Woken(ptable, s)
  OBVIOUS
<1>4. PICK y : y = IF ptable[s].state = "SLEEPING" THEN [ptable[s] EXCEPT !.state = "RUN"] ELSE ptable[s]
  OBVIOUS
<1>5. t = [ptable EXCEPT ![s] = y]
  <2>1. CASE ptable[s].state = "SLEEPING"
    BY <1>1, <1>3, <1>4, <2>1 DEF PR!Woken
  <2>2. CASE ptable[s].state # "SLEEPING"
    BY <1>1, <1>3, <1>4, <2>2 DEF PR!Woken
  <2> QED
    BY <2>1, <2>2
<1>6. PICK x : x = [y EXCEPT !.killed = TRUE]
  OBVIOUS
<1>7. /\ x \in Entries /\ x.parent = ptable[s].parent /\ x.user = ptable[s].user /\ x.sz = ptable[s].sz
      /\ x.state = ptable[s].state \/ (ptable[s].state = "SLEEPING" /\ x.state = "RUN")
  <2>1. ptable[s] \in Entries
    BY <1>1
  <2>2. /\ y \in Entries /\ y.parent = ptable[s].parent /\ y.user = ptable[s].user /\ y.sz = ptable[s].sz
        /\ y.state = ptable[s].state \/ (ptable[s].state = "SLEEPING" /\ y.state = "RUN")
    BY <1>4, <2>1 DEF Entries
  <2> QED
    BY <1>6, <2>2 DEF Entries
<1>8. ptable' = [ptable EXCEPT ![s] = x]
  BY <1>1, <1>2, <1>3, <1>5, <1>6
<1>9. /\ ProcTypes' /\ ptable'[s] = x /\ \A q \in Pid \ {s} : ptable'[q] = ptable[q]
  BY <1>1, <1>7, <1>8 DEF ProcTypes
<1>10. /\ \A q \in Pid : /\ ptable'[q].parent = ptable[q].parent
                         /\ \/ ptable'[q].state = ptable[q].state
                            \/ ptable[q].state = "SLEEPING" /\ ptable'[q].state = "RUN"
                         /\ ptable'[q].user = ptable[q].user /\ ptable'[q].sz = ptable[q].sz
  BY <1>7, <1>9
<1>11. cur[p].at = "getgpid" => p # 1
  BY DEF ProcInv, Family
<1> QED
  BY <1>1, <1>9, <1>10, <1>11, QuietProc

\* A slot is taken for a child, or given back.
LEMMA ChildStep ==
    ASSUME Table, ProcInv, ProcTypes', NEW p \in Pid, ptable[p].state = "RUN", NEW m \in Pid,
           ptable[m].state \in Blank, ptable'[m].state \in Blank, ptable'[m].parent = 0,
           ptable'[m].user = ptable[m].user, ptable'[m].sz = ptable[m].sz,
           \A s \in Pid \ {m} : ptable'[s] = ptable[s],
           \A s \in Pid \ {p} : cur'[s] = cur[s],
           ptable[p].user = ptable[p].sz, cur'[p].at \in Forks \cup {"user"},
           \A q \in Pid \ {p} : cur[q].at \in Forks => cur[q].np # m,
           cur'[p].at \in Forks => cur'[p].np = m /\ ptable'[m].state = "EMBRYO"
    PROVE  ProcInv'
<1>1. /\ m # p /\ m # 1 /\ cur[m].at = "user" /\ cur'[m].at = "user" /\ 1 \in Pid /\ ptable'[p].state = "RUN"
      /\ cur'[p].at # "getgpid"
  BY DEF ProcInv, Family, Blank, Live, Forks, Table, Pid
<1>2. Family'
  <2>1. ptable'[1].parent = 0 /\ ptable'[1].state \in Live /\ cur'[1].at # "getgpid"
    BY <1>1 DEF ProcInv, Family
  <2>2. ASSUME NEW s \in Pid
        PROVE  /\ ptable'[s].state \in Blank => ptable'[s].parent = 0
               /\ cur'[s].at # "user" => ptable'[s].state \in Live
               /\ ptable'[s].state = "SLEEPING" => cur'[s].at = "wait"
    BY <1>1 DEF ProcInv, Family, Live, Blank
  <2>3. ASSUME NEW s \in Pid, s # 1, ptable'[s].state \notin Blank
        PROVE  ptable'[s].parent \in Pid \ {s} /\ ptable'[ptable'[s].parent].state \in Live
    <3>1. s # m /\ ptable[s].state \notin Blank
      BY <2>3
    <3>2. PICK q \in Pid \ {s} : q = ptable[s].parent /\ ptable[q].state \in Live
      BY <2>3, <3>1 DEF ProcInv, Family
    <3>3. q # m
      BY <3>2 DEF Live, Blank
    <3> QED
      BY <3>1, <3>2, <3>3
  <2> QED
    BY <2>1, <2>2, <2>3 DEF Family
<1>3. Forking'
  <2> SUFFICES ASSUME NEW s \in Pid, cur'[s].at \in Forks
               PROVE  /\ cur'[s].np \in Pid /\ ptable'[cur'[s].np].state = "EMBRYO"
                      /\ \A q \in Pid \ {s} : cur'[q].at \in Forks => cur'[q].np # cur'[s].np
    BY DEF Forking
  <2>1. CASE s = p
    BY <2>1
  <2>2. CASE s # p
    <3>1. PICK n \in Pid : n = cur[s].np /\ ptable[n].state = "EMBRYO" /\ n # m
      BY <2>2 DEF ProcInv, Forking
    <3>2. cur'[s].np = n /\ ptable'[n].state = "EMBRYO"
      BY <2>2, <3>1
    <3>3. ASSUME NEW q \in Pid \ {s}, cur'[q].at \in Forks PROVE cur'[q].np # n
      <4>1. CASE q = p
        BY <3>1, <3>3, <4>1
      <4>2. CASE q # p
        BY <2>2, <3>1, <3>3, <4>2 DEF ProcInv, Forking
      <4> QED
        BY <4>1, <4>2
    <3> QED
      BY <3>2, <3>3
  <2> QED
    BY <2>1, <2>2
<1>4. Awaiting'
  <2> SUFFICES ASSUME NEW s \in Pid, ptable'[s].state = "SLEEPING"
               PROVE  /\ \E c \in Pid : ptable'[c].parent = s
                      /\ \A c \in Pid : ptable'[c].parent = s => ptable'[c].state # "ZOMBIE"
    BY DEF Awaiting
  <2>1. s # m /\ ptable[s].state = "SLEEPING" /\ ptable[m].parent = 0 /\ s # 0
    BY DEF Blank, ProcInv, Family, Pid
  <2>2. PICK c \in Pid : ptable[c].parent = s
    BY <2>1 DEF ProcInv, Awaiting
  <2>3. ptable'[c].parent = s
    BY <2>1, <2>2
  <2>4. \A d \in Pid : ptable'[d].parent = s => ptable'[d].state # "ZOMBIE"
    BY <2>1 DEF ProcInv, Awaiting, Blank
  <2> QED
    BY <2>3, <2>4
<1>5. Present'
  BY <1>1 DEF ProcInv, Present
<1> QED
  BY <1>2, <1>3, <1>4, <1>5 DEF ProcInv

LEMMA ForkSteps ==
    ASSUME Table, ProcInv, NEW p \in Pid, PR!fork(p) \/ PR!ForkStack(p) \/ PR!ForkFail(p)
    PROVE  ProcInv'
<1>1. /\ ptable \in [Pid -> Entries] /\ cur \in [Pid -> CallRecs] /\ ptable[p] \in Entries /\ cur[p] \in CallRecs
      /\ ptable[p].user # ptable[p].sz => ptable[p].user = 0 /\ cur[p].at = "user"
      /\ ptable[p].sz \in Int /\ Base \in Int /\ 0 \notin Pid
  <2>1. ptable \in [Pid -> Entries] /\ cur \in [Pid -> CallRecs] /\ ptable[p] \in Entries /\ cur[p] \in CallRecs
    BY DEF ProcInv, ProcTypes
  <2>2. ptable[p].user # ptable[p].sz => ptable[p].user = 0 /\ cur[p].at = "user"
    BY DEF ProcInv, Present
  <2>3. ptable[p].sz \in Int /\ Base \in Int /\ 0 \notin Pid
    BY <2>1 DEF Table, Entries, Pid
  <2> QED
    BY <2>1, <2>2, <2>3
<1>2. PR!User \in CallRecs /\ PR!User.at = "user" /\ "user" \notin Forks /\ "user" \in Forks \cup {"user"}
  BY DEF PR!User, PR!NoProc, CallRecs, Forks
<1>3. CASE PR!fork(p)
  <2>1. /\ ptable[p].state = "RUN" /\ cur[p].at = "user" /\ ptable[p].user > 0
        /\ ptable[p].user = ptable[p].sz
    BY <1>1, <1>3 DEF PR!fork, PR!Calls, PR!Runs, PR!At
  <2>2. PICK free \in SUBSET Pid : free = {s \in Pid : ptable[s].state = "UNUSED"}
    OBVIOUS
  <2>3. IF free = {} THEN UNCHANGED <<ptable, cur>>
        ELSE /\ ptable' = [ptable EXCEPT ![PR!Min(free)].state = "EMBRYO"]
             /\ cur' = [cur EXCEPT ![p] = [PR!User EXCEPT !.at = "stack", !.np = PR!Min(free)]]
    BY <1>3, <2>2 DEF PR!fork, PR!Slot, Pid
  <2>4. CASE free = {}
    BY <2>3, <2>4 DEF ProcInv, ProcTypes, Family, Forking, Awaiting, Present
  <2>5. CASE free # {}
    <3>1. PICK m \in free : m = PR!Min(free)
      BY <2>5, FirstSlot
    <3>2. m \in Pid /\ ptable[m].state = "UNUSED" /\ ptable[m] \in Entries
      BY <1>1, <2>2
    <3>3. PICK x : x = [ptable[m] EXCEPT !.state = "EMBRYO"]
      OBVIOUS
    <3>4. x \in Entries /\ x.state = "EMBRYO" /\ x.parent = ptable[m].parent /\ x.user = ptable[m].user /\ x.sz = ptable[m].sz
      BY <3>2, <3>3 DEF Entries
    <3>5. PICK c : c = [PR!User EXCEPT !.at = "stack", !.np = m]
      OBVIOUS
    <3>6. c = [at |-> "stack", np |-> m, goal |-> 0, n |-> 0, pp |-> 0]
      BY <3>5 DEF PR!User, PR!NoProc
    <3>7. c \in CallRecs /\ c.at = "stack" /\ c.np = m
      BY <3>2, <3>6 DEF CallRecs
    <3>8. ptable' = [ptable EXCEPT ![m] = x] /\ cur' = [cur EXCEPT ![p] = c]
      BY <1>1, <2>3, <2>5, <3>1, <3>2, <3>3, <3>5
    <3>9. /\ ProcTypes' /\ ptable'[m] = x /\ cur'[p] = c /\ \A s \in Pid \ {m} : ptable'[s] = ptable[s]
          /\ \A s \in Pid \ {p} : cur'[s] = cur[s]
      BY <1>1, <3>2, <3>4, <3>7, <3>8 DEF ProcTypes
    <3>10. \A q \in Pid \ {p} : cur[q].at \in Forks => cur[q].np # m
      BY <3>2 DEF ProcInv, Forking
    <3>11. ptable[m].parent = 0 /\ "stack" \in Forks
      BY <3>2 DEF ProcInv, Family, Blank, Forks
    <3>12. ptable[m].state \in Blank /\ x.state \in Blank
      BY <3>2, <3>4 DEF Blank
    <3> QED
      BY <2>1, <3>2, <3>4, <3>7, <3>9, <3>10, <3>11, <3>12, ChildStep
  <2> QED
    BY <2>4, <2>5
<1>4. ASSUME cur[p].at \in Forks, ptable[p].state = "RUN"
      PROVE  /\ cur[p].np \in Pid /\ ptable[cur[p].np].state = "EMBRYO" /\ ptable[cur[p].np] \in Entries
             /\ \A q \in Pid \ {p} : cur[q].at \in Forks => cur[q].np # cur[p].np
             /\ ptable[cur[p].np].parent = 0 /\ ptable[p].user = ptable[p].sz
  BY <1>1, <1>2, <1>4 DEF ProcInv, Forking, Family, Blank
<1>5. ASSUME cur[p].at \in Forks, ptable[p].state = "RUN", NEW m \in Pid, m = cur[p].np, NEW x \in Entries, NEW c \in CallRecs,
             x.state \in Blank, x.parent = 0, x.user = ptable[m].user, x.sz = ptable[m].sz,
             ptable' = [ptable EXCEPT ![m] = x], cur' = [cur EXCEPT ![p] = c],
             c.at \in Forks \cup {"user"}, c.at \in Forks => c.np = m /\ x.state = "EMBRYO"
      PROVE  ProcInv'
  <2>1. /\ ProcTypes' /\ ptable'[m] = x /\ cur'[p] = c /\ \A s \in Pid \ {m} : ptable'[s] = ptable[s]
        /\ \A s \in Pid \ {p} : cur'[s] = cur[s]
    BY <1>1, <1>5 DEF ProcTypes
  <2>2. ptable[m].state \in Blank
    BY <1>4, <1>5 DEF Blank
  <2> QED
    BY <1>4, <1>5, <2>1, <2>2, ChildStep
<1>6. CASE PR!ForkStack(p)
  <2>1. ptable[p].state = "RUN" /\ cur[p].at = "stack" /\ cur[p].at \in Forks
    BY <1>6 DEF PR!ForkStack, PR!At, Forks
  <2>2. PICK m \in Pid : m = cur[p].np /\ ptable[m].state = "EMBRYO" /\ ptable[m] \in Entries /\ ptable[m].parent = 0
    BY <1>4, <2>1
  <2>3. CASE nfree = 0
    <3>1. ptable' = [ptable EXCEPT ![m].state = "UNUSED"] /\ cur' = [cur EXCEPT ![p] = PR!User]
      BY <1>6, <2>2, <2>3 DEF PR!ForkStack, PR!Returns
    <3>2. PICK x : x = [ptable[m] EXCEPT !.state = "UNUSED"]
      OBVIOUS
    <3>3. x \in Entries /\ x.state = "UNUSED" /\ x.parent = 0 /\ x.user = ptable[m].user /\ x.sz = ptable[m].sz
      BY <2>2, <3>2 DEF Entries
    <3>4. ptable' = [ptable EXCEPT ![m] = x] /\ x.state \in Blank
      BY <1>1, <3>1, <3>2, <3>3 DEF Blank
    <3>5. PICK c \in CallRecs : c = PR!User /\ c.at \notin Forks /\ c.at \in Forks \cup {"user"}
      BY <1>2
    <3> QED
      BY <1>5, <2>1, <2>2, <3>1, <3>3, <3>4, <3>5
  <2>4. CASE nfree # 0
    <3>1. /\ ptable' = [ptable EXCEPT ![m].kstack = 1]
          /\ cur' = [cur EXCEPT ![p].at = "copy", ![p].goal = Base + ptable[p].sz]
      BY <1>6, <2>2, <2>4 DEF PR!ForkStack
    <3>2. PICK x : x = [ptable[m] EXCEPT !.kstack = 1]
      OBVIOUS
    <3>3. x \in Entries /\ x.state = "EMBRYO" /\ x.parent = 0 /\ x.user = ptable[m].user /\ x.sz = ptable[m].sz
      BY <2>2, <3>2 DEF Entries
    <3>4. ptable' = [ptable EXCEPT ![m] = x] /\ x.state \in Blank
      BY <1>1, <3>1, <3>2, <3>3 DEF Blank
    <3>5. PICK g \in Int : g = Base + ptable[p].sz
      BY <1>1
    <3>6. PICK c : c = [cur[p] EXCEPT !.at = "copy", !.goal = g]
      OBVIOUS
    <3>7. c \in CallRecs /\ c.at = "copy" /\ c.np = m /\ "copy" \in Forks
      BY <1>1, <2>2, <3>6 DEF CallRecs, Forks
    <3>8. cur' = [cur EXCEPT ![p] = c]
      BY <1>1, <3>1, <3>5, <3>6
    <3> QED
      BY <1>5, <2>1, <2>2, <3>3, <3>4, <3>7, <3>8
  <2> QED
    BY <2>3, <2>4
<1>7. CASE PR!ForkFail(p)
  <2>1. ptable[p].state = "RUN" /\ cur[p].at = "copy" /\ cur[p].at \in Forks
    BY <1>7 DEF PR!ForkFail, PR!At, Forks
  <2>2. PICK m \in Pid : m = cur[p].np /\ ptable[m].state = "EMBRYO" /\ ptable[m] \in Entries /\ ptable[m].parent = 0
    BY <1>4, <2>1
  <2>3. /\ ptable' = [ptable EXCEPT ![m].kstack = 0, ![m].state = "UNUSED"]
        /\ cur' = [cur EXCEPT ![p] = PR!User]
    BY <1>7, <2>2 DEF PR!ForkFail, PR!Returns
  <2>4. PICK y : y = [ptable[m] EXCEPT !.kstack = 0]
    OBVIOUS
  <2>7. PICK x : x = [y EXCEPT !.state = "UNUSED"]
    OBVIOUS
  <2>5. x \in Entries /\ x.state = "UNUSED" /\ x.parent = 0 /\ x.user = ptable[m].user /\ x.sz = ptable[m].sz
    <3>1. y \in Entries /\ y.parent = 0 /\ y.user = ptable[m].user /\ y.sz = ptable[m].sz
      BY <2>2, <2>4 DEF Entries
    <3> QED
      BY <2>7, <3>1 DEF Entries
  <2>6. ptable' = [ptable EXCEPT ![m] = x] /\ x.state \in Blank
    BY <1>1, <2>3, <2>4, <2>5, <2>7 DEF Blank
  <2>8. PICK c \in CallRecs : c = PR!User /\ c.at \notin Forks /\ c.at \in Forks \cup {"user"}
    BY <1>2
  <2> QED
    BY <1>5, <2>1, <2>2, <2>3, <2>5, <2>6, <2>8
<1> QED
  BY <1>3, <1>6, <1>7

LEMMA ForkDoneStep ==
    ASSUME Table, ProcInv, NEW p \in Pid, PR!ForkDone(p)
    PROVE  ProcInv'
<1>1. /\ ptable \in [Pid -> Entries] /\ cur \in [Pid -> CallRecs] /\ ptable[p] \in Entries
  BY DEF ProcInv, ProcTypes
<1>2. ptable[p].state = "RUN" /\ cur[p].at = "copy" /\ cur[p].at \in Forks
  BY DEF PR!ForkDone, PR!At, Forks
<1>3. PICK m \in Pid : /\ m = cur[p].np /\ ptable[m].state = "EMBRYO" /\ ptable[m] \in Entries
                       /\ \A q \in Pid \ {p} : cur[q].at \in Forks => cur[q].np # m
  BY <1>1, <1>2 DEF ProcInv, Forking
<1>4. m # p /\ m # 1 /\ cur[m].at = "user" /\ ptable[m].parent = 0
  BY <1>2, <1>3 DEF ProcInv, Family, Blank, Live
<1>5. PICK z \in Int : z = ptable[p].sz
  BY <1>1 DEF Entries
<1>6. PICK b \in Int : b = Base
  BY DEF Table
<1>7. PICK x : x = [ptable[m] EXCEPT !.state = "RUN", !.parent = p, !.sz = z, !.user = z, !.base = b]
  OBVIOUS
<1>8. x = [state |-> "RUN", parent |-> p, killed |-> ptable[m].killed, kstack |-> ptable[m].kstack, sz |-> z, user |-> z, base |-> b]
  BY <1>3, <1>7 DEF Entries
<1>9. x \in Entries /\ x.state = "RUN" /\ x.parent = p /\ x.user = x.sz
  <2>1. ptable[m].killed \in BOOLEAN /\ ptable[m].kstack \in Int
    BY <1>3 DEF Entries
  <2> QED
    BY <1>8, <2>1 DEF Entries
<1>10. PR!User \in CallRecs /\ PR!User.at = "user" /\ "user" \notin Forks
  BY DEF PR!User, PR!NoProc, CallRecs, Forks
<1>11. ptable' = [ptable EXCEPT ![m] = x] /\ cur' = [cur EXCEPT ![p] = PR!User]
  BY <1>1, <1>3, <1>5, <1>6, <1>7 DEF PR!ForkDone, PR!Returns
<1>12. /\ ProcTypes' /\ ptable'[m] = x /\ \A s \in Pid \ {m} : ptable'[s] = ptable[s]
       /\ cur'[p] = PR!User /\ \A s \in Pid \ {p} : cur'[s] = cur[s]
  BY <1>1, <1>3, <1>9, <1>10, <1>11 DEF ProcTypes
<1>13. Family'
  <2>1. ptable'[1].parent = 0 /\ ptable'[1].state \in Live /\ cur'[1].at # "getgpid"
    <3>1. 1 \in Pid
      BY DEF Table, Pid
    <3> QED
      BY <1>4, <1>10, <1>12, <3>1 DEF ProcInv, Family
  <2>2. ASSUME NEW s \in Pid
        PROVE  /\ ptable'[s].state \in Blank => ptable'[s].parent = 0
               /\ cur'[s].at # "user" => ptable'[s].state \in Live
               /\ ptable'[s].state = "SLEEPING" => cur'[s].at = "wait"
    BY <1>2, <1>9, <1>10, <1>12 DEF ProcInv, Family, Live, Blank
  <2>3. ASSUME NEW s \in Pid, s # 1, ptable'[s].state \notin Blank
        PROVE  ptable'[s].parent \in Pid \ {s} /\ ptable'[ptable'[s].parent].state \in Live
    <3>1. CASE s = m
      BY <1>2, <1>4, <1>9, <1>12, <3>1 DEF Live
    <3>2. CASE s # m
      <4>1. PICK q \in Pid \ {s} : q = ptable[s].parent /\ ptable[q].state \in Live
        BY <1>12, <2>3, <3>2 DEF ProcInv, Family
      <4>2. q # m
        BY <1>3, <4>1 DEF Live
      <4> QED
        BY <1>12, <3>2, <4>1, <4>2
    <3> QED
      BY <3>1, <3>2
  <2> QED
    BY <2>1, <2>2, <2>3 DEF Family
<1>14. Forking'
  <2> SUFFICES ASSUME NEW s \in Pid, cur'[s].at \in Forks
               PROVE  /\ cur'[s].np \in Pid /\ ptable'[cur'[s].np].state = "EMBRYO"
                      /\ \A q \in Pid \ {s} : cur'[q].at \in Forks => cur'[q].np # cur'[s].np
    BY DEF Forking
  <2>1. s # p
    BY <1>10, <1>12
  <2>2. PICK n \in Pid : n = cur[s].np /\ ptable[n].state = "EMBRYO" /\ n # m
    BY <1>3, <1>12, <2>1 DEF ProcInv, Forking
  <2>3. \A q \in Pid \ {s} : cur'[q].at \in Forks => q # p /\ cur[q].at \in Forks /\ cur'[q].np = cur[q].np
    BY <1>10, <1>12
  <2>4. cur'[s].np = n /\ ptable'[n].state = "EMBRYO"
    BY <1>12, <2>1, <2>2
  <2>5. \A q \in Pid \ {s} : cur'[q].at \in Forks => cur'[q].np # n
    BY <1>12, <2>1, <2>2, <2>3 DEF ProcInv, Forking
  <2> QED
    BY <2>4, <2>5
<1>15. Awaiting'
  <2> SUFFICES ASSUME NEW s \in Pid, ptable'[s].state = "SLEEPING"
               PROVE  /\ \E c \in Pid : ptable'[c].parent = s
                      /\ \A c \in Pid : ptable'[c].parent = s => ptable'[c].state # "ZOMBIE"
    BY DEF Awaiting
  <2>1. s # m /\ ptable[s].state = "SLEEPING" /\ s # p /\ s # 0
    BY <1>2, <1>9, <1>12 DEF Pid
  <2>2. PICK c \in Pid : ptable[c].parent = s
    BY <2>1 DEF ProcInv, Awaiting
  <2>3. ptable'[c].parent = s
    BY <1>4, <1>12, <2>1, <2>2
  <2>4. \A d \in Pid : ptable'[d].parent = s => ptable'[d].state # "ZOMBIE"
    BY <1>9, <1>12, <2>1 DEF ProcInv, Awaiting
  <2> QED
    BY <2>3, <2>4
<1>16. Present'
  BY <1>2, <1>9, <1>10, <1>12 DEF ProcInv, Present
<1> QED
  BY <1>12, <1>13, <1>14, <1>15, <1>16 DEF ProcInv

\* What exit() does to each slot.
LEMMA ExitTable ==
    ASSUME Table, ProcInv, NEW p \in Pid, PR!exit(p)
    PROVE  /\ ptable[p].state = "RUN" /\ cur[p].at = "user" /\ p # 1 /\ cur' = cur /\ ProcTypes'
           /\ ptable'[p].state = "ZOMBIE"
           /\ \A s \in Pid :
                /\ ptable'[s].parent = (IF ptable[s].parent = p THEN 1 ELSE ptable[s].parent)
                /\ ptable'[s].user = ptable[s].user /\ ptable'[s].sz = ptable[s].sz
                /\ s # p => \/ ptable'[s].state = ptable[s].state
                            \/ ptable[s].state = "SLEEPING" /\ ptable'[s].state = "RUN"
                /\ ptable'[s].state # "SLEEPING" \/ s # ptable[p].parent
                /\ ptable'[s].state = "SLEEPING" /\ s = 1 =>
                      \A c \in Pid : ptable[c].parent = p => ptable[c].state # "ZOMBIE"
<1>1. ptable \in [Pid -> Entries] /\ cur \in [Pid -> CallRecs] /\ 1 \in Pid
  BY DEF ProcInv, ProcTypes, Table, Pid
<1>2. /\ ptable[p].state = "RUN" /\ cur[p].at = "user" /\ p # 1 /\ cur' = cur
      /\ ptable' = [PR!Abandoned(p, PR!Woken(ptable, ptable[p].parent)) EXCEPT ![p].state = "ZOMBIE"]
  BY DEF PR!exit, PR!At, PR!initproc
<1>3. PICK q \in Pid \ {p} : q = ptable[p].parent
  BY <1>2 DEF ProcInv, Family, Blank
<1>4. PICK t : t = PR!Woken(ptable, q)
  OBVIOUS
<1>5. /\ t \in [Pid -> Entries]
      /\ \A s \in Pid : /\ t[s].parent = ptable[s].parent /\ t[s].user = ptable[s].user /\ t[s].sz = ptable[s].sz
                        /\ \/ t[s].state = ptable[s].state
                           \/ ptable[s].state = "SLEEPING" /\ t[s].state = "RUN"
      /\ t[q].state # "SLEEPING"
  <2>1. CASE ptable[q].state = "SLEEPING"
    <3>1. PICK x : x = [ptable[q] EXCEPT !.state = "RUN"]
      OBVIOUS
    <3>2. /\ x \in Entries /\ x.state = "RUN" /\ x.parent = ptable[q].parent /\ x.user = ptable[q].user
          /\ x.sz = ptable[q].sz
      BY <1>1, <3>1 DEF Entries
    <3>3. t = [ptable EXCEPT ![q] = x]
      BY <1>1, <1>4, <2>1, <3>1 DEF PR!Woken
    <3> QED
      BY <1>1, <2>1, <3>2, <3>3
  <2>2. CASE ptable[q].state # "SLEEPING"
    <3>1. t = ptable
      BY <1>4, <2>2 DEF PR!Woken
    <3> QED
      BY <1>1, <2>2, <3>1
  <2> QED
    BY <2>1, <2>2
<1>6. PICK g : g = [s \in Pid |-> IF t[s].parent = p THEN [t[s] EXCEPT !.parent = 1] ELSE t[s]]
  OBVIOUS
<1>7. /\ g \in [Pid -> Entries]
      /\ \A s \in Pid : /\ g[s].parent = (IF ptable[s].parent = p THEN 1 ELSE ptable[s].parent)
                        /\ g[s].user = ptable[s].user /\ g[s].sz = ptable[s].sz /\ g[s].state = t[s].state
  <2>1. ASSUME NEW s \in Pid
        PROVE  /\ g[s] \in Entries /\ g[s].parent = (IF ptable[s].parent = p THEN 1 ELSE ptable[s].parent)
               /\ g[s].user = ptable[s].user /\ g[s].sz = ptable[s].sz /\ g[s].state = t[s].state
    <3>1. PICK y \in Entries : /\ y = t[s] /\ y.parent = ptable[s].parent /\ y.user = ptable[s].user
                               /\ y.sz = ptable[s].sz
      BY <1>5
    <3>2. g[s] = IF y.parent = p THEN [y EXCEPT !.parent = 1] ELSE y
      BY <1>6, <3>1
    <3>3. /\ [y EXCEPT !.parent = 1] \in Entries /\ [y EXCEPT !.parent = 1].parent = 1
          /\ [y EXCEPT !.parent = 1].user = y.user /\ [y EXCEPT !.parent = 1].sz = y.sz
          /\ [y EXCEPT !.parent = 1].state = y.state
      BY <1>1 DEF Entries
    <3> QED
      BY <3>1, <3>2, <3>3
  <2> QED
    BY <1>6, <2>1
<1>8. PICK h : h = PR!Abandoned(p, t)
  OBVIOUS
<1>9. h = IF \E s \in Pid : t[s].parent = p /\ t[s].state = "ZOMBIE" THEN PR!Woken(g, 1) ELSE g
  BY <1>6, <1>8 DEF PR!Abandoned, PR!Slot, PR!initproc, Pid
<1>10. /\ h \in [Pid -> Entries]
       /\ \A s \in Pid : /\ h[s].parent = g[s].parent /\ h[s].user = g[s].user /\ h[s].sz = g[s].sz
                         /\ \/ h[s].state = g[s].state
                            \/ g[s].state = "SLEEPING" /\ h[s].state = "RUN"
       /\ h[1].state = "SLEEPING" => ~\E s \in Pid : t[s].parent = p /\ t[s].state = "ZOMBIE"
  <2>1. CASE (\E s \in Pid : t[s].parent = p /\ t[s].state = "ZOMBIE") /\ g[1].state = "SLEEPING"
    <3>1. PICK x : x = [g[1] EXCEPT !.state = "RUN"]
      OBVIOUS
    <3>2. /\ x \in Entries /\ x.state = "RUN" /\ x.parent = g[1].parent /\ x.user = g[1].user
          /\ x.sz = g[1].sz
      BY <1>1, <1>7, <3>1 DEF Entries
    <3>3. h = [g EXCEPT ![1] = x]
      BY <1>1, <1>7, <1>9, <2>1, <3>1 DEF PR!Woken
    <3> QED
      BY <1>1, <1>7, <2>1, <3>2, <3>3
  <2>2. CASE (\E s \in Pid : t[s].parent = p /\ t[s].state = "ZOMBIE") /\ g[1].state # "SLEEPING"
    <3>1. h = g
      BY <1>9, <2>2 DEF PR!Woken
    <3> QED
      BY <1>7, <2>2, <3>1
  <2>3. CASE ~\E s \in Pid : t[s].parent = p /\ t[s].state = "ZOMBIE"
    <3>1. h = g
      BY <1>9, <2>3
    <3> QED
      BY <1>7, <2>3, <3>1
  <2> QED
    BY <2>1, <2>2, <2>3
<1>11. PICK x : x = [h[p] EXCEPT !.state = "ZOMBIE"]
  OBVIOUS
<1>12. x \in Entries /\ x.state = "ZOMBIE" /\ x.parent = h[p].parent /\ x.user = h[p].user /\ x.sz = h[p].sz
  BY <1>10, <1>11 DEF Entries
<1>13. ptable' = [h EXCEPT ![p] = x]
  BY <1>2, <1>3, <1>4, <1>8, <1>10, <1>11
<1>14. ptable'[p] = x /\ (\A s \in Pid \ {p} : ptable'[s] = h[s]) /\ ProcTypes'
  BY <1>1, <1>2, <1>10, <1>12, <1>13 DEF ProcTypes
<1>15. ASSUME NEW s \in Pid
       PROVE  /\ ptable'[s].parent = (IF ptable[s].parent = p THEN 1 ELSE ptable[s].parent)
              /\ ptable'[s].user = ptable[s].user /\ ptable'[s].sz = ptable[s].sz
              /\ s # p => \/ ptable'[s].state = ptable[s].state
                          \/ ptable[s].state = "SLEEPING" /\ ptable'[s].state = "RUN"
              /\ ptable'[s].state # "SLEEPING" \/ s # ptable[p].parent
              /\ ptable'[s].state = "SLEEPING" /\ s = 1 =>
                    \A c \in Pid : ptable[c].parent = p => ptable[c].state # "ZOMBIE"
  <2>1. CASE s = p
    <3>1. ptable'[s].state # "SLEEPING"
      BY <1>12, <1>14, <2>1
    <3>2. /\ ptable'[s].parent = h[s].parent /\ ptable'[s].user = h[s].user /\ ptable'[s].sz = h[s].sz
      BY <1>12, <1>14, <2>1
    <3>3. /\ h[s].parent = g[s].parent /\ h[s].user = g[s].user /\ h[s].sz = g[s].sz
      BY <1>10
    <3>4. /\ g[s].parent = (IF ptable[s].parent = p THEN 1 ELSE ptable[s].parent)
          /\ g[s].user = ptable[s].user /\ g[s].sz = ptable[s].sz
      BY <1>5, <1>7
    <3> QED
      BY <2>1, <3>1, <3>2, <3>3, <3>4
  <2>2. CASE s # p
    <3>1. /\ ptable'[s].parent = (IF ptable[s].parent = p THEN 1 ELSE ptable[s].parent)
          /\ ptable'[s].user = ptable[s].user /\ ptable'[s].sz = ptable[s].sz
      BY <1>7, <1>10, <1>14, <2>2
    <3>2. \/ ptable'[s].state = ptable[s].state
          \/ ptable[s].state = "SLEEPING" /\ ptable'[s].state = "RUN"
      BY <1>5, <1>7, <1>10, <1>14, <2>2
    <3>3. ptable'[s].state # "SLEEPING" \/ s # ptable[p].parent
      BY <1>3, <1>5, <1>7, <1>10, <1>14, <2>2
    <3>4. ASSUME ptable'[s].state = "SLEEPING", s = 1, NEW c \in Pid, ptable[c].parent = p PROVE ptable[c].state # "ZOMBIE"
      <4>1. h[1].state = "SLEEPING"
        BY <1>14, <2>2, <3>4
      <4>2. t[c].parent = p /\ t[c].state # "ZOMBIE"
        BY <1>5, <1>10, <3>4, <4>1
      <4> QED
        BY <1>5, <4>2
    <3> QED
      BY <2>2, <3>1, <3>2, <3>3, <3>4
  <2> QED
    BY <2>1, <2>2
<1>16. ptable'[p].state = "ZOMBIE"
  BY <1>12, <1>14
<1> QED
  BY <1>2, <1>14, <1>15, <1>16

LEMMA ExitStep ==
    ASSUME Table, ProcInv, NEW p \in Pid, PR!exit(p)
    PROVE  ProcInv'
<1>1. /\ ptable[p].state = "RUN" /\ cur[p].at = "user" /\ p # 1 /\ cur' = cur /\ ProcTypes'
      /\ ptable'[p].state = "ZOMBIE" /\ 1 \in Pid
      /\ ptable[p].parent \in Pid \ {p} /\ ptable[1].parent = 0 /\ 0 \notin Pid
  BY ExitTable DEF ProcInv, Family, Blank, Table, Pid
<1>2. \A s \in Pid :
         /\ ptable'[s].parent = (IF ptable[s].parent = p THEN 1 ELSE ptable[s].parent)
         /\ ptable'[s].user = ptable[s].user /\ ptable'[s].sz = ptable[s].sz
         /\ s # p => \/ ptable'[s].state = ptable[s].state
                     \/ ptable[s].state = "SLEEPING" /\ ptable'[s].state = "RUN"
         /\ ptable'[s].state # "SLEEPING" \/ s # ptable[p].parent
         /\ ptable'[s].state = "SLEEPING" /\ s = 1 =>
               \A c \in Pid : ptable[c].parent = p => ptable[c].state # "ZOMBIE"
  BY ExitTable
<1>3. Family'
  <2>1. ptable'[1].parent = 0 /\ ptable'[1].state \in Live /\ cur'[1].at # "getgpid"
    BY <1>1, <1>2 DEF ProcInv, Family, Live
  <2>2. ASSUME NEW s \in Pid
        PROVE  /\ ptable'[s].state \in Blank => ptable'[s].parent = 0
               /\ cur'[s].at # "user" => ptable'[s].state \in Live
               /\ ptable'[s].state = "SLEEPING" => cur'[s].at = "wait"
    <3>1. CASE s = p
      BY <1>1, <3>1 DEF Blank
    <3>2. CASE s # p
      BY <1>1, <1>2, <3>2 DEF ProcInv, Family, Live, Blank
    <3> QED
      BY <3>1, <3>2
  <2>3. ASSUME NEW s \in Pid, s # 1, ptable'[s].state \notin Blank
        PROVE  ptable'[s].parent \in Pid \ {s} /\ ptable'[ptable'[s].parent].state \in Live
    <3>1. ptable[s].state \notin Blank
      BY <1>1, <1>2, <2>3 DEF Blank
    <3>2. PICK q \in Pid \ {s} : q = ptable[s].parent /\ ptable[q].state \in Live
      BY <2>3, <3>1 DEF ProcInv, Family
    <3>3. CASE q = p
      <4>1. ptable'[s].parent = 1
        BY <1>2, <3>2, <3>3
      <4>2. 1 \in Pid \ {s}
        BY <1>1, <2>3
      <4> QED
        BY <2>1, <4>1, <4>2
    <3>4. CASE q # p
      BY <1>2, <3>2, <3>4 DEF Live
    <3> QED
      BY <3>3, <3>4
  <2> QED
    BY <2>1, <2>2, <2>3 DEF Family
<1>4. Forking'
  <2> SUFFICES ASSUME NEW s \in Pid, cur[s].at \in Forks
               PROVE  /\ cur[s].np \in Pid /\ ptable'[cur[s].np].state = "EMBRYO"
                      /\ \A q \in Pid \ {s} : cur[q].at \in Forks => cur[q].np # cur[s].np
    BY <1>1 DEF Forking
  <2>1. PICK n \in Pid : n = cur[s].np /\ ptable[n].state = "EMBRYO"
    BY DEF ProcInv, Forking
  <2>2. ptable'[n].state = "EMBRYO"
    BY <1>1, <1>2, <2>1
  <2> QED
    BY <2>1, <2>2 DEF ProcInv, Forking
<1>5. Awaiting'
  <2> SUFFICES ASSUME NEW s \in Pid, ptable'[s].state = "SLEEPING"
               PROVE  /\ \E c \in Pid : ptable'[c].parent = s
                      /\ \A c \in Pid : ptable'[c].parent = s => ptable'[c].state # "ZOMBIE"
    BY DEF Awaiting
  <2>1. s # p /\ ptable[s].state = "SLEEPING" /\ s # ptable[p].parent
    BY <1>1, <1>2
  <2>2. PICK c \in Pid : ptable[c].parent = s
    BY <2>1 DEF ProcInv, Awaiting
  <2>3. ptable'[c].parent = s
    BY <1>2, <2>1, <2>2
  <2>4. ASSUME NEW d \in Pid, ptable'[d].parent = s PROVE ptable'[d].state # "ZOMBIE"
    <3>1. d # p
      BY <1>1, <1>2, <2>1, <2>4
    <3>2. ptable[d].state # "ZOMBIE"
      <4>1. CASE ptable[d].parent = p
        BY <1>2, <2>4, <4>1
      <4>2. CASE ptable[d].parent # p
        BY <1>2, <2>1, <2>4, <4>2 DEF ProcInv, Awaiting
      <4> QED
        BY <4>1, <4>2
    <3> QED
      BY <1>2, <3>1, <3>2
  <2> QED
    BY <2>3, <2>4
<1>6. Present'
  BY <1>1, <1>2 DEF ProcInv, Present
<1> QED
  BY <1>1, <1>3, <1>4, <1>5, <1>6 DEF ProcInv

LEMMA WaitSteps ==
    ASSUME Table, ProcInv, NEW p \in Pid, PR!WaitReap(p) \/ PR!WaitSleep(p)
    PROVE  ProcInv'
<1>1. /\ ptable \in [Pid -> Entries] /\ cur \in [Pid -> CallRecs] /\ ptable[p] \in Entries /\ cur[p] \in CallRecs
      /\ 1 \in Pid /\ 0 \notin Pid
  BY DEF ProcInv, ProcTypes, Table, Pid
<1>2. PR!User \in CallRecs /\ PR!User.at = "user" /\ "user" \notin Forks /\ "wait" \notin Forks
  BY DEF PR!User, PR!NoProc, CallRecs, Forks
<1>3. ptable[p].state = "RUN" /\ ptable[p].user = ptable[p].sz
  BY <1>1 DEF PR!WaitReap, PR!WaitSleep, PR!Runs, PR!At, ProcInv, Present, Entries
<1>4. CASE PR!WaitReap(p)
  <2>1. PICK Z \in SUBSET Pid : Z = {s \in Pid : ptable[s].parent = p /\ ptable[s].state = "ZOMBIE"}
    OBVIOUS
  <2>2. Z = PR!Zombies(p)
    BY <2>1 DEF PR!Zombies, PR!Children, PR!Slot, Pid
  <2>3. PICK z \in Z : z = PR!Min(Z)
    BY <1>4, <2>2, FirstSlot DEF PR!WaitReap
  <2>4. z \in Pid /\ ptable[z].parent = p /\ ptable[z].state = "ZOMBIE"
    BY <2>1
  <2>5. PR!Unused \in Entries /\ PR!Unused.state = "UNUSED" /\ PR!Unused.parent = 0 /\ PR!Unused.user = PR!Unused.sz
    BY DEF PR!Unused, PR!NoProc, Entries
  <2>6. ptable' = [ptable EXCEPT ![z] = PR!Unused] /\ cur' = [cur EXCEPT ![p] = PR!User]
    BY <1>4, <2>2, <2>3 DEF PR!WaitReap, PR!Returns
  <2>7. /\ ProcTypes' /\ ptable'[z] = PR!Unused /\ \A s \in Pid \ {z} : ptable'[s] = ptable[s]
        /\ cur'[p] = PR!User /\ \A s \in Pid \ {p} : cur'[s] = cur[s]
    BY <1>1, <1>2, <2>4, <2>5, <2>6 DEF ProcTypes
  <2>8. z # p /\ z # 1 /\ cur[z].at = "user"
    BY <1>1, <1>3, <2>4 DEF ProcInv, Family, Live
  <2>9. Family'
    <3>1. ptable'[1].parent = 0 /\ ptable'[1].state \in Live /\ cur'[1].at # "getgpid"
      BY <1>1, <1>2, <2>7, <2>8 DEF ProcInv, Family
    <3>2. ASSUME NEW s \in Pid
          PROVE  /\ ptable'[s].state \in Blank => ptable'[s].parent = 0
                 /\ cur'[s].at # "user" => ptable'[s].state \in Live
                 /\ ptable'[s].state = "SLEEPING" => cur'[s].at = "wait"
      BY <1>2, <1>3, <2>5, <2>7, <2>8 DEF ProcInv, Family, Live, Blank
    <3>3. ASSUME NEW s \in Pid, s # 1, ptable'[s].state \notin Blank
          PROVE  ptable'[s].parent \in Pid \ {s} /\ ptable'[ptable'[s].parent].state \in Live
      <4>1. s # z /\ ptable[s].state \notin Blank
        BY <2>5, <2>7, <3>3 DEF Blank
      <4>2. PICK q \in Pid \ {s} : q = ptable[s].parent /\ ptable[q].state \in Live
        BY <3>3, <4>1 DEF ProcInv, Family
      <4>3. q # z
        BY <2>4, <4>2 DEF Live
      <4> QED
        BY <2>7, <4>1, <4>2, <4>3
    <3> QED
      BY <3>1, <3>2, <3>3 DEF Family
  <2>10. Forking'
    <3> SUFFICES ASSUME NEW s \in Pid, cur'[s].at \in Forks
                 PROVE  /\ cur'[s].np \in Pid /\ ptable'[cur'[s].np].state = "EMBRYO"
                        /\ \A q \in Pid \ {s} : cur'[q].at \in Forks => cur'[q].np # cur'[s].np
      BY DEF Forking
    <3>1. \A q \in Pid : cur'[q].at \in Forks => q # p /\ cur[q].at \in Forks /\ cur'[q].np = cur[q].np
      BY <1>2, <2>7
    <3>2. PICK n \in Pid : n = cur[s].np /\ ptable[n].state = "EMBRYO" /\ n # z
      BY <2>4, <3>1 DEF ProcInv, Forking
    <3>3. cur'[s].np = n /\ ptable'[n].state = "EMBRYO"
      BY <2>7, <3>1, <3>2
    <3>4. \A q \in Pid \ {s} : cur'[q].at \in Forks => cur'[q].np # n
      BY <3>1, <3>2 DEF ProcInv, Forking
    <3> QED
      BY <3>3, <3>4
  <2>11. Awaiting'
    <3> SUFFICES ASSUME NEW s \in Pid, ptable'[s].state = "SLEEPING"
                 PROVE  /\ \E c \in Pid : ptable'[c].parent = s
                        /\ \A c \in Pid : ptable'[c].parent = s => ptable'[c].state # "ZOMBIE"
      BY DEF Awaiting
    <3>1. s # z /\ ptable[s].state = "SLEEPING" /\ s # p /\ s # 0
      BY <1>1, <1>3, <2>5, <2>7
    <3>2. PICK c \in Pid : ptable[c].parent = s
      BY <3>1 DEF ProcInv, Awaiting
    <3>3. ptable'[c].parent = s
      BY <2>4, <2>7, <3>1, <3>2
    <3>4. \A d \in Pid : ptable'[d].parent = s => ptable'[d].state # "ZOMBIE"
      BY <2>5, <2>7, <3>1 DEF ProcInv, Awaiting
    <3> QED
      BY <3>3, <3>4
  <2>12. Present'
    BY <1>2, <1>3, <2>5, <2>7, <2>8 DEF ProcInv, Present
  <2> QED
    BY <2>7, <2>9, <2>10, <2>11, <2>12 DEF ProcInv
<1>5. CASE PR!WaitSleep(p)
  <2>1. /\ ptable' = [ptable EXCEPT ![p].state = "SLEEPING"] /\ cur' = [cur EXCEPT ![p].at = "wait"]
        /\ PR!Zombies(p) = {} /\ PR!Children(p) # {}
    BY <1>5 DEF PR!WaitSleep, PR!Goes
  <2>2. PICK x, c : x = [ptable[p] EXCEPT !.state = "SLEEPING"] /\ c = [cur[p] EXCEPT !.at = "wait"]
    OBVIOUS
  <2>3. x \in Entries /\ x.state = "SLEEPING" /\ x.parent = ptable[p].parent /\ x.user = x.sz
    BY <1>1, <1>3, <2>2 DEF Entries
  <2>4. c \in CallRecs /\ c.at = "wait"
    BY <1>1, <2>2 DEF CallRecs
  <2>5. /\ ProcTypes' /\ ptable'[p] = x /\ \A s \in Pid \ {p} : ptable'[s] = ptable[s]
        /\ cur'[p] = c /\ \A s \in Pid \ {p} : cur'[s] = cur[s]
    BY <1>1, <2>1, <2>2, <2>3, <2>4 DEF ProcTypes
  <2>6. /\ \E d \in Pid : ptable[d].parent = p
        /\ \A d \in Pid : ptable[d].parent = p => ptable[d].state # "ZOMBIE"
    BY <2>1 DEF PR!Zombies, PR!Children, PR!Slot, Pid
  <2>7. \A s \in Pid : ptable'[s].parent = ptable[s].parent /\ (ptable'[s].state = ptable[s].state \/ s = p)
    BY <2>3, <2>5
  <2>8. Family'
    <3>1. ptable'[1].parent = 0 /\ ptable'[1].state \in Live /\ cur'[1].at # "getgpid"
      BY <1>1, <2>3, <2>4, <2>5 DEF ProcInv, Family, Live
    <3>2. ASSUME NEW s \in Pid
          PROVE  /\ ptable'[s].state \in Blank => ptable'[s].parent = 0
                 /\ cur'[s].at # "user" => ptable'[s].state \in Live
                 /\ ptable'[s].state = "SLEEPING" => cur'[s].at = "wait"
      BY <2>3, <2>4, <2>5 DEF ProcInv, Family, Live, Blank
    <3>3. ASSUME NEW s \in Pid, s # 1, ptable'[s].state \notin Blank
          PROVE  ptable'[s].parent \in Pid \ {s} /\ ptable'[ptable'[s].parent].state \in Live
      <4>1. ptable[s].state \notin Blank
        BY <1>3, <2>7, <3>3 DEF Blank
      <4>2. PICK q \in Pid \ {s} : q = ptable[s].parent /\ ptable[q].state \in Live
        BY <3>3, <4>1 DEF ProcInv, Family
      <4>3. ptable'[q].state \in Live
        BY <2>3, <2>5, <4>2 DEF Live
      <4> QED
        BY <2>7, <4>2, <4>3
    <3> QED
      BY <3>1, <3>2, <3>3 DEF Family
  <2>9. Forking'
    <3> SUFFICES ASSUME NEW s \in Pid, cur'[s].at \in Forks
                 PROVE  /\ cur'[s].np \in Pid /\ ptable'[cur'[s].np].state = "EMBRYO"
                        /\ \A q \in Pid \ {s} : cur'[q].at \in Forks => cur'[q].np # cur'[s].np
      BY DEF Forking
    <3>1. \A q \in Pid : cur'[q].at \in Forks => q # p /\ cur[q].at \in Forks /\ cur'[q].np = cur[q].np
      BY <1>2, <2>4, <2>5
    <3>2. PICK n \in Pid : n = cur[s].np /\ ptable[n].state = "EMBRYO" /\ n # p
      BY <1>3, <3>1 DEF ProcInv, Forking
    <3>3. cur'[s].np = n /\ ptable'[n].state = "EMBRYO"
      BY <2>5, <3>1, <3>2
    <3>4. \A q \in Pid \ {s} : cur'[q].at \in Forks => cur'[q].np # n
      BY <3>1, <3>2 DEF ProcInv, Forking
    <3> QED
      BY <3>3, <3>4
  <2>10. Awaiting'
    <3> SUFFICES ASSUME NEW s \in Pid, ptable'[s].state = "SLEEPING"
                 PROVE  /\ \E d \in Pid : ptable'[d].parent = s
                        /\ \A d \in Pid : ptable'[d].parent = s => ptable'[d].state # "ZOMBIE"
      BY DEF Awaiting
    <3>1. /\ \E d \in Pid : ptable[d].parent = s
          /\ \A d \in Pid : ptable[d].parent = s => ptable[d].state # "ZOMBIE"
      <4>1. CASE s = p
        BY <2>6, <4>1
      <4>2. CASE s # p
        BY <2>7, <4>2 DEF ProcInv, Awaiting
      <4> QED
        BY <4>1, <4>2
    <3> QED
      BY <2>3, <2>5, <2>7, <3>1
  <2>11. Present'
    BY <2>3, <2>5 DEF ProcInv, Present
  <2> QED
    BY <2>5, <2>8, <2>9, <2>10, <2>11 DEF ProcInv
<1> QED
  BY <1>4, <1>5

LEMMA ProcStep ==
    ASSUME Table, ProcInv, [PR!Next]_(PR!procVars)
    PROVE  ProcInv'
<1>1. CASE UNCHANGED PR!procVars
  BY <1>1 DEF PR!procVars, ProcInv, ProcTypes, Family, Forking, Awaiting, Present
<1>2. ASSUME NEW p \in Pid,
             \/ PR!fork(p) \/ PR!ForkStack(p) \/ PR!Kalloc(p) \/ PR!ForkFail(p) \/ PR!ForkDone(p)
             \/ PR!exec(p) \/ PR!ExecBad(p) \/ PR!ExecCommit(p) \/ PR!growproc(p) \/ PR!GrowDone(p)
             \/ PR!GrowFail(p) \/ PR!Shrink(p) \/ PR!exit(p) \/ PR!WaitReap(p) \/ PR!WaitSleep(p)
             \/ PR!WaitNone(p) \/ PR!kill(p) \/ PR!getgpid(p) \/ PR!GetgpidRead(p)
      PROVE  ProcInv'
  BY <1>2, ForkSteps, ForkDoneStep, QuietSteps, ExitStep, WaitSteps, KillQuiet
<1> QED
  BY <1>1, <1>2 DEF PR!Next, PR!Slot, Pid

\* proc.c: a process has a parent that can still wait for it, nobody sleeps in wait() beside a
\* child that has ended, and fork() never meets a hole in the memory of its caller.
THEOREM ParentsWaitHolds == ASSUME Table PROVE PR!Spec => [](PR!ParentsWait /\ PR!NoHole)
<1>1. PR!Init => ProcInv
  BY ProcInit
<1>2. ProcInv /\ [PR!Next]_(PR!procVars) => ProcInv'
  BY ProcStep
<1>3. ProcInv => PR!ParentsWait /\ PR!NoHole
  <2> SUFFICES ASSUME ProcInv PROVE PR!ParentsWait /\ PR!NoHole
    OBVIOUS
  <2>1. \A s \in Pid \ {1} : ptable[s].state \notin {"UNUSED", "EMBRYO"} => ptable[ptable[s].parent].state \in {"RUN", "SLEEPING"}
    BY DEF ProcInv, Family, Blank, Live
  <2>2. ASSUME NEW p \in Pid, ptable[p].state = "SLEEPING" PROVE PR!Children(p) # {} /\ PR!Zombies(p) = {}
    BY <2>2 DEF ProcInv, Awaiting, PR!Children, PR!Zombies, PR!Slot, Pid
  <2>3. PR!NoHole
    BY DEF ProcInv, Present, PR!NoHole, PR!Slot, Pid
  <2> QED
    BY <2>1, <2>2, <2>3 DEF PR!ParentsWait, PR!Slot, PR!initproc, Pid
<1> QED
  BY <1>1, <1>2, <1>3, PTL DEF PR!Spec

\* add_syscall.c: getgpid() meets a process without a parent only when it asks a child of
\* init, or when its parent has ended since it looked.
THEOREM GrandparentKnownHolds == ASSUME Table PROVE PR!Spec => []PR!GrandparentKnown
<1>1. PR!Init => ProcInv
  BY ProcInit
<1>2. ProcInv /\ [PR!Next]_(PR!procVars) => ProcInv'
  BY ProcStep
<1>3. ProcInv => PR!GrandparentKnown
  <2> SUFFICES ASSUME ProcInv, NEW p \in Pid, PR!At(p, "getgpid"), ptable[cur[p].pp].parent = 0,
                      ptable[p].parent = cur[p].pp
               PROVE  cur[p].pp = 1
    BY DEF PR!GrandparentKnown, PR!Slot, PR!NoProc, PR!initproc, Pid
  <2>1. p # 1 /\ ptable[p].state \notin Blank
    BY DEF PR!At, ProcInv, Family, Blank
  <2>2. PICK q \in Pid : q = ptable[p].parent /\ ptable[q].state \in Live
    BY <2>1 DEF ProcInv, Family
  <2>3. q # 1 => ptable[q].parent \in Pid
    BY <2>2 DEF ProcInv, Family, Blank, Live
  <2>4. 0 \notin Pid
    BY DEF Pid
  <2> QED
    BY <2>2, <2>3, <2>4
<1> QED
  BY <1>1, <1>2, <1>3, PTL DEF PR!Spec
===============================================================================
