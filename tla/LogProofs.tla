------------------------------- MODULE LogProofs -------------------------------
(***************************************************************************)
(* Proofs about Log, for every number of processes, blocks and log blocks: *)
(* the invariant LogInv, that the log implements AtomicDisk, crashes       *)
(* included, and that no transaction outgrows the LOGSIZE entries of       *)
(* log.lh.                                                                 *)
(***************************************************************************)
EXTENDS Log, FiniteSetTheorems, FunctionTheorems, TLAPS

IInv == TypeOK /\ LogInv /\ SleepersAwaited

USE LogAssumption

-------------------------------------------------------------------------------
(* Lemmas on sequences, on the calls in progress and on what is recovered *)

\* Appending a block to the transaction adds it to the blocks of the log.
LEMMA AppendToRecover ==
    ASSUME NEW s \in Seq(Block), NEW b \in Block
    PROVE  /\ Append(s, b) \in Seq(Block)
           /\ ToRecover(Append(s, b)) = ToRecover(s) \cup {b}
           /\ Len(Append(s, b)) = Len(s) + 1
           /\ Distinct(s) /\ b \notin ToRecover(s) => Distinct(Append(s, b))
           /\ \A n \in DOMAIN s : n \in DOMAIN Append(s, b) /\ Append(s, b)[n] = s[n]
<1> DEFINE t == Append(s, b)
<1>1. t \in Seq(Block) /\ Len(t) = Len(s) + 1 /\ t[Len(s) + 1] = b
  OBVIOUS
<1>2. DOMAIN s = 1 .. Len(s) /\ DOMAIN t = 1 .. Len(s) + 1 /\ Len(s) \in Nat
  OBVIOUS
<1>3. \A n \in 1 .. Len(s) : t[n] = s[n]
  OBVIOUS
<1> HIDE DEF t
<1>4. ToRecover(t) = ToRecover(s) \cup {b}
  <2>1. ASSUME NEW n \in DOMAIN t PROVE t[n] \in ToRecover(s) \cup {b}
    <3>1. n \in DOMAIN s \/ n = Len(s) + 1
      BY <1>2
    <3> QED
      BY <1>1, <1>2, <1>3, <3>1 DEF ToRecover
  <2>2. ASSUME NEW n \in DOMAIN s PROVE s[n] \in ToRecover(t)
    <3>1. n \in DOMAIN t /\ t[n] = s[n]
      BY <1>2, <1>3
    <3> QED
      BY <3>1 DEF ToRecover
  <2>3. b \in ToRecover(t)
    <3>1. Len(s) + 1 \in DOMAIN t
      BY <1>2
    <3> QED
      BY <1>1, <3>1 DEF ToRecover
  <2>4. ToRecover(t) \subseteq ToRecover(s) \cup {b}
    BY <2>1 DEF ToRecover
  <2>5. ToRecover(s) \cup {b} \subseteq ToRecover(t)
    BY <2>2, <2>3 DEF ToRecover
  <2> QED
    BY <2>4, <2>5
<1>5. ASSUME Distinct(s), b \notin ToRecover(s) PROVE Distinct(t)
  <2> SUFFICES ASSUME NEW m \in DOMAIN t, NEW n \in DOMAIN t, t[m] = t[n] PROVE m = n
    BY DEF Distinct
  <2>1. m \in DOMAIN s \/ m = Len(s) + 1
    BY <1>2
  <2>2. n \in DOMAIN s \/ n = Len(s) + 1
    BY <1>2
  <2>3. \A k \in DOMAIN s : t[k] = s[k] /\ s[k] # b
    BY <1>2, <1>3, <1>5 DEF ToRecover
  <2> QED
    BY <1>1, <1>5, <2>1, <2>2, <2>3 DEF Distinct
<1> QED
  BY <1>1, <1>2, <1>3, <1>4, <1>5 DEF t

\* Active is finite, and a call that begins or ends changes its size by one.
LEMMA ActiveSize ==
    /\ IsFiniteSet(Active)
    /\ Cardinality(Active) \in Nat
    /\ \A p \in Op \ Active : Cardinality(Active \cup {p}) = Cardinality(Active) + 1
    /\ \A p \in Active : Cardinality(Active \ {p}) = Cardinality(Active) - 1
    /\ Cardinality(Active) = 0 <=> Active = {}
<1>1. Active \subseteq Op
  BY DEF Active
<1>2. IsFiniteSet(Active)
  BY <1>1, FS_Subset
<1> QED
  BY <1>2, FS_CardinalityType, FS_AddElement, FS_RemoveElement, FS_EmptySet

\* An empty header: a restart finds the home locations as they are.
LEMMA RecoveredEmpty ==
    ASSUME TypeOK, header = <<>>
    PROVE  Recovered = disk
BY DEF TypeOK, Recovered, ToRecover

\* A block the header names comes from its own place in the log.
LEMMA RecoveredLogged ==
    ASSUME TypeOK, Distinct(header), NEW n \in DOMAIN header
    PROVE  Recovered[header[n]] = logarea[n]
<1>1. header[n] \in Block /\ header[n] \in ToRecover(header)
  BY DEF TypeOK, ToRecover
<1>2. (CHOOSE m \in DOMAIN header : header[m] = header[n]) = n
  BY DEF Distinct
<1> QED
  BY <1>1, <1>2 DEF Recovered

\* ... and so does every block once all of them are installed.
LEMMA RecoveredInstalled ==
    ASSUME TypeOK, Distinct(header), \A n \in DOMAIN header : disk[header[n]] = logarea[n]
    PROVE  Recovered = disk
<1>1. ASSUME NEW b \in Block PROVE Recovered[b] = disk[b]
  <2>1. CASE b \in ToRecover(header)
    BY <2>1, RecoveredLogged DEF ToRecover
  <2>2. CASE b \notin ToRecover(header)
    BY <2>2 DEF Recovered
  <2> QED
    BY <2>1, <2>2
<1>2. Recovered = [b \in Block |-> Recovered[b]]
  BY DEF Recovered
<1> QED
  BY <1>1, <1>2 DEF TypeOK

-------------------------------------------------------------------------------
(* The invariant: every action keeps it *)

\* A disk made by mkfs satisfies it.
LEMMA InitIInv == Init => IInv
<1> SUFFICES ASSUME Init PROVE IInv
  OBVIOUS
<1>1. Active = {} /\ Held = {}
  BY DEF Init, Active, Held, Idle
<1>2. Max \in Nat /\ (CHOOSE b \in Block : TRUE) \in Block
  BY DEF Max
<1>3. TypeOK
  BY <1>2 DEF Init, TypeOK, Idle, BootStages, CommitStages
<1>4. Counted /\ Drained
  BY <1>1, ActiveSize DEF Init, Counted, Drained
<1>5. Coherent /\ HeaderInv /\ CopyInv
  BY <1>2 DEF Init, Coherent, HeaderInv, CopyInv, Distinct, Logged, Installed, ToRecover
<1> QED
  BY <1>3, <1>4, <1>5 DEF IInv, LogInv, SleepersAwaited, Init, Idle

\* A crash: whatever has reached the disk satisfies it again.
LEMMA CrashStep == IInv /\ Crash => IInv'
<1> SUFFICES ASSUME IInv, Crash PROVE IInv'
  OBVIOUS
<1> USE DEF IInv, LogInv
<1>1. Active' = {} /\ Held' = {}
  BY DEF Crash, Active, Held, Idle
<1>2. TypeOK'
  BY DEF Crash, TypeOK, Idle, BootStages, CommitStages, ondisk
<1>3. Counted' /\ Drained'
  BY <1>1, FS_EmptySet DEF Crash, Counted, Drained
<1>4. Coherent' /\ HeaderInv' /\ CopyInv'
  BY <1>2 DEF Crash, Coherent, HeaderInv, CopyInv, Distinct, Logged, Installed, ToRecover, ondisk
<1> QED
  BY <1>2, <1>3, <1>4 DEF SleepersAwaited, Crash, Idle

\* Recovery reads the header; the disk stays as it is.
LEMMA ReadHeadStep == IInv /\ read_head => IInv'
<1> SUFFICES ASSUME IInv, read_head PROVE IInv'
  OBVIOUS
<1> USE DEF IInv, LogInv
<1>1. Active' = Active /\ Held' = Held /\ Active = {}
  BY DEF read_head, Active, Held, procs, Counted
<1>2. TypeOK'
  BY DEF read_head, TypeOK, BootStages, CommitStages, ondisk, procs
<1>3. Counted' /\ Drained'
  BY <1>1, FS_EmptySet DEF read_head, Counted, Drained, procs
<1>4. Coherent'
  BY <1>1 DEF read_head, Coherent, ondisk, BootStages, Drained, ToRecover
<1>5. HeaderInv' /\ CopyInv'
  BY DEF TypeOK, read_head, HeaderInv, CopyInv, Distinct, Logged, Installed, ondisk
<1> QED
  BY <1>2, <1>3, <1>4, <1>5 DEF SleepersAwaited, read_head, committing, CommitStages, procs

\* begin_op(): a call that finds no space leaves another one, or a commit, to
\* wait for.
LEMMA TryBeginStep ==
    ASSUME IInv, NEW p \in Op, Up, pc[p] \in {"idle", "woken"}, TryBegin(p)
    PROVE  IInv'
<1> USE DEF IInv, LogInv
<1>1. TypeOK'
  BY DEF TryBegin, TypeOK, ondisk
<1>2. Held' = Held
  BY DEF TryBegin, Held, TypeOK
<1>3. p \notin Active
  BY DEF Active
<1>4. CASE committing \/ NoSpace
  <2>1. pc' = [pc EXCEPT ![p] = "asleep"] /\ outstanding' = outstanding
    BY <1>4 DEF TryBegin
  <2>2. Active' = Active
    BY <1>3, <2>1 DEF Active, TypeOK
  <2>3. Counted' /\ Drained'
    BY <2>1, <2>2 DEF TryBegin, Counted, Drained
  <2>4. Coherent' /\ HeaderInv' /\ CopyInv'
    BY <1>2 DEF TryBegin, Coherent, HeaderInv, CopyInv, Distinct, Logged, Installed, ToRecover, ondisk
  <2>5. committing \/ outstanding > 0
    <3> SUFFICES ASSUME ~committing, outstanding = 0 PROVE FALSE
      BY DEF TypeOK
    <3>1. stage = "idle" /\ Active = {}
      BY ActiveSize DEF TypeOK, committing, Up, Counted
    <3>2. lh = <<>>
      BY <3>1 DEF Drained
    <3> QED
      BY <1>4, <3>2 DEF NoSpace
  <2>6. SleepersAwaited'
    BY <2>1, <2>5 DEF SleepersAwaited, TryBegin, committing
  <2> QED
    BY <1>1, <2>3, <2>4, <2>6
<1>5. CASE ~committing /\ ~NoSpace
  <2>1. pc' = [pc EXCEPT ![p] = "active"] /\ outstanding' = outstanding + 1
    BY <1>5 DEF TryBegin
  <2>2. Active' = Active \cup {p}
    BY <2>1 DEF Active, TypeOK
  <2>3. stage = "idle" /\ stage' = "idle"
    BY <1>5 DEF TypeOK, committing, Up, TryBegin
  <2>4. Counted' /\ Drained'
    BY <1>3, <2>1, <2>2, <2>3, ActiveSize DEF Counted, Drained
  <2>5. Coherent' /\ HeaderInv' /\ CopyInv'
    BY <1>2 DEF TryBegin, Coherent, HeaderInv, CopyInv, Distinct, Logged, Installed, ToRecover, ondisk
  <2>6. SleepersAwaited'
    BY <2>1 DEF SleepersAwaited, TypeOK
  <2> QED
    BY <1>1, <2>4, <2>5, <2>6
<1> QED
  BY <1>4, <1>5

\* end_op(): the last call hands its transaction to commit().
LEMMA EndOpStep == ASSUME IInv, NEW p \in Op, end_op(p) PROVE IInv'
<1> USE DEF IInv, LogInv
<1>1. p \in Active /\ stage = "idle"
  BY DEF end_op, At, Active, Counted
<1>2. outstanding > 0 /\ outstanding \in Nat
  BY <1>1, ActiveSize DEF Counted
<1>11. /\ pc' \in [Op -> {"idle", "asleep", "woken", "active", "check", "record", "commit"}]
       /\ pc'[p] \in {"commit", "idle"}
       /\ \A q \in Op \ {p} : pc'[q] = pc[q] \/ (pc[q] = "asleep" /\ pc'[q] = "woken")
  <2>1. CASE outstanding = 1
    BY <2>1 DEF end_op, TypeOK
  <2>2. CASE outstanding # 1
    BY <2>2 DEF end_op, TypeOK, Wakeup
  <2> QED
    BY <2>1, <2>2
<1>12. pc[p] = "active" /\ buf' = buf
  BY DEF end_op, At
<1>3. Active' = Active \ {p} /\ Held' = Held
  BY <1>11, <1>12 DEF Active, Held
<1>4. TypeOK'
  <2>1. stage' \in CommitStages \cup {"idle"} /\ fault' \in {"none", "panic", "overrun"}
    BY <1>1 DEF end_op, CommitStages, TypeOK
  <2>2. outstanding' \in Nat /\ tail' \in Nat
    BY <1>2 DEF end_op
  <2> QED
    BY <1>11, <1>12, <2>1, <2>2 DEF end_op, TypeOK, ondisk
<1>5. outstanding' = Cardinality(Active')
  BY <1>1, <1>3, ActiveSize DEF end_op, Counted
<1>6. outstanding = 1 <=> Active' = {}
  <2>1. IsFiniteSet(Active') /\ Cardinality(Active') = outstanding - 1
    BY <1>2, <1>3, <1>5, ActiveSize, FS_Subset DEF end_op
  <2> QED
    BY <1>2, <2>1, FS_EmptySet
<1>7. stage' \in {"idle", "write_log", "committed"}
  BY <1>1 DEF end_op
<1>8. Counted' /\ Drained'
  BY <1>1, <1>3, <1>5, <1>6, <1>7 DEF end_op, Counted, Drained
<1>9. Coherent' /\ HeaderInv' /\ CopyInv'
  BY <1>1, <1>3, <1>7
     DEF end_op, Coherent, HeaderInv, CopyInv, Distinct, Logged, Installed, ToRecover, ondisk,
         BootStages, TypeOK, Max
<1>10. SleepersAwaited'
  BY <1>1, <1>2 DEF end_op, SleepersAwaited, committing, CommitStages, Wakeup
<1> QED
  BY <1>4, <1>8, <1>9, <1>10

\* Everybody is awake after a commit.
LEMMA EndCommitStep == ASSUME IInv, NEW p \in Op, EndCommit(p) PROVE IInv'
<1> USE DEF IInv, LogInv
<1>1. Active' = Active /\ Held' = Held /\ Active = {}
  BY DEF EndCommit, At, Active, Held, Wakeup, TypeOK, Counted
<1>2. TypeOK'
  BY DEF EndCommit, TypeOK, Wakeup, ondisk
<1>3. Counted' /\ Drained'
  BY <1>1 DEF EndCommit, Counted, Drained
<1>4. Coherent' /\ HeaderInv' /\ CopyInv'
  BY <1>1 DEF EndCommit, Coherent, HeaderInv, CopyInv, Distinct, Logged, Installed, ToRecover, ondisk,
              BootStages
<1>5. SleepersAwaited'
  BY DEF EndCommit, SleepersAwaited, Wakeup
<1> QED
  BY <1>2, <1>3, <1>4, <1>5

\* A call changes a buffer it holds.
LEMMA ModifyStep == ASSUME IInv, NEW p \in Op, Modify(p) PROVE IInv'
<1> USE DEF IInv, LogInv
<1>1. PICK b \in Block \ Held, v \in Value :
         /\ cache' = [cache EXCEPT ![b] = v]
         /\ buf' = [buf EXCEPT ![p] = b]
         /\ written' = [written EXCEPT ![p] = @ \cup {b}]
  BY DEF Modify
<1>2. p \in Active /\ stage = "idle"
  BY DEF Modify, At, Active, Counted
<1>3. Active' = Active
  BY DEF Modify, At, Active, TypeOK
<1>4. Held' = Held \cup {b}
  BY <1>1 DEF Modify, At, Held, TypeOK
<1>5. TypeOK'
  BY <1>1 DEF Modify, TypeOK, ondisk
<1>6. Counted' /\ Drained'
  BY <1>2, <1>3 DEF Modify, Counted, Drained
<1>7. Coherent'
  BY <1>1, <1>2, <1>4 DEF Modify, Coherent, ToRecover, ondisk, BootStages, TypeOK
<1>8. HeaderInv' /\ CopyInv'
  BY <1>2 DEF Modify, HeaderInv, CopyInv, Distinct, Logged, Installed, ondisk
<1>9. SleepersAwaited'
  BY DEF Modify, SleepersAwaited, committing, TypeOK
<1> QED
  BY <1>5, <1>6, <1>7, <1>8, <1>9

\* The tests of log_write() change nothing but the place of the call.
LEMMA LogWriteCheckStep == ASSUME IInv, NEW p \in Op, LogWriteCheck(p) PROVE IInv'
<1> USE DEF IInv, LogInv
<1>1. Active' = Active /\ Held' = Held
  BY DEF LogWriteCheck, At, Active, Held, TypeOK
<1>2. TypeOK'
  BY DEF LogWriteCheck, TypeOK, ondisk
<1>3. Counted' /\ Drained' /\ SleepersAwaited'
  BY <1>1 DEF LogWriteCheck, Counted, Drained, SleepersAwaited, committing, TypeOK
<1>4. Coherent' /\ HeaderInv' /\ CopyInv'
  BY <1>1 DEF LogWriteCheck, Coherent, HeaderInv, CopyInv, Distinct, Logged, Installed, ToRecover, ondisk
<1> QED
  BY <1>2, <1>3, <1>4

\* log_write() pins what the call has changed before it lets the buffer go.
LEMMA LogWriteRecordStep == ASSUME IInv, NEW p \in Op, LogWriteRecord(p) PROVE IInv'
<1> USE DEF IInv, LogInv
<1>1. buf[p] \in Block
  BY DEF TypeOK
<1>2. p \in Active /\ stage = "idle"
  BY DEF LogWriteRecord, At, Active, Counted
<1>3. Active' = Active
  BY DEF LogWriteRecord, At, Active, TypeOK
<1>4. Held \subseteq Held' \cup {buf[p]}
  BY DEF LogWriteRecord, At, Held, TypeOK
<1>5. /\ lh' \in Seq(Block)
      /\ Distinct(lh')
      /\ ToRecover(lh') = ToRecover(lh) \cup {buf[p]}
  BY <1>1, AppendToRecover DEF LogWriteRecord, TypeOK, HeaderInv
<1>6. TypeOK'
  BY <1>1, <1>5 DEF LogWriteRecord, TypeOK, ondisk
<1>7. Counted' /\ Drained' /\ SleepersAwaited'
  BY <1>2, <1>3 DEF LogWriteRecord, Counted, Drained, SleepersAwaited, committing, TypeOK
<1>8. Coherent'
  <2>1. dirty' \subseteq ToRecover(lh')
    BY <1>5 DEF LogWriteRecord, Coherent
  <2> QED
    BY <1>2, <1>4, <2>1 DEF LogWriteRecord, Coherent, ondisk, BootStages
<1>9. HeaderInv' /\ CopyInv'
  BY <1>2, <1>5 DEF LogWriteRecord, HeaderInv, CopyInv, Logged, Installed, ondisk, Distinct
<1> QED
  BY <1>6, <1>7, <1>8, <1>9

\* A recycled buffer held what the disk holds.
LEMMA RecycleStep == ASSUME IInv, NEW b \in Block, Recycle(b) PROVE vars' = vars
<1>1. cache' = cache
  BY DEF Recycle, IInv, LogInv, Coherent, TypeOK
<1> QED
  BY <1>1 DEF Recycle, vars

\* write_log() copies one more block of the transaction.
LEMMA WriteLogStep == IInv /\ write_log => IInv'
<1> SUFFICES ASSUME IInv, write_log PROVE IInv'
  OBVIOUS
<1> USE DEF IInv, LogInv
<1>1. Active' = Active /\ Held' = Held /\ Active = {}
  BY DEF write_log, Active, Held, procs, Counted
<1>2. tail \in Nat /\ Len(lh) \in Nat /\ Max \in Nat
  BY LogAssumption DEF TypeOK, Max
<1>9. \A n \in DOMAIN lh : n \in Nat /\ 1 <= n /\ n <= Len(lh)
  BY DEF TypeOK
<1>8. /\ stage = "write_log" /\ stage' \in {"write_log", "write_head"}
      /\ lh' = lh /\ cache' = cache /\ header = <<>> /\ header' = <<>>
      /\ UNCHANGED <<disk, dirty, outstanding, procs>>
      /\ tail <= Max /\ tail <= Len(lh)
      /\ fault' \in {"none", "overrun"}
  BY DEF write_log, HeaderInv, CopyInv, Up
<1>3. \/ /\ tail < Len(lh) /\ tail < Max
         /\ logarea' = [logarea EXCEPT ![tail + 1] = cache[lh[tail + 1]]]
         /\ tail' = tail + 1 /\ stage' = stage
      \/ /\ logarea' = logarea /\ tail' = tail
         /\ stage' = "write_head" => tail = Len(lh)
  BY <1>8 DEF write_log
<1>4. TypeOK'
  <2>1. logarea' \in [1 .. Max -> Value] /\ tail' \in Nat
    BY <1>2, <1>3 DEF TypeOK
  <2> QED
    BY <1>8, <2>1 DEF TypeOK, procs, CommitStages
<1>5. Counted' /\ Drained' /\ SleepersAwaited'
  BY <1>1, <1>8 DEF Counted, Drained, SleepersAwaited, committing, CommitStages
<1>6. Coherent' /\ HeaderInv'
  BY <1>1, <1>8 DEF Coherent, HeaderInv, Distinct, ToRecover, BootStages
<1>7. CopyInv'
  <2>1. /\ tail' <= Len(lh)
        /\ tail' <= Max
        /\ stage' = "write_head" => tail' = Len(lh)
    BY <1>2, <1>3, <1>8
  <2>2. ASSUME NEW n \in DOMAIN lh, n <= tail' PROVE logarea'[n] = cache[lh[n]]
    <3>1. n \in 1 .. Max /\ n \in Nat /\ 1 <= n
      <4>1. n \in Nat /\ 1 <= n /\ tail' \in Nat
        BY <1>2, <1>3, <1>9
      <4> QED
        BY <1>2, <2>1, <2>2, <4>1
    <3>2. n <= tail => logarea[n] = cache[lh[n]]
      BY <1>8 DEF CopyInv, Logged
    <3> QED
      BY <1>2, <1>3, <2>2, <3>1, <3>2 DEF TypeOK
  <2> QED
    BY <1>8, <2>1, <2>2 DEF CopyInv, Logged, Installed
<1> QED
  BY <1>4, <1>5, <1>6, <1>7

\* write_head() names a transaction whose blocks are all in the log.
LEMMA WriteHeadStep == IInv /\ write_head => IInv'
<1> SUFFICES ASSUME IInv, write_head PROVE IInv'
  OBVIOUS
<1> USE DEF IInv, LogInv
<1>1. Active' = Active /\ Held' = Held /\ Active = {}
  BY DEF write_head, Active, Held, procs, Counted
<1>2. TypeOK'
  BY DEF write_head, TypeOK, procs, CommitStages
<1>3. Counted' /\ Drained' /\ SleepersAwaited'
  BY <1>1 DEF write_head, Counted, Drained, SleepersAwaited, committing, CommitStages
<1>4. Coherent' /\ HeaderInv'
  BY <1>1 DEF write_head, Coherent, HeaderInv, Distinct, ToRecover, BootStages, CopyInv
<1>5. CopyInv'
  BY DEF write_head, CopyInv, Logged, Installed, TypeOK
<1> QED
  BY <1>2, <1>3, <1>4, <1>5

\* install_trans() brings one more block home, or is done with all.
LEMMA InstallStep == IInv /\ install_trans => IInv'
<1> SUFFICES ASSUME IInv, install_trans PROVE IInv'
  OBVIOUS
<1> USE DEF IInv, LogInv
<1>1. Active' = Active /\ Held' = Held /\ Active = {} /\ Held = {}
  BY DEF install_trans, Active, Held, procs, Counted
<1>2. /\ tail \in Nat /\ Len(lh) \in Nat /\ Max \in Nat
      /\ header = lh /\ Len(lh) <= Max /\ tail <= Len(lh)
      /\ stage \in {"install", "boot_install"}
  BY LogAssumption DEF TypeOK, Max, HeaderInv, CopyInv, install_trans
<1>9. \A n \in DOMAIN lh : n \in Nat /\ 1 <= n /\ n <= Len(lh)
  BY DEF TypeOK
<1>3. CASE tail < Len(lh)
  <2> DEFINE b == lh[tail + 1]
  <2>1. /\ cache' = [cache EXCEPT ![b] = logarea[tail + 1]]
        /\ disk' = [disk EXCEPT ![b] = logarea[tail + 1]]
        /\ dirty' = dirty \ {b}
        /\ tail' = tail + 1 /\ lh' = lh /\ stage' = stage
        /\ logarea' = logarea /\ header' = header
    <3>1. tail # Len(lh)
      BY <1>2, <1>3
    <3> QED
      BY <3>1 DEF install_trans
  <2>2. tail + 1 \in DOMAIN lh /\ b \in Block /\ logarea[tail + 1] \in Value
    BY <1>2, <1>3 DEF TypeOK
  <2>3. TypeOK'
    BY <2>1, <2>2 DEF install_trans, TypeOK, procs
  <2>4. Counted' /\ Drained' /\ SleepersAwaited'
    BY <1>1, <2>1 DEF install_trans, Counted, Drained, SleepersAwaited, committing, procs
  <2>5. Coherent'
    <3>1. \A c \in Block : c = b \/ c \notin dirty => cache'[c] = disk'[c]
      BY <1>1, <2>1, <2>2 DEF Coherent, TypeOK
    <3>2. stage \in BootStages => cache' = disk'
      BY <2>1 DEF Coherent
    <3>3. dirty' \subseteq ToRecover(lh')
      BY <2>1 DEF Coherent
    <3> QED
      BY <1>1, <2>1, <3>1, <3>2, <3>3 DEF Coherent
  <2>6. HeaderInv'
    BY <2>1 DEF HeaderInv, Distinct
  <2>7. ASSUME NEW n \in DOMAIN lh, n # tail + 1 PROVE lh[n] # b
    BY <2>2, <2>7 DEF HeaderInv, Distinct
  <2>8. ASSUME NEW n \in DOMAIN lh, Logged(n)' PROVE logarea'[n] = cache'[lh'[n]]
    <3>1. lh[n] \in Block
      BY DEF TypeOK
    <3> QED
      BY <1>2, <2>1, <2>2, <2>7, <2>8, <3>1 DEF CopyInv, Logged, TypeOK
  <2>9. ASSUME NEW n \in DOMAIN lh, Installed(n)' PROVE disk'[lh[n]] = logarea[n] /\ lh[n] \notin dirty'
    <3>1. n <= tail + 1 /\ n \in Nat
      BY <1>2, <1>9, <2>1, <2>9 DEF Installed
    <3>2. CASE n = tail + 1
      BY <2>1, <2>2, <3>2 DEF TypeOK
    <3>3. CASE n # tail + 1
      <4>1. Installed(n) /\ n \in DOMAIN header
        BY <1>2, <3>1, <3>3 DEF Installed
      <4>2. disk[lh[n]] = logarea[n] /\ lh[n] \notin dirty /\ lh[n] \in Block
        BY <1>2, <4>1 DEF CopyInv, TypeOK
      <4> QED
        BY <2>1, <2>7, <3>3, <4>2 DEF TypeOK
    <3> QED
      BY <3>2, <3>3
  <2>10. CopyInv'
    <3>1. tail' <= Len(lh')
      BY <1>2, <1>3, <2>1
    <3>2. DOMAIN lh' = DOMAIN lh /\ DOMAIN header' = DOMAIN lh /\ header' = lh /\ lh' = lh
      BY <1>2, <2>1
    <3>3. stage' \notin {"write_log", "write_head"}
      BY <1>2, <2>1
    <3> QED
      BY <2>1, <2>8, <2>9, <3>1, <3>2, <3>3 DEF CopyInv
  <2> QED
    BY <2>3, <2>4, <2>5, <2>6, <2>10
<1>4. CASE tail = Len(lh)
  <2>1. /\ lh' = <<>> /\ stage' \in {"clear", "boot_clear"}
        /\ stage' \in BootStages <=> stage \in BootStages
        /\ UNCHANGED <<cache, disk, dirty, tail, logarea, header, outstanding, procs>>
    BY <1>2, <1>4 DEF install_trans, BootStages
  <2>2. TypeOK'
    BY <2>1 DEF install_trans, TypeOK, procs, CommitStages, BootStages
  <2>3. Counted' /\ Drained' /\ SleepersAwaited'
    <3>1. stage \notin BootStages => stage' \in CommitStages
      BY <1>2, <2>1 DEF BootStages, CommitStages
    <3>2. stage \in BootStages => stage \notin CommitStages
      BY DEF BootStages, CommitStages
    <3> QED
      BY <1>1, <2>1, <3>1, <3>2 DEF Counted, Drained, SleepersAwaited, committing, procs
  <2>4. \A n \in DOMAIN lh : disk[lh[n]] = logarea[n] /\ lh[n] \notin dirty
    BY <1>2, <1>4, <1>9 DEF CopyInv, Installed
  <2>5. dirty = {}
    BY <2>4 DEF Coherent, ToRecover
  <2>6. Coherent'
    BY <1>1, <2>1, <2>5 DEF Coherent, ToRecover
  <2>7. HeaderInv'
    BY <1>2, <2>1 DEF HeaderInv, Distinct
  <2>8. CopyInv'
    BY <1>2, <2>1, <2>4, <2>5 DEF CopyInv, Logged
  <2> QED
    BY <2>2, <2>3, <2>6, <2>7, <2>8
<1> QED
  BY <1>2, <1>3, <1>4

\* write_head() forgets a transaction that is at home.
LEMMA ClearHeadStep == IInv /\ ClearHead => IInv'
<1> SUFFICES ASSUME IInv, ClearHead PROVE IInv'
  OBVIOUS
<1> USE DEF IInv, LogInv
<1>1. Active' = Active /\ Held' = Held /\ Active = {}
  BY DEF ClearHead, Active, Held, procs, Counted
<1>2. /\ stage \in {"clear", "boot_clear"} /\ stage' \in {"committed", "idle"}
      /\ stage' = "idle" <=> stage = "boot_clear"
      /\ lh = <<>> /\ lh' = <<>> /\ header' = <<>>
      /\ UNCHANGED <<disk, logarea, cache, dirty, outstanding, tail, procs, fault>>
  BY DEF ClearHead, Drained
<1>3. TypeOK'
  BY <1>2 DEF TypeOK, procs, CommitStages
<1>4. Counted' /\ Drained'
  BY <1>1, <1>2 DEF Counted, Drained
<1>5. SleepersAwaited'
  BY <1>2 DEF SleepersAwaited, committing, CommitStages, BootStages, procs
<1>6. Coherent'
  BY <1>1, <1>2 DEF Coherent, ToRecover, BootStages
<1>7. HeaderInv'
  BY <1>2 DEF HeaderInv, Distinct, Max
<1>8. CopyInv'
  BY <1>2 DEF CopyInv
<1> QED
  BY <1>3, <1>4, <1>5, <1>6, <1>7, <1>8

\* Every step of the kernel, and a step of none, keeps the invariant.
LEMMA NextStep == IInv /\ [Next]_vars => IInv'
<1> SUFFICES ASSUME IInv, [Next]_vars PROVE IInv'
  OBVIOUS
<1>1. CASE vars' = vars
  BY <1>1 DEF vars, ondisk, procs, IInv, TypeOK, LogInv, Counted, Drained, Coherent, HeaderInv, CopyInv,
              SleepersAwaited, Active, Held, Distinct, Logged, Installed, ToRecover, committing
<1>2. CASE Commit
  BY <1>2, WriteLogStep, WriteHeadStep, InstallStep, ClearHeadStep, ReadHeadStep DEF Commit
<1>3. CASE Crash
  BY <1>3, CrashStep
<1>4. ASSUME NEW p \in Op, begin_op(p) \/ Modify(p) \/ Proc(p) PROVE IInv'
  <2>1. CASE begin_op(p) \/ Retry(p)
    BY <2>1, TryBeginStep DEF begin_op, Retry, At
  <2>2. CASE Modify(p) \/ log_write(p)
    BY <2>2, ModifyStep, LogWriteCheckStep, LogWriteRecordStep DEF log_write
  <2>3. CASE end_op(p) \/ EndCommit(p)
    BY <2>3, EndOpStep, EndCommitStep
  <2> QED
    BY <1>4, <2>1, <2>2, <2>3 DEF Proc
<1>5. ASSUME NEW b \in Block, Recycle(b) PROVE IInv'
  BY <1>1, <1>5, RecycleStep
<1> QED
  BY <1>1, <1>2, <1>3, <1>4, <1>5 DEF Next

-------------------------------------------------------------------------------
(* The theorems *)

\* The inductive invariant holds: log.c keeps TypeOK, LogInv and SleepersAwaited
\* through every interleaving of calls, commits and crashes.
THEOREM InvariantHolds == Spec => []IInv
BY InitIInv, NextStep, PTL DEF Spec

\* The variables of log.c keep their types.
THEOREM TypeCorrect == Spec => []TypeOK
<1>1. IInv => TypeOK
  BY DEF IInv
<1> QED
  BY <1>1, InvariantHolds, PTL

\* commit() runs alone, and what the disk lacks is in log.lh or in the log.
THEOREM LogInvHolds == Spec => []LogInv
<1>1. IInv => LogInv
  BY DEF IInv
<1> QED
  BY <1>1, InvariantHolds, PTL

\* Nobody sleeps in begin_op() when no call and no commit is left to wake it.
THEOREM SleepersAwaitedHolds == Spec => []SleepersAwaited
<1>1. IInv => SleepersAwaited
  BY DEF IInv
<1> QED
  BY <1>1, InvariantHolds, PTL

\* When no call and no commit is running, a crash loses nothing.
THEOREM DurableHolds == Spec => []Durable
<1>1. IInv => Durable
  <2> SUFFICES ASSUME IInv, stage = "idle", Active = {} PROVE Recovered = cache
    BY DEF Durable
  <2> USE DEF IInv, LogInv
  <2>1. lh = <<>> /\ header = <<>> /\ Held = {}
    BY DEF Drained, HeaderInv, Active, Held
  <2>2. dirty = {}
    BY <2>1 DEF Coherent, ToRecover
  <2>3. cache = disk
    BY <2>1, <2>2 DEF Coherent, TypeOK
  <2> QED
    BY <2>1, <2>3, RecoveredEmpty
<1> QED
  BY <1>1, InvariantHolds, PTL

-------------------------------------------------------------------------------
(* The log implements AtomicDisk *)

\* What recovery would find is a disk.
LEMMA RecoveredType == TypeOK /\ LogInv => Recovered \in [Block -> Value]
<1> SUFFICES ASSUME TypeOK, LogInv, NEW b \in Block PROVE Recovered[b] \in Value
  BY DEF Recovered
<1>1. CASE b \in ToRecover(header)
  <2>1. PICK n \in DOMAIN header : header[n] = b
    BY <1>1 DEF ToRecover
  <2>2. n \in 1 .. Max
    <3>1. Len(header) \in Nat /\ Max \in Nat /\ Len(header) <= Max
      BY DEF TypeOK, LogInv, HeaderInv, Max
    <3>2. n \in Nat /\ 1 <= n /\ n <= Len(header)
      BY DEF TypeOK
    <3> QED
      BY <3>1, <3>2
  <2> QED
    BY <2>1, <2>2, RecoveredLogged DEF TypeOK, LogInv, HeaderInv
<1>2. CASE b \notin ToRecover(header)
  BY <1>2 DEF Recovered, TypeOK
<1> QED
  BY <1>1, <1>2

\* A step that leaves the disk alone leaves what recovery would find.
LEMMA RecoveredUnchanged == UNCHANGED ondisk => Recovered' = Recovered
BY DEF ondisk, Recovered, ToRecover

\* The steps of a call: begin_op() begins it, changes of its buffers are its
\* writes, end_op() ends it; a call that sleeps, log_write() and the end of a
\* commit are invisible.
LEMMA CallRefines ==
    ASSUME IInv, NEW p \in Op, begin_op(p) \/ Modify(p) \/ Proc(p)
    PROVE  [Disk!AbsNext]_Disk!absvars
<1> USE DEF IInv
<1>1. Recovered' = Recovered
  <2>1. UNCHANGED ondisk
    BY DEF begin_op, Retry, TryBegin, Modify, Proc, end_op, EndCommit, log_write, LogWriteCheck, LogWriteRecord
  <2> QED
    BY <2>1, RecoveredUnchanged
<1>2. stage \notin BootStages
  BY DEF begin_op, Retry, Modify, Proc, end_op, EndCommit, log_write, LogWriteCheck, LogWriteRecord, At, Up
<1>3. CASE begin_op(p) \/ Retry(p)
  <2>1. View' = View
    BY <1>2, <1>3 DEF begin_op, Retry, TryBegin, View
  <2>2. Active' = Active \/ Active' = Active \cup {p}
    BY <1>3 DEF begin_op, Retry, TryBegin, At, Active, TypeOK
  <2> QED
    BY <1>1, <2>1, <2>2 DEF Disk!AbsNext, Disk!Begin, Disk!absvars
<1>4. CASE Modify(p)
  <2>1. \E b \in Block, v \in Value : View' = [View EXCEPT ![b] = v]
    BY <1>2, <1>4 DEF Modify, View
  <2>2. p \in Active /\ Active' = Active
    BY <1>4 DEF Modify, At, Active, TypeOK
  <2> QED
    BY <1>1, <2>1, <2>2 DEF Disk!AbsNext, Disk!Write
<1>5. CASE end_op(p)
  <2>1. stage' \notin BootStages
    BY <1>2, <1>5 DEF end_op, BootStages
  <2>2. View' = View
    BY <1>2, <1>5, <2>1 DEF end_op, View
  <2>3. p \in Active /\ Active' = Active \ {p}
    BY <1>5 DEF end_op, At, Active, TypeOK, Wakeup
  <2> QED
    BY <1>1, <2>2, <2>3 DEF Disk!AbsNext, Disk!End
<1>6. CASE EndCommit(p) \/ log_write(p)
  <2>1. View' = View
    BY <1>2, <1>6 DEF EndCommit, log_write, LogWriteCheck, LogWriteRecord, View, BootStages
  <2>2. Active' = Active
    BY <1>6 DEF EndCommit, log_write, LogWriteCheck, LogWriteRecord, At, Active, TypeOK, Wakeup
  <2> QED
    BY <1>1, <2>1, <2>2 DEF Disk!absvars
<1> QED
  BY <1>3, <1>4, <1>5, <1>6 DEF Proc

\* write_head() is the moment all the writes become durable.
LEMMA WriteHeadRefines == ASSUME IInv, write_head PROVE Disk!Commit
<1> USE DEF IInv, LogInv
<1>1. /\ stage \notin BootStages /\ stage' \notin BootStages
      /\ cache' = cache /\ disk' = disk /\ logarea' = logarea /\ header' = lh
  BY DEF write_head, BootStages
<1>2. Active = {} /\ Active' = Active /\ Held = {}
  BY DEF write_head, Counted, Active, Held, procs
<1>3. TypeOK' /\ Distinct(header')
  BY WriteHeadStep DEF HeaderInv
<1>4. \A n \in DOMAIN lh : logarea[n] = cache[lh[n]]
  <2>1. stage = "write_head" /\ tail = Len(lh)
    BY DEF write_head, CopyInv
  <2>2. \A n \in DOMAIN lh : n <= tail
    BY <2>1 DEF TypeOK
  <2> QED
    BY <2>1, <2>2 DEF CopyInv, Logged
<1>5. ASSUME NEW b \in Block PROVE Recovered'[b] = cache[b]
  <2>1. CASE b \in ToRecover(lh)
    <3>1. PICK n \in DOMAIN lh : lh[n] = b
      BY <2>1 DEF ToRecover
    <3>2. (CHOOSE m \in DOMAIN lh : lh[m] = b) = n
      BY <3>1 DEF HeaderInv, Distinct
    <3> QED
      BY <1>1, <1>4, <2>1, <3>1, <3>2 DEF Recovered, ToRecover
  <2>2. CASE b \notin ToRecover(lh)
    BY <1>1, <1>2, <2>2 DEF Recovered, ToRecover, Coherent
  <2> QED
    BY <2>1, <2>2
<1>6. Recovered' = cache
  BY <1>5 DEF Recovered, TypeOK
<1> QED
  BY <1>1, <1>2, <1>6 DEF Disk!Commit, View

\* Copying the transaction to the log is invisible while the header is empty.
LEMMA WriteLogRefines == ASSUME IInv, write_log PROVE UNCHANGED Disk!absvars
<1> USE DEF IInv, LogInv
<1>1. header = <<>> /\ header' = <<>> /\ disk' = disk /\ cache' = cache /\ TypeOK'
  BY WriteLogStep DEF write_log, HeaderInv
<1>2. Recovered = disk /\ Recovered' = disk'
  BY <1>1 DEF Recovered, ToRecover, TypeOK
<1>3. View' = View
  BY <1>1 DEF write_log, View, BootStages, Up
<1>4. Active' = Active
  BY DEF write_log, procs, Active
<1> QED
  BY <1>1, <1>2, <1>3, <1>4 DEF Disk!absvars

\* Bringing a block home, and clearing the header when all are home, is
\* invisible: recovery would do the same.
LEMMA InstallRefines == ASSUME IInv, install_trans PROVE UNCHANGED Disk!absvars
<1> USE DEF IInv, LogInv
<1>1. Active' = Active /\ logarea' = logarea /\ header' = header
  BY DEF install_trans, procs, Active
<1>2. header = lh /\ stage \in {"install", "boot_install"}
  BY DEF install_trans, HeaderInv
<1>3. stage' \in BootStages <=> stage \in BootStages
  BY DEF install_trans, BootStages
<1>4. CASE tail < Len(lh)
  <2> DEFINE b == lh[tail + 1]
  <2>1. /\ cache' = [cache EXCEPT ![b] = logarea[tail + 1]]
        /\ disk' = [disk EXCEPT ![b] = logarea[tail + 1]]
        /\ stage' = stage
    <3>1. tail # Len(lh)
      BY <1>4 DEF TypeOK
    <3> QED
      BY <3>1 DEF install_trans
  <2>2. tail + 1 \in DOMAIN lh /\ b \in ToRecover(header)
    BY <1>2, <1>4 DEF TypeOK, ToRecover
  <2>3. Recovered' = Recovered
    BY <1>1, <2>1, <2>2 DEF Recovered, ToRecover, TypeOK
  <2>4. stage = "install" => cache' = cache
    BY <2>1, <2>2 DEF CopyInv, Logged, TypeOK
  <2> QED
    BY <1>1, <1>2, <1>3, <2>1, <2>3, <2>4 DEF Disk!absvars, View, BootStages
<1>5. CASE ~(tail < Len(lh))
  <2>1. UNCHANGED <<cache, disk>>
    BY <1>5 DEF install_trans
  <2> QED
    BY <1>1, <1>3, <2>1, RecoveredUnchanged DEF Disk!absvars, View, ondisk
<1> QED
  BY <1>4, <1>5

LEMMA ClearHeadRefines == ASSUME IInv, ClearHead PROVE UNCHANGED Disk!absvars
<1> USE DEF IInv, LogInv
<1>1. /\ disk' = disk /\ cache' = cache /\ header' = <<>> /\ Active' = Active
      /\ stage \in {"clear", "boot_clear"} /\ stage' \notin BootStages
  BY DEF ClearHead, Drained, Active, procs, BootStages
<1>2. Recovered = disk
  BY <1>1, RecoveredInstalled DEF HeaderInv, CopyInv, Installed
<1>3. Recovered' = disk
  BY <1>1 DEF Recovered, ToRecover, TypeOK
<1>4. View' = View
  BY <1>1, <1>2 DEF View, Coherent, BootStages
<1> QED
  BY <1>1, <1>2, <1>3, <1>4 DEF Disk!absvars

\* Crash-safe atomicity: behind begin_op(), log_write() and end_op() the file
\* system has an all-or-nothing disk, whatever interleaves and wherever the
\* machine stops.
THEOREM AtomicityHolds == Spec => Atomicity
<1>1. Init => Disk!AbsInit
  <2> SUFFICES ASSUME Init PROVE Disk!AbsInit
    OBVIOUS
  <2>1. IInv /\ Active = {} /\ View = Recovered
    BY InitIInv DEF Init, Active, Idle, View, BootStages
  <2> QED
    BY <2>1, RecoveredType DEF Disk!AbsInit, IInv
<1>2. IInv /\ [Next]_vars => [Disk!AbsNext]_Disk!absvars
  <2> SUFFICES ASSUME IInv, [Next]_vars PROVE [Disk!AbsNext]_Disk!absvars
    OBVIOUS
  <2>1. CASE vars' = vars
    BY <2>1, RecoveredUnchanged DEF vars, ondisk, procs, Disk!absvars, View, Active
  <2>2. CASE Commit
    <3>1. CASE read_head
      BY <3>1, RecoveredUnchanged DEF read_head, Disk!absvars, View, Active, procs, BootStages
    <3> QED
      BY <2>2, <3>1, WriteLogRefines, WriteHeadRefines, InstallRefines, ClearHeadRefines DEF Commit, Disk!AbsNext
  <2>3. CASE Crash
    <3>1. Active' = {} /\ Recovered' = Recovered /\ View' = Recovered
      BY <2>3, RecoveredUnchanged DEF Crash, Active, Idle, View, BootStages
    <3> QED
      BY <3>1 DEF Disk!AbsNext, Disk!Fall
  <2>4. ASSUME NEW p \in Op, begin_op(p) \/ Modify(p) \/ Proc(p) PROVE [Disk!AbsNext]_Disk!absvars
    BY <2>4, CallRefines
  <2>5. ASSUME NEW b \in Block, Recycle(b) PROVE [Disk!AbsNext]_Disk!absvars
    BY <2>1, <2>5, RecycleStep
  <2> QED
    BY <2>1, <2>2, <2>3, <2>4, <2>5 DEF Next
<1> QED
  BY <1>1, <1>2, InvariantHolds, PTL DEF Spec, Atomicity, Disk!AbsSpec

-------------------------------------------------------------------------------
(* A transaction fits the log *)

\* A call writes MAXOPBLOCKS blocks at most, and those it is about to record
\* are among them.
WrittenFits ==
    /\ \A p \in Active : IsFiniteSet(written[p]) /\ Cardinality(written[p]) <= MAXOPBLOCKS
    /\ \A p \in Op : pc[p] \in {"check", "record"} => buf[p] \in written[p]

\* What is in the transaction and what the calls in progress may still add to
\* it are at most LOGSIZE blocks.
Reserved ==
    stage \notin BootStages =>
        Len(lh) + outstanding * MAXOPBLOCKS <= LOGSIZE + Cardinality(Recorded)

\* One reservation more or less.
LEMMA Product ==
    \A n, m \in Nat : n * m \in Nat /\ (n - 1) * m = n * m - m
OBVIOUS

\* A set of at most n elements can be numbered from 1 to n.
LEMMA Numbered ==
    ASSUME NEW S, IsFiniteSet(S), NEW n \in Nat, Cardinality(S) <= n
    PROVE  \E f \in [S -> 1 .. n] : \A x, y \in S : f[x] = f[y] => x = y
<1>1. Cardinality(S) \in Nat /\ ExistsBijection(1 .. Cardinality(S), S)
  BY FS_CardinalityType
<1>2. ExistsBijection(S, 1 .. Cardinality(S))
  BY <1>1, Fun_ExistsBijSymmetric
<1>3. PICK f : f \in Bijection(S, 1 .. Cardinality(S))
  BY <1>2 DEF ExistsBijection
<1>4. f \in [S -> 1 .. Cardinality(S)] /\ \A x, y \in S : f[x] = f[y] => x = y
  BY <1>3 DEF Bijection, Injection, IsInjective
<1>5. f \in [S -> 1 .. n]
  BY <1>1, <1>4
<1> QED
  BY <1>4, <1>5

\* The calls in progress cannot have used more than they reserved.
LEMMA RecordedBound ==
    IInv /\ WrittenFits =>
        /\ IsFiniteSet(Recorded)
        /\ Cardinality(Recorded) \in Nat
        /\ Cardinality(Recorded) <= outstanding * MAXOPBLOCKS
<1> SUFFICES ASSUME IInv, WrittenFits
             PROVE  /\ IsFiniteSet(Recorded)
                    /\ Cardinality(Recorded) \in Nat
                    /\ Cardinality(Recorded) <= outstanding * MAXOPBLOCKS
  OBVIOUS
<1> DEFINE N == 1 .. MAXOPBLOCKS
           Numbers(p) == {f \in [written[p] -> N] : \A x, y \in written[p] : f[x] = f[y] => x = y}
           g == [p \in Active |-> CHOOSE f : f \in Numbers(p)]
           h == [x \in Recorded |-> <<x[1], g[x[1]][x[2]]>>]
           T == Active \X N
<1>1. \A p \in Active : g[p] \in Numbers(p)
  <2> SUFFICES ASSUME NEW p \in Active PROVE \E f : f \in Numbers(p)
    OBVIOUS
  <2>1. IsFiniteSet(written[p]) /\ Cardinality(written[p]) <= MAXOPBLOCKS
    BY DEF WrittenFits
  <2>2. \E f \in [written[p] -> 1 .. MAXOPBLOCKS] : \A x, y \in written[p] : f[x] = f[y] => x = y
    BY <2>1, Numbered
  <2> QED
    BY <2>2
<1>2. \A x \in Recorded : x = <<x[1], x[2]>> /\ x[1] \in Active /\ x[2] \in written[x[1]]
  BY DEF Recorded
<1> HIDE DEF g
<1>3. h \in [Recorded -> T]
  BY <1>1, <1>2
<1>4. \A x, y \in Recorded : h[x] = h[y] => x = y
  <2> SUFFICES ASSUME NEW x \in Recorded, NEW y \in Recorded, h[x] = h[y] PROVE x = y
    OBVIOUS
  <2>1. x[1] = y[1] /\ g[x[1]][x[2]] = g[y[1]][y[2]]
    OBVIOUS
  <2>2. x[2] = y[2]
    BY <1>1, <1>2, <2>1
  <2> QED
    BY <1>2, <2>1, <2>2
<1> HIDE DEF h
<1>5. h \in Injection(Recorded, T)
  BY <1>3, <1>4, Fun_IsInj
<1>6. IsFiniteSet(T) /\ Cardinality(T) = outstanding * MAXOPBLOCKS
  <2>1. IsFiniteSet(N) /\ Cardinality(N) = MAXOPBLOCKS
    BY FS_Interval
  <2>2. IsFiniteSet(Active) /\ Cardinality(Active) = outstanding
    BY ActiveSize DEF IInv, LogInv, Counted
  <2> HIDE DEF N
  <2>3. Cardinality(T) = Cardinality(Active) * Cardinality(N)
    BY <2>1, <2>2, FS_Product
  <2> QED
    BY <2>1, <2>2, <2>3, FS_Product
<1>7. IsFiniteSet(Recorded) /\ Cardinality(Recorded) <= Cardinality(T)
  BY <1>5, <1>6, FS_Injection
<1>8. Cardinality(Recorded) \in Nat
  BY <1>7, FS_CardinalityType
<1> QED
  BY <1>6, <1>7, <1>8

\* WrittenFits after a step that leaves the calls in progress as they are.
LEMMA SameWritten ==
    ASSUME WrittenFits, Active' \subseteq Active, \A p \in Active' : written'[p] = written[p],
           \A p \in Op : pc'[p] \in {"check", "record"} =>
                            pc[p] \in {"check", "record"} /\ buf'[p] = buf[p]
    PROVE  WrittenFits'
<1>1. \A p \in Op : pc'[p] \in {"check", "record"} => p \in Active'
  BY DEF Active
<1> QED
  BY <1>1 DEF WrittenFits

\* While no call is in progress the transaction itself is at most LOGSIZE.
LEMMA QuietReserved ==
    /\ IInv /\ Active = {} => Recorded = {} /\ outstanding = 0
    /\ IInv /\ Active = {} /\ Reserved /\ stage \notin BootStages => Len(lh) <= LOGSIZE
    /\ IInv /\ Active = {} /\ (stage \notin BootStages => Len(lh) <= LOGSIZE) => Reserved
<1> SUFFICES ASSUME IInv, Active = {}
             PROVE  /\ Recorded = {} /\ outstanding = 0
                    /\ Reserved /\ stage \notin BootStages => Len(lh) <= LOGSIZE
                    /\ (stage \notin BootStages => Len(lh) <= LOGSIZE) => Reserved
  OBVIOUS
<1>1. Recorded = {} /\ outstanding = 0
  BY FS_EmptySet DEF Recorded, IInv, LogInv, Counted
<1>2. Cardinality(Recorded) = 0 /\ outstanding * MAXOPBLOCKS = 0 /\ Len(lh) \in Nat
  BY <1>1, FS_EmptySet DEF IInv, TypeOK
<1> QED
  BY <1>1, <1>2 DEF Reserved

\* The steps of a commit, of a restart and a crash: nothing is added to log.lh.
LEMMA CommitReserves ==
    ASSUME IInv, IInv', WrittenFits, Reserved, Commit \/ Crash
    PROVE  WrittenFits' /\ Reserved'
<1>1. CASE Crash
  <2>1. Active' = {} /\ stage' \in BootStages
    BY <1>1 DEF Crash, Active, Idle, BootStages
  <2>2. WrittenFits'
    BY <1>1, <2>1 DEF WrittenFits, Crash, Idle
  <2> QED
    BY <2>1, <2>2 DEF Reserved
<1>2. CASE Commit
  <2>1. Active = {} /\ UNCHANGED <<pc, buf, written, outstanding>>
    BY <1>2 DEF Commit, write_log, write_head, install_trans, ClearHead, read_head, procs, IInv, LogInv, Counted
  <2>2. Active' = {}
    BY <2>1 DEF Active
  <2>3. WrittenFits'
    BY <2>1, <2>2, SameWritten
  <2>4. stage' \notin BootStages => Len(lh') <= LOGSIZE
    <3>1. stage \notin BootStages => Len(lh) <= LOGSIZE
      BY <2>1, QuietReserved
    <3>2. CASE lh' = <<>>
      BY <3>2
    <3>3. CASE lh' = lh /\ stage \notin BootStages
      BY <3>1, <3>3
    <3>4. CASE lh' # <<>> /\ (lh' # lh \/ stage \in BootStages)
      <4>1. stage \in BootStages
        BY <1>2, <3>4 DEF Commit, write_log, write_head, install_trans, ClearHead, read_head, Up, BootStages
      <4>2. ~ClearHead
        BY <3>4 DEF ClearHead, IInv, LogInv, Drained
      <4> QED
        BY <1>2, <4>1, <4>2 DEF Commit, write_log, write_head, install_trans, read_head, Up, BootStages
    <3> QED
      BY <3>2, <3>3, <3>4
  <2>5. Reserved'
    <3>1. (IInv /\ Active = {} /\ (stage \notin BootStages => Len(lh) <= LOGSIZE) => Reserved)'
      BY QuietReserved, PTL
    <3> QED
      BY <2>2, <2>4, <3>1
  <2> QED
    BY <2>3, <2>5
<1> QED
  BY <1>1, <1>2

\* begin_op(): the new call finds its MAXOPBLOCKS blocks still free.
LEMMA TryBeginReserves ==
    ASSUME IInv, IInv', WrittenFits, Reserved, NEW p \in Op, Up, pc[p] \in {"idle", "woken"}, TryBegin(p)
    PROVE  WrittenFits' /\ Reserved'
<1> USE DEF IInv
<1>1. /\ p \notin Active /\ lh' = lh /\ stage' = stage /\ buf' = buf
      /\ written'[p] = {} /\ \A q \in Op : q # p => written'[q] = written[q] /\ pc'[q] = pc[q]
      /\ pc'[p] \in {"asleep", "active"}
  BY DEF TryBegin, Active, TypeOK
<1>2. WrittenFits'
  <2>1. \A q \in Active' : IsFiniteSet(written'[q]) /\ Cardinality(written'[q]) <= MAXOPBLOCKS
    <3> SUFFICES ASSUME NEW q \in Active'
                 PROVE  IsFiniteSet(written'[q]) /\ Cardinality(written'[q]) <= MAXOPBLOCKS
      OBVIOUS
    <3>1. CASE q = p
      BY <1>1, <3>1, FS_EmptySet
    <3>2. CASE q # p
      BY <1>1, <3>2 DEF Active, WrittenFits
    <3> QED
      BY <3>1, <3>2
  <2>2. \A q \in Op : pc'[q] \in {"check", "record"} => buf'[q] \in written'[q]
    BY <1>1 DEF WrittenFits
  <2> QED
    BY <2>1, <2>2 DEF WrittenFits
<1>3. Recorded' = Recorded
  <2>1. \A q \in Op : q # p => (q \in Active' <=> q \in Active)
    BY <1>1 DEF Active
  <2> QED
    BY <1>1, <2>1 DEF Recorded, Active
<1>4. Reserved'
  <2>1. CASE UNCHANGED outstanding
    BY <1>1, <1>3, <2>1 DEF Reserved
  <2>2. CASE ~NoSpace /\ outstanding' = outstanding + 1
    <3>1. Cardinality(Recorded) \in Nat
      BY RecordedBound
    <3>2. Len(lh) + (outstanding + 1) * MAXOPBLOCKS \in Nat
      <4>1. Len(lh) \in Nat /\ outstanding \in Nat /\ outstanding + 1 \in Nat /\ MAXOPBLOCKS \in Nat
        BY LogAssumption DEF TypeOK
      <4>2. (outstanding + 1) * MAXOPBLOCKS \in Nat
        BY <4>1, Product
      <4> QED
        BY <4>1, <4>2
    <3>3. Len(lh) + (outstanding + 1) * MAXOPBLOCKS <= LOGSIZE
      BY <2>2, <3>2 DEF NoSpace
    <3> DEFINE L == Len(lh) + (outstanding + 1) * MAXOPBLOCKS
               R == Cardinality(Recorded)
    <3> HIDE DEF L, R
    <3>4. L <= LOGSIZE + R
      BY <3>1, <3>2, <3>3 DEF L, R
    <3> QED
      BY <1>1, <1>3, <2>2, <3>4 DEF Reserved, L, R
  <2> QED
    BY <2>1, <2>2 DEF TryBegin
<1> QED
  BY <1>2, <1>4

\* end_op(): the call gives back what it reserved and did not use.
LEMMA EndOpReserves ==
    ASSUME IInv, IInv', WrittenFits, Reserved, NEW p \in Op, end_op(p)
    PROVE  WrittenFits' /\ Reserved'
<1> USE DEF IInv
<1>1. /\ p \in Active /\ stage \notin BootStages /\ stage' \notin BootStages
      /\ UNCHANGED <<lh, buf, written>> /\ outstanding' = outstanding - 1
      /\ \A q \in Op : pc'[q] \in {"active", "check", "record"} <=>
                          q # p /\ pc[q] \in {"active", "check", "record"}
      /\ \A q \in Op : pc'[q] \in {"check", "record"} => pc[q] = pc'[q]
  BY DEF end_op, At, Up, Active, Wakeup, BootStages, TypeOK
<1>2. Active' = Active \ {p}
  BY <1>1 DEF Active
<1>3. WrittenFits'
  BY <1>1, <1>2, SameWritten
<1> DEFINE Mine == {p} \X written[p]
<1>4. Recorded' = Recorded \ Mine
  BY <1>1, <1>2 DEF Recorded, Active
<1>5. IsFiniteSet(Mine) /\ Cardinality(Mine) <= MAXOPBLOCKS /\ Cardinality(Mine) \in Nat
  <2>1. IsFiniteSet(written[p]) /\ Cardinality(written[p]) <= MAXOPBLOCKS
    BY <1>1 DEF WrittenFits
  <2>2. Cardinality(written[p]) \in Nat
    BY <2>1, FS_CardinalityType
  <2>3. IsFiniteSet({p}) /\ Cardinality({p}) = 1
    BY FS_Singleton
  <2>4. IsFiniteSet(Mine) /\ Cardinality(Mine) = Cardinality({p}) * Cardinality(written[p])
    BY <2>1, <2>3, FS_Product
  <2> QED
    BY <2>1, <2>2, <2>3, <2>4
<1> HIDE DEF Mine
<1>6. /\ Cardinality(Recorded') = Cardinality(Recorded) - Cardinality(Recorded \cap Mine)
      /\ Cardinality(Recorded \cap Mine) <= Cardinality(Mine)
      /\ Cardinality(Recorded \cap Mine) \in Nat
      /\ Cardinality(Recorded) \in Nat
  <2>1. IsFiniteSet(Recorded) /\ Cardinality(Recorded) \in Nat
    BY RecordedBound
  <2>2. IsFiniteSet(Recorded \cap Mine) /\ Cardinality(Recorded \cap Mine) <= Cardinality(Mine)
    BY <1>5, FS_Intersection
  <2>3. Cardinality(Recorded \cap Mine) \in Nat
    BY <2>2, FS_CardinalityType
  <2> QED
    BY <1>4, <2>1, <2>2, <2>3, FS_Difference
<1>7. /\ outstanding * MAXOPBLOCKS \in Nat
      /\ (outstanding - 1) * MAXOPBLOCKS = outstanding * MAXOPBLOCKS - MAXOPBLOCKS
      /\ Len(lh) \in Nat /\ MAXOPBLOCKS \in Nat /\ LOGSIZE \in Nat
  <2>1. outstanding \in Nat /\ Len(lh) \in Nat /\ MAXOPBLOCKS \in Nat /\ LOGSIZE \in Nat
    BY LogAssumption DEF TypeOK
  <2> QED
    BY <2>1, Product
<1>8. Len(lh) + outstanding * MAXOPBLOCKS <= LOGSIZE + Cardinality(Recorded)
  BY <1>1 DEF Reserved
<1> DEFINE L == Len(lh)
           O == outstanding * MAXOPBLOCKS
           R == Cardinality(Recorded)
           X == Cardinality(Recorded \cap Mine)
           Y == Cardinality(Mine)
<1> HIDE DEF L, O, R, X, Y
<1>9. L + (O - MAXOPBLOCKS) <= LOGSIZE + (R - X)
  BY <1>5, <1>6, <1>7, <1>8 DEF L, O, R, X, Y
<1>10. Reserved'
  BY <1>1, <1>6, <1>7, <1>9 DEF Reserved, L, O, R, X
<1> QED
  BY <1>3, <1>10

\* end_op() after commit(): no call is in progress.
LEMMA EndCommitReserves ==
    ASSUME IInv, IInv', WrittenFits, Reserved, NEW p \in Op, EndCommit(p)
    PROVE  WrittenFits' /\ Reserved'
<1> USE DEF IInv
<1>1. /\ Active = {} /\ stage \notin BootStages
      /\ UNCHANGED <<lh, buf, written>>
      /\ \A q \in Op : pc'[q] \in {"active", "check", "record"} => pc[q] = pc'[q]
  BY DEF EndCommit, At, Up, Active, Wakeup, BootStages, TypeOK, LogInv, Counted
<1>2. Active' = {}
  BY <1>1 DEF Active
<1>3. WrittenFits'
  BY <1>1, <1>2, SameWritten
<1>4. Len(lh') <= LOGSIZE
  BY <1>1, QuietReserved
<1>5. (IInv /\ Active = {} /\ (stage \notin BootStages => Len(lh) <= LOGSIZE) => Reserved)'
  BY QuietReserved, PTL
<1> QED
  BY <1>2, <1>3, <1>4, <1>5

\* A call changes a block: it may be a block the transaction already has.
LEMMA ModifyReserves ==
    ASSUME IInv, IInv', WrittenFits, Reserved, NEW p \in Op, Modify(p)
    PROVE  WrittenFits' /\ Reserved'
<1> USE DEF IInv
<1>1. PICK b \in Block : /\ Cardinality(written[p] \cup {b}) <= MAXOPBLOCKS
                         /\ buf' = [buf EXCEPT ![p] = b]
                         /\ written' = [written EXCEPT ![p] = @ \cup {b}]
  BY DEF Modify
<1>2. /\ p \in Active /\ pc' = [pc EXCEPT ![p] = "check"] /\ UNCHANGED <<lh, outstanding, stage>>
      /\ written'[p] = written[p] \cup {b} /\ buf'[p] = b
      /\ \A q \in Op : q # p => written'[q] = written[q] /\ buf'[q] = buf[q] /\ pc'[q] = pc[q]
  BY <1>1 DEF Modify, At, Active, TypeOK
<1>3. Active' = Active
  BY <1>2 DEF Active, TypeOK
<1>4. WrittenFits'
  <2>1. IsFiniteSet(written[p] \cup {b})
    BY <1>2, FS_AddElement DEF WrittenFits
  <2>2. \A q \in Active' : IsFiniteSet(written'[q]) /\ Cardinality(written'[q]) <= MAXOPBLOCKS
    BY <1>1, <1>2, <1>3, <2>1 DEF WrittenFits, Active
  <2>3. \A q \in Op : pc'[q] \in {"check", "record"} => buf'[q] \in written'[q]
    BY <1>2 DEF WrittenFits
  <2> QED
    BY <2>2, <2>3 DEF WrittenFits
<1>5. Recorded \subseteq Recorded'
  <2>1. \A q \in Active : written[q] \subseteq written'[q]
    BY <1>2 DEF Active
  <2> QED
    BY <1>2, <1>3, <2>1 DEF Recorded
<1>6. (IInv /\ WrittenFits => IsFiniteSet(Recorded) /\ Cardinality(Recorded) \in Nat)'
  BY RecordedBound, PTL
<1>7. Cardinality(Recorded) <= Cardinality(Recorded') /\ Cardinality(Recorded) \in Nat
      /\ Cardinality(Recorded') \in Nat
  BY <1>4, <1>5, <1>6, RecordedBound, FS_Subset
<1>8. Reserved'
  <2> DEFINE L == Len(lh) + outstanding * MAXOPBLOCKS
             R == Cardinality(Recorded)
             S == Cardinality(Recorded')
  <2> HIDE DEF L, R, S
  <2>1. R \in Nat /\ S \in Nat /\ R <= S
    BY <1>7 DEF R, S
  <2>2. L \in Nat
    <3>1. Len(lh) \in Nat /\ outstanding \in Nat /\ MAXOPBLOCKS \in Nat
      BY LogAssumption DEF TypeOK
    <3>2. outstanding * MAXOPBLOCKS \in Nat
      BY <3>1, Product
    <3> QED
      BY <3>1, <3>2 DEF L
  <2>3. stage' \notin BootStages => L <= LOGSIZE + R
    BY <1>2 DEF Reserved, L, R
  <2>4. stage' \notin BootStages => L <= LOGSIZE + S
    BY <2>1, <2>2, <2>3, LogAssumption
  <2> QED
    BY <1>2, <2>4 DEF Reserved, L, S
<1> QED
  BY <1>4, <1>8

\* The tests of log_write() change nothing that is reserved or recorded.
LEMMA LogWriteCheckReserves ==
    ASSUME IInv, WrittenFits, Reserved, NEW p \in Op, LogWriteCheck(p)
    PROVE  WrittenFits' /\ Reserved'
<1> USE DEF IInv
<1>1. /\ UNCHANGED <<lh, outstanding, stage, buf, written>>
      /\ \A q \in Op : pc'[q] \in {"check", "record"} <=> pc[q] \in {"check", "record"}
      /\ \A q \in Op : pc'[q] = "active" <=> pc[q] = "active"
  BY DEF LogWriteCheck, At, TypeOK
<1>2. Active' = Active
  BY <1>1 DEF Active
<1>3. Recorded' = Recorded
  BY <1>1, <1>2 DEF Recorded
<1>4. WrittenFits'
  BY <1>1, <1>2, SameWritten
<1> QED
  BY <1>1, <1>3, <1>4 DEF Reserved

\* log_write(): a block new to the transaction is one its call had reserved.
LEMMA LogWriteRecordReserves ==
    ASSUME IInv, IInv', WrittenFits, Reserved, NEW p \in Op, LogWriteRecord(p)
    PROVE  WrittenFits' /\ Reserved'
<1> USE DEF IInv
<1> DEFINE b == buf[p]
<1>1. /\ UNCHANGED <<outstanding, stage, buf, written>>
      /\ lh' = IF b \in ToRecover(lh) THEN lh ELSE Append(lh, b)
      /\ p \in Active /\ b \in written[p] /\ b \in Block
      /\ \A q \in Op : pc'[q] \in {"active", "check", "record"} <=>
                          pc[q] \in {"active", "check", "record"}
      /\ \A q \in Op : pc'[q] \in {"check", "record"} => pc[q] = pc'[q]
  BY DEF LogWriteRecord, At, Active, TypeOK, WrittenFits
<1> HIDE DEF b
<1>2. Active' = Active
  BY <1>1 DEF Active
<1>3. WrittenFits'
  BY <1>1, <1>2, SameWritten
<1>4. CASE b \in ToRecover(lh)
  <2>1. Recorded' = Recorded
    BY <1>1, <1>2, <1>4 DEF Recorded
  <2> QED
    BY <1>1, <1>3, <1>4, <2>1 DEF Reserved
<1>5. CASE b \notin ToRecover(lh)
  <2>1. /\ ToRecover(lh') = ToRecover(lh) \cup {b} /\ Len(lh') = Len(lh) + 1
        /\ Len(lh) \in Nat
    BY <1>1, <1>5, AppendToRecover DEF TypeOK
  <2> DEFINE x == <<p, b>>
  <2>2. x \notin Recorded /\ Recorded \cup {x} \subseteq Recorded'
    BY <1>1, <1>2, <1>5, <2>1 DEF Recorded
  <2> HIDE DEF x
  <2>3. IsFiniteSet(Recorded) /\ Cardinality(Recorded) \in Nat
    BY RecordedBound
  <2>4. (IInv /\ WrittenFits => IsFiniteSet(Recorded) /\ Cardinality(Recorded) \in Nat)'
    BY RecordedBound, PTL
  <2>5. Cardinality(Recorded \cup {x}) = Cardinality(Recorded) + 1
    BY <2>2, <2>3, FS_AddElement
  <2>6. Cardinality(Recorded \cup {x}) <= Cardinality(Recorded')
    BY <1>3, <2>2, <2>4, FS_Subset
  <2> DEFINE O == outstanding * MAXOPBLOCKS
             L == Len(lh)
             R == Cardinality(Recorded)
             S == Cardinality(Recorded')
  <2>7. O \in Nat
    BY Product, LogAssumption DEF TypeOK
  <2>8. L \in Nat /\ R \in Nat /\ S \in Nat /\ R + 1 <= S
    BY <1>3, <2>1, <2>3, <2>4, <2>5, <2>6
  <2>9. stage' \notin BootStages => L + O <= LOGSIZE + R
    BY <1>1 DEF Reserved
  <2> HIDE DEF O, L, R, S
  <2>10. stage' \notin BootStages => (L + 1) + O <= LOGSIZE + S
    BY <2>7, <2>8, <2>9, LogAssumption
  <2> QED
    BY <1>1, <1>3, <2>1, <2>10 DEF Reserved, O, L, S
<1> QED
  BY <1>4, <1>5

LEMMA ReservedStep == IInv /\ IInv' /\ WrittenFits /\ Reserved /\ [Next]_vars => WrittenFits' /\ Reserved'
<1> SUFFICES ASSUME IInv, IInv', WrittenFits, Reserved, [Next]_vars PROVE WrittenFits' /\ Reserved'
  OBVIOUS
<1>1. CASE vars' = vars
  BY <1>1 DEF vars, procs, WrittenFits, Reserved, Recorded, Active, ToRecover
<1>2. CASE Commit \/ Crash
  BY <1>2, CommitReserves
<1>3. ASSUME NEW p \in Op, begin_op(p) \/ Modify(p) \/ Proc(p) PROVE WrittenFits' /\ Reserved'
  <2>1. CASE begin_op(p) \/ Retry(p)
    BY <2>1, TryBeginReserves DEF begin_op, Retry, At
  <2>2. CASE Modify(p) \/ log_write(p)
    BY <2>2, ModifyReserves, LogWriteCheckReserves, LogWriteRecordReserves DEF log_write
  <2>3. CASE end_op(p) \/ EndCommit(p)
    BY <2>3, EndOpReserves, EndCommitReserves
  <2> QED
    BY <1>3, <2>1, <2>2, <2>3 DEF Proc
<1>4. ASSUME NEW b \in Block, Recycle(b) PROVE WrittenFits' /\ Reserved'
  BY <1>1, <1>4, RecycleStep
<1> QED
  BY <1>1, <1>2, <1>3, <1>4 DEF Next

\* However many calls run at once, and whatever the size of the log on disk, the
\* transactions that begin_op() admits leave every call in progress the space it
\* may still need, and never exceed the LOGSIZE entries of log.lh.block[].
THEOREM SpaceReservedHolds == Spec => []SpaceReserved
<1>1. Init => WrittenFits /\ Reserved
  BY DEF Init, Idle, WrittenFits, Reserved, Active, BootStages
<1>2. IInv /\ WrittenFits /\ Reserved => SpaceReserved
  <2> SUFFICES ASSUME IInv, WrittenFits, Reserved, stage \notin BootStages
               PROVE  /\ Len(lh) + outstanding * MAXOPBLOCKS <= LOGSIZE + Cardinality(Recorded)
                      /\ Len(lh) <= LOGSIZE
    BY DEF SpaceReserved
  <2>1. Len(lh) + outstanding * MAXOPBLOCKS <= LOGSIZE + Cardinality(Recorded)
    BY DEF Reserved
  <2>2. Cardinality(Recorded) \in Nat /\ Cardinality(Recorded) <= outstanding * MAXOPBLOCKS
    BY RecordedBound
  <2>3. Len(lh) \in Nat /\ outstanding \in Nat /\ outstanding * MAXOPBLOCKS \in Nat
    BY Product DEF IInv, TypeOK
  <2> HIDE DEF Recorded
  <2> QED
    BY <2>1, <2>2, <2>3
<1>3. Spec => [](WrittenFits /\ Reserved)
  BY <1>1, ReservedStep, InvariantHolds, PTL DEF Spec
<1> QED
  BY <1>2, <1>3, InvariantHolds, PTL
===============================================================================
