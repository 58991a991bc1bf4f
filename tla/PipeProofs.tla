------------------------------- MODULE PipeProofs ------------------------------
(***************************************************************************)
(* Proofs about Pipe, for any number of writers and readers and any size   *)
(* of the ring: no wakeup is lost, the page is freed once, and the ring    *)
(* with its counters, which wrap around, implements the queue of Channel.  *)
(* After them, proofs about the console, whose ring has three counters of  *)
(* the same kind and implements LineInput, and about the sums of           *)
(* SyscallArgs, which wrap around as well.                                 *)
(***************************************************************************)
EXTENDS Pipe, TLAPS, SequenceTheorems

\* The range of the counters is a multiple of the size of the ring, as 2^32 is of 512
\* (without this nread % PIPESIZE would jump at the wrap).
Sizes ==
    /\ PIPESIZE \in Nat \ {0} /\ UintMod \in Nat /\ PIPESIZE < UintMod
    /\ \E k \in Nat : UintMod = k * PIPESIZE
    /\ Byte # {}

\* Each end is held by someone.
Processes ==
    /\ Writer # {} /\ Reader # {} /\ Writer \cap Reader = {}
    /\ Input \subseteq Seq(Byte) /\ ReadSize \subseteq Nat

-------------------------------------------------------------------------------
(* The inductive invariant *)

\* An end is open exactly when a process has it, and who has none is in no call.
Ends ==
    /\ readopen <=> ref \cap Reader # {}
    /\ writeopen <=> ref \cap Writer # {}
    /\ \A p \in Proc : p \notin ref => at[p] = "user"
    /\ \A p \in Proc : (at[p] = "rsleep" => p \in Reader) /\ (at[p] = "wsleep" => p \in Writer)
    /\ freed = IF ref = {} THEN 1 ELSE 0

PInv == TypeOK /\ todo \in [Proc -> Seq(Byte)] /\ Used <= PIPESIZE /\ Ends /\ SleepersWait

-------------------------------------------------------------------------------
(* Arithmetic of the counters *)

\* One turn of the counter.
LEMMA UintOf ==
    ASSUME Sizes, NEW n \in 0 .. 2 * UintMod - 1
    PROVE  uint(n) = (IF n < UintMod THEN n ELSE n - UintMod) /\ uint(n) \in 0 .. UintMod - 1
<1>1. UintMod \in Nat \ {0}
  BY DEF Sizes
<1>2. CASE n < UintMod
  BY <1>1, <1>2 DEF uint
<1>3. CASE ~(n < UintMod)
  BY <1>1, <1>3 DEF uint
<1> QED
  BY <1>2, <1>3

\* n % p is what is left of n after some multiple of p.
LEMMA ModDef ==
    ASSUME NEW p \in Nat \ {0}, NEW n \in Nat
    PROVE  n % p \in 0 .. p - 1 /\ \E q \in Int : n = p * q + (n % p)
<1>1. n % p = n - p * (n \div p)
  OBVIOUS
<1>2. n \div p \in Int /\ n % p \in 0 .. p - 1
  OBVIOUS
<1> DEFINE q == n \div p
           r == n % p
<1>3. q \in Int /\ r \in Int /\ r = n - p * q
  BY <1>1, <1>2
<1> HIDE DEF q, r
<1>4. n = p * q + r
  BY <1>3
<1> QED
  BY <1>2, <1>3, <1>4 DEF r

LEMMA ModUnique ==
    ASSUME NEW p \in Nat \ {0}, NEW n \in Nat, NEW q \in Int, NEW r \in 0 .. p - 1, n = p * q + r
    PROVE  n % p = r
  OBVIOUS

\* Two numbers that are less than p apart have different remainders.
LEMMA ModDiffers ==
    ASSUME NEW p \in Nat \ {0}, NEW a \in Nat, NEW b \in Nat, a < b, b < a + p
    PROVE  a % p # b % p
<1> SUFFICES ASSUME a % p = b % p PROVE FALSE
  OBVIOUS
<1>1. PICK c \in Int : a = p * c + (a % p)
  BY ModDef
<1>2. PICK d \in Int : b = p * d + (b % p)
  BY ModDef
<1> DEFINE r == a % p
<1>3. r \in Int /\ a = p * c + r /\ b = p * d + r
  BY <1>1, <1>2, ModDef
<1> HIDE DEF r
<1>4. p * d - p * c = b - a
  BY <1>3
<1>5. p * (d - c) = p * d - p * c
  OBVIOUS
<1> DEFINE q == d - c
<1>6. q \in Int /\ p * q > 0 /\ p * q < p
  BY <1>4, <1>5
<1> HIDE DEF q
<1> QED
  BY <1>6

\* The slot of the ring for position n of the counters.
Slot(n) == uint(n) % PIPESIZE

\* The wrap of the counters does not move the slots.
LEMMA SlotOf ==
    ASSUME Sizes, NEW n \in 0 .. 2 * UintMod - 1
    PROVE  Slot(n) = n % PIPESIZE /\ Slot(n) \in 0 .. PIPESIZE - 1
<1>1. PIPESIZE \in Nat \ {0} /\ UintMod \in Nat
  BY DEF Sizes
<1>2. CASE n < UintMod
  <2>1. uint(n) = n
    BY <1>2, UintOf
  <2> QED
    BY <1>1, <2>1, ModDef DEF Slot
<1>3. CASE ~(n < UintMod)
  <2>1. uint(n) = n - UintMod /\ n - UintMod \in Nat
    BY <1>1, <1>3, UintOf
  <2>2. PICK k \in Nat : UintMod = k * PIPESIZE
    BY DEF Sizes
  <2>3. PICK q \in Int : n - UintMod = PIPESIZE * q + ((n - UintMod) % PIPESIZE)
    BY <1>1, <2>1, ModDef
  <2> DEFINE r == (n - UintMod) % PIPESIZE
             P == PIPESIZE
             m == UintMod
  <2>4. r \in 0 .. P - 1 /\ n - m = P * q + r /\ m = k * P /\ P \in Nat /\ m \in Nat /\ n \in Nat
    BY <1>1, <2>1, <2>2, <2>3, ModDef
  <2> HIDE DEF r, P, m
  <2>5. n = P * (q + k) + r
    <3>1. P * (q + k) = P * q + k * P
      BY <2>4
    <3> QED
      BY <2>4, <3>1
  <2>6. q + k \in Int
    OBVIOUS
  <2>7. n % P = r
    BY <1>1, <2>4, <2>5, <2>6, ModUnique DEF P
  <2> QED
    BY <2>1, <2>4, <2>7 DEF Slot, r, P
<1> QED
  BY <1>2, <1>3

\* Two steps of a counter are one.
LEMMA UintPlus ==
    ASSUME Sizes, NEW x \in Nat, NEW y \in Nat, x + y < 2 * UintMod
    PROVE  uint(uint(x) + y) = uint(x + y)
<1>1. UintMod \in Nat \ {0} /\ x \in 0 .. 2 * UintMod - 1 /\ x + y \in 0 .. 2 * UintMod - 1
  BY DEF Sizes
<1>2. /\ uint(x) = (IF x < UintMod THEN x ELSE x - UintMod)
      /\ uint(x + y) = (IF x + y < UintMod THEN x + y ELSE x + y - UintMod)
  BY <1>1, UintOf
<1>3. CASE x < UintMod
  BY <1>2, <1>3
<1>4. CASE ~(x < UintMod)
  <2>1. uint(x) + y = x + y - UintMod /\ x + y - UintMod \in 0 .. UintMod - 1
    BY <1>1, <1>2, <1>4
  <2>2. x + y - UintMod \in 0 .. 2 * UintMod - 1 /\ x + y - UintMod < UintMod
    BY <1>1, <2>1
  <2>3. uint(x + y - UintMod) = x + y - UintMod
    BY <2>2, UintOf
  <2> QED
    BY <1>1, <1>2, <1>4, <2>1, <2>3
<1> QED
  BY <1>3, <1>4

Counter == 0 .. UintMod - 1

\* How far b is ahead of a.
Dist(a, b) == uint(UintMod + b - a)

LEMMA DistOf ==
    ASSUME Sizes, NEW a \in Counter, NEW b \in Counter
    PROVE  Dist(a, b) = (IF b >= a THEN b - a ELSE UintMod + b - a) /\ Dist(a, b) \in Counter
<1>1. UintMod \in Nat /\ UintMod + b - a \in 0 .. 2 * UintMod - 1
  BY DEF Sizes, Counter
<1> DEFINE n == UintMod + b - a
<1> HIDE DEF n
<1>2. uint(n) = (IF n < UintMod THEN n ELSE n - UintMod)
  BY <1>1, UintOf DEF n
<1> QED
  BY <1>1, <1>2 DEF Counter, Dist, n

\* The tests of pipewrite() and piperead() on the counters: the ring is full, or empty.
LEMMA DistEnds ==
    ASSUME Sizes, NEW a \in Counter, NEW b \in Counter
    PROVE  (b = uint(a + PIPESIZE) <=> Dist(a, b) = PIPESIZE) /\ (a = b <=> Dist(a, b) = 0)
<1>1. UintMod \in Nat /\ PIPESIZE \in Nat \ {0} /\ PIPESIZE < UintMod /\ a + PIPESIZE \in 0 .. 2 * UintMod - 1
  BY DEF Sizes, Counter
<1> DEFINE n == a + PIPESIZE
<1> HIDE DEF n
<1>2. uint(n) = (IF n < UintMod THEN n ELSE n - UintMod)
  BY <1>1, UintOf DEF n
<1>3. Dist(a, b) = (IF b >= a THEN b - a ELSE UintMod + b - a)
  BY DistOf
<1> QED
  BY <1>1, <1>2, <1>3 DEF Counter, n

\* m bytes are stored, or n are taken.
LEMMA DistMoves ==
    ASSUME Sizes, NEW a \in Counter, NEW b \in Counter, Dist(a, b) <= PIPESIZE
    PROVE  /\ \A m \in 0 .. PIPESIZE - Dist(a, b) :
                 uint(b + m) \in Counter /\ Dist(a, uint(b + m)) = Dist(a, b) + m
           /\ \A n \in 0 .. Dist(a, b) :
                 uint(a + n) \in Counter /\ Dist(uint(a + n), b) = Dist(a, b) - n
<1>1. UintMod \in Nat /\ PIPESIZE \in Nat \ {0} /\ PIPESIZE < UintMod
  BY DEF Sizes
<1>2. Dist(a, b) = (IF b >= a THEN b - a ELSE UintMod + b - a) /\ Dist(a, b) \in Counter
  BY DistOf
<1>3. ASSUME NEW m \in 0 .. PIPESIZE - Dist(a, b)
      PROVE  uint(b + m) \in Counter /\ Dist(a, uint(b + m)) = Dist(a, b) + m
  <2>1. b + m \in 0 .. 2 * UintMod - 1
    BY <1>1, <1>2 DEF Counter
  <2> DEFINE t == b + m
  <2> HIDE DEF t
  <2>2. uint(t) = (IF t < UintMod THEN t ELSE t - UintMod) /\ uint(t) \in Counter
    BY <2>1, UintOf DEF Counter, t
  <2> DEFINE c == uint(t)
  <2> HIDE DEF c
  <2>3. c \in Counter /\ c = (IF t < UintMod THEN t ELSE t - UintMod)
    BY <2>2 DEF c
  <2>4. Dist(a, c) = (IF c >= a THEN c - a ELSE UintMod + c - a)
    BY <2>3, DistOf
  <2>5. Dist(a, c) = Dist(a, b) + m
    BY <1>1, <1>2, <2>3, <2>4 DEF Counter, t
  <2> QED
    BY <2>3, <2>5 DEF c, t
<1>4. ASSUME NEW n \in 0 .. Dist(a, b)
      PROVE  uint(a + n) \in Counter /\ Dist(uint(a + n), b) = Dist(a, b) - n
  <2>1. a + n \in 0 .. 2 * UintMod - 1
    BY <1>1, <1>2 DEF Counter
  <2> DEFINE t == a + n
  <2> HIDE DEF t
  <2>2. uint(t) = (IF t < UintMod THEN t ELSE t - UintMod) /\ uint(t) \in Counter
    BY <2>1, UintOf DEF Counter, t
  <2> DEFINE c == uint(t)
  <2> HIDE DEF c
  <2>3. c \in Counter /\ c = (IF t < UintMod THEN t ELSE t - UintMod)
    BY <2>2 DEF c
  <2>4. Dist(c, b) = (IF b >= c THEN b - c ELSE UintMod + b - c)
    BY <2>3, DistOf
  <2>5. Dist(c, b) = Dist(a, b) - n
    BY <1>1, <1>2, <2>3, <2>4 DEF Counter, t
  <2> QED
    BY <2>3, <2>5 DEF c, t
<1> QED
  BY <1>3, <1>4

\* nwrite is Dist ahead of nread.
LEMMA DistBack ==
    ASSUME Sizes, NEW a \in Counter, NEW b \in Counter
    PROVE  b = uint(a + Dist(a, b)) /\ a + Dist(a, b) \in 0 .. 2 * UintMod - 1
<1>1. UintMod \in Nat
  BY DEF Sizes
<1>2. Dist(a, b) = (IF b >= a THEN b - a ELSE UintMod + b - a) /\ Dist(a, b) \in Counter
  BY DistOf
<1>3. a + Dist(a, b) \in 0 .. 2 * UintMod - 1
  BY <1>1, <1>2 DEF Counter
<1> DEFINE n == a + Dist(a, b)
<1> HIDE DEF n
<1>4. uint(n) = (IF n < UintMod THEN n ELSE n - UintMod)
  BY <1>3, UintOf DEF n
<1> QED
  BY <1>1, <1>2, <1>3, <1>4 DEF Counter, n

-------------------------------------------------------------------------------
(* The ring *)

\* The ring after s[1 .. m] was stored from counter b on.
Filled(D, b, s, m) ==
    [x \in 0 .. PIPESIZE - 1 |->
        LET J == {j \in 1 .. m : uint(b + j - 1) % PIPESIZE = x} IN
        IF J = {} THEN D[x] ELSE s[CHOOSE j \in J : \A i \in J : i <= j]]

\* It has the new bytes in their places and keeps those that were there.
LEMMA FilledRing ==
    ASSUME Sizes, NEW a \in Counter, NEW b \in Counter, NEW s \in Seq(Byte), NEW m \in 0 .. Len(s),
           Dist(a, b) + m <= PIPESIZE, NEW D \in [0 .. PIPESIZE - 1 -> Byte]
    PROVE  /\ Filled(D, b, s, m) \in [0 .. PIPESIZE - 1 -> Byte]
           /\ \A j \in 1 .. Dist(a, b) : Filled(D, b, s, m)[Slot(a + j - 1)] = D[Slot(a + j - 1)]
           /\ \A j \in 1 .. m : Filled(D, b, s, m)[Slot(a + Dist(a, b) + j - 1)] = s[j]
           /\ m = 0 => Filled(D, b, s, m) = D
<1> DEFINE d == Dist(a, b)
           F == Filled(D, b, s, m)
           J(x) == {j \in 1 .. m : uint(b + j - 1) % PIPESIZE = x}
<1>1. UintMod \in Nat /\ PIPESIZE \in Nat \ {0} /\ PIPESIZE < UintMod /\ Len(s) \in Nat /\ m \in Nat
  BY DEF Sizes
<1>2. d \in Counter /\ d \in Nat /\ b = uint(a + d) /\ a \in Nat
  BY <1>1, DistOf, DistBack DEF Counter
<1>3. \A j \in 1 .. m : uint(b + j - 1) % PIPESIZE = Slot(a + d + j - 1)
  <2> SUFFICES ASSUME NEW j \in 1 .. m PROVE uint(b + j - 1) % PIPESIZE = Slot(a + d + j - 1)
    OBVIOUS
  <2> HIDE DEF d
  <2>1. a + d \in Nat /\ j - 1 \in Nat /\ (a + d) + (j - 1) < 2 * UintMod
    BY <1>1, <1>2 DEF Counter, d
  <2>2. uint(uint(a + d) + (j - 1)) = uint((a + d) + (j - 1))
    BY <2>1, UintPlus
  <2>3. b + j - 1 = uint(a + d) + (j - 1) /\ a + d + j - 1 = (a + d) + (j - 1)
    BY <1>1, <1>2 DEF Counter
  <2> QED
    BY <2>2, <2>3 DEF Slot
<1>4. \A n \in 1 .. d + m : Slot(a + n - 1) = (a + n - 1) % PIPESIZE /\ Slot(a + n - 1) \in 0 .. PIPESIZE - 1
  <2> SUFFICES ASSUME NEW n \in 1 .. d + m
               PROVE  Slot(a + n - 1) = (a + n - 1) % PIPESIZE /\ Slot(a + n - 1) \in 0 .. PIPESIZE - 1
    OBVIOUS
  <2> HIDE DEF d
  <2>1. a + n - 1 \in 0 .. 2 * UintMod - 1
    BY <1>1, <1>2 DEF Counter, d
  <2> QED
    BY <2>1, SlotOf
<1>5. \A n, k \in 1 .. d + m : n # k => Slot(a + n - 1) # Slot(a + k - 1)
  <2>1. ASSUME NEW n \in 1 .. d + m, NEW k \in 1 .. d + m, n < k PROVE Slot(a + n - 1) # Slot(a + k - 1)
    <3> HIDE DEF d
    <3>1. /\ a + n - 1 \in Nat /\ a + k - 1 \in Nat /\ a + n - 1 < a + k - 1
          /\ a + k - 1 < (a + n - 1) + PIPESIZE
      BY <1>1, <1>2, <2>1 DEF d
    <3>2. (a + n - 1) % PIPESIZE # (a + k - 1) % PIPESIZE
      BY <1>1, <3>1, ModDiffers
    <3> QED
      BY <1>4, <3>2
  <2> SUFFICES ASSUME NEW n \in 1 .. d + m, NEW k \in 1 .. d + m, n # k
               PROVE  Slot(a + n - 1) # Slot(a + k - 1)
    OBVIOUS
  <2>2. n < k \/ k < n
    BY <1>1, <1>2
  <2> QED
    BY <2>1, <2>2
<1>6. \A x \in 0 .. PIPESIZE - 1 : F[x] = IF J(x) = {} THEN D[x] ELSE s[CHOOSE j \in J(x) : \A i \in J(x) : i <= j]
  BY DEF Filled
<1>7. ASSUME NEW j \in 1 .. d PROVE F[Slot(a + j - 1)] = D[Slot(a + j - 1)]
  <2>1. J(Slot(a + j - 1)) = {}
    <3> SUFFICES ASSUME NEW i \in 1 .. m, uint(b + i - 1) % PIPESIZE = Slot(a + j - 1) PROVE FALSE
      OBVIOUS
    <3> HIDE DEF d
    <3>1. Slot(a + d + i - 1) = Slot(a + j - 1)
      BY <1>3
    <3>2. d + i \in 1 .. d + m /\ j \in 1 .. d + m /\ d + i # j /\ a + d + i - 1 = a + (d + i) - 1
      BY <1>1, <1>2
    <3>3. Slot(a + (d + i) - 1) # Slot(a + j - 1)
      BY <1>5, <3>2
    <3> QED
      BY <3>1, <3>2, <3>3
  <2>2. Slot(a + j - 1) \in 0 .. PIPESIZE - 1
    BY <1>1, <1>2, <1>4
  <2> HIDE DEF F, J
  <2> QED
    BY <1>6, <2>1, <2>2
<1>8. ASSUME NEW j \in 1 .. m PROVE F[Slot(a + d + j - 1)] = s[j]
  <2> DEFINE x == Slot(a + d + j - 1)
  <2>1. J(x) = {j}
    <3>1. j \in J(x)
      BY <1>3
    <3>2. ASSUME NEW i \in 1 .. m, uint(b + i - 1) % PIPESIZE = x PROVE i = j
      <4> SUFFICES ASSUME i # j PROVE FALSE
        OBVIOUS
      <4> HIDE DEF d
      <4>1. Slot(a + d + i - 1) = Slot(a + d + j - 1)
        BY <1>3, <3>2
      <4>2. /\ d + i \in 1 .. d + m /\ d + j \in 1 .. d + m /\ d + i # d + j
            /\ a + d + i - 1 = a + (d + i) - 1 /\ a + d + j - 1 = a + (d + j) - 1
        BY <1>1, <1>2
      <4>3. Slot(a + (d + i) - 1) # Slot(a + (d + j) - 1)
        BY <1>5, <4>2
      <4> QED
        BY <4>1, <4>2, <4>3
    <3> QED
      BY <3>1, <3>2
  <2>2. x \in 0 .. PIPESIZE - 1
    <3> HIDE DEF d
    <3>1. d + j \in 1 .. d + m /\ a + d + j - 1 = a + (d + j) - 1
      BY <1>1, <1>2
    <3> QED
      BY <1>4, <3>1
  <2>3. (CHOOSE i \in {j} : \A k \in {j} : k <= i) = j
    <3>1. \E i \in {j} : \A k \in {j} : k <= i
      BY <1>1
    <3> QED
      BY <3>1
  <2> HIDE DEF F, J, x
  <2>4. F[x] = s[CHOOSE i \in {j} : \A k \in {j} : k <= i]
    <3>1. F[x] = IF J(x) = {} THEN D[x] ELSE s[CHOOSE i \in J(x) : \A k \in J(x) : k <= i]
      BY <1>6, <2>2, ZenonT(40)
    <3>2. J(x) # {}
      BY <2>1
    <3>3. F[x] = s[CHOOSE i \in J(x) : \A k \in J(x) : k <= i]
      BY <3>1, <3>2
    <3> QED
      BY <2>1, <3>3
  <2> QED
    BY <2>3, <2>4 DEF x
<1>9. F \in [0 .. PIPESIZE - 1 -> Byte]
  <2>1. \A x \in 0 .. PIPESIZE - 1 : F[x] \in Byte
    <3> SUFFICES ASSUME NEW x \in 0 .. PIPESIZE - 1 PROVE F[x] \in Byte
      OBVIOUS
    <3>1. CASE J(x) = {}
      BY <1>6, <3>1
    <3>2. CASE J(x) # {}
      <4>1. PICK j \in 1 .. m : uint(b + j - 1) % PIPESIZE = x
        BY <3>2
      <4>2. x = Slot(a + d + j - 1)
        BY <1>3, <4>1
      <4> HIDE DEF F, J, d
      <4>3. F[x] = s[j] /\ j \in 1 .. Len(s)
        BY <1>1, <1>8, <4>2
      <4> QED
        BY <4>3
    <3> QED
      BY <3>1, <3>2
  <2>2. F = [x \in 0 .. PIPESIZE - 1 |-> F[x]]
    BY DEF Filled
  <2> HIDE DEF F
  <2> QED
    BY <2>1, <2>2
<1>10. ASSUME m = 0 PROVE F = D
  <2>1. \A x \in 0 .. PIPESIZE - 1 : J(x) = {}
    BY <1>10
  <2>2. \A x \in 0 .. PIPESIZE - 1 : F[x] = D[x]
    <3> HIDE DEF F, J
    <3> QED
      BY <1>6, <2>1
  <2> DEFINE S == 0 .. PIPESIZE - 1
  <2> HIDE DEF F, S
  <2>3. F \in [S -> Byte] /\ D \in [S -> Byte] /\ \A x \in S : F[x] = D[x]
    BY <1>9, <2>2 DEF S
  <2>4. F = [x \in S |-> F[x]] /\ D = [x \in S |-> D[x]]
    BY <2>3, Zenon
  <2>5. [x \in S |-> F[x]] = [x \in S |-> D[x]]
    BY <2>3, Zenon
  <2> QED
    BY <2>4, <2>5, Zenon
<1> QED
  BY <1>7, <1>8, <1>9, <1>10

-------------------------------------------------------------------------------
(* Steps *)

States == {"user", "call", "again", "rsleep", "wsleep"}

\* The counters of a state, and what its tests mean.
LEMMA UsedFacts ==
    ASSUME Sizes, TypeOK
    PROVE  /\ nread \in Counter /\ nwrite \in Counter /\ Used = Dist(nread, nwrite) /\ Used \in Counter /\ Used \in Nat
           /\ (Full <=> Used = PIPESIZE) /\ (Empty <=> Used = 0)
<1>1. nread \in Counter /\ nwrite \in Counter /\ Used = Dist(nread, nwrite)
  BY DEF TypeOK, Counter, Used, Dist
<1>2. Used \in Counter
  BY <1>1, DistOf
<1>3. (nwrite = uint(nread + PIPESIZE) <=> Dist(nread, nwrite) = PIPESIZE) /\ (nread = nwrite <=> Dist(nread, nwrite) = 0)
  BY <1>1, DistEnds
<1>4. Used \in Nat
  BY <1>2 DEF Counter, Sizes
<1> QED
  BY <1>1, <1>2, <1>3, <1>4 DEF Full, Empty

\* What a step that opens or closes no end has to keep.
LEMMA CallStep ==
    ASSUME Sizes, Processes, PInv,
           data' \in [0 .. PIPESIZE - 1 -> Byte], nread' \in Counter, nwrite' \in Counter,
           Dist(nread', nwrite') <= PIPESIZE,
           at' \in [Proc -> States], todo' \in [Proc -> Seq(Byte)], killed' \subseteq Proc,
           UNCHANGED <<readopen, writeopen, freed, ref>>,
           \A q \in Proc : q \notin ref => at'[q] = "user",
           \A q \in Proc : at'[q] = "rsleep" =>
               q \in Reader /\ writeopen /\ q \notin killed' /\ (nread' = nwrite' \/ killed' \cap Writer # {}),
           \A q \in Proc : at'[q] = "wsleep" =>
               q \in Writer /\ readopen /\ q \notin killed' /\ Dist(nread', nwrite') = PIPESIZE
    PROVE  PInv'
<1>1. TypeOK'
  BY DEF PInv, TypeOK, Counter, States
<1>2. Used' = Dist(nread', nwrite')
  BY DEF Used, Dist
<1>3. Ends'
  BY DEF PInv, Ends
<1>4. nwrite' = uint(nread' + PIPESIZE) <=> Dist(nread', nwrite') = PIPESIZE
  BY DistEnds
<1>5. SleepersWait'
  BY <1>4 DEF SleepersWait, Full, Empty
<1> QED
  BY <1>1, <1>2, <1>3, <1>5 DEF PInv

\* The processes after a wakeup.
LEMMA WokenFacts ==
    ASSUME PInv, NEW s \in {"rsleep", "wsleep"}
    PROVE  /\ Woken(s) \in [Proc -> States]
           /\ \A q \in Proc : Woken(s)[q] # s /\ (at[q] # s => Woken(s)[q] = at[q])
           /\ \A q \in Proc : at[q] = s => Woken(s)[q] = "again"
  BY DEF PInv, TypeOK, Woken, States

\* A process in a call has its end open.
LEMMA InCall ==
    ASSUME PInv, NEW p \in Proc, at[p] # "user"
    PROVE  p \in ref /\ (p \in Reader => readopen) /\ (p \in Writer => writeopen)
  BY DEF PInv, Ends

LEMMA SysWriteStep ==
    ASSUME Sizes, Processes, PInv, NEW p \in Writer, NEW s \in Input, sys_write(p, s)
    PROVE  PInv'
<1>1. /\ p \in Proc /\ p \in ref /\ at[p] = "user" /\ at' = [at EXCEPT ![p] = "call"] /\ todo' = [todo EXCEPT ![p] = s]
      /\ UNCHANGED <<data, nread, nwrite, readopen, writeopen, freed, ref, killed>>
  BY DEF sys_write, Proc
<1>2. /\ nread \in Counter /\ nwrite \in Counter /\ Dist(nread, nwrite) <= PIPESIZE
      /\ (nwrite = uint(nread + PIPESIZE) => Dist(nread, nwrite) = PIPESIZE)
  BY UsedFacts DEF PInv, Full
<1>3. s \in Seq(Byte)
  BY DEF Sizes, Processes
<1>4. at' \in [Proc -> States] /\ todo' \in [Proc -> Seq(Byte)]
  BY <1>1, <1>3 DEF PInv, TypeOK, States
<1>5. \A q \in Proc : at'[q] = IF q = p THEN "call" ELSE at[q]
  BY <1>1 DEF PInv, TypeOK
<1> QED
  BY <1>1, <1>2, <1>4, <1>5, CallStep DEF PInv, TypeOK, Ends, SleepersWait, Full, Empty

LEMMA SysReadStep ==
    ASSUME Sizes, Processes, PInv, NEW p \in Reader, NEW n \in ReadSize, sys_read(p, n)
    PROVE  PInv'
<1> DEFINE s == [j \in 1 .. n |-> AnyByte]
<1>1. /\ p \in Proc /\ p \in ref /\ at[p] = "user" /\ at' = [at EXCEPT ![p] = "call"] /\ todo' = [todo EXCEPT ![p] = s]
      /\ UNCHANGED <<data, nread, nwrite, readopen, writeopen, freed, ref, killed>>
  BY DEF sys_read, Proc
<1>2. /\ nread \in Counter /\ nwrite \in Counter /\ Dist(nread, nwrite) <= PIPESIZE
      /\ (nwrite = uint(nread + PIPESIZE) => Dist(nread, nwrite) = PIPESIZE)
  BY UsedFacts DEF PInv, Full
<1>3. s \in Seq(Byte)
  <2>1. AnyByte \in Byte /\ n \in Nat
    BY DEF Sizes, Processes, AnyByte
  <2> QED
    BY <2>1
<1> HIDE DEF s
<1>4. at' \in [Proc -> States] /\ todo' \in [Proc -> Seq(Byte)]
  BY <1>1, <1>3 DEF PInv, TypeOK, States
<1>5. \A q \in Proc : at'[q] = IF q = p THEN "call" ELSE at[q]
  BY <1>1 DEF PInv, TypeOK
<1> QED
  BY <1>1, <1>2, <1>4, <1>5, CallStep DEF PInv, TypeOK, Ends, SleepersWait, Full, Empty

\* What the loop of pipewrite() does to the ring.
LEMMA StoreFacts ==
    ASSUME Sizes, Processes, PInv, NEW p \in Proc, Store(p), nread' = nread
    PROVE  /\ Stored(p) \in 0 .. Len(todo[p]) /\ Used + Stored(p) <= PIPESIZE
           /\ (Stored(p) < Len(todo[p]) => Used + Stored(p) = PIPESIZE)
           /\ data' = Filled(data, nwrite, todo[p], Stored(p)) /\ data' \in [0 .. PIPESIZE - 1 -> Byte]
           /\ nwrite' \in Counter /\ Dist(nread', nwrite') = Used + Stored(p) /\ nread' \in Counter
           /\ (Used = PIPESIZE => nwrite' = nwrite)
<1> DEFINE m == Stored(p)
<1>1. /\ nread \in Counter /\ nwrite \in Counter /\ Used = Dist(nread, nwrite) /\ Used \in Nat /\ Used <= PIPESIZE
      /\ PIPESIZE \in Nat
  BY UsedFacts DEF PInv, Sizes, Processes
<1>2. todo[p] \in Seq(Byte) /\ Len(todo[p]) \in Nat
  BY DEF PInv
<1>3. m = IF Len(todo[p]) <= PIPESIZE - Used THEN Len(todo[p]) ELSE PIPESIZE - Used
  BY DEF Stored, MinOf, Space
<1>4. /\ m \in 0 .. Len(todo[p]) /\ Used + m <= PIPESIZE /\ (m < Len(todo[p]) => Used + m = PIPESIZE)
      /\ (Used = PIPESIZE => m = 0) /\ m \in 0 .. PIPESIZE - Used
  BY <1>1, <1>2, <1>3
<1>5. data' = Filled(data, nwrite, todo[p], m) /\ nwrite' = uint(nwrite + m)
  BY DEF Store, Filled
<1> HIDE DEF m
<1>6. data' \in [0 .. PIPESIZE - 1 -> Byte]
  <2>1. data \in [0 .. PIPESIZE - 1 -> Byte]
    BY DEF PInv, TypeOK
  <2>2. Filled(data, nwrite, todo[p], m) \in [0 .. PIPESIZE - 1 -> Byte]
    BY <1>1, <1>2, <1>4, <2>1, FilledRing
  <2> QED
    BY <1>5, <2>2
<1>7. nwrite' \in Counter /\ Dist(nread, nwrite') = Used + m
  BY <1>1, <1>4, <1>5, DistMoves
<1>8. m = 0 => nwrite' = nwrite
  <2>1. UintMod \in Nat /\ nwrite \in 0 .. 2 * UintMod - 1 /\ nwrite < UintMod
    BY <1>1 DEF Counter, Sizes, Processes
  <2>2. uint(nwrite) = nwrite
    BY <2>1, UintOf
  <2>3. nwrite + 0 = nwrite
    BY <2>1
  <2> QED
    BY <1>5, <2>2, <2>3
<1> QED
  BY <1>1, <1>4, <1>5, <1>6, <1>7, <1>8 DEF m

LEMMA PipewriteStep ==
    ASSUME Sizes, Processes, PInv, NEW p \in Proc, pipewrite(p)
    PROVE  PInv'
<1>1. /\ p \in Writer /\ Busy(p) /\ Store(p) /\ at' = [Woken("rsleep") EXCEPT ![p] = "user"]
      /\ todo' = [todo EXCEPT ![p] = <<>>] /\ UNCHANGED <<nread, readopen, writeopen, freed, ref, killed>>
  BY DEF pipewrite
<1>2. /\ data' \in [0 .. PIPESIZE - 1 -> Byte] /\ nwrite' \in Counter /\ nread' \in Counter
      /\ Dist(nread', nwrite') <= PIPESIZE /\ (Used = PIPESIZE => nwrite' = nwrite)
  BY <1>1, StoreFacts
<1>3. at' \in [Proc -> States] /\ todo' \in [Proc -> Seq(Byte)]
  BY <1>1, WokenFacts DEF PInv, States
<1>4. \A q \in Proc : at'[q] # "rsleep" /\ (q \notin ref => at'[q] = "user") /\ (at'[q] = "wsleep" => at[q] = "wsleep")
  BY <1>1, WokenFacts DEF PInv, Ends
<1>5. \A q \in Proc : at'[q] = "wsleep" => Dist(nread', nwrite') = PIPESIZE
  <2>1. \A q \in Proc : at[q] = "wsleep" => Used = PIPESIZE
    BY UsedFacts DEF PInv, SleepersWait
  <2>2. Used = PIPESIZE => Dist(nread', nwrite') = PIPESIZE
    BY <1>1, <1>2, UsedFacts DEF PInv
  <2> QED
    BY <1>4, <2>1, <2>2
<1> QED
  BY <1>1, <1>2, <1>3, <1>4, <1>5, CallStep DEF PInv, TypeOK, Ends, SleepersWait

LEMMA WriteFailsStep ==
    ASSUME Sizes, Processes, PInv, NEW p \in Proc, WriteFails(p)
    PROVE  PInv'
<1>1. /\ p \in Writer /\ Busy(p) /\ Hangup(p) /\ Store(p) /\ at' = [at EXCEPT ![p] = "user"]
      /\ todo' = [todo EXCEPT ![p] = <<>>] /\ UNCHANGED <<nread, readopen, writeopen, freed, ref, killed>>
  BY DEF WriteFails
<1>2. /\ data' \in [0 .. PIPESIZE - 1 -> Byte] /\ nwrite' \in Counter /\ nread' \in Counter
      /\ Dist(nread', nwrite') <= PIPESIZE /\ (Used = PIPESIZE => nwrite' = nwrite)
  BY <1>1, StoreFacts
<1>3. at' \in [Proc -> States] /\ todo' \in [Proc -> Seq(Byte)]
  BY <1>1 DEF PInv, TypeOK, States
<1>4. \A q \in Proc : at'[q] = IF q = p THEN "user" ELSE at[q]
  BY <1>1 DEF PInv, TypeOK
<1>5. \A q \in Proc : at'[q] = "wsleep" => Dist(nread', nwrite') = PIPESIZE
  <2>1. \A q \in Proc : at[q] = "wsleep" => Used = PIPESIZE
    BY UsedFacts DEF PInv, SleepersWait
  <2>2. Used = PIPESIZE => Dist(nread', nwrite') = PIPESIZE
    BY <1>1, <1>2, UsedFacts DEF PInv
  <2> QED
    BY <1>4, <2>1, <2>2
<1>6. \A q \in Proc : at[q] = "rsleep" => killed \cap Writer # {}
  <2>1. CASE ~readopen
    BY <2>1 DEF PInv, Ends
  <2>2. CASE p \in killed
    BY <1>1, <2>2
  <2> QED
    BY <1>1, <2>1, <2>2 DEF Hangup
<1> QED
  BY <1>1, <1>2, <1>3, <1>4, <1>5, <1>6, CallStep DEF PInv, TypeOK, Ends, SleepersWait

LEMMA WriteSleepsStep ==
    ASSUME Sizes, Processes, PInv, NEW p \in Proc, WriteSleeps(p)
    PROVE  PInv'
<1>1. /\ p \in Writer /\ Busy(p) /\ Stored(p) < Len(todo[p]) /\ ~Hangup(p) /\ Store(p)
      /\ at' = [Woken("rsleep") EXCEPT ![p] = "wsleep"]
      /\ todo' = [todo EXCEPT ![p] = SubSeq(todo[p], Stored(p) + 1, Len(todo[p]))]
      /\ UNCHANGED <<nread, readopen, writeopen, freed, ref, killed>>
  BY DEF WriteSleeps, FullWoken
<1>2. /\ data' \in [0 .. PIPESIZE - 1 -> Byte] /\ nwrite' \in Counter /\ nread' \in Counter
      /\ Dist(nread', nwrite') = PIPESIZE /\ PIPESIZE \in Nat /\ Stored(p) \in 0 .. Len(todo[p])
  BY <1>1, StoreFacts DEF Sizes, Processes
<1>3. SubSeq(todo[p], Stored(p) + 1, Len(todo[p])) \in Seq(Byte)
  <2>1. todo[p] \in Seq(Byte) /\ Len(todo[p]) \in Nat
    BY DEF PInv
  <2>2. Stored(p) + 1 \in 1 .. Len(todo[p]) + 1
    BY <1>2, <2>1
  <2> QED
    BY <2>1, <2>2, SubSeqProperties
<1>4. at' \in [Proc -> States] /\ todo' \in [Proc -> Seq(Byte)]
  BY <1>1, <1>3, WokenFacts DEF PInv, States
<1>5. \A q \in Proc : at'[q] # "rsleep" /\ (q # p /\ q \notin ref => at'[q] = "user")
                      /\ (q # p /\ at'[q] = "wsleep" => at[q] = "wsleep")
  BY <1>1, WokenFacts DEF PInv, Ends
<1>6. p \in ref /\ readopen /\ p \notin killed
  BY <1>1, InCall DEF Busy, Hangup
<1>7. \A q \in Proc : q \notin ref => at'[q] = "user"
  BY <1>5, <1>6
<1>8. \A q \in Proc : at'[q] = "wsleep" => q \in Writer /\ readopen /\ q \notin killed'
  <2> SUFFICES ASSUME NEW q \in Proc, at'[q] = "wsleep" PROVE q \in Writer /\ q \notin killed
    BY <1>1, <1>6
  <2>1. CASE q = p
    BY <1>1, <1>6, <2>1
  <2>2. CASE q # p
    BY <1>5, <2>2 DEF PInv, Ends, SleepersWait
  <2> QED
    BY <2>1, <2>2
<1>9. UNCHANGED <<readopen, writeopen, freed, ref>> /\ killed' \subseteq Proc /\ Dist(nread', nwrite') <= PIPESIZE
  BY <1>1, <1>2 DEF PInv, TypeOK
<1> QED
  BY <1>2, <1>4, <1>5, <1>7, <1>8, <1>9, CallStep

LEMMA ReadSleepsStep ==
    ASSUME Sizes, Processes, PInv, NEW p \in Proc, ReadSleeps(p)
    PROVE  PInv'
<1>1. /\ p \in Reader /\ Busy(p) /\ Empty /\ writeopen /\ p \notin killed /\ at' = [at EXCEPT ![p] = "rsleep"]
      /\ UNCHANGED <<data, nread, nwrite, readopen, writeopen, freed, ref, todo, killed>>
  BY DEF ReadSleeps
<1>2. /\ nread \in Counter /\ nwrite \in Counter /\ Dist(nread, nwrite) <= PIPESIZE
      /\ (nwrite = uint(nread + PIPESIZE) => Dist(nread, nwrite) = PIPESIZE)
  BY UsedFacts DEF PInv, Full
<1>3. at' \in [Proc -> States]
  BY <1>1 DEF PInv, TypeOK, States
<1>4. \A q \in Proc : at'[q] = IF q = p THEN "rsleep" ELSE at[q]
  BY <1>1 DEF PInv, TypeOK
<1>5. p \in ref
  BY <1>1, InCall DEF Busy
<1> QED
  BY <1>1, <1>2, <1>3, <1>4, <1>5, CallStep DEF PInv, TypeOK, Ends, SleepersWait, Full, Empty

LEMMA ReadFailsStep ==
    ASSUME Sizes, Processes, PInv, NEW p \in Proc, ReadFails(p)
    PROVE  PInv'
<1>1. /\ at' = [at EXCEPT ![p] = "user"] /\ todo' = [todo EXCEPT ![p] = <<>>]
      /\ UNCHANGED <<data, nread, nwrite, readopen, writeopen, freed, ref, killed>>
  BY DEF ReadFails
<1>2. /\ nread \in Counter /\ nwrite \in Counter /\ Dist(nread, nwrite) <= PIPESIZE
      /\ (nwrite = uint(nread + PIPESIZE) => Dist(nread, nwrite) = PIPESIZE)
  BY UsedFacts DEF PInv, Full
<1>3. at' \in [Proc -> States] /\ todo' \in [Proc -> Seq(Byte)]
  BY <1>1 DEF PInv, TypeOK, States
<1>4. \A q \in Proc : at'[q] = IF q = p THEN "user" ELSE at[q]
  BY <1>1 DEF PInv, TypeOK
<1> QED
  BY <1>1, <1>2, <1>3, <1>4, CallStep DEF PInv, TypeOK, Ends, SleepersWait, Full, Empty

\* What piperead() does to the counters.
LEMMA TakeFacts ==
    ASSUME Sizes, Processes, PInv, NEW p \in Proc, piperead(p)
    PROVE  LET n == MinOf(Len(todo[p]), Used) IN
           /\ n \in 0 .. Used /\ nread' = uint(nread + n) /\ nread' \in Counter
           /\ Dist(nread', nwrite) = Used - n
<1>1. nread \in Counter /\ nwrite \in Counter /\ Used = Dist(nread, nwrite) /\ Used \in Nat /\ Used <= PIPESIZE
  BY UsedFacts DEF PInv
<1>2. Len(todo[p]) \in Nat
  BY DEF PInv
<1>3. MinOf(Len(todo[p]), Used) \in 0 .. Used
  BY <1>1, <1>2 DEF MinOf
<1> DEFINE n == MinOf(Len(todo[p]), Used)
<1>4. nread' = uint(nread + n)
  BY DEF piperead
<1> HIDE DEF n
<1>5. nread' \in Counter /\ Dist(nread', nwrite) = Used - n
  BY <1>1, <1>3, <1>4, DistMoves DEF n
<1> QED
  BY <1>3, <1>4, <1>5 DEF n

LEMMA PipereadStep ==
    ASSUME Sizes, Processes, PInv, NEW p \in Proc, piperead(p)
    PROVE  PInv'
<1>1. /\ p \in Reader /\ Busy(p) /\ ~(Empty /\ writeopen) /\ at' = [Woken("wsleep") EXCEPT ![p] = "user"]
      /\ todo' = [todo EXCEPT ![p] = <<>>] /\ UNCHANGED <<data, nwrite, readopen, writeopen, freed, ref, killed>>
  BY DEF piperead
<1>2. nread' \in Counter /\ nwrite \in Counter /\ Dist(nread', nwrite) <= PIPESIZE
  <2>1. Used \in Nat /\ Used <= PIPESIZE /\ PIPESIZE \in Nat /\ nwrite \in Counter
    BY UsedFacts DEF PInv, Sizes, Processes
  <2> DEFINE n == MinOf(Len(todo[p]), Used)
  <2>2. n \in 0 .. Used /\ nread' \in Counter /\ Dist(nread', nwrite) = Used - n
    BY TakeFacts
  <2> HIDE DEF n
  <2> QED
    BY <2>1, <2>2
<1>3. at' \in [Proc -> States] /\ todo' \in [Proc -> Seq(Byte)]
  BY <1>1, WokenFacts DEF PInv, States
<1>4. \A q \in Proc : at'[q] # "wsleep" /\ (q \notin ref => at'[q] = "user") /\ (at'[q] = "rsleep" => at[q] = "rsleep")
  BY <1>1, WokenFacts DEF PInv, Ends
<1>5. \A q \in Proc : at[q] = "rsleep" => killed \cap Writer # {}
  BY <1>1 DEF PInv, SleepersWait
<1> QED
  BY <1>1, <1>2, <1>3, <1>4, <1>5, CallStep DEF PInv, TypeOK, Ends, SleepersWait

LEMMA KillStep ==
    ASSUME Sizes, Processes, PInv, NEW p \in Proc, kill(p)
    PROVE  PInv'
<1>1. /\ p \in ref /\ killed' = killed \cup {p}
      /\ at' = [at EXCEPT ![p] = IF at[p] \in {"rsleep", "wsleep"} THEN "again" ELSE at[p]]
      /\ UNCHANGED <<data, nread, nwrite, readopen, writeopen, freed, ref, todo>>
  BY DEF kill
<1>2. /\ nread \in Counter /\ nwrite \in Counter /\ Dist(nread, nwrite) <= PIPESIZE
      /\ (nwrite = uint(nread + PIPESIZE) => Dist(nread, nwrite) = PIPESIZE)
  BY UsedFacts DEF PInv, Full
<1>3. at' \in [Proc -> States] /\ killed' \subseteq Proc
  BY <1>1 DEF PInv, TypeOK, States
<1>4. \A q \in Proc : at'[q] = IF q = p THEN (IF at[p] \in {"rsleep", "wsleep"} THEN "again" ELSE at[p]) ELSE at[q]
  BY <1>1 DEF PInv, TypeOK
<1>5. at'[p] # "rsleep" /\ at'[p] # "wsleep"
  BY <1>4
<1> QED
  BY <1>1, <1>2, <1>3, <1>4, <1>5, CallStep DEF PInv, TypeOK, Ends, SleepersWait, Full, Empty

LEMMA PipecloseStep ==
    ASSUME Sizes, Processes, PInv, NEW p \in Proc, pipeclose(p)
    PROVE  PInv'
<1> DEFINE writable == p \in Writer
           last == ref' \cap (IF writable THEN Writer ELSE Reader) = {}
<1>1. /\ p \in ref /\ at[p] = "user" /\ ref' = ref \ {p}
      /\ writeopen' = (writeopen /\ ~(last /\ writable))
      /\ readopen' = (readopen /\ ~(last /\ ~writable))
      /\ at' = (IF last THEN Woken(Wakes(writable)) ELSE at)
      /\ freed' = (IF last /\ Frees(readopen', writeopen') THEN freed + 1 ELSE freed)
      /\ UNCHANGED <<data, nread, nwrite, todo, killed>>
  BY DEF pipeclose
<1>2. (writable <=> p \in Writer) /\ (~writable <=> p \in Reader) /\ ref \subseteq Proc
  BY DEF Sizes, Processes, Proc, PInv, TypeOK
<1> DEFINE R == ref' \cap Reader # {}
           W == ref' \cap Writer # {}
<1>3. (R \/ W <=> ref' # {}) /\ (writable => (last <=> ~W)) /\ (~writable => (last <=> ~R))
  BY <1>1, <1>2 DEF Proc
<1>4. (writable => (R <=> ref \cap Reader # {})) /\ (~writable => (W <=> ref \cap Writer # {}))
  BY <1>1, <1>2 DEF Sizes, Processes
<1>5. (R => ref \cap Reader # {}) /\ (W => ref \cap Writer # {})
  BY <1>1
<1>6. (readopen <=> ref \cap Reader # {}) /\ (writeopen <=> ref \cap Writer # {}) /\ freed = 0
  BY <1>1 DEF PInv, Ends
<1> HIDE DEF writable, last, R, W
<1>7. (readopen' <=> R) /\ (writeopen' <=> W) /\ readopen' \in BOOLEAN /\ writeopen' \in BOOLEAN
  <2>1. (readopen' <=> R) /\ (writeopen' <=> W)
    BY <1>1, <1>3, <1>4, <1>5, <1>6, Zenon
  <2>2. readopen' \in BOOLEAN /\ writeopen' \in BOOLEAN
    BY <1>1, Zenon
  <2> QED
    BY <2>1, <2>2
<1>8. freed' = IF ref' = {} THEN 1 ELSE 0
  <2>1. CASE ref' = {}
    <3>1. ~R /\ ~W /\ last
      BY <1>3, <2>1
    <3>2. Frees(readopen', writeopen')
      BY <1>7, <3>1, Zenon DEF Frees
    <3>3. freed' = freed + 1
      BY <1>1, <3>1, <3>2, Zenon
    <3> QED
      BY <1>6, <2>1, <3>3
  <2>2. CASE ref' # {}
    <3>1. ~(last /\ Frees(readopen', writeopen'))
      BY <1>3, <1>7, <2>2, Zenon DEF Frees
    <3>2. freed' = freed
      BY <1>1, <3>1, Zenon
    <3> QED
      BY <1>6, <2>2, <3>2
  <2> QED
    BY <2>1, <2>2
<1>9. Wakes(writable) \in {"rsleep", "wsleep"} /\ (writable => Wakes(writable) = "rsleep") /\ (~writable => Wakes(writable) = "wsleep")
  BY Zenon DEF Wakes
<1>10. /\ at' \in [Proc -> States] /\ \A q \in Proc : at'[q] \in {"rsleep", "wsleep", "user"} => at'[q] = at[q]
       /\ \A q \in Proc : at[q] = "user" => at'[q] = "user"
       /\ last => \A q \in Proc : at'[q] # Wakes(writable)
  <2>1. CASE last
    <3>1. at' = Woken(Wakes(writable))
      BY <1>1, <2>1, Zenon
    <3> DEFINE s == Wakes(writable)
    <3> HIDE DEF s
    <3>2. s \in {"rsleep", "wsleep"} /\ at' = Woken(s)
      BY <1>9, <3>1 DEF s
    <3>3. /\ Woken(s) \in [Proc -> States]
          /\ \A q \in Proc : Woken(s)[q] # s /\ (at[q] # s => Woken(s)[q] = at[q])
          /\ \A q \in Proc : at[q] = s => Woken(s)[q] = "again"
      BY <3>2, WokenFacts
    <3>4. at' \in [Proc -> States] /\ \A q \in Proc : at'[q] # s
      BY <3>2, <3>3
    <3>5. ASSUME NEW q \in Proc
          PROVE  /\ at'[q] \in {"rsleep", "wsleep", "user"} => at'[q] = at[q]
                 /\ at[q] = "user" => at'[q] = "user"
      BY <3>2, <3>3
    <3> QED
      BY <3>4, <3>5 DEF s
  <2>2. CASE ~last
    <3>1. at' = at
      BY <1>1, <2>2, Zenon
    <3> QED
      BY <2>2, <3>1 DEF PInv, TypeOK, States
  <2> QED
    BY <2>1, <2>2
<1>11. TypeOK' /\ todo' \in [Proc -> Seq(Byte)] /\ Used' <= PIPESIZE
  <2>1. freed' \in 0 .. 1
    BY <1>8
  <2>2. Used' = Used
    BY <1>1 DEF Used
  <2>3. ref' \subseteq Proc
    BY <1>1, <1>2
  <2> QED
    BY <1>1, <1>7, <1>10, <2>1, <2>2, <2>3 DEF PInv, TypeOK, States
<1>12. Ends'
  <2>1. \A q \in Proc : q \notin ref' => at'[q] = "user"
    <3> SUFFICES ASSUME NEW q \in Proc, q \notin ref' PROVE at[q] = "user"
      BY <1>10
    <3> QED
      BY <1>1 DEF PInv, Ends
  <2>2. \A q \in Proc : (at'[q] = "rsleep" => q \in Reader) /\ (at'[q] = "wsleep" => q \in Writer)
    BY <1>10 DEF PInv, Ends
  <2> QED
    BY <1>7, <1>8, <2>1, <2>2 DEF Ends, R, W
<1>13. SleepersWait'
  <2>1. ASSUME NEW q \in Proc, at'[q] = "rsleep"
        PROVE  (Empty' \/ killed' \cap Writer # {}) /\ writeopen' /\ q \notin killed'
    <3>1. at[q] = "rsleep" /\ (Empty \/ killed \cap Writer # {}) /\ writeopen /\ q \notin killed
      BY <1>10, <2>1 DEF PInv, SleepersWait
    <3>2. W
      <4>1. CASE writable
        <5>1. ~last
          BY <1>9, <1>10, <2>1, <4>1
        <5> QED
          BY <1>3, <4>1, <5>1, Zenon
      <4>2. CASE ~writable
        BY <1>4, <1>6, <3>1, <4>2, Zenon
      <4> QED
        BY <4>1, <4>2
    <3>3. Empty' <=> Empty
      BY <1>1 DEF Empty
    <3> QED
      BY <1>1, <1>7, <3>1, <3>2, <3>3
  <2>2. ASSUME NEW q \in Proc, at'[q] = "wsleep"
        PROVE  Full' /\ readopen' /\ q \notin killed'
    <3>1. at[q] = "wsleep" /\ Full /\ readopen /\ q \notin killed
      BY <1>10, <2>2 DEF PInv, SleepersWait
    <3>2. R
      <4>1. CASE ~writable
        <5>1. ~last
          BY <1>9, <1>10, <2>2, <4>1
        <5> QED
          BY <1>3, <4>1, <5>1, Zenon
      <4>2. CASE writable
        BY <1>4, <1>6, <3>1, <4>2, Zenon
      <4> QED
        BY <4>1, <4>2
    <3>3. Full' <=> Full
      BY <1>1 DEF Full
    <3> QED
      BY <1>1, <1>7, <3>1, <3>2, <3>3
  <2> QED
    BY <2>1, <2>2 DEF SleepersWait
<1> QED
  BY <1>11, <1>12, <1>13 DEF PInv

-------------------------------------------------------------------------------
(* Theorems *)

LEMMA InitInv ==
    ASSUME Sizes, Processes, Init
    PROVE  PInv
<1>1. UintMod \in Nat \ {0} /\ PIPESIZE \in Nat \ {0} /\ AnyByte \in Byte
  BY DEF Sizes, Processes, AnyByte
<1>2. 0 \in Counter
  BY <1>1 DEF Counter
<1>3. Dist(0, 0) = 0
  BY <1>2, DistEnds
<1>4. Used = 0
  BY <1>3 DEF Used, Dist, Init
<1>5. TypeOK /\ todo \in [Proc -> Seq(Byte)]
  <2>1. data \in [0 .. PIPESIZE - 1 -> Byte] /\ nread \in 0 .. UintMod - 1 /\ nwrite \in 0 .. UintMod - 1 /\ freed \in 0 .. 1
    BY <1>1 DEF Init
  <2>2. readopen \in BOOLEAN /\ writeopen \in BOOLEAN
    BY Zenon DEF Init
  <2>3. ref \subseteq Proc /\ killed \subseteq Proc /\ at \in [Proc -> {"user", "call", "again", "rsleep", "wsleep"}]
        /\ todo \in [Proc -> Seq(Byte)]
    BY DEF Init
  <2> QED
    BY <2>1, <2>2, <2>3 DEF TypeOK
<1>6. Ends
  <2>1. ref \cap Reader # {} /\ ref \cap Writer # {} /\ ref # {}
    BY DEF Init, Sizes, Processes, Proc
  <2>2. readopen /\ writeopen
    BY Zenon DEF Init
  <2>3. (readopen <=> ref \cap Reader # {}) /\ (writeopen <=> ref \cap Writer # {})
    BY <2>1, <2>2, Zenon
  <2> QED
    BY <2>1, <2>3 DEF Ends, Init
<1>7. SleepersWait
  BY DEF SleepersWait, Init
<1> QED
  BY <1>1, <1>4, <1>5, <1>6, <1>7 DEF PInv

LEMMA NextInv ==
    ASSUME Sizes, Processes, PInv, [Next]_vars
    PROVE  PInv'
<1>1. CASE UNCHANGED vars
  BY <1>1 DEF vars, PInv, TypeOK, Ends, SleepersWait, Used, Full, Empty
<1>2. ASSUME NEW p \in Proc, Run(p) \/ pipeclose(p) \/ kill(p) PROVE PInv'
  BY <1>2, PipewriteStep, WriteFailsStep, WriteSleepsStep, ReadSleepsStep, ReadFailsStep, PipereadStep,
     PipecloseStep, KillStep DEF Run
<1>3. ASSUME NEW p \in Writer, NEW s \in Input, sys_write(p, s) PROVE PInv'
  BY <1>3, SysWriteStep
<1>4. ASSUME NEW p \in Reader, NEW n \in ReadSize, sys_read(p, n) PROVE PInv'
  BY <1>4, SysReadStep
<1> QED
  BY <1>1, <1>2, <1>3, <1>4 DEF Next

\* The inductive invariant: an end is open exactly while a process has it, and no more
\* bytes are in the ring than it has room for.
THEOREM InvariantHolds ==
    ASSUME Sizes, Processes PROVE Spec => []PInv
<1>1. Init => PInv
  BY InitInv
<1>2. PInv /\ [Next]_vars => PInv'
  BY NextInv
<1> QED
  BY <1>1, <1>2, PTL DEF Spec

\* The counters stay in their range and the bytes in theirs; the page is freed at most once.
THEOREM TypeCorrect ==
    ASSUME Sizes, Processes PROVE Spec => []TypeOK
<1>1. PInv => TypeOK
  BY DEF PInv
<1> QED
  BY <1>1, InvariantHolds, PTL

\* sleep() and wakeup() of pipe.c: with any number of readers and writers nobody sleeps on a pipe
\* that he could use, the readers beside a killed writer excepted, or on one that nobody can use; the
\* page is freed once, by the last pipeclose(), when nobody is in a call.
THEOREM SleepersWaitHolds ==
    ASSUME Sizes, Processes PROVE Spec => [](SleepersWait /\ FreedAtTheEnd)
<1>1. PInv => SleepersWait /\ FreedAtTheEnd
  <2> SUFFICES ASSUME PInv PROVE FreedAtTheEnd
    BY DEF PInv
  <2>1. freed = (IF ref = {} THEN 1 ELSE 0) /\ \A p \in Proc : p \notin ref => at[p] = "user"
    BY DEF PInv, Ends
  <2> QED
    BY <2>1 DEF FreedAtTheEnd
<1> QED
  BY <1>1, InvariantHolds, PTL

-------------------------------------------------------------------------------
(* The ring is the queue of Channel *)

\* The u bytes in the ring from counter a on.
Ring(D, a, u) == [j \in 1 .. u |-> D[Slot(a + j - 1)]]

LEMMA RingSeq ==
    ASSUME Sizes, NEW D \in [0 .. PIPESIZE - 1 -> Byte], NEW a \in Counter, NEW u \in 0 .. PIPESIZE
    PROVE  /\ Ring(D, a, u) \in Seq(Byte) /\ Len(Ring(D, a, u)) = u
           /\ \A j \in 1 .. u : Ring(D, a, u)[j] = D[Slot(a + j - 1)] /\ D[Slot(a + j - 1)] \in Byte
<1>1. UintMod \in Nat /\ PIPESIZE \in Nat \ {0} /\ PIPESIZE < UintMod /\ u \in Nat
  BY DEF Sizes
<1>2. \A j \in 1 .. u : Slot(a + j - 1) \in 0 .. PIPESIZE - 1
  <2> SUFFICES ASSUME NEW j \in 1 .. u PROVE Slot(a + j - 1) \in 0 .. PIPESIZE - 1
    OBVIOUS
  <2> DEFINE n == a + j - 1
  <2>1. n \in 0 .. 2 * UintMod - 1
    BY <1>1 DEF Counter
  <2> HIDE DEF n
  <2>2. Slot(n) \in 0 .. PIPESIZE - 1
    BY <2>1, SlotOf
  <2> QED
    BY <2>2 DEF n
<1>3. \A j \in 1 .. u : D[Slot(a + j - 1)] \in Byte
  BY <1>2
<1> QED
  BY <1>1, <1>3 DEF Ring

\* pipewrite() puts its bytes at the end of the queue.
LEMMA RingPut ==
    ASSUME Sizes, NEW a \in Counter, NEW b \in Counter, NEW s \in Seq(Byte), NEW m \in 0 .. Len(s),
           Dist(a, b) + m <= PIPESIZE, NEW D \in [0 .. PIPESIZE - 1 -> Byte]
    PROVE  Ring(Filled(D, b, s, m), a, Dist(a, b) + m) = Ring(D, a, Dist(a, b)) \o SubSeq(s, 1, m)
<1> DEFINE d == Dist(a, b)
           F == Filled(D, b, s, m)
           t == SubSeq(s, 1, m)
           Q == Ring(D, a, d)
           Z == Ring(F, a, d + m)
<1>1. d \in Nat /\ m \in Nat /\ PIPESIZE \in Nat /\ Len(s) \in Nat /\ a \in Nat
  BY DistOf DEF Counter, Sizes
<1>2. /\ F \in [0 .. PIPESIZE - 1 -> Byte]
      /\ \A j \in 1 .. d : F[Slot(a + j - 1)] = D[Slot(a + j - 1)]
      /\ \A j \in 1 .. m : F[Slot(a + d + j - 1)] = s[j]
  BY FilledRing, ZenonT(40)
<1>3. t \in Seq(Byte) /\ Len(t) = m /\ \A j \in 1 .. m : t[j] = s[j]
  <2>1. 1 \in Int /\ m \in Int /\ \A i \in 1 .. m : s[i] \in Byte
    BY <1>1
  <2>2. /\ SubSeq(s, 1, m) \in Seq(Byte)
        /\ Len(SubSeq(s, 1, m)) = (IF 1 <= m THEN m - 1 + 1 ELSE 0)
        /\ \A i \in 1 .. m - 1 + 1 : SubSeq(s, 1, m)[i] = s[1 + i - 1]
    BY <2>1, SubSeqProperties
  <2> HIDE DEF t
  <2>3. t \in Seq(Byte) /\ Len(t) = m
    BY <1>1, <2>2 DEF t
  <2>4. ASSUME NEW j \in 1 .. m PROVE t[j] = s[j]
    <3>1. j \in 1 .. m - 1 + 1 /\ 1 + j - 1 = j
      BY <1>1
    <3> QED
      BY <2>2, <3>1 DEF t
  <2> QED
    BY <2>3, <2>4
<1> HIDE DEF d, F, t
<1>4. d \in 0 .. PIPESIZE /\ d + m \in 0 .. PIPESIZE
  BY <1>1 DEF d
<1>5. Q \in Seq(Byte) /\ Len(Q) = d /\ \A j \in 1 .. d : Q[j] = D[Slot(a + j - 1)]
  BY <1>4, RingSeq
<1>6. Z \in Seq(Byte) /\ Len(Z) = d + m /\ \A j \in 1 .. d + m : Z[j] = F[Slot(a + j - 1)]
  BY <1>2, <1>4, RingSeq
<1> HIDE DEF Q, Z
<1>7. /\ Q \o t \in Seq(Byte) /\ Len(Q \o t) = d + m
      /\ \A i \in 1 .. d + m : (Q \o t)[i] = IF i <= d THEN Q[i] ELSE t[i - d]
  BY <1>3, <1>5, ConcatProperties
<1>8. ASSUME NEW i \in 1 .. d + m PROVE Z[i] = (Q \o t)[i]
  <2>1. CASE i <= d
    <3>1. i \in 1 .. d
      BY <1>1, <2>1
    <3> QED
      BY <1>2, <1>5, <1>6, <1>7, <2>1, <3>1
  <2>2. CASE ~(i <= d)
    <3>1. i - d \in 1 .. m /\ a + d + (i - d) - 1 = a + i - 1
      BY <1>1, <2>2
    <3>2. (Q \o t)[i] = s[i - d]
      BY <1>3, <1>7, <2>2, <3>1
    <3>3. F[Slot(a + d + (i - d) - 1)] = s[i - d]
      BY <1>2, <3>1
    <3>4. Z[i] = F[Slot(a + i - 1)]
      BY <1>6
    <3> QED
      BY <3>1, <3>2, <3>3, <3>4
  <2> QED
    BY <2>1, <2>2
<1>9. Z = Q \o t
  BY <1>6, <1>7, <1>8, SeqEqual
<1> QED
  BY <1>9 DEF Z, Q, t, F, d

\* piperead() takes its bytes from the head of the queue.
LEMMA RingGet ==
    ASSUME Sizes, NEW a \in Counter, NEW u \in 0 .. PIPESIZE, NEW n \in 0 .. u, NEW D \in [0 .. PIPESIZE - 1 -> Byte],
           uint(a + n) \in Counter
    PROVE  Ring(D, uint(a + n), u - n) = SubSeq(Ring(D, a, u), n + 1, u)
<1> DEFINE c == uint(a + n)
           Q == Ring(D, a, u)
           Z == Ring(D, c, u - n)
           t == SubSeq(Q, n + 1, u)
<1>1. u \in Nat /\ n \in Nat /\ PIPESIZE \in Nat /\ a \in Nat /\ UintMod \in Nat /\ PIPESIZE < UintMod
      /\ u - n \in 0 .. PIPESIZE
  BY DEF Counter, Sizes
<1>2. Q \in Seq(Byte) /\ Len(Q) = u /\ \A j \in 1 .. u : Q[j] = D[Slot(a + j - 1)]
  BY RingSeq
<1> HIDE DEF c
<1>3. Z \in Seq(Byte) /\ Len(Z) = u - n /\ \A j \in 1 .. u - n : Z[j] = D[Slot(c + j - 1)]
  BY <1>1, RingSeq DEF c
<1> HIDE DEF Q, Z
<1>4. /\ t \in Seq(Byte) /\ Len(t) = (IF n + 1 <= u THEN u - (n + 1) + 1 ELSE 0)
      /\ \A i \in 1 .. u - (n + 1) + 1 : t[i] = Q[(n + 1) + i - 1]
  <2>1. n + 1 \in Int /\ u \in Int /\ \A i \in n + 1 .. u : Q[i] \in Byte
    BY <1>1, <1>2
  <2> QED
    BY <2>1, SubSeqProperties
<1> HIDE DEF t
<1>5. ASSUME NEW i \in 1 .. u - n PROVE Z[i] = t[i]
  <2>1. i \in 1 .. u - (n + 1) + 1 /\ (n + 1) + i - 1 = n + i /\ n + i \in 1 .. u
    BY <1>1
  <2>2. t[i] = D[Slot(a + (n + i) - 1)]
    BY <1>2, <1>4, <2>1
  <2>3. Slot(c + i - 1) = Slot(a + (n + i) - 1)
    <3>1. a + n \in Nat /\ i - 1 \in Nat /\ (a + n) + (i - 1) < 2 * UintMod
      BY <1>1 DEF Counter
    <3>2. uint(uint(a + n) + (i - 1)) = uint((a + n) + (i - 1))
      BY <3>1, UintPlus
    <3>3. c + i - 1 = c + (i - 1) /\ a + (n + i) - 1 = (a + n) + (i - 1)
      BY <1>1 DEF Counter, c
    <3> QED
      BY <3>2, <3>3 DEF Slot, c
  <2> QED
    BY <1>3, <2>2, <2>3
<1>6. Z = t
  <2>1. Len(t) = u - n
    BY <1>1, <1>4
  <2> QED
    BY <1>3, <1>4, <1>5, <2>1, SeqEqual
<1> QED
  BY <1>6 DEF Z, t, Q, c

\* The queue of a state.
LEMMA QueueOf ==
    ASSUME Sizes, Processes, PInv
    PROVE  Queue = Ring(data, nread, Used) /\ Queue \in Seq(Byte) /\ Len(Queue) = Used /\ Used \in 0 .. PIPESIZE
<1>1. Used \in 0 .. PIPESIZE /\ nread \in Counter
  BY UsedFacts DEF PInv, Sizes, Processes
<1>2. Queue = Ring(data, nread, Used)
  BY DEF Queue, Ring, Slot
<1> QED
  BY <1>1, <1>2, RingSeq DEF PInv, TypeOK

\* The queue of the next state.
LEMMA NextQueue == Queue' = Ring(data', nread', Used') /\ Used' = Dist(nread', nwrite')
  BY DEF Queue, Ring, Slot, Used, Dist

\* A step of a writer puts what it stores, or nothing.
LEMMA StoreRefines ==
    ASSUME Sizes, Processes, PInv, NEW p \in Proc, p \in Writer, Busy(p), Store(p), UNCHANGED <<nread, readopen, writeopen>>
    PROVE  [Fifo!Next]_(Fifo!absVars)
<1> DEFINE m == Stored(p)
           s == SubSeq(todo[p], 1, m)
<1>1. /\ m \in 0 .. Len(todo[p]) /\ Used + m <= PIPESIZE /\ data' = Filled(data, nwrite, todo[p], m)
      /\ nwrite' \in Counter /\ Dist(nread', nwrite') = Used + m
  BY StoreFacts
<1>2. /\ nread \in Counter /\ nwrite \in Counter /\ Used = Dist(nread, nwrite) /\ Used \in Nat /\ PIPESIZE \in Nat
      /\ todo[p] \in Seq(Byte) /\ Len(todo[p]) \in Nat /\ data \in [0 .. PIPESIZE - 1 -> Byte]
  <2>1. nread \in Counter /\ nwrite \in Counter /\ Used = Dist(nread, nwrite) /\ Used \in Nat
    BY UsedFacts DEF PInv
  <2>2. todo[p] \in Seq(Byte) /\ Len(todo[p]) \in Nat
    BY DEF PInv
  <2> QED
    BY <2>1, <2>2 DEF PInv, TypeOK, Sizes, Processes
<1> HIDE DEF m
<1>3. Queue' = Queue \o s
  <2>1. Ring(Filled(data, nwrite, todo[p], m), nread, Dist(nread, nwrite) + m)
          = Ring(data, nread, Dist(nread, nwrite)) \o SubSeq(todo[p], 1, m)
    BY <1>1, <1>2, RingPut
  <2>2. Queue' = Ring(data', nread, Dist(nread, nwrite) + m)
    BY <1>1, <1>2, NextQueue
  <2>3. Queue = Ring(data, nread, Dist(nread, nwrite))
    BY <1>2, QueueOf
  <2> QED
    BY <1>1, <2>1, <2>2, <2>3
<1>4. s \in Seq(Byte) /\ Len(s) = m /\ m \in Nat
  <2>1. m \in Int /\ m \in Nat /\ \A i \in 1 .. m : todo[p][i] \in Byte
    BY <1>1, <1>2
  <2>2. s \in Seq(Byte) /\ Len(s) = (IF 1 <= m THEN m - 1 + 1 ELSE 0)
    BY <2>1, SubSeqProperties
  <2> HIDE DEF s
  <2> QED
    BY <2>1, <2>2
<1> HIDE DEF s
<1>5. Queue \in Seq(Byte) /\ Len(Queue) = Used
  BY QueueOf
<1>6. CASE m = 0
  <2>1. s = << >>
    BY <1>4, <1>6
  <2>2. Queue' = Queue
    BY <1>3, <1>5, <2>1, ConcatEmptySeq
  <2> QED
    BY <2>2 DEF Fifo!absVars
<1>7. CASE m # 0
  <2>1. m \in 1 .. PIPESIZE /\ s \in [1 .. m -> Byte]
    <3>1. m \in 1 .. PIPESIZE
      BY <1>1, <1>2, <1>4, <1>7
    <3> QED
      BY <1>4, <3>1
  <2>2. Len(Queue \o s) <= PIPESIZE
    BY <1>1, <1>2, <1>4, <1>5, ConcatProperties
  <2>3. writeopen
    BY InCall DEF Busy
  <2>4. Fifo!Put(s)
    BY <1>3, <2>2, <2>3 DEF Fifo!Put
  <2> QED
    BY <2>1, <2>4 DEF Fifo!Next
<1> QED
  BY <1>6, <1>7

\* A step of a reader gets what it takes, or nothing.
LEMMA ReadRefines ==
    ASSUME Sizes, Processes, PInv, NEW p \in Proc, piperead(p)
    PROVE  [Fifo!Next]_(Fifo!absVars)
<1> DEFINE n == MinOf(Len(todo[p]), Used)
<1>1. n \in 0 .. Used /\ nread' = uint(nread + n) /\ nread' \in Counter /\ Dist(nread', nwrite) = Used - n
  BY TakeFacts
<1>2. p \in Reader /\ Busy(p) /\ UNCHANGED <<data, nwrite, readopen, writeopen>>
  BY DEF piperead
<1>3. /\ Queue = Ring(data, nread, Used) /\ Queue \in Seq(Byte) /\ Len(Queue) = Used /\ Used \in 0 .. PIPESIZE
      /\ nread \in Counter /\ data \in [0 .. PIPESIZE - 1 -> Byte] /\ PIPESIZE \in Nat
  BY QueueOf, UsedFacts DEF PInv, TypeOK, Sizes, Processes
<1> HIDE DEF n
<1>4. Queue' = SubSeq(Queue, n + 1, Len(Queue))
  <2>1. Ring(data, uint(nread + n), Used - n) = SubSeq(Ring(data, nread, Used), n + 1, Used)
    BY <1>1, <1>3, RingGet
  <2>2. Queue' = Ring(data, uint(nread + n), Used - n)
    BY <1>1, <1>2, NextQueue
  <2> QED
    BY <1>3, <2>1, <2>2
<1>5. CASE n = 0
  <2>1. SubSeq(Queue, 1, Len(Queue)) = Queue
    BY <1>3
  <2>2. n + 1 = 1
    BY <1>5
  <2> QED
    BY <1>2, <1>4, <2>1, <2>2 DEF Fifo!absVars
<1>6. CASE n # 0
  <2>1. n \in 1 .. Len(Queue)
    BY <1>1, <1>3, <1>6
  <2>2. readopen
    BY <1>2, InCall DEF Busy
  <2>3. Fifo!Get(n)
    BY <1>2, <1>4, <2>2 DEF Fifo!Get
  <2> QED
    BY <2>1, <2>3 DEF Fifo!Next
<1> QED
  BY <1>5, <1>6

LEMMA NextRefines ==
    ASSUME Sizes, Processes, PInv, [Next]_vars
    PROVE  [Fifo!Next]_(Fifo!absVars)
<1>1. ASSUME UNCHANGED <<data, nread, nwrite, readopen, writeopen>> PROVE UNCHANGED Fifo!absVars
  BY <1>1 DEF Fifo!absVars, Queue, Used
<1>2. CASE UNCHANGED vars
  BY <1>1, <1>2 DEF vars
<1>3. ASSUME NEW p \in Proc, pipewrite(p) \/ WriteFails(p) \/ WriteSleeps(p) PROVE [Fifo!Next]_(Fifo!absVars)
  <2>1. p \in Writer /\ Busy(p) /\ Store(p) /\ UNCHANGED <<nread, readopen, writeopen>>
    BY <1>3 DEF pipewrite, WriteFails, WriteSleeps
  <2> QED
    BY <2>1, StoreRefines
<1>4. ASSUME NEW p \in Proc, ReadSleeps(p) \/ ReadFails(p) \/ kill(p) PROVE UNCHANGED Fifo!absVars
  BY <1>1, <1>4 DEF ReadSleeps, ReadFails, kill
<1>5. ASSUME NEW p \in Proc, piperead(p) PROVE [Fifo!Next]_(Fifo!absVars)
  BY <1>5, ReadRefines
<1>6. ASSUME NEW p \in Proc, pipeclose(p) PROVE [Fifo!Next]_(Fifo!absVars)
  <2>1. (readopen' => readopen) /\ (writeopen' => writeopen)
    BY <1>6, Zenon DEF pipeclose
  <2>2. Queue' = Queue
    BY <1>6 DEF pipeclose, Queue, Used
  <2>3. Fifo!Close
    BY <2>1, <2>2 DEF Fifo!Close
  <2> QED
    BY <2>3 DEF Fifo!Next
<1>7. ASSUME NEW p \in Writer, NEW s \in Input, sys_write(p, s) PROVE UNCHANGED Fifo!absVars
  BY <1>1, <1>7 DEF sys_write
<1>8. ASSUME NEW p \in Reader, NEW n \in ReadSize, sys_read(p, n) PROVE UNCHANGED Fifo!absVars
  BY <1>1, <1>8 DEF sys_read
<1> QED
  BY <1>2, <1>3, <1>4, <1>5, <1>6, <1>7, <1>8 DEF Next, Run

\* pipe.c implements the queue of Channel: bytes come out in the order they went in, each once, also
\* when nread and nwrite wrap around, for any size of the ring that divides the range of the counters.
THEOREM ChannelHolds ==
    ASSUME Sizes, Processes PROVE Spec => Fifo!Spec
<1>1. Init => Fifo!Init
  <2> SUFFICES ASSUME Init PROVE Fifo!Init
    OBVIOUS
  <2>1. PInv
    BY InitInv
  <2>2. Used = 0
    <3>1. nread = nwrite
      BY DEF Init
    <3> QED
      BY <2>1, <3>1, UsedFacts DEF PInv, Empty
  <2>3. Queue = << >>
    BY <2>1, <2>2, QueueOf
  <2> QED
    BY <2>3 DEF Fifo!Init, Init
<1>2. PInv /\ [Next]_vars => [Fifo!Next]_(Fifo!absVars)
  BY NextRefines
<1> QED
  BY <1>1, <1>2, InvariantHolds, PTL DEF Spec, Fifo!Spec

-------------------------------------------------------------------------------
(* The ring of the console is of the same kind: PIPESIZE stands for INPUT_BUF, *)
(* and Byte for the characters that can be typed.                              *)

CONSTANTS Newline, Eof, Erase, Kill, MaxTyped

VARIABLES ring, r, w, e, lock, rd, typed

Con == INSTANCE Console WITH INPUT_BUF <- PIPESIZE, Char <- Byte

\* The bytes from a up to b are those in the ring.
LEMMA RingOf ==
    ASSUME Sizes, NEW a \in Counter, NEW b \in Counter, NEW D
    PROVE  /\ Con!Minus(b, a) = Dist(a, b)
           /\ [k \in 1 .. Con!Minus(b, a) |-> D[Con!Plus(a, k - 1) % PIPESIZE]] = Ring(D, a, Dist(a, b))
<1>1. b + UintMod - a = UintMod + b - a
  BY DEF Sizes, Counter
<1>2. Con!Minus(b, a) = Dist(a, b)
  BY <1>1 DEF Con!Minus, Dist, uint
<1>3. \A k \in 1 .. Dist(a, b) : a + (k - 1) = a + k - 1
  BY DistOf DEF Counter
<1>4. \A k \in 1 .. Dist(a, b) : D[Con!Plus(a, k - 1) % PIPESIZE] = D[Slot(a + k - 1)]
  BY <1>3 DEF Con!Plus, Slot, uint
<1> QED
  BY <1>2, <1>4 DEF Ring

\* Another byte at the end.
Appends(D, a, b, c) ==
    LET D1 == [D EXCEPT ![b % PIPESIZE] = c] IN
    /\ D1 \in [0 .. PIPESIZE - 1 -> Byte]
    /\ Ring(D1, a, Dist(a, b) + 1) = Append(Ring(D, a, Dist(a, b)), c)
    /\ \A u \in 0 .. Dist(a, b) : Ring(D1, a, u) = Ring(D, a, u)

LEMMA RingAppend ==
    ASSUME Sizes, NEW a \in Counter, NEW b \in Counter, Dist(a, b) < PIPESIZE,
           NEW D \in [0 .. PIPESIZE - 1 -> Byte], NEW c \in Byte
    PROVE  Appends(D, a, b, c)
<1> DEFINE D1 == [D EXCEPT ![b % PIPESIZE] = c]
           s == <<c>>
           F == Filled(D, b, s, 1)
<1>1. b % PIPESIZE \in 0 .. PIPESIZE - 1 /\ uint(b) = b /\ b + 1 - 1 = b
  <2>1. b \in 0 .. 2 * UintMod - 1 /\ b < UintMod /\ b + 1 - 1 = b
    BY DEF Sizes, Counter
  <2>2. uint(b) = b
    BY <2>1, UintOf
  <2> QED
    BY <2>1, <2>2, SlotOf
<1>2. D1 \in [0 .. PIPESIZE - 1 -> Byte]
  BY <1>1
<1>3. F = D1
  <2>1. ASSUME NEW x \in 0 .. PIPESIZE - 1
        PROVE  (LET J == {j \in 1 .. 1 : uint(b + j - 1) % PIPESIZE = x}
                IN  IF J = {} THEN D[x] ELSE s[CHOOSE j \in J : \A i \in J : i <= j]) = D1[x]
    <3>1. CASE x = b % PIPESIZE
      <4>1. {j \in 1 .. 1 : uint(b + j - 1) % PIPESIZE = x} = {1}
        BY <1>1, <3>1
      <4>2. (CHOOSE j \in {1} : \A i \in {1} : i <= j) = 1
        OBVIOUS
      <4>3. D1[x] = c /\ s[1] = c
        BY <3>1
      <4> QED
        BY <4>1, <4>2, <4>3
    <3>2. CASE x # b % PIPESIZE
      <4>1. {j \in 1 .. 1 : uint(b + j - 1) % PIPESIZE = x} = {}
        BY <1>1, <3>2
      <4>2. D1[x] = D[x]
        BY <3>2
      <4> QED
        BY <4>1, <4>2
    <3> QED
      BY <3>1, <3>2
  <2>2. D1 = [x \in 0 .. PIPESIZE - 1 |-> D1[x]]
    OBVIOUS
  <2> HIDE DEF D1, s
  <2> QED
    BY <2>1, <2>2 DEF Filled
<1>4. s \in Seq(Byte) /\ Len(s) = 1 /\ SubSeq(s, 1, 1) = s /\ 1 \in 0 .. Len(s)
  <2>1. s \in Seq(Byte) /\ Len(s) = 1 /\ s[1] = c
    OBVIOUS
  <2> HIDE DEF s
  <2>2. \A i \in 1 .. 1 : s[i] \in Byte
    <3>1. \A i \in 1 .. 1 : i = 1
      OBVIOUS
    <3> QED
      BY <2>1, <3>1
  <2>3. /\ SubSeq(s, 1, 1) \in Seq(Byte) /\ Len(SubSeq(s, 1, 1)) = 1
        /\ \A i \in 1 .. 1 : SubSeq(s, 1, 1)[i] = s[i]
    <3>1. 1 \in Int /\ (1 <= 1 /\ 1 - 1 + 1 = 1) /\ \A i \in 1 .. 1 : 1 + i - 1 = i
      OBVIOUS
    <3> QED
      BY <2>2, <3>1, SubSeqProperties
  <2> QED
    BY <2>1, <2>3, SeqEqual
<1>5. Dist(a, b) \in Nat /\ Dist(a, b) + 1 <= PIPESIZE
  BY DistOf DEF Counter, Sizes
<1> HIDE DEF D1, s, F
<1>6. Ring(F, a, Dist(a, b) + 1) = Ring(D, a, Dist(a, b)) \o s
  <2>1. PICK m : m = 1
    OBVIOUS
  <2>2. m \in 0 .. Len(s) /\ Dist(a, b) + m <= PIPESIZE
    BY <1>4, <1>5, <2>1
  <2>3. Ring(Filled(D, b, s, m), a, Dist(a, b) + m) = Ring(D, a, Dist(a, b)) \o SubSeq(s, 1, m)
    BY <1>4, <2>2, RingPut
  <2> QED
    BY <1>4, <2>1, <2>3 DEF F
<1>7. Ring(D, a, Dist(a, b)) \o s = Append(Ring(D, a, Dist(a, b)), c)
  <2>1. PICK Q \in Seq(Byte) : Q = Ring(D, a, Dist(a, b))
    BY <1>5, RingSeq DEF Sizes
  <2>2. Q \o <<c>> = Append(Q, c)
    OBVIOUS
  <2> QED
    BY <2>1, <2>2 DEF s
<1>8. \A j \in 1 .. Dist(a, b) : F[Slot(a + j - 1)] = D[Slot(a + j - 1)]
  BY <1>4, <1>5, FilledRing, ZenonT(40) DEF F
<1>9. ASSUME NEW u \in 0 .. Dist(a, b) PROVE Ring(D1, a, u) = Ring(D, a, u)
  <2>1. \A j \in 1 .. u : j \in 1 .. Dist(a, b)
    BY <1>5
  <2> QED
    BY <1>3, <1>8, <2>1 DEF Ring
<1> QED
  BY <1>2, <1>3, <1>6, <1>7, <1>9 DEF D1, Appends

\* The bytes up to some place, and those from there on.
Splits(D, a, b, u, v) ==
    /\ Ring(D, a, u + v) = Ring(D, a, u) \o Ring(D, b, v)
    /\ \A j \in 1 .. v : Slot(b + j - 1) = Slot(a + (u + j) - 1)

LEMMA RingSplit ==
    ASSUME Sizes, NEW a \in Counter, NEW u \in Nat, NEW v \in Nat, u + v <= PIPESIZE, NEW b \in Counter, b = uint(a + u),
           NEW D \in [0 .. PIPESIZE - 1 -> Byte]
    PROVE  Splits(D, a, b, u, v)
<1>1. u \in 0 .. PIPESIZE /\ v \in 0 .. PIPESIZE /\ u + v \in 0 .. PIPESIZE
  BY DEF Sizes
<1>2. ASSUME NEW j \in 1 .. v PROVE Slot(b + j - 1) = Slot(a + (u + j) - 1)
  <2>1. a + u \in Nat /\ j - 1 \in Nat /\ (a + u) + (j - 1) < 2 * UintMod
    BY DEF Counter, Sizes
  <2>2. uint(uint(a + u) + (j - 1)) = uint((a + u) + (j - 1))
    BY <2>1, UintPlus
  <2>3. b + j - 1 = b + (j - 1) /\ a + (u + j) - 1 = (a + u) + (j - 1)
    BY DEF Counter
  <2> QED
    BY <2>2, <2>3 DEF Slot
<1> DEFINE X == Ring(D, a, u)
           Y == Ring(D, b, v)
           Z == Ring(D, a, u + v)
<1>3. X \in Seq(Byte) /\ Len(X) = u /\ \A j \in 1 .. u : X[j] = D[Slot(a + j - 1)]
  BY <1>1, RingSeq
<1>4. Y \in Seq(Byte) /\ Len(Y) = v /\ \A j \in 1 .. v : Y[j] = D[Slot(b + j - 1)]
  BY <1>1, RingSeq
<1>5. Z \in Seq(Byte) /\ Len(Z) = u + v /\ \A j \in 1 .. u + v : Z[j] = D[Slot(a + j - 1)]
  BY <1>1, RingSeq
<1> HIDE DEF X, Y, Z
<1>6. /\ X \o Y \in Seq(Byte) /\ Len(X \o Y) = u + v
      /\ \A i \in 1 .. u + v : (X \o Y)[i] = IF i <= u THEN X[i] ELSE Y[i - u]
  BY <1>3, <1>4, ConcatProperties
<1>7. ASSUME NEW i \in 1 .. u + v PROVE Z[i] = (X \o Y)[i]
  <2>1. CASE i <= u
    <3>1. i \in 1 .. u
      BY <2>1
    <3> QED
      BY <1>3, <1>5, <1>6, <2>1, <3>1
  <2>2. CASE ~(i <= u)
    <3>1. i - u \in 1 .. v /\ u + (i - u) = i
      BY <2>2
    <3>2. (X \o Y)[i] = D[Slot(a + (u + (i - u)) - 1)]
      BY <1>2, <1>4, <1>6, <2>2, <3>1
    <3> QED
      BY <1>5, <3>1, <3>2
  <2> QED
    BY <2>1, <2>2
<1>8. Z = X \o Y
  BY <1>5, <1>6, <1>7, SeqEqual
<1> QED
  BY <1>2, <1>8 DEF X, Y, Z, Splits

\* Lines end.
Keys == Newline \in Byte /\ ReadSize \subseteq Nat

Rd == [at : {"idle", "loop", "sleep"}, target : Nat, n : Nat, killed : BOOLEAN]

\* r, w and e follow each other within the ring; a full ring is all lines to read, a line
\* that is typed has no newline, and nobody sleeps while there is something to read.
CInv ==
    /\ Con!TypeOK /\ rd \in [Reader -> Rd]
    /\ Dist(r, w) + Dist(w, e) = Dist(r, e) /\ Dist(r, e) <= PIPESIZE
    /\ Dist(r, e) = PIPESIZE => w = e
    /\ \A k \in 1 .. Dist(w, e) : ring[Slot(w + k - 1)] # Newline
    /\ \A p \in Reader : rd[p].at = "sleep" => r = w

LEMMA ConTypes ==
    ASSUME Sizes, CInv
    PROVE  /\ r \in Counter /\ w \in Counter /\ e \in Counter /\ ring \in [0 .. PIPESIZE - 1 -> Byte]
           /\ Dist(r, w) \in 0 .. PIPESIZE /\ Dist(w, e) \in 0 .. PIPESIZE /\ Dist(r, e) \in 0 .. PIPESIZE
           /\ Con!Minus(e, r) = Dist(r, e) /\ Con!Minus(e, w) = Dist(w, e)
<1>1. r \in Counter /\ w \in Counter /\ e \in Counter /\ ring \in [0 .. PIPESIZE - 1 -> Byte]
  BY DEF CInv, Con!TypeOK, Counter
<1>2. Dist(r, w) \in Nat /\ Dist(w, e) \in Nat /\ Dist(r, e) \in Nat /\ PIPESIZE \in Nat
  BY <1>1, DistOf DEF Counter, Sizes
<1>3. Dist(r, w) + Dist(w, e) = Dist(r, e) /\ Dist(r, e) <= PIPESIZE
  BY DEF CInv
<1> QED
  BY <1>1, <1>2, <1>3, RingOf

\* The line and the queue of LineInput, before and after a step.
LEMMA ConNow ==
    ASSUME Sizes, CInv
    PROVE  /\ Con!Between(w, e) = Ring(ring, w, Dist(w, e)) /\ Con!Between(r, w) = Ring(ring, r, Dist(r, w))
           /\ Con!Between(w, e) \in Seq(Byte) /\ Len(Con!Between(w, e)) = Dist(w, e)
           /\ Con!Between(r, w) \in Seq(Byte) /\ Len(Con!Between(r, w)) = Dist(r, w)
<1>1. Con!Between(w, e) = Ring(ring, w, Dist(w, e)) /\ Con!Between(r, w) = Ring(ring, r, Dist(r, w))
  BY ConTypes, RingOf DEF Con!Between
<1> QED
  BY <1>1, ConTypes, RingSeq

LEMMA ConNext ==
    ASSUME Sizes, r' \in Counter, w' \in Counter, e' \in Counter
    PROVE  /\ Con!Between(w, e)' = Ring(ring', w', Dist(w', e'))
           /\ Con!Between(r, w)' = Ring(ring', r', Dist(r', w'))
BY RingOf DEF Con!Between

\* n characters back.
LEMMA Backward ==
    ASSUME Sizes, NEW a \in Counter, NEW b \in Counter, NEW n \in 0 .. Dist(a, b)
    PROVE  /\ Con!Minus(b, n) \in Counter
           /\ Dist(a, Con!Minus(b, n)) = Dist(a, b) - n
           /\ Con!Minus(b, n) = uint(a + (Dist(a, b) - n))
           /\ n = Dist(a, b) <=> Con!Minus(b, n) = a
<1>1. UintMod \in Nat /\ UintMod > 0
  BY DEF Sizes
<1>2. Dist(a, b) = (IF b >= a THEN b - a ELSE UintMod + b - a) /\ Dist(a, b) \in 0 .. UintMod - 1
  BY DistOf DEF Counter
<1>3. PICK m : m = b + UintMod - n
  OBVIOUS
<1>4. m \in 0 .. 2 * UintMod - 1 /\ m = b + UintMod - n
  BY <1>1, <1>2, <1>3 DEF Counter
<1>5. uint(m) = IF m < UintMod THEN m ELSE m - UintMod
  BY <1>4, UintOf
<1>6. PICK c : c = Con!Minus(b, n)
  OBVIOUS
<1>7. c = (IF m < UintMod THEN m ELSE m - UintMod) /\ c \in Counter
  <2>1. c = uint(m)
    BY <1>3, <1>6 DEF Con!Minus, uint
  <2> QED
    BY <1>4, <1>5, <2>1, UintOf DEF Counter
<1>8. Dist(a, c) = (IF c >= a THEN c - a ELSE UintMod + c - a)
  BY <1>7, DistOf
<1>9. Dist(a, c) = Dist(a, b) - n
  BY <1>1, <1>2, <1>4, <1>7, <1>8 DEF Counter
<1>10. c = uint(a + (Dist(a, b) - n))
  BY <1>7, <1>9, DistBack
<1>11. n = Dist(a, b) <=> c = a
  <2>1. a = c <=> Dist(a, c) = 0
    BY <1>7, DistEnds
  <2> QED
    BY <1>2, <1>9, <2>1
<1> QED
  BY <1>6, <1>7, <1>9, <1>10, <1>11

\* ^U takes the whole line back.
LEMMA KillLineIs ==
    ASSUME Sizes, CInv
    PROVE  Con!KillLine = w
<1> DEFINE d == Dist(w, e)
           S == {Con!Minus(e, n) : n \in 0 .. Con!Minus(e, w)}
           P(x) == /\ x = w \/ ring[Con!Minus(x, 1) % PIPESIZE] = Newline
                   /\ \A n \in 0 .. Con!Minus(e, x) :
                         Con!Minus(e, n) = x \/ ring[Con!Minus(e, n + 1) % PIPESIZE] # Newline
<1>1. /\ w \in Counter /\ e \in Counter /\ Con!Minus(e, w) = d /\ d \in Nat
      /\ \A k \in 1 .. d : ring[Slot(w + k - 1)] # Newline
  BY ConTypes DEF CInv
<1>2. \A n \in 0 .. d : /\ Con!Minus(e, n) \in Counter /\ Dist(w, Con!Minus(e, n)) = d - n
                        /\ Con!Minus(e, n) = uint(w + (d - n))
                        /\ n = d <=> Con!Minus(e, n) = w
  BY <1>1, Backward
<1> HIDE DEF d
<1>3. w \in S
  BY <1>1, <1>2
<1>4. P(w)
  <2> SUFFICES ASSUME NEW n \in 0 .. d, Con!Minus(e, n) # w
               PROVE  ring[Con!Minus(e, n + 1) % PIPESIZE] # Newline
    BY <1>1
  <2>1. n + 1 \in 0 .. d /\ d - n \in 1 .. d /\ w + (d - (n + 1)) = w + (d - n) - 1
    BY <1>1, <1>2 DEF Counter
  <2>2. Con!Minus(e, n + 1) = uint(w + (d - n) - 1)
    BY <1>2, <2>1
  <2> QED
    BY <1>1, <2>1, <2>2 DEF Slot
<1>5. ASSUME NEW x \in S, P(x) PROVE x = w
  <2> SUFFICES ASSUME x # w PROVE FALSE
    OBVIOUS
  <2>1. PICK n \in 0 .. d : x = Con!Minus(e, n)
    BY <1>1, <1>5
  <2>2. x \in Counter /\ Dist(w, x) = d - n /\ n # d
    BY <1>2, <2>1
  <2>3. d - n \in 1 .. d /\ 1 \in 0 .. Dist(w, x) /\ w + (Dist(w, x) - 1) = w + (d - n) - 1
    BY <1>1, <2>2 DEF Counter
  <2>4. Con!Minus(x, 1) = uint(w + (Dist(w, x) - 1))
    BY <1>1, <2>2, <2>3, Backward
  <2>5. ring[Con!Minus(x, 1) % PIPESIZE] = Newline
    BY <1>5
  <2> QED
    BY <1>1, <2>3, <2>4, <2>5 DEF Slot
<1>6. Con!KillLine = CHOOSE x \in S : P(x)
  BY DEF Con!KillLine
<1> HIDE DEF S, P
<1> QED
  BY <1>3, <1>4, <1>5, <1>6

Refines == [Con!A!Next]_(Con!A!absVars)

\* Readers come and go.
LEMMA ReaderStep ==
    ASSUME Sizes, Keys, CInv, NEW p \in Reader,
           Con!consoleread(p) \/ Con!Wait(p) \/ Con!kill(p)
    PROVE  CInv' /\ Refines
<1>1. /\ UNCHANGED <<ring, r, w, e>> /\ lock' \in {lock, 0}
      /\ lock \in Reader \cup {0} /\ Con!TypeOK /\ rd \in [Reader -> Rd] /\ rd[p] \in Rd
  BY DEF Con!consoleread, Con!Wait, Con!kill, Con!Returns, Con!NoOne, CInv, Con!TypeOK
<1>2. \E s \in Rd : rd' = [rd EXCEPT ![p] = s] /\ (s.at = "sleep" => r = w)
  <2>1. CASE Con!consoleread(p)
    <3>1. PICK n \in ReadSize : rd' = [rd EXCEPT ![p] = [@ EXCEPT !.at = "loop", !.target = n, !.n = n]]
      BY <2>1 DEF Con!consoleread
    <3>2. [rd[p] EXCEPT !.at = "loop", !.target = n, !.n = n] \in Rd
      BY <1>1 DEF Rd, Keys
    <3>3. [rd[p] EXCEPT !.at = "loop", !.target = n, !.n = n].at = "loop"
      BY <1>1 DEF Rd
    <3> QED
      BY <3>1, <3>2, <3>3
  <2>2. CASE Con!Wait(p)
    <3>1. r = w /\ (rd' = [rd EXCEPT ![p] = Con!Idle] \/ rd' = [rd EXCEPT ![p].at = "sleep"])
      BY <2>2 DEF Con!Wait, Con!Returns
    <3>2. Con!Idle \in Rd /\ [rd[p] EXCEPT !.at = "sleep"] \in Rd
      BY <1>1 DEF Rd, Con!Idle
    <3> QED
      BY <3>1, <3>2
  <2>3. CASE Con!kill(p)
    <3>1. rd' = [rd EXCEPT ![p].killed = TRUE, ![p].at = "loop"]
      BY <2>3 DEF Con!kill
    <3>2. PICK s : s = [rd[p] EXCEPT !.killed = TRUE, !.at = "loop"]
      OBVIOUS
    <3>3. s \in Rd /\ s.at = "loop"
      BY <1>1, <3>2 DEF Rd
    <3>4. rd' = [rd EXCEPT ![p] = s]
      BY <1>1, <3>1, <3>2
    <3> QED
      BY <3>3, <3>4
  <2> QED
    BY <2>1, <2>2, <2>3
<1>3. rd' \in [Reader -> Rd] /\ \A q \in Reader : rd'[q].at = "sleep" => r = w
  BY <1>1, <1>2 DEF CInv
<1>4. CInv'
  <2>1. Con!TypeOK'
    BY <1>1 DEF Con!TypeOK, Con!NoOne
  <2> QED
    BY <1>1, <1>3, <2>1 DEF CInv
<1>5. Refines
  BY <1>1 DEF Refines, Con!A!absVars, Con!Between
<1> QED
  BY <1>4, <1>5

\* A byte of the queue is taken, or ^D stays for the next call.
LEMMA TakeStep ==
    ASSUME Sizes, Keys, CInv, NEW p \in Reader, Con!Take(p)
    PROVE  CInv' /\ Refines
<1>1. /\ UNCHANGED <<ring, w, e>> /\ r # w /\ rd[p].n > 0 /\ r' \in {r, Con!Plus(r, 1)}
      /\ \/ rd' = [rd EXCEPT ![p] = Con!Idle] /\ lock' = 0
         \/ rd' = [rd EXCEPT ![p].n = @ - 1] /\ lock' = p
  BY DEF Con!Take, Con!Returns, Con!NoOne
<1>2. /\ r \in Counter /\ w \in Counter /\ e \in Counter /\ ring \in [0 .. PIPESIZE - 1 -> Byte]
      /\ Dist(r, w) \in 0 .. PIPESIZE /\ Dist(w, e) \in 0 .. PIPESIZE /\ Dist(r, e) \in 0 .. PIPESIZE
      /\ Dist(r, w) + Dist(w, e) = Dist(r, e)
  BY ConTypes DEF CInv
<1>3. PICK r1 : r1 = uint(r + 1)
  OBVIOUS
<1>4. r1 \in Counter /\ Dist(r1, w) = Dist(r, w) - 1 /\ Dist(r1, e) = Dist(r, e) - 1 /\ Dist(r, w) >= 1
  <2>1. Dist(r, w) # 0 /\ PIPESIZE \in Nat
    BY <1>1, <1>2, DistEnds DEF Sizes
  <2>2. 1 \in 0 .. Dist(r, w) /\ 1 \in 0 .. Dist(r, e) /\ Dist(r, w) <= PIPESIZE /\ Dist(r, e) <= PIPESIZE
    BY <1>2, <2>1
  <2> QED
    BY <1>2, <1>3, <2>1, <2>2, DistMoves
<1>5. r' = r \/ r' = r1
  BY <1>1, <1>3 DEF Con!Plus, uint
<1>6. rd' \in [Reader -> Rd] /\ \A q \in Reader : rd'[q].at # "sleep"
  <2>1. rd \in [Reader -> Rd] /\ \A q \in Reader : rd[q].at # "sleep"
    BY <1>1 DEF CInv
  <2>2. Con!Idle \in Rd /\ Con!Idle.at = "idle"
    BY DEF Con!Idle, Rd
  <2>3. [rd[p] EXCEPT !.n = rd[p].n - 1] \in Rd /\ [rd[p] EXCEPT !.n = rd[p].n - 1].at = rd[p].at
    BY <1>1, <2>1 DEF Rd
  <2>4. rd' = [rd EXCEPT ![p] = Con!Idle] \/ rd' = [rd EXCEPT ![p] = [rd[p] EXCEPT !.n = rd[p].n - 1]]
    BY <1>1
  <2> QED
    BY <2>1, <2>2, <2>3, <2>4
<1>7. CInv'
  <2>1. Con!TypeOK'
    BY <1>1, <1>2, <1>4, <1>5 DEF CInv, Con!TypeOK, Con!NoOne, Counter
  <2>2. Dist(r', w) + Dist(w, e) = Dist(r', e) /\ Dist(r', e) <= PIPESIZE /\ (Dist(r', e) = PIPESIZE => w = e)
    BY <1>2, <1>4, <1>5 DEF CInv, Sizes
  <2>3. \A k \in 1 .. Dist(w, e) : ring[Slot(w + k - 1)] # Newline
    BY DEF CInv
  <2> QED
    BY <1>1, <1>6, <2>1, <2>2, <2>3 DEF CInv
<1>8. Refines
  <2>1. Con!Between(w, e)' = Con!Between(w, e)
    BY <1>1 DEF Con!Between
  <2>2. CASE r' = r
    BY <1>1, <2>1, <2>2 DEF Refines, Con!A!absVars, Con!Between
  <2>3. CASE r' = r1
    <3>1. PICK Q \in Seq(Byte) : Q = Con!Between(r, w) /\ Q = Ring(ring, r, Dist(r, w)) /\ Len(Q) = Dist(r, w)
      BY ConNow
    <3>2. Con!Between(r, w)' = Ring(ring, r1, Dist(r, w) - 1)
      BY <1>1, <1>2, <1>4, <2>3, ConNext
    <3>3. Ring(ring, r1, Dist(r, w) - 1) = SubSeq(Q, 2, Len(Q))
      <4>1. PICK n : n = 1
        OBVIOUS
      <4>2. n \in 0 .. Dist(r, w) /\ n + 1 = 2
        BY <1>2, <1>4, <4>1
      <4>3. uint(r + n) = r1
        BY <1>3, <4>1
      <4>4. Ring(ring, uint(r + n), Dist(r, w) - n) = SubSeq(Q, n + 1, Dist(r, w))
        BY <1>2, <1>4, <3>1, <4>2, <4>3, RingGet
      <4> QED
        BY <3>1, <4>1, <4>2, <4>3, <4>4
    <3>4. Q # <<>>
      BY <1>4, <3>1
    <3>5. Tail(Q) = SubSeq(Q, 2, Len(Q))
      BY <3>4, TailIsSubSeq
    <3>6. Con!A!Take
      BY <2>1, <3>1, <3>2, <3>3, <3>4, <3>5 DEF Con!A!Take
    <3> QED
      BY <3>6 DEF Refines, Con!A!Next
  <2> QED
    BY <1>5, <2>2, <2>3
<1> QED
  BY <1>7, <1>8

\* ^H and ^U, and what is typed when the ring is full.
LEMMA EditStep ==
    ASSUME Sizes, Keys, CInv, NEW n \in 0 .. Dist(w, e), e' = Con!Minus(e, n), n \in {0, 1, Dist(w, e)},
           UNCHANGED <<ring, r, w, rd, lock>>
    PROVE  CInv' /\ Refines
<1>1. /\ r \in Counter /\ w \in Counter /\ e \in Counter /\ ring \in [0 .. PIPESIZE - 1 -> Byte]
      /\ Dist(r, w) \in 0 .. PIPESIZE /\ Dist(w, e) \in 0 .. PIPESIZE /\ Dist(r, e) \in 0 .. PIPESIZE
      /\ Dist(r, w) + Dist(w, e) = Dist(r, e) /\ PIPESIZE \in Nat
  BY ConTypes DEF CInv, Sizes
<1>2. e' \in Counter /\ Dist(w, e') = Dist(w, e) - n /\ Dist(r, e') = Dist(r, e) - n
  <2>1. n \in 0 .. Dist(r, e)
    BY <1>1
  <2> QED
    BY <1>1, <2>1, Backward
<1>3. CInv'
  <2>1. Con!TypeOK'
    BY <1>1, <1>2 DEF CInv, Con!TypeOK, Con!NoOne, Counter
  <2>2. Dist(r, w) + Dist(w, e') = Dist(r, e') /\ Dist(r, e') <= PIPESIZE
    BY <1>1, <1>2
  <2>3. Dist(r, e') = PIPESIZE => w = e'
    <3> SUFFICES ASSUME Dist(r, e') = PIPESIZE PROVE w = e'
      OBVIOUS
    <3>1. Dist(r, e) = PIPESIZE /\ n = 0
      BY <1>1, <1>2
    <3>2. Dist(w, e) = 0
      BY <1>1, <3>1, DistEnds DEF CInv
    <3>3. Dist(w, e') = 0
      BY <1>2, <3>1, <3>2
    <3> QED
      BY <1>1, <1>2, <3>3, DistEnds
  <2>4. \A k \in 1 .. Dist(w, e') : ring[Slot(w + k - 1)] # Newline
    <3>1. \A k \in 1 .. Dist(w, e') : k \in 1 .. Dist(w, e)
      BY <1>1, <1>2
    <3> QED
      BY <3>1 DEF CInv
  <2> QED
    BY <2>1, <2>2, <2>3, <2>4 DEF CInv
<1>4. Con!Between(r, w)' = Con!Between(r, w)
  BY DEF Con!Between
<1>5. Con!Between(w, e)' = Ring(ring, w, Dist(w, e) - n)
  BY <1>1, <1>2, ConNext
<1>6. PICK L \in Seq(Byte) : L = Con!Between(w, e) /\ L = Ring(ring, w, Dist(w, e)) /\ Len(L) = Dist(w, e)
  BY ConNow
<1>7. CASE n = 0
  <2>1. Dist(w, e) - n = Dist(w, e)
    BY <1>1, <1>7
  <2> QED
    BY <1>3, <1>4, <1>5, <1>6, <2>1 DEF Refines, Con!A!absVars
<1>8. CASE n # 0
  <2>1. Dist(w, e) >= 1 /\ L # <<>>
    BY <1>1, <1>6, <1>8
  <2>2. Con!Between(w, e)' \in {<<>>, SubSeq(L, 1, Len(L) - 1)}
    <3>1. CASE n = Dist(w, e)
      <4>1. Ring(ring, w, 0) = <<>>
        <5>1. 0 \in 0 .. PIPESIZE
          BY <1>1
        <5>2. Ring(ring, w, 0) \in Seq(Byte) /\ Len(Ring(ring, w, 0)) = 0
          BY <1>1, <5>1, RingSeq
        <5> QED
          BY <5>2, EmptySeq
      <4>2. Dist(w, e) - n = 0
        BY <1>1, <3>1
      <4> QED
        BY <1>5, <4>1, <4>2
    <3>2. CASE n = 1
      <4>1. PICK d : d = Dist(w, e)
        OBVIOUS
      <4>2. d \in Nat /\ d >= 1 /\ d - n = d - 1 /\ d - 1 \in 0 .. PIPESIZE /\ d \in 0 .. PIPESIZE
        BY <1>1, <2>1, <3>2, <4>1
      <4> DEFINE Z == Ring(ring, w, d - 1)
                 t == SubSeq(L, 1, d - 1)
      <4>3. Z \in Seq(Byte) /\ Len(Z) = d - 1 /\ \A j \in 1 .. d - 1 : Z[j] = ring[Slot(w + j - 1)]
        BY <1>1, <4>2, RingSeq
      <4>4. \A j \in 1 .. d : L[j] = ring[Slot(w + j - 1)] /\ L[j] \in Byte
        <5>1. PICK D, a : D = ring /\ a = w
          OBVIOUS
        <5>2. D \in [0 .. PIPESIZE - 1 -> Byte] /\ a \in Counter /\ L = Ring(D, a, d) /\ d \in 0 .. PIPESIZE
          BY <1>1, <1>6, <4>1, <4>2, <5>1
        <5>3. \A j \in 1 .. d : Ring(D, a, d)[j] = D[Slot(a + j - 1)] /\ Ring(D, a, d)[j] \in Byte
          BY <5>2, RingSeq
        <5> QED
          BY <5>1, <5>2, <5>3
      <4>5. t \in Seq(Byte) /\ Len(t) = d - 1 /\ \A j \in 1 .. d - 1 : t[j] = L[j]
        <5>1. 1 \in Int /\ d - 1 \in Int /\ \A i \in 1 .. d - 1 : L[i] \in Byte
          BY <4>2, <4>4
        <5>2. /\ t \in Seq(Byte) /\ Len(t) = (IF 1 <= d - 1 THEN d - 1 - 1 + 1 ELSE 0)
              /\ \A i \in 1 .. d - 1 - 1 + 1 : t[i] = L[1 + i - 1]
          BY <5>1, SubSeqProperties
        <5> HIDE DEF t
        <5>3. Len(t) = d - 1
          BY <4>2, <5>2
        <5>4. ASSUME NEW j \in 1 .. d - 1 PROVE t[j] = L[j]
          <6>1. j \in 1 .. d - 1 - 1 + 1 /\ 1 + j - 1 = j
            BY <4>2
          <6> QED
            BY <5>2, <6>1
        <5> QED
          BY <5>2, <5>3, <5>4
      <4> HIDE DEF Z, t
      <4>6. \A j \in 1 .. d - 1 : Z[j] = t[j]
        BY <4>2, <4>3, <4>4, <4>5
      <4>7. Z = t
        BY <4>3, <4>5, <4>6, SeqEqual
      <4> QED
        BY <1>5, <1>6, <3>2, <4>1, <4>2, <4>7 DEF Z, t
    <3> QED
      BY <1>8, <3>1, <3>2
  <2>3. Con!A!Erase
    BY <1>4, <1>6, <2>1, <2>2 DEF Con!A!Erase
  <2> QED
    BY <1>3, <2>3 DEF Refines, Con!A!Next
<1> QED
  BY <1>7, <1>8

\* What the ring holds when c was put at its end: a to x are lines, x to b is being typed.
Types(D, a, x, b, c) ==
    LET D1 == [D EXCEPT ![b % PIPESIZE] = c] IN
    /\ D1 \in [0 .. PIPESIZE - 1 -> Byte]
    /\ Ring(D1, x, Dist(x, b) + 1) = Append(Ring(D, x, Dist(x, b)), c)
    /\ Ring(D1, a, Dist(a, b) + 1) = Append(Ring(D, a, Dist(a, x)) \o Ring(D, x, Dist(x, b)), c)
    /\ Ring(D1, a, Dist(a, x)) = Ring(D, a, Dist(a, x))

LEMMA TypedRing ==
    ASSUME Sizes, NEW a \in Counter, NEW x \in Counter, NEW b \in Counter,
           NEW D \in [0 .. PIPESIZE - 1 -> Byte], NEW c \in Byte,
           Dist(a, x) + Dist(x, b) = Dist(a, b), Dist(a, b) < PIPESIZE
    PROVE  Types(D, a, x, b, c)
<1>1. Dist(a, x) \in Nat /\ Dist(x, b) \in Nat /\ Dist(a, b) \in Nat /\ PIPESIZE \in Nat
  BY DistOf DEF Counter, Sizes
<1>2. Dist(x, b) < PIPESIZE /\ Dist(a, x) \in 0 .. Dist(a, b)
  BY <1>1
<1>3. Appends(D, x, b, c)
  BY <1>2, RingAppend, Zenon
<1>4. Appends(D, a, b, c)
  BY RingAppend, Zenon
<1>5. PICK u \in Nat, v \in Nat : u = Dist(a, x) /\ v = Dist(x, b)
  BY <1>1
<1>6. x = uint(a + u) /\ u + v <= PIPESIZE /\ u + v = Dist(a, b)
  BY <1>1, <1>5, DistBack
<1>7. Splits(D, a, x, u, v)
  BY <1>6, RingSplit, Zenon
<1> QED
  BY <1>2, <1>3, <1>4, <1>5, <1>6, <1>7 DEF Appends, Splits, Types

\* A character goes into the ring, and may end the line.
LEMMA TypeStep ==
    ASSUME Sizes, Keys, CInv, NEW c \in Byte, Dist(r, e) < PIPESIZE,
           ring' = [ring EXCEPT ![e % PIPESIZE] = c], e' = Con!Plus(e, 1),
           IF Con!Commits(c) THEN w' = e' /\ rd' = Con!Wakened ELSE UNCHANGED <<w, rd>>,
           UNCHANGED <<r, lock>>
    PROVE  CInv' /\ Refines
<1>1. /\ r \in Counter /\ w \in Counter /\ e \in Counter /\ ring \in [0 .. PIPESIZE - 1 -> Byte]
      /\ Dist(r, w) \in 0 .. PIPESIZE /\ Dist(w, e) \in 0 .. PIPESIZE /\ Dist(r, e) \in 0 .. PIPESIZE
      /\ Dist(r, w) + Dist(w, e) = Dist(r, e) /\ PIPESIZE \in Nat
  BY ConTypes DEF CInv, Sizes
<1>2. PICK D1, e1 : D1 = ring' /\ e1 = e'
  OBVIOUS
<1>3. e1 \in Counter /\ Dist(w, e1) = Dist(w, e) + 1 /\ Dist(r, e1) = Dist(r, e) + 1
  <2>1. e1 = uint(e + 1)
    BY <1>2 DEF Con!Plus, uint
  <2>2. /\ 1 \in 0 .. PIPESIZE - Dist(w, e) /\ 1 \in 0 .. PIPESIZE - Dist(r, e)
        /\ Dist(w, e) <= PIPESIZE /\ Dist(r, e) <= PIPESIZE
    BY <1>1
  <2> QED
    BY <1>1, <2>1, <2>2, DistMoves
<1>4. Dist(e1, e1) = 0
  BY <1>3, DistEnds
<1>5. Con!Commits(c) <=> c \in {Newline, Eof} \/ Dist(r, e) + 1 = PIPESIZE
  <2>1. e1 = uint(r + PIPESIZE) <=> Dist(r, e1) = PIPESIZE
    BY <1>1, <1>3, DistEnds
  <2>2. Con!Plus(e, 1) = e1 /\ Con!Plus(r, PIPESIZE) = uint(r + PIPESIZE)
    BY <1>2 DEF Con!Plus, uint
  <2> QED
    BY <1>3, <2>1, <2>2 DEF Con!Commits
<1>6. PICK L \in Seq(Byte) : L = Con!Between(w, e) /\ L = Ring(ring, w, Dist(w, e)) /\ Len(L) = Dist(w, e)
  BY ConNow
<1>7. PICK Q \in Seq(Byte) : Q = Con!Between(r, w) /\ Q = Ring(ring, r, Dist(r, w)) /\ Len(Q) = Dist(r, w)
  BY ConNow
<1>8. PICK D, r0, w0, e0 : D = ring /\ r0 = r /\ w0 = w /\ e0 = e
  OBVIOUS
<1>9. /\ D \in [0 .. PIPESIZE - 1 -> Byte] /\ r0 \in Counter /\ w0 \in Counter /\ e0 \in Counter
      /\ D1 = [D EXCEPT ![e0 % PIPESIZE] = c]
      /\ L = Ring(D, w0, Dist(w0, e0)) /\ Q = Ring(D, r0, Dist(r0, w0))
      /\ Dist(r0, w0) + Dist(w0, e0) = Dist(r0, e0) /\ Dist(r0, e0) < PIPESIZE
  BY <1>1, <1>2, <1>6, <1>7, <1>8
<1>10. /\ D1 \in [0 .. PIPESIZE - 1 -> Byte] /\ Ring(D1, w0, Dist(w0, e0) + 1) = Append(L, c)
       /\ Ring(D1, r0, Dist(r0, e0) + 1) = Append(Q \o L, c) /\ Ring(D1, r0, Dist(r0, w0)) = Q
  <2>1. Types(D, r0, w0, e0, c)
    BY <1>9, TypedRing, Zenon
  <2> QED
    BY <1>9, <2>1 DEF Types
<1>11. D1 \in [0 .. PIPESIZE - 1 -> Byte] /\ Ring(D1, w, Dist(w, e) + 1) = Append(L, c)
  BY <1>8, <1>10
<1>12. Ring(D1, r, Dist(r, e) + 1) = Append(Q \o L, c) /\ Ring(D1, r, Dist(r, w)) = Q
  BY <1>8, <1>10
<1>13. CASE Con!Commits(c)
  <2>1. w' = e1 /\ rd' = Con!Wakened
    BY <1>2, <1>13
  <2>2. CInv'
    <3>1. rd' \in [Reader -> Rd] /\ \A p \in Reader : rd'[p].at # "sleep"
      <4>1. \A p \in Reader : rd[p] \in Rd
        BY DEF CInv
      <4>2. \A p \in Reader : [rd[p] EXCEPT !.at = "loop"] \in Rd /\ [rd[p] EXCEPT !.at = "loop"].at = "loop"
        BY <4>1 DEF Rd
      <4> QED
        BY <2>1, <4>1, <4>2 DEF Con!Wakened
    <3>2. Con!TypeOK'
      BY <1>1, <1>2, <1>3, <1>11, <2>1 DEF CInv, Con!TypeOK, Con!NoOne, Counter
    <3>3. Dist(r, e1) + Dist(e1, e1) = Dist(r, e1) /\ Dist(r, e1) <= PIPESIZE /\ 1 .. Dist(e1, e1) = {}
      BY <1>1, <1>3, <1>4
    <3> QED
      BY <1>2, <2>1, <3>1, <3>2, <3>3 DEF CInv
  <2>3. Con!Between(w, e)' = <<>>
    <3>1. 0 \in 0 .. PIPESIZE
      BY <1>1
    <3>2. Ring(D1, e1, 0) \in Seq(Byte) /\ Len(Ring(D1, e1, 0)) = 0
      BY <1>3, <1>11, <3>1, RingSeq
    <3>3. Con!Between(w, e)' = Ring(D1, e1, 0)
      BY <1>1, <1>2, <1>3, <1>4, <2>1, ConNext
    <3> QED
      BY <3>2, <3>3, EmptySeq
  <2>4. Con!Between(r, w)' = Q \o Append(L, c)
    <3>1. Con!Between(r, w)' = Append(Q \o L, c)
      BY <1>1, <1>2, <1>3, <1>12, <2>1, ConNext
    <3>2. Append(Q \o L, c) = (Q \o L) \o <<c>> /\ Append(L, c) = L \o <<c>>
      <4>1. Q \o L \in Seq(Byte)
        OBVIOUS
      <4> QED
        BY <4>1, AppendIsConcat
    <3>3. (Q \o L) \o <<c>> = Q \o (L \o <<c>>)
      <4>1. <<c>> \in Seq(Byte)
        OBVIOUS
      <4> QED
        BY <4>1, ConcatAssociative
    <3> QED
      BY <3>1, <3>2, <3>3
  <2>5. Con!A!Ends(c)
    BY <1>1, <1>5, <1>6, <1>7, <1>13 DEF Con!A!Ends
  <2>6. Len(Q) + Len(L) < PIPESIZE
    BY <1>1, <1>6, <1>7
  <2>7. Con!A!Type(c)
    BY <1>6, <1>7, <2>3, <2>4, <2>5, <2>6 DEF Con!A!Type
  <2> QED
    BY <2>2, <2>7 DEF Refines, Con!A!Next
<1>14. CASE ~Con!Commits(c)
  <2>1. UNCHANGED <<w, rd>> /\ c # Newline /\ Dist(r, e) + 1 # PIPESIZE
    BY <1>5, <1>14
  <2>2. CInv'
    <3>1. Con!TypeOK'
      BY <1>1, <1>2, <1>3, <1>11, <2>1 DEF CInv, Con!TypeOK, Con!NoOne, Counter
    <3>2. Dist(r, w) + Dist(w, e1) = Dist(r, e1) /\ Dist(r, e1) <= PIPESIZE /\ Dist(r, e1) # PIPESIZE
      BY <1>1, <1>3, <2>1
    <3>3. ASSUME NEW k \in 1 .. Dist(w, e1) PROVE D1[Slot(w + k - 1)] # Newline
      <4>1. Dist(w, e) + 1 \in 0 .. PIPESIZE /\ k \in 1 .. Dist(w, e) + 1
        BY <1>1, <1>3
      <4>2. Append(L, c)[k] = D1[Slot(w + k - 1)]
        <5>1. PICK d : d = Dist(w, e) + 1
          OBVIOUS
        <5>2. Append(L, c) = Ring(D1, w0, d) /\ d \in 0 .. PIPESIZE /\ k \in 1 .. d
          BY <1>8, <1>11, <4>1, <5>1
        <5>3. Ring(D1, w0, d)[k] = D1[Slot(w0 + k - 1)]
          <6>1. D1 \in [0 .. PIPESIZE - 1 -> Byte]
            BY <1>11
          <6>2. PICK D2 \in [0 .. PIPESIZE - 1 -> Byte], x \in Counter, n \in 0 .. PIPESIZE :
                   D2 = D1 /\ x = w0 /\ n = d
            BY <1>9, <5>2, <6>1
          <6>3. \A j \in 1 .. n : Ring(D2, x, n)[j] = D2[Slot(x + j - 1)]
            BY RingSeq
          <6> QED
            BY <5>2, <6>2, <6>3
        <5> QED
          BY <1>8, <5>2, <5>3
      <4>3. CASE k = Dist(w, e) + 1
        BY <1>6, <2>1, <4>2, <4>3, AppendProperties
      <4>4. CASE k # Dist(w, e) + 1
        <5>1. k \in 1 .. Dist(w, e)
          BY <1>1, <4>1, <4>4
        <5>2. Append(L, c)[k] = L[k]
          BY <1>6, <5>1, AppendProperties
        <5>3. L[k] = ring[Slot(w + k - 1)]
          <6>1. PICK d : d = Dist(w0, e0)
            OBVIOUS
          <6>2. L = Ring(D, w0, d) /\ d \in 0 .. PIPESIZE /\ k \in 1 .. d
            BY <1>1, <1>8, <1>9, <5>1, <6>1
          <6>3. Ring(D, w0, d)[k] = D[Slot(w0 + k - 1)]
            BY <1>9, <6>2, RingSeq
          <6> QED
            BY <1>8, <6>2, <6>3
        <5> QED
          BY <4>2, <5>1, <5>2, <5>3 DEF CInv
      <4> QED
        BY <4>3, <4>4
    <3> QED
      BY <1>2, <2>1, <3>1, <3>2, <3>3 DEF CInv
  <2>3. Con!Between(w, e)' = Append(L, c) /\ Con!Between(r, w)' = Q
    BY <1>1, <1>2, <1>3, <1>11, <1>12, <2>1, ConNext
  <2>4. ~Con!A!Ends(c)
    BY <1>1, <1>5, <1>6, <1>7, <1>14 DEF Con!A!Ends
  <2>5. Len(Q) + Len(L) < PIPESIZE
    BY <1>1, <1>6, <1>7
  <2>6. Con!A!Type(c)
    BY <1>6, <1>7, <2>3, <2>4, <2>5 DEF Con!A!Type
  <2> QED
    BY <2>2, <2>6 DEF Refines, Con!A!Next
<1> QED
  BY <1>13, <1>14

LEMMA ConInit ==
    ASSUME Sizes, Keys, Con!Init
    PROVE  CInv /\ Con!A!Init
<1>1. /\ r \in Counter /\ w = r /\ e = r /\ lock = 0 /\ PIPESIZE \in Nat \ {0}
      /\ ring \in [0 .. PIPESIZE - 1 -> Byte] /\ rd = [p \in Reader |-> Con!Idle]
  BY DEF Con!Init, Sizes, Counter, Keys, Con!NoOne
<1>2. Dist(r, r) = 0
  BY <1>1, DistEnds
<1>3. CInv
  <2>1. Con!TypeOK
    BY <1>1 DEF Con!TypeOK, Con!NoOne, Counter
  <2>2. rd \in [Reader -> Rd] /\ \A p \in Reader : rd[p].at # "sleep"
    <3>1. Con!Idle \in Rd /\ Con!Idle.at # "sleep"
      BY DEF Con!Idle, Rd
    <3> QED
      BY <1>1, <3>1
  <2>3. Dist(r, w) + Dist(w, e) = Dist(r, e) /\ Dist(r, e) <= PIPESIZE /\ w = e /\ 1 .. Dist(w, e) = {}
    BY <1>1, <1>2
  <2> QED
    BY <2>1, <2>2, <2>3 DEF CInv
<1>4. Con!Between(w, e) = <<>> /\ Con!Between(r, w) = <<>>
  <2>1. /\ Con!Between(w, e) \in Seq(Byte) /\ Len(Con!Between(w, e)) = 0
        /\ Con!Between(r, w) \in Seq(Byte) /\ Len(Con!Between(r, w)) = 0
    BY <1>1, <1>2, <1>3, ConNow
  <2> QED
    BY <2>1, EmptySeq
<1> QED
  BY <1>3, <1>4 DEF Con!A!Init

LEMMA ConStep ==
    ASSUME Sizes, Keys, CInv, [Con!Next]_(Con!conVars)
    PROVE  CInv' /\ Refines
<1>1. /\ r \in Counter /\ w \in Counter /\ e \in Counter /\ PIPESIZE \in Nat
      /\ Dist(w, e) \in 0 .. PIPESIZE /\ Dist(r, e) \in 0 .. PIPESIZE /\ Con!Minus(e, r) = Dist(r, e)
  BY ConTypes DEF Sizes
<1>2. CASE Con!consoleintr
  <2>1. PICK c \in Byte :
            \/ /\ c = Kill /\ e' = Con!KillLine /\ UNCHANGED <<ring, w, rd>>
            \/ /\ c = Erase /\ e' = (IF e # w THEN Con!Minus(e, 1) ELSE e) /\ UNCHANGED <<ring, w, rd>>
            \/ /\ c \notin {Kill, Erase} /\ Con!Minus(e, r) < PIPESIZE
               /\ ring' = [ring EXCEPT ![e % PIPESIZE] = c]
               /\ e' = Con!Plus(e, 1)
               /\ IF Con!Commits(c) THEN w' = e' /\ rd' = Con!Wakened ELSE UNCHANGED <<w, rd>>
            \/ /\ c \notin {Kill, Erase} /\ Con!Minus(e, r) >= PIPESIZE
               /\ UNCHANGED <<ring, e, w, rd>>
    BY <1>2 DEF Con!consoleintr
  <2>2. UNCHANGED <<r, lock>>
    BY <1>2 DEF Con!consoleintr
  <2>3. ASSUME e' = e, UNCHANGED <<ring, w, rd>> PROVE CInv' /\ Refines
    <3>1. CInv'
      BY <2>2, <2>3 DEF CInv, Con!TypeOK, Con!NoOne
    <3>2. UNCHANGED Con!A!absVars
      BY <2>2, <2>3 DEF Con!A!absVars, Con!Between
    <3> QED
      BY <3>1, <3>2 DEF Refines
  <2>4. CASE c = Kill /\ e' = Con!KillLine /\ UNCHANGED <<ring, w, rd>>
    <3>1. PICK n \in 0 .. Dist(w, e) : n = Dist(w, e)
      BY <1>1
    <3>2. Con!Minus(e, n) = w
      BY <1>1, <3>1, Backward
    <3>3. e' = Con!Minus(e, n) /\ n \in {0, 1, Dist(w, e)} /\ UNCHANGED <<ring, r, w, rd, lock>>
      BY <2>2, <2>4, <3>1, <3>2, KillLineIs
    <3> QED
      BY <3>3, EditStep
  <2>5. CASE c = Erase /\ e' = (IF e # w THEN Con!Minus(e, 1) ELSE e) /\ UNCHANGED <<ring, w, rd>>
    <3>1. CASE e # w
      <4>1. PICK n : n = 1
        OBVIOUS
      <4>2. Dist(w, e) # 0
        BY <1>1, <3>1, DistEnds
      <4>3. n \in 0 .. Dist(w, e)
        BY <1>1, <4>1, <4>2
      <4>4. e' = Con!Minus(e, n) /\ n \in {0, 1, Dist(w, e)} /\ UNCHANGED <<ring, r, w, rd, lock>>
        BY <2>2, <2>5, <3>1, <4>1
      <4> QED
        BY <4>3, <4>4, EditStep
    <3>2. CASE e = w
      BY <2>3, <2>5, <3>2
    <3> QED
      BY <3>1, <3>2
  <2>6. CASE /\ c \notin {Kill, Erase} /\ Con!Minus(e, r) < PIPESIZE
             /\ ring' = [ring EXCEPT ![e % PIPESIZE] = c]
             /\ e' = Con!Plus(e, 1)
             /\ IF Con!Commits(c) THEN w' = e' /\ rd' = Con!Wakened ELSE UNCHANGED <<w, rd>>
    <3>1. Dist(r, e) < PIPESIZE
      BY <1>1, <2>6
    <3> QED
      BY <2>2, <2>6, <3>1, TypeStep
  <2>7. CASE c \notin {Kill, Erase} /\ Con!Minus(e, r) >= PIPESIZE /\ UNCHANGED <<ring, e, w, rd>>
    BY <2>3, <2>7
  <2> QED
    BY <2>1, <2>4, <2>5, <2>6, <2>7
<1>3. ASSUME NEW p \in Reader, Con!consoleread(p) \/ Con!Wait(p) \/ Con!kill(p) PROVE CInv' /\ Refines
  BY <1>3, ReaderStep
<1>4. ASSUME NEW p \in Reader, Con!Take(p) PROVE CInv' /\ Refines
  BY <1>4, TakeStep
<1>5. CASE UNCHANGED Con!conVars
  <2>1. UNCHANGED <<ring, r, w, e, lock, rd>>
    BY <1>5 DEF Con!conVars
  <2>2. CInv'
    BY <2>1 DEF CInv, Con!TypeOK, Con!NoOne
  <2>3. UNCHANGED Con!A!absVars
    BY <2>1 DEF Con!A!absVars, Con!Between
  <2> QED
    BY <2>2, <2>3 DEF Refines
<1> QED
  BY <1>2, <1>3, <1>4, <1>5 DEF Con!Next

\* console.c: what consoleread() returns is what was typed, line by line and in order, less
\* what was erased before its line ended, also when the counters wrap around.
THEOREM LineInputHolds == ASSUME Sizes, Keys PROVE Con!Spec => Con!A!Spec
<1>1. Con!Init => CInv /\ Con!A!Init
  BY ConInit
<1>2. CInv /\ [Con!Next]_(Con!conVars) => CInv' /\ [Con!A!Next]_(Con!A!absVars)
  BY ConStep DEF Refines
<1> QED
  BY <1>1, <1>2, PTL DEF Con!Spec, Con!A!Spec

\* console.c: the counters stay uints and cons.lock is free or held by a reader.
THEOREM ConsoleTypeCorrect == ASSUME Sizes, Keys PROVE Con!Spec => []Con!TypeOK
<1>1. Con!Init => CInv
  BY ConInit
<1>2. CInv /\ [Con!Next]_(Con!conVars) => CInv'
  BY ConStep
<1>3. CInv => Con!TypeOK
  BY DEF CInv
<1> QED
  BY <1>1, <1>2, <1>3, PTL DEF Con!Spec

\* console.c: nobody sleeps while there is a line to read, and a full ring can be read.
THEOREM LineAwaitedHolds == ASSUME Sizes, Keys PROVE Con!Spec => []Con!LineAwaited
<1>1. Con!Init => CInv
  BY ConInit
<1>2. CInv /\ [Con!Next]_(Con!conVars) => CInv'
  BY ConStep
<1>3. CInv => Con!LineAwaited
  <2> SUFFICES ASSUME CInv PROVE Con!LineAwaited
    OBVIOUS
  <2>1. /\ r \in Counter /\ w \in Counter /\ e \in Counter /\ Con!Minus(e, r) = Dist(r, e)
        /\ Dist(r, e) = PIPESIZE => w = e
    BY ConTypes DEF CInv
  <2>2. PIPESIZE # 0 /\ Dist(r, r) = 0
    BY <2>1, DistEnds DEF Sizes
  <2> QED
    BY <2>1, <2>2 DEF Con!LineAwaited, CInv
<1> QED
  BY <1>1, <1>2, <1>3, PTL DEF Con!Spec

--------------------------------------------------------------------------------
(* The arguments of system calls *)

CONSTANTS KERNBASE, Word, StatSize, MAXARG

VARIABLES sz, esp, sys, touched

Args == INSTANCE SyscallArgs

\* User memory is in the lower half of what a uint can address, and what the kernel copies on
\* its own account is less than that.
Widths ==
    /\ UintMod \in Nat /\ KERNBASE \in Nat /\ Word \in Nat \ {0} /\ StatSize \in Nat /\ MAXARG \in Nat
    /\ KERNBASE <= UintMod \div 2 /\ 2 * Word < UintMod \div 2 /\ StatSize < UintMod \div 2

CallState == [at : {"user", "rw", "fstat", "path", "ptr", "count", "use", "uargv", "argv", "exec"},
              arg : Nat, n : Int, uargv : Args!Uint, i : Nat]

\* What the kernel knows of its arguments at each fetch, in a process of size z.
Known(c, z) ==
    /\ c \in CallState /\ c.i <= MAXARG
    /\ -UintMod <= c.n /\ c.n < UintMod \div 2
    /\ c.at = "use" => c.n >= 0 /\ c.uargv + c.n <= z
    /\ c.at = "exec" => c.i < MAXARG

ArgInv ==
    /\ sz \in 0 .. KERNBASE - 1 /\ esp \in Args!Uint /\ touched \subseteq 0 .. sz - 1
    /\ Known(sys, sz)

\* What fetchint() lets pass is in the process: the sum cannot wrap around.
LEMMA FetchWithin ==
    ASSUME Widths, NEW z \in 0 .. KERNBASE - 1, NEW a \in Args!Uint, a < z, NEW n \in Nat, n < UintMod \div 2
    PROVE  Args!Plus(a, n) = a + n
<1>1. PICK h \in Nat : h = UintMod \div 2 /\ 2 * h <= UintMod
  BY DEF Widths
<1>2. a + n \in 0 .. UintMod - 1 /\ UintMod \in Nat
  BY <1>1 DEF Widths, Args!Uint
<1> QED
  BY <1>2 DEF Args!Plus

LEMMA ArgAt ==
    ASSUME Widths, ArgInv, NEW n \in Nat
    PROVE  Args!Arg(n) \in Args!Uint
<1>1. UintMod \in Nat \ {0} /\ esp \in Nat /\ Word \in Nat
  BY DEF Widths, ArgInv, Args!Uint
<1>2. PICK m \in Nat : m = esp + (Word + Word * n)
  <2>1. Word * n \in Nat
    BY <1>1
  <2> QED
    BY <1>1, <2>1
<1>3. m % UintMod \in 0 .. UintMod - 1
  BY <1>1
<1> QED
  BY <1>2, <1>3 DEF Args!Arg, Args!Plus, Args!Uint

LEMMA FetchedInt ==
    ASSUME Widths, ArgInv, NEW a \in Args!Uint, Args!Fetched(a)
    PROVE  Args!IntAt(a) \subseteq 0 .. sz - 1
<1>1. sz \in 0 .. KERNBASE - 1 /\ a < sz /\ Args!Plus(a, Word) <= sz
  BY DEF ArgInv, Args!Fetched
<1>2. Word \in Nat /\ Word < UintMod \div 2
  BY DEF Widths
<1>3. PICK z \in 0 .. KERNBASE - 1 : z = sz
  BY <1>1
<1>4. Args!Plus(a, Word) = a + Word
  BY <1>1, <1>2, <1>3, FetchWithin
<1>5. a + Word <= sz /\ a \in Nat /\ sz \in Nat
  BY <1>1, <1>4 DEF Args!Uint, Widths
<1> QED
  BY <1>2, <1>5 DEF Args!IntAt

\* A step that keeps to the process.
LEMMA ArgGoes ==
    ASSUME Widths, ArgInv, NEW c, Known(c, sz), Args!Goes(c), touched' \subseteq 0 .. sz - 1
    PROVE  ArgInv'
BY DEF ArgInv, Args!Goes, Known

LEMMA CallKnown ==
    ASSUME Widths, NEW z \in Nat, NEW where \in {"user", "rw", "fstat", "path", "ptr", "count", "uargv", "argv"},
           NEW a \in Nat, NEW m \in Int, -UintMod <= m, m < UintMod \div 2, NEW u \in Args!Uint
    PROVE  Known([at |-> where, arg |-> a, n |-> m, uargv |-> u, i |-> 0], z)
BY DEF Known, CallState, Widths

LEMMA ArgFails ==
    ASSUME Widths, ArgInv, NEW used, used \subseteq 0 .. sz - 1, Args!Fails(used)
    PROVE  ArgInv'
<1>1. Known(Args!Call("user"), sz)
  <2>1. sz \in Nat /\ 0 \in Args!Uint /\ -UintMod <= 0 /\ 0 < UintMod \div 2
    BY DEF ArgInv, Widths, Args!Uint
  <2> QED
    BY <2>1, CallKnown DEF Args!Call
<1> QED
  BY <1>1, ArgGoes DEF Args!Fails

\* The calls that begin with an argument, or with the place of a buffer.
LEMMA CallOf ==
    ASSUME NEW where, NEW m \in Int
    PROVE  /\ \A a \in Nat : [Args!Call(where) EXCEPT !.arg = a, !.n = m] = [at |-> where, arg |-> a, n |-> m, uargv |-> 0, i |-> 0]
           /\ \A u \in Args!Uint : [Args!Call(where) EXCEPT !.n = m, !.uargv = u] = [at |-> where, arg |-> 0, n |-> m, uargv |-> u, i |-> 0]
<1>1. ASSUME NEW a \in Nat
      PROVE  [Args!Call(where) EXCEPT !.arg = a, !.n = m] = [at |-> where, arg |-> a, n |-> m, uargv |-> 0, i |-> 0]
  <2>1. [Args!Call(where) EXCEPT !.arg = a] = [at |-> where, arg |-> a, n |-> 0, uargv |-> 0, i |-> 0]
    BY DEF Args!Call
  <2>2. [[at |-> where, arg |-> a, n |-> 0, uargv |-> 0, i |-> 0] EXCEPT !.n = m] = [at |-> where, arg |-> a, n |-> m, uargv |-> 0, i |-> 0]
    OBVIOUS
  <2> QED
    BY <2>1, <2>2, Zenon
<1>2. ASSUME NEW u \in Args!Uint
      PROVE  [Args!Call(where) EXCEPT !.n = m, !.uargv = u] = [at |-> where, arg |-> 0, n |-> m, uargv |-> u, i |-> 0]
  <2>1. [Args!Call(where) EXCEPT !.n = m] = [at |-> where, arg |-> 0, n |-> m, uargv |-> 0, i |-> 0]
    BY DEF Args!Call
  <2>2. [[at |-> where, arg |-> 0, n |-> m, uargv |-> 0, i |-> 0] EXCEPT !.uargv = u] = [at |-> where, arg |-> 0, n |-> m, uargv |-> u, i |-> 0]
    OBVIOUS
  <2> QED
    BY <2>1, <2>2, Zenon
<1> QED
  BY <1>1, <1>2

\* The string that argstr() found, and what it looked at when it found none.
LEMMA StrWithin ==
    ASSUME Widths, ArgInv, NEW a \in Args!Uint, a < sz
    PROVE  /\ a .. sz - 1 \subseteq 0 .. sz - 1
           /\ \A n \in 0 .. sz - 1 - a : Args!Str(a, n) \subseteq 0 .. sz - 1
<1>1. a \in Nat /\ sz \in Nat
  BY DEF Args!Uint, ArgInv, Widths
<1> QED
  BY <1>1 DEF Args!Str

LEMMA ArgInit ==
    ASSUME Widths, Args!Init
    PROVE  ArgInv
<1>1. sz \in 0 .. KERNBASE - 1 /\ esp \in Args!Uint /\ touched = {} /\ sys = Args!Call("user")
  BY DEF Args!Init
<1>2. sz \in Nat /\ 0 \in Args!Uint /\ -UintMod <= 0 /\ 0 < UintMod \div 2
  BY <1>1 DEF Widths, Args!Uint
<1>3. Known(Args!Call("user"), sz)
  BY <1>2, CallKnown DEF Args!Call
<1> QED
  BY <1>1, <1>3 DEF ArgInv

\* What every action starts from.
LEMMA ArgNow ==
    ASSUME Widths, ArgInv
    PROVE  /\ sz \in Nat /\ sys \in CallState /\ sys.arg \in Nat /\ sys.n \in Int /\ sys.uargv \in Args!Uint
           /\ sys.i \in Nat /\ sys.i <= MAXARG /\ -UintMod <= sys.n /\ sys.n < UintMod \div 2
           /\ 0 \in Args!Uint /\ -UintMod <= 0 /\ 0 < UintMod \div 2
           /\ Args!Arg(0) \in Args!Uint /\ Args!Arg(1) \in Args!Uint /\ Args!Arg(2) \in Args!Uint
           /\ Args!Arg(sys.arg) \in Args!Uint
<1>1. sys \in CallState /\ sys.i <= MAXARG /\ -UintMod <= sys.n /\ sys.n < UintMod \div 2
  BY DEF ArgInv, Known
<1>2. sys.arg \in Nat /\ sys.n \in Int /\ sys.uargv \in Args!Uint /\ sys.i \in Nat
  BY <1>1 DEF CallState
<1>3. sz \in Nat /\ 0 \in Args!Uint /\ -UintMod <= 0 /\ 0 < UintMod \div 2
  BY DEF ArgInv, Widths, Args!Uint
<1>4. \A n \in Nat : Args!Arg(n) \in Args!Uint
  BY ArgAt
<1> QED
  BY <1>1, <1>2, <1>3, <1>4

\* The calls begin, and take their first argument.
LEMMA SyscallStep ==
    ASSUME Widths, ArgInv, Args!syscall \/ Args!argfd
    PROVE  ArgInv'
<1>1. /\ sz \in Nat /\ 0 \in Args!Uint /\ -UintMod <= 0 /\ 0 < UintMod \div 2 /\ Args!Arg(0) \in Args!Uint
  BY ArgNow
<1>2. Known(Args!Call("rw"), sz) /\ Known(Args!Call("fstat"), sz) /\ Known(Args!Call("path"), sz) /\ Known(Args!Call("count"), sz)
  BY <1>1, CallKnown DEF Args!Call
<1>3. Known([Args!Call("ptr") EXCEPT !.n = 2 * Word], sz)
  <2>1. PICK m \in Int : m = 2 * Word /\ -UintMod <= m /\ m < UintMod \div 2
    BY DEF Widths
  <2>2. Known([at |-> "ptr", arg |-> 0, n |-> m, uargv |-> 0, i |-> 0], sz)
    BY <1>1, <2>1, CallKnown
  <2>3. [Args!Call("ptr") EXCEPT !.n = 2 * Word] = [at |-> "ptr", arg |-> 0, n |-> m, uargv |-> 0, i |-> 0]
    BY <2>1 DEF Args!Call
  <2> QED
    BY <2>2, <2>3
<1>4. Known([Args!Call("ptr") EXCEPT !.arg = 1, !.n = StatSize], sz)
  <2>1. PICK m \in Int, a \in Nat : m = StatSize /\ a = 1 /\ -UintMod <= m /\ m < UintMod \div 2
    BY DEF Widths
  <2>2. Known([at |-> "ptr", arg |-> a, n |-> m, uargv |-> 0, i |-> 0], sz)
    BY <1>1, <2>1, CallKnown
  <2>3. [Args!Call("ptr") EXCEPT !.arg = 1, !.n = StatSize] = [at |-> "ptr", arg |-> a, n |-> m, uargv |-> 0, i |-> 0]
    <3>1. PICK where : where = "ptr"
      OBVIOUS
    <3>2. [Args!Call(where) EXCEPT !.arg = a, !.n = m] = [at |-> where, arg |-> a, n |-> m, uargv |-> 0, i |-> 0]
      BY CallOf
    <3> QED
      BY <2>1, <3>1, <3>2
  <2> QED
    BY <2>2, <2>3
<1>5. CASE Args!syscall
  <2>1. touched' \subseteq 0 .. sz - 1
    BY <1>5 DEF Args!syscall
  <2>2. \/ Args!Goes(Args!Call("rw")) \/ Args!Goes(Args!Call("fstat")) \/ Args!Goes(Args!Call("path"))
        \/ Args!Goes([Args!Call("ptr") EXCEPT !.n = 2 * Word])
    BY <1>5 DEF Args!syscall
  <2> QED
    BY <1>2, <1>3, <2>1, <2>2, ArgGoes
<1>6. CASE Args!argfd
  <2>1. Args!Fetched(Args!Arg(0)) => Args!IntAt(Args!Arg(0)) \subseteq 0 .. sz - 1
    BY <1>1, FetchedInt
  <2>2. CASE Args!Fails(IF Args!Fetched(Args!Arg(0)) THEN Args!IntAt(Args!Arg(0)) ELSE {})
    <3>1. (IF Args!Fetched(Args!Arg(0)) THEN Args!IntAt(Args!Arg(0)) ELSE {}) \subseteq 0 .. sz - 1
      BY <2>1
    <3> QED
      BY <2>2, <3>1, ArgFails
  <2>3. CASE /\ Args!Fetched(Args!Arg(0)) /\ touched' = Args!IntAt(Args!Arg(0))
             /\ IF sys.at = "rw" THEN Args!Goes(Args!Call("count"))
                ELSE Args!Goes([Args!Call("ptr") EXCEPT !.arg = 1, !.n = StatSize])
    <3>1. touched' \subseteq 0 .. sz - 1
      BY <2>1, <2>3
    <3> QED
      BY <1>2, <1>4, <2>3, <3>1, ArgGoes
  <2> QED
    BY <1>6, <2>2, <2>3 DEF Args!argfd
<1> QED
  BY <1>5, <1>6

\* The size and the place of a buffer.
LEMMA BufferStep ==
    ASSUME Widths, ArgInv, Args!argint \/ Args!argptr \/ Args!Use
    PROVE  ArgInv'
<1>1. /\ sz \in Nat /\ sys \in CallState /\ sys.arg \in Nat /\ sys.n \in Int /\ sys.uargv \in Args!Uint
      /\ -UintMod <= sys.n /\ sys.n < UintMod \div 2 /\ 0 \in Args!Uint
      /\ Args!Arg(2) \in Args!Uint /\ Args!Arg(sys.arg) \in Args!Uint
  BY ArgNow
<1>2. {} \subseteq 0 .. sz - 1
  OBVIOUS
<1>3. CASE Args!argint
  <2>1. CASE ~Args!Fetched(Args!Arg(2))
    BY <1>2, <1>3, <2>1, ArgFails DEF Args!argint
  <2>2. CASE Args!Fetched(Args!Arg(2))
    <3>1. PICK v \in Args!Uint :
              /\ Args!Goes([Args!Call("ptr") EXCEPT !.arg = 1, !.n = Args!AsInt(v)])
              /\ touched' = Args!IntAt(Args!Arg(2))
      BY <1>3, <2>2 DEF Args!argint
    <3>2. PICK m \in Int, a \in Nat : m = Args!AsInt(v) /\ a = 1 /\ -UintMod <= m /\ m < UintMod \div 2
      <4>1. PICK h \in Nat : h = UintMod \div 2 /\ 2 * h <= UintMod /\ UintMod <= 2 * h + 1 /\ h > 0
        BY DEF Widths
      <4>2. v \in Nat /\ v < UintMod /\ UintMod \in Nat
        BY DEF Args!Uint, Widths
      <4>3. Args!AsInt(v) = IF v < h THEN v ELSE v - UintMod
        BY <4>1 DEF Args!AsInt
      <4> QED
        BY <4>1, <4>2, <4>3
    <3>3. Known([at |-> "ptr", arg |-> a, n |-> m, uargv |-> 0, i |-> 0], sz)
      BY <1>1, <3>2, CallKnown
    <3>4. [Args!Call("ptr") EXCEPT !.arg = 1, !.n = Args!AsInt(v)] = [at |-> "ptr", arg |-> a, n |-> m, uargv |-> 0, i |-> 0]
      <4>1. PICK where : where = "ptr"
        OBVIOUS
      <4>2. [Args!Call(where) EXCEPT !.arg = a, !.n = m] = [at |-> where, arg |-> a, n |-> m, uargv |-> 0, i |-> 0]
        BY CallOf
      <4> QED
        BY <3>2, <4>1, <4>2
    <3>5. touched' \subseteq 0 .. sz - 1
      BY <1>1, <2>2, <3>1, FetchedInt
    <3> QED
      BY <3>1, <3>3, <3>4, <3>5, ArgGoes
  <2> QED
    BY <2>1, <2>2
<1>4. CASE Args!argptr
  <2>1. CASE ~Args!Fetched(Args!Arg(sys.arg))
    BY <1>2, <1>4, <2>1, ArgFails DEF Args!argptr
  <2>2. CASE Args!Fetched(Args!Arg(sys.arg))
    <3>1. PICK p \in Args!Uint :
              IF Args!Refused(p, sys.n) THEN Args!Fails(Args!IntAt(Args!Arg(sys.arg)))
              ELSE /\ Args!Goes([Args!Call("use") EXCEPT !.n = sys.n, !.uargv = p])
                   /\ touched' = Args!IntAt(Args!Arg(sys.arg))
      BY <1>4, <2>2 DEF Args!argptr
    <3>2. Args!IntAt(Args!Arg(sys.arg)) \subseteq 0 .. sz - 1
      BY <1>1, <2>2, FetchedInt
    <3>3. CASE Args!Refused(p, sys.n)
      BY <3>1, <3>2, <3>3, ArgFails
    <3>4. CASE ~Args!Refused(p, sys.n)
      <4>1. PICK n \in Int, z \in 0 .. KERNBASE - 1 : n = sys.n /\ z = sz
        BY <1>1 DEF ArgInv
      <4>2. n >= 0 /\ p < z /\ Args!Plus(p, n) <= z /\ n < UintMod \div 2 /\ -UintMod <= n
        <5>1. PICK q \in Int : q = Args!Plus(p, n)
          <6>1. p + n \in Int /\ UintMod \in Nat \ {0}
            BY DEF Args!Uint, Widths
          <6> QED
            BY <6>1 DEF Args!Plus
        <5>2. ~(n < 0 \/ p >= z \/ q > z)
          BY <3>4, <4>1, <5>1 DEF Args!Refused
        <5>3. p \in Nat /\ z \in Nat
          BY DEF Args!Uint, Widths
        <5> QED
          BY <1>1, <4>1, <5>1, <5>2, <5>3
      <4>3. Args!Plus(p, n) = p + n
        BY <4>2, FetchWithin
      <4>4. Known([at |-> "use", arg |-> 0, n |-> n, uargv |-> p, i |-> 0], z)
        BY <4>2, <4>3 DEF Known, CallState, Widths
      <4>5. [Args!Call("use") EXCEPT !.n = sys.n, !.uargv = p] = [at |-> "use", arg |-> 0, n |-> n, uargv |-> p, i |-> 0]
        <5>1. PICK where : where = "use"
          OBVIOUS
        <5>2. \A u \in Args!Uint : [Args!Call(where) EXCEPT !.n = n, !.uargv = u] = [at |-> where, arg |-> 0, n |-> n, uargv |-> u, i |-> 0]
          BY CallOf
        <5>3. [Args!Call(where) EXCEPT !.n = n, !.uargv = p] = [at |-> where, arg |-> 0, n |-> n, uargv |-> p, i |-> 0]
          BY <5>2, Zenon
        <5> QED
          BY <4>1, <5>1, <5>3
      <4> QED
        BY <3>1, <3>2, <3>4, <4>1, <4>4, <4>5, ArgGoes
    <3> QED
      BY <3>3, <3>4
  <2> QED
    BY <2>1, <2>2
<1>5. CASE Args!Use
  <2>1. sys.n >= 0 /\ sys.uargv + sys.n <= sz
    BY <1>5 DEF Args!Use, ArgInv, Known
  <2>2. sys.uargv .. sys.uargv + sys.n - 1 \subseteq 0 .. sz - 1
    <3>1. PICK u \in Nat, n \in Int : u = sys.uargv /\ n = sys.n
      BY <1>1 DEF Args!Uint
    <3> QED
      BY <1>1, <2>1, <3>1
  <2> QED
    BY <1>5, <2>2, ArgFails DEF Args!Use
<1> QED
  BY <1>3, <1>4, <1>5

\* The arguments of exec().
LEMMA ExecStep ==
    ASSUME Widths, ArgInv, Args!argstr \/ Args!UArgv \/ Args!sys_exec \/ Args!Exec
    PROVE  ArgInv'
<1>1. /\ sz \in Nat /\ sys \in CallState /\ sys.uargv \in Args!Uint /\ sys.i \in Nat /\ sys.i <= MAXARG
      /\ 0 \in Args!Uint /\ -UintMod <= 0 /\ 0 < UintMod \div 2
      /\ Args!Arg(0) \in Args!Uint /\ Args!Arg(1) \in Args!Uint
  BY ArgNow
<1>2. {} \subseteq 0 .. sz - 1
  OBVIOUS
<1>3. CASE Args!argstr
  <2>1. CASE ~Args!Fetched(Args!Arg(0))
    BY <1>2, <1>3, <2>1, ArgFails DEF Args!argstr
  <2>2. CASE Args!Fetched(Args!Arg(0))
    <3>1. Args!IntAt(Args!Arg(0)) \subseteq 0 .. sz - 1
      BY <1>1, <2>2, FetchedInt
    <3>2. PICK p \in Args!Uint :
            \/ p >= sz /\ Args!Fails(Args!IntAt(Args!Arg(0)))
            \/ p < sz /\ Args!Fails(p .. sz - 1)
            \/ \E n \in 0 .. sz - 1 - p : Args!Goes(Args!Call("uargv")) /\ touched' = Args!Str(p, n)
      BY <1>3, <2>2 DEF Args!argstr
    <3>3. CASE p >= sz /\ Args!Fails(Args!IntAt(Args!Arg(0)))
      BY <3>1, <3>3, ArgFails
    <3>4. CASE p < sz /\ Args!Fails(p .. sz - 1)
      <4>1. p .. sz - 1 \subseteq 0 .. sz - 1
        BY <3>4, StrWithin
      <4> QED
        BY <3>4, <4>1, ArgFails
    <3>5. CASE \E n \in 0 .. sz - 1 - p : Args!Goes(Args!Call("uargv")) /\ touched' = Args!Str(p, n)
      <4>1. PICK n \in 0 .. sz - 1 - p : Args!Goes(Args!Call("uargv")) /\ touched' = Args!Str(p, n)
        BY <3>5
      <4>2. p < sz
        BY <1>1, <4>1 DEF Args!Uint, Widths
      <4>3. touched' \subseteq 0 .. sz - 1
        BY <4>1, <4>2, StrWithin
      <4>4. Known(Args!Call("uargv"), sz)
        BY <1>1, CallKnown DEF Args!Call
      <4> QED
        BY <4>1, <4>3, <4>4, ArgGoes
    <3> QED
      BY <3>2, <3>3, <3>4, <3>5
  <2> QED
    BY <2>1, <2>2
<1>4. CASE Args!UArgv
  <2>1. CASE ~Args!Fetched(Args!Arg(1))
    BY <1>2, <1>4, <2>1, ArgFails DEF Args!UArgv
  <2>2. CASE Args!Fetched(Args!Arg(1))
    <3>1. PICK p \in Args!Uint :
              Args!Goes([Args!Call("argv") EXCEPT !.uargv = p]) /\ touched' = Args!IntAt(Args!Arg(1))
      BY <1>4, <2>2 DEF Args!UArgv
    <3>2. Known([at |-> "argv", arg |-> 0, n |-> 0, uargv |-> p, i |-> 0], sz)
      BY <1>1, CallKnown
    <3>3. [Args!Call("argv") EXCEPT !.uargv = p] = [at |-> "argv", arg |-> 0, n |-> 0, uargv |-> p, i |-> 0]
      BY DEF Args!Call
    <3>4. touched' \subseteq 0 .. sz - 1
      BY <1>1, <2>2, <3>1, FetchedInt
    <3> QED
      BY <3>1, <3>2, <3>3, <3>4, ArgGoes
  <2> QED
    BY <2>1, <2>2
<1>5. CASE Args!sys_exec
  <2>1. PICK addr : addr = Args!Plus(sys.uargv, Word * sys.i)
    OBVIOUS
  <2>2. addr \in Args!Uint
    <3>1. PICK m \in Nat : m = sys.uargv + Word * sys.i
      <4>1. sys.uargv \in Nat /\ Word \in Nat
        BY <1>1 DEF Args!Uint, Widths
      <4>2. Word * sys.i \in Nat
        BY <1>1, <4>1
      <4> QED
        BY <4>1, <4>2
    <3>2. UintMod \in Nat \ {0}
      BY <1>1 DEF Args!Uint, Widths
    <3> QED
      BY <2>1, <3>1, <3>2 DEF Args!Plus, Args!Uint
  <2>3. sys.at = "argv" /\
        (IF sys.i >= MAXARG \/ ~Args!Fetched(addr) THEN Args!Fails({})
         ELSE \/ Args!Goes([sys EXCEPT !.at = "exec"]) /\ touched' = Args!IntAt(addr)
              \/ \E p \in Args!Uint \ {0} :
                  \/ p >= sz /\ Args!Fails(Args!IntAt(addr))
                  \/ p < sz /\ Args!Fails(p .. sz - 1)
                  \/ \E n \in 0 .. sz - 1 - p : Args!Goes([sys EXCEPT !.i = @ + 1]) /\ touched' = Args!Str(p, n))
    BY <1>5, <2>1 DEF Args!sys_exec
  <2>4. CASE sys.i >= MAXARG \/ ~Args!Fetched(addr)
    BY <1>2, <2>3, <2>4, ArgFails
  <2>5. CASE ~(sys.i >= MAXARG \/ ~Args!Fetched(addr))
    <3>1. Args!IntAt(addr) \subseteq 0 .. sz - 1 /\ sys.i < MAXARG
      BY <1>1, <2>2, <2>5, FetchedInt DEF Widths
    <3>2. Known(sys, sz)
      BY DEF ArgInv
    <3>3. CASE Args!Goes([sys EXCEPT !.at = "exec"]) /\ touched' = Args!IntAt(addr)
      <4>1. Known([sys EXCEPT !.at = "exec"], sz)
        BY <3>1, <3>2 DEF Known, CallState
      <4> QED
        BY <3>1, <3>3, <4>1, ArgGoes
    <3>4. ASSUME NEW p \in Args!Uint, p >= sz /\ Args!Fails(Args!IntAt(addr)) PROVE ArgInv'
      BY <3>1, <3>4, ArgFails
    <3>5. ASSUME NEW p \in Args!Uint, p < sz /\ Args!Fails(p .. sz - 1) PROVE ArgInv'
      <4>1. p .. sz - 1 \subseteq 0 .. sz - 1
        BY <3>5, StrWithin
      <4> QED
        BY <3>5, <4>1, ArgFails
    <3>6. ASSUME NEW p \in Args!Uint, NEW n \in 0 .. sz - 1 - p,
                 Args!Goes([sys EXCEPT !.i = @ + 1]) /\ touched' = Args!Str(p, n)
          PROVE  ArgInv'
      <4>1. p < sz
        BY <1>1, <3>6 DEF Args!Uint, Widths
      <4>2. touched' \subseteq 0 .. sz - 1
        BY <3>6, <4>1, StrWithin
      <4>3. Known([sys EXCEPT !.i = sys.i + 1], sz)
        <5>1. sys.i + 1 \in Nat /\ sys.i + 1 <= MAXARG
          BY <1>1, <3>1 DEF Widths
        <5>2. [sys EXCEPT !.i = sys.i + 1].at = "argv"
          BY <1>1, <2>3 DEF CallState
        <5> QED
          BY <3>2, <5>1, <5>2 DEF Known, CallState
      <4> QED
        BY <3>6, <4>2, <4>3, ArgGoes
    <3> QED
      BY <2>3, <2>5, <3>3, <3>4, <3>5, <3>6
  <2> QED
    BY <2>4, <2>5
<1>6. CASE Args!Exec
  BY <1>2, <1>6, ArgFails DEF Args!Exec
<1> QED
  BY <1>3, <1>4, <1>5, <1>6

LEMMA ArgStep ==
    ASSUME Widths, ArgInv, [Args!Next]_(Args!argVars)
    PROVE  ArgInv'
<1>1. CASE UNCHANGED Args!argVars
  BY <1>1 DEF Args!argVars, ArgInv, Known
<1> QED
  BY <1>1, SyscallStep, BufferStep, ExecStep DEF Args!Next

\* syscall.c: whatever the stack pointer and the arguments are, the kernel uses addresses of
\* the process only, also where sums wrap around.
THEOREM WithinProcessHolds == ASSUME Widths PROVE Args!Spec => []Args!WithinProcess
<1>1. Args!Init => ArgInv
  BY ArgInit
<1>2. ArgInv /\ [Args!Next]_(Args!argVars) => ArgInv'
  BY ArgStep
<1>3. ArgInv => Args!WithinProcess
  BY DEF ArgInv, Args!WithinProcess
<1> QED
  BY <1>1, <1>2, <1>3, PTL DEF Args!Spec

\* sysfile.c, exec.c: the arguments and the null behind them fit argv[], for any MAXARG.
THEOREM ArgvFitsHolds == ASSUME Widths PROVE Args!Spec => [](Args!TypeOK /\ Args!ArgvFits)
<1>1. Args!Init => ArgInv
  BY ArgInit
<1>2. ArgInv /\ [Args!Next]_(Args!argVars) => ArgInv'
  BY ArgStep
<1>3. ArgInv => Args!TypeOK /\ Args!ArgvFits
  <2> SUFFICES ASSUME ArgInv PROVE Args!TypeOK /\ Args!ArgvFits
    OBVIOUS
  <2>1. sys \in CallState /\ sys.i <= MAXARG /\ -UintMod <= sys.n /\ sys.n < UintMod \div 2
    BY DEF ArgInv, Known
  <2>2. sys.n \in -UintMod .. UintMod /\ sys.i \in 0 .. MAXARG
    <3>1. PICK n \in Int, i \in Nat : n = sys.n /\ i = sys.i
      BY <2>1 DEF CallState
    <3> QED
      BY <2>1, <3>1 DEF Widths
  <2> QED
    BY <2>2 DEF ArgInv, Known, Args!TypeOK, Args!ArgvFits
<1> QED
  BY <1>1, <1>2, <1>3, PTL DEF Args!Spec
===============================================================================
