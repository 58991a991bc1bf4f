------------------------------ MODULE CowProofs ------------------------------
(***************************************************************************)
(* Theorems about copy-on-write memory, for every number of processes,     *)
(* pages and entries per table: reference counts are exact, no entry maps  *)
(* a free page, a page that may be written is nobody else's, and processes *)
(* cannot tell copy-on-write from copying (PrivateMemory), up to and with  *)
(* the first race of two processes for the list of free pages.             *)
(*                                                                         *)
(* The invariant has a part about control (which call may be where, which  *)
(* directory it works on, which pages that directory maps by now) and a    *)
(* part about memory, which rests on the first: a directory is worked on   *)
(* by one process at a time.                                               *)
(***************************************************************************)
EXTENDS Cow, FiniteSetTheorems, TLAPS

\* The places of a call that fill a directory, empty it, replace one page.
Building == {"kstack", "setupkvm", "share", "grow", "map"}

Dropping == {"drop", "free", "decr"}

Copying == {"own", "copy", "leave", "remap"}

Places == {"user"} \cup Building \cup Dropping \cup Copying

Call == [op : {"none", "fork", "exec", "sbrk", "cow", "wait"}, at : Places, d : Dir,
         v : 0 .. MaxSz, hi : 0 .. MaxSz, nsz : 0 .. MaxSz, m : Page \cup {NULL},
         cnt : Nat, c : Proc \cup {NULL}, bad : BOOLEAN]

Slot == [state : {"UNUSED", "EMBRYO", "RUNNABLE", "ZOMBIE"},
         parent : Proc \cup {NULL}, sz : 0 .. MaxSz, pgdir : Dir]

Pte == [pg : Page \cup {NULL}, w : BOOLEAN]

PtType == [Dir -> [VPage -> Pte]]

CowType ==
    /\ nfree \in Nat
    /\ used \subseteq Page
    /\ ref \in [Page -> Nat]
    /\ content \in [Page -> Val \cup {JUNK}]
    /\ pt \in PtType
    /\ tabs \in [Dir -> SUBSET VPage]
    /\ proc \in [Proc -> Slot]
    /\ k \in [Proc -> Call]

--------------------------------------------------------------------------------
(* Control *)

\* Where a call can be.
PlaceOK(r) ==
    /\ r.at = "user" => r = User
    /\ r.op = "none" => r.at = "user"
    /\ r.op = "fork" => r.at \in {"kstack", "setupkvm", "share"} \cup Dropping
    /\ r.op = "exec" => r.at \in {"setupkvm", "grow", "map"} \cup Dropping
    /\ r.op = "sbrk" => r.at \in {"grow", "map"} \cup Dropping
    /\ r.op = "cow" => r.at \in Copying
    /\ r.op = "wait" => r.at \in Dropping

Alive(q) == proc[q].state \in {"RUNNABLE", "ZOMBIE"}

\* Whose directory a call works on.
OwnerOK(p) ==
    /\ Alive(p) => proc[p].pgdir[1] = p
    /\ Busy(p) => Running(p)
    /\ k[p].op \in {"sbrk", "cow"} => k[p].c = NULL /\ k[p].d = proc[p].pgdir
    /\ k[p].op = "exec" => k[p].c = NULL /\ k[p].d = Other(proc[p].pgdir)
    /\ k[p].op = "fork" =>
        k[p].c \in Proc /\ proc[k[p].c].state = "EMBRYO" /\ k[p].d = <<k[p].c, 0>>
    /\ k[p].op = "wait" =>
        k[p].c \in Proc /\ proc[k[p].c].state = "ZOMBIE" /\ k[p].d = proc[k[p].c].pgdir

\* No two calls have the same child, nor the same page in hand.
Apart ==
    \A p, q \in Proc : p # q =>
        /\ k[p].c # NULL => k[p].c # k[q].c
        /\ k[p].m # NULL => k[p].m # k[q].m

\* Where deallocuvm() goes down to.
Lo(r, sz) == IF r.op # "sbrk" THEN 0 ELSE IF r.nsz < sz THEN r.nsz ELSE sz

\* How far a call has come; sz is the size of the process.
BoundOK(r, sz) ==
    /\ r.at \in {"kstack", "setupkvm"} => r.v = 0
    /\ r.at = "share" => r.v <= sz
    /\ r.at \in {"grow", "map"} => r.v <= r.hi
    /\ r.at \in {"map", "free", "decr"} => r.v < r.hi
    /\ r.at \in Copying => r.v < sz
    /\ r.at \in {"map", "leave", "remap"} => r.m # NULL
    /\ r.op = "sbrk" /\ r.at \in {"grow", "map"} => sz < r.nsz /\ sz <= r.v /\ r.hi = r.nsz
    /\ r.at \in Dropping => Lo(r, sz) <= r.v
    /\ r.op = "sbrk" /\ r.at \in Dropping => (r.bad => sz < r.nsz) /\ (~ r.bad => r.nsz < sz)

\* Which pages the directory f that a call works on maps.
ShapeOK(r, sz, f) ==
    \A v \in VPage :
        /\ r.at \in Building => (f[v].pg # NULL <=> v < r.v)
        /\ r.at \in Dropping =>
            /\ v < Lo(r, sz) => f[v].pg # NULL
            /\ Lo(r, sz) <= v /\ v < r.v => f[v].pg = NULL
            /\ r.hi <= v => f[v].pg = NULL
            /\ r.at # "drop" /\ v = r.v => f[v].pg # NULL
        /\ r.at \in Copying =>
            (f[v].pg # NULL <=> v < sz /\ (r.at = "remap" => v # r.v))

\* The size of the image in directory d, none if nobody runs in it.
Size(d) == IF Alive(d[1]) /\ proc[d[1]].pgdir = d THEN proc[d[1]].sz ELSE 0

\* A directory that nobody works on maps the image and nothing else.
DirOK(d) ==
    (\A p \in Proc : Busy(p) => k[p].d # d) =>
        \A v \in VPage : pt[d][v].pg # NULL <=> v < Size(d)

CtlInv ==
    /\ \A p \in Proc : PlaceOK(k[p])
    /\ \A p \in Proc : OwnerOK(p)
    /\ \A p \in Proc : BoundOK(k[p], proc[p].sz)
    /\ \A p \in Proc : Busy(p) => ShapeOK(k[p], proc[p].sz, pt[k[p].d])
    /\ \A d \in Dir : DirOK(d)
    /\ Apart

--------------------------------------------------------------------------------
(* Memory.  Entry v of directory d stands for the pair in CountsExact. *)

\* The entry deallocuvm() is about to clear.
Leaves(d, v) == \E p \in Proc : k[p].at = "decr" /\ k[p].d = d /\ k[p].v = v

NoneDangling ==
    /\ \A d \in Dir, v \in VPage :
        pt[d][v].pg # NULL /\ ~ Leaves(d, v) => pt[d][v].pg \in used
    /\ \A p \in Proc : k[p].m # NULL => k[p].m \in used
    /\ \A p \in Proc : k[p].m # NULL =>
        \A d \in Dir, v \in VPage : pt[d][v].pg = k[p].m => Leaves(d, v)

WriterAlone ==
    \A d, e \in Dir, v, x \in VPage :
        pt[d][v].w /\ pt[d][v].pg # NULL /\ pt[e][x].pg = pt[d][v].pg
            /\ ~ Leaves(d, v) /\ ~ Leaves(e, x)
        => d = e /\ v = x

\* A page that is mapped has its table.
Tables ==
    /\ \A d \in Dir, v \in VPage : pt[d][v].pg # NULL => Table(v) \in tabs[d]
    /\ \A p \in Proc : k[p].at = "remap" => Table(k[p].v) \in tabs[k[p].d]

\* A count of 1 that was read is still right: the entry is the only one.
Alone(p) ==
    \A d \in Dir, v \in VPage :
        pt[d][v].pg = pt[k[p].d][k[p].v].pg => d = k[p].d /\ v = k[p].v

Decided == \A p \in Proc : k[p].at \in {"free", "own"} => Alone(p)

\* What is mapped or in hand has been written; the copy is still one.
Contents ==
    /\ \A d \in Dir, v \in VPage :
        pt[d][v].pg # NULL /\ ~ Leaves(d, v) => content[pt[d][v].pg] \in Val
    /\ \A p \in Proc : k[p].m # NULL => content[k[p].m] \in Val
    /\ \A p \in Proc : k[p].at = "leave" => content[k[p].m] = content[pt[k[p].d][k[p].v].pg]

MemInv == CountsExact /\ NoneDangling /\ WriterAlone /\ Tables /\ Decided /\ Contents

CowInv == CowType /\ CtlInv /\ MemInv

--------------------------------------------------------------------------------
(* Records and directories *)

LEMMA Consts ==
    /\ Proc \subseteq Nat /\ NULL \notin Proc /\ initproc \in Proc
    /\ Page \subseteq Nat /\ NULL \notin Page /\ 1 \in Page
    /\ VPage \subseteq Nat /\ 0 \in VPage /\ MaxSz \in Nat
    /\ \A v \in VPage : v < MaxSz
    /\ JUNK \notin Val /\ 0 \in Val
  BY CowAssumption DEF Proc, NULL, initproc, Page, VPage, JUNK

LEMMA Finite == IsFiniteSet(Dir \X VPage) /\ IsFiniteSet(VPage) /\ IsFiniteSet(Proc) /\ IsFiniteSet(Page)
<1>1. IsFiniteSet(VPage) /\ IsFiniteSet(Proc) /\ IsFiniteSet(Page)
  BY CowAssumption, FS_Interval DEF VPage, Proc, Page
<1>2. IsFiniteSet({0, 1})
  <2>1. {0, 1} = {0} \cup {1} /\ IsFiniteSet({0})
    BY FS_Singleton
  <2> QED
    BY <2>1, FS_AddElement
<1>3. IsFiniteSet(Dir)
  BY <1>1, <1>2, FS_Product DEF Dir
<1> QED
  BY <1>1, <1>3, FS_Product

LEMMA DirFacts ==
    /\ \A d \in Dir : /\ d[1] \in Proc /\ d[2] \in {0, 1} /\ d = <<d[1], d[2]>>
                      /\ Other(d) \in Dir /\ Other(d)[1] = d[1] /\ Other(d) # d
                      /\ Other(Other(d)) = d
    /\ \A p \in Proc : <<p, 0>> \in Dir /\ <<p, 0>>[1] = p
  BY DEF Dir, Other

LEMMA UserFacts ==
    /\ User \in Call
    /\ User.op = "none" /\ User.at = "user" /\ User.v = 0 /\ User.m = NULL /\ User.c = NULL
    /\ User.cnt = 0 /\ User.bad = FALSE
<1>1. PICK b \in BOOLEAN : b = FALSE
  OBVIOUS
<1>2. User = [op |-> "none", at |-> "user", d |-> <<1, 0>>, v |-> 0, hi |-> 0, nsz |-> 0, m |-> NULL,
              cnt |-> 0, c |-> NULL, bad |-> b]
  BY <1>1, Zenon DEF User
<1>3. <<1, 0>> \in Dir
  BY Consts, DirFacts DEF initproc
<1>4. /\ User \in Call
      /\ User.op = "none" /\ User.at = "user" /\ User.v = 0 /\ User.m = NULL /\ User.c = NULL
      /\ User.cnt = 0 /\ User.bad = b
  BY <1>2, <1>3, Consts DEF Call, Places
<1> QED
  BY <1>1, <1>4

LEMMA NoPteFacts == NoPte \in Pte /\ NoPte.pg = NULL /\ NoPte.w = FALSE
<1>1. PICK b \in BOOLEAN : b = FALSE
  OBVIOUS
<1>2. NoPte = [pg |-> NULL, w |-> b]
  BY <1>1, Zenon DEF NoPte
<1>3. NoPte \in Pte /\ NoPte.pg = NULL /\ NoPte.w = b
  BY <1>2 DEF Pte
<1> QED
  BY <1>1, <1>3

\* An entry that is there.
LEMMA PteFacts ==
    ASSUME NEW pg \in Page, NEW b \in BOOLEAN
    PROVE  [pg |-> pg, w |-> b] \in Pte /\ [pg |-> pg, w |-> b].pg = pg /\ [pg |-> pg, w |-> b].w = b
  BY DEF Pte

LEMMA Writable ==
    ASSUME NEW pg \in Page
    PROVE  /\ [pg |-> pg, w |-> TRUE] \in Pte
           /\ [pg |-> pg, w |-> TRUE].pg = pg /\ [pg |-> pg, w |-> TRUE].w = TRUE
  BY PteFacts, TRUE \in BOOLEAN, Zenon

LEMMA WriteProtected ==
    ASSUME NEW pg \in Page
    PROVE  /\ [pg |-> pg, w |-> FALSE] \in Pte
           /\ [pg |-> pg, w |-> FALSE].pg = pg /\ [pg |-> pg, w |-> FALSE].w = FALSE
  BY PteFacts, FALSE \in BOOLEAN, Zenon

\* Entry v of directory d becomes e, and no other changes.
Sets(d, v, e) ==
    /\ pt' \in PtType /\ pt'[d][v] = e
    /\ \A x \in Dir, y \in VPage : x # d \/ y # v => pt'[x][y] = pt[x][y]

LEMMA SetEntry ==
    ASSUME CowType, NEW d \in Dir, NEW v \in VPage, NEW e \in Pte, pt' = [pt EXCEPT ![d][v] = e]
    PROVE  Sets(d, v, e)
  BY DEF CowType, PtType, Sets

\* The count of page pg changes by n.
Counts(pg, n) ==
    /\ ref' \in [Page -> Int] /\ ref'[pg] = ref[pg] + n
    /\ \A x \in Page \ {pg} : ref'[x] = ref[x]

LEMMA CountBy ==
    ASSUME CowType, NEW pg \in Page, NEW n \in Int, ref' = [ref EXCEPT ![pg] = @ + n]
    PROVE  Counts(pg, n)
  BY DEF CowType, Counts

LEMMA PtFacts ==
    ASSUME CowType, NEW d \in Dir, NEW v \in VPage
    PROVE  /\ pt[d][v] \in Pte
           /\ pt[d][v].pg \in Page \cup {NULL} /\ pt[d][v].w \in BOOLEAN
           /\ pt[d][v].pg # NULL => pt[d][v].pg \in Page
  BY DEF CowType, PtType, Pte

LEMMA CallFacts ==
    ASSUME CowType, NEW p \in Proc
    PROVE  /\ k[p] \in Call /\ k[p].at \in Places /\ k[p].d \in Dir
           /\ k[p].op \in {"none", "fork", "exec", "sbrk", "cow", "wait"}
           /\ k[p].v \in 0 .. MaxSz /\ k[p].hi \in 0 .. MaxSz /\ k[p].nsz \in 0 .. MaxSz
           /\ k[p].v \in Nat /\ k[p].hi \in Nat /\ k[p].nsz \in Nat
           /\ k[p].v < MaxSz => k[p].v \in VPage
           /\ k[p].m \in Page \cup {NULL} /\ k[p].cnt \in Nat /\ k[p].c \in Proc \cup {NULL}
           /\ k[p].bad \in BOOLEAN
<1>1. k[p] \in Call
  BY DEF CowType
<1> QED
  BY <1>1, Consts DEF Call, VPage

LEMMA SlotFacts ==
    ASSUME CowType, NEW p \in Proc
    PROVE  /\ proc[p] \in Slot /\ proc[p].state \in {"UNUSED", "EMBRYO", "RUNNABLE", "ZOMBIE"}
           /\ proc[p].parent \in Proc \cup {NULL} /\ proc[p].pgdir \in Dir
           /\ proc[p].sz \in 0 .. MaxSz /\ proc[p].sz \in Nat /\ proc[p].sz <= MaxSz
  BY Consts DEF CowType, Slot


--------------------------------------------------------------------------------
(* Whose directory it is *)

LEMMA BusyFacts ==
    ASSUME CowType, CtlInv, NEW p \in Proc, Busy(p)
    PROVE  /\ Running(p) /\ Alive(p) /\ k[p].op # "none"
           /\ proc[p].pgdir \in Dir /\ proc[p].pgdir[1] = p
           /\ k[p].c = NULL => k[p].d[1] = p /\ k[p].op \in {"sbrk", "cow", "exec"}
           /\ k[p].c # NULL => /\ k[p].d[1] = k[p].c /\ k[p].op \in {"fork", "wait"}
                               /\ k[p].c \in Proc /\ k[p].c # p
                               /\ proc[k[p].c].state \in {"EMBRYO", "ZOMBIE"}
           /\ k[p].op \in {"sbrk", "cow"} => k[p].d = proc[p].pgdir
           /\ k[p].op \notin {"sbrk", "cow"} => k[p].d # proc[p].pgdir
<1>1. k[p].op # "none" /\ k[p].op \in {"none", "fork", "exec", "sbrk", "cow", "wait"} /\ OwnerOK(p)
  BY CallFacts DEF CtlInv, PlaceOK, Busy
<1>2. Running(p) /\ Alive(p) /\ proc[p].pgdir[1] = p /\ proc[p].pgdir \in Dir
  BY <1>1, SlotFacts DEF OwnerOK, Alive, Running
<1>3. CASE k[p].op \in {"sbrk", "cow"}
  BY <1>1, <1>2, <1>3 DEF OwnerOK
<1>4. CASE k[p].op = "exec"
  BY <1>1, <1>2, <1>4, DirFacts DEF OwnerOK
<1>5. CASE k[p].op = "fork"
  <2>1. k[p].c \in Proc /\ proc[k[p].c].state = "EMBRYO" /\ k[p].d = <<k[p].c, 0>> /\ k[p].c # NULL
    BY <1>1, <1>5, Consts DEF OwnerOK
  <2>2. k[p].c # p /\ k[p].d[1] = k[p].c
    BY <1>2, <2>1, DirFacts DEF Running
  <2> QED
    BY <1>1, <1>2, <1>5, <2>1, <2>2
<1>6. CASE k[p].op = "wait"
  <2>1. k[p].c \in Proc /\ proc[k[p].c].state = "ZOMBIE" /\ k[p].d = proc[k[p].c].pgdir /\ k[p].c # NULL
    BY <1>1, <1>6, Consts DEF OwnerOK
  <2>2. k[p].c # p /\ k[p].d[1] = k[p].c
    BY <1>2, <2>1 DEF Running, CtlInv, OwnerOK, Alive
  <2> QED
    BY <1>1, <1>2, <1>6, <2>1, <2>2
<1> QED
  BY <1>1, <1>3, <1>4, <1>5, <1>6

\* No two calls work on one directory, nor on that of a process that runs.
LEMMA Distinct ==
    ASSUME CowType, CtlInv, NEW p \in Proc, NEW q \in Proc, p # q, Busy(p)
    PROVE  /\ Busy(q) => k[p].d # k[q].d
           /\ Running(q) => k[p].d # proc[q].pgdir /\ k[p].d[1] # q
<1>1. ASSUME Running(q) PROVE k[p].d[1] # q /\ proc[q].pgdir[1] = q
  <2>1. proc[q].pgdir[1] = q
    BY <1>1 DEF CtlInv, OwnerOK, Alive, Running
  <2>2. CASE k[p].c = NULL
    BY <2>1, <2>2, BusyFacts
  <2>3. CASE k[p].c # NULL
    BY <1>1, <2>1, <2>3, BusyFacts DEF Running
  <2> QED
    BY <2>2, <2>3
<1>2. ASSUME Busy(q) PROVE k[p].d # k[q].d
  <2>1. Running(q) /\ k[p].d[1] # q
    BY <1>1, <1>2, BusyFacts
  <2>2. CASE k[q].c = NULL
    BY <1>2, <2>1, <2>2, BusyFacts
  <2>3. CASE k[q].c # NULL
    <3>1. k[q].d[1] = k[q].c /\ k[q].c # p
      BY <1>2, <2>3, BusyFacts DEF Running
    <3>2. k[p].c # NULL => k[p].c # k[q].c
      BY DEF CtlInv, Apart
    <3> QED
      BY <2>3, <3>1, <3>2, BusyFacts
  <2> QED
    BY <2>2, <2>3
<1> QED
  BY <1>1, <1>2

\* Nobody is at work on the directory of a process in user mode, nor on one it
\* does not use.
LEMMA UserIdle ==
    ASSUME CowType, CtlInv, NEW p \in Proc, Running(p), NEW q \in Proc, Busy(q),
           ~ Busy(p) \/ k[p].op \notin {"sbrk", "cow"}
    PROVE  k[q].d # proc[p].pgdir
<1>1. CASE q = p
  BY <1>1, BusyFacts
<1>2. CASE q # p
  BY <1>2, Distinct
<1> QED
  BY <1>1, <1>2

\* The image of a process that is not changing it.
LEMMA ImageFacts ==
    ASSUME CowType, CtlInv, NEW p \in Proc, Running(p), ~ Busy(p) \/ k[p].op \notin {"sbrk", "cow"},
           NEW v \in VPage
    PROVE  /\ proc[p].pgdir \in Dir
           /\ pt[proc[p].pgdir][v].pg # NULL <=> v < proc[p].sz
<1>1. proc[p].pgdir \in Dir /\ proc[p].pgdir[1] = p
  BY SlotFacts DEF CtlInv, OwnerOK, Alive, Running
<1>2. \A q \in Proc : Busy(q) => k[q].d # proc[p].pgdir
  BY UserIdle
<1>3. Size(proc[p].pgdir) = proc[p].sz
  BY <1>1 DEF Size, Alive, Running
<1> QED
  BY <1>1, <1>2, <1>3 DEF CtlInv, DirOK

--------------------------------------------------------------------------------
(* What a step has to show for CtlInv *)

\* Process p takes a step that touches slot x, if not NULL, and directories Ds.
LEMMA CtlStep ==
    ASSUME CowType, CtlInv, NEW p \in Proc, NEW x \in Proc \cup {NULL}, NEW Ds \in SUBSET Dir,
           Running(p), x # NULL => x # p /\ (x = k[p].c \/ proc[x].state = "UNUSED"),
           \A q \in Proc \ {p} : k'[q] = k[q],
           \A q \in Proc \ {p, x} : /\ proc'[q].state = proc[q].state /\ proc'[q].sz = proc[q].sz
                                    /\ proc'[q].pgdir = proc[q].pgdir,
           \A d \in Dir \ Ds : /\ Size(d)' = Size(d)
                               /\ \A v \in VPage : pt'[d][v].pg = pt[d][v].pg,
           \A q \in Proc \ {p} : Busy(q) => k[q].d \notin Ds,
           Busy(p) => k[p].d \in Ds, Busy(p)' => k'[p].d \in Ds,
           \A d \in Ds : DirOK(d)',
           PlaceOK(k'[p]), OwnerOK(p)', BoundOK(k'[p], proc'[p].sz),
           Busy(p)' => ShapeOK(k'[p], proc'[p].sz, pt'[k'[p].d]),
           x # NULL /\ Alive(x)' => proc'[x].pgdir[1] = x,
           Apart'
    PROVE  CtlInv'
<1>1. \A q \in Proc \ {p, x} : (Busy(q)' <=> Busy(q)) /\ (Alive(q)' <=> Alive(q))
  BY DEF Busy, Alive
<1>2. ASSUME x # NULL PROVE x \in Proc /\ k'[x] = k[x] /\ k[x] = User /\ ~ Busy(x) /\ ~ Busy(x)'
  <2>1. ~ Running(x)
    <3>1. CASE proc[x].state = "UNUSED"
      BY <3>1 DEF Running
    <3>2. CASE x = k[p].c
      <4>1. Busy(p)
        BY <1>2, <3>2, UserFacts DEF Busy, CtlInv, PlaceOK
      <4> QED
        BY <1>2, <3>2, <4>1, BusyFacts DEF Running
    <3> QED
      BY <1>2, <3>1, <3>2
  <2>2. x \in Proc /\ k'[x] = k[x]
    BY <1>2
  <2>3. ~ Busy(x)
    BY <2>1, <2>2, BusyFacts
  <2> QED
    BY <1>2, <2>2, <2>3 DEF Busy, CtlInv, PlaceOK
<1>3. ASSUME NEW q \in Proc, q # p, Busy(q)
      PROVE  /\ q # x /\ k[q].c # p
             /\ k[q].c # NULL => k[q].c \in Proc /\ k[q].c # x
  <2>1. q # x
    BY <1>2, <1>3, Consts
  <2>2. k[q].c # p
    BY <1>3, BusyFacts, Consts DEF Running
  <2>3. ASSUME k[q].c # NULL PROVE k[q].c \in Proc /\ k[q].c # x
    <3>1. k[q].c \in Proc /\ proc[k[q].c].state \in {"EMBRYO", "ZOMBIE"}
      BY <1>3, <2>3, BusyFacts
    <3>2. k[q].c # k[p].c
      BY <1>3, <2>3 DEF CtlInv, Apart
    <3> QED
      BY <2>3, <3>1, <3>2
  <2> QED
    BY <2>1, <2>2, <2>3
<1>4. \A q \in Proc : PlaceOK(k'[q])
  BY DEF CtlInv
<1>5. ASSUME NEW q \in Proc PROVE OwnerOK(q)' /\ BoundOK(k'[q], proc'[q].sz)
  <2>1. CASE q = p
    BY <2>1
  <2>2. CASE q = x /\ q # p
    <3>1. OwnerOK(q)'
      BY <1>2, <2>2, UserFacts, Consts DEF OwnerOK, Busy
    <3>2. k'[q] = User
      BY <1>2, <2>2, Consts
    <3>3. BoundOK(User, proc'[q].sz)
      BY UserFacts DEF BoundOK, Copying, Dropping
    <3> QED
      BY <3>1, <3>2, <3>3
  <2>3. CASE q # p /\ q # x /\ Busy(q)
    <3>1. k[q].c # NULL => k[q].c \in Proc \ {p, x}
      BY <1>3, <2>3
    <3>2. OwnerOK(q) /\ BoundOK(k[q], proc[q].sz)
      BY DEF CtlInv
    <3>3. k[q].c \in Proc => /\ proc'[k[q].c].state = proc[k[q].c].state
                             /\ proc'[k[q].c].pgdir = proc[k[q].c].pgdir
      BY <3>1, Consts
    <3> QED
      BY <1>1, <2>3, <3>2, <3>3 DEF OwnerOK, Running, Alive, Busy
  <2>4. CASE q # p /\ q # x /\ ~ Busy(q)
    <3>1. k'[q] = k[q] /\ k[q] = User
      BY <2>4 DEF CtlInv, PlaceOK, Busy
    <3>2. OwnerOK(q) /\ BoundOK(k[q], proc[q].sz)
      BY DEF CtlInv
    <3> QED
      BY <1>1, <2>4, <3>1, <3>2, UserFacts DEF OwnerOK
  <2> QED
    BY <2>1, <2>2, <2>3, <2>4
<1>6. ASSUME NEW q \in Proc, Busy(q)' PROVE ShapeOK(k'[q], proc'[q].sz, pt'[k'[q].d])
  <2>1. CASE q = p
    BY <1>6, <2>1
  <2>2. CASE q # p
    <3>1. Busy(q) /\ q # x
      BY <1>1, <1>2, <1>6, <2>2, Consts
    <3>2. k[q].d \in Dir \ Ds /\ k'[q] = k[q] /\ proc'[q].sz = proc[q].sz
      BY <2>2, <3>1, CallFacts
    <3>3. ShapeOK(k[q], proc[q].sz, pt[k[q].d]) /\ \A v \in VPage : pt'[k[q].d][v].pg = pt[k[q].d][v].pg
      BY <3>1, <3>2 DEF CtlInv
    <3> QED
      BY <3>2, <3>3 DEF ShapeOK
  <2> QED
    BY <2>1, <2>2
<1>7. ASSUME NEW d \in Dir PROVE DirOK(d)'
  <2>1. CASE d \in Ds
    BY <2>1
  <2>2. CASE d \notin Ds
    <3> SUFFICES ASSUME \A q \in Proc : Busy(q)' => k'[q].d # d, NEW v \in VPage
                 PROVE  pt'[d][v].pg # NULL <=> v < Size(d)'
      BY DEF DirOK
    <3>1. \A q \in Proc : Busy(q) => k[q].d # d
      BY <1>1, <1>2, <2>2, Consts
    <3>2. pt[d][v].pg # NULL <=> v < Size(d)
      BY <3>1 DEF CtlInv, DirOK
    <3> QED
      BY <2>2, <3>2
  <2> QED
    BY <2>1, <2>2
<1> QED
  BY <1>4, <1>5, <1>6, <1>7 DEF CtlInv

\* The call of p goes on, in its own directory.
LEMMA CtlInner ==
    ASSUME CowType, CtlInv, NEW p \in Proc, Busy(p), Busy(p)',
           \A q \in Proc \ {p} : k'[q] = k[q], proc' = proc,
           \A d \in Dir \ {k[p].d} : \A v \in VPage : pt'[d][v].pg = pt[d][v].pg,
           k'[p].op = k[p].op, k'[p].d = k[p].d, k'[p].c = k[p].c,
           k'[p].m \in {NULL, k[p].m} \/ \A q \in Proc \ {p} : k[q].m # k'[p].m,
           PlaceOK(k'[p]), BoundOK(k'[p], proc[p].sz), ShapeOK(k'[p], proc[p].sz, pt'[k[p].d])
    PROVE  CtlInv'
<1>1. Running(p) /\ k[p].d \in Dir
  BY BusyFacts, CallFacts
<1>2. \A d \in Dir : Size(d)' = Size(d)
  BY DEF Size, Alive
<1>3. \A q \in Proc \ {p} : Busy(q) => k[q].d \notin {k[p].d}
  BY Distinct
<1>4. DirOK(k[p].d)'
  BY DEF DirOK
<1>5. OwnerOK(p)'
  BY DEF CtlInv, OwnerOK, Alive, Running, Busy
<1>6. Apart'
  BY DEF CtlInv, Apart
<1> HIDE DEF Busy
<1> QED
  BY <1>1, <1>2, <1>3, <1>4, <1>5, <1>6, CtlStep

\* The call of p returns; x is its child, if that changes.
LEMMA CtlReturn ==
    ASSUME CowType, CtlInv, NEW p \in Proc, Busy(p), NEW x \in {NULL, k[p].c}, NEW D, D = k[p].d,
           k'[p] = User, \A q \in Proc \ {p} : k'[q] = k[q],
           \A q \in Proc \ {p, x} : /\ proc'[q].state = proc[q].state /\ proc'[q].sz = proc[q].sz
                                    /\ proc'[q].pgdir = proc[q].pgdir,
           proc'[p].pgdir[1] = p,
           x # NULL /\ Alive(x)' => proc'[x].pgdir[1] = x,
           \A d \in Dir \ {D} : /\ Size(d)' = Size(d)
                                     /\ \A v \in VPage : pt'[d][v].pg = pt[d][v].pg,
           \A v \in VPage : pt'[D][v].pg # NULL <=> v < Size(D)'
    PROVE  CtlInv'
<1>1. Running(p) /\ D \in Dir /\ x \in Proc \cup {NULL} /\ (x # NULL => x # p)
  BY BusyFacts, CallFacts
<1>2. ~ Busy(p)'
  BY UserFacts DEF Busy
<1>3. \A q \in Proc \ {p} : Busy(q) => k[q].d \notin {D}
  BY Distinct
<1>4. DirOK(D)'
  BY DEF DirOK
<1>5. OwnerOK(p)' /\ PlaceOK(k'[p]) /\ BoundOK(k'[p], proc'[p].sz)
  <2>1. OwnerOK(p)'
    BY <1>2, UserFacts DEF OwnerOK
  <2>2. PlaceOK(k'[p])
    BY UserFacts DEF PlaceOK
  <2>3. BoundOK(User, proc'[p].sz)
    BY UserFacts DEF BoundOK, Copying, Dropping
  <2> QED
    BY <2>1, <2>2, <2>3
<1>6. Apart'
  BY UserFacts DEF CtlInv, Apart
<1>7. \A d \in {D} : DirOK(d)'
  BY <1>4
<1> HIDE DEF Busy
<1> QED
  BY <1>1, <1>2, <1>3, <1>5, <1>6, <1>7, CtlStep

--------------------------------------------------------------------------------
(* Counting the entries of a page *)

LEMMA MappingFacts ==
    ASSUME CowType, NEW pg
    PROVE  /\ IsFiniteSet(Mappings(pg)) /\ Cardinality(Mappings(pg)) \in Nat
           /\ \A d \in Dir, v \in VPage : <<d, v>> \in Mappings(pg) <=> pt[d][v].pg = pg
<1>1. Mappings(pg) \in SUBSET (Dir \X VPage)
  BY DEF Mappings
<1>2. IsFiniteSet(Mappings(pg))
  BY <1>1, Finite, FS_Subset
<1> QED
  BY <1>2, FS_CardinalityType DEF Mappings

\* A page that is mapped once is mapped only there.
LEMMA CountOne ==
    ASSUME CowType, CountsExact, NEW d \in Dir, NEW v \in VPage, pt[d][v].pg # NULL,
           ref[pt[d][v].pg] = 1
    PROVE  \A e \in Dir, x \in VPage : pt[e][x].pg = pt[d][v].pg => e = d /\ x = v
<1> DEFINE pg == pt[d][v].pg
<1>1. pg \in Page /\ Cardinality(Mappings(pg)) = 1
  BY PtFacts DEF CountsExact
<1> HIDE DEF pg
<1>2. PICK z : Mappings(pg) = {z}
  BY <1>1, MappingFacts, FS_Singleton
<1>3. <<d, v>> \in Mappings(pg)
  BY MappingFacts DEF pg
<1> SUFFICES ASSUME NEW e \in Dir, NEW x \in VPage, pt[e][x].pg = pg PROVE e = d /\ x = v
  BY DEF pg
<1>4. <<e, x>> \in Mappings(pg)
  BY MappingFacts
<1>5. <<e, x>> = <<d, v>>
  BY <1>2, <1>3, <1>4
<1> QED
  BY <1>5

LEMMA CountPositive ==
    ASSUME CowType, CountsExact, NEW d \in Dir, NEW v \in VPage, pt[d][v].pg # NULL
    PROVE  ref[pt[d][v].pg] \in Nat /\ ref[pt[d][v].pg] # 0
<1> DEFINE pg == pt[d][v].pg
<1>1. pg \in Page /\ ref[pg] = Cardinality(Mappings(pg))
  BY PtFacts DEF CountsExact
<1>2. <<d, v>> \in Mappings(pg)
  BY MappingFacts
<1> HIDE DEF pg
<1>3. Cardinality(Mappings(pg)) # 0 /\ Cardinality(Mappings(pg)) \in Nat
  BY <1>2, MappingFacts, FS_EmptySet
<1> QED
  BY <1>1, <1>3 DEF pg

LEMMA CountSame ==
    ASSUME CowType, CountsExact, \A d \in Dir, v \in VPage : pt'[d][v].pg = pt[d][v].pg, ref' = ref
    PROVE  CountsExact'
<1>1. \A pg : Mappings(pg)' = Mappings(pg)
  BY DEF Mappings
<1> QED
  BY <1>1 DEF CountsExact

\* An entry comes to map page pg, and the count goes up.
LEMMA CountUp ==
    ASSUME CowType, CountsExact, NEW d \in Dir, NEW v \in VPage, NEW pg \in Page,
           pt[d][v].pg = NULL, pt'[d][v].pg = pg,
           \A e \in Dir, x \in VPage : e # d \/ x # v => pt'[e][x].pg = pt[e][x].pg,
           Counts(pg, 1)
    PROVE  ref' \in [Page -> Nat] /\ CountsExact'
<1>1. ref \in [Page -> Nat] /\ pg # NULL
  BY Consts DEF CowType
<1>2. <<d, v>> \notin Mappings(pg) /\ Mappings(pg)' = Mappings(pg) \cup {<<d, v>>}
  <2>1. <<d, v>> \notin Mappings(pg)
    BY <1>1, MappingFacts
  <2>2. ASSUME NEW e \in Dir \X VPage PROVE e \in Mappings(pg)' <=> e \in Mappings(pg) \cup {<<d, v>>}
    <3>1. PICK a \in Dir, y \in VPage : e = <<a, y>>
      OBVIOUS
    <3>2. e \in Mappings(pg)' <=> pt'[a][y].pg = pg
      BY <3>1 DEF Mappings
    <3>3. e \in Mappings(pg) <=> pt[a][y].pg = pg
      BY <3>1 DEF Mappings
    <3>4. e = <<d, v>> <=> a = d /\ y = v
      BY <3>1
    <3> QED
      BY <3>2, <3>3, <3>4
  <2>3. Mappings(pg)' \subseteq Dir \X VPage /\ Mappings(pg) \subseteq Dir \X VPage /\ <<d, v>> \in Dir \X VPage
    BY DEF Mappings
  <2> QED
    BY <2>1, <2>2, <2>3
<1>3. Cardinality(Mappings(pg)') = Cardinality(Mappings(pg)) + 1
  <2> DEFINE S == Mappings(pg)
             e == <<d, v>>
  <2>1. IsFiniteSet(S)
    BY MappingFacts
  <2> HIDE DEF S, e
  <2>2. e \notin S => Cardinality(S \cup {e}) = Cardinality(S) + 1
    BY <2>1, FS_AddElement
  <2> QED
    BY <1>2, <2>2 DEF S, e
<1>4. ASSUME NEW x \in Page, x # pg PROVE Mappings(x)' = Mappings(x)
  <2>1. ASSUME NEW e \in Dir \X VPage PROVE e \in Mappings(x)' <=> e \in Mappings(x)
    <3>1. PICK a \in Dir, y \in VPage : e = <<a, y>>
      OBVIOUS
    <3>2. e \in Mappings(x)' <=> pt'[a][y].pg = x
      BY <3>1 DEF Mappings
    <3>3. e \in Mappings(x) <=> pt[a][y].pg = x
      BY <3>1 DEF Mappings
    <3> QED
      BY <1>4, <3>2, <3>3, Consts
  <2>2. Mappings(x)' \subseteq Dir \X VPage /\ Mappings(x) \subseteq Dir \X VPage
    BY DEF Mappings
  <2> QED
    BY <2>1, <2>2
<1>5. ref' \in [Page -> Nat]
  <2>1. ref' \in [Page -> Int] /\ \A x \in Page : ref'[x] \in Nat
    BY <1>1 DEF Counts
  <2> QED
    BY <2>1
<1>6. ASSUME NEW x \in Page PROVE ref'[x] = Cardinality(Mappings(x)')
  <2>1. ref[x] = Cardinality(Mappings(x))
    BY DEF CountsExact
  <2>2. CASE x = pg
    BY <1>1, <1>3, <2>1, <2>2 DEF Counts
  <2>3. CASE x # pg
    BY <1>1, <1>4, <2>1, <2>3 DEF Counts
  <2> QED
    BY <2>2, <2>3
<1> QED
  BY <1>5, <1>6 DEF CountsExact

\* An entry that maps page pg is cleared, and the count goes down.
LEMMA CountDown ==
    ASSUME CowType, CountsExact, NEW d \in Dir, NEW v \in VPage, NEW pg \in Page,
           pt[d][v].pg = pg, pt'[d][v].pg = NULL,
           \A e \in Dir, x \in VPage : e # d \/ x # v => pt'[e][x].pg = pt[e][x].pg,
           Counts(pg, -1)
    PROVE  ref' \in [Page -> Nat] /\ CountsExact'
<1>1. ref \in [Page -> Nat] /\ pg # NULL /\ NULL \notin Page
  BY Consts DEF CowType
<1>2. <<d, v>> \in Mappings(pg) /\ Mappings(pg)' = Mappings(pg) \ {<<d, v>>}
  <2>1. <<d, v>> \in Mappings(pg)
    BY MappingFacts
  <2>2. ASSUME NEW e \in Dir \X VPage PROVE e \in Mappings(pg)' <=> e \in Mappings(pg) \ {<<d, v>>}
    <3>1. PICK a \in Dir, y \in VPage : e = <<a, y>>
      OBVIOUS
    <3>2. e \in Mappings(pg)' <=> pt'[a][y].pg = pg
      BY <3>1 DEF Mappings
    <3>3. e \in Mappings(pg) <=> pt[a][y].pg = pg
      BY <3>1 DEF Mappings
    <3>4. e = <<d, v>> <=> a = d /\ y = v
      BY <3>1
    <3> QED
      BY <1>1, <3>2, <3>3, <3>4
  <2>3. Mappings(pg)' \subseteq Dir \X VPage /\ Mappings(pg) \subseteq Dir \X VPage
    BY DEF Mappings
  <2> QED
    BY <2>1, <2>2, <2>3
<1>3. Cardinality(Mappings(pg)') = Cardinality(Mappings(pg)) - 1
  <2> DEFINE S == Mappings(pg)
             e == <<d, v>>
  <2>1. IsFiniteSet(S)
    BY MappingFacts
  <2> HIDE DEF S, e
  <2>2. e \in S => Cardinality(S \ {e}) = Cardinality(S) - 1
    BY <2>1, FS_RemoveElement
  <2> QED
    BY <1>2, <2>2 DEF S, e
<1>4. ASSUME NEW x \in Page, x # pg PROVE Mappings(x)' = Mappings(x)
  <2>1. ASSUME NEW e \in Dir \X VPage PROVE e \in Mappings(x)' <=> e \in Mappings(x)
    <3>1. PICK a \in Dir, y \in VPage : e = <<a, y>>
      OBVIOUS
    <3>2. e \in Mappings(x)' <=> pt'[a][y].pg = x
      BY <3>1 DEF Mappings
    <3>3. e \in Mappings(x) <=> pt[a][y].pg = x
      BY <3>1 DEF Mappings
    <3> QED
      BY <1>1, <1>4, <3>2, <3>3
  <2>2. Mappings(x)' \subseteq Dir \X VPage /\ Mappings(x) \subseteq Dir \X VPage
    BY DEF Mappings
  <2> QED
    BY <2>1, <2>2
<1>5. Cardinality(Mappings(pg)) \in Nat /\ Cardinality(Mappings(pg)) - 1 \in Nat /\ ref[pg] = Cardinality(Mappings(pg))
  <2>1. Cardinality(Mappings(pg)) # 0 /\ Cardinality(Mappings(pg)) \in Nat
    BY <1>2, MappingFacts, FS_EmptySet
  <2> QED
    BY <2>1 DEF CountsExact
<1>6. ref' \in [Page -> Nat]
  <2>1. ref' \in [Page -> Int] /\ \A x \in Page : ref'[x] \in Nat
    BY <1>1, <1>5 DEF Counts
  <2> QED
    BY <2>1
<1>7. ASSUME NEW x \in Page PROVE ref'[x] = Cardinality(Mappings(x)')
  <2>1. ref[x] = Cardinality(Mappings(x))
    BY DEF CountsExact
  <2>2. CASE x = pg
    BY <1>1, <1>3, <2>1, <2>2 DEF Counts
  <2>3. CASE x # pg
    BY <1>1, <1>4, <2>1, <2>3 DEF Counts
  <2> QED
    BY <2>2, <2>3
<1> QED
  BY <1>6, <1>7 DEF CountsExact

--------------------------------------------------------------------------------
(* What each kind of step does to MemInv *)

\* Only deallocuvm() of the directory's own call clears an entry.
LEMMA NotLeaving ==
    ASSUME CowType, CtlInv, NEW p \in Proc, Running(p), NEW v \in VPage
    PROVE  /\ Busy(p) /\ (k[p].at # "decr" \/ v # k[p].v) => ~ Leaves(k[p].d, v)
           /\ ~ Busy(p) \/ k[p].op \notin {"sbrk", "cow"} \/ k[p].at # "decr" \/ v # k[p].v
              => ~ Leaves(proc[p].pgdir, v)
<1>1. \A q \in Proc \ {p} : Busy(q) => /\ Busy(p) => k[q].d # k[p].d
                                       /\ k[q].d # proc[p].pgdir
  BY Distinct
<1>2. Busy(p) /\ k[p].op \notin {"sbrk", "cow"} => k[p].d # proc[p].pgdir
  BY BusyFacts
<1>3. \A q \in Proc : k[q].at = "decr" => Busy(q)
  BY DEF Busy
<1> QED
  BY <1>1, <1>2, <1>3 DEF Leaves

\* The entry a call looks at.
LEMMA EntryFacts ==
    ASSUME CowType, CtlInv, NEW p \in Proc, Busy(p)
    PROVE  /\ k[p].at \in {"free", "decr", "own", "copy", "leave"} =>
                k[p].v \in VPage /\ pt[k[p].d][k[p].v].pg \in Page
           /\ k[p].at \in {"map", "remap"} => k[p].v \in VPage /\ pt[k[p].d][k[p].v].pg = NULL
           /\ k[p].at \in {"map", "leave", "remap"} => k[p].m \in Page
           /\ k[p].d \in Dir
<1>1. BoundOK(k[p], proc[p].sz) /\ ShapeOK(k[p], proc[p].sz, pt[k[p].d])
  BY DEF CtlInv
<1>2. k[p].d \in Dir /\ k[p].v \in Nat /\ k[p].hi <= MaxSz /\ proc[p].sz <= MaxSz /\ k[p].m \in Page \cup {NULL}
      /\ k[p].hi \in Nat /\ proc[p].sz \in Nat
  BY CallFacts, SlotFacts
<1>3. k[p].at \in {"free", "decr", "own", "copy", "leave", "map", "remap"} => k[p].v \in VPage
  BY <1>1, <1>2, Consts DEF BoundOK, Copying, VPage
<1>4. k[p].at \in {"free", "decr", "own", "copy", "leave"} => pt[k[p].d][k[p].v].pg # NULL
  BY <1>1, <1>2, <1>3 DEF BoundOK, ShapeOK, Copying, Dropping
<1>5. k[p].at \in {"map", "remap"} => pt[k[p].d][k[p].v].pg = NULL
  BY <1>1, <1>2, <1>3 DEF BoundOK, ShapeOK, Copying, Building
<1> QED
  BY <1>1, <1>2, <1>3, <1>4, <1>5, PtFacts DEF BoundOK

\* A step that changes neither entries nor pages.
LEMMA MemKept ==
    ASSUME CowType, CtlInv, MemInv, NEW p \in Proc,
           \A q \in Proc \ {p} : k'[q] = k[q],
           UNCHANGED <<pt, ref, used, content>>,
           \A d \in Dir : tabs[d] \subseteq tabs'[d],
           k[p].at # "decr", k'[p].at \notin {"leave", "remap"},
           k'[p].at \in {"free", "own"} => Alone(p)',
           k'[p].m \in {NULL, k[p].m}
    PROVE  MemInv'
<1>1. CountsExact'
  BY CountSame DEF MemInv
<1>2. \A d \in Dir, v \in VPage : Leaves(d, v) => Leaves(d, v)'
  BY DEF Leaves
<1>3. NoneDangling'
  BY <1>2 DEF MemInv, NoneDangling
<1>4. WriterAlone'
  <2> SUFFICES ASSUME NEW d \in Dir, NEW e \in Dir, NEW v \in VPage, NEW x \in VPage,
                      pt[d][v].w, pt[d][v].pg # NULL, pt[e][x].pg = pt[d][v].pg,
                      ~ Leaves(d, v)', ~ Leaves(e, x)'
               PROVE  d = e /\ v = x
    BY DEF WriterAlone
  <2> QED
    BY <1>2 DEF MemInv, WriterAlone
<1>5. Tables'
  BY CallFacts DEF MemInv, Tables
<1>6. Decided'
  BY DEF MemInv, Decided, Alone
<1>7. Contents'
  BY <1>2 DEF MemInv, Contents
<1> QED
  BY <1>1, <1>3, <1>4, <1>5, <1>6, <1>7 DEF MemInv

\* kalloc() of page pg, which is then filled with x.
LEMMA MemAlloc ==
    ASSUME CowType, CtlInv, MemInv, NEW p \in Proc, Busy(p),
           \A q \in Proc \ {p} : k'[q] = k[q],
           UNCHANGED <<pt, ref, tabs>>, NEW pg \in Page \ used, NEW x \in Val,
           used' = used \cup {pg}, content' = [content EXCEPT ![pg] = x],
           k[p].at # "decr", k'[p].at \in {"map", "leave"}, k'[p].m = pg,
           k'[p].at = "leave" => /\ k[p].at = "copy" /\ k'[p].d = k[p].d /\ k'[p].v = k[p].v
                                 /\ x = content[pt[k[p].d][k[p].v].pg]
    PROVE  MemInv'
<1>1. CountsExact'
  BY CountSame DEF MemInv
<1>2. \A d \in Dir, v \in VPage : Leaves(d, v) <=> Leaves(d, v)'
  BY DEF Leaves
<1>3. content \in [Page -> Val \cup {JUNK}] /\ pg # NULL
  BY Consts DEF CowType
<1>4. \A d \in Dir, v \in VPage : pt[d][v].pg # NULL /\ ~ Leaves(d, v) => pt[d][v].pg \in used \ {pg}
  BY DEF MemInv, NoneDangling
<1>5. \A q \in Proc : k[q].m # NULL => k[q].m \in used \ {pg}
  BY DEF MemInv, NoneDangling
<1>6. NoneDangling'
  <2>1. \A d \in Dir, v \in VPage : pt'[d][v].pg # NULL /\ ~ Leaves(d, v)' => pt'[d][v].pg \in used'
    BY <1>2, <1>4
  <2>2. \A q \in Proc : k'[q].m # NULL => k'[q].m \in used'
    BY <1>5
  <2>3. ASSUME NEW q \in Proc, k'[q].m # NULL, NEW d \in Dir, NEW v \in VPage, pt'[d][v].pg = k'[q].m
        PROVE  Leaves(d, v)'
    <3>1. CASE q = p
      BY <1>2, <1>3, <1>4, <2>3, <3>1
    <3>2. CASE q # p
      BY <1>2, <2>3, <3>2 DEF MemInv, NoneDangling
    <3> QED
      BY <3>1, <3>2
  <2> QED
    BY <2>1, <2>2, <2>3 DEF NoneDangling
<1>7. WriterAlone'
  <2> SUFFICES ASSUME NEW d \in Dir, NEW e \in Dir, NEW v \in VPage, NEW y \in VPage,
                      pt[d][v].w, pt[d][v].pg # NULL, pt[e][y].pg = pt[d][v].pg,
                      ~ Leaves(d, v)', ~ Leaves(e, y)'
               PROVE  d = e /\ v = y
    BY DEF WriterAlone
  <2> QED
    BY <1>2 DEF MemInv, WriterAlone
<1>8. Tables' /\ Decided'
  BY DEF MemInv, Tables, Decided, Alone
<1>9. \A y \in Page : y # pg => content'[y] = content[y]
  BY <1>3
<1>10. content'[pg] = x
  BY <1>3
<1>11. \A d \in Dir, v \in VPage :
          pt[d][v].pg # NULL /\ ~ Leaves(d, v) => content'[pt[d][v].pg] = content[pt[d][v].pg]
  BY <1>4, <1>9, PtFacts
<1>12. Contents'
  <2>1. \A d \in Dir, v \in VPage : pt'[d][v].pg # NULL /\ ~ Leaves(d, v)' => content'[pt'[d][v].pg] \in Val
    BY <1>2, <1>11 DEF MemInv, Contents
  <2>2. ASSUME NEW q \in Proc, k'[q].m # NULL PROVE content'[k'[q].m] \in Val
    BY <1>5, <1>9, <1>10, <2>2, CallFacts DEF MemInv, Contents
  <2>3. ASSUME NEW q \in Proc, k'[q].at = "leave" PROVE content'[k'[q].m] = content'[pt'[k'[q].d][k'[q].v].pg]
    <3>1. CASE q = p
      <4>1. k[p].v \in VPage /\ k[p].d \in Dir /\ pt[k[p].d][k[p].v].pg # NULL
        BY <2>3, <3>1, EntryFacts, Consts
      <4>2. ~ Leaves(k[p].d, k[p].v)
        BY <4>1, NotLeaving, BusyFacts
      <4> QED
        BY <1>10, <1>11, <2>3, <3>1, <4>1, <4>2
    <3>2. CASE q # p
      <4>1. k'[q] = k[q] /\ Busy(q) /\ k[q].at = "leave"
        BY <2>3, <3>2 DEF Busy
      <4>2. k[q].v \in VPage /\ k[q].d \in Dir /\ pt[k[q].d][k[q].v].pg # NULL /\ k[q].m \in Page
        BY <4>1, EntryFacts, Consts
      <4>3. ~ Leaves(k[q].d, k[q].v)
        BY <4>1, <4>2, NotLeaving, BusyFacts
      <4>4. content[k[q].m] = content[pt[k[q].d][k[q].v].pg]
        BY <4>1 DEF MemInv, Contents
      <4>5. content'[k[q].m] = content[k[q].m]
        BY <1>5, <1>9, <4>2, Consts
      <4> QED
        BY <1>11, <4>1, <4>2, <4>3, <4>4, <4>5
    <3> QED
      BY <3>1, <3>2
  <2> QED
    BY <2>1, <2>2, <2>3 DEF Contents
<1> QED
  BY <1>1, <1>6, <1>7, <1>8, <1>12 DEF MemInv

\* kfree() of a page that is mapped only by the entry at hand.
LEMMA MemFree ==
    ASSUME CowType, CtlInv, MemInv, NEW p \in Proc, k[p].at = "free",
           \A q \in Proc \ {p} : k'[q] = k[q],
           UNCHANGED <<pt, ref, tabs>>, kfree(pt[k[p].d][k[p].v].pg),
           k'[p].at = "decr", k'[p].d = k[p].d, k'[p].v = k[p].v, k'[p].m = k[p].m
    PROVE  MemInv'
<1>0. PICK D \in Dir, V \in VPage, pg \in Page : D = k[p].d /\ V = k[p].v /\ pg = pt[D][V].pg
  BY EntryFacts DEF Busy
<1>1. Busy(p)
  BY DEF Busy
<1>2. \A d \in Dir, v \in VPage : pt[d][v].pg = pg => d = D /\ v = V
  BY <1>0 DEF MemInv, Decided, Alone
<1>3. CountsExact'
  BY CountSame DEF MemInv
<1>4. Leaves(D, V)' /\ \A d \in Dir, v \in VPage : Leaves(d, v) => Leaves(d, v)'
  BY <1>0 DEF Leaves
<1>5. ~ Leaves(D, V)
  BY <1>0, <1>1, BusyFacts, NotLeaving
<1>6. used' = used \ {pg} /\ \A y \in Page : y # pg => content'[y] = content[y]
  BY <1>0 DEF kfree, CowType
<1>7. \A q \in Proc : k[q].m # NULL => k[q].m # pg /\ k[q].m \in Page
  BY <1>0, <1>5, CallFacts DEF MemInv, NoneDangling
<1>8. \A d \in Dir, v \in VPage :
          pt[d][v].pg # NULL /\ ~ Leaves(d, v)' =>
              pt[d][v].pg # pg /\ pt[d][v].pg \in Page /\ ~ Leaves(d, v)
  BY <1>2, <1>4, PtFacts
<1>9. NoneDangling'
  <2>1. \A d \in Dir, v \in VPage : pt'[d][v].pg # NULL /\ ~ Leaves(d, v)' => pt'[d][v].pg \in used'
    BY <1>6, <1>8 DEF MemInv, NoneDangling
  <2>2. \A q \in Proc : k'[q].m = k[q].m
    OBVIOUS
  <2>3. \A q \in Proc : k'[q].m # NULL => k'[q].m \in used'
    BY <1>6, <1>7, <2>2 DEF MemInv, NoneDangling
  <2>4. \A q \in Proc : k'[q].m # NULL =>
            \A d \in Dir, v \in VPage : pt'[d][v].pg = k'[q].m => Leaves(d, v)'
    BY <1>4, <2>2 DEF MemInv, NoneDangling
  <2> QED
    BY <2>1, <2>3, <2>4 DEF NoneDangling
<1>10. WriterAlone'
  <2> SUFFICES ASSUME NEW d \in Dir, NEW e \in Dir, NEW v \in VPage, NEW y \in VPage,
                      pt[d][v].w, pt[d][v].pg # NULL, pt[e][y].pg = pt[d][v].pg,
                      ~ Leaves(d, v)', ~ Leaves(e, y)'
               PROVE  d = e /\ v = y
    BY DEF WriterAlone
  <2> QED
    BY <1>4 DEF MemInv, WriterAlone
<1>11. Tables' /\ Decided'
  BY DEF MemInv, Tables, Decided, Alone
<1>12. Contents'
  <2>1. \A d \in Dir, v \in VPage : pt'[d][v].pg # NULL /\ ~ Leaves(d, v)' => content'[pt'[d][v].pg] \in Val
    BY <1>6, <1>8 DEF MemInv, Contents
  <2>2. \A q \in Proc : k'[q].m # NULL => content'[k'[q].m] \in Val
    BY <1>6, <1>7 DEF MemInv, Contents
  <2>3. ASSUME NEW q \in Proc, k'[q].at = "leave" PROVE content'[k'[q].m] = content'[pt'[k'[q].d][k'[q].v].pg]
    <3>1. k'[q] = k[q] /\ Busy(q) /\ k[q].at = "leave" /\ q # p
      BY <2>3 DEF Busy
    <3>2. k[q].v \in VPage /\ k[q].d \in Dir /\ pt[k[q].d][k[q].v].pg \in Page /\ k[q].m \in Page
      BY <3>1, EntryFacts
    <3>3. k[q].d # D
      BY <1>0, <1>1, <3>1, Distinct
    <3>4. pt[k[q].d][k[q].v].pg # pg /\ k[q].m # pg
      BY <1>2, <1>7, <3>2, <3>3, Consts
    <3>5. content[k[q].m] = content[pt[k[q].d][k[q].v].pg]
      BY <3>1 DEF MemInv, Contents
    <3> QED
      BY <1>6, <3>1, <3>2, <3>4, <3>5
  <2> QED
    BY <2>1, <2>2, <2>3 DEF Contents
<1> QED
  BY <1>3, <1>9, <1>10, <1>11, <1>12 DEF MemInv

\* decr_refc() and *pte = 0, in deallocuvm() and in cow_handler_1().
LEMMA MemClear ==
    ASSUME CowType, CtlInv, MemInv, NEW p \in Proc, k[p].at \in {"decr", "leave"},
           NEW D \in Dir, NEW V \in VPage, NEW pg \in Page,
           D = k[p].d, V = k[p].v, pt[D][V].pg = pg,
           \A q \in Proc \ {p} : k'[q] = k[q],
           UNCHANGED <<used, content, tabs>>, Counts(pg, -1), Sets(D, V, NoPte),
           k'[p].at = IF k[p].at = "decr" THEN "drop" ELSE "remap",
           k'[p].d = k[p].d, k[p].at = "leave" => k'[p].v = k[p].v, k'[p].m = k[p].m
    PROVE  MemInv' /\ ref' \in [Page -> Nat] /\ pt' \in PtType
<1>1. Busy(p)
  BY DEF Busy
<1>2. /\ pt' \in PtType /\ pt'[D][V] = NoPte
      /\ \A d \in Dir, v \in VPage : d # D \/ v # V => pt'[d][v] = pt[d][v]
  BY DEF Sets
<1>3. pt'[D][V].pg = NULL
  BY <1>2, NoPteFacts
<1>4. CountsExact' /\ ref' \in [Page -> Nat]
  <2>1. CountsExact
    BY DEF MemInv
  <2>2. \A e \in Dir, x \in VPage : e # D \/ x # V => pt'[e][x].pg = pt[e][x].pg
    BY <1>2
  <2> QED
    BY <1>3, <2>1, <2>2, CountDown
<1>5. \A d \in Dir, v \in VPage : (d # D \/ v # V) => (Leaves(d, v)' <=> Leaves(d, v))
  BY DEF Leaves
<1>6. \A d \in Dir, v \in VPage : pt'[d][v].pg # NULL => (d # D \/ v # V) /\ pt'[d][v] = pt[d][v]
  BY <1>2, <1>3
<1>7. \A q \in Proc : k'[q].m = k[q].m
  OBVIOUS
<1>8. NoneDangling'
  <2>1. \A d \in Dir, v \in VPage : pt'[d][v].pg # NULL /\ ~ Leaves(d, v)' => pt'[d][v].pg \in used'
    BY <1>5, <1>6 DEF MemInv, NoneDangling
  <2>2. \A q \in Proc : k'[q].m # NULL => k'[q].m \in used'
    BY <1>7 DEF MemInv, NoneDangling
  <2>3. \A q \in Proc : k'[q].m # NULL =>
            \A d \in Dir, v \in VPage : pt'[d][v].pg = k'[q].m => Leaves(d, v)'
    BY <1>5, <1>6, <1>7 DEF MemInv, NoneDangling
  <2> QED
    BY <2>1, <2>2, <2>3 DEF NoneDangling
<1>9. WriterAlone'
  <2> SUFFICES ASSUME NEW d \in Dir, NEW e \in Dir, NEW v \in VPage, NEW y \in VPage,
                      pt'[d][v].w, pt'[d][v].pg # NULL, pt'[e][y].pg = pt'[d][v].pg,
                      ~ Leaves(d, v)', ~ Leaves(e, y)'
               PROVE  d = e /\ v = y
    BY DEF WriterAlone
  <2>1. pt'[d][v] = pt[d][v] /\ pt'[e][y] = pt[e][y] /\ ~ Leaves(d, v) /\ ~ Leaves(e, y)
    BY <1>5, <1>6
  <2> QED
    BY <2>1 DEF MemInv, WriterAlone
<1>10. Tables'
  <2>1. \A d \in Dir, v \in VPage : pt'[d][v].pg # NULL => Table(v) \in tabs'[d]
    BY <1>6 DEF MemInv, Tables
  <2>2. k[p].at = "leave" => Table(V) \in tabs[D]
    BY Consts DEF MemInv, Tables
  <2>3. \A q \in Proc : k'[q].at = "remap" => Table(k'[q].v) \in tabs'[k'[q].d]
    BY <2>2 DEF MemInv, Tables
  <2> QED
    BY <2>1, <2>3 DEF Tables
<1>11. ASSUME NEW q \in Proc, q # p, k[q].at \in {"free", "own", "leave"}
       PROVE  /\ k[q].d \in Dir /\ k[q].v \in VPage /\ k[q].d # D /\ pt[k[q].d][k[q].v].pg # NULL
              /\ pt'[k[q].d][k[q].v] = pt[k[q].d][k[q].v]
  <2>1. Busy(q)
    BY <1>11 DEF Busy
  <2>2. k[q].d \in Dir /\ k[q].v \in VPage /\ pt[k[q].d][k[q].v].pg # NULL
    BY <1>11, <2>1, EntryFacts, Consts
  <2>3. k[q].d # D
    BY <1>1, <1>11, <2>1, Distinct
  <2> QED
    BY <1>2, <2>2, <2>3
<1>12. Decided'
  <2> SUFFICES ASSUME NEW q \in Proc, k'[q].at \in {"free", "own"}, NEW d \in Dir, NEW v \in VPage,
                      pt'[d][v].pg = pt'[k'[q].d][k'[q].v].pg
               PROVE  d = k'[q].d /\ v = k'[q].v
    BY DEF Decided, Alone
  <2>1. q # p /\ k'[q] = k[q]
    BY Zenon
  <2>2. pt'[d][v].pg = pt[k[q].d][k[q].v].pg /\ pt'[d][v].pg # NULL
    BY <1>11, <2>1
  <2>3. pt[d][v].pg = pt[k[q].d][k[q].v].pg
    BY <1>6, <2>2
  <2> QED
    BY <2>1, <2>3 DEF MemInv, Decided, Alone
<1>13. Contents'
  <2>1. \A d \in Dir, v \in VPage : pt'[d][v].pg # NULL /\ ~ Leaves(d, v)' => content'[pt'[d][v].pg] \in Val
    BY <1>5, <1>6 DEF MemInv, Contents
  <2>2. \A q \in Proc : k'[q].m # NULL => content'[k'[q].m] \in Val
    BY <1>7 DEF MemInv, Contents
  <2>3. ASSUME NEW q \in Proc, k'[q].at = "leave" PROVE content'[k'[q].m] = content'[pt'[k'[q].d][k'[q].v].pg]
    <3>1. k'[q] = k[q] /\ k[q].at = "leave" /\ q # p
      BY <2>3
    <3>2. pt'[k[q].d][k[q].v] = pt[k[q].d][k[q].v]
      BY <1>11, <3>1
    <3> QED
      BY <3>1, <3>2 DEF MemInv, Contents
  <2> QED
    BY <2>1, <2>2, <2>3 DEF Contents
<1> QED
  BY <1>2, <1>4, <1>8, <1>9, <1>10, <1>12, <1>13 DEF MemInv

\* The page in hand is mapped, in allocuvm() and in cow_handler_1().
LEMMA MemFill ==
    ASSUME CowType, CtlInv, MemInv, NEW p \in Proc, k[p].at \in {"map", "remap"},
           NEW D \in Dir, NEW V \in VPage, NEW pg \in Page,
           D = k[p].d, V = k[p].v, k[p].m = pg, pt[D][V].pg = NULL, Table(V) \in tabs[D],
           \A q \in Proc \ {p} : k'[q] = k[q],
           UNCHANGED <<used, content, tabs>>, Counts(pg, 1),
           NEW e \in Pte, e.pg = pg, Sets(D, V, e),
           k'[p].at \in {"grow", "user"}, k'[p].m = NULL
    PROVE  MemInv' /\ ref' \in [Page -> Nat] /\ pt' \in PtType
<1>1. Busy(p) /\ pg # NULL
  BY Consts DEF Busy
<1>2. /\ pt' \in PtType /\ pt'[D][V] = e /\ pt'[D][V].pg = pg
      /\ \A d \in Dir, v \in VPage : d # D \/ v # V => pt'[d][v] = pt[d][v]
  BY DEF Sets
<1>4. CountsExact' /\ ref' \in [Page -> Nat]
  <2>1. CountsExact
    BY DEF MemInv
  <2>2. \A d \in Dir, x \in VPage : d # D \/ x # V => pt'[d][x].pg = pt[d][x].pg
    BY <1>2
  <2> QED
    BY <1>2, <2>1, <2>2, CountUp
<1>5. \A d \in Dir, v \in VPage : Leaves(d, v)' <=> Leaves(d, v)
  BY DEF Leaves
<1>6. pg \in used /\ content[pg] \in Val /\ \A d \in Dir, v \in VPage : pt[d][v].pg = pg => Leaves(d, v)
  BY <1>1 DEF MemInv, NoneDangling, Contents
<1>7. \A q \in Proc : k'[q].m # NULL => q # p /\ k'[q].m = k[q].m /\ k[q].m # pg
  BY <1>1 DEF CtlInv, Apart
<1>8. NoneDangling'
  <2>1. ASSUME NEW d \in Dir, NEW v \in VPage, pt'[d][v].pg # NULL, ~ Leaves(d, v)'
        PROVE  pt'[d][v].pg \in used'
    BY <1>2, <1>5, <1>6, <2>1 DEF MemInv, NoneDangling
  <2>2. \A q \in Proc : k'[q].m # NULL => k'[q].m \in used'
    BY <1>7 DEF MemInv, NoneDangling
  <2>3. ASSUME NEW q \in Proc, k'[q].m # NULL, NEW d \in Dir, NEW v \in VPage, pt'[d][v].pg = k'[q].m
        PROVE  Leaves(d, v)'
    <3>1. k[q].m # NULL /\ k'[q].m = k[q].m /\ pt'[d][v].pg # pg
      BY <1>7, <2>3
    <3>2. pt[d][v].pg = k[q].m
      BY <1>2, <2>3, <3>1
    <3> QED
      BY <1>5, <3>1, <3>2 DEF MemInv, NoneDangling
  <2> QED
    BY <2>1, <2>2, <2>3 DEF NoneDangling
<1>9. WriterAlone'
  <2> SUFFICES ASSUME NEW d \in Dir, NEW f \in Dir, NEW v \in VPage, NEW y \in VPage,
                      pt'[d][v].w, pt'[d][v].pg # NULL, pt'[f][y].pg = pt'[d][v].pg,
                      ~ Leaves(d, v)', ~ Leaves(f, y)'
               PROVE  d = f /\ v = y
    BY DEF WriterAlone
  <2>1. ~ Leaves(d, v) /\ ~ Leaves(f, y)
    BY <1>5
  <2>2. CASE (d # D \/ v # V) /\ (f # D \/ y # V)
    <3>1. pt'[d][v] = pt[d][v] /\ pt'[f][y] = pt[f][y]
      BY <1>2, <2>2
    <3> QED
      BY <2>1, <3>1 DEF MemInv, WriterAlone
  <2>3. CASE d = D /\ v = V /\ (f # D \/ y # V)
    BY <1>2, <1>6, <2>1, <2>3
  <2>4. CASE (d # D \/ v # V) /\ f = D /\ y = V
    BY <1>2, <1>6, <2>1, <2>4
  <2> QED
    BY <2>2, <2>3, <2>4
<1>10. Tables'
  <2>1. \A d \in Dir, v \in VPage : pt'[d][v].pg # NULL => Table(v) \in tabs'[d]
    BY <1>2 DEF MemInv, Tables
  <2>2. \A q \in Proc : k'[q].at = "remap" => Table(k'[q].v) \in tabs'[k'[q].d]
    BY DEF MemInv, Tables
  <2> QED
    BY <2>1, <2>2 DEF Tables
<1>11. ASSUME NEW q \in Proc, q # p, k[q].at \in {"free", "own", "leave"}
       PROVE  /\ k[q].d \in Dir /\ k[q].v \in VPage /\ pt[k[q].d][k[q].v].pg # NULL
              /\ pt'[k[q].d][k[q].v] = pt[k[q].d][k[q].v]
              /\ pt[k[q].d][k[q].v].pg # pg
  <2>1. Busy(q)
    BY <1>11 DEF Busy
  <2>2. k[q].d \in Dir /\ k[q].v \in VPage /\ pt[k[q].d][k[q].v].pg # NULL
    BY <1>11, <2>1, EntryFacts, Consts
  <2>3. k[q].d # D
    BY <1>1, <1>11, <2>1, Distinct
  <2>4. ~ Leaves(k[q].d, k[q].v)
    BY <1>11, <2>1, <2>2, NotLeaving, BusyFacts
  <2> QED
    BY <1>2, <1>6, <2>2, <2>3, <2>4
<1>12. Decided'
  <2> SUFFICES ASSUME NEW q \in Proc, k'[q].at \in {"free", "own"}, NEW d \in Dir, NEW v \in VPage,
                      pt'[d][v].pg = pt'[k'[q].d][k'[q].v].pg
               PROVE  d = k'[q].d /\ v = k'[q].v
    BY DEF Decided, Alone
  <2>1. q # p /\ k'[q] = k[q]
    BY Zenon
  <2>2. pt'[d][v].pg = pt[k[q].d][k[q].v].pg /\ pt'[d][v].pg # pg
    BY <1>11, <2>1
  <2>3. pt[d][v].pg = pt[k[q].d][k[q].v].pg
    BY <1>2, <2>2
  <2> QED
    BY <2>1, <2>3 DEF MemInv, Decided, Alone
<1>13. Contents'
  <2>1. ASSUME NEW d \in Dir, NEW v \in VPage, pt'[d][v].pg # NULL, ~ Leaves(d, v)'
        PROVE  content'[pt'[d][v].pg] \in Val
    BY <1>2, <1>5, <1>6, <2>1 DEF MemInv, Contents
  <2>2. \A q \in Proc : k'[q].m # NULL => content'[k'[q].m] \in Val
    BY <1>7 DEF MemInv, Contents
  <2>3. ASSUME NEW q \in Proc, k'[q].at = "leave" PROVE content'[k'[q].m] = content'[pt'[k'[q].d][k'[q].v].pg]
    <3>1. k'[q] = k[q] /\ k[q].at = "leave" /\ q # p
      BY <2>3
    <3>2. pt'[k[q].d][k[q].v] = pt[k[q].d][k[q].v]
      BY <1>11, <3>1
    <3> QED
      BY <3>1, <3>2 DEF MemInv, Contents
  <2> QED
    BY <2>1, <2>2, <2>3 DEF Contents
<1> QED
  BY <1>2, <1>4, <1>8, <1>9, <1>10, <1>12, <1>13 DEF MemInv

\* sharerouvm(): page V of directory E is mapped in D too, and neither may write it.
LEMMA MemShare ==
    ASSUME CowType, CtlInv, MemInv, NEW p \in Proc, k[p].at = "share",
           NEW D \in Dir, NEW E \in Dir, NEW V \in VPage, NEW pg \in Page,
           D = k[p].d, E = proc[p].pgdir, D # E, pt[D][V].pg = NULL, pt[E][V].pg = pg,
           Table(V) \in tabs[D],
           \A q \in Proc \ {p} : k'[q] = k[q],
           UNCHANGED <<used, content, tabs>>, Counts(pg, 1),
           pt' \in PtType, pt'[D][V].pg = pg, ~ pt'[D][V].w, pt'[E][V].pg = pg, ~ pt'[E][V].w,
           \A d \in Dir, v \in VPage : v # V \/ d \notin {D, E} => pt'[d][v] = pt[d][v],
           k'[p].at = "share", k'[p].m = k[p].m
    PROVE  MemInv' /\ ref' \in [Page -> Nat]
<1>1. Busy(p) /\ pg # NULL /\ Running(p) /\ k[p].op \notin {"sbrk", "cow"}
  <2>1. Busy(p) /\ pg # NULL
    BY Consts DEF Busy
  <2>2. PlaceOK(k[p])
    BY DEF CtlInv
  <2> QED
    BY <2>1, <2>2, BusyFacts DEF PlaceOK, Dropping, Copying
<1>2. /\ \A d \in Dir, v \in VPage : d # D \/ v # V => pt'[d][v].pg = pt[d][v].pg
      /\ \A d \in Dir, v \in VPage : pt'[d][v].w = TRUE => pt'[d][v] = pt[d][v] /\ ~ (v = V /\ d \in {D, E})
  BY ZenonT(20)
<1>3. CountsExact' /\ ref' \in [Page -> Nat]
  <2>1. CountsExact
    BY DEF MemInv
  <2> QED
    BY <1>2, <2>1, CountUp
<1>4. \A d \in Dir, v \in VPage : Leaves(d, v)' <=> Leaves(d, v)
  BY DEF Leaves
<1>5. ~ Leaves(E, V) /\ ~ Leaves(D, V)
  BY <1>1, NotLeaving
<1>6. pg \in used /\ content[pg] \in Val
  BY <1>1, <1>5 DEF MemInv, NoneDangling, Contents
<1>7. \A q \in Proc : k'[q].m = k[q].m /\ (k[q].m # NULL => k[q].m # pg)
  BY <1>5 DEF MemInv, NoneDangling
<1>8. NoneDangling'
  <2>1. ASSUME NEW d \in Dir, NEW v \in VPage, pt'[d][v].pg # NULL, ~ Leaves(d, v)'
        PROVE  pt'[d][v].pg \in used'
    BY <1>2, <1>4, <1>6, <2>1 DEF MemInv, NoneDangling
  <2>2. \A q \in Proc : k'[q].m # NULL => k'[q].m \in used'
    BY <1>7 DEF MemInv, NoneDangling
  <2>3. ASSUME NEW q \in Proc, k'[q].m # NULL, NEW d \in Dir, NEW v \in VPage, pt'[d][v].pg = k'[q].m
        PROVE  Leaves(d, v)'
    <3>1. k[q].m # NULL /\ k'[q].m = k[q].m /\ pt'[d][v].pg # pg
      BY <1>7, <2>3
    <3>2. pt[d][v].pg = k[q].m
      BY <1>2, <2>3, <3>1
    <3> QED
      BY <1>4, <3>1, <3>2 DEF MemInv, NoneDangling
  <2> QED
    BY <2>1, <2>2, <2>3 DEF NoneDangling
<1>9. WriterAlone'
  <2> SUFFICES ASSUME NEW d \in Dir, NEW f \in Dir, NEW v \in VPage, NEW y \in VPage,
                      pt'[d][v].w, pt'[d][v].pg # NULL, pt'[f][y].pg = pt'[d][v].pg,
                      ~ Leaves(d, v)', ~ Leaves(f, y)'
               PROVE  d = f /\ v = y
    BY DEF WriterAlone
  <2>1. ~ Leaves(d, v) /\ ~ Leaves(f, y)
    BY <1>4
  <2>2. pt'[d][v] = pt[d][v] /\ ~ (v = V /\ d \in {D, E})
    BY <1>2
  <2>3. pt[d][v].w /\ pt[d][v].pg # NULL
    BY <2>2, Zenon
  <2>4. pt[d][v].pg # pg
    BY <1>5, <2>1, <2>2, <2>3 DEF MemInv, WriterAlone
  <2>5. pt[f][y].pg = pt[d][v].pg
    BY <1>2, <2>2, <2>4
  <2> QED
    BY <2>1, <2>3, <2>5 DEF MemInv, WriterAlone
<1>10. Tables'
  <2>1. \A d \in Dir, v \in VPage : pt'[d][v].pg # NULL => Table(v) \in tabs'[d]
    BY <1>2 DEF MemInv, Tables
  <2>2. \A q \in Proc : k'[q].at = "remap" => Table(k'[q].v) \in tabs'[k'[q].d]
    BY DEF MemInv, Tables
  <2> QED
    BY <2>1, <2>2 DEF Tables
<1>11. ASSUME NEW q \in Proc, q # p, k[q].at \in {"free", "own", "leave"}
       PROVE  /\ k[q].d \in Dir /\ k[q].v \in VPage /\ pt[k[q].d][k[q].v].pg # NULL
              /\ pt'[k[q].d][k[q].v].pg = pt[k[q].d][k[q].v].pg
              /\ k[q].at # "leave" => pt[k[q].d][k[q].v].pg # pg
  <2>1. Busy(q)
    BY <1>11 DEF Busy
  <2>2. k[q].d \in Dir /\ k[q].v \in VPage /\ pt[k[q].d][k[q].v].pg # NULL
    BY <1>11, <2>1, EntryFacts, Consts
  <2>3. k[q].d # D /\ k[q].d # E
    BY <1>1, <1>11, <2>1, Distinct
  <2>4. k[q].at # "leave" => pt[k[q].d][k[q].v].pg # pg
    BY <1>11, <2>3 DEF MemInv, Decided, Alone
  <2> QED
    BY <1>2, <2>2, <2>3, <2>4
<1>12. Decided'
  <2> SUFFICES ASSUME NEW q \in Proc, k'[q].at \in {"free", "own"}, NEW d \in Dir, NEW v \in VPage,
                      pt'[d][v].pg = pt'[k'[q].d][k'[q].v].pg
               PROVE  d = k'[q].d /\ v = k'[q].v
    BY DEF Decided, Alone
  <2>1. q # p /\ k'[q] = k[q]
    BY Zenon
  <2>2. pt'[d][v].pg = pt[k[q].d][k[q].v].pg /\ pt'[d][v].pg # pg
    BY <1>11, <2>1
  <2>3. pt[d][v].pg = pt[k[q].d][k[q].v].pg
    BY <1>2, <2>2
  <2> QED
    BY <2>1, <2>3 DEF MemInv, Decided, Alone
<1>13. Contents'
  <2>1. ASSUME NEW d \in Dir, NEW v \in VPage, pt'[d][v].pg # NULL, ~ Leaves(d, v)'
        PROVE  content'[pt'[d][v].pg] \in Val
    BY <1>2, <1>4, <1>6, <2>1 DEF MemInv, Contents
  <2>2. \A q \in Proc : k'[q].m # NULL => content'[k'[q].m] \in Val
    BY <1>7 DEF MemInv, Contents
  <2>3. ASSUME NEW q \in Proc, k'[q].at = "leave" PROVE content'[k'[q].m] = content'[pt'[k'[q].d][k'[q].v].pg]
    <3>1. k'[q] = k[q] /\ k[q].at = "leave" /\ q # p
      BY <2>3
    <3>2. pt'[k[q].d][k[q].v].pg = pt[k[q].d][k[q].v].pg
      BY <1>11, <3>1
    <3> QED
      BY <3>1, <3>2 DEF MemInv, Contents
  <2> QED
    BY <2>1, <2>2, <2>3 DEF Contents
<1> QED
  BY <1>3, <1>8, <1>9, <1>10, <1>12, <1>13 DEF MemInv

\* cow_handler() makes the only entry of a page writable.
LEMMA MemOwn ==
    ASSUME CowType, CtlInv, MemInv, NEW p \in Proc, k[p].at = "own",
           NEW D \in Dir, NEW V \in VPage, D = k[p].d, V = k[p].v,
           \A q \in Proc \ {p} : k'[q] = k[q],
           UNCHANGED <<used, content, tabs, ref>>,
           \A d \in Dir, v \in VPage : pt'[d][v].pg = pt[d][v].pg /\ (d # D \/ v # V => pt'[d][v] = pt[d][v]),
           k'[p].at = "user", k'[p].m = NULL
    PROVE  MemInv'
<1>1. CountsExact'
  BY CountSame DEF MemInv
<1>2. \A d \in Dir, v \in VPage : Leaves(d, v)' <=> Leaves(d, v)
  BY DEF Leaves
<1>3. \A q \in Proc : k'[q].m # NULL => k'[q].m = k[q].m
  OBVIOUS
<1>4. NoneDangling'
  BY <1>2, <1>3 DEF MemInv, NoneDangling
<1>5. \A d \in Dir, v \in VPage : pt[d][v].pg = pt[D][V].pg => d = D /\ v = V
  BY DEF MemInv, Decided, Alone
<1>6. WriterAlone'
  <2> SUFFICES ASSUME NEW d \in Dir, NEW f \in Dir, NEW v \in VPage, NEW y \in VPage,
                      pt'[d][v].w, pt'[d][v].pg # NULL, pt'[f][y].pg = pt'[d][v].pg,
                      ~ Leaves(d, v)', ~ Leaves(f, y)'
               PROVE  d = f /\ v = y
    BY DEF WriterAlone
  <2>1. ~ Leaves(d, v) /\ ~ Leaves(f, y) /\ pt[f][y].pg = pt[d][v].pg /\ pt[d][v].pg # NULL
    BY <1>2
  <2>2. CASE d = D /\ v = V
    BY <1>5, <2>1, <2>2
  <2>3. CASE d # D \/ v # V
    <3>1. pt[d][v].w
      BY <2>3, Zenon
    <3> QED
      BY <2>1, <3>1 DEF MemInv, WriterAlone
  <2> QED
    BY <2>2, <2>3
<1>7. Tables'
  BY DEF MemInv, Tables
<1>8. Decided'
  BY CallFacts, EntryFacts DEF MemInv, Decided, Alone, Busy
<1>9. Contents'
  <2>1. \A d \in Dir, v \in VPage : pt'[d][v].pg # NULL /\ ~ Leaves(d, v)' => content'[pt'[d][v].pg] \in Val
    BY <1>2 DEF MemInv, Contents
  <2>2. \A q \in Proc : k'[q].m # NULL => content'[k'[q].m] \in Val
    BY <1>3 DEF MemInv, Contents
  <2>3. ASSUME NEW q \in Proc, k'[q].at = "leave" PROVE content'[k'[q].m] = content'[pt'[k'[q].d][k'[q].v].pg]
    <3>1. k'[q] = k[q] /\ k[q].at = "leave" /\ Busy(q)
      BY <2>3 DEF Busy
    <3>2. k[q].d \in Dir /\ k[q].v \in VPage
      BY <3>1, EntryFacts
    <3> QED
      BY <3>1, <3>2 DEF MemInv, Contents
  <2> QED
    BY <2>1, <2>2, <2>3 DEF Contents
<1> QED
  BY <1>1, <1>4, <1>6, <1>7, <1>8, <1>9 DEF MemInv

\* A store through a writable entry.
LEMMA MemStore ==
    ASSUME CowType, CtlInv, MemInv, NEW p \in Proc, Running(p), ~ Busy(p),
           NEW V \in VPage, NEW D \in Dir, NEW pg \in Page, D = proc[p].pgdir,
           pt[D][V].w, pt[D][V].pg = pg, NEW x \in Val, content' = [content EXCEPT ![pg] = x],
           UNCHANGED <<used, ref, pt, tabs, k>>
    PROVE  MemInv'
<1>1. CountsExact'
  BY CountSame DEF MemInv
<1>2. \A d \in Dir, v \in VPage : Leaves(d, v)' <=> Leaves(d, v)
  BY DEF Leaves
<1>3. NoneDangling' /\ Tables' /\ Decided'
  BY <1>2 DEF MemInv, NoneDangling, Tables, Decided, Alone
<1>4. WriterAlone'
  BY <1>2 DEF MemInv, WriterAlone
<1>5. ~ Leaves(D, V) /\ pg # NULL
  BY NotLeaving, Consts
<1>6. /\ content' \in [Page -> Val \cup {JUNK}] /\ content'[pg] = x
      /\ \A y \in Page : y # pg => content'[y] = content[y]
  BY DEF CowType
<1>7. Contents'
  <2>1. ASSUME NEW d \in Dir, NEW v \in VPage, pt[d][v].pg # NULL, ~ Leaves(d, v)
        PROVE  content'[pt[d][v].pg] \in Val
    <3>1. pt[d][v].pg \in Page /\ content[pt[d][v].pg] \in Val
      BY <2>1, PtFacts DEF MemInv, Contents
    <3> QED
      BY <1>6, <3>1
  <2>2. ASSUME NEW q \in Proc, k[q].m # NULL PROVE content'[k[q].m] \in Val /\ k[q].m # pg
    <3>1. k[q].m \in Page /\ content[k[q].m] \in Val
      BY <2>2, CallFacts DEF MemInv, Contents
    <3>2. k[q].m # pg
      BY <1>5, <2>2 DEF MemInv, NoneDangling
    <3> QED
      BY <1>6, <3>1, <3>2
  <2>3. ASSUME NEW q \in Proc, k[q].at = "leave" PROVE content'[k[q].m] = content'[pt[k[q].d][k[q].v].pg]
    <3>1. Busy(q) /\ q # p
      BY <2>3 DEF Busy
    <3>2. k[q].d \in Dir /\ k[q].v \in VPage /\ pt[k[q].d][k[q].v].pg \in Page /\ k[q].m \in Page
      BY <2>3, <3>1, EntryFacts
    <3>3. ~ Leaves(k[q].d, k[q].v) /\ k[q].d # D
      BY <2>3, <3>1, <3>2, NotLeaving, BusyFacts, Distinct
    <3>4. pt[k[q].d][k[q].v].pg # pg
      BY <1>5, <3>2, <3>3 DEF MemInv, WriterAlone
    <3>5. content[k[q].m] = content[pt[k[q].d][k[q].v].pg] /\ k[q].m # pg
      BY <2>2, <2>3, <3>2, Consts DEF MemInv, Contents
    <3> QED
      BY <1>6, <3>2, <3>4, <3>5
  <2> QED
    BY <1>2, <2>1, <2>2, <2>3 DEF Contents
<1> QED
  BY <1>1, <1>3, <1>4, <1>7 DEF MemInv

\* The end of deallocuvm(): the page in hand is freed, and perhaps the tables.
LEMMA MemEnd ==
    ASSUME CowType, CtlInv, MemInv, NEW p \in Proc, k[p].at = "drop", NEW D \in Dir, D = k[p].d,
           \A q \in Proc \ {p} : k'[q] = k[q], k'[p].at = "user", k'[p].m = NULL,
           UNCHANGED <<pt, ref>>,
           used' = used \ ({k[p].m} \ {NULL}),
           \A y \in Page : y # k[p].m => content'[y] = content[y],
           \A d \in Dir : d # D => tabs'[d] = tabs[d],
           tabs'[D] = tabs[D] \/ \A v \in VPage : pt[D][v].pg = NULL
    PROVE  MemInv'
<1>1. CountsExact'
  BY CountSame DEF MemInv
<1>2. \A d \in Dir, v \in VPage : Leaves(d, v)' <=> Leaves(d, v)
  BY DEF Leaves
<1>3. \A q \in Proc : k'[q].m # NULL => k'[q].m = k[q].m /\ k[q].m \in Page /\ k[q].m # k[p].m
  BY CallFacts DEF CtlInv, Apart
<1>4. \A d \in Dir, v \in VPage :
          pt[d][v].pg # NULL /\ ~ Leaves(d, v) => pt[d][v].pg # k[p].m /\ pt[d][v].pg \in Page
  BY PtFacts DEF MemInv, NoneDangling
<1>5. NoneDangling'
  <2>1. \A d \in Dir, v \in VPage : pt'[d][v].pg # NULL /\ ~ Leaves(d, v)' => pt'[d][v].pg \in used'
    BY <1>2, <1>4 DEF MemInv, NoneDangling
  <2>2. \A q \in Proc : k'[q].m # NULL => k'[q].m \in used'
    BY <1>3 DEF MemInv, NoneDangling
  <2>3. \A q \in Proc : k'[q].m # NULL =>
            \A d \in Dir, v \in VPage : pt'[d][v].pg = k'[q].m => Leaves(d, v)'
    BY <1>2, <1>3 DEF MemInv, NoneDangling
  <2> QED
    BY <2>1, <2>2, <2>3 DEF NoneDangling
<1>6. WriterAlone'
  BY <1>2 DEF MemInv, WriterAlone
<1>7. Tables'
  <2>1. \A d \in Dir, v \in VPage : pt'[d][v].pg # NULL => Table(v) \in tabs'[d]
    BY DEF MemInv, Tables
  <2>2. ASSUME NEW q \in Proc, k'[q].at = "remap" PROVE Table(k'[q].v) \in tabs'[k'[q].d]
    <3>1. q # p /\ k'[q] = k[q] /\ Busy(q) /\ Busy(p)
      BY <2>2 DEF Busy
    <3>2. k[q].d \in Dir /\ k[q].d # D
      BY <3>1, Distinct, CallFacts
    <3> QED
      BY <2>2, <3>1, <3>2 DEF MemInv, Tables
  <2> QED
    BY <2>1, <2>2 DEF Tables
<1>8. Decided'
  BY DEF MemInv, Decided, Alone
<1>9. Contents'
  <2>1. \A d \in Dir, v \in VPage : pt'[d][v].pg # NULL /\ ~ Leaves(d, v)' => content'[pt'[d][v].pg] \in Val
    BY <1>2, <1>4 DEF MemInv, Contents
  <2>2. \A q \in Proc : k'[q].m # NULL => content'[k'[q].m] \in Val
    BY <1>3 DEF MemInv, Contents
  <2>3. ASSUME NEW q \in Proc, k'[q].at = "leave" PROVE content'[k'[q].m] = content'[pt'[k'[q].d][k'[q].v].pg]
    <3>1. k'[q] = k[q] /\ k[q].at = "leave" /\ Busy(q)
      BY <2>3 DEF Busy
    <3>2. k[q].d \in Dir /\ k[q].v \in VPage /\ pt[k[q].d][k[q].v].pg \in Page /\ k[q].m \in Page
      BY <3>1, EntryFacts
    <3>3. ~ Leaves(k[q].d, k[q].v)
      BY <3>1, <3>2, NotLeaving, BusyFacts
    <3>4. pt[k[q].d][k[q].v].pg # k[p].m /\ k[q].m # k[p].m
      BY <1>3, <1>4, <3>1, <3>2, <3>3, Consts
    <3>5. content[k[q].m] = content[pt[k[q].d][k[q].v].pg]
      BY <3>1 DEF MemInv, Contents
    <3> QED
      BY <3>1, <3>2, <3>4, <3>5
  <2> QED
    BY <2>1, <2>2, <2>3 DEF Contents
<1> QED
  BY <1>1, <1>5, <1>6, <1>7, <1>8, <1>9 DEF MemInv

--------------------------------------------------------------------------------
(* Every step keeps the invariant: deallocuvm() and freevm() *)

\* The call of p goes on at a, with v and m.
Goes(p, a, v, m) ==
    /\ k' \in [Proc -> Call]
    /\ \A q \in Proc \ {p} : k'[q] = k[q]
    /\ k'[p].at = a /\ k'[p].v = v /\ k'[p].m = m
    /\ k'[p].op = k[p].op /\ k'[p].d = k[p].d /\ k'[p].c = k[p].c
    /\ k'[p].hi = k[p].hi /\ k'[p].nsz = k[p].nsz /\ k'[p].bad = k[p].bad

\* What is known of a process at place a of the kernel.
Here(p, a) ==
    /\ CowType /\ CtlInv /\ MemInv
    /\ Busy(p) /\ Running(p) /\ k[p].at = a /\ k[p] \in Call /\ k \in [Proc -> Call] /\ k[p].d \in Dir
    /\ PlaceOK(k[p]) /\ BoundOK(k[p], proc[p].sz) /\ ShapeOK(k[p], proc[p].sz, pt[k[p].d])
    /\ k[p].v \in Nat /\ k[p].hi \in Nat /\ k[p].nsz \in Nat /\ proc[p].sz \in Nat /\ MaxSz \in Nat
    /\ k[p].hi <= MaxSz /\ proc[p].sz <= MaxSz /\ k[p].v <= MaxSz /\ k[p].nsz <= MaxSz
    /\ k[p].v < MaxSz => k[p].v \in VPage
    /\ Lo(k[p], proc[p].sz) \in Nat

LEMMA PlaceFacts ==
    ASSUME CowInv, NEW p \in Proc, NEW a, At(p, a), a # "user"
    PROVE  Here(p, a)
<1>1. CowType /\ CtlInv /\ MemInv /\ Busy(p) /\ Running(p) /\ k[p].at = a
  BY DEF CowInv, At, Busy
<1>2. PlaceOK(k[p]) /\ BoundOK(k[p], proc[p].sz) /\ ShapeOK(k[p], proc[p].sz, pt[k[p].d])
  BY <1>1 DEF CtlInv
<1>3. /\ k[p] \in Call /\ k \in [Proc -> Call] /\ k[p].d \in Dir
      /\ k[p].v \in Nat /\ k[p].hi \in Nat /\ k[p].nsz \in Nat /\ proc[p].sz \in Nat /\ MaxSz \in Nat
      /\ k[p].hi <= MaxSz /\ proc[p].sz <= MaxSz /\ k[p].v <= MaxSz /\ k[p].nsz <= MaxSz
      /\ k[p].v < MaxSz => k[p].v \in VPage
  BY <1>1, CallFacts, SlotFacts, Consts DEF CowType
<1>4. Lo(k[p], proc[p].sz) \in Nat
  BY <1>3 DEF Lo
<1> QED
  BY <1>1, <1>2, <1>3, <1>4 DEF Here

\* A slot of the page table is in range.
LEMMA BelowTop == ASSUME NEW v \in Nat, NEW h \in Nat, v < h, h <= MaxSz PROVE v \in VPage
  BY Consts DEF VPage

LEMMA DropLookKeeps ==
    ASSUME CowInv, NEW p \in Proc, DropLook(p)
    PROVE  CowInv'
<1>0. Here(p, "drop") /\ k[p].v < k[p].hi /\ k[p].v \in VPage
  BY PlaceFacts, BelowTop DEF DropLook, Here
<1>1. UNCHANGED <<nfree, used, ref, content, pt, tabs, proc>>
  BY DEF DropLook
<1>2. PICK D \in Dir, V \in VPage, pg \in Page \cup {NULL} :
        D = k[p].d /\ V = k[p].v /\ pg = pt[D][V].pg
  BY <1>0, PtFacts DEF Here
<1>3. CASE pg = NULL
  <2>1. k' = [k EXCEPT ![p].v = @ + 1]
    BY <1>2, <1>3 DEF DropLook
  <2>2. Goes(p, "drop", k[p].v + 1, k[p].m)
    BY <1>0, <1>1, <2>1 DEF Here, Goes, Call
  <2>3. CowType'
    BY <1>1, <2>2 DEF CowInv, CowType, Goes
  <2>4. CtlInv'
    <3>1. PlaceOK(k'[p])
      BY <1>0, <1>1, <2>2 DEF Here, PlaceOK, Goes
    <3>2. BoundOK(k'[p], proc[p].sz)
      BY <1>0, <1>1, <2>2 DEF Here, BoundOK, Goes, Lo, Dropping, Copying
    <3>3. ShapeOK(k'[p], proc[p].sz, pt[k[p].d])
      <4>1. Lo(k'[p], proc[p].sz) = Lo(k[p], proc[p].sz)
        BY <2>2 DEF Goes, Lo
      <4>2. pt[k[p].d][k[p].v].pg = NULL /\ k'[p].at = "drop" /\ k'[p].v = k[p].v + 1 /\ k'[p].hi = k[p].hi
        BY <1>2, <1>3, <2>2 DEF Goes
      <4>3. \A v \in VPage : v \in Nat
        BY Consts
      <4> QED
        BY <1>0, <4>1, <4>2, <4>3 DEF Here, ShapeOK, Dropping, Copying, Building
    <3> QED
      BY <1>0, <1>1, <2>2, <3>1, <3>2, <3>3, CtlInner DEF Here, Goes, Busy
  <2>5. MemInv'
    BY <1>0, <1>1, <2>2, MemKept DEF Here, Goes
  <2> QED
    BY <2>3, <2>4, <2>5 DEF CowInv
<1>4. CASE pg # NULL
  <2>0. PICK a \in {"free", "decr"} : a = IF Last(ref[pg]) THEN "free" ELSE "decr"
    BY Zenon
  <2>1. k' = [k EXCEPT ![p].cnt = ref[pg], ![p].at = a] /\ ref[pg] \in Nat
    BY <1>2, <1>4, <2>0 DEF DropLook, CowInv, CowType
  <2>2. Goes(p, a, k[p].v, k[p].m)
    BY <1>0, <1>1, <2>1 DEF Here, Goes, Call, Places, Dropping
  <2>3. CowType'
    BY <1>1, <2>2 DEF CowInv, CowType, Goes
  <2>4. CtlInv'
    <3>1. PlaceOK(k'[p])
      BY <1>0, <1>1, <2>2 DEF Here, PlaceOK, Goes, Dropping, Copying
    <3>2. BoundOK(k'[p], proc[p].sz)
      BY <1>0, <1>1, <2>2 DEF Here, BoundOK, Goes, Lo, Dropping, Copying
    <3>3. ShapeOK(k'[p], proc[p].sz, pt[k[p].d])
      BY <1>0, <1>1, <1>2, <1>4, <2>2, Consts DEF Here, ShapeOK, Goes, Lo, Dropping, Copying, Building
    <3> QED
      BY <1>0, <1>1, <2>2, <3>1, <3>2, <3>3, CtlInner DEF Here, Goes, Busy
  <2>5. a = "free" => Alone(p)'
    <3>1. a = "free" => \A d \in Dir, v \in VPage : pt[d][v].pg = pt[D][V].pg => d = D /\ v = V
      BY <1>2, <1>4, <2>0, CountOne DEF CowInv, MemInv, Last
    <3> QED
      BY <1>1, <1>2, <2>2, <3>1 DEF Alone, Goes
  <2>6. MemInv'
    BY <1>0, <1>1, <2>2, <2>5, MemKept DEF Here, Goes
  <2> QED
    BY <2>3, <2>4, <2>6 DEF CowInv
<1> QED
  BY <1>3, <1>4

LEMMA DropFreeKeeps ==
    ASSUME CowInv, NEW p \in Proc, DropFree(p)
    PROVE  CowInv'
<1>0. Here(p, "free")
  BY PlaceFacts DEF DropFree
<1>1. kfree(pt[k[p].d][k[p].v].pg) /\ UNCHANGED <<ref, pt, tabs, proc>>
      /\ k' = [k EXCEPT ![p].at = "decr"]
  BY DEF DropFree
<1>2. Goes(p, "decr", k[p].v, k[p].m)
  BY <1>0, <1>1 DEF Here, Goes, Call, Places, Dropping
<1>3. CowType'
  <2>1. nfree' \in Nat /\ used' \subseteq Page
    BY <1>1 DEF CowInv, CowType, kfree
  <2>2. content' \in [Page -> Val \cup {JUNK}]
    BY <1>1 DEF CowInv, CowType, kfree
  <2> QED
    BY <1>1, <1>2, <2>1, <2>2 DEF CowInv, CowType, Goes
<1>4. CtlInv'
  <2>1. PlaceOK(k'[p])
    BY <1>0, <1>1, <1>2 DEF Here, PlaceOK, Goes, Dropping, Copying
  <2>2. BoundOK(k'[p], proc[p].sz)
    BY <1>0, <1>1, <1>2 DEF Here, BoundOK, Goes, Lo, Dropping, Copying
  <2>3. ShapeOK(k'[p], proc[p].sz, pt[k[p].d])
    BY <1>0, <1>1, <1>2, Consts DEF Here, ShapeOK, Goes, Lo, Dropping, Copying, Building
  <2> QED
    BY <1>0, <1>1, <1>2, <2>1, <2>2, <2>3, CtlInner DEF Here, Goes, Busy
<1>5. MemInv'
  BY <1>0, <1>1, <1>2, MemFree DEF Here, Goes
<1> QED
  BY <1>3, <1>4, <1>5 DEF CowInv

LEMMA DropDecrKeeps ==
    ASSUME CowInv, NEW p \in Proc, DropDecr(p)
    PROVE  CowInv'
<1>0. Here(p, "decr")
  BY PlaceFacts DEF DropDecr
<1>1. UNCHANGED <<nfree, used, content, tabs, proc>>
      /\ k' = [k EXCEPT ![p].v = @ + 1, ![p].at = "drop"]
  BY DEF DropDecr
<1>2. PICK D \in Dir, V \in VPage, pg \in Page : D = k[p].d /\ V = k[p].v /\ pg = pt[D][V].pg
  BY <1>0, EntryFacts DEF Here
<1>3. Sets(D, V, NoPte) /\ Counts(pg, -1)
  <2>1. pt' = [pt EXCEPT ![D][V] = NoPte] /\ ref' = [ref EXCEPT ![pg] = @ - 1]
    BY <1>2 DEF DropDecr, decr_refc
  <2>2. Counts(pg, -1)
    BY <2>1 DEF Counts, CowInv, CowType
  <2>3. Sets(D, V, NoPte)
    BY <2>1, NoPteFacts DEF Sets, CowInv, CowType, PtType
  <2> QED
    BY <2>2, <2>3
<1>4. Goes(p, "drop", k[p].v + 1, k[p].m)
  BY <1>0, <1>1, <1>2, Consts DEF Here, Goes, Call, Places, Dropping
<1>5. MemInv' /\ ref' \in [Page -> Nat] /\ pt' \in PtType
  BY <1>0, <1>1, <1>2, <1>3, <1>4, MemClear DEF Here, Goes
<1>6. CowType'
  BY <1>1, <1>4, <1>5 DEF CowInv, CowType, Goes
<1>7. CtlInv'
  <2>1. PlaceOK(k'[p])
    BY <1>0, <1>1, <1>4 DEF Here, PlaceOK, Goes, Dropping, Copying
  <2>2. BoundOK(k'[p], proc[p].sz)
    BY <1>0, <1>1, <1>4 DEF Here, BoundOK, Goes, Lo, Dropping, Copying
  <2>3. pt'[D][V].pg = NULL /\ \A d \in Dir, v \in VPage : d # D \/ v # V => pt'[d][v].pg = pt[d][v].pg
    BY <1>3, NoPteFacts DEF Sets
  <2>4. ShapeOK(k'[p], proc[p].sz, pt'[k[p].d])
    BY <1>0, <1>1, <1>2, <1>4, <2>3, Consts DEF Here, ShapeOK, BoundOK, Goes, Lo, Dropping, Copying, Building
  <2> QED
    BY <1>0, <1>1, <1>2, <1>4, <2>1, <2>2, <2>3, <2>4, CtlInner DEF Here, Goes, Busy
<1> QED
  BY <1>5, <1>6, <1>7 DEF CowInv

LEMMA UnusedFacts == Unused \in Slot /\ Unused.state = "UNUSED"
<1>1. <<1, 0>> \in Dir
  BY Consts, DirFacts DEF initproc
<1> QED
  BY <1>1, Consts DEF Unused, Slot

\* A call that ends.
LEMMA ReturnFacts ==
    ASSUME CowType, NEW p \in Proc, Return(p)
    PROVE  k' \in [Proc -> Call] /\ k'[p] = User /\ \A q \in Proc \ {p} : k'[q] = k[q]
  BY UserFacts DEF CowType, Return

\* deallocuvm() has come to its end.
LEMMA Emptied ==
    ASSUME NEW p \in Proc, Here(p, "drop"), k[p].v >= k[p].hi, NEW v \in VPage
    PROVE  pt[k[p].d][v].pg # NULL <=> v < Lo(k[p], proc[p].sz)
<1>1. v \in Nat
  BY Consts
<1> QED
  BY <1>1 DEF Here, ShapeOK, Dropping

LEMMA DropEndKeeps ==
    ASSUME CowInv, NEW p \in Proc, DropEnd(p)
    PROVE  CowInv'
<1>0. Here(p, "drop") /\ k[p].v >= k[p].hi
  BY PlaceFacts DEF DropEnd
<1>1. PICK D \in Dir, c \in Proc \cup {NULL} : D = k[p].d /\ c = k[p].c
  BY <1>0, CallFacts DEF Here
<1>2. /\ UNCHANGED <<ref, pt>> /\ Return(p)
      /\ used' = used \ Unmapped(p)
      /\ content' = [pg \in Page |-> IF pg \in Unmapped(p) THEN JUNK ELSE content[pg]]
      /\ tabs' = IF k[p].op = "sbrk" THEN tabs ELSE [tabs EXCEPT ![D] = {}]
      /\ proc' = IF Resized(p) THEN [proc EXCEPT ![p].sz = k[p].nsz]
                 ELSE IF c # NULL THEN [proc EXCEPT ![c] = Unused] ELSE proc
  BY <1>1 DEF DropEnd
<1>3. k' \in [Proc -> Call] /\ k'[p] = User /\ \A q \in Proc \ {p} : k'[q] = k[q]
  BY <1>0, <1>2, ReturnFacts DEF Here
<1>4. nfree' \in Nat
  <2>1. IsFiniteSet(tabs[D]) /\ tabs[D] \in SUBSET VPage
    BY Finite, FS_Subset DEF CowInv, CowType
  <2>2. IsFiniteSet(Unmapped(p))
    <3>1. IsFiniteSet({k[p].m})
      BY FS_Singleton
    <3> QED
      BY <3>1, FS_Subset DEF Unmapped
  <2>3. Cardinality(tabs[D]) \in Nat /\ Cardinality(Unmapped(p)) \in Nat /\ nfree \in Nat
    BY <2>1, <2>2, FS_CardinalityType DEF CowInv, CowType
  <2>4. nfree' = nfree + Cardinality(Unmapped(p))
                 + (IF k[p].op = "sbrk" THEN 0 ELSE Cardinality(tabs[D]) + 1)
                 + (IF k[p].op = "fork" THEN 1 ELSE 0)
    BY <1>1 DEF DropEnd
  <2> QED
    BY <2>3, <2>4
<1>5. proc' \in [Proc -> Slot]
  BY <1>0, <1>2, CallFacts, UnusedFacts DEF CowInv, CowType, Slot
<1>6. tabs' \in [Dir -> SUBSET VPage] /\ used' \subseteq Page
  BY <1>2 DEF CowInv, CowType
<1>7. content' \in [Page -> Val \cup {JUNK}]
  BY <1>2 DEF CowInv, CowType
<1>8. CowType'
  BY <1>2, <1>3, <1>4, <1>5, <1>6, <1>7 DEF CowInv, CowType
<1>9. \A v \in VPage : pt[D][v].pg # NULL <=> v < Lo(k[p], proc[p].sz)
  BY <1>0, <1>1, Emptied
<1>10. MemInv'
  <2>1. \A y \in Page : y # k[p].m => content'[y] = content[y]
    BY <1>2 DEF Unmapped
  <2>2. \A d \in Dir : d # D => tabs'[d] = tabs[d]
    BY <1>2 DEF CowInv, CowType
  <2>3. tabs'[D] = tabs[D] \/ \A v \in VPage : pt[D][v].pg = NULL
    <3>1. k[p].op # "sbrk" => Lo(k[p], proc[p].sz) = 0
      BY DEF Lo
    <3>2. \A v \in VPage : ~ (v < 0)
      BY Consts
    <3>3. tabs' # tabs => k[p].op # "sbrk"
      BY <1>2
    <3> QED
      BY <1>9, <3>1, <3>2, <3>3
  <2>4. used' = used \ ({k[p].m} \ {NULL}) /\ k[p].at = "drop"
    BY <1>0, <1>2 DEF Unmapped, Here
  <2>5. k'[p].at = "user" /\ k'[p].m = NULL
    BY <1>3, UserFacts
  <2> QED
    BY <1>1, <1>2, <1>3, <2>1, <2>2, <2>3, <2>4, <2>5, MemEnd DEF CowInv
<1>11. CtlInv'
  <2>1. /\ CowType /\ CtlInv /\ Busy(p) /\ BoundOK(k[p], proc[p].sz) /\ PlaceOK(k[p]) /\ k[p].at = "drop"
        /\ Running(p) /\ proc[p].pgdir \in Dir /\ proc[p].pgdir[1] = p /\ OwnerOK(p) /\ Alive(p)
    BY <1>0, BusyFacts DEF Here, CtlInv
  <2>2. CASE Resized(p)
    <3>1. k[p].op = "sbrk" /\ ~ k[p].bad /\ c = NULL /\ D = proc[p].pgdir
      BY <1>1, <2>1, <2>2 DEF Resized, OwnerOK
    <3>2. Lo(k[p], proc[p].sz) = k[p].nsz
      BY <2>1, <3>1 DEF Lo, BoundOK, Dropping
    <3>3. /\ \A q \in Proc \ {p} : proc'[q] = proc[q]
          /\ proc'[p].state = proc[p].state /\ proc'[p].pgdir = proc[p].pgdir /\ proc'[p].sz = k[p].nsz
      BY <1>2, <2>2, SlotFacts DEF CowInv, CowType, Slot
    <3>4. \A d \in Dir \ {D} : Size(d)' = Size(d)
      BY <3>1, <3>3, DirFacts DEF Size, Alive
    <3>5. Size(D)' = k[p].nsz
      BY <2>1, <3>1, <3>3 DEF Size, Alive
    <3>6. \A v \in VPage : pt'[D][v].pg # NULL <=> v < Size(D)'
      BY <1>2, <1>9, <3>2, <3>5
    <3>7. \A d \in Dir \ {D} : Size(d)' = Size(d) /\ \A v \in VPage : pt'[d][v].pg = pt[d][v].pg
      BY <1>2, <3>4
    <3>8. /\ NULL \in {NULL, k[p].c} /\ proc'[p].pgdir[1] = p
          /\ \A q \in Proc \ {p, NULL} : /\ proc'[q].state = proc[q].state /\ proc'[q].sz = proc[q].sz
                                       /\ proc'[q].pgdir = proc[q].pgdir
      BY <2>1, <3>3
    <3> HIDE DEF Size, Alive
    <3> QED
      BY <1>1, <1>3, <2>1, <3>6, <3>7, <3>8, CtlReturn
  <2>3. CASE ~ Resized(p) /\ c # NULL
    <3>1. c \in Proc /\ c # p /\ D[1] = c /\ k[p].op \in {"fork", "wait"}
          /\ proc[c].state \in {"EMBRYO", "ZOMBIE"}
      BY <1>1, <2>1, <2>3, BusyFacts
    <3>2. Lo(k[p], proc[p].sz) = 0
      BY <3>1 DEF Lo
    <3>3. proc'[c] = Unused /\ \A q \in Proc \ {c} : proc'[q] = proc[q]
      BY <1>2, <2>3, <3>1 DEF CowInv, CowType
    <3>4. \A d \in Dir \ {D} : Size(d)' = Size(d)
      <4>1. Alive(c) => proc[c].pgdir = D
        BY <1>1, <2>1, <3>1 DEF OwnerOK, Alive
      <4>2. ~ Alive(c)'
        BY <3>3, UnusedFacts DEF Alive
      <4>3. ASSUME NEW d \in Dir \ {D} PROVE Size(d)' = Size(d)
        <5>1. CASE d[1] = c
          BY <4>1, <4>2, <4>3, <5>1 DEF Size
        <5>2. CASE d[1] # c
          BY <3>3, <5>2, DirFacts DEF Size, Alive
        <5> QED
          BY <5>1, <5>2
      <4> QED
        BY <4>3
    <3>5. Size(D)' = 0 /\ ~ Alive(c)'
      BY <3>1, <3>3, UnusedFacts DEF Size, Alive
    <3>6. proc'[p].pgdir[1] = p /\ \A q \in Proc \ {p, c} : proc'[q] = proc[q]
      BY <2>1, <3>1, <3>3
    <3>7. \A v \in VPage : pt'[D][v].pg # NULL <=> v < Size(D)'
      BY <1>2, <1>9, <3>2, <3>5
    <3>8. c \in {NULL, k[p].c} /\ (c # NULL /\ Alive(c)' => proc'[c].pgdir[1] = c)
      BY <1>1, <3>5
    <3>9. \A d \in Dir \ {D} : Size(d)' = Size(d) /\ \A v \in VPage : pt'[d][v].pg = pt[d][v].pg
      BY <1>2, <3>4
    <3> QED
      BY <1>1, <1>3, <2>1, <3>6, <3>7, <3>8, <3>9, CtlReturn
  <2>4. CASE ~ Resized(p) /\ c = NULL
    <3>1. proc' = proc
      BY <1>2, <2>4
    <3>2. k[p].op \in {"sbrk", "exec"}
      BY <1>1, <2>1, <2>4, BusyFacts DEF PlaceOK, Copying
    <3>3. Size(D) = Lo(k[p], proc[p].sz)
      <4>1. CASE k[p].op = "sbrk"
        <5>1. D = proc[p].pgdir /\ proc[p].sz < k[p].nsz
          BY <1>1, <2>1, <2>4, <4>1 DEF OwnerOK, BoundOK, Dropping, Resized
        <5> QED
          BY <1>0, <2>1, <4>1, <5>1 DEF Size, Lo, Here
      <4>2. CASE k[p].op = "exec"
        <5>1. D # proc[p].pgdir /\ D[1] = p
          BY <1>1, <2>1, <2>4, <4>2, BusyFacts
        <5> QED
          BY <4>2, <5>1 DEF Size, Lo
      <4> QED
        BY <3>2, <4>1, <4>2
    <3>4. \A d \in Dir : Size(d)' = Size(d)
      BY <3>1 DEF Size, Alive
    <3>5. \A v \in VPage : pt'[D][v].pg # NULL <=> v < Size(D)'
      BY <1>2, <1>9, <3>3, <3>4
    <3> QED
      BY <1>1, <1>2, <1>3, <2>1, <2>4, <3>1, <3>4, <3>5, CtlReturn
  <2> QED
    BY <2>2, <2>3, <2>4
<1> QED
  BY <1>8, <1>10, <1>11 DEF CowInv

--------------------------------------------------------------------------------
(* ... setupkvm(), mappages(), allocuvm(), sharerouvm() *)

LEMMA UndoKeeps ==
    ASSUME CowInv, NEW p \in Proc, NEW a \in {"share", "grow", "map"}, Here(p, a), Undo(p),
           UNCHANGED <<nfree, used, ref, content, pt, tabs, proc>>
    PROVE  CowInv'
<1>1. PICK b \in BOOLEAN : b = TRUE
  OBVIOUS
<1>2. PICK u \in 0 .. MaxSz, h \in 0 .. MaxSz :
        u = UndoFrom(p) /\ h = IF k[p].op = "fork" THEN MaxSz ELSE k[p].hi
  BY DEF Here, UndoFrom
<1>3. k' = [k EXCEPT ![p].at = "drop", ![p].bad = b, ![p].v = u, ![p].hi = h]
  <2>1. k' = [k EXCEPT ![p].at = "drop", ![p].bad = b, ![p].v = u,
                       ![p].hi = IF k[p].op = "fork" THEN MaxSz ELSE @]
    BY <1>1, <1>2, Zenon DEF Undo
  <2>2. CASE k[p].op = "fork"
    BY <1>2, <2>1, <2>2
  <2>3. CASE k[p].op # "fork"
    BY <1>2, <2>1, <2>3 DEF Here, Call
  <2> QED
    BY <2>2, <2>3
<1>4. /\ k' \in [Proc -> Call] /\ \A q \in Proc \ {p} : k'[q] = k[q]
      /\ k'[p].at = "drop" /\ k'[p].bad = b /\ k'[p].v = u /\ k'[p].hi = h
      /\ k'[p].op = k[p].op /\ k'[p].d = k[p].d /\ k'[p].c = k[p].c /\ k'[p].m = k[p].m
      /\ k'[p].nsz = k[p].nsz
  BY <1>3 DEF Here, Call, Places, Dropping
<1>5. CowType'
  BY <1>4 DEF CowInv, CowType
<1>6. k[p].op \in {"fork", "exec", "sbrk"} /\ (k[p].op = "fork" <=> a = "share")
  BY DEF Here, PlaceOK, Call, Dropping, Copying
<1>7. Lo(k'[p], proc[p].sz) = u
  BY <1>2, <1>4, <1>6 DEF Lo, UndoFrom, Here, BoundOK
<1>8. CtlInv'
  <2>1. PlaceOK(k'[p])
    BY <1>4, <1>6 DEF Here, PlaceOK, Dropping, Copying
  <2>2. BoundOK(k'[p], proc[p].sz)
    <3>1. k[p].op = "sbrk" => proc[p].sz < k[p].nsz
      BY <1>6 DEF Here, BoundOK
    <3>2. k'[p].bad
      BY <1>1, <1>4, Zenon
    <3> QED
      BY <1>4, <1>7, <3>1, <3>2 DEF Here, BoundOK, Dropping, Copying
  <2>3. ShapeOK(k'[p], proc[p].sz, pt[k[p].d])
    <3>1. \A v \in VPage : v \in Nat /\ v < MaxSz
      BY Consts
    <3>2. \A v \in VPage : pt[k[p].d][v].pg # NULL <=> v < k[p].v
      BY DEF Here, ShapeOK, Building
    <3>3. u <= k[p].v /\ (k[p].op # "fork" => k[p].v <= k[p].hi)
      BY <1>2, <1>6 DEF Here, BoundOK, UndoFrom
    <3> QED
      BY <1>2, <1>4, <1>7, <3>1, <3>2, <3>3 DEF Here, ShapeOK, Dropping, Copying, Building
  <2>4. Busy(p)'
    BY <1>4 DEF Busy
  <2> QED
    BY <1>4, <2>1, <2>2, <2>3, <2>4, CtlInner DEF Here
<1>9. MemInv'
  BY <1>4, MemKept DEF Here
<1> QED
  BY <1>5, <1>8, <1>9 DEF CowInv

\* A call that ends before it has mapped anything; x is the slot it gives back.
LEMMA NothingDone ==
    ASSUME CowInv, NEW p \in Proc, NEW a \in {"kstack", "setupkvm"}, Here(p, a), Return(p),
           nfree' \in Nat, UNCHANGED <<used, ref, content, pt, tabs>>,
           proc' = IF k[p].op = "fork" THEN [proc EXCEPT ![k[p].c] = Unused] ELSE proc
    PROVE  CowInv'
<1>1. k' \in [Proc -> Call] /\ k'[p] = User /\ \A q \in Proc \ {p} : k'[q] = k[q]
  BY ReturnFacts DEF Here
<1>2. PICK D \in Dir, c \in Proc \cup {NULL} : D = k[p].d /\ c = k[p].c
  BY CallFacts DEF Here
<1>3. /\ k[p].op \in {"fork", "exec"} /\ proc[p].pgdir \in Dir /\ proc[p].pgdir[1] = p
      /\ k[p].op = "fork" => c \in Proc /\ c # p /\ D[1] = c /\ proc[c].state = "EMBRYO"
      /\ k[p].op = "exec" => c = NULL /\ D # proc[p].pgdir /\ D[1] = p
  <2>1. k[p].op \in {"fork", "exec"}
    BY DEF Here, PlaceOK, Call, Dropping, Copying
  <2>2. OwnerOK(p)
    BY DEF Here, CtlInv
  <2> QED
    BY <1>2, <2>1, <2>2, BusyFacts DEF Here, OwnerOK
<1>4. proc' \in [Proc -> Slot] /\ \A q \in Proc \ {c} : proc'[q] = proc[q]
  BY <1>2, <1>3, UnusedFacts DEF CowInv, CowType
<1>5. CowType'
  BY <1>1, <1>4 DEF CowInv, CowType
<1>6. MemInv'
  BY <1>1, UserFacts, MemKept DEF Here
<1>7. c # NULL => c \in Proc /\ ~ Alive(c) /\ ~ Alive(c)'
  <2>1. c # NULL => k[p].op = "fork" /\ c \in Proc
    BY <1>3
  <2>2. c # NULL => proc'[c] = Unused
    BY <1>2, <2>1 DEF CowInv, CowType
  <2> QED
    BY <1>3, <2>1, <2>2, UnusedFacts DEF Alive
<1>8. \A d \in Dir : Size(d)' = Size(d)
  <2> SUFFICES ASSUME NEW d \in Dir PROVE Size(d)' = Size(d)
    OBVIOUS
  <2>1. CASE d[1] = c /\ c # NULL
    BY <1>7, <2>1 DEF Size
  <2>2. CASE d[1] # c \/ c = NULL
    <3>1. proc'[d[1]] = proc[d[1]]
      BY <1>4, <2>2, DirFacts, Consts
    <3> QED
      BY <3>1 DEF Size, Alive
  <2> QED
    BY <2>1, <2>2
<1>9. Size(D) = 0
  <2>1. CASE k[p].op = "fork"
    BY <1>3, <1>7, <2>1, Consts DEF Size
  <2>2. CASE k[p].op = "exec"
    BY <1>3, <2>2 DEF Size
  <2> QED
    BY <1>3, <2>1, <2>2
<1>10. \A v \in VPage : pt'[D][v].pg # NULL <=> v < Size(D)'
  <2>1. \A v \in VPage : pt[D][v].pg = NULL /\ ~ (v < 0)
    BY <1>2, Consts DEF Here, BoundOK, ShapeOK, Building
  <2> QED
    BY <1>8, <1>9, <2>1
<1>11. \A d \in Dir \ {D} : Size(d)' = Size(d) /\ \A v \in VPage : pt'[d][v].pg = pt[d][v].pg
  BY <1>8
<1>12. /\ c \in {NULL, k[p].c} /\ proc'[p].pgdir[1] = p /\ (c # NULL /\ Alive(c)' => proc'[c].pgdir[1] = c)
       /\ \A q \in Proc \ {p, c} : proc'[q] = proc[q]
  BY <1>2, <1>3, <1>4, <1>7
<1>13. CtlInv'
  <2> HIDE DEF Size, Alive
  <2> QED
    BY <1>1, <1>2, <1>10, <1>11, <1>12, CtlReturn DEF Here
<1> QED
  BY <1>5, <1>6, <1>13 DEF CowInv

LEMMA setupkvmKeeps ==
    ASSUME CowInv, NEW p \in Proc, setupkvm(p)
    PROVE  CowInv'
<1>0. Here(p, "setupkvm") /\ nfree \in Nat
  BY PlaceFacts DEF setupkvm, CowInv, CowType
<1>1. UNCHANGED <<used, ref, content, pt, tabs>>
  BY DEF setupkvm
<1>2. CASE kallocKernel /\ UNCHANGED proc /\ k' = [k EXCEPT ![p].at = IF k[p].op = "fork" THEN "share" ELSE "grow"]
  <2>1. PICK a \in {"share", "grow"} : a = IF k[p].op = "fork" THEN "share" ELSE "grow"
    BY Zenon
  <2>2. Goes(p, a, k[p].v, k[p].m)
    BY <1>0, <1>2, <2>1 DEF Here, Goes, Call, Places, Building
  <2>3. CowType'
    BY <1>0, <1>1, <1>2, <2>2 DEF CowInv, CowType, Goes, kallocKernel
  <2>4. k[p].op \in {"fork", "exec"} /\ (a = "share" <=> k[p].op = "fork")
    BY <1>0, <2>1 DEF Here, PlaceOK, Call, Dropping, Copying
  <2>5. CtlInv'
    <3>1. PlaceOK(k'[p])
      BY <2>2, <2>4 DEF PlaceOK, Goes, Dropping, Copying
    <3>2. BoundOK(k'[p], proc[p].sz)
      BY <1>0, <2>2, <2>4 DEF Here, BoundOK, Goes, Dropping, Copying
    <3>3. ShapeOK(k'[p], proc[p].sz, pt[k[p].d])
      BY <1>0, <2>2 DEF Here, ShapeOK, Goes, Dropping, Copying, Building
    <3> QED
      BY <1>0, <1>1, <1>2, <2>2, <3>1, <3>2, <3>3, CtlInner DEF Here, Goes, Busy
  <2>6. MemInv'
    BY <1>0, <1>1, <2>2, MemKept DEF Here, Goes
  <2> QED
    BY <2>3, <2>5, <2>6 DEF CowInv
<1>3. CASE /\ IF k[p].op = "fork" THEN nfree' = nfree + 1 /\ proc' = [proc EXCEPT ![k[p].c] = Unused]
              ELSE UNCHANGED <<nfree, proc>>
           /\ Return(p)
  <2>1. nfree' \in Nat /\ proc' = IF k[p].op = "fork" THEN [proc EXCEPT ![k[p].c] = Unused] ELSE proc
    BY <1>0, <1>3
  <2> QED
    BY <1>0, <1>1, <1>3, <2>1, NothingDone
<1> QED
  BY <1>2, <1>3 DEF setupkvm

LEMMA walkpgdirKeeps ==
    ASSUME CowInv, NEW p \in Proc, walkpgdir(p)
    PROVE  CowInv'
<1>0. PICK a \in {"share", "map"} : Here(p, a)
  BY PlaceFacts DEF walkpgdir
<1>1. UNCHANGED <<used, ref, content, pt, proc>>
  BY DEF walkpgdir
<1>2. CASE kallocKernel /\ tabs' = [tabs EXCEPT ![k[p].d] = @ \cup {Table(k[p].v)}] /\ UNCHANGED k
  <2>1. k[p].v \in VPage
    <3>1. k[p].v < MaxSz
      BY <1>0, Consts DEF Here, BoundOK, walkpgdir, At
    <3> QED
      BY <1>0, <3>1, BelowTop DEF Here
  <2>2. Table(k[p].v) \in VPage
    <3>1. \A v \in Nat, n \in Nat \ {0} : v \div n \in Nat /\ v \div n <= v
      OBVIOUS
    <3>2. NPTE \in Nat \ {0} /\ MaxSz \in Nat
      BY CowAssumption
    <3>3. k[p].v \in Nat /\ k[p].v < MaxSz
      BY <2>1, Consts
    <3>4. Table(k[p].v) \in Nat /\ Table(k[p].v) <= k[p].v
      BY <3>1, <3>2, <3>3 DEF Table
    <3> QED
      BY <3>2, <3>3, <3>4 DEF VPage
  <2>3. tabs' \in [Dir -> SUBSET VPage] /\ \A d \in Dir : tabs[d] \subseteq tabs'[d]
    <3> DEFINE t == Table(k[p].v)
    <3>1. t \in VPage /\ tabs' = [tabs EXCEPT ![k[p].d] = @ \cup {t}]
      BY <1>2, <2>2
    <3> HIDE DEF t
    <3> QED
      BY <3>1 DEF CowInv, CowType
  <2>4. CowType'
    BY <1>1, <1>2, <2>3 DEF CowInv, CowType, kallocKernel
  <2>5. CtlInv'
    BY <1>1, <1>2 DEF CowInv, CtlInv, OwnerOK, DirOK, Apart, Alive, Busy, Running, Size
  <2>6. MemInv'
    <3>1. k[p].at \notin {"leave", "remap", "free", "own", "decr"} /\ k' = k
      BY <1>0, <1>2 DEF Here
    <3> QED
      BY <1>0, <1>1, <2>3, <3>1, MemKept DEF Here
  <2> QED
    BY <2>4, <2>5, <2>6 DEF CowInv
<1>3. CASE Undo(p) /\ UNCHANGED <<nfree, tabs>>
  BY <1>0, <1>1, <1>3, UndoKeeps
<1> QED
  BY <1>2, <1>3 DEF walkpgdir

LEMMA SharePageKeeps ==
    ASSUME CowInv, NEW p \in Proc, SharePage(p)
    PROVE  CowInv'
<1>0. Here(p, "share") /\ k[p].v < proc[p].sz /\ k[p].v \in VPage
  BY PlaceFacts, BelowTop DEF SharePage, Here
<1>1. UNCHANGED <<nfree, used, content, tabs, proc>> /\ k' = [k EXCEPT ![p].v = @ + 1]
  BY DEF SharePage
<1>2. PICK D \in Dir, E \in Dir, V \in VPage :
        D = k[p].d /\ E = proc[p].pgdir /\ V = k[p].v
  BY <1>0, SlotFacts DEF Here
<1>3. k[p].op = "fork" /\ D # E
  BY <1>0, <1>2, BusyFacts DEF Here, PlaceOK, Dropping, Copying
<1>4. PICK pg \in Page : pg = pt[E][V].pg
  BY <1>0, <1>2, <1>3, ImageFacts, PtFacts DEF Here
<1>5. pt[D][V].pg = NULL
  BY <1>0, <1>2, Consts DEF Here, ShapeOK, Building
<1>6. PICK e \in Pte : e = [pg |-> pg, w |-> FALSE]
  BY WriteProtected
<1>7. e.pg = pg /\ ~ e.w
  BY <1>6, WriteProtected
<1>8. PICK f \in Pte : f = ReadOnly(pt[E][V]) /\ f.pg = pg /\ ~ f.w
  <2>1. PICK b \in BOOLEAN : b = FALSE
    OBVIOUS
  <2>2. pt[E][V] \in Pte
    BY PtFacts DEF CowInv
  <2>3. ReadOnly(pt[E][V]) = [pt[E][V] EXCEPT !.w = b]
    BY <2>1, Zenon DEF ReadOnly
  <2>4. ReadOnly(pt[E][V]) \in Pte /\ ReadOnly(pt[E][V]).pg = pt[E][V].pg /\ ReadOnly(pt[E][V]).w = b
    BY <2>2, <2>3 DEF Pte
  <2>5. ~ ReadOnly(pt[E][V]).w
    BY <2>1, <2>4, Zenon
  <2> QED
    BY <1>4, <2>4, <2>5
<1>9. /\ pt' \in PtType /\ pt'[D][V] = e /\ pt'[E][V] = f
      /\ \A d \in Dir, v \in VPage : v # V \/ d \notin {D, E} => pt'[d][v] = pt[d][v]
  <2>1. pt' = [pt EXCEPT ![D][V] = [pg |-> pg, w |-> FALSE], ![E][V] = ReadOnly(@)]
    BY <1>2, <1>4 DEF SharePage
  <2>2. pt' = [[pt EXCEPT ![D][V] = e] EXCEPT ![E][V] = f]
    BY <1>3, <1>6, <1>8, <2>1 DEF CowInv, CowType, PtType
  <2> QED
    BY <1>3, <2>2 DEF CowInv, CowType, PtType
<1>10. Counts(pg, 1)
  <2>1. ref' = [ref EXCEPT ![pg] = @ + 1]
    BY <1>2, <1>4 DEF SharePage, incr_refc
  <2> QED
    BY <2>1 DEF Counts, CowInv, CowType
<1>11. Table(V) \in tabs[D]
  BY <1>2 DEF SharePage, NoTable
<1>12. Goes(p, "share", k[p].v + 1, k[p].m)
  BY <1>0, <1>1, <1>2, Consts DEF Here, Goes, Call
<1>13. MemInv' /\ ref' \in [Page -> Nat]
  <2>1. pt'[D][V].pg = pg /\ ~ pt'[D][V].w /\ pt'[E][V].pg = pg /\ ~ pt'[E][V].w
    BY <1>7, <1>8, <1>9, Zenon
  <2>2. CowType /\ CtlInv /\ MemInv /\ k[p].at = "share" /\ UNCHANGED <<used, content, tabs>>
        /\ k'[p].at = "share" /\ k'[p].m = k[p].m /\ \A q \in Proc \ {p} : k'[q] = k[q]
    BY <1>0, <1>1, <1>12 DEF Here, Goes
  <2>3. pt[E][V].pg = pg
    BY <1>4
  <2> QED
    BY <1>2, <1>3, <1>5, <1>9, <1>10, <1>11, <2>1, <2>2, <2>3, MemShare
<1>14. CowType'
  BY <1>1, <1>9, <1>12, <1>13 DEF CowInv, CowType, Goes
<1>15. CtlInv'
  <2>1. PlaceOK(k'[p])
    BY <1>3, <1>12 DEF PlaceOK, Goes, Dropping, Copying
  <2>2. BoundOK(k'[p], proc[p].sz)
    BY <1>0, <1>12 DEF Here, BoundOK, Goes, Dropping, Copying
  <2>3. pt'[D][V].pg = pg /\ pg # NULL /\ \A d \in Dir, v \in VPage : d # D \/ v # V => pt'[d][v].pg = pt[d][v].pg
    <3>1. pt'[E][V].pg = pt[E][V].pg /\ pt'[D][V].pg = pg
      BY <1>4, <1>7, <1>8, <1>9, Zenon
    <3>2. pg # NULL
      BY Consts
    <3> QED
      BY <1>9, <3>1, <3>2
  <2>4. ShapeOK(k'[p], proc[p].sz, pt'[k[p].d])
    BY <1>0, <1>2, <1>12, <2>3, Consts DEF Here, ShapeOK, Goes, Dropping, Copying, Building
  <2> QED
    BY <1>0, <1>1, <1>2, <1>12, <2>1, <2>2, <2>3, <2>4, CtlInner DEF Here, Goes, Busy
<1> QED
  BY <1>13, <1>14, <1>15 DEF CowInv

LEMMA GrowPageKeeps ==
    ASSUME CowInv, NEW p \in Proc, GrowPage(p)
    PROVE  CowInv'
<1>0. Here(p, "grow") /\ k[p].v < k[p].hi
  BY PlaceFacts DEF GrowPage
<1>1. UNCHANGED <<ref, pt, tabs, proc>>
  BY DEF GrowPage
<1>2. CASE nfree = 0 /\ Undo(p) /\ UNCHANGED <<nfree, used, content>>
  BY <1>0, <1>1, <1>2, UndoKeeps
<1>3. ASSUME NEW pg \in Page, kalloc(pg), content' = [content EXCEPT ![pg] = 0],
             k' = [k EXCEPT ![p].m = pg, ![p].at = "map"]
      PROVE  CowInv'
  <2>1. pg \in Page \ used /\ used' = used \cup {pg} /\ nfree > 0 /\ nfree' = nfree - 1
    BY <1>3 DEF kalloc
  <2>2. Goes(p, "map", k[p].v, pg)
    BY <1>0, <1>3 DEF Here, Goes, Call, Places, Building
  <2>3. CowType'
    <3>1. content' \in [Page -> Val \cup {JUNK}]
      BY <1>3, Consts DEF CowInv, CowType
    <3>2. nfree' \in Nat
      BY <2>1 DEF CowInv, CowType
    <3> QED
      BY <1>1, <2>1, <2>2, <3>1, <3>2 DEF CowInv, CowType, Goes
  <2>4. CtlInv'
    <3>1. PlaceOK(k'[p])
      BY <1>0, <2>2 DEF Here, PlaceOK, Goes, Dropping, Copying
    <3>2. BoundOK(k'[p], proc[p].sz)
      BY <1>0, <2>2, Consts DEF Here, BoundOK, Goes, Dropping, Copying
    <3>3. ShapeOK(k'[p], proc[p].sz, pt[k[p].d])
      BY <1>0, <2>2 DEF Here, ShapeOK, Goes, Dropping, Copying, Building
    <3>4. \A q \in Proc \ {p} : k[q].m # pg
      BY <2>1, Consts DEF CowInv, MemInv, NoneDangling
    <3> QED
      BY <1>0, <1>1, <2>2, <3>1, <3>2, <3>3, <3>4, CtlInner DEF Here, Goes, Busy
  <2>5. MemInv'
    BY <1>0, <1>1, <1>3, <2>1, <2>2, Consts, MemAlloc DEF Here, Goes
  <2> QED
    BY <2>3, <2>4, <2>5 DEF CowInv
<1> QED
  BY <1>2, <1>3 DEF GrowPage

LEMMA GrowMapKeeps ==
    ASSUME CowInv, NEW p \in Proc, GrowMap(p)
    PROVE  CowInv'
<1>0. Here(p, "map")
  BY PlaceFacts DEF GrowMap
<1>1. UNCHANGED <<nfree, used, content, tabs, proc>>
      /\ k' = [k EXCEPT ![p].v = @ + 1, ![p].m = NULL, ![p].at = "grow"]
  BY DEF GrowMap
<1>2. PICK D \in Dir, V \in VPage, pg \in Page : D = k[p].d /\ V = k[p].v /\ pg = k[p].m
  BY <1>0, EntryFacts DEF Here
<1>3. pt[D][V].pg = NULL
  BY <1>0, <1>2, EntryFacts DEF Here
<1>4. PICK e \in Pte : e = [pg |-> pg, w |-> TRUE] /\ e.pg = pg
  BY Writable
<1>5. Sets(D, V, e) /\ Counts(pg, 1)
  <2>1. pt' = [pt EXCEPT ![D][V] = e] /\ ref' = [ref EXCEPT ![pg] = @ + 1]
    BY <1>2, <1>4 DEF GrowMap, incr_refc
  <2>2. Counts(pg, 1)
    BY <2>1 DEF Counts, CowInv, CowType
  <2>3. Sets(D, V, e)
    BY <2>1 DEF Sets, CowInv, CowType, PtType
  <2> QED
    BY <2>2, <2>3
<1>6. Goes(p, "grow", k[p].v + 1, NULL)
  BY <1>0, <1>1, <1>2, Consts DEF Here, Goes, Call, Places, Building
<1>7. Table(V) \in tabs[D]
  BY <1>2 DEF GrowMap, NoTable
<1>8. MemInv' /\ ref' \in [Page -> Nat] /\ pt' \in PtType
  BY <1>0, <1>1, <1>2, <1>3, <1>4, <1>5, <1>6, <1>7, MemFill DEF Here, Goes
<1>9. CowType'
  BY <1>1, <1>6, <1>8 DEF CowInv, CowType, Goes
<1>10. CtlInv'
  <2>1. PlaceOK(k'[p])
    BY <1>0, <1>6 DEF Here, PlaceOK, Goes, Dropping, Copying
  <2>2. BoundOK(k'[p], proc[p].sz)
    BY <1>0, <1>6 DEF Here, BoundOK, Goes, Dropping, Copying
  <2>3. /\ pt'[D][V].pg = pg /\ pg # NULL
        /\ \A d \in Dir, v \in VPage : d # D \/ v # V => pt'[d][v].pg = pt[d][v].pg
    BY <1>4, <1>5, Consts DEF Sets
  <2>4. ShapeOK(k'[p], proc[p].sz, pt'[k[p].d])
    BY <1>0, <1>2, <1>6, <2>3, Consts DEF Here, ShapeOK, Goes, Dropping, Copying, Building
  <2> QED
    BY <1>0, <1>1, <1>2, <1>6, <2>1, <2>2, <2>3, <2>4, CtlInner, SMTT(40) DEF Here, Goes, Busy
<1> QED
  BY <1>8, <1>9, <1>10 DEF CowInv

LEMMA GrowEndKeeps ==
    ASSUME CowInv, NEW p \in Proc, GrowEnd(p)
    PROVE  CowInv'
<1>0. Here(p, "grow") /\ k[p].v = k[p].hi
  BY PlaceFacts DEF GrowEnd
<1>1. UNCHANGED <<nfree, used, ref, content, pt, tabs>>
      /\ proc' = [proc EXCEPT ![p].sz = k[p].hi, ![p].pgdir = k[p].d]
  BY DEF GrowEnd
<1>2. PICK D \in Dir, E \in Dir, n \in 0 .. MaxSz :
        D = k[p].d /\ E = proc[p].pgdir /\ n = k[p].hi /\ n = k[p].v
  BY <1>0, SlotFacts DEF Here
<1>3. /\ proc' \in [Proc -> Slot] /\ \A q \in Proc \ {p} : proc'[q] = proc[q]
      /\ proc'[p].state = proc[p].state /\ proc'[p].sz = n /\ proc'[p].pgdir = D
  BY <1>0, <1>1, <1>2 DEF CowInv, CowType, Slot
<1>4. E[1] = p /\ Alive(p) /\ Alive(p)' /\ D[1] = p
      /\ k[p].op \in {"exec", "sbrk"} /\ (k[p].op = "sbrk" => D = E)
      /\ (k[p].op = "exec" => D = Other(E) /\ E = Other(D) /\ D # E)
  <2>1. k[p].op \in {"exec", "sbrk"}
    BY <1>0 DEF Here, PlaceOK, Call, Dropping, Copying
  <2>2. OwnerOK(p)
    BY <1>0 DEF Here, CtlInv
  <2>3. E[1] = p /\ Alive(p) /\ Alive(p)'
    BY <1>0, <1>2, <1>3, BusyFacts DEF Here, Alive
  <2> QED
    BY <1>2, <2>1, <2>2, <2>3, DirFacts DEF OwnerOK
<1>5. \A v \in VPage : pt[D][v].pg # NULL <=> v < n
  BY <1>0, <1>2 DEF Here, ShapeOK, Building
<1>6. Size(D)' = n
  BY <1>3, <1>4 DEF Size
<1>7. \A d \in Dir \ {D, E} : Size(d)' = Size(d)
  <2> SUFFICES ASSUME NEW d \in Dir \ {D, E} PROVE Size(d)' = Size(d)
    OBVIOUS
  <2>1. CASE d[1] = p
    BY <1>2, <1>3, <2>1 DEF Size
  <2>2. CASE d[1] # p
    <3>1. proc'[d[1]] = proc[d[1]]
      BY <1>3, <2>2, DirFacts
    <3> QED
      BY <3>1 DEF Size, Alive
  <2> QED
    BY <2>1, <2>2
<1>8. CASE k[p].op = "sbrk"
  <2>1. k' \in [Proc -> Call] /\ k'[p] = User /\ \A q \in Proc \ {p} : k'[q] = k[q]
    BY <1>8, ReturnFacts DEF GrowEnd, CowInv
  <2>2. CowType'
    BY <1>1, <1>3, <2>1 DEF CowInv, CowType
  <2>3. MemInv'
    BY <1>0, <1>1, <2>1, UserFacts, MemKept DEF Here
  <2>4. CtlInv'
    <3>1. \A v \in VPage : pt'[D][v].pg # NULL <=> v < Size(D)'
      BY <1>1, <1>5, <1>6
    <3>2. \A d \in Dir \ {D} : Size(d)' = Size(d) /\ \A v \in VPage : pt'[d][v].pg = pt[d][v].pg
      BY <1>1, <1>4, <1>7, <1>8
    <3>3. /\ NULL \in {NULL, k[p].c} /\ proc'[p].pgdir[1] = p
          /\ \A q \in Proc \ {p, NULL} : /\ proc'[q].state = proc[q].state /\ proc'[q].sz = proc[q].sz
                                         /\ proc'[q].pgdir = proc[q].pgdir
      BY <1>3, <1>4
    <3> HIDE DEF Size, Alive
    <3> QED
      BY <1>0, <1>2, <2>1, <3>1, <3>2, <3>3, CtlReturn DEF Here
  <2> QED
    BY <2>2, <2>3, <2>4 DEF CowInv
<1>9. CASE k[p].op = "exec"
  <2>1. k' = [k EXCEPT ![p].at = "drop", ![p].d = E, ![p].v = 0, ![p].hi = MaxSz]
    BY <1>2, <1>9 DEF GrowEnd, Drop
  <2>2. /\ k' \in [Proc -> Call] /\ \A q \in Proc \ {p} : k'[q] = k[q]
        /\ k'[p].at = "drop" /\ k'[p].d = E /\ k'[p].v = 0 /\ k'[p].hi = MaxSz
        /\ k'[p].op = "exec" /\ k'[p].c = k[p].c /\ k'[p].m = k[p].m
    <3>1. k \in [Proc -> Call] /\ k[p].op = "exec" /\ 0 \in 0 .. MaxSz /\ MaxSz \in 0 .. MaxSz
          /\ "drop" \in Places
      BY <1>0, <1>9 DEF Here, Places, Dropping
    <3> DEFINE r == [k[p] EXCEPT !.at = "drop", !.d = E, !.v = 0, !.hi = MaxSz]
    <3>2. k' = [k EXCEPT ![p] = r]
      BY <2>1, <3>1
    <3>3. /\ r \in Call /\ r.at = "drop" /\ r.d = E /\ r.v = 0 /\ r.hi = MaxSz
          /\ r.op = k[p].op /\ r.c = k[p].c /\ r.m = k[p].m
      <4>1. k[p] \in Call
        BY <3>1
      <4> QED
        BY <3>1, <4>1 DEF Call
    <3> HIDE DEF r
    <3> QED
      BY <3>1, <3>2, <3>3
  <2>3. CowType'
    BY <1>1, <1>3, <2>2 DEF CowInv, CowType
  <2>4. MemInv'
    BY <1>0, <1>1, <2>2, MemKept DEF Here
  <2>5. CtlInv'
    <3>1. {D, E} \in SUBSET Dir /\ NULL \in Proc \cup {NULL} /\ Running(p) /\ Busy(p) /\ Busy(p)'
      BY <1>0, <2>2 DEF Here, Busy
    <3>2. \A q \in Proc \ {p} : Busy(q) => k[q].d \notin {D, E}
      BY <1>0, <1>2, Distinct DEF Here
    <3>3. \A d \in {D, E} : DirOK(d)'
      <4>1. DirOK(D)'
        BY <1>1, <1>5, <1>6 DEF DirOK
      <4>2. DirOK(E)'
        BY <2>2, <3>1 DEF DirOK
      <4> QED
        BY <4>1, <4>2
    <3>4. PlaceOK(k'[p])
      BY <2>2 DEF PlaceOK, Dropping, Copying
    <3>5. OwnerOK(p)'
      <4>1. k[p].c = NULL /\ Running(p)'
        BY <1>0, <1>3, <1>9, BusyFacts DEF Here, Running
      <4> QED
        BY <1>3, <1>4, <1>9, <2>2, <4>1 DEF OwnerOK
    <3>6. Lo(k'[p], proc'[p].sz) = 0
      BY <2>2 DEF Lo
    <3>7. BoundOK(k'[p], proc'[p].sz)
      BY <1>3, <2>2, <3>6 DEF BoundOK, Dropping, Copying
    <3>8. ShapeOK(k'[p], proc'[p].sz, pt'[k'[p].d])
      <4>1. \A v \in VPage : ~ (v < 0) /\ ~ (MaxSz <= v) /\ ~ (0 <= v /\ v < 0)
        BY Consts
      <4> QED
        BY <2>2, <3>6, <4>1 DEF ShapeOK, Dropping, Copying, Building
    <3>9. Apart'
      BY <2>2 DEF CowInv, CtlInv, Apart
    <3>10. \A d \in Dir \ {D, E} : Size(d)' = Size(d) /\ \A v \in VPage : pt'[d][v].pg = pt[d][v].pg
      BY <1>1, <1>7
    <3>11. \A q \in Proc \ {p, NULL} : /\ proc'[q].state = proc[q].state /\ proc'[q].sz = proc[q].sz
                                       /\ proc'[q].pgdir = proc[q].pgdir
      BY <1>3
    <3>12. k[p].d \in {D, E} /\ k'[p].d \in {D, E}
      BY <1>2, <2>2
    <3> HIDE DEF Size, Alive, Busy, Running
    <3> QED
      BY <2>2, <3>1, <3>2, <3>3, <3>4, <3>5, <3>7, <3>8, <3>9, <3>10, <3>11, <3>12, CtlStep DEF CowInv
  <2> QED
    BY <2>3, <2>4, <2>5 DEF CowInv
<1> QED
  BY <1>4, <1>8, <1>9

--------------------------------------------------------------------------------
(* ... stores and cow_handler() *)

LEMMA StoreKeeps ==
    ASSUME CowInv, NEW p \in Proc, NEW v \in VPage, NEW x \in Val, Store(p, v, x)
    PROVE  CowInv'
<1>1. CowType /\ CtlInv /\ MemInv /\ Running(p) /\ ~ Busy(p) /\ UNCHANGED <<nfree, used, ref, pt, tabs, proc, k>>
  BY DEF CowInv, Store, At, Busy
<1>2. PICK D \in Dir : D = proc[p].pgdir
  BY <1>1, SlotFacts
<1>3. PICK pg \in Page : pg = pt[D][v].pg
  BY <1>1, <1>2, ImageFacts, PtFacts DEF Store
<1>4. pt[D][v].w /\ content' = [content EXCEPT ![pg] = x]
  BY <1>2, <1>3 DEF Store
<1>5. CowType'
  <2>1. content' \in [Page -> Val \cup {JUNK}]
    BY <1>1, <1>4 DEF CowType
  <2> QED
    BY <1>1, <2>1 DEF CowType
<1>6. CtlInv'
  BY <1>1 DEF CtlInv, OwnerOK, DirOK, Apart, Alive, Busy, Running, Size
<1>7. MemInv'
  BY <1>1, <1>2, <1>3, <1>4, MemStore
<1> QED
  BY <1>5, <1>6, <1>7 DEF CowInv

\* A process in user mode does nothing in the kernel, and nobody works on its image.
LEMMA UserModeFacts ==
    ASSUME CowInv, NEW p \in Proc, At(p, "user")
    PROVE  /\ CowType /\ CtlInv /\ MemInv /\ Running(p) /\ ~ Busy(p) /\ Alive(p) /\ k[p] = User
           /\ proc[p].pgdir \in Dir /\ proc[p].pgdir[1] = p /\ proc[p].sz \in 0 .. MaxSz
           /\ \A v \in VPage : pt[proc[p].pgdir][v].pg # NULL <=> v < proc[p].sz
           /\ \A q \in Proc \ {p} : Busy(q) => k[q].d # proc[p].pgdir /\ k[q].d[1] # p
<1>1. CowType /\ CtlInv /\ MemInv /\ Running(p) /\ ~ Busy(p) /\ Alive(p)
  BY DEF CowInv, At, Running, Busy, Alive
<1>2. k[p] = User
  BY <1>1 DEF CtlInv, PlaceOK, Busy
<1>3. proc[p].pgdir \in Dir /\ proc[p].pgdir[1] = p /\ proc[p].sz \in 0 .. MaxSz
  BY <1>1, SlotFacts DEF CtlInv, OwnerOK
<1>4. \A v \in VPage : pt[proc[p].pgdir][v].pg # NULL <=> v < proc[p].sz
  BY <1>1, ImageFacts
<1>5. \A q \in Proc \ {p} : Busy(q) => k[q].d # proc[p].pgdir /\ k[q].d[1] # p
  BY <1>1, Distinct
<1> QED
  BY <1>1, <1>2, <1>3, <1>4, <1>5

LEMMA Entered ==
    ASSUME CowType, NEW p \in Proc, NEW r \in Call, Enter(p, r)
    PROVE  k' \in [Proc -> Call] /\ k'[p] = r /\ \A q \in Proc \ {p} : k'[q] = k[q]
  BY DEF CowType, Enter

\* A call is entered that works on the directory of its own process, or on a new one.
LEMMA EnterOwn ==
    ASSUME CowInv, NEW p \in Proc, At(p, "user"), NEW r \in Call, Enter(p, r), r.at # "user",
           NEW D \in Dir, D = r.d, r.op \in {"sbrk", "cow"} => D = proc[p].pgdir,
           r.op = "exec" => D = Other(proc[p].pgdir), r.op \in {"sbrk", "cow", "exec"},
           r.c = NULL, r.m = NULL, UNCHANGED <<pt, proc>>,
           PlaceOK(r), BoundOK(r, proc[p].sz), ShapeOK(r, proc[p].sz, pt[D])
    PROVE  CtlInv'
<1>1. k' \in [Proc -> Call] /\ k'[p] = r /\ \A q \in Proc \ {p} : k'[q] = k[q]
  BY Entered DEF CowInv
<1>2. CowType /\ CtlInv /\ Running(p) /\ ~ Busy(p) /\ Busy(p)'
  BY <1>1, UserModeFacts DEF Busy
<1>3. D[1] = p
  BY UserModeFacts, DirFacts
<1>4. \A q \in Proc \ {p} : Busy(q) => k[q].d \notin {D}
  BY <1>3, UserModeFacts
<1>5. \A d \in Dir : Size(d)' = Size(d)
  BY DEF Size, Alive
<1>6. \A d \in {D} : DirOK(d)'
  BY <1>1, <1>2 DEF DirOK
<1>7. OwnerOK(p)'
  <2>1. OwnerOK(p) /\ Running(p)' /\ (Alive(p)' <=> Alive(p))
    BY <1>2 DEF CtlInv, Running, Alive
  <2> QED
    BY <1>1, <2>1 DEF OwnerOK
<1>8. Apart'
  BY <1>1, <1>2 DEF CtlInv, Apart
<1>9. \A d \in Dir \ {D} : Size(d)' = Size(d) /\ \A v \in VPage : pt'[d][v].pg = pt[d][v].pg
  BY <1>5
<1>10. /\ PlaceOK(k'[p]) /\ BoundOK(k'[p], proc'[p].sz) /\ ShapeOK(k'[p], proc'[p].sz, pt'[k'[p].d])
       /\ {D} \in SUBSET Dir /\ NULL \in Proc \cup {NULL} /\ k'[p].d \in {D}
       /\ \A q \in Proc \ {p, NULL} : proc'[q] = proc[q]
  BY <1>1
<1> HIDE DEF Size, Alive, Busy, Running
<1> QED
  BY <1>1, <1>2, <1>4, <1>6, <1>7, <1>8, <1>9, <1>10, CtlStep

LEMMA cow_handlerKeeps ==
    ASSUME CowInv, NEW p \in Proc, NEW v \in VPage, cow_handler(p, v)
    PROVE  CowInv'
<1>0. At(p, "user") /\ v < proc[p].sz /\ UNCHANGED <<nfree, used, ref, content, pt, tabs, proc>>
  BY DEF cow_handler
<1>1. PICK D \in Dir : D = proc[p].pgdir
  BY <1>0, UserModeFacts
<1>2. PICK pg \in Page : pg = pt[D][v].pg
  BY <1>0, <1>1, UserModeFacts, PtFacts DEF CowInv
<1>3. pt[D][v].pg # NULL /\ ref[pg] \in Nat /\ ref[pg] # 0
  BY <1>2, Consts, CountPositive DEF CowInv, MemInv
<1>4. PICK a \in {"own", "copy"} : a = IF Shared(ref[pg]) THEN "copy" ELSE "own"
  BY Zenon
<1>5. PICK r : r = [User EXCEPT !.op = "cow", !.at = a, !.d = D, !.v = v, !.cnt = ref[pg]]
  OBVIOUS
<1>6. Enter(p, r)
  BY <1>0, <1>1, <1>2, <1>4, <1>5 DEF cow_handler, Enter
<1>7. /\ r \in Call /\ r.op = "cow" /\ r.at = a /\ r.d = D /\ r.v = v /\ r.m = NULL /\ r.c = NULL
  <2>1. v \in 0 .. MaxSz
    BY Consts
  <2> QED
    BY <1>3, <1>5, <2>1, UserFacts DEF Call, Places, Copying
<1>8. k' \in [Proc -> Call] /\ k'[p] = r /\ \A q \in Proc \ {p} : k'[q] = k[q]
  BY <1>6, <1>7, Entered DEF CowInv
<1>9. CowType'
  BY <1>0, <1>8 DEF CowInv, CowType
<1>10. CtlInv'
  <2>1. PlaceOK(r)
    BY <1>7 DEF PlaceOK, Copying, Dropping
  <2>2. BoundOK(r, proc[p].sz)
    BY <1>0, <1>7 DEF BoundOK, Copying, Dropping
  <2>3. ShapeOK(r, proc[p].sz, pt[D])
    BY <1>0, <1>1, <1>7, UserModeFacts DEF ShapeOK, Building, Copying, Dropping
  <2> QED
    BY <1>0, <1>1, <1>6, <1>7, <2>1, <2>2, <2>3, EnterOwn
<1>11. MemInv'
  <2>1. a = "own" => ref[pg] = 1
    BY <1>3, <1>4 DEF Shared
  <2>2. a = "own" => \A d \in Dir, y \in VPage : pt[d][y].pg = pt[D][v].pg => d = D /\ y = v
    BY <1>2, <1>3, <2>1, CountOne DEF CowInv, MemInv
  <2>3. k'[p].at = "own" => Alone(p)'
    BY <1>0, <1>7, <1>8, <2>2 DEF Alone
  <2>4. k[p].at = "user" /\ k'[p].at \in {"own", "copy"} /\ k'[p].m = NULL
    BY <1>0, <1>7, <1>8 DEF At
  <2> QED
    BY <1>0, <1>8, <2>3, <2>4, MemKept DEF CowInv
<1> QED
  BY <1>9, <1>10, <1>11 DEF CowInv

\* cow_handler() returns with every page of the image mapped.
LEMMA CowEnds ==
    ASSUME NEW p \in Proc, NEW a \in {"own", "copy", "remap"}, Here(p, a), Return(p), UNCHANGED proc,
           NEW D \in Dir, D = k[p].d,
           \A d \in Dir \ {D}, v \in VPage : pt'[d][v].pg = pt[d][v].pg,
           \A v \in VPage : pt'[D][v].pg # NULL <=> v < proc[p].sz
    PROVE  CtlInv'
<1>1. k' \in [Proc -> Call] /\ k'[p] = User /\ \A q \in Proc \ {p} : k'[q] = k[q]
  BY ReturnFacts DEF Here
<1>2. k[p].op = "cow"
  BY DEF Here, PlaceOK, Call, Dropping
<1>3. D = proc[p].pgdir /\ proc[p].pgdir[1] = p /\ Alive(p)
  BY <1>2, BusyFacts DEF Here
<1>4. \A d \in Dir : Size(d)' = Size(d)
  BY DEF Size, Alive
<1>5. Size(D) = proc[p].sz
  BY <1>3 DEF Size
<1>6. \A v \in VPage : pt'[D][v].pg # NULL <=> v < Size(D)'
  BY <1>4, <1>5
<1>7. \A d \in Dir \ {D} : Size(d)' = Size(d) /\ \A v \in VPage : pt'[d][v].pg = pt[d][v].pg
  BY <1>4
<1>8. /\ NULL \in {NULL, k[p].c} /\ proc'[p].pgdir[1] = p
      /\ \A q \in Proc \ {p, NULL} : /\ proc'[q].state = proc[q].state /\ proc'[q].sz = proc[q].sz
                                     /\ proc'[q].pgdir = proc[q].pgdir
  BY <1>3
<1>9. CowType /\ CtlInv /\ Busy(p)
  BY DEF Here
<1> HIDE DEF Size, Alive, Busy
<1> QED
  BY <1>1, <1>6, <1>7, <1>8, <1>9, CtlReturn

LEMMA CowOwnKeeps ==
    ASSUME CowInv, NEW p \in Proc, CowOwn(p)
    PROVE  CowInv'
<1>0. Here(p, "own")
  BY PlaceFacts DEF CowOwn
<1>1. UNCHANGED <<nfree, used, ref, content, tabs, proc>> /\ Return(p)
  BY DEF CowOwn
<1>2. PICK D \in Dir, V \in VPage : D = k[p].d /\ V = k[p].v
  BY <1>0, EntryFacts DEF Here
<1>3. /\ pt' \in PtType
      /\ \A d \in Dir, v \in VPage : pt'[d][v].pg = pt[d][v].pg /\ (d # D \/ v # V => pt'[d][v] = pt[d][v])
  <2>1. PICK b \in BOOLEAN : b = TRUE
    OBVIOUS
  <2>2. CASE k[p].cnt # 0
    <3>1. pt' = [pt EXCEPT ![k[p].d][k[p].v].w = b]
      BY <2>1, <2>2, Zenon DEF CowOwn
    <3>2. PICK e \in Pte : e = [pt[D][V] EXCEPT !.w = b] /\ e.pg = pt[D][V].pg
      <4>1. pt[D][V] \in Pte
        BY PtFacts DEF CowInv
      <4>2. [pt[D][V] EXCEPT !.w = b] \in Pte /\ [pt[D][V] EXCEPT !.w = b].pg = pt[D][V].pg
        BY <4>1 DEF Pte
      <4> QED
        BY <4>2
    <3>3. pt' = [pt EXCEPT ![D][V] = e]
      BY <1>2, <3>1, <3>2 DEF CowInv, CowType, PtType
    <3> QED
      BY <3>2, <3>3 DEF CowInv, CowType, PtType
  <2>3. CASE k[p].cnt = 0
    BY <2>3 DEF CowOwn, CowInv, CowType
  <2> QED
    BY <2>2, <2>3
<1>4. k' \in [Proc -> Call] /\ k'[p] = User /\ \A q \in Proc \ {p} : k'[q] = k[q]
  BY <1>0, <1>1, ReturnFacts DEF Here
<1>5. CowType'
  BY <1>1, <1>3, <1>4 DEF CowInv, CowType
<1>6. CtlInv'
  <2>1. \A v \in VPage : pt[D][v].pg # NULL <=> v < proc[p].sz
    BY <1>0, <1>2 DEF Here, ShapeOK, Copying
  <2> QED
    BY <1>0, <1>1, <1>2, <1>3, <2>1, CowEnds
<1>7. MemInv'
  BY <1>0, <1>1, <1>2, <1>3, <1>4, UserFacts, MemOwn DEF Here
<1> QED
  BY <1>5, <1>6, <1>7 DEF CowInv

LEMMA CowCopyKeeps ==
    ASSUME CowInv, NEW p \in Proc, CowCopy(p)
    PROVE  CowInv'
<1>0. Here(p, "copy")
  BY PlaceFacts DEF CowCopy
<1>1. UNCHANGED <<ref, pt, tabs, proc>>
  BY DEF CowCopy
<1>2. PICK D \in Dir, V \in VPage, old \in Page : D = k[p].d /\ V = k[p].v /\ old = pt[D][V].pg
  BY <1>0, EntryFacts DEF Here
<1>3. CASE nfree = 0 /\ Return(p) /\ UNCHANGED <<nfree, used, content>>
  <2>1. k' \in [Proc -> Call] /\ k'[p] = User /\ \A q \in Proc \ {p} : k'[q] = k[q]
    BY <1>0, <1>3, ReturnFacts DEF Here
  <2>2. CowType'
    BY <1>1, <1>3, <2>1 DEF CowInv, CowType
  <2>3. CtlInv'
    <3>1. \A v \in VPage : pt[D][v].pg # NULL <=> v < proc[p].sz
      BY <1>0, <1>2 DEF Here, ShapeOK, Copying
    <3> QED
      BY <1>0, <1>1, <1>2, <1>3, <3>1, CowEnds
  <2>4. MemInv'
    BY <1>0, <1>1, <1>3, <2>1, UserFacts, MemKept DEF Here
  <2> QED
    BY <2>2, <2>3, <2>4 DEF CowInv
<1>4. ASSUME NEW pg \in Page, kalloc(pg),
             content' = [content EXCEPT ![pg] = content[pt[k[p].d][k[p].v].pg]],
             k' = [k EXCEPT ![p].m = pg, ![p].at = "leave"]
      PROVE  CowInv'
  <2>1. pg \in Page \ used /\ used' = used \cup {pg} /\ nfree > 0 /\ nfree' = nfree - 1
    BY <1>4 DEF kalloc
  <2>2. Goes(p, "leave", k[p].v, pg)
    BY <1>0, <1>4 DEF Here, Goes, Call, Places, Copying
  <2>3. PICK x \in Val : x = content[old]
    <3>1. ~ Leaves(D, V)
      BY <1>0, <1>2, NotLeaving DEF Here
    <3>2. content[old] \in Val
      BY <1>2, <3>1, Consts DEF CowInv, MemInv, Contents
    <3> QED
      BY <3>2
  <2>4. content' = [content EXCEPT ![pg] = x]
    BY <1>2, <1>4, <2>3
  <2>5. CowType'
    <3>1. content' \in [Page -> Val \cup {JUNK}]
      BY <2>4 DEF CowInv, CowType
    <3>2. nfree' \in Nat
      BY <2>1 DEF CowInv, CowType
    <3> QED
      BY <1>1, <2>1, <2>2, <3>1, <3>2 DEF CowInv, CowType, Goes
  <2>6. CtlInv'
    <3>1. PlaceOK(k'[p])
      BY <1>0, <2>2 DEF Here, PlaceOK, Goes, Dropping, Copying
    <3>2. BoundOK(k'[p], proc[p].sz)
      BY <1>0, <2>2, Consts DEF Here, BoundOK, Goes, Dropping, Copying
    <3>3. ShapeOK(k'[p], proc[p].sz, pt[k[p].d])
      BY <1>0, <2>2 DEF Here, ShapeOK, Goes, Dropping, Copying, Building
    <3>4. \A q \in Proc \ {p} : k[q].m # pg
      BY <2>1, Consts DEF CowInv, MemInv, NoneDangling
    <3> QED
      BY <1>0, <1>1, <2>2, <3>1, <3>2, <3>3, <3>4, CtlInner DEF Here, Goes, Busy
  <2>7. MemInv'
    BY <1>0, <1>1, <1>2, <2>1, <2>2, <2>3, <2>4, MemAlloc DEF Here, Goes
  <2> QED
    BY <2>5, <2>6, <2>7 DEF CowInv
<1> QED
  BY <1>3, <1>4 DEF CowCopy

LEMMA CowLeaveKeeps ==
    ASSUME CowInv, NEW p \in Proc, CowLeave(p)
    PROVE  CowInv'
<1>0. Here(p, "leave")
  BY PlaceFacts DEF CowLeave
<1>1. UNCHANGED <<nfree, used, content, tabs, proc>> /\ k' = [k EXCEPT ![p].at = "remap"]
  BY DEF CowLeave
<1>2. PICK D \in Dir, V \in VPage, pg \in Page : D = k[p].d /\ V = k[p].v /\ pg = pt[D][V].pg
  BY <1>0, EntryFacts DEF Here
<1>3. Sets(D, V, NoPte) /\ Counts(pg, -1)
  <2>1. pt' = [pt EXCEPT ![D][V] = NoPte] /\ ref' = [ref EXCEPT ![pg] = @ - 1]
    BY <1>2 DEF CowLeave, Left
  <2>2. Counts(pg, -1)
    BY <2>1 DEF Counts, CowInv, CowType
  <2>3. Sets(D, V, NoPte)
    BY <2>1, NoPteFacts DEF Sets, CowInv, CowType, PtType
  <2> QED
    BY <2>2, <2>3
<1>4. Goes(p, "remap", k[p].v, k[p].m)
  BY <1>0, <1>1 DEF Here, Goes, Call, Places, Copying
<1>5. MemInv' /\ ref' \in [Page -> Nat] /\ pt' \in PtType
  BY <1>0, <1>1, <1>2, <1>3, <1>4, MemClear DEF Here, Goes
<1>6. CowType'
  BY <1>1, <1>4, <1>5 DEF CowInv, CowType, Goes
<1>7. CtlInv'
  <2>1. PlaceOK(k'[p])
    BY <1>0, <1>1, <1>4 DEF Here, PlaceOK, Goes, Dropping, Copying
  <2>2. BoundOK(k'[p], proc[p].sz)
    BY <1>0, <1>1, <1>4 DEF Here, BoundOK, Goes, Dropping, Copying
  <2>3. pt'[D][V].pg = NULL /\ \A d \in Dir, v \in VPage : d # D \/ v # V => pt'[d][v].pg = pt[d][v].pg
    BY <1>3, NoPteFacts DEF Sets
  <2>4. ShapeOK(k'[p], proc[p].sz, pt'[k[p].d])
    BY <1>0, <1>1, <1>2, <1>4, <2>3, Consts DEF Here, ShapeOK, BoundOK, Goes, Dropping, Copying, Building
  <2> QED
    BY <1>0, <1>1, <1>2, <1>4, <2>1, <2>2, <2>3, <2>4, CtlInner DEF Here, Goes, Busy
<1> QED
  BY <1>5, <1>6, <1>7 DEF CowInv

LEMMA CowRemapKeeps ==
    ASSUME CowInv, NEW p \in Proc, CowRemap(p)
    PROVE  CowInv'
<1>0. Here(p, "remap")
  BY PlaceFacts DEF CowRemap
<1>1. UNCHANGED <<nfree, used, content, tabs, proc>> /\ Return(p)
  BY DEF CowRemap
<1>2. PICK D \in Dir, V \in VPage, pg \in Page : D = k[p].d /\ V = k[p].v /\ pg = k[p].m
  BY <1>0, EntryFacts DEF Here
<1>3. pt[D][V].pg = NULL
  BY <1>0, <1>2, EntryFacts DEF Here
<1>4. PICK e \in Pte : e = [pg |-> pg, w |-> TRUE] /\ e.pg = pg
  BY Writable
<1>5. Sets(D, V, e) /\ Counts(pg, 1)
  <2>1. pt' = [pt EXCEPT ![D][V] = e] /\ ref' = [ref EXCEPT ![pg] = @ + 1]
    BY <1>2, <1>4 DEF CowRemap, incr_refc
  <2>2. Counts(pg, 1)
    BY <2>1 DEF Counts, CowInv, CowType
  <2>3. Sets(D, V, e)
    BY <2>1 DEF Sets, CowInv, CowType, PtType
  <2> QED
    BY <2>2, <2>3
<1>6. k' \in [Proc -> Call] /\ k'[p] = User /\ \A q \in Proc \ {p} : k'[q] = k[q]
  BY <1>0, <1>1, ReturnFacts DEF Here
<1>7. Table(V) \in tabs[D]
  BY <1>0, <1>2 DEF Here, MemInv, Tables
<1>8. MemInv' /\ ref' \in [Page -> Nat] /\ pt' \in PtType
  BY <1>0, <1>1, <1>2, <1>3, <1>4, <1>5, <1>6, <1>7, UserFacts, MemFill DEF Here
<1>9. CowType'
  BY <1>1, <1>6, <1>8 DEF CowInv, CowType
<1>10. CtlInv'
  <2>1. /\ pt'[D][V].pg = pg /\ pg # NULL
        /\ \A d \in Dir, v \in VPage : d # D \/ v # V => pt'[d][v].pg = pt[d][v].pg
    BY <1>4, <1>5, Consts DEF Sets
  <2>2. \A v \in VPage : pt[D][v].pg # NULL <=> v < proc[p].sz /\ v # V
    BY <1>0, <1>2 DEF Here, ShapeOK, Copying
  <2>3. V < proc[p].sz
    BY <1>0, <1>2 DEF Here, BoundOK, Copying
  <2>4. \A v \in VPage : pt'[D][v].pg # NULL <=> v < proc[p].sz
    BY <2>1, <2>2, <2>3
  <2> QED
    BY <1>0, <1>1, <1>2, <2>1, <2>4, CowEnds
<1> QED
  BY <1>8, <1>9, <1>10 DEF CowInv

--------------------------------------------------------------------------------
(* ... and the calls of proc.c and exec.c *)

LEMMA sbrkKeeps ==
    ASSUME CowInv, NEW p \in Proc, NEW sz \in 1 .. MaxSz, sbrk(p, sz)
    PROVE  CowInv'
<1>0. At(p, "user") /\ sz # proc[p].sz /\ UNCHANGED <<nfree, used, ref, content, pt, tabs, proc>>
  BY DEF sbrk
<1>1. PICK D \in Dir, old \in 0 .. MaxSz : D = proc[p].pgdir /\ old = proc[p].sz
  BY <1>0, UserModeFacts
<1>2. PICK a \in {"grow", "drop"}, v \in 0 .. MaxSz, h \in 0 .. MaxSz :
        /\ a = "grow" => sz > old /\ v = old /\ h = sz
        /\ a = "drop" => sz < old /\ v = sz /\ h = old
  <2>1. CASE sz > old
    BY <1>1, <2>1
  <2>2. CASE sz < old
    BY <1>1, <2>2
  <2> QED
    BY <1>0, <1>1, <2>1, <2>2, Consts
<1>3. PICK r : r = [User EXCEPT !.op = "sbrk", !.d = D, !.nsz = sz, !.at = a, !.v = v, !.hi = h]
  OBVIOUS
<1>4. Enter(p, r)
  <2>1. CASE sz > old
    <3>1. Enter(p, [User EXCEPT !.op = "sbrk", !.d = D, !.nsz = sz, !.at = "grow", !.v = old, !.hi = sz])
      BY <1>1, <2>1 DEF sbrk
    <3>2. a = "grow" /\ v = old /\ h = sz
      BY <1>1, <1>2, <2>1, Consts
    <3> QED
      BY <1>3, <3>1, <3>2
  <2>2. CASE sz < old
    <3>1. ~ (sz > old)
      BY <1>1, <2>2, Consts
    <3>2. Enter(p, [User EXCEPT !.op = "sbrk", !.d = D, !.nsz = sz, !.at = "drop", !.v = sz, !.hi = old])
      BY <1>1, <3>1 DEF sbrk
    <3>3. a = "drop" /\ v = sz /\ h = old
      BY <1>1, <1>2, <2>2, Consts
    <3> QED
      BY <1>3, <3>2, <3>3
  <2> QED
    BY <1>0, <1>1, <2>1, <2>2, Consts
<1>5. /\ r \in Call /\ r.op = "sbrk" /\ r.at = a /\ r.d = D /\ r.v = v /\ r.hi = h /\ r.nsz = sz
      /\ r.m = NULL /\ r.c = NULL /\ r.bad = FALSE
  <2>1. sz \in 0 .. MaxSz /\ a \in Places
    BY Consts DEF Places, Building, Dropping
  <2> QED
    BY <1>3, <2>1, UserFacts DEF Call
<1>6. k' \in [Proc -> Call] /\ k'[p] = r /\ \A q \in Proc \ {p} : k'[q] = k[q]
  BY <1>4, <1>5, Entered DEF CowInv
<1>7. CowType'
  BY <1>0, <1>6 DEF CowInv, CowType
<1>8. CtlInv'
  <2>1. PlaceOK(r)
    BY <1>5 DEF PlaceOK, Copying, Dropping
  <2>2. a = "drop" => Lo(r, old) = sz
    BY <1>2, <1>5 DEF Lo
  <2>3. ~ r.bad
    BY <1>5, Zenon
  <2>4. BoundOK(r, old)
    BY <1>2, <1>5, <2>2, <2>3, Consts DEF BoundOK, Copying, Dropping
  <2>5. ShapeOK(r, old, pt[D])
    <3>1. \A y \in VPage : y \in Nat /\ (pt[D][y].pg # NULL <=> y < old)
      BY <1>0, <1>1, UserModeFacts, Consts
    <3> QED
      BY <1>2, <1>5, <2>2, <3>1, Consts DEF ShapeOK, Building, Copying, Dropping
  <2> QED
    BY <1>0, <1>1, <1>4, <1>5, <2>1, <2>4, <2>5, EnterOwn
<1>9. MemInv'
  <2>1. k[p].at = "user" /\ k'[p].at \in {"grow", "drop"} /\ k'[p].m = NULL
    BY <1>0, <1>5, <1>6 DEF At
  <2> QED
    BY <1>0, <1>6, <2>1, MemKept DEF CowInv
<1> QED
  BY <1>7, <1>8, <1>9 DEF CowInv

LEMMA execKeeps ==
    ASSUME CowInv, NEW p \in Proc, NEW sz \in 1 .. MaxSz, exec(p, sz)
    PROVE  CowInv'
<1>0. At(p, "user") /\ UNCHANGED <<nfree, used, ref, content, pt, tabs, proc>>
  BY DEF exec
<1>1. PICK D \in Dir : D = Other(proc[p].pgdir)
  BY <1>0, UserModeFacts, DirFacts
<1>2. PICK r : r = [User EXCEPT !.op = "exec", !.at = "setupkvm", !.hi = sz, !.d = D]
  OBVIOUS
<1>3. Enter(p, r)
  BY <1>1, <1>2 DEF exec
<1>4. /\ r \in Call /\ r.op = "exec" /\ r.at = "setupkvm" /\ r.d = D /\ r.v = 0 /\ r.hi = sz
      /\ r.m = NULL /\ r.c = NULL
  <2>1. sz \in 0 .. MaxSz /\ "setupkvm" \in Places
    BY Consts DEF Places, Building
  <2> QED
    BY <1>2, <2>1, UserFacts DEF Call
<1>5. k' \in [Proc -> Call] /\ k'[p] = r /\ \A q \in Proc \ {p} : k'[q] = k[q]
  BY <1>3, <1>4, Entered DEF CowInv
<1>6. CowType'
  BY <1>0, <1>5 DEF CowInv, CowType
<1>7. CtlInv'
  <2>1. PlaceOK(r)
    BY <1>4 DEF PlaceOK, Copying, Dropping
  <2>2. BoundOK(r, proc[p].sz)
    BY <1>4 DEF BoundOK, Copying, Dropping
  <2>3. ShapeOK(r, proc[p].sz, pt[D])
    <3>1. proc[p].pgdir \in Dir /\ proc[p].pgdir[1] = p /\ D # proc[p].pgdir /\ D[1] = p
      BY <1>0, <1>1, UserModeFacts, DirFacts
    <3>2. \A q \in Proc : Busy(q) => k[q].d # D
      BY <1>0, <3>1, UserModeFacts
    <3>3. Size(D) = 0
      BY <3>1 DEF Size
    <3>4. \A v \in VPage : pt[D][v].pg = NULL
      BY <3>2, <3>3, Consts DEF CowInv, CtlInv, DirOK
    <3>5. \A v \in VPage : ~ (v < 0)
      BY Consts
    <3> QED
      BY <1>4, <3>4, <3>5 DEF ShapeOK, Building, Copying, Dropping
  <2> QED
    BY <1>0, <1>1, <1>3, <1>4, <2>1, <2>2, <2>3, EnterOwn
<1>8. MemInv'
  <2>1. k[p].at = "user" /\ k'[p].at = "setupkvm" /\ k'[p].m = NULL
    BY <1>0, <1>4, <1>5 DEF At
  <2> QED
    BY <1>0, <1>5, <2>1, MemKept DEF CowInv
<1> QED
  BY <1>6, <1>7, <1>8 DEF CowInv

\* An unused slot: no call has to do with it, and its directory is empty.
LEMMA UnusedSlot ==
    ASSUME CowType, CtlInv, NEW c \in Proc, proc[c].state = "UNUSED"
    PROVE  /\ \A q \in Proc : Busy(q) => q # c /\ k[q].d[1] # c /\ k[q].d # <<c, 0>>
           /\ \A q \in Proc : k[q].c # c
           /\ ~ Alive(c) /\ \A v \in VPage : pt[<<c, 0>>][v].pg = NULL
<1>1. ASSUME NEW q \in Proc, Busy(q) PROVE q # c /\ k[q].d[1] # c /\ k[q].c # c
  <2>1. q # c
    BY <1>1, BusyFacts DEF Running
  <2>2. CASE k[q].c = NULL
    BY <1>1, <2>1, <2>2, BusyFacts, Consts
  <2>3. CASE k[q].c # NULL
    BY <1>1, <2>1, <2>3, BusyFacts
  <2> QED
    BY <2>1, <2>2, <2>3
<1>2. \A q \in Proc : k[q].c # c
  BY <1>1, UserFacts, Consts DEF CtlInv, PlaceOK, Busy
<1>3. \A q \in Proc : Busy(q) => k[q].d # <<c, 0>>
  BY <1>1, DirFacts
<1>4. ~ Alive(c)
  BY DEF Alive
<1>5. PICK D \in Dir : D = <<c, 0>> /\ D[1] = c
  BY DirFacts
<1>6. Size(D) = 0
  BY <1>4, <1>5 DEF Size
<1>7. \A v \in VPage : ~ (v < 0)
  BY Consts
<1>8. \A v \in VPage : pt[D][v].pg = NULL
  BY <1>3, <1>5, <1>6, <1>7 DEF CtlInv, DirOK
<1> QED
  BY <1>1, <1>2, <1>3, <1>4, <1>5, <1>8

LEMMA forkKeeps ==
    ASSUME CowInv, NEW p \in Proc, NEW c \in Proc, fork(p, c)
    PROVE  CowInv'
<1>0. At(p, "user") /\ proc[c].state = "UNUSED" /\ UNCHANGED <<nfree, used, ref, content, pt, tabs>>
      /\ proc' = [proc EXCEPT ![c].state = "EMBRYO"]
  BY DEF fork
<1>1. PICK D \in Dir : D = <<c, 0>> /\ D[1] = c
  BY DirFacts
<1>2. PICK r : r = [User EXCEPT !.op = "fork", !.at = "kstack", !.c = c, !.d = D]
  OBVIOUS
<1>3. Enter(p, r)
  BY <1>1, <1>2 DEF fork
<1>4. /\ r \in Call /\ r.op = "fork" /\ r.at = "kstack" /\ r.d = D /\ r.v = 0
      /\ r.m = NULL /\ r.c = c
  <2>1. "kstack" \in Places
    BY DEF Places, Building
  <2> QED
    BY <1>2, <2>1, UserFacts DEF Call
<1>5. k' \in [Proc -> Call] /\ k'[p] = r /\ \A q \in Proc \ {p} : k'[q] = k[q]
  BY <1>3, <1>4, Entered DEF CowInv
<1>6. /\ proc' \in [Proc -> Slot] /\ proc'[c].state = "EMBRYO" /\ \A q \in Proc \ {c} : proc'[q] = proc[q]
  BY <1>0 DEF CowInv, CowType, Slot
<1>7. CowType'
  BY <1>0, <1>5, <1>6 DEF CowInv, CowType
<1>8. p # c /\ Running(p) /\ proc'[p] = proc[p] /\ CowType /\ CtlInv /\ ~ Busy(p) /\ Busy(p)' /\ c # NULL
  BY <1>0, <1>4, <1>5, <1>6, UserModeFacts, Consts DEF Running, Busy
<1>9. CtlInv'
  <2>1. PlaceOK(k'[p])
    BY <1>4, <1>5 DEF PlaceOK, Copying, Dropping
  <2>2. BoundOK(k'[p], proc'[p].sz)
    BY <1>4, <1>5 DEF BoundOK, Copying, Dropping
  <2>3. ShapeOK(k'[p], proc'[p].sz, pt'[k'[p].d])
    <3>1. \A v \in VPage : pt[D][v].pg = NULL /\ ~ (v < 0)
      BY <1>0, <1>1, <1>8, UnusedSlot, Consts
    <3> QED
      BY <1>0, <1>4, <1>5, <3>1 DEF ShapeOK, Building, Copying, Dropping
  <2>4. OwnerOK(p)'
    <3>1. OwnerOK(p) /\ Running(p)' /\ (Alive(p)' <=> Alive(p))
      BY <1>8 DEF CtlInv, Running, Alive
    <3> QED
      BY <1>1, <1>4, <1>5, <1>6, <1>8, <3>1 DEF OwnerOK
  <2>5. Apart'
    <3>1. \A q \in Proc : k[q].c # c
      BY <1>0, <1>8, UnusedSlot
    <3> QED
      BY <1>4, <1>5, <1>8, <3>1 DEF CtlInv, Apart
  <2>6. \A q \in Proc \ {p} : Busy(q) => k[q].d \notin {D}
    BY <1>0, <1>1, <1>8, UnusedSlot
  <2>7. \A d \in {D} : DirOK(d)'
    BY <1>4, <1>5, <1>8 DEF DirOK
  <2>8. ~ Alive(c) /\ ~ Alive(c)'
    BY <1>0, <1>6 DEF Alive
  <2>9. ASSUME NEW d \in Dir PROVE Size(d)' = Size(d) /\ \A v \in VPage : pt'[d][v].pg = pt[d][v].pg
    <3>1. CASE d[1] = c
      BY <1>0, <2>8, <3>1 DEF Size
    <3>2. CASE d[1] # c
      <4>1. proc'[d[1]] = proc[d[1]]
        BY <1>6, <3>2, DirFacts
      <4> QED
        BY <1>0, <4>1 DEF Size, Alive
    <3> QED
      BY <3>1, <3>2
  <2>10. /\ {D} \in SUBSET Dir /\ k'[p].d \in {D} /\ c \in Proc \cup {NULL}
         /\ \A q \in Proc \ {p, c} : proc'[q] = proc[q]
         /\ \A d \in Dir \ {D} : Size(d)' = Size(d) /\ \A v \in VPage : pt'[d][v].pg = pt[d][v].pg
    BY <1>4, <1>5, <1>6, <2>9
  <2> HIDE DEF Size, Alive, Busy, Running
  <2> QED
    BY <1>0, <1>5, <1>8, <2>1, <2>2, <2>3, <2>4, <2>5, <2>6, <2>7, <2>8, <2>10, CtlStep, ZenonT(40)
<1>10. MemInv'
  <2>1. k[p].at = "user" /\ k'[p].at = "kstack" /\ k'[p].m = NULL
    BY <1>0, <1>4, <1>5 DEF At
  <2> QED
    BY <1>0, <1>5, <2>1, MemKept DEF CowInv
<1> QED
  BY <1>7, <1>9, <1>10 DEF CowInv

LEMMA ForkStackKeeps ==
    ASSUME CowInv, NEW p \in Proc, ForkStack(p)
    PROVE  CowInv'
<1>0. Here(p, "kstack") /\ nfree \in Nat
  BY PlaceFacts DEF ForkStack, CowInv, CowType
<1>1. UNCHANGED <<used, ref, content, pt, tabs>>
  BY DEF ForkStack
<1>2. k[p].op = "fork"
  BY <1>0 DEF Here, PlaceOK, Call, Dropping, Copying
<1>3. CASE kallocKernel /\ k' = [k EXCEPT ![p].at = "setupkvm"] /\ UNCHANGED proc
  <2>1. Goes(p, "setupkvm", k[p].v, k[p].m)
    BY <1>0, <1>3 DEF Here, Goes, Call, Places, Building
  <2>2. CowType'
    BY <1>0, <1>1, <1>3, <2>1 DEF CowInv, CowType, Goes, kallocKernel
  <2>3. CtlInv'
    <3>1. PlaceOK(k'[p])
      BY <1>2, <2>1 DEF PlaceOK, Goes, Dropping, Copying
    <3>2. BoundOK(k'[p], proc[p].sz)
      BY <1>0, <2>1 DEF Here, BoundOK, Goes, Dropping, Copying
    <3>3. ShapeOK(k'[p], proc[p].sz, pt[k[p].d])
      BY <1>0, <2>1 DEF Here, ShapeOK, Goes, Dropping, Copying, Building
    <3> QED
      BY <1>0, <1>1, <1>3, <2>1, <3>1, <3>2, <3>3, CtlInner DEF Here, Goes, Busy
  <2>4. MemInv'
    BY <1>0, <1>1, <2>1, MemKept DEF Here, Goes
  <2> QED
    BY <2>2, <2>3, <2>4 DEF CowInv
<1>4. CASE proc' = [proc EXCEPT ![k[p].c] = Unused] /\ Return(p) /\ UNCHANGED nfree
  <2>1. nfree' \in Nat /\ proc' = IF k[p].op = "fork" THEN [proc EXCEPT ![k[p].c] = Unused] ELSE proc
    BY <1>0, <1>2, <1>4
  <2> QED
    BY <1>0, <1>1, <1>4, <2>1, NothingDone
<1> QED
  BY <1>3, <1>4 DEF ForkStack

LEMMA ForkDoneKeeps ==
    ASSUME CowInv, NEW p \in Proc, ForkDone(p)
    PROVE  CowInv'
<1>0. Here(p, "share") /\ k[p].v = proc[p].sz
  BY PlaceFacts DEF ForkDone
<1>1. UNCHANGED <<nfree, used, ref, content, pt, tabs>> /\ Return(p)
  BY DEF ForkDone
<1>2. k[p].op = "fork"
  BY <1>0 DEF Here, PlaceOK, Call, Dropping, Copying
<1>3. PICK c \in Proc, D \in Dir : c = k[p].c /\ D = k[p].d
  BY <1>0, <1>2 DEF Here, CtlInv, OwnerOK
<1>4. c # p /\ D[1] = c /\ proc[c].state = "EMBRYO" /\ proc[p].pgdir[1] = p /\ c # NULL
  <2>1. OwnerOK(p)
    BY <1>0 DEF Here, CtlInv
  <2> QED
    BY <1>0, <1>2, <1>3, <2>1, BusyFacts, Consts DEF Here, OwnerOK
<1>5. /\ proc' \in [Proc -> Slot] /\ \A q \in Proc \ {c} : proc'[q] = proc[q]
      /\ proc'[c].state = "RUNNABLE" /\ proc'[c].sz = proc[p].sz /\ proc'[c].pgdir = D
  <2>1. PICK s : s = [state |-> "RUNNABLE", parent |-> p, sz |-> proc[p].sz, pgdir |-> D]
    OBVIOUS
  <2>2. s \in Slot /\ s.state = "RUNNABLE" /\ s.sz = proc[p].sz /\ s.pgdir = D
    BY <2>1, SlotFacts DEF Slot, CowInv
  <2>3. proc' = [proc EXCEPT ![c] = s]
    BY <1>3, <2>1 DEF ForkDone
  <2> QED
    BY <2>2, <2>3 DEF CowInv, CowType
<1>6. k' \in [Proc -> Call] /\ k'[p] = User /\ \A q \in Proc \ {p} : k'[q] = k[q]
  BY <1>0, <1>1, ReturnFacts DEF Here
<1>7. CowType'
  BY <1>1, <1>5, <1>6 DEF CowInv, CowType
<1>8. MemInv'
  BY <1>0, <1>1, <1>6, UserFacts, MemKept DEF Here
<1>9. CtlInv'
  <2>1. Alive(c)' /\ ~ Alive(c)
    BY <1>4, <1>5 DEF Alive
  <2>2. Size(D)' = proc[p].sz
    BY <1>4, <1>5, <2>1 DEF Size
  <2>3. \A v \in VPage : pt'[D][v].pg # NULL <=> v < Size(D)'
    BY <1>0, <1>1, <1>3, <2>2 DEF Here, ShapeOK, Building
  <2>4. ASSUME NEW d \in Dir \ {D} PROVE Size(d)' = Size(d) /\ \A v \in VPage : pt'[d][v].pg = pt[d][v].pg
    <3>1. CASE d[1] = c
      BY <1>1, <1>5, <2>1, <2>4, <3>1 DEF Size
    <3>2. CASE d[1] # c
      <4>1. proc'[d[1]] = proc[d[1]]
        BY <1>5, <3>2, DirFacts
      <4> QED
        BY <1>1, <4>1 DEF Size, Alive
    <3> QED
      BY <3>1, <3>2
  <2>5. /\ c \in {NULL, k[p].c} /\ proc'[p].pgdir[1] = p /\ proc'[c].pgdir[1] = c
        /\ \A q \in Proc \ {p, c} : /\ proc'[q].state = proc[q].state /\ proc'[q].sz = proc[q].sz
                                    /\ proc'[q].pgdir = proc[q].pgdir
    BY <1>3, <1>4, <1>5
  <2>6. CowType /\ CtlInv /\ Busy(p)
    BY <1>0 DEF Here
  <2> HIDE DEF Size, Alive, Busy
  <2> QED
    BY <1>3, <1>6, <2>3, <2>4, <2>5, <2>6, CtlReturn
<1> QED
  BY <1>7, <1>8, <1>9 DEF CowInv

LEMMA exitKeeps ==
    ASSUME CowInv, NEW p \in Proc, exit(p)
    PROVE  CowInv'
<1>0. At(p, "user") /\ UNCHANGED <<nfree, used, ref, content, pt, tabs, k>>
  BY DEF exit
<1>1. \A q \in Proc : proc[q] \in Slot
  BY DEF CowInv, CowType
<1>2. /\ proc' \in [Proc -> Slot]
      /\ \A q \in Proc : proc'[q].sz = proc[q].sz /\ proc'[q].pgdir = proc[q].pgdir
      /\ \A q \in Proc \ {p} : proc'[q].state = proc[q].state
      /\ proc'[p].state = "ZOMBIE"
  <2>1. \A s \in Slot : /\ [s EXCEPT !.state = "ZOMBIE"] \in Slot /\ [s EXCEPT !.parent = initproc] \in Slot
                        /\ [s EXCEPT !.state = "ZOMBIE"].state = "ZOMBIE"
                        /\ [s EXCEPT !.state = "ZOMBIE"].sz = s.sz
                        /\ [s EXCEPT !.state = "ZOMBIE"].pgdir = s.pgdir
                        /\ [s EXCEPT !.parent = initproc].state = s.state
                        /\ [s EXCEPT !.parent = initproc].sz = s.sz
                        /\ [s EXCEPT !.parent = initproc].pgdir = s.pgdir
    BY Consts DEF Slot
  <2>2. proc' = [q \in Proc |-> IF q = p THEN [proc[p] EXCEPT !.state = "ZOMBIE"]
                                ELSE IF proc[q].parent = p THEN [proc[q] EXCEPT !.parent = initproc]
                                ELSE proc[q]]
    BY DEF exit
  <2> HIDE DEF Slot
  <2> QED
    BY <1>1, <2>1, <2>2
<1>3. CowType'
  BY <1>0, <1>2 DEF CowInv, CowType
<1>4. \A q \in Proc : Alive(q)' <=> Alive(q)
  BY <1>0, <1>2, UserModeFacts DEF Alive
<1>5. \A q \in Proc : (Busy(q)' <=> Busy(q)) /\ (Busy(q) => q # p)
  BY <1>0, UserModeFacts DEF Busy
<1>6. CtlInv'
  <2>1. \A d \in Dir : Size(d)' = Size(d)
    BY <1>2, <1>4, DirFacts DEF Size
  <2>2. \A d \in Dir : DirOK(d)'
    BY <1>0, <1>5, <2>1 DEF CowInv, CtlInv, DirOK
  <2>3. ASSUME NEW q \in Proc PROVE OwnerOK(q)'
    <3>1. OwnerOK(q) /\ PlaceOK(k[q])
      BY DEF CowInv, CtlInv
    <3>2. CASE Busy(q)
      <4>1. q # p /\ proc'[q].state = proc[q].state /\ (k[q].c \in Proc => k[q].c # p)
        <5>1. q # p /\ Running(p)
          BY <1>0, <1>5, <3>2, UserModeFacts
        <5>2. k[q].c \in Proc => proc[k[q].c].state \in {"EMBRYO", "ZOMBIE"}
          BY <3>2, BusyFacts, Consts DEF CowInv
        <5> QED
          BY <1>2, <5>1, <5>2 DEF Running
      <4> QED
        BY <1>0, <1>2, <1>4, <3>1, <3>2, <4>1 DEF OwnerOK, Running, Busy
    <3>3. CASE ~ Busy(q)
      <4>1. k[q].op = "none"
        BY <3>1, <3>3, UserFacts DEF PlaceOK, Busy
      <4> QED
        BY <1>0, <1>2, <1>4, <1>5, <3>1, <3>3, <4>1 DEF OwnerOK
    <3> QED
      BY <3>2, <3>3
  <2>4. \A q \in Proc : BoundOK(k'[q], proc'[q].sz) /\ PlaceOK(k'[q])
    BY <1>0, <1>2 DEF CowInv, CtlInv
  <2>5. \A q \in Proc : Busy(q)' => ShapeOK(k'[q], proc'[q].sz, pt'[k'[q].d])
    BY <1>0, <1>2, <1>5 DEF CowInv, CtlInv
  <2>6. Apart'
    BY <1>0 DEF CowInv, CtlInv, Apart
  <2> HIDE DEF Size, Alive, Busy
  <2> QED
    BY <2>2, <2>3, <2>4, <2>5, <2>6 DEF CtlInv
<1>7. MemInv'
  <2>1. k[p].at = "user" /\ k' = k
    BY <1>0 DEF At
  <2>2. k'[p].at = "user" /\ k'[p].m = k[p].m
    BY <2>1
  <2> QED
    BY <1>0, <2>1, <2>2, MemKept DEF CowInv
<1> QED
  BY <1>3, <1>6, <1>7 DEF CowInv

LEMMA waitKeeps ==
    ASSUME CowInv, NEW p \in Proc, NEW c \in Proc, wait(p, c)
    PROVE  CowInv'
<1>0. At(p, "user") /\ proc[c].state = "ZOMBIE" /\ UNCHANGED <<used, ref, content, pt, tabs, proc>>
      /\ PtableFree(p) /\ nfree' = nfree + 1
  BY DEF wait
<1>1. PICK D \in Dir : D = proc[c].pgdir
  BY SlotFacts DEF CowInv
<1>2. PICK r : r = [User EXCEPT !.op = "wait", !.at = "drop", !.d = D, !.hi = MaxSz, !.c = c]
  OBVIOUS
<1>3. Enter(p, r)
  BY <1>1, <1>2 DEF wait
<1>4. /\ r \in Call /\ r.op = "wait" /\ r.at = "drop" /\ r.d = D /\ r.v = 0 /\ r.hi = MaxSz
      /\ r.m = NULL /\ r.c = c
  <2>1. "drop" \in Places /\ MaxSz \in 0 .. MaxSz
    BY Consts DEF Places, Dropping
  <2> QED
    BY <1>2, <2>1, UserFacts DEF Call
<1>5. k' \in [Proc -> Call] /\ k'[p] = r /\ \A q \in Proc \ {p} : k'[q] = k[q]
  BY <1>3, <1>4, Entered DEF CowInv
<1>6. CowType'
  BY <1>0, <1>5 DEF CowInv, CowType
<1>7. p # c /\ Running(p) /\ CowType /\ CtlInv /\ ~ Busy(p) /\ Busy(p)' /\ c # NULL /\ D[1] = c
  <2>1. Alive(c)
    BY <1>0 DEF Alive
  <2>2. D[1] = c
    BY <1>1, <2>1 DEF CowInv, CtlInv, OwnerOK
  <2> QED
    BY <1>0, <1>4, <1>5, <2>2, UserModeFacts, Consts DEF Running, Busy
<1>8. \A q \in Proc \ {p} : k[q].c # c
  <2> SUFFICES ASSUME NEW q \in Proc \ {p}, k[q].c = c PROVE FALSE
    OBVIOUS
  <2>1. Busy(q)
    BY <1>7, UserFacts DEF CtlInv, PlaceOK, Busy
  <2>2. k[q].op \in {"fork", "wait"}
    BY <1>7, <2>1, BusyFacts
  <2>3. k[q].op # "wait"
    BY <1>0 DEF PtableFree
  <2>4. OwnerOK(q)
    BY <1>7 DEF CtlInv
  <2> QED
    BY <1>0, <2>2, <2>3, <2>4 DEF OwnerOK
<1>9. CtlInv'
  <2>1. PlaceOK(k'[p])
    BY <1>4, <1>5 DEF PlaceOK, Copying, Dropping
  <2>2. Lo(k'[p], proc'[p].sz) = 0
    BY <1>4, <1>5 DEF Lo
  <2>3. BoundOK(k'[p], proc'[p].sz)
    BY <1>4, <1>5, <2>2 DEF BoundOK, Copying, Dropping
  <2>4. ShapeOK(k'[p], proc'[p].sz, pt'[k'[p].d])
    <3>1. \A v \in VPage : ~ (v < 0) /\ ~ (MaxSz <= v) /\ ~ (0 <= v /\ v < 0)
      BY Consts
    <3> QED
      BY <1>4, <1>5, <2>2, <3>1 DEF ShapeOK, Building, Copying, Dropping
  <2>5. OwnerOK(p)'
    <3>1. OwnerOK(p) /\ Running(p)' /\ (Alive(p)' <=> Alive(p))
      BY <1>0, <1>7 DEF CtlInv, Running, Alive
    <3> QED
      BY <1>0, <1>1, <1>4, <1>5, <1>7, <3>1 DEF OwnerOK
  <2>6. Apart'
    BY <1>4, <1>5, <1>7, <1>8 DEF CtlInv, Apart
  <2>7. \A q \in Proc \ {p} : Busy(q) => k[q].d \notin {D}
    <3> SUFFICES ASSUME NEW q \in Proc \ {p}, Busy(q) PROVE k[q].d[1] # c
      BY <1>7
    <3>1. CASE k[q].c = NULL
      BY <1>0, <1>7, <3>1, BusyFacts DEF Running
    <3>2. CASE k[q].c # NULL
      BY <1>7, <1>8, <3>2, BusyFacts
    <3> QED
      BY <3>1, <3>2
  <2>8. \A d \in {D} : DirOK(d)'
    BY <1>4, <1>5, <1>7 DEF DirOK
  <2>9. \A d \in Dir : Size(d)' = Size(d) /\ \A v \in VPage : pt'[d][v].pg = pt[d][v].pg
    BY <1>0 DEF Size, Alive
  <2>10. /\ {D} \in SUBSET Dir /\ k'[p].d \in {D} /\ NULL \in Proc \cup {NULL}
         /\ \A q \in Proc \ {p, NULL} : proc'[q] = proc[q]
    BY <1>0, <1>4, <1>5
  <2> HIDE DEF Size, Alive, Busy, Running
  <2> QED
    BY <1>0, <1>5, <1>7, <2>1, <2>3, <2>4, <2>5, <2>6, <2>7, <2>8, <2>9, <2>10, CtlStep
<1>10. MemInv'
  <2>1. k[p].at = "user" /\ k'[p].at = "drop" /\ k'[p].m = NULL
    BY <1>0, <1>4, <1>5 DEF At
  <2> QED
    BY <1>0, <1>5, <2>1, MemKept DEF CowInv
<1> QED
  BY <1>6, <1>9, <1>10 DEF CowInv

--------------------------------------------------------------------------------
(* References *)

LEMMA InitHolds == Init => CowInv
<1> SUFFICES ASSUME Init PROVE CowInv
  OBVIOUS
<1>1. PICK D \in Dir : D = <<1, 0>> /\ D[1] = 1
  BY Consts, DirFacts DEF initproc
<1>2. PICK e \in Pte : e = [pg |-> 1, w |-> TRUE] /\ e.pg = 1
  BY Consts, Writable
<1>3. Empty \in [VPage -> Pte] /\ \A v \in VPage : Empty[v].pg = NULL /\ Empty[v] = NoPte
  BY NoPteFacts DEF Empty
<1>4. pt = [d \in Dir |-> IF d = D THEN [Empty EXCEPT ![0] = e] ELSE Empty]
  BY <1>1, <1>2 DEF Init
<1>5. /\ pt \in PtType /\ pt[D][0] = e
      /\ \A d \in Dir, v \in VPage : d # D \/ v # 0 => pt[d][v] = NoPte /\ pt[d][v].pg = NULL
  <2> HIDE DEF Empty
  <2> QED
    BY <1>3, <1>4, NoPteFacts, Consts DEF PtType
<1>6. /\ ref \in [Page -> Nat] /\ ref[1] = 1 /\ \A pg \in Page : pg # 1 => ref[pg] = 0
      /\ content \in [Page -> Val \cup {JUNK}] /\ content[1] = 0
      /\ used = {1} /\ nfree \in Nat
  BY Consts, CowAssumption DEF Init, Page
<1>7. /\ tabs \in [Dir -> SUBSET VPage] /\ 0 \in tabs[D]
  BY <1>1, Consts DEF Init
<1>8. /\ proc \in [Proc -> Slot] /\ proc[1].state = "RUNNABLE" /\ proc[1].sz = 1 /\ proc[1].pgdir = D
      /\ \A p \in Proc : p # 1 => proc[p].state = "UNUSED"
  <2>1. PICK s : s = [state |-> "RUNNABLE", parent |-> NULL, sz |-> 1, pgdir |-> D]
    OBVIOUS
  <2>2. 1 \in 0 .. MaxSz /\ initproc = 1 /\ 1 \in Proc
    BY CowAssumption, Consts DEF initproc
  <2>3. s \in Slot /\ s.state = "RUNNABLE" /\ s.sz = 1 /\ s.pgdir = D
    BY <2>1, <2>2 DEF Slot
  <2>4. proc = [p \in Proc |-> IF p = 1 THEN s ELSE Unused]
    BY <1>1, <2>1, <2>2 DEF Init
  <2> QED
    BY <2>2, <2>3, <2>4, UnusedFacts
<1>9. k \in [Proc -> Call] /\ \A p \in Proc : k[p] = User
  BY UserFacts DEF Init
<1>10. CowType
  BY <1>5, <1>6, <1>7, <1>8, <1>9, Consts DEF CowType
<1>11. \A p \in Proc : /\ ~ Busy(p) /\ k[p].op = "none" /\ k[p].at = "user" /\ k[p].m = NULL /\ k[p].c = NULL
                       /\ (Alive(p) <=> p = 1)
  BY <1>8, <1>9, UserFacts, Consts DEF Busy, Alive, initproc
<1>12. CtlInv
  <2>1. \A p \in Proc : PlaceOK(k[p])
    BY <1>9, <1>11 DEF PlaceOK
  <2>2. \A p \in Proc : OwnerOK(p)
    BY <1>1, <1>8, <1>11 DEF OwnerOK
  <2>3. \A p \in Proc : BoundOK(k[p], proc[p].sz)
    BY <1>11 DEF BoundOK, Copying, Dropping
  <2>4. Apart
    BY <1>11 DEF Apart
  <2>5. ASSUME NEW d \in Dir PROVE DirOK(d)
    <3>1. CASE d = D
      <4>1. Size(D) = 1
        BY <1>1, <1>8, <1>11, Consts DEF Size, initproc
      <4>2. \A v \in VPage : v < 1 <=> v = 0
        BY Consts
      <4>3. pt[D][0].pg # NULL
        BY <1>2, <1>5, Consts
      <4> QED
        BY <1>5, <3>1, <4>1, <4>2, <4>3 DEF DirOK
    <3>2. CASE d # D
      <4>1. Size(d) = 0
        BY <1>8, <1>11, <3>2, DirFacts DEF Size
      <4>2. \A v \in VPage : ~ (v < 0)
        BY Consts
      <4> QED
        BY <1>5, <3>2, <4>1, <4>2 DEF DirOK
    <3> QED
      BY <3>1, <3>2
  <2> QED
    BY <1>11, <2>1, <2>2, <2>3, <2>4, <2>5 DEF CtlInv
<1>13. MemInv
  <2>1. \A d \in Dir, v \in VPage : pt[d][v].pg # NULL => d = D /\ v = 0 /\ pt[d][v].pg = 1
    BY <1>2, <1>5
  <2>2. CountsExact
    <3>1. ASSUME NEW pg \in Page PROVE ref[pg] = Cardinality(Mappings(pg))
      <4>1. CASE pg = 1
        <5>1. \A e1 \in Dir \X VPage : pt[e1[1]][e1[2]].pg = 1 <=> e1 = <<D, 0>>
          BY <1>2, <1>5, <2>1, Consts
        <5>2. <<D, 0>> \in Dir \X VPage
          BY Consts
        <5>3. Mappings(pg) = {<<D, 0>>}
          BY <4>1, <5>1, <5>2 DEF Mappings
        <5> QED
          BY <1>6, <4>1, <5>3, FS_Singleton
      <4>2. CASE pg # 1
        <5>1. Mappings(pg) = {}
          BY <2>1, <4>2, Consts DEF Mappings
        <5> QED
          BY <1>6, <4>2, <5>1, FS_EmptySet
      <4> QED
        BY <4>1, <4>2
    <3> QED
      BY <3>1 DEF CountsExact
  <2>3. NoneDangling
    BY <1>6, <1>11, <2>1 DEF NoneDangling
  <2>4. WriterAlone
    BY <2>1 DEF WriterAlone
  <2>5. Table(0) = 0
    BY CowAssumption DEF Table
  <2>6. Tables
    BY <1>7, <1>11, <2>1, <2>5 DEF Tables
  <2>7. Decided
    BY <1>11 DEF Decided
  <2>8. Contents
    BY <1>6, <1>11, <2>1, Consts DEF Contents
  <2> QED
    BY <2>2, <2>3, <2>4, <2>6, <2>7, <2>8 DEF MemInv
<1> QED
  BY <1>10, <1>12, <1>13 DEF CowInv

LEMMA StutterKeeps == CowInv /\ UNCHANGED memory => CowInv'
<1> SUFFICES ASSUME CowInv, UNCHANGED memory PROVE CowInv'
  OBVIOUS
<1>1. CowType'
  BY DEF CowInv, CowType, memory
<1>2. CtlInv'
  BY DEF CowInv, CtlInv, OwnerOK, DirOK, Apart, Alive, Busy, Running, Size, memory
<1>3. CountsExact'
  BY CountSame DEF CowInv, MemInv, memory
<1>4. NoneDangling' /\ WriterAlone' /\ Tables' /\ Decided' /\ Contents'
  BY DEF CowInv, MemInv, NoneDangling, WriterAlone, Tables, Decided, Contents, Leaves, Alone, memory
<1> QED
  BY <1>1, <1>2, <1>3, <1>4 DEF CowInv, MemInv

LEMMA NextKeeps == CowInv /\ [Next]_vars => CowInv'
<1> SUFFICES ASSUME CowInv, [Next]_vars PROVE CowInv'
  OBVIOUS
<1>1. ASSUME NEW p \in Proc, Deallocuvm(p) PROVE CowInv'
  BY <1>1, DropLookKeeps, DropFreeKeeps, DropDecrKeeps, DropEndKeeps DEF Deallocuvm
<1>2. ASSUME NEW p \in Proc, Allocuvm(p) PROVE CowInv'
  BY <1>2, setupkvmKeeps, walkpgdirKeeps, GrowPageKeeps, GrowMapKeeps, GrowEndKeeps DEF Allocuvm
<1>3. ASSUME NEW p \in Proc, Fork(p) PROVE CowInv'
  BY <1>3, ForkStackKeeps, SharePageKeeps, ForkDoneKeeps DEF Fork
<1>4. ASSUME NEW p \in Proc, CowHandler(p) PROVE CowInv'
  BY <1>4, CowOwnKeeps, CowCopyKeeps, CowLeaveKeeps, CowRemapKeeps DEF CowHandler
<1>5. ASSUME NEW p \in Proc, UserStep(p) PROVE CowInv'
  <2>1. ASSUME NEW v \in VPage, cow_handler(p, v) \/ \E x \in Val : Store(p, v, x) PROVE CowInv'
    BY <2>1, cow_handlerKeeps, StoreKeeps
  <2>2. ASSUME NEW c \in Proc, fork(p, c) \/ wait(p, c) PROVE CowInv'
    BY <2>2, forkKeeps, waitKeeps
  <2>3. ASSUME NEW sz \in 1 .. MaxSz, sbrk(p, sz) \/ exec(p, sz) PROVE CowInv'
    BY <2>3, sbrkKeeps, execKeeps
  <2>4. CASE exit(p)
    BY <2>4, exitKeeps
  <2> QED
    BY <1>5, <2>1, <2>2, <2>3, <2>4 DEF UserStep
<1>6. CASE UNCHANGED vars
  BY <1>6, StutterKeeps DEF vars, memory
<1>7. ASSUME NEW p \in Proc, KallocHead(p) PROVE CowInv'
  BY <1>7, StutterKeeps DEF KallocHead
<1> QED
  BY <1>1, <1>2, <1>3, <1>4, <1>5, <1>6, <1>7 DEF Next, Step

\* The invariant: fork(), exec(), exit(), wait(), sbrk() and the page fault handler
\* keep it, step by step and whatever the others do meanwhile, until a page is taken
\* or returned in the window of another's kalloc().
THEOREM InvariantHolds == Spec => []CowInv
<1>1. Init => CowInv
  BY InitHolds
<1>2. CowInv /\ [Next]_vars => CowInv'
  BY NextKeeps
<1> QED
  BY <1>1, <1>2, PTL DEF Spec

\* Copy-on-write never loses track of a page: its count is the number of entries
\* that map it, none of them maps a page kfree() has taken back, only the last one
\* may be written, and a process in user mode has just the pages of its size.  It
\* holds as long as nobody's pop of the free list is overtaken.
THEOREM ReferencesHold == Spec => [](CountsExact /\ NoDangling /\ WritableAlone /\ PagesPresent)
<1>1. ASSUME CowInv PROVE CountsExact /\ NoDangling /\ WritableAlone /\ PagesPresent
  <2>1. CountsExact /\ NoneDangling /\ WriterAlone /\ Tables /\ CowType
    BY <1>1 DEF CowInv, MemInv
  <2>2. \A pg : \A e \in Mappings(pg) :
            /\ e \in Dir \X VPage /\ e[1] \in Dir /\ e[2] \in VPage /\ e = <<e[1], e[2]>>
            /\ pt[e[1]][e[2]].pg = pg /\ (Leaving(e) <=> Leaves(e[1], e[2]))
    <3> SUFFICES ASSUME NEW pg, NEW e \in Mappings(pg)
                 PROVE  /\ e \in Dir \X VPage /\ e[1] \in Dir /\ e[2] \in VPage /\ e = <<e[1], e[2]>>
                        /\ pt[e[1]][e[2]].pg = pg /\ (Leaving(e) <=> Leaves(e[1], e[2]))
      OBVIOUS
    <3>1. PICK d \in Dir, v \in VPage : e = <<d, v>>
      BY DEF Mappings
    <3>2. pt[d][v].pg = pg
      BY <3>1 DEF Mappings
    <3>3. Leaving(<<d, v>>) <=> Leaves(d, v)
      BY DEF Leaving, Leaves
    <3> QED
      BY <3>1, <3>2, <3>3
  <2>3. NoDangling
    <3>1. \A pg \in Page \ used : \A e \in Mappings(pg) : Leaving(e)
      BY <2>1, <2>2, Consts DEF NoneDangling
    <3>2. \A p \in Proc : k[p].m # NULL => k[p].m \in used /\ \A e \in Mappings(k[p].m) : Leaving(e)
      BY <2>1, <2>2 DEF NoneDangling
    <3> QED
      BY <3>1, <3>2 DEF NoDangling
  <2>4. WritableAlone
    <3> SUFFICES ASSUME NEW pg \in Page, NEW e \in Mappings(pg), NEW f \in Mappings(pg),
                        ~ Leaving(e), ~ Leaving(f), pt[e[1]][e[2]].w
                 PROVE  e = f
      BY DEF WritableAlone
    <3>1. e[1] = f[1] /\ e[2] = f[2]
      BY <2>1, <2>2, Consts DEF WriterAlone
    <3> QED
      BY <2>2, <3>1
  <2>5. PagesPresent
    <3> SUFFICES ASSUME NEW p \in Proc, At(p, "user")
                 PROVE  /\ countvp(p) = countpp(p)
                        /\ countptp(p) > Cardinality({Table(v) : v \in 0 .. proc[p].sz - 1})
      BY DEF PagesPresent
    <3>1. PICK D \in Dir, n \in Nat : D = proc[p].pgdir /\ n = proc[p].sz /\ n <= MaxSz
      BY <1>1, UserModeFacts, SlotFacts DEF CowInv
    <3>2. \A v \in VPage : pt[D][v].pg # NULL <=> v < n
      BY <1>1, <3>1, UserModeFacts
    <3>3. {v \in VPage : pt[D][v].pg # NULL} = 0 .. n - 1
      BY <3>1, <3>2, Consts DEF VPage
    <3>4. Cardinality(0 .. n - 1) = n
      BY FS_Interval
    <3>5. countvp(p) = countpp(p)
      BY <3>1, <3>3, <3>4 DEF countvp, countpp
    <3>6. {Table(v) : v \in 0 .. n - 1} \subseteq tabs[D]
      BY <2>1, <3>3 DEF Tables
    <3>7. IsFiniteSet(tabs[D])
      BY <2>1, Finite, FS_Subset DEF CowType
    <3>8. Cardinality({Table(v) : v \in 0 .. n - 1}) <= Cardinality(tabs[D])
          /\ Cardinality({Table(v) : v \in 0 .. n - 1}) \in Nat /\ Cardinality(tabs[D]) \in Nat
      BY <3>6, <3>7, FS_Subset, FS_CardinalityType
    <3> QED
      BY <3>1, <3>5, <3>8 DEF countptp
  <2> QED
    BY <2>1, <2>3, <2>4, <2>5
<1> QED
  BY <1>1, InvariantHolds, PTL

--------------------------------------------------------------------------------
(* What a process reads *)

\* What a call that makes an image has made so far: sharerouvm() has shared the
\* pages of the parent, allocuvm() has given zeroed pages.
SharedSoFar(p) ==
    k[p].at = "share" =>
        \A v \in VPage : v < k[p].v => pt[k[p].d][v].pg = pt[proc[p].pgdir][v].pg

ZeroedSoFar(p) ==
    /\ k[p].at \in {"grow", "map"} =>
        \A v \in VPage : UndoFrom(p) <= v /\ v < k[p].v => content[pt[k[p].d][v].pg] = 0
    /\ k[p].at = "map" => content[k[p].m] = 0

ImageInv == \A p \in Proc : SharedSoFar(p) /\ ZeroedSoFar(p)

\* Process p reads page v in its image.
Has(p, v) ==
    /\ Running(p) /\ v < proc[p].sz
    /\ ~ (k[p].op = "sbrk" /\ k[p].nsz < proc[p].sz /\ v >= k[p].nsz)

\* The page it reads there.
PageOf(p, v) == IF At(p, "remap") /\ v = k[p].v THEN k[p].m ELSE pt[proc[p].pgdir][v].pg

\* Nobody else reads or works on directory D.
Own(p, D) ==
    \A q \in Proc \ {p} : (Running(q) => D # proc[q].pgdir) /\ (Busy(q) => D # k[q].d)

\* A step of p writes page W at most; only entry V of D may map it for long.
Spares(p, W, D, V) ==
    /\ \A y \in Page : y # W => content'[y] = content[y]
    /\ \A d \in Dir, v \in VPage :
        pt[d][v].pg # NULL /\ ~ Leaves(d, v) /\ (d # D \/ v # V) => pt[d][v].pg # W
    /\ \A q \in Proc \ {p} : k[q].m # NULL => k[q].m # W

\* Process q reads what it read before.
SameReads(q) ==
    \A v \in VPage : /\ Has(q, v)' <=> Has(q, v)
                     /\ Has(q, v) => content'[PageOf(q, v)'] = content[PageOf(q, v)]

LEMMA OwnFacts ==
    ASSUME CowType, CtlInv, NEW p \in Proc, Running(p)
    PROVE  /\ Own(p, proc[p].pgdir) /\ proc[p].pgdir \in Dir
           /\ Busy(p) => Own(p, k[p].d) /\ k[p].d \in Dir
<1>1. \A q \in Proc : Running(q) => proc[q].pgdir \in Dir /\ proc[q].pgdir[1] = q
  BY SlotFacts DEF CtlInv, OwnerOK, Alive, Running
<1>2. \A q \in Proc \ {p} : Busy(q) => k[q].d # proc[p].pgdir
  BY Distinct
<1>3. Busy(p) => \A q \in Proc \ {p} : (Running(q) => k[p].d # proc[q].pgdir) /\ (Busy(q) => k[p].d # k[q].d)
  BY Distinct
<1>4. \A q \in Proc \ {p} : Running(q) => proc[p].pgdir # proc[q].pgdir
  BY <1>1
<1>5. k[p].d \in Dir
  BY CallFacts
<1> HIDE DEF Running, Busy
<1> QED
  BY <1>1, <1>2, <1>3, <1>4, <1>5 DEF Own

\* Page v of the image: the copy that cow_handler_1() has in hand, or what is mapped.
LEMMA HasFacts ==
    ASSUME CowType, CtlInv, MemInv, NEW q \in Proc, NEW v \in VPage, Has(q, v)
    PROVE  /\ Running(q) /\ proc[q].pgdir \in Dir
           /\ k[q].at = "remap" /\ v = k[q].v => PageOf(q, v) = k[q].m /\ k[q].m # NULL
           /\ ~ (k[q].at = "remap" /\ v = k[q].v) =>
                /\ PageOf(q, v) = pt[proc[q].pgdir][v].pg
                /\ pt[proc[q].pgdir][v].pg # NULL /\ ~ Leaves(proc[q].pgdir, v)
           /\ PageOf(q, v) \in Page /\ PageOf(q, v) \in used /\ content[PageOf(q, v)] \in Val
<1>1. Running(q) /\ v < proc[q].sz /\ v \in Nat
  BY Consts DEF Has
<1>2. proc[q].pgdir \in Dir
  BY SlotFacts
<1>3. CASE k[q].at = "remap" /\ v = k[q].v
  <2>1. Busy(q) /\ At(q, "remap")
    BY <1>1, <1>3 DEF Busy, At
  <2>2. k[q].m \in Page /\ k[q].m # NULL
    BY <1>3, <2>1, EntryFacts, Consts
  <2>3. PageOf(q, v) = k[q].m
    BY <1>3, <2>1 DEF PageOf
  <2> QED
    BY <1>1, <1>2, <1>3, <2>2, <2>3 DEF MemInv, NoneDangling, Contents
<1>4. CASE ~ (k[q].at = "remap" /\ v = k[q].v)
  <2>1. PageOf(q, v) = pt[proc[q].pgdir][v].pg
    BY <1>4 DEF PageOf, At
  <2>2. pt[proc[q].pgdir][v].pg # NULL /\ ~ Leaves(proc[q].pgdir, v)
    <3>1. CASE ~ Busy(q) \/ k[q].op \notin {"sbrk", "cow"}
      BY <1>1, <3>1, ImageFacts, NotLeaving
    <3>2. CASE Busy(q) /\ k[q].op \in {"sbrk", "cow"}
      <4>1. /\ k[q].d = proc[q].pgdir /\ PlaceOK(k[q]) /\ BoundOK(k[q], proc[q].sz)
            /\ ShapeOK(k[q], proc[q].sz, pt[proc[q].pgdir])
            /\ k[q].v \in Nat /\ k[q].nsz \in Nat /\ proc[q].sz \in Nat /\ k[q].at \in Places /\ k[q].at # "user"
        BY <3>2, BusyFacts, CallFacts, SlotFacts DEF CtlInv, Busy
      <4>2. CASE k[q].op = "cow"
        <5>1. k[q].at \in Copying
          BY <4>1, <4>2 DEF PlaceOK
        <5>2. pt[proc[q].pgdir][v].pg # NULL
          BY <1>1, <1>4, <4>1, <5>1 DEF ShapeOK
        <5>3. k[q].at # "decr"
          BY <5>1 DEF Copying
        <5> QED
          BY <1>1, <3>2, <4>1, <5>2, <5>3, NotLeaving
      <4>3. CASE k[q].op = "sbrk" /\ k[q].at \in {"grow", "map"}
        <5>1. v < k[q].v
          BY <1>1, <4>1, <4>3 DEF BoundOK
        <5>2. pt[proc[q].pgdir][v].pg # NULL
          BY <4>1, <4>3, <5>1 DEF ShapeOK, Building
        <5> QED
          BY <1>1, <3>2, <4>1, <4>3, <5>2, NotLeaving
      <4>4. CASE k[q].op = "sbrk" /\ k[q].at \in Dropping
        <5>1. v < Lo(k[q], proc[q].sz)
          BY <1>1, <4>1, <4>4 DEF Has, Lo
        <5>2. pt[proc[q].pgdir][v].pg # NULL
          BY <4>1, <4>4, <5>1 DEF ShapeOK
        <5>3. v # k[q].v
          <6>1. Lo(k[q], proc[q].sz) <= k[q].v /\ Lo(k[q], proc[q].sz) \in Nat
            BY <4>1, <4>4 DEF BoundOK, Lo
          <6> QED
            BY <1>1, <4>1, <5>1, <6>1
        <5> QED
          BY <1>1, <3>2, <4>1, <5>2, <5>3, NotLeaving
      <4> QED
        BY <3>2, <4>1, <4>2, <4>3, <4>4 DEF PlaceOK
    <3> QED
      BY <3>1, <3>2
  <2> QED
    BY <1>1, <1>2, <1>4, <2>1, <2>2, PtFacts DEF MemInv, NoneDangling, Contents
<1> QED
  BY <1>3, <1>4

\* The pages of an image in the making.
LEMMA MadeFacts ==
    ASSUME CowType, CtlInv, NEW q \in Proc, k[q].at \in {"share", "grow", "map"},
           NEW v \in VPage, v < k[q].v
    PROVE  /\ Busy(q) /\ k[q].d \in Dir /\ pt[k[q].d][v].pg \in Page
           /\ pt[k[q].d][v].pg # NULL /\ ~ Leaves(k[q].d, v)
<1>1. Busy(q)
  BY DEF Busy
<1>2. ShapeOK(k[q], proc[q].sz, pt[k[q].d]) /\ Running(q) /\ k[q].d \in Dir
  BY <1>1, BusyFacts, CallFacts DEF CtlInv
<1>3. pt[k[q].d][v].pg # NULL
  BY <1>2 DEF ShapeOK, Building
<1> QED
  BY <1>1, <1>2, <1>3, NotLeaving, PtFacts

\* The others neither see a step of p nor are disturbed in what they make.
LEMMA OthersKept ==
    ASSUME CowType, CtlInv, MemInv, ImageInv, NEW p \in Proc, NEW q \in Proc \ {p}, k'[q] = k[q],
           proc'[q].state = proc[q].state, proc'[q].sz = proc[q].sz, proc'[q].pgdir = proc[q].pgdir,
           NEW D \in Dir, NEW V \in VPage, NEW W, Own(p, D), Spares(p, W, D, V),
           \A d \in Dir \ {D}, v \in VPage : pt'[d][v].pg = pt[d][v].pg
    PROVE  SharedSoFar(q)' /\ ZeroedSoFar(q)' /\ SameReads(q)
<1>1. Running(q)' <=> Running(q)
  BY DEF Running
<1>2. \A v \in VPage : Has(q, v)' <=> Has(q, v)
  BY <1>1 DEF Has
<1>3. ASSUME NEW v \in VPage, Has(q, v) PROVE content'[PageOf(q, v)'] = content[PageOf(q, v)]
  <2>1. Running(q) /\ proc[q].pgdir \in Dir /\ proc[q].pgdir # D
    BY <1>3, HasFacts DEF Own
  <2>2. PageOf(q, v)' = PageOf(q, v)
    BY <1>1, <2>1 DEF PageOf, At
  <2>3. PageOf(q, v) \in Page /\ PageOf(q, v) # W
    <3>1. CASE k[q].at = "remap" /\ v = k[q].v
      BY <1>3, <3>1, HasFacts DEF Spares
    <3>2. CASE ~ (k[q].at = "remap" /\ v = k[q].v)
      BY <1>3, <2>1, <3>2, HasFacts DEF Spares
    <3> QED
      BY <3>1, <3>2
  <2> QED
    BY <2>2, <2>3 DEF Spares
<1>4. SameReads(q)
  BY <1>2, <1>3 DEF SameReads
<1>5. ASSUME k[q].at \in {"share", "grow", "map"}, NEW v \in VPage, v < k[q].v
      PROVE  /\ pt'[k[q].d][v].pg = pt[k[q].d][v].pg
             /\ content'[pt[k[q].d][v].pg] = content[pt[k[q].d][v].pg]
  <2>1. Busy(q) /\ k[q].d \in Dir /\ k[q].d # D /\ pt[k[q].d][v].pg \in Page
        /\ pt[k[q].d][v].pg # NULL /\ ~ Leaves(k[q].d, v)
    BY <1>5, MadeFacts DEF Own
  <2> QED
    BY <2>1 DEF Spares
<1>6. SharedSoFar(q)'
  <2> SUFFICES ASSUME k[q].at = "share", NEW v \in VPage, v < k[q].v
               PROVE  pt'[k[q].d][v].pg = pt'[proc[q].pgdir][v].pg
    BY DEF SharedSoFar
  <2>1. proc[q].pgdir \in Dir /\ proc[q].pgdir # D
    BY SlotFacts, BusyFacts DEF Own, Busy
  <2>2. pt[k[q].d][v].pg = pt[proc[q].pgdir][v].pg
    BY DEF ImageInv, SharedSoFar
  <2> QED
    BY <1>5, <2>1, <2>2
<1>7. ZeroedSoFar(q)'
  <2>1. UndoFrom(q)' = UndoFrom(q)
    BY DEF UndoFrom
  <2>2. ZeroedSoFar(q)
    BY DEF ImageInv
  <2>3. k[q].at \in {"grow", "map"} =>
          \A v \in VPage : UndoFrom(q) <= v /\ v < k[q].v => content'[pt'[k[q].d][v].pg] = 0
    BY <1>5, <2>2 DEF ZeroedSoFar
  <2>4. k[q].at = "map" => content'[k[q].m] = 0
    BY <2>2, EntryFacts, Consts DEF ZeroedSoFar, Spares, Busy
  <2> QED
    BY <2>1, <2>3, <2>4 DEF ZeroedSoFar
<1> QED
  BY <1>4, <1>6, <1>7

\* A slot without a running process reads nothing and makes nothing.
LEMMA IdleKept ==
    ASSUME CowType, CtlInv, NEW x \in Proc, ~ Running(x), ~ Running(x)', k'[x] = k[x]
    PROVE  SharedSoFar(x)' /\ ZeroedSoFar(x)' /\ SameReads(x)
<1>1. k[x].at = "user"
  BY BusyFacts DEF Busy
<1>2. \A v \in VPage : ~ Has(x, v) /\ ~ Has(x, v)'
  BY DEF Has
<1> QED
  BY <1>1, <1>2 DEF SharedSoFar, ZeroedSoFar, SameReads

LEMMA ReadsAre ==
    /\ \A q \in Proc, v \in VPage : Reads[q][v] = IF Has(q, v) THEN content[PageOf(q, v)] ELSE JUNK
    /\ Reads = [q \in Proc |-> [v \in VPage |-> Reads[q][v]]]
  BY DEF Reads, Has, PageOf

\* A step after which everybody reads what he did before; x is the slot that is touched.
LEMMA QuietStep ==
    ASSUME CowType, CtlInv, MemInv, ImageInv, NEW p \in Proc, Running(p), NEW x \in Proc \cup {NULL},
           x # NULL => ~ Running(x) /\ ~ Running(x)',
           \A q \in Proc \ {p} : k'[q] = k[q],
           \A q \in Proc \ {p, x} : /\ proc'[q].state = proc[q].state /\ proc'[q].sz = proc[q].sz
                                    /\ proc'[q].pgdir = proc[q].pgdir,
           NEW D \in Dir, NEW V \in VPage, NEW W, Own(p, D), Spares(p, W, D, V),
           \A d \in Dir \ {D}, v \in VPage : pt'[d][v].pg = pt[d][v].pg,
           SharedSoFar(p)', ZeroedSoFar(p)', SameReads(p)
    PROVE  ImageInv' /\ Reads' = Reads
<1>1. ASSUME NEW q \in Proc PROVE SharedSoFar(q)' /\ ZeroedSoFar(q)' /\ SameReads(q)
  <2>1. CASE q = p
    BY <2>1
  <2>2. CASE q # p /\ q = x
    <3>1. ~ Running(q) /\ ~ Running(q)' /\ k'[q] = k[q]
      BY <2>2, Consts
    <3> QED
      BY <3>1, IdleKept
  <2>3. CASE q # p /\ q # x
    BY <2>3, OthersKept
  <2> QED
    BY <2>1, <2>2, <2>3
<1>2. ImageInv'
  BY <1>1 DEF ImageInv
<1>3. ASSUME NEW q \in Proc, NEW v \in VPage PROVE Reads'[q][v] = Reads[q][v]
  <2>1. (Has(q, v)' <=> Has(q, v)) /\ (Has(q, v) => content'[PageOf(q, v)'] = content[PageOf(q, v)])
    BY <1>1 DEF SameReads
  <2>2. Reads[q][v] = IF Has(q, v) THEN content[PageOf(q, v)] ELSE JUNK
    BY ReadsAre
  <2>3. Reads'[q][v] = IF Has(q, v)' THEN content'[PageOf(q, v)'] ELSE JUNK
    BY DEF Reads, Has, PageOf
  <2> QED
    BY <2>1, <2>2, <2>3
<1>4. Reads' = [q \in Proc |-> [v \in VPage |-> Reads'[q][v]]]
  BY DEF Reads
<1>5. Reads = [q \in Proc |-> [v \in VPage |-> Reads[q][v]]]
  BY DEF Reads
<1> HIDE DEF Reads
<1>6. [q \in Proc |-> [v \in VPage |-> Reads'[q][v]]] = [q \in Proc |-> [v \in VPage |-> Reads[q][v]]]
  BY <1>3
<1> QED
  BY <1>2, <1>4, <1>5, <1>6

\* p reads the pages it read, and none of them is written.
LEMMA MineKept ==
    ASSUME CowType, CtlInv, MemInv, NEW p \in Proc, k[p].at # "remap", k'[p].at # "remap",
           proc'[p].pgdir = proc[p].pgdir, \A v \in VPage : Has(p, v)' <=> Has(p, v),
           NEW W, \A y \in Page : y # W => content'[y] = content[y],
           \A v \in VPage : Has(p, v) => /\ pt'[proc[p].pgdir][v].pg = pt[proc[p].pgdir][v].pg
                                         /\ PageOf(p, v) # W
    PROVE  SameReads(p)
<1> SUFFICES ASSUME NEW v \in VPage, Has(p, v) PROVE content'[PageOf(p, v)'] = content[PageOf(p, v)]
  BY DEF SameReads
<1>1. PageOf(p, v) = pt[proc[p].pgdir][v].pg
  BY DEF PageOf, At
<1>2. PageOf(p, v)' = pt'[proc[p].pgdir][v].pg
  BY DEF PageOf, At
<1>3. PageOf(p, v) \in Page
  BY HasFacts
<1> QED
  BY <1>1, <1>2, <1>3

\* A step that writes no page and leaves all entries where they are.
LEMMA NothingWritten ==
    ASSUME CowType, CtlInv, MemInv, ImageInv, NEW p \in Proc, Running(p), NEW x \in Proc \cup {NULL},
           x # NULL => ~ Running(x) /\ ~ Running(x)',
           \A q \in Proc \ {p} : k'[q] = k[q],
           \A q \in Proc \ {p, x} : /\ proc'[q].state = proc[q].state /\ proc'[q].sz = proc[q].sz
                                    /\ proc'[q].pgdir = proc[q].pgdir,
           content' = content, \A d \in Dir, v \in VPage : pt'[d][v].pg = pt[d][v].pg,
           SharedSoFar(p)', ZeroedSoFar(p)',
           k[p].at # "remap", k'[p].at # "remap",
           proc'[p].pgdir = proc[p].pgdir, \A v \in VPage : Has(p, v)' <=> Has(p, v)
    PROVE  ImageInv' /\ Reads' = Reads
<1>1. PICK D \in Dir : Own(p, D)
  BY OwnFacts
<1>2. PICK V \in VPage : TRUE
  BY Consts
<1>3. Spares(p, NULL, D, V)
  BY DEF Spares
<1>4. \A v \in VPage : Has(p, v) => PageOf(p, v) # NULL
  BY HasFacts, Consts
<1>5. proc[p].pgdir \in Dir
  BY OwnFacts
<1>6. SameReads(p)
  BY <1>4, <1>5, MineKept
<1> QED
  BY <1>1, <1>3, <1>6, QuietStep

\* ... in a call that goes on ...
LEMMA QuietInner ==
    ASSUME CowInv, ImageInv, NEW p \in Proc, NEW a \in Places \ {"remap"}, Here(p, a),
           UNCHANGED <<content, pt, proc>>, \A q \in Proc \ {p} : k'[q] = k[q],
           k'[p].op = k[p].op, k'[p].nsz = k[p].nsz, k'[p].at # "remap",
           SharedSoFar(p)', ZeroedSoFar(p)'
    PROVE  ImageInv' /\ Reads' = Reads
<1>1. CowType /\ CtlInv /\ MemInv /\ Running(p) /\ k[p].at # "remap"
  BY DEF Here
<1>2. \A v \in VPage : Has(p, v)' <=> Has(p, v)
  BY DEF Has, Running
<1>3. NULL \in Proc \cup {NULL} /\ NULL = NULL
  OBVIOUS
<1>4. \A q \in Proc \ {p, NULL} : /\ proc'[q].state = proc[q].state /\ proc'[q].sz = proc[q].sz
                                  /\ proc'[q].pgdir = proc[q].pgdir
  OBVIOUS
<1>5. \A d \in Dir, v \in VPage : pt'[d][v].pg = pt[d][v].pg
  OBVIOUS
<1>6. proc'[p].pgdir = proc[p].pgdir /\ content' = content
  OBVIOUS
<1> HIDE DEF Running
<1> QED
  BY <1>1, <1>2, <1>3, <1>4, <1>5, <1>6, NothingWritten

\* ... or ends; x is the slot it gives back.
LEMMA QuietReturn ==
    ASSUME CowInv, ImageInv, NEW p \in Proc, NEW a \in Places \ {"remap"}, Here(p, a),
           k[p].op # "sbrk", Return(p), content' = content,
           NEW x \in Proc \cup {NULL}, x # NULL => x # p /\ ~ Running(x) /\ ~ Running(x)',
           \A q \in Proc \ {x} : proc'[q] = proc[q],
           \A d \in Dir, v \in VPage : pt'[d][v].pg = pt[d][v].pg
    PROVE  ImageInv' /\ Reads' = Reads
<1>1. CowType /\ CtlInv /\ MemInv /\ Running(p) /\ k[p].at # "remap"
  BY DEF Here
<1>2. k' \in [Proc -> Call] /\ k'[p] = User /\ \A q \in Proc \ {p} : k'[q] = k[q]
  BY <1>1, ReturnFacts
<1>3. k'[p].op = "none" /\ k'[p].at = "user"
  BY <1>2, UserFacts
<1>4. proc'[p] = proc[p]
  BY Consts
<1>5. \A v \in VPage : Has(p, v)' <=> Has(p, v)
  BY <1>3, <1>4 DEF Has, Running
<1>6. SharedSoFar(p)' /\ ZeroedSoFar(p)' /\ k'[p].at # "remap"
  BY <1>3 DEF SharedSoFar, ZeroedSoFar
<1>7. \A q \in Proc \ {p, x} : /\ proc'[q].state = proc[q].state /\ proc'[q].sz = proc[q].sz
                                  /\ proc'[q].pgdir = proc[q].pgdir
  OBVIOUS
<1>8. proc'[p].pgdir = proc[p].pgdir
  BY <1>4
<1> HIDE DEF Running
<1> QED
  BY <1>1, <1>2, <1>5, <1>6, <1>7, <1>8, NothingWritten

LEMMA DropLookReads ==
    ASSUME CowInv, ImageInv, NEW p \in Proc, DropLook(p)
    PROVE  ImageInv' /\ Reads' = Reads
<1>1. Here(p, "drop")
  BY PlaceFacts DEF DropLook
<1>2. PICK pg : pg = pt[k[p].d][k[p].v].pg
  OBVIOUS
<1>3. PICK a \in {"free", "decr"} : a = IF Last(ref[pg]) THEN "free" ELSE "decr"
  BY Zenon
<1>4. k' = [k EXCEPT ![p].v = @ + 1] \/ k' = [k EXCEPT ![p].cnt = ref[pg], ![p].at = a]
  BY <1>2, <1>3 DEF DropLook
<1>5. /\ \A q \in Proc \ {p} : k'[q] = k[q]
      /\ k'[p].op = k[p].op /\ k'[p].nsz = k[p].nsz /\ k'[p].at \in {"drop", "free", "decr"}
  BY <1>1, <1>4 DEF Here, Call
<1>6. SharedSoFar(p)' /\ ZeroedSoFar(p)' /\ k'[p].at # "remap" /\ "drop" \in Places \ {"remap"}
  BY <1>5 DEF SharedSoFar, ZeroedSoFar, Places, Dropping
<1>7. UNCHANGED <<content, pt, proc>>
  BY DEF DropLook
<1> QED
  BY <1>1, <1>5, <1>6, <1>7, QuietInner

\* An entry of its own image that a process is not giving up.
LEMMA NotDropped ==
    ASSUME CowInv, NEW p \in Proc, NEW a \in Dropping \cup {"map"}, Here(p, a), NEW v \in VPage, Has(p, v)
    PROVE  k[p].d # proc[p].pgdir \/ v # k[p].v
<1>1. CASE k[p].op # "sbrk"
  <2>1. k[p].op # "cow"
    BY DEF Here, PlaceOK, Dropping, Copying
  <2> QED
    BY <1>1, <2>1, BusyFacts DEF Here
<1>2. CASE k[p].op = "sbrk" /\ a = "map"
  BY <1>2 DEF Here, BoundOK, Has
<1>3. CASE k[p].op = "sbrk" /\ a \in Dropping
  <2>1. Lo(k[p], proc[p].sz) <= k[p].v
    BY <1>3 DEF Here, BoundOK
  <2>2. v < Lo(k[p], proc[p].sz) /\ v \in Nat
    BY <1>3, Consts DEF Here, Has, Lo
  <2> QED
    BY <2>1, <2>2 DEF Here
<1> QED
  BY <1>1, <1>2, <1>3

LEMMA DropFreeReads ==
    ASSUME CowInv, ImageInv, NEW p \in Proc, DropFree(p)
    PROVE  ImageInv' /\ Reads' = Reads
<1>1. Here(p, "free")
  BY PlaceFacts DEF DropFree
<1>2. k' = [k EXCEPT ![p].at = "decr"] /\ UNCHANGED <<pt, proc>>
  BY DEF DropFree
<1>3. PICK D \in Dir, V \in VPage, W \in Page : D = k[p].d /\ V = k[p].v /\ W = pt[D][V].pg
  BY <1>1, EntryFacts DEF Here
<1>4. /\ \A q \in Proc \ {p} : k'[q] = k[q]
      /\ k'[p].op = k[p].op /\ k'[p].nsz = k[p].nsz /\ k'[p].at = "decr"
  BY <1>1, <1>2 DEF Here, Call
<1>5. /\ CowType /\ CtlInv /\ MemInv /\ Running(p) /\ Busy(p) /\ k[p].at = "free"
      /\ Own(p, D) /\ proc[p].pgdir \in Dir
  BY <1>1, <1>3, OwnFacts DEF Here
<1>6. \A d \in Dir, v \in VPage : pt[d][v].pg = W => d = D /\ v = V
  BY <1>3, <1>5 DEF MemInv, Decided, Alone
<1>7. Spares(p, W, D, V)
  <2>1. \A y \in Page : y # W => content'[y] = content[y]
    BY <1>3 DEF DropFree, kfree, CowInv, CowType
  <2>2. ~ Leaves(D, V)
    BY <1>3, <1>5, NotLeaving
  <2>3. \A q \in Proc : k[q].m # NULL => k[q].m # W
    BY <1>3, <2>2 DEF CowInv, MemInv, NoneDangling
  <2> QED
    BY <1>6, <2>1, <2>3 DEF Spares
<1>8. SameReads(p)
  <2>1. \A v \in VPage : Has(p, v)' <=> Has(p, v)
    BY <1>2, <1>4 DEF Has, Running
  <2>2. ASSUME NEW v \in VPage, Has(p, v) PROVE PageOf(p, v) # W
    <3>1. proc[p].pgdir # D \/ v # V
      BY <1>1, <1>3, <2>2, NotDropped DEF Dropping
    <3>2. PageOf(p, v) = pt[proc[p].pgdir][v].pg
      BY <1>5 DEF PageOf, At
    <3> QED
      BY <1>5, <1>6, <3>1, <3>2
  <2>3. k[p].at # "remap" /\ k'[p].at # "remap" /\ proc'[p].pgdir = proc[p].pgdir /\ pt' = pt
    BY <1>2, <1>4, <1>5
  <2>4. \A y \in Page : y # W => content'[y] = content[y]
    BY <1>7 DEF Spares
  <2> QED
    BY <1>5, <2>1, <2>2, <2>3, <2>4, MineKept
<1>9. SharedSoFar(p)' /\ ZeroedSoFar(p)'
  BY <1>4 DEF SharedSoFar, ZeroedSoFar
<1>10. /\ \A q \in Proc \ {p, NULL} : /\ proc'[q].state = proc[q].state /\ proc'[q].sz = proc[q].sz
                                      /\ proc'[q].pgdir = proc[q].pgdir
       /\ \A d \in Dir \ {D}, v \in VPage : pt'[d][v].pg = pt[d][v].pg
       /\ NULL \in Proc \cup {NULL}
  BY <1>2
<1> QED
  BY <1>4, <1>5, <1>7, <1>8, <1>9, <1>10, QuietStep

LEMMA DropDecrReads ==
    ASSUME CowInv, ImageInv, NEW p \in Proc, DropDecr(p)
    PROVE  ImageInv' /\ Reads' = Reads
<1>1. Here(p, "decr")
  BY PlaceFacts DEF DropDecr
<1>2. k' = [k EXCEPT ![p].v = @ + 1, ![p].at = "drop"] /\ UNCHANGED <<content, proc>>
  BY DEF DropDecr
<1>3. PICK D \in Dir, V \in VPage : D = k[p].d /\ V = k[p].v
  BY <1>1, EntryFacts DEF Here
<1>4. /\ \A q \in Proc \ {p} : k'[q] = k[q]
      /\ k'[p].op = k[p].op /\ k'[p].nsz = k[p].nsz /\ k'[p].at = "drop"
  BY <1>1, <1>2 DEF Here, Call
<1>5. /\ CowType /\ CtlInv /\ MemInv /\ Running(p) /\ Busy(p) /\ k[p].at = "decr"
      /\ Own(p, D) /\ proc[p].pgdir \in Dir
  BY <1>1, <1>3, OwnFacts DEF Here
<1>6. \A d \in Dir, v \in VPage : d # D \/ v # V => pt'[d][v].pg = pt[d][v].pg
  BY <1>3 DEF DropDecr, CowInv, CowType, PtType
<1>7. Spares(p, NULL, D, V)
  BY <1>2 DEF Spares
<1>8. SameReads(p)
  <2>1. \A v \in VPage : Has(p, v)' <=> Has(p, v)
    BY <1>2, <1>4 DEF Has, Running
  <2>2. ASSUME NEW v \in VPage, Has(p, v)
        PROVE  PageOf(p, v) # NULL /\ pt'[proc[p].pgdir][v].pg = pt[proc[p].pgdir][v].pg
    <3>1. proc[p].pgdir # D \/ v # V
      BY <1>1, <1>3, <2>2, NotDropped DEF Dropping
    <3>2. PageOf(p, v) # NULL
      BY <1>5, <2>2, HasFacts, Consts
    <3> QED
      BY <1>5, <1>6, <3>1, <3>2
  <2>3. /\ k[p].at # "remap" /\ k'[p].at # "remap" /\ proc'[p].pgdir = proc[p].pgdir
        /\ \A y \in Page : y # NULL => content'[y] = content[y]
    BY <1>2, <1>4, <1>5
  <2> QED
    BY <1>5, <2>1, <2>2, <2>3, MineKept
<1>9. SharedSoFar(p)' /\ ZeroedSoFar(p)'
  BY <1>4 DEF SharedSoFar, ZeroedSoFar
<1>10. /\ \A q \in Proc \ {p, NULL} : /\ proc'[q].state = proc[q].state /\ proc'[q].sz = proc[q].sz
                                      /\ proc'[q].pgdir = proc[q].pgdir
       /\ \A d \in Dir \ {D}, v \in VPage : pt'[d][v].pg = pt[d][v].pg
       /\ NULL \in Proc \cup {NULL}
  BY <1>2, <1>6
<1> QED
  BY <1>4, <1>5, <1>7, <1>8, <1>9, <1>10, QuietStep

LEMMA DropEndReads ==
    ASSUME CowInv, ImageInv, NEW p \in Proc, DropEnd(p)
    PROVE  ImageInv' /\ Reads' = Reads
<1>1. Here(p, "drop")
  BY PlaceFacts DEF DropEnd
<1>2. PICK D \in Dir, c \in Proc \cup {NULL}, V \in VPage : D = k[p].d /\ c = k[p].c
  BY <1>1, CallFacts, Consts DEF Here
<1>3. /\ UNCHANGED <<ref, pt>> /\ Return(p)
      /\ content' = [pg \in Page |-> IF pg \in Unmapped(p) THEN JUNK ELSE content[pg]]
      /\ proc' = IF Resized(p) THEN [proc EXCEPT ![p].sz = k[p].nsz]
                 ELSE IF c # NULL THEN [proc EXCEPT ![c] = Unused] ELSE proc
  BY <1>2 DEF DropEnd
<1>4. /\ CowType /\ CtlInv /\ MemInv /\ Running(p) /\ Busy(p) /\ k[p].at = "drop" /\ OwnerOK(p)
      /\ Own(p, D) /\ proc[p].pgdir \in Dir /\ BoundOK(k[p], proc[p].sz)
  BY <1>1, <1>2, OwnFacts DEF Here, CtlInv
<1>5. k' \in [Proc -> Call] /\ k'[p] = User /\ \A q \in Proc \ {p} : k'[q] = k[q]
  BY <1>3, <1>4, ReturnFacts
<1>6. k'[p].op = "none" /\ k'[p].at = "user"
  BY <1>5, UserFacts
<1>7. \A d \in Dir, v \in VPage : pt[d][v].pg # NULL /\ ~ Leaves(d, v) => pt[d][v].pg # k[p].m
  BY <1>4 DEF MemInv, NoneDangling
<1>8. Spares(p, k[p].m, D, V)
  <2>1. \A y \in Page : y # k[p].m => content'[y] = content[y]
    BY <1>3 DEF Unmapped
  <2>2. \A q \in Proc \ {p} : k[q].m # NULL => k[q].m # k[p].m
    BY <1>4 DEF CtlInv, Apart
  <2> QED
    BY <1>7, <2>1, <2>2 DEF Spares
<1>9. PICK x \in Proc \cup {NULL} : x = IF Resized(p) THEN NULL ELSE c
  OBVIOUS
<1>10. x # NULL => x \in Proc /\ x # p /\ ~ Running(x) /\ ~ Running(x)'
  <2>1. x # NULL => x \in Proc /\ x = c /\ ~ Resized(p) /\ x # p /\ proc[x].state \in {"EMBRYO", "ZOMBIE"}
    BY <1>2, <1>4, <1>9, BusyFacts
  <2>2. x # NULL => proc'[x] = Unused
    BY <1>3, <2>1 DEF CowInv, CowType
  <2> QED
    BY <2>1, <2>2, UnusedFacts DEF Running
<1>11. \A q \in Proc \ {p, x} : proc'[q] = proc[q]
  BY <1>3, <1>9 DEF CowInv, CowType
<1>12. /\ proc'[p].state = proc[p].state /\ proc'[p].pgdir = proc[p].pgdir
       /\ proc'[p].sz = IF Resized(p) THEN k[p].nsz ELSE proc[p].sz
  <2>1. CASE Resized(p)
    BY <1>3, <2>1, SlotFacts DEF CowInv, CowType, Slot
  <2>2. CASE ~ Resized(p)
    <3>1. c # p
      BY <1>9, <1>10, <2>2, Consts
    <3> QED
      BY <1>3, <2>2, <3>1 DEF CowInv, CowType
  <2> QED
    BY <2>1, <2>2
<1>13. SameReads(p)
  <2>1. ASSUME NEW v \in VPage PROVE Has(p, v)' <=> Has(p, v)
    <3>1. Has(p, v)' <=> v < proc'[p].sz
      BY <1>4, <1>6, <1>12 DEF Has, Running
    <3>2. v \in Nat /\ proc[p].sz \in Nat /\ k[p].nsz \in Nat
      BY <1>1, Consts DEF Here
    <3>3. CASE Resized(p)
      <4>1. k[p].op = "sbrk" /\ k[p].nsz < proc[p].sz
        BY <1>4, <3>3 DEF Resized, BoundOK, Dropping
      <4> QED
        BY <1>4, <1>12, <3>1, <3>2, <3>3, <4>1 DEF Has
    <3>4. CASE ~ Resized(p)
      <4>1. k[p].op = "sbrk" => proc[p].sz < k[p].nsz
        BY <1>4, <3>4 DEF Resized, BoundOK, Dropping
      <4> QED
        BY <1>4, <1>12, <3>1, <3>2, <3>4, <4>1 DEF Has
    <3> QED
      BY <3>3, <3>4
  <2>2. ASSUME NEW v \in VPage, Has(p, v) PROVE PageOf(p, v) # k[p].m
    BY <1>4, <1>7, <2>2, HasFacts
  <2>3. /\ k[p].at # "remap" /\ k'[p].at # "remap" /\ pt' = pt
        /\ \A y \in Page : y # k[p].m => content'[y] = content[y]
    BY <1>3, <1>4, <1>6, <1>8 DEF Spares
  <2> QED
    BY <1>4, <1>12, <2>1, <2>2, <2>3, MineKept
<1>14. SharedSoFar(p)' /\ ZeroedSoFar(p)'
  BY <1>6 DEF SharedSoFar, ZeroedSoFar
<1>15. /\ \A q \in Proc \ {p, x} : /\ proc'[q].state = proc[q].state /\ proc'[q].sz = proc[q].sz
                                   /\ proc'[q].pgdir = proc[q].pgdir
       /\ \A d \in Dir \ {D}, v \in VPage : pt'[d][v].pg = pt[d][v].pg
  BY <1>3, <1>11
<1> HIDE DEF Running
<1> QED
  BY <1>4, <1>5, <1>8, <1>10, <1>13, <1>14, <1>15, QuietStep

LEMMA UndoReads ==
    ASSUME CowInv, ImageInv, NEW p \in Proc, NEW a \in {"share", "grow", "map"}, Here(p, a), Undo(p),
           UNCHANGED <<content, pt, proc>>
    PROVE  ImageInv' /\ Reads' = Reads
<1>1. /\ \A q \in Proc \ {p} : k'[q] = k[q]
      /\ k'[p].op = k[p].op /\ k'[p].nsz = k[p].nsz /\ k'[p].at = "drop"
  <2>1. PICK b \in BOOLEAN : b = TRUE
    OBVIOUS
  <2>2. PICK u, h : /\ u = UndoFrom(p)
                    /\ h = IF k[p].op = "fork" THEN MaxSz ELSE k[p].hi
    OBVIOUS
  <2>3. k' = [k EXCEPT ![p].at = "drop", ![p].bad = b, ![p].v = u,
                       ![p].hi = IF k[p].op = "fork" THEN MaxSz ELSE @]
    BY <2>1, <2>2, Zenon DEF Undo
  <2> QED
    BY <2>3 DEF Here, Call
<1>2. SharedSoFar(p)' /\ ZeroedSoFar(p)' /\ k'[p].at # "remap" /\ a \in Places \ {"remap"}
  BY <1>1 DEF SharedSoFar, ZeroedSoFar, Places, Building
<1> QED
  BY <1>1, <1>2, QuietInner

LEMMA setupkvmReads ==
    ASSUME CowInv, ImageInv, NEW p \in Proc, setupkvm(p)
    PROVE  ImageInv' /\ Reads' = Reads
<1>1. Here(p, "setupkvm") /\ UNCHANGED <<content, pt>> /\ "setupkvm" \in Places \ {"remap"}
  BY PlaceFacts DEF setupkvm, Places, Building
<1>2. k[p].op \in {"fork", "exec"} /\ k[p].v = 0
  BY <1>1 DEF Here, PlaceOK, BoundOK, Call, Dropping, Copying
<1>3. CASE UNCHANGED proc /\ k' = [k EXCEPT ![p].at = IF k[p].op = "fork" THEN "share" ELSE "grow"]
  <2>1. PICK a \in {"share", "grow"} : a = IF k[p].op = "fork" THEN "share" ELSE "grow"
    BY Zenon
  <2>2. /\ \A q \in Proc \ {p} : k'[q] = k[q]
        /\ k'[p].op = k[p].op /\ k'[p].nsz = k[p].nsz /\ k'[p].at = a /\ k'[p].v = 0
    BY <1>1, <1>2, <1>3, <2>1 DEF Here, Call
  <2>3. SharedSoFar(p)' /\ ZeroedSoFar(p)'
    <3>1. \A v \in VPage : ~ (v < 0)
      BY Consts
    <3> QED
      BY <2>2, <3>1 DEF SharedSoFar, ZeroedSoFar
  <2> QED
    BY <1>1, <1>3, <2>2, <2>3, QuietInner
<1>4. CASE /\ IF k[p].op = "fork" THEN nfree' = nfree + 1 /\ proc' = [proc EXCEPT ![k[p].c] = Unused]
              ELSE UNCHANGED <<nfree, proc>>
           /\ Return(p)
  <2>1. PICK x \in Proc \cup {NULL} : x = k[p].c
    BY CallFacts DEF CowInv
  <2>2. /\ k[p].op = "fork" => x # NULL /\ x \in Proc /\ x # p /\ proc[x].state = "EMBRYO"
        /\ k[p].op = "exec" => x = NULL
    <3>1. OwnerOK(p)
      BY <1>1 DEF Here, CtlInv
    <3> QED
      BY <1>1, <2>1, <3>1, BusyFacts, Consts DEF Here, OwnerOK
  <2>3. k[p].op = "fork" => proc'[x] = Unused
    BY <1>4, <2>1, <2>2 DEF CowInv, CowType
  <2>4. x # NULL => x # p /\ ~ Running(x) /\ ~ Running(x)'
    BY <1>2, <2>2, <2>3, UnusedFacts DEF Running
  <2>5. \A q \in Proc \ {x} : proc'[q] = proc[q]
    BY <1>2, <1>4, <2>1, <2>2 DEF CowInv, CowType
  <2>6. k[p].op # "sbrk" /\ content' = content /\ Return(p) /\ \A d \in Dir, v \in VPage : pt'[d][v].pg = pt[d][v].pg
    BY <1>1, <1>2, <1>4
  <2> HIDE DEF Running
  <2> QED
    BY <1>1, <2>4, <2>5, <2>6, QuietReturn
<1> QED
  BY <1>3, <1>4 DEF setupkvm

LEMMA walkpgdirReads ==
    ASSUME CowInv, ImageInv, NEW p \in Proc, walkpgdir(p)
    PROVE  ImageInv' /\ Reads' = Reads
<1>1. PICK a \in {"share", "map"} : Here(p, a)
  BY PlaceFacts DEF walkpgdir
<1>2. UNCHANGED <<content, pt, proc>>
  BY DEF walkpgdir
<1>3. CASE UNCHANGED k
  <2>1. SharedSoFar(p)' /\ ZeroedSoFar(p)'
    BY <1>2, <1>3 DEF ImageInv, SharedSoFar, ZeroedSoFar, UndoFrom
  <2>2. a \in Places \ {"remap"} /\ k'[p].at # "remap"
    BY <1>1, <1>3 DEF Here, Places, Building
  <2> QED
    BY <1>1, <1>2, <1>3, <2>1, <2>2, QuietInner
<1>4. CASE Undo(p)
  BY <1>1, <1>2, <1>4, UndoReads
<1> QED
  BY <1>3, <1>4 DEF walkpgdir

LEMMA ForkStackReads ==
    ASSUME CowInv, ImageInv, NEW p \in Proc, ForkStack(p)
    PROVE  ImageInv' /\ Reads' = Reads
<1>1. Here(p, "kstack") /\ UNCHANGED <<content, pt>> /\ "kstack" \in Places \ {"remap"}
  BY PlaceFacts DEF ForkStack, Places, Building
<1>2. k[p].op = "fork"
  BY <1>1 DEF Here, PlaceOK, Call, Dropping, Copying
<1>3. CASE UNCHANGED proc /\ k' = [k EXCEPT ![p].at = "setupkvm"]
  <2>1. /\ \A q \in Proc \ {p} : k'[q] = k[q]
        /\ k'[p].op = k[p].op /\ k'[p].nsz = k[p].nsz /\ k'[p].at = "setupkvm"
    BY <1>1, <1>3 DEF Here, Call
  <2>2. SharedSoFar(p)' /\ ZeroedSoFar(p)'
    BY <2>1 DEF SharedSoFar, ZeroedSoFar
  <2> QED
    BY <1>1, <1>3, <2>1, <2>2, QuietInner
<1>4. CASE proc' = [proc EXCEPT ![k[p].c] = Unused] /\ Return(p)
  <2>1. PICK x \in Proc \cup {NULL} : x = k[p].c
    BY CallFacts DEF CowInv
  <2>2. x # NULL /\ x \in Proc /\ x # p /\ proc[x].state = "EMBRYO"
    <3>1. OwnerOK(p)
      BY <1>1 DEF Here, CtlInv
    <3> QED
      BY <1>1, <1>2, <2>1, <3>1, BusyFacts, Consts DEF Here, OwnerOK
  <2>3. proc'[x] = Unused /\ \A q \in Proc \ {x} : proc'[q] = proc[q]
    BY <1>4, <2>1, <2>2 DEF CowInv, CowType
  <2>4. x # p /\ ~ Running(x) /\ ~ Running(x)'
    BY <2>2, <2>3, UnusedFacts DEF Running
  <2>5. k[p].op # "sbrk" /\ content' = content /\ \A d \in Dir, v \in VPage : pt'[d][v].pg = pt[d][v].pg
    BY <1>1, <1>2
  <2> HIDE DEF Running
  <2> QED
    BY <1>1, <1>4, <2>3, <2>4, <2>5, QuietReturn
<1> QED
  BY <1>3, <1>4 DEF ForkStack

LEMMA SharePageReads ==
    ASSUME CowInv, ImageInv, NEW p \in Proc, SharePage(p)
    PROVE  ImageInv' /\ Reads' = Reads
<1>1. Here(p, "share") /\ k[p].v < proc[p].sz
  BY PlaceFacts DEF SharePage
<1>2. UNCHANGED <<content, proc>> /\ k' = [k EXCEPT ![p].v = @ + 1]
  BY DEF SharePage
<1>3. PICK D \in Dir, E \in Dir, V \in VPage : D = k[p].d /\ E = proc[p].pgdir /\ V = k[p].v
  BY <1>1, SlotFacts, BelowTop DEF Here
<1>4. k[p].op = "fork" /\ D # E
  BY <1>1, <1>3, BusyFacts DEF Here, PlaceOK, Dropping, Copying
<1>5. PICK e : e = [pg |-> pt[E][V].pg, w |-> FALSE] /\ e.pg = pt[E][V].pg
  <2>1. PICK b \in BOOLEAN : b = FALSE
    OBVIOUS
  <2>2. [pg |-> pt[E][V].pg, w |-> b].pg = pt[E][V].pg
    OBVIOUS
  <2> QED
    BY <2>1, <2>2, Zenon
<1>6. PICK f : f = ReadOnly(pt[E][V]) /\ f.pg = pt[E][V].pg
  <2>1. PICK b \in BOOLEAN : b = FALSE
    OBVIOUS
  <2>2. ReadOnly(pt[E][V]) = [pt[E][V] EXCEPT !.w = b]
    BY <2>1, Zenon DEF ReadOnly
  <2>3. pt[E][V] \in Pte
    BY PtFacts DEF CowInv
  <2>4. ReadOnly(pt[E][V]).pg = pt[E][V].pg
    BY <2>2, <2>3 DEF Pte
  <2> QED
    BY <2>4
<1>7. /\ pt'[D][V].pg = pt[E][V].pg
      /\ \A d \in Dir, v \in VPage : d # D \/ v # V => pt'[d][v].pg = pt[d][v].pg
  <2>1. pt' = [[pt EXCEPT ![D][V] = e] EXCEPT ![E][V] = f]
    <3>1. pt' = [pt EXCEPT ![D][V] = e, ![E][V] = ReadOnly(@)]
      BY <1>3, <1>5 DEF SharePage
    <3> QED
      BY <1>3, <1>4, <1>6, <3>1 DEF CowInv, CowType, PtType
  <2>2. pt'[D][V] = e /\ pt'[E][V] = f
        /\ \A d \in Dir, v \in VPage : v # V \/ d \notin {D, E} => pt'[d][v] = pt[d][v]
    BY <1>4, <2>1 DEF CowInv, CowType, PtType
  <2> QED
    BY <1>5, <1>6, <2>2
<1>8. /\ \A q \in Proc \ {p} : k'[q] = k[q]
      /\ k'[p].op = k[p].op /\ k'[p].nsz = k[p].nsz /\ k'[p].d = D /\ k'[p].at = "share" /\ k'[p].v = V + 1
  BY <1>1, <1>2, <1>3 DEF Here, Call
<1>9. /\ CowType /\ CtlInv /\ MemInv /\ Running(p) /\ Own(p, D) /\ k[p].at # "remap" /\ k'[p].at # "remap"
  BY <1>1, <1>3, <1>8, OwnFacts DEF Here
<1>10. SharedSoFar(p)' /\ ZeroedSoFar(p)'
  <2>1. ASSUME NEW v \in VPage, v < V + 1 PROVE pt'[D][v].pg = pt'[E][v].pg
    <3>1. pt'[E][v].pg = pt[E][v].pg
      BY <1>4, <1>7
    <3>2. v < V \/ v = V
      BY <2>1, Consts
    <3>3. v < V => pt[D][v].pg = pt[E][v].pg
      BY <1>1, <1>3 DEF ImageInv, SharedSoFar, Here
    <3> QED
      BY <1>7, <3>1, <3>2, <3>3
  <2> QED
    BY <1>2, <1>3, <1>8, <2>1 DEF SharedSoFar, ZeroedSoFar
<1>11. Spares(p, NULL, D, V)
  BY <1>2 DEF Spares
<1>12. SameReads(p)
  <2>1. \A v \in VPage : Has(p, v)' <=> Has(p, v)
    BY <1>2, <1>8 DEF Has, Running
  <2>2. ASSUME NEW v \in VPage, Has(p, v)
        PROVE  pt'[proc[p].pgdir][v].pg = pt[proc[p].pgdir][v].pg /\ PageOf(p, v) # NULL
    BY <1>3, <1>4, <1>7, <1>9, <2>2, HasFacts, Consts
  <2> QED
    BY <1>2, <1>9, <2>1, <2>2, MineKept
<1>13. /\ \A q \in Proc \ {p, NULL} : /\ proc'[q].state = proc[q].state /\ proc'[q].sz = proc[q].sz
                                      /\ proc'[q].pgdir = proc[q].pgdir
       /\ \A d \in Dir \ {D}, v \in VPage : pt'[d][v].pg = pt[d][v].pg
       /\ NULL \in Proc \cup {NULL}
  BY <1>2, <1>7
<1> QED
  BY <1>8, <1>9, <1>10, <1>11, <1>12, <1>13, QuietStep

\* A page that kalloc() hands out is read by nobody.
LEMMA FreshSpares ==
    ASSUME CowInv, NEW p \in Proc, NEW pg \in Page, kalloc(pg), NEW x, content' = [content EXCEPT ![pg] = x],
           NEW D, NEW V
    PROVE  /\ Spares(p, pg, D, V) /\ content'[pg] = x
           /\ \A v \in VPage : Has(p, v) => PageOf(p, v) # pg
<1>1. pg \notin used
  BY DEF kalloc
<1>2. content'[pg] = x /\ \A y \in Page : y # pg => content'[y] = content[y]
  BY DEF CowInv, CowType
<1>3. \A d \in Dir, v \in VPage : pt[d][v].pg # NULL /\ ~ Leaves(d, v) => pt[d][v].pg # pg
  BY <1>1 DEF CowInv, MemInv, NoneDangling
<1>4. \A q \in Proc : k[q].m # NULL => k[q].m # pg
  BY <1>1 DEF CowInv, MemInv, NoneDangling
<1>5. \A v \in VPage : Has(p, v) => PageOf(p, v) # pg
  BY <1>1, HasFacts DEF CowInv
<1> QED
  BY <1>2, <1>3, <1>4, <1>5 DEF Spares

LEMMA GrowPageReads ==
    ASSUME CowInv, ImageInv, NEW p \in Proc, GrowPage(p)
    PROVE  ImageInv' /\ Reads' = Reads
<1>1. Here(p, "grow") /\ UNCHANGED <<pt, proc>>
  BY PlaceFacts DEF GrowPage
<1>2. CASE Undo(p) /\ content' = content
  BY <1>1, <1>2, UndoReads
<1>3. ASSUME NEW pg \in Page, kalloc(pg), content' = [content EXCEPT ![pg] = 0],
             k' = [k EXCEPT ![p].m = pg, ![p].at = "map"]
      PROVE  ImageInv' /\ Reads' = Reads
  <2>1. PICK D \in Dir, V \in VPage : D = k[p].d /\ Own(p, D)
    BY <1>1, Consts, OwnFacts DEF Here
  <2>2. /\ Spares(p, pg, D, V) /\ content'[pg] = 0
        /\ \A v \in VPage : Has(p, v) => PageOf(p, v) # pg
        /\ \A y \in Page : y # pg => content'[y] = content[y]
    <3>1. /\ Spares(p, pg, D, V) /\ content'[pg] = 0
          /\ \A v \in VPage : Has(p, v) => PageOf(p, v) # pg
      BY <1>3, FreshSpares
    <3> QED
      BY <3>1 DEF Spares
  <2>3. /\ \A q \in Proc \ {p} : k'[q] = k[q]
        /\ k'[p].op = k[p].op /\ k'[p].nsz = k[p].nsz /\ k'[p].d = D /\ k'[p].at = "map"
        /\ k'[p].v = k[p].v /\ k'[p].m = pg
    BY <1>1, <1>3, <2>1 DEF Here, Call
  <2>4. CowType /\ CtlInv /\ MemInv /\ Running(p) /\ k[p].at # "remap" /\ k'[p].at # "remap"
    BY <1>1, <2>3 DEF Here
  <2>5. SharedSoFar(p)' /\ ZeroedSoFar(p)'
    <3>1. ASSUME NEW v \in VPage, UndoFrom(p) <= v, v < k[p].v PROVE content'[pt[D][v].pg] = 0
      <4>1. content[pt[D][v].pg] = 0
        BY <1>1, <2>1, <3>1 DEF ImageInv, ZeroedSoFar, Here
      <4>2. pt[D][v].pg \in Page /\ pt[D][v].pg # NULL /\ ~ Leaves(D, v)
        BY <1>1, <2>1, <3>1, MadeFacts DEF Here
      <4>3. pt[D][v].pg \in used /\ pg \notin used
        BY <1>3, <4>2 DEF kalloc, CowInv, MemInv, NoneDangling
      <4> QED
        BY <2>2, <4>1, <4>2, <4>3
    <3>2. UndoFrom(p)' = UndoFrom(p)
      BY <1>1, <2>3 DEF UndoFrom
    <3> QED
      BY <1>1, <2>2, <2>3, <3>1, <3>2 DEF SharedSoFar, ZeroedSoFar
  <2>6. SameReads(p)
    <3>1. \A v \in VPage : Has(p, v)' <=> Has(p, v)
      BY <1>1, <2>3 DEF Has, Running
    <3> QED
      BY <1>1, <2>2, <2>4, <3>1, MineKept
  <2>7. /\ \A q \in Proc \ {p, NULL} : /\ proc'[q].state = proc[q].state /\ proc'[q].sz = proc[q].sz
                                       /\ proc'[q].pgdir = proc[q].pgdir
        /\ \A d \in Dir \ {D}, v \in VPage : pt'[d][v].pg = pt[d][v].pg
        /\ NULL \in Proc \cup {NULL}
    BY <1>1
  <2> QED
    BY <2>1, <2>2, <2>3, <2>4, <2>5, <2>6, <2>7, QuietStep
<1> QED
  BY <1>2, <1>3 DEF GrowPage

LEMMA GrowMapReads ==
    ASSUME CowInv, ImageInv, NEW p \in Proc, GrowMap(p)
    PROVE  ImageInv' /\ Reads' = Reads
<1>1. Here(p, "map")
  BY PlaceFacts DEF GrowMap
<1>2. UNCHANGED <<content, proc>> /\ k' = [k EXCEPT ![p].v = @ + 1, ![p].m = NULL, ![p].at = "grow"]
  BY DEF GrowMap
<1>3. PICK D \in Dir, V \in VPage, pg \in Page : D = k[p].d /\ V = k[p].v /\ pg = k[p].m
  BY <1>1, EntryFacts DEF Here
<1>4. /\ pt'[D][V].pg = pg
      /\ \A d \in Dir, v \in VPage : d # D \/ v # V => pt'[d][v].pg = pt[d][v].pg
  <2>1. PICK e \in Pte : e = [pg |-> pg, w |-> TRUE] /\ e.pg = pg
    BY Writable
  <2>2. pt' = [pt EXCEPT ![D][V] = e]
    BY <1>3, <2>1 DEF GrowMap
  <2> QED
    BY <2>1, <2>2 DEF CowInv, CowType, PtType
<1>5. /\ \A q \in Proc \ {p} : k'[q] = k[q]
      /\ k'[p].op = k[p].op /\ k'[p].nsz = k[p].nsz /\ k'[p].d = D /\ k'[p].at = "grow" /\ k'[p].v = V + 1
  BY <1>1, <1>2, <1>3 DEF Here, Call
<1>6. /\ CowType /\ CtlInv /\ MemInv /\ Running(p) /\ Own(p, D) /\ k[p].at # "remap" /\ k'[p].at # "remap"
  BY <1>1, <1>3, <1>5, OwnFacts DEF Here
<1>7. SharedSoFar(p)' /\ ZeroedSoFar(p)'
  <2>1. UndoFrom(p)' = UndoFrom(p)
    BY <1>2, <1>5 DEF UndoFrom
  <2>2. ASSUME NEW v \in VPage, UndoFrom(p) <= v, v < V + 1 PROVE content[pt'[D][v].pg] = 0
    <3>1. v < V \/ v = V
      BY <2>2, Consts
    <3>2. v < V => content[pt[D][v].pg] = 0 /\ pt'[D][v].pg = pt[D][v].pg
      BY <1>1, <1>3, <1>4, <2>2, Consts DEF ImageInv, ZeroedSoFar, Here
    <3>3. content[pg] = 0
      BY <1>1, <1>3 DEF ImageInv, ZeroedSoFar, Here
    <3> QED
      BY <1>4, <3>1, <3>2, <3>3
  <2> QED
    BY <1>2, <1>5, <2>1, <2>2 DEF SharedSoFar, ZeroedSoFar
<1>8. Spares(p, NULL, D, V)
  BY <1>2 DEF Spares
<1>9. SameReads(p)
  <2>1. \A v \in VPage : Has(p, v)' <=> Has(p, v)
    BY <1>2, <1>5 DEF Has, Running
  <2>2. ASSUME NEW v \in VPage, Has(p, v)
        PROVE  PageOf(p, v) # NULL /\ pt'[proc[p].pgdir][v].pg = pt[proc[p].pgdir][v].pg
    <3>1. proc[p].pgdir # D \/ v # V
      BY <1>1, <1>3, <2>2, NotDropped
    <3>2. PageOf(p, v) # NULL /\ proc[p].pgdir \in Dir
      BY <1>6, <2>2, HasFacts, Consts
    <3> QED
      BY <1>4, <3>1, <3>2
  <2> QED
    BY <1>2, <1>6, <2>1, <2>2, MineKept
<1>10. /\ \A q \in Proc \ {p, NULL} : /\ proc'[q].state = proc[q].state /\ proc'[q].sz = proc[q].sz
                                      /\ proc'[q].pgdir = proc[q].pgdir
       /\ \A d \in Dir \ {D}, v \in VPage : pt'[d][v].pg = pt[d][v].pg
       /\ NULL \in Proc \cup {NULL}
  BY <1>2, <1>4
<1> QED
  BY <1>5, <1>6, <1>7, <1>8, <1>9, <1>10, QuietStep

LEMMA ReadsType == CowInv => \A q \in Proc : Reads[q] \in [VPage -> Val \cup {JUNK}]
<1> SUFFICES ASSUME CowInv, NEW q \in Proc PROVE Reads[q] \in [VPage -> Val \cup {JUNK}]
  OBVIOUS
<1>1. ASSUME NEW v \in VPage PROVE Reads[q][v] \in Val \cup {JUNK}
  <2>1. Has(q, v) => content[PageOf(q, v)] \in Val
    BY HasFacts DEF CowInv
  <2> QED
    BY <2>1, ReadsAre
<1>2. Reads[q] = [v \in VPage |-> Reads[q][v]]
  BY DEF Reads
<1> HIDE DEF Reads
<1> QED
  BY <1>1, <1>2

LEMMA ReadsNext ==
    ASSUME NEW q \in Proc, NEW v \in VPage
    PROVE  Reads'[q][v] = IF Has(q, v)' THEN content'[PageOf(q, v)'] ELSE JUNK
  BY DEF Reads, Has, PageOf

LEMMA SameImage ==
    ASSUME NEW q \in Proc, SameReads(q)
    PROVE  Reads'[q] = Reads[q]
<1>1. ASSUME NEW v \in VPage PROVE Reads'[q][v] = Reads[q][v]
  <2>1. (Has(q, v)' <=> Has(q, v)) /\ (Has(q, v) => content'[PageOf(q, v)'] = content[PageOf(q, v)])
    BY DEF SameReads
  <2> QED
    BY <2>1, ReadsAre, ReadsNext
<1>2. /\ Reads'[q] = [v \in VPage |-> Reads'[q][v]]
      /\ Reads[q] = [v \in VPage |-> Reads[q][v]]
  BY DEF Reads
<1> HIDE DEF Reads
<1>3. [v \in VPage |-> Reads'[q][v]] = [v \in VPage |-> Reads[q][v]]
  BY <1>1
<1> QED
  BY <1>2, <1>3

\* A step after which only the reads of p have changed, and to what sbrk(), exec()
\* and exit() may give.
LEMMA ReplaceStep ==
    ASSUME CowInv, CowInv', NEW p \in Proc,
           \A q \in Proc : SharedSoFar(q)' /\ ZeroedSoFar(q)',
           \A q \in Proc \ {p} : SameReads(q),
           \A v \in VPage : Reads'[p][v] \in {Reads[p][v], 0, JUNK}
    PROVE  ImageInv' /\ Private!Next
<1>1. ImageInv'
  BY DEF ImageInv
<1>2. \A q \in Proc \ {p} : Reads'[q] = Reads[q]
  BY SameImage
<1>3. PICK image : image = Reads'[p]
  OBVIOUS
<1>4. image \in [VPage -> Val \cup {JUNK}]
  <2>1. (\A q \in Proc : Reads[q] \in [VPage -> Val \cup {JUNK}])'
    BY ReadsType, PTL
  <2> QED
    BY <1>3, <2>1
<1>5. Reads' = [q \in Proc |-> Reads'[q]] /\ Reads = [q \in Proc |-> Reads[q]]
  BY DEF Reads
<1> HIDE DEF Reads
<1>6. Reads' = [Reads EXCEPT ![p] = image]
  BY <1>2, <1>3, <1>5
<1>7. Private!Resized(Reads[p], image)
  BY <1>3 DEF Private!Resized
<1> QED
  BY <1>1, <1>4, <1>6, <1>7 DEF Private!Next, Private!Image, Private!Replace

\* What others read and make, when p writes no page and touches no entry.
LEMMA OthersAt ==
    ASSUME CowInv, ImageInv, NEW p \in Proc, Running(p), content' = content, UNCHANGED pt,
           \A q \in Proc \ {p} : /\ k'[q] = k[q] /\ proc'[q].state = proc[q].state
                                 /\ proc'[q].sz = proc[q].sz /\ proc'[q].pgdir = proc[q].pgdir
    PROVE  \A q \in Proc \ {p} : SharedSoFar(q)' /\ ZeroedSoFar(q)' /\ SameReads(q)
<1>1. PICK D \in Dir, V \in VPage : Own(p, D)
  BY OwnFacts, Consts DEF CowInv
<1>2. Spares(p, NULL, D, V)
  BY DEF Spares
<1>3. \A d \in Dir \ {D}, v \in VPage : pt'[d][v].pg = pt[d][v].pg
  OBVIOUS
<1> SUFFICES ASSUME NEW q \in Proc \ {p} PROVE SharedSoFar(q)' /\ ZeroedSoFar(q)' /\ SameReads(q)
  OBVIOUS
<1> HIDE DEF Running
<1> QED
  BY <1>1, <1>2, <1>3, OthersKept DEF CowInv

LEMMA GrowEndReads ==
    ASSUME CowInv, CowInv', ImageInv, NEW p \in Proc, GrowEnd(p)
    PROVE  ImageInv' /\ Private!Next
<1>1. Here(p, "grow") /\ k[p].v = k[p].hi /\ UNCHANGED <<content, pt>>
      /\ proc' = [proc EXCEPT ![p].sz = k[p].hi, ![p].pgdir = k[p].d]
  BY PlaceFacts DEF GrowEnd
<1>2. PICK D \in Dir, E \in Dir, n \in 0 .. MaxSz :
        D = k[p].d /\ E = proc[p].pgdir /\ n = k[p].hi /\ n = k[p].v
  BY <1>1, SlotFacts DEF Here
<1>3. /\ \A q \in Proc \ {p} : proc'[q] = proc[q]
      /\ proc'[p].state = proc[p].state /\ proc'[p].sz = n /\ proc'[p].pgdir = D
  BY <1>1, <1>2 DEF CowInv, CowType, Slot
<1>4. k[p].op \in {"exec", "sbrk"} /\ (k[p].op = "sbrk" => D = E)
      /\ (k[p].op = "sbrk" => proc[p].sz < k[p].nsz /\ proc[p].sz <= n)
  BY <1>1, <1>2, BusyFacts DEF Here, PlaceOK, BoundOK, Call, Dropping, Copying
<1>5. /\ \A q \in Proc \ {p} : k'[q] = k[q]
      /\ k'[p].op # "sbrk" /\ k'[p].at \in {"user", "drop"}
  <2>1. CASE k[p].op = "sbrk"
    BY <1>1, <2>1, ReturnFacts, UserFacts DEF GrowEnd, Here
  <2>2. CASE k[p].op = "exec"
    <3>1. k' = [k EXCEPT ![p].at = "drop", ![p].d = E, ![p].v = 0, ![p].hi = MaxSz]
      BY <1>2, <2>2 DEF GrowEnd, Drop
    <3> DEFINE r == [k[p] EXCEPT !.at = "drop", !.d = E, !.v = 0, !.hi = MaxSz]
    <3>2. k' = [k EXCEPT ![p] = r]
      BY <1>1, <3>1 DEF Here
    <3>3. r.at = "drop" /\ r.op = "exec"
      BY <1>1, <2>2 DEF Here, Call
    <3> HIDE DEF r
    <3> QED
      BY <1>1, <3>2, <3>3 DEF Here
  <2> QED
    BY <1>4, <2>1, <2>2
<1>6. SharedSoFar(p)' /\ ZeroedSoFar(p)'
  BY <1>5 DEF SharedSoFar, ZeroedSoFar
<1>7. \A q \in Proc \ {p} : SharedSoFar(q)' /\ ZeroedSoFar(q)' /\ SameReads(q)
  BY <1>1, <1>3, <1>5, OthersAt DEF Here
<1>8. ASSUME NEW v \in VPage PROVE Reads'[p][v] \in {Reads[p][v], 0, JUNK}
  <2>1. Has(p, v)' <=> v < n
    BY <1>1, <1>3, <1>5 DEF Has, Running, Here
  <2>2. PageOf(p, v)' = pt[D][v].pg
    BY <1>1, <1>3, <1>5 DEF PageOf, At
  <2>3. CASE ~ (v < n)
    BY <2>1, <2>3, ReadsNext
  <2>4. CASE v < n /\ UndoFrom(p) <= v
    <3>1. content[pt[D][v].pg] = 0
      BY <1>1, <1>2, <2>4 DEF ImageInv, ZeroedSoFar, Here
    <3> QED
      BY <1>1, <2>1, <2>2, <2>4, <3>1, ReadsNext
  <2>5. CASE v < n /\ ~ (UndoFrom(p) <= v)
    <3>1. k[p].op = "sbrk" /\ v < proc[p].sz
      <4>1. v \in Nat /\ proc[p].sz \in Nat
        BY <1>1, Consts DEF Here
      <4> QED
        BY <2>5, <4>1 DEF UndoFrom
    <3>2. Has(p, v)
      BY <1>1, <1>4, <3>1 DEF Has, Here
    <3>3. PageOf(p, v) = pt[D][v].pg
      BY <1>1, <1>2, <1>4, <3>1 DEF PageOf, At, Here
    <3> QED
      BY <1>1, <2>1, <2>2, <2>5, <3>2, <3>3, ReadsNext, ReadsAre
  <2> QED
    BY <2>3, <2>4, <2>5
<1>9. \A q \in Proc : SharedSoFar(q)' /\ ZeroedSoFar(q)'
  BY <1>6, <1>7
<1> QED
  BY <1>7, <1>8, <1>9, ReplaceStep

LEMMA sbrkReads ==
    ASSUME CowInv, CowInv', ImageInv, NEW p \in Proc, NEW sz \in 1 .. MaxSz, sbrk(p, sz)
    PROVE  ImageInv' /\ Private!Next
<1>1. At(p, "user") /\ UNCHANGED <<content, pt, proc>>
  BY DEF sbrk
<1>2. PICK old \in Nat : old = proc[p].sz
  BY <1>1, UserModeFacts, SlotFacts
<1>3. PICK r : /\ Enter(p, r) /\ r.op = "sbrk" /\ r.at \in {"grow", "drop"} /\ r.nsz = sz
               /\ r.at = "grow" => sz > old /\ r.v = old
  <2>1. CASE sz > old
    <3>1. PICK r : r = [User EXCEPT !.op = "sbrk", !.d = proc[p].pgdir, !.nsz = sz, !.at = "grow", !.v = old, !.hi = sz]
      OBVIOUS
    <3>2. Enter(p, r)
      BY <1>2, <2>1, <3>1 DEF sbrk
    <3>3. r.op = "sbrk" /\ r.at = "grow" /\ r.nsz = sz /\ r.v = old
      BY <3>1, UserFacts DEF Call
    <3> QED
      BY <2>1, <3>2, <3>3
  <2>2. CASE ~ (sz > old)
    <3>1. PICK r : r = [User EXCEPT !.op = "sbrk", !.d = proc[p].pgdir, !.nsz = sz, !.at = "drop", !.v = sz, !.hi = old]
      OBVIOUS
    <3>2. Enter(p, r)
      BY <1>2, <2>2, <3>1 DEF sbrk
    <3>3. r.op = "sbrk" /\ r.at = "drop" /\ r.nsz = sz
      BY <3>1, UserFacts DEF Call
    <3> QED
      BY <3>2, <3>3
  <2> QED
    BY <2>1, <2>2
<1>4. k'[p] = r /\ \A q \in Proc \ {p} : k'[q] = k[q]
  BY <1>3 DEF Enter, CowInv, CowType
<1>5. Running(p) /\ k[p] = User /\ User.op = "none" /\ User.at = "user"
  BY <1>1, UserModeFacts, UserFacts
<1>6. SharedSoFar(p)' /\ ZeroedSoFar(p)'
  <2>1. r.at = "grow" => UndoFrom(p)' = old /\ r.v = old
    BY <1>1, <1>2, <1>3, <1>4 DEF UndoFrom
  <2>2. \A v \in VPage : ~ (old <= v /\ v < old)
    BY Consts
  <2> QED
    BY <1>3, <1>4, <2>1, <2>2 DEF SharedSoFar, ZeroedSoFar
<1>7. \A q \in Proc \ {p} : SharedSoFar(q)' /\ ZeroedSoFar(q)' /\ SameReads(q)
  BY <1>1, <1>4, <1>5, OthersAt
<1>8. ASSUME NEW v \in VPage PROVE Reads'[p][v] \in {Reads[p][v], 0, JUNK}
  <2>1. Has(p, v)' => Has(p, v)
    BY <1>1, <1>5 DEF Has, Running
  <2>2. PageOf(p, v)' = PageOf(p, v)
    BY <1>1, <1>3, <1>4, <1>5 DEF PageOf, At
  <2> QED
    BY <1>1, <2>1, <2>2, ReadsNext, ReadsAre
<1>9. \A q \in Proc : SharedSoFar(q)' /\ ZeroedSoFar(q)'
  BY <1>6, <1>7
<1> QED
  BY <1>7, <1>8, <1>9, ReplaceStep

LEMMA exitReads ==
    ASSUME CowInv, CowInv', ImageInv, NEW p \in Proc, exit(p)
    PROVE  ImageInv' /\ Private!Next
<1>1. At(p, "user") /\ UNCHANGED <<content, pt, k>>
  BY DEF exit
<1>2. /\ \A q \in Proc \ {p} : /\ proc'[q].state = proc[q].state /\ proc'[q].sz = proc[q].sz
                               /\ proc'[q].pgdir = proc[q].pgdir
      /\ proc'[p].state = "ZOMBIE"
  <2>1. \A s \in Slot : /\ [s EXCEPT !.state = "ZOMBIE"].state = "ZOMBIE"
                        /\ [s EXCEPT !.parent = initproc].state = s.state
                        /\ [s EXCEPT !.parent = initproc].sz = s.sz
                        /\ [s EXCEPT !.parent = initproc].pgdir = s.pgdir
    BY DEF Slot
  <2>2. proc' = [q \in Proc |-> IF q = p THEN [proc[p] EXCEPT !.state = "ZOMBIE"]
                                ELSE IF proc[q].parent = p THEN [proc[q] EXCEPT !.parent = initproc]
                                ELSE proc[q]]
    BY DEF exit
  <2>3. \A q \in Proc : proc[q] \in Slot
    BY DEF CowInv, CowType
  <2> HIDE DEF Slot
  <2> QED
    BY <2>1, <2>2, <2>3
<1>3. Running(p) /\ k[p].at = "user" /\ ~ Running(p)'
  BY <1>1, <1>2 DEF At, Running
<1>4. SharedSoFar(p)' /\ ZeroedSoFar(p)'
  BY <1>1, <1>3 DEF SharedSoFar, ZeroedSoFar
<1>5. \A q \in Proc \ {p} : SharedSoFar(q)' /\ ZeroedSoFar(q)' /\ SameReads(q)
  BY <1>1, <1>2, <1>3, OthersAt
<1>6. ASSUME NEW v \in VPage PROVE Reads'[p][v] \in {Reads[p][v], 0, JUNK}
  BY <1>3, ReadsNext DEF Has
<1>7. \A q \in Proc : SharedSoFar(q)' /\ ZeroedSoFar(q)'
  BY <1>4, <1>5
<1> QED
  BY <1>5, <1>6, <1>7, ReplaceStep

\* A call is entered that makes no image yet; x is the slot that fork() takes.
LEMMA EnterReads ==
    ASSUME CowInv, ImageInv, NEW p \in Proc, At(p, "user"), NEW r, Enter(p, r),
           r.op # "sbrk", r.at \notin {"share", "grow", "map", "remap"}, UNCHANGED <<content, pt>>,
           NEW x \in Proc \cup {NULL}, x # NULL => ~ Running(x) /\ ~ Running(x)',
           \A q \in Proc \ {x} : proc'[q] = proc[q]
    PROVE  ImageInv' /\ Reads' = Reads
<1>1. CowType /\ CtlInv /\ MemInv /\ Running(p) /\ k[p] = User /\ k[p].op = "none" /\ k[p].at = "user"
  BY UserModeFacts, UserFacts
<1>2. k'[p] = r /\ \A q \in Proc \ {p} : k'[q] = k[q]
  BY <1>1 DEF Enter, CowType
<1>3. proc'[p] = proc[p]
  BY <1>1, Consts
<1>4. SharedSoFar(p)' /\ ZeroedSoFar(p)'
  BY <1>2 DEF SharedSoFar, ZeroedSoFar
<1>5. \A v \in VPage : Has(p, v)' <=> Has(p, v)
  BY <1>1, <1>2, <1>3 DEF Has, Running
<1>6. /\ k[p].at # "remap" /\ k'[p].at # "remap" /\ proc'[p].pgdir = proc[p].pgdir /\ content' = content
      /\ \A d \in Dir, v \in VPage : pt'[d][v].pg = pt[d][v].pg
      /\ \A q \in Proc \ {p, x} : /\ proc'[q].state = proc[q].state /\ proc'[q].sz = proc[q].sz
                                  /\ proc'[q].pgdir = proc[q].pgdir
  BY <1>1, <1>2, <1>3
<1> HIDE DEF Running
<1> QED
  BY <1>1, <1>2, <1>4, <1>5, <1>6, NothingWritten

LEMMA cow_handlerReads ==
    ASSUME CowInv, ImageInv, NEW p \in Proc, NEW v \in VPage, cow_handler(p, v)
    PROVE  ImageInv' /\ Reads' = Reads
<1>1. PICK cnt : cnt = ref[pt[proc[p].pgdir][v].pg]
  OBVIOUS
<1>2. PICK a \in {"own", "copy"} : a = IF Shared(cnt) THEN "copy" ELSE "own"
  BY Zenon
<1>3. PICK r : r = [User EXCEPT !.op = "cow", !.at = a, !.d = proc[p].pgdir, !.v = v, !.cnt = cnt]
  OBVIOUS
<1>4. Enter(p, r)
  BY <1>1, <1>2, <1>3 DEF cow_handler, Enter
<1>5. r.op = "cow" /\ r.at = a
  BY <1>3, UserFacts DEF Call
<1>6. /\ At(p, "user") /\ UNCHANGED <<content, pt>> /\ NULL \in Proc \cup {NULL}
      /\ \A q \in Proc \ {NULL} : proc'[q] = proc[q]
      /\ r.op # "sbrk" /\ r.at \notin {"share", "grow", "map", "remap"}
  BY <1>5 DEF cow_handler
<1> QED
  BY <1>4, <1>6, EnterReads

LEMMA execReads ==
    ASSUME CowInv, ImageInv, NEW p \in Proc, NEW sz \in 1 .. MaxSz, exec(p, sz)
    PROVE  ImageInv' /\ Reads' = Reads
<1>1. PICK r : r = [User EXCEPT !.op = "exec", !.at = "setupkvm", !.hi = sz, !.d = Other(proc[p].pgdir)]
  OBVIOUS
<1>2. r.op = "exec" /\ r.at = "setupkvm"
  BY <1>1, UserFacts DEF Call
<1>3. /\ At(p, "user") /\ UNCHANGED <<content, pt>> /\ NULL \in Proc \cup {NULL} /\ Enter(p, r)
      /\ \A q \in Proc \ {NULL} : proc'[q] = proc[q]
      /\ r.op # "sbrk" /\ r.at \notin {"share", "grow", "map", "remap"}
  BY <1>1, <1>2 DEF exec
<1> QED
  BY <1>3, EnterReads

LEMMA waitReads ==
    ASSUME CowInv, ImageInv, NEW p \in Proc, NEW c \in Proc, wait(p, c)
    PROVE  ImageInv' /\ Reads' = Reads
<1>1. PICK r : r = [User EXCEPT !.op = "wait", !.at = "drop", !.d = proc[c].pgdir, !.hi = MaxSz, !.c = c]
  OBVIOUS
<1>2. r.op = "wait" /\ r.at = "drop"
  BY <1>1, UserFacts DEF Call
<1>3. /\ At(p, "user") /\ UNCHANGED <<content, pt>> /\ NULL \in Proc \cup {NULL} /\ Enter(p, r)
      /\ \A q \in Proc \ {NULL} : proc'[q] = proc[q]
      /\ r.op # "sbrk" /\ r.at \notin {"share", "grow", "map", "remap"}
  BY <1>1, <1>2 DEF wait
<1> QED
  BY <1>3, EnterReads

LEMMA forkReads ==
    ASSUME CowInv, ImageInv, NEW p \in Proc, NEW c \in Proc, fork(p, c)
    PROVE  ImageInv' /\ Reads' = Reads
<1>1. PICK r : r = [User EXCEPT !.op = "fork", !.at = "kstack", !.c = c, !.d = <<c, 0>>]
  OBVIOUS
<1>2. r.op = "fork" /\ r.at = "kstack"
  BY <1>1, UserFacts DEF Call
<1>3. /\ At(p, "user") /\ UNCHANGED <<content, pt>> /\ Enter(p, r)
      /\ proc[c].state = "UNUSED" /\ proc' = [proc EXCEPT ![c].state = "EMBRYO"]
  BY <1>1 DEF fork
<1>4. proc'[c].state = "EMBRYO" /\ \A q \in Proc \ {c} : proc'[q] = proc[q]
  BY <1>3 DEF CowInv, CowType, Slot
<1>5. ~ Running(c) /\ ~ Running(c)'
  BY <1>3, <1>4 DEF Running
<1>6. c \in Proc \cup {NULL} /\ r.op # "sbrk" /\ r.at \notin {"share", "grow", "map", "remap"}
  BY <1>2
<1> HIDE DEF Running
<1> QED
  BY <1>3, <1>4, <1>5, <1>6, EnterReads

LEMMA CowOwnReads ==
    ASSUME CowInv, ImageInv, NEW p \in Proc, CowOwn(p)
    PROVE  ImageInv' /\ Reads' = Reads
<1>1. Here(p, "own") /\ Return(p) /\ UNCHANGED <<content, proc>>
  BY PlaceFacts DEF CowOwn
<1>2. PICK D \in Dir, V \in VPage : D = k[p].d /\ V = k[p].v
  BY <1>1, EntryFacts DEF Here
<1>3. \A d \in Dir, v \in VPage : pt'[d][v].pg = pt[d][v].pg
  <2>1. PICK b \in BOOLEAN : b = TRUE
    OBVIOUS
  <2>2. CASE pt' = [pt EXCEPT ![D][V].w = TRUE]
    <3>1. pt' = [pt EXCEPT ![D][V].w = b]
      BY <2>1, <2>2, Zenon
    <3>2. \A d \in Dir, v \in VPage : pt[d][v] \in Pte
      BY PtFacts DEF CowInv
    <3> QED
      BY <3>1, <3>2 DEF CowInv, CowType, PtType, Pte
  <2>3. CASE pt' = pt
    BY <2>3
  <2> QED
    BY <1>2, <2>2, <2>3 DEF CowOwn
<1>4. k[p].op # "sbrk" /\ "own" \in Places \ {"remap"}
  BY <1>1 DEF Here, PlaceOK, Dropping, Places, Copying
<1>5. content' = content /\ NULL \in Proc \cup {NULL} /\ \A q \in Proc \ {NULL} : proc'[q] = proc[q]
  BY <1>1
<1> QED
  BY <1>1, <1>3, <1>4, <1>5, QuietReturn

LEMMA CowCopyReads ==
    ASSUME CowInv, ImageInv, NEW p \in Proc, CowCopy(p)
    PROVE  ImageInv' /\ Reads' = Reads
<1>1. Here(p, "copy") /\ UNCHANGED <<pt, proc>>
  BY PlaceFacts DEF CowCopy
<1>2. CASE Return(p) /\ content' = content
  <2>1. k[p].op # "sbrk" /\ "copy" \in Places \ {"remap"}
    BY <1>1 DEF Here, PlaceOK, Dropping, Places, Copying
  <2>2. NULL \in Proc \cup {NULL} /\ \A q \in Proc \ {NULL} : proc'[q] = proc[q]
    BY <1>1
  <2>3. \A d \in Dir, v \in VPage : pt'[d][v].pg = pt[d][v].pg
    BY <1>1
  <2> QED
    BY <1>1, <1>2, <2>1, <2>2, <2>3, QuietReturn
<1>3. ASSUME NEW pg \in Page, kalloc(pg),
             content' = [content EXCEPT ![pg] = content[pt[k[p].d][k[p].v].pg]],
             k' = [k EXCEPT ![p].m = pg, ![p].at = "leave"]
      PROVE  ImageInv' /\ Reads' = Reads
  <2>1. PICK D \in Dir, V \in VPage : D = k[p].d /\ Own(p, D)
    BY <1>1, Consts, OwnFacts DEF Here
  <2>2. PICK x : x = content[pt[k[p].d][k[p].v].pg]
    OBVIOUS
  <2>3. content' = [content EXCEPT ![pg] = x]
    BY <1>3, <2>2
  <2>4. /\ Spares(p, pg, D, V)
        /\ \A v \in VPage : Has(p, v) => PageOf(p, v) # pg
        /\ \A y \in Page : y # pg => content'[y] = content[y]
    <3>1. /\ Spares(p, pg, D, V)
          /\ \A v \in VPage : Has(p, v) => PageOf(p, v) # pg
      BY <1>3, <2>3, FreshSpares
    <3> QED
      BY <3>1 DEF Spares
  <2>5. /\ \A q \in Proc \ {p} : k'[q] = k[q]
        /\ k'[p].op = k[p].op /\ k'[p].nsz = k[p].nsz /\ k'[p].at = "leave"
    BY <1>1, <1>3 DEF Here, Call
  <2>6. CowType /\ CtlInv /\ MemInv /\ Running(p) /\ k[p].at # "remap" /\ k'[p].at # "remap"
    BY <1>1, <2>5 DEF Here
  <2>7. SharedSoFar(p)' /\ ZeroedSoFar(p)'
    BY <2>5 DEF SharedSoFar, ZeroedSoFar
  <2>8. SameReads(p)
    <3>1. \A v \in VPage : Has(p, v)' <=> Has(p, v)
      BY <1>1, <2>5 DEF Has, Running
    <3> QED
      BY <1>1, <2>4, <2>6, <3>1, MineKept
  <2>9. /\ \A q \in Proc \ {p, NULL} : /\ proc'[q].state = proc[q].state /\ proc'[q].sz = proc[q].sz
                                       /\ proc'[q].pgdir = proc[q].pgdir
        /\ \A d \in Dir \ {D}, v \in VPage : pt'[d][v].pg = pt[d][v].pg
        /\ NULL \in Proc \cup {NULL}
    BY <1>1
  <2> QED
    BY <2>1, <2>4, <2>5, <2>6, <2>7, <2>8, <2>9, QuietStep
<1> QED
  BY <1>2, <1>3 DEF CowCopy

\* The entry of the faulting page is cleared, or comes to map the copy: p goes on
\* reading what it read.
LEMMA CopyReads ==
    ASSUME CowInv, ImageInv, NEW p \in Proc, NEW a \in {"leave", "remap"}, Here(p, a),
           UNCHANGED <<content, proc>>, \A q \in Proc \ {p} : k'[q] = k[q],
           NEW D, D = k[p].d, NEW V \in VPage, V = k[p].v, NEW m, m = k[p].m,
           k'[p].op # "sbrk", k'[p].at \in {"user", "remap"},
           k'[p].at = "remap" => a = "leave" /\ k'[p].v = V /\ k'[p].m = m,
           k'[p].at = "user" => a = "remap" /\ pt'[D][V].pg = m,
           \A d \in Dir, v \in VPage : d # D \/ v # V => pt'[d][v].pg = pt[d][v].pg
    PROVE  ImageInv' /\ Reads' = Reads
<1>1. CowType /\ CtlInv /\ MemInv /\ Running(p) /\ Busy(p) /\ k[p].at = a /\ k[p].op = "cow"
  BY DEF Here, PlaceOK, Building, Dropping, Call
<1>2. D \in Dir /\ Own(p, D) /\ D = proc[p].pgdir
  BY <1>1, OwnFacts, BusyFacts
<1>3. Spares(p, NULL, D, V)
  BY DEF Spares
<1>4. SharedSoFar(p)' /\ ZeroedSoFar(p)'
  BY DEF SharedSoFar, ZeroedSoFar
<1>5. SameReads(p)
  <2>1. \A v \in VPage : Has(p, v)' <=> Has(p, v)
    BY <1>1 DEF Has, Running
  <2>2. ASSUME NEW v \in VPage, v # V PROVE PageOf(p, v)' = PageOf(p, v)
    BY <1>1, <1>2, <2>2 DEF PageOf, At
  <2>3. content[PageOf(p, V)'] = content[PageOf(p, V)]
    <3>1. PageOf(p, V)' = m
      BY <1>1, <1>2 DEF PageOf, At, Running
    <3>2. CASE a = "remap"
      BY <1>1, <3>1, <3>2 DEF PageOf, At
    <3>3. CASE a = "leave"
      <4>1. PageOf(p, V) = pt[D][V].pg
        BY <1>1, <1>2, <3>3 DEF PageOf, At
      <4>2. content[m] = content[pt[D][V].pg]
        BY <1>1, <3>3 DEF MemInv, Contents
      <4> QED
        BY <3>1, <4>1, <4>2
    <3> QED
      BY <3>2, <3>3
  <2> QED
    BY <2>1, <2>2, <2>3 DEF SameReads
<1>6. /\ \A q \in Proc \ {p, NULL} : /\ proc'[q].state = proc[q].state /\ proc'[q].sz = proc[q].sz
                                     /\ proc'[q].pgdir = proc[q].pgdir
      /\ \A d \in Dir \ {D}, v \in VPage : pt'[d][v].pg = pt[d][v].pg
      /\ NULL \in Proc \cup {NULL}
  OBVIOUS
<1> QED
  BY <1>1, <1>2, <1>3, <1>4, <1>5, <1>6, QuietStep

LEMMA CowLeaveReads ==
    ASSUME CowInv, ImageInv, NEW p \in Proc, CowLeave(p)
    PROVE  ImageInv' /\ Reads' = Reads
<1>1. Here(p, "leave") /\ UNCHANGED <<content, proc>> /\ k' = [k EXCEPT ![p].at = "remap"]
  BY PlaceFacts DEF CowLeave
<1>2. PICK D \in Dir, V \in VPage, m \in Page : D = k[p].d /\ V = k[p].v /\ m = k[p].m
  BY <1>1, EntryFacts DEF Here
<1>3. \A d \in Dir, v \in VPage : d # D \/ v # V => pt'[d][v].pg = pt[d][v].pg
  BY <1>2 DEF CowLeave, CowInv, CowType, PtType
<1>4. k[p].op = "cow"
  BY <1>1 DEF Here, PlaceOK, Building, Dropping, Call
<1>5. /\ \A q \in Proc \ {p} : k'[q] = k[q]
      /\ k'[p].op # "sbrk" /\ k'[p].at = "remap" /\ k'[p].v = V /\ k'[p].m = m
  BY <1>1, <1>2, <1>4 DEF Here, Call
<1> QED
  BY <1>1, <1>2, <1>3, <1>5, CopyReads

LEMMA CowRemapReads ==
    ASSUME CowInv, ImageInv, NEW p \in Proc, CowRemap(p)
    PROVE  ImageInv' /\ Reads' = Reads
<1>1. Here(p, "remap") /\ UNCHANGED <<content, proc>> /\ Return(p)
  BY PlaceFacts DEF CowRemap
<1>2. PICK D \in Dir, V \in VPage, m \in Page : D = k[p].d /\ V = k[p].v /\ m = k[p].m
  BY <1>1, EntryFacts DEF Here
<1>3. /\ pt'[D][V].pg = m
      /\ \A d \in Dir, v \in VPage : d # D \/ v # V => pt'[d][v].pg = pt[d][v].pg
  <2>1. PICK e \in Pte : e = [pg |-> m, w |-> TRUE] /\ e.pg = m
    BY Writable
  <2>2. pt' = [pt EXCEPT ![D][V] = e]
    BY <1>2, <2>1 DEF CowRemap
  <2> QED
    BY <2>1, <2>2 DEF CowInv, CowType, PtType
<1>4. /\ \A q \in Proc \ {p} : k'[q] = k[q]
      /\ k'[p].op # "sbrk" /\ k'[p].at = "user"
  BY <1>1, ReturnFacts, UserFacts DEF Here
<1> QED
  BY <1>1, <1>2, <1>3, <1>4, CopyReads

LEMMA StoreReads ==
    ASSUME CowInv, ImageInv, NEW p \in Proc, NEW v \in VPage, NEW x \in Val, Store(p, v, x)
    PROVE  ImageInv' /\ Private!Next
<1>1. /\ CowType /\ CtlInv /\ MemInv /\ Running(p) /\ ~ Busy(p) /\ k[p] = User /\ v < proc[p].sz
      /\ UNCHANGED <<pt, proc, k>> /\ User.op = "none" /\ User.at = "user"
  BY UserModeFacts, UserFacts DEF Store
<1>2. PICK D \in Dir : D = proc[p].pgdir /\ Own(p, D)
  BY <1>1, OwnFacts
<1>3. PICK pg \in Page : pg = pt[D][v].pg
  BY <1>1, <1>2, ImageFacts, PtFacts
<1>4. pt[D][v].w /\ content' = [content EXCEPT ![pg] = x]
  BY <1>2, <1>3 DEF Store
<1>5. content'[pg] = x /\ \A y \in Page : y # pg => content'[y] = content[y]
  BY <1>1, <1>4 DEF CowType
<1>6. ~ Leaves(D, v) /\ pg # NULL
  BY <1>1, <1>2, NotLeaving, Consts
<1>7. Spares(p, pg, D, v)
  <2>1. \A d \in Dir, y \in VPage :
          pt[d][y].pg # NULL /\ ~ Leaves(d, y) /\ (d # D \/ y # v) => pt[d][y].pg # pg
    BY <1>1, <1>3, <1>4, <1>6 DEF MemInv, WriterAlone
  <2>2. \A q \in Proc : k[q].m # NULL => k[q].m # pg
    BY <1>1, <1>3, <1>6 DEF MemInv, NoneDangling
  <2> QED
    BY <1>5, <2>1, <2>2 DEF Spares
<1>8. \A q \in Proc \ {p} : SharedSoFar(q)' /\ ZeroedSoFar(q)' /\ SameReads(q)
  <2> SUFFICES ASSUME NEW q \in Proc \ {p} PROVE SharedSoFar(q)' /\ ZeroedSoFar(q)' /\ SameReads(q)
    OBVIOUS
  <2>1. /\ k'[q] = k[q] /\ proc'[q].state = proc[q].state /\ proc'[q].sz = proc[q].sz
        /\ proc'[q].pgdir = proc[q].pgdir
        /\ \A d \in Dir \ {D}, y \in VPage : pt'[d][y].pg = pt[d][y].pg
    BY <1>1
  <2> QED
    BY <1>1, <1>2, <1>7, <2>1, OthersKept
<1>9. SharedSoFar(p)' /\ ZeroedSoFar(p)'
  BY <1>1 DEF SharedSoFar, ZeroedSoFar
<1>10. ImageInv'
  BY <1>8, <1>9 DEF ImageInv
<1>11. \A y \in VPage : /\ Has(p, y)' <=> Has(p, y)
                        /\ PageOf(p, y) = pt[D][y].pg /\ PageOf(p, y)' = pt[D][y].pg
  BY <1>1, <1>2 DEF Has, PageOf, At, Running
<1>12. Has(p, v)
  BY <1>1 DEF Has
<1>13. Reads[p][v] \in Val /\ Reads'[p][v] = x
  BY <1>1, <1>3, <1>5, <1>11, <1>12, HasFacts, ReadsAre, ReadsNext
<1>14. ASSUME NEW y \in VPage, y # v PROVE Reads'[p][y] = Reads[p][y]
  <2>1. Has(p, y) => pt[D][y].pg \in Page /\ pt[D][y].pg # pg
    <3>1. Has(p, y) => /\ PageOf(p, y) \in Page /\ k[p].at # "remap"
                       /\ pt[D][y].pg # NULL /\ ~ Leaves(D, y)
      BY <1>1, <1>2, HasFacts
    <3> QED
      BY <1>7, <1>11, <1>14, <3>1 DEF Spares
  <2> QED
    BY <1>5, <1>11, <2>1, ReadsAre, ReadsNext
<1>15. \A q \in Proc \ {p} : Reads'[q] = Reads[q]
  BY <1>8, SameImage
<1>16. /\ Reads' = [q \in Proc |-> Reads'[q]] /\ Reads'[p] = [y \in VPage |-> Reads'[p][y]]
       /\ Reads = [q \in Proc |-> Reads[q]] /\ Reads[p] = [y \in VPage |-> Reads[p][y]]
  BY DEF Reads
<1> HIDE DEF Reads
<1>17. Reads'[p] = [Reads[p] EXCEPT ![v] = x]
  BY <1>13, <1>14, <1>16
<1>18. Reads' = [Reads EXCEPT ![p] = [Reads[p] EXCEPT ![v] = x]]
  BY <1>15, <1>16, <1>17
<1>19. Private!Store(p, v, x)
  BY <1>13, <1>18 DEF Private!Store
<1> QED
  BY <1>10, <1>19 DEF Private!Next

LEMMA ForkDoneReads ==
    ASSUME CowInv, ImageInv, NEW p \in Proc, ForkDone(p)
    PROVE  ImageInv' /\ Private!Next
<1>1. Here(p, "share") /\ k[p].v = proc[p].sz /\ UNCHANGED <<content, pt>> /\ Return(p)
  BY PlaceFacts DEF ForkDone
<1>2. k[p].op = "fork"
  BY <1>1 DEF Here, PlaceOK, Call, Dropping, Copying
<1>3. PICK c \in Proc, D \in Dir, E \in Dir, n \in Nat :
        c = k[p].c /\ D = k[p].d /\ E = proc[p].pgdir /\ n = proc[p].sz
  BY <1>1, <1>2, SlotFacts DEF Here, CtlInv, OwnerOK
<1>4. c # p /\ proc[c].state = "EMBRYO"
  BY <1>1, <1>2, <1>3, BusyFacts, Consts DEF Here, CtlInv, OwnerOK
<1>5. /\ \A q \in Proc \ {c} : proc'[q] = proc[q]
      /\ proc'[c].state = "RUNNABLE" /\ proc'[c].sz = n /\ proc'[c].pgdir = D
  <2>1. PICK s : s = [state |-> "RUNNABLE", parent |-> p, sz |-> n, pgdir |-> D]
    OBVIOUS
  <2>2. s.state = "RUNNABLE" /\ s.sz = n /\ s.pgdir = D
    BY <2>1
  <2>3. proc' = [proc EXCEPT ![c] = s]
    BY <1>3, <2>1 DEF ForkDone
  <2> QED
    BY <2>2, <2>3 DEF CowInv, CowType
<1>6. k'[p] = User /\ User.op = "none" /\ User.at = "user" /\ \A q \in Proc \ {p} : k'[q] = k[q]
  BY <1>1, ReturnFacts, UserFacts DEF Here
<1>7. CowType /\ CtlInv /\ MemInv /\ Running(p) /\ ~ Running(c) /\ Running(c)' /\ Running(p)'
  BY <1>1, <1>4, <1>5 DEF Here, Running
<1>8. k'[c] = User
  <2>1. ~ Busy(c)
    BY <1>7, BusyFacts
  <2> QED
    BY <1>4, <1>6, <1>7, <2>1 DEF Busy, CtlInv, PlaceOK
<1>9. \A q \in Proc \ {p, c} : SharedSoFar(q)' /\ ZeroedSoFar(q)' /\ SameReads(q)
  <2> SUFFICES ASSUME NEW q \in Proc \ {p, c} PROVE SharedSoFar(q)' /\ ZeroedSoFar(q)' /\ SameReads(q)
    OBVIOUS
  <2>1. PICK V \in VPage : Own(p, E) /\ Spares(p, NULL, E, V)
    BY <1>1, <1>3, <1>7, OwnFacts, Consts DEF Spares
  <2>2. /\ k'[q] = k[q] /\ proc'[q].state = proc[q].state /\ proc'[q].sz = proc[q].sz
        /\ proc'[q].pgdir = proc[q].pgdir
        /\ \A d \in Dir \ {E}, y \in VPage : pt'[d][y].pg = pt[d][y].pg
    BY <1>1, <1>5, <1>6
  <2> QED
    BY <1>7, <2>1, <2>2, OthersKept
<1>10. ImageInv'
  BY <1>6, <1>8, <1>9 DEF ImageInv, SharedSoFar, ZeroedSoFar
<1>11. ASSUME NEW v \in VPage
       PROVE  /\ Reads[c][v] = JUNK
              /\ Reads'[p][v] = Reads[p][v] /\ Reads'[c][v] = Reads[p][v]
  <2>1. ~ Has(c, v) /\ (Has(p, v) <=> v < n)
    BY <1>2, <1>3, <1>7 DEF Has
  <2>2. (Has(p, v)' <=> v < n) /\ (Has(c, v)' <=> v < n)
    BY <1>3, <1>4, <1>5, <1>6, <1>7, <1>8 DEF Has
  <2>3. PageOf(p, v) = pt[E][v].pg
    BY <1>1, <1>3 DEF PageOf, At, Here
  <2>4. PageOf(p, v)' = pt[E][v].pg /\ PageOf(c, v)' = pt[D][v].pg
    BY <1>1, <1>3, <1>4, <1>5, <1>6, <1>8 DEF PageOf, At
  <2>5. v < n => pt[D][v].pg = pt[E][v].pg
    BY <1>1, <1>3 DEF ImageInv, SharedSoFar, Here
  <2> QED
    BY <1>1, <2>1, <2>2, <2>3, <2>4, <2>5, ReadsAre, ReadsNext
<1>12. \A q \in Proc \ {p, c} : Reads'[q] = Reads[q]
  BY <1>9, SameImage
<1>13. /\ Reads' = [q \in Proc |-> Reads'[q]] /\ Reads = [q \in Proc |-> Reads[q]]
       /\ Reads'[p] = [v \in VPage |-> Reads'[p][v]] /\ Reads'[c] = [v \in VPage |-> Reads'[c][v]]
       /\ Reads[p] = [v \in VPage |-> Reads[p][v]] /\ Reads[c] = [v \in VPage |-> Reads[c][v]]
  BY DEF Reads
<1> HIDE DEF Reads
<1>14. Reads'[p] = Reads[p] /\ Reads'[c] = Reads[p]
  BY <1>11, <1>13
<1>15. Reads[c] = Private!NoImage
  BY <1>11, <1>13 DEF Private!NoImage
<1>16. Reads' = [Reads EXCEPT ![c] = Reads[p]]
  BY <1>12, <1>13, <1>14
<1>17. Private!Fork(p, c)
  BY <1>4, <1>15, <1>16 DEF Private!Fork
<1> QED
  BY <1>10, <1>17 DEF Private!Next

LEMMA NextReads == CowInv /\ CowInv' /\ ImageInv /\ [Next]_vars => ImageInv' /\ [Private!Next]_Reads
<1> SUFFICES ASSUME CowInv, CowInv', ImageInv, [Next]_vars
             PROVE  ImageInv' /\ (Private!Next \/ Reads' = Reads)
  OBVIOUS
<1> DEFINE Done == ImageInv' /\ (Private!Next \/ Reads' = Reads)
<1>1. ASSUME NEW p \in Proc, Deallocuvm(p) PROVE Done
  BY <1>1, DropLookReads, DropFreeReads, DropDecrReads, DropEndReads DEF Deallocuvm
<1>2. ASSUME NEW p \in Proc, Allocuvm(p) PROVE Done
  BY <1>2, setupkvmReads, walkpgdirReads, GrowPageReads, GrowMapReads, GrowEndReads DEF Allocuvm
<1>3. ASSUME NEW p \in Proc, Fork(p) PROVE Done
  BY <1>3, ForkStackReads, SharePageReads, ForkDoneReads DEF Fork
<1>4. ASSUME NEW p \in Proc, CowHandler(p) PROVE Done
  BY <1>4, CowOwnReads, CowCopyReads, CowLeaveReads, CowRemapReads DEF CowHandler
<1>5. ASSUME NEW p \in Proc, UserStep(p) PROVE Done
  <2>1. ASSUME NEW v \in VPage, cow_handler(p, v) \/ \E x \in Val : Store(p, v, x) PROVE Done
    BY <2>1, cow_handlerReads, StoreReads
  <2>2. ASSUME NEW c \in Proc, fork(p, c) \/ wait(p, c) PROVE Done
    BY <2>2, forkReads, waitReads
  <2>3. ASSUME NEW sz \in 1 .. MaxSz, sbrk(p, sz) \/ exec(p, sz) PROVE Done
    BY <2>3, sbrkReads, execReads
  <2>4. CASE exit(p)
    BY <2>4, exitReads
  <2> HIDE DEF Done
  <2> QED
    BY <1>5, <2>1, <2>2, <2>3, <2>4 DEF UserStep
<1>6. ASSUME UNCHANGED memory PROVE Done
  BY <1>6 DEF memory, ImageInv, SharedSoFar, ZeroedSoFar, UndoFrom, Reads, Running, At
<1>7. ASSUME NEW p \in Proc, KallocHead(p) PROVE Done
  BY <1>6, <1>7 DEF KallocHead
<1>8. ASSUME UNCHANGED vars PROVE Done
  BY <1>6, <1>8 DEF vars, memory
<1> HIDE DEF Done
<1>9. Done
  BY <1>1, <1>2, <1>3, <1>4, <1>5, <1>7, <1>8 DEF Next, Step
<1> QED
  BY <1>9 DEF Done

LEMMA InitReads == Init => ImageInv /\ Private!Init
<1> SUFFICES ASSUME Init PROVE ImageInv /\ Private!Init
  OBVIOUS
<1>1. \A p \in Proc : k[p].at = "user"
  BY UserFacts DEF Init
<1>2. ImageInv
  BY <1>1 DEF ImageInv, SharedSoFar, ZeroedSoFar
<1>3. \A q \in Proc : Reads[q] \in [VPage -> Val \cup {JUNK}]
  BY InitHolds, ReadsType
<1>4. Reads = [q \in Proc |-> Reads[q]]
  BY DEF Reads
<1> HIDE DEF Reads
<1>5. Private!Init
  BY <1>3, <1>4 DEF Private!Init, Private!Image
<1> QED
  BY <1>2, <1>5

\* Copy-on-write implements private memory up to the first race for the free list:
\* however fork(), exec(), sbrk(), exit() and page faults of different processes
\* interleave before it, a process reads what it has stored, and a child what its
\* parent held at fork().
THEOREM IsolationHolds == Spec => Private!Spec
<1>1. Init => ImageInv /\ Private!Init
  BY InitReads
<1>2. CowInv /\ CowInv' /\ ImageInv /\ [Next]_vars => ImageInv' /\ [Private!Next]_Reads
  BY NextReads
<1> QED
  BY <1>1, <1>2, InvariantHolds, PTL DEF Spec, Private!Spec
==============================================================================
