---------------------------------- MODULE Pipe ---------------------------------
(***************************************************************************)
(* A pipe (pipe.c) with writers on one end and readers on the other, each  *)
(* a process with a reference to the file of its end (file.c).  A section  *)
(* under p->lock is one step: pipewrite() and piperead() run until they    *)
(* return or sleep.                                                        *)
(***************************************************************************)
EXTENDS Naturals, Sequences, FiniteSets

CONSTANTS Writer, Reader,   \* processes that hold the write end, the read end
          PIPESIZE,
          UintMod,          \* 2^32 for the counters of the code
          Input, ReadSize,  \* what a writer may write; how much a reader may ask for
          Byte

Proc == Writer \cup Reader

VARIABLES data, nread, nwrite,      \* the ring and its counters
          readopen, writeopen,
          freed,                    \* how often the page of the pipe was freed
          ref,                      \* processes that have an end open
          at,                       \* where a process is
          todo,                     \* what a writer has still to write; room for what a reader asked
          killed

vars == <<data, nread, nwrite, readopen, writeopen, freed, ref, at, todo, killed>>

\* What a page or a buffer holds at first.
AnyByte == CHOOSE b \in Byte : TRUE

uint(n) == n % UintMod

Full == nwrite = uint(nread + PIPESIZE)
Empty == nread = nwrite

Used == uint(UintMod + nwrite - nread)

SpaceOne == PIPESIZE - Used + 1         \* mutant: one byte more

Space == PIPESIZE - Used

MinOf(a, b) == IF a <= b THEN a ELSE b

\* wakeup() of those that sleep in state s.
Woken(s) == [p \in Proc |-> IF at[p] = s THEN "again" ELSE at[p]]

--------------------------------------------------------------------------------

Busy(p) == at[p] \in {"call", "again"}

\* System calls: a process writes s, or reads up to n bytes.
sys_write(p, s) ==
    /\ p \in Writer \cap ref /\ at[p] = "user" /\ p \notin killed
    /\ at' = [at EXCEPT ![p] = "call"]
    /\ todo' = [todo EXCEPT ![p] = s]
    /\ UNCHANGED <<data, nread, nwrite, readopen, writeopen, freed, ref, killed>>

sys_read(p, n) ==
    /\ p \in Reader \cap ref /\ at[p] = "user" /\ p \notin killed
    /\ at' = [at EXCEPT ![p] = "call"]
    /\ todo' = [todo EXCEPT ![p] = [j \in 1 .. n |-> AnyByte]]
    /\ UNCHANGED <<data, nread, nwrite, readopen, writeopen, freed, ref, killed>>

\* The loop of pipewrite() until the ring is full or all is written.
Stored(p) == MinOf(Len(todo[p]), Space)

Store(p) ==
    LET m == Stored(p) IN
    /\ data' = [x \in 0 .. PIPESIZE - 1 |->
                  LET J == {j \in 1 .. m : uint(nwrite + j - 1) % PIPESIZE = x} IN
                  IF J = {} THEN data[x] ELSE todo[p][CHOOSE j \in J : \A i \in J : i <= j]]
    /\ nwrite' = uint(nwrite + m)

\* All written: the readers are woken.
pipewrite(p) ==
    /\ p \in Writer /\ Busy(p) /\ Stored(p) = Len(todo[p])
    /\ Store(p)
    /\ at' = [Woken("rsleep") EXCEPT ![p] = "user"]
    /\ todo' = [todo EXCEPT ![p] = <<>>]
    /\ UNCHANGED <<nread, readopen, writeopen, freed, ref, killed>>

Hangup(p) == ~ readopen \/ p \in killed

\* Full, and nobody will read, or the caller was killed: an error, with the bytes before stored.
WriteFails(p) ==
    /\ p \in Writer /\ Busy(p) /\ Stored(p) < Len(todo[p]) /\ Hangup(p)
    /\ Store(p)
    /\ at' = [at EXCEPT ![p] = "user"]
    /\ todo' = [todo EXCEPT ![p] = <<>>]
    /\ UNCHANGED <<nread, readopen, writeopen, freed, ref, killed>>

FullWokenNobody(p) == at                \* mutant: a writer goes to sleep without a wakeup

FullWoken(p) == Woken("rsleep")

WriteSleeps(p) ==
    /\ p \in Writer /\ Busy(p) /\ Stored(p) < Len(todo[p]) /\ ~ Hangup(p)
    /\ Store(p)
    /\ at' = [FullWoken(p) EXCEPT ![p] = "wsleep"]
    /\ todo' = [todo EXCEPT ![p] = SubSeq(@, Stored(p) + 1, Len(@))]
    /\ UNCHANGED <<nread, readopen, writeopen, freed, ref, killed>>

ReadSleeps(p) ==
    /\ p \in Reader /\ Busy(p) /\ Empty /\ writeopen /\ p \notin killed
    /\ at' = [at EXCEPT ![p] = "rsleep"]
    /\ UNCHANGED <<data, nread, nwrite, readopen, writeopen, freed, ref, todo, killed>>

ReadFails(p) ==
    /\ p \in Reader /\ Busy(p) /\ Empty /\ writeopen /\ p \in killed
    /\ at' = [at EXCEPT ![p] = "user"]
    /\ todo' = [todo EXCEPT ![p] = <<>>]
    /\ UNCHANGED <<data, nread, nwrite, readopen, writeopen, freed, ref, killed>>

\* The rest of piperead(): 0 bytes at the end of the file.
piperead(p) ==
    /\ p \in Reader /\ Busy(p) /\ ~ (Empty /\ writeopen)
    /\ nread' = uint(nread + MinOf(Len(todo[p]), Used))
    /\ at' = [Woken("wsleep") EXCEPT ![p] = "user"]
    /\ todo' = [todo EXCEPT ![p] = <<>>]
    /\ UNCHANGED <<data, nwrite, readopen, writeopen, freed, ref, killed>>

--------------------------------------------------------------------------------

Wakes(writable) == IF writable THEN "rsleep" ELSE "wsleep"

Frees(r, w) == ~ r /\ ~ w

\* fileclose(): the last reference to an end closes it.
pipeclose(p) ==
    /\ p \in ref /\ at[p] = "user"
    /\ ref' = ref \ {p}
    /\ LET writable == p \in Writer
           last == ref' \cap (IF writable THEN Writer ELSE Reader) = {}
       IN  /\ writeopen' = (writeopen /\ ~ (last /\ writable))
           /\ readopen' = (readopen /\ ~ (last /\ ~ writable))
           /\ at' = IF last THEN Woken(Wakes(writable)) ELSE at
           /\ freed' = IF last /\ Frees(readopen', writeopen') THEN freed + 1 ELSE freed
    /\ UNCHANGED <<data, nread, nwrite, todo, killed>>

kill(p) ==
    /\ p \in ref \ killed
    /\ killed' = killed \cup {p}
    /\ at' = [at EXCEPT ![p] = IF @ \in {"rsleep", "wsleep"} THEN "again" ELSE @]
    /\ UNCHANGED <<data, nread, nwrite, readopen, writeopen, freed, ref, todo>>

Init ==
    /\ data = [x \in 0 .. PIPESIZE - 1 |-> AnyByte]
    /\ nread = 0 /\ nwrite = 0
    /\ readopen = TRUE /\ writeopen = TRUE /\ freed = 0
    /\ ref = Proc
    /\ at = [p \in Proc |-> "user"]
    /\ todo = [p \in Proc |-> <<>>]
    /\ killed = {}

Run(p) == pipewrite(p) \/ WriteFails(p) \/ WriteSleeps(p) \/ ReadSleeps(p) \/ ReadFails(p) \/ piperead(p)

Next ==
    \/ \E p \in Proc : Run(p) \/ pipeclose(p) \/ kill(p)
    \/ \E p \in Writer, s \in Input : sys_write(p, s)
    \/ \E p \in Reader, n \in ReadSize : sys_read(p, n)

Spec == Init /\ [][Next]_vars

--------------------------------------------------------------------------------
(* Properties *)

TypeOK ==
    /\ data \in [0 .. PIPESIZE - 1 -> Byte]
    /\ nread \in 0 .. UintMod - 1 /\ nwrite \in 0 .. UintMod - 1
    /\ readopen \in BOOLEAN /\ writeopen \in BOOLEAN /\ freed \in 0 .. 1
    /\ ref \subseteq Proc /\ killed \subseteq Proc
    /\ at \in [Proc -> {"user", "call", "again", "rsleep", "wsleep"}]
    /\ \A p \in Proc : todo[p] \in Seq(Byte)

\* No wakeup is lost: a reader sleeps only on an empty pipe that can still be
\* written, a writer only on a full one that can still be read, and neither is killed.
\* The one exception: a killed writer that fills the pipe leaves without a wakeup.
SleepersWait ==
    \A p \in Proc : /\ at[p] = "rsleep" => (Empty \/ killed \cap Writer # {}) /\ writeopen /\ p \notin killed
                    /\ at[p] = "wsleep" => Full /\ readopen /\ p \notin killed

\* The page is freed when both ends are closed, once, and nobody is in a call then.
FreedAtTheEnd ==
    /\ freed = IF ref = {} THEN 1 ELSE 0
    /\ freed = 1 => \A p \in Proc : at[p] = "user"

Queue == [j \in 1 .. Used |-> data[uint(nread + j - 1) % PIPESIZE]]

\* The ring is a first-in first-out queue, also when the counters wrap around.
Fifo == INSTANCE Channel WITH Capacity <- PIPESIZE, queue <- Queue, canRead <- readopen, canWrite <- writeopen
================================================================================
