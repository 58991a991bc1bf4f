---------------------------------- MODULE Console ------------------------------
(***************************************************************************)
(* The input of the console (console.c): the ring that consoleintr() fills *)
(* and consoleread() empties.                                              *)
(*                                                                         *)
(* input.r, input.w and input.e are uints that count on and wrap around.   *)
(* A step is a character of consoleintr() or a turn of the loop of         *)
(* consoleread(), which holds cons.lock from one sleep to the next.        *)
(***************************************************************************)
EXTENDS Naturals, Sequences

CONSTANTS Reader,
          INPUT_BUF,
          UintMod,      \* the range of a uint
          Char,         \* what can be typed, Newline, Eof (^D), Erase (^H), Kill (^U) included
          Newline, Eof, Erase, Kill,
          ReadSize,     \* how much read() is called for
          MaxTyped      \* bound: characters of a behaviour

NoOne == 0

VARIABLES ring, r, w, e,
          lock,         \* who has cons.lock between two steps
          rd,           \* a reader: at, bytes wanted and still missing
          typed

conVars == <<ring, r, w, e, lock, rd, typed>>

Plus(a, n) == (a + n) % UintMod
Minus(a, b) == (a + UintMod - b) % UintMod

Idle == [at |-> "idle", target |-> 0, n |-> 0, killed |-> FALSE]

\* The counters start close to where they wrap around.
Init ==
    /\ ring = [k \in 0 .. INPUT_BUF - 1 |-> Newline]
    /\ r = UintMod - INPUT_BUF /\ w = r /\ e = r
    /\ lock = NoOne /\ rd = [p \in Reader |-> Idle] /\ typed = 0

--------------------------------------------------------------------------------
(* consoleintr().                                                          *)

\* Mutant: a line ends at a newline only.
CommitsAtNewline(c) == c \in {Newline, Eof}

\* Whether the line ends with c.
Commits(c) == c \in {Newline, Eof} \/ Plus(e, 1) = Plus(r, INPUT_BUF)

\* ^U: the edit index of the beginning of the line; no newline is between w and e.
KillLine == CHOOSE x \in {Minus(e, n) : n \in 0 .. Minus(e, w)} :
    /\ x = w \/ ring[Minus(x, 1) % INPUT_BUF] = Newline
    /\ \A n \in 0 .. Minus(e, x) : Minus(e, n) = x \/ ring[Minus(e, n + 1) % INPUT_BUF] # Newline

Wakened == [p \in Reader |-> IF rd[p].at = "sleep" THEN [rd[p] EXCEPT !.at = "loop"] ELSE rd[p]]

consoleintr ==
    /\ lock = NoOne /\ typed < MaxTyped /\ typed' = typed + 1
    /\ \E c \in Char :
        \/ /\ c = Kill /\ e' = KillLine /\ UNCHANGED <<ring, w, rd>>
        \/ /\ c = Erase /\ e' = (IF e # w THEN Minus(e, 1) ELSE e) /\ UNCHANGED <<ring, w, rd>>
        \/ /\ c \notin {Kill, Erase} /\ Minus(e, r) < INPUT_BUF
           /\ ring' = [ring EXCEPT ![e % INPUT_BUF] = c]
           /\ e' = Plus(e, 1)
           /\ IF Commits(c) THEN w' = e' /\ rd' = Wakened ELSE UNCHANGED <<w, rd>>
        \/ /\ c \notin {Kill, Erase} /\ Minus(e, r) >= INPUT_BUF
           /\ UNCHANGED <<ring, e, w, rd>>
    /\ UNCHANGED <<r, lock>>

--------------------------------------------------------------------------------
(* consoleread().                                                          *)

consoleread(p) ==
    /\ rd[p].at = "idle" /\ lock = NoOne
    /\ \E n \in ReadSize : rd' = [rd EXCEPT ![p] = [@ EXCEPT !.at = "loop", !.target = n, !.n = n]]
    /\ UNCHANGED <<ring, r, w, e, lock, typed>>

Returns(p) == rd' = [rd EXCEPT ![p] = Idle] /\ lock' = NoOne

\* The inner loop: nothing to read.
Wait(p) ==
    /\ rd[p].at = "loop" /\ lock \in {NoOne, p} /\ rd[p].n > 0 /\ r = w
    /\ IF rd[p].killed THEN Returns(p)
       ELSE rd' = [rd EXCEPT ![p].at = "sleep"] /\ lock' = NoOne
    /\ UNCHANGED <<ring, r, w, e, typed>>

\* "Save ^D for next time".
EofStays(p) == rd[p].n < rd[p].target

\* A byte is taken; ^D and newline end the call, and so does the last byte.
Take(p) ==
    /\ rd[p].at = "loop" /\ lock \in {NoOne, p} /\ rd[p].n > 0 /\ r # w
    /\ LET c == ring[r % INPUT_BUF] IN
        /\ r' = IF c = Eof /\ EofStays(p) THEN r ELSE Plus(r, 1)
        /\ IF c \in {Eof, Newline} \/ rd[p].n = 1 THEN Returns(p)
           ELSE rd' = [rd EXCEPT ![p].n = @ - 1] /\ lock' = p
    /\ UNCHANGED <<ring, w, e, typed>>

kill(p) ==
    /\ rd[p].at \in {"loop", "sleep"} /\ ~rd[p].killed
    /\ rd' = [rd EXCEPT ![p].killed = TRUE, ![p].at = "loop"]
    /\ UNCHANGED <<ring, r, w, e, lock, typed>>

Next ==
    \/ consoleintr
    \/ \E p \in Reader : consoleread(p) \/ Wait(p) \/ Take(p) \/ kill(p)

Spec == Init /\ [][Next]_conVars

--------------------------------------------------------------------------------
(* Properties.                                                             *)

TypeOK ==
    /\ {r, w, e} \subseteq 0 .. UintMod - 1 /\ ring \in [0 .. INPUT_BUF - 1 -> Char]
    /\ lock \in Reader \cup {NoOne}

\* The bytes from counter a up to counter b.
Between(a, b) == [k \in 1 .. Minus(b, a) |-> ring[Plus(a, k - 1) % INPUT_BUF]]

\* The input is a line that is edited and a queue of lines that are read in order, also
\* when the counters wrap around and the ring is full.
A == INSTANCE LineInput WITH Size <- INPUT_BUF, line <- Between(w, e), queue <- Between(r, w)

\* console.c: nobody sleeps while there is a line to read, and a full ring can be read.
LineAwaited ==
    /\ \A p \in Reader : rd[p].at = "sleep" => r = w
    /\ Minus(e, r) = INPUT_BUF => r # w
================================================================================
