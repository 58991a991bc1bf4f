-------------------------------- MODULE Keyboard -------------------------------
(***************************************************************************)
(* kbd.c, kbd.h: from the bytes of the keyboard to characters.  A key      *)
(* sends its code when it goes down, again while it is held, and the code  *)
(* with 0x80 when it goes up; some send 0xE0 first.  The bytes stand in    *)
(* the controller until kbdgetc() reads them, one at a time.               *)
(***************************************************************************)
EXTENDS Integers, Sequences, FiniteSets

CONSTANTS Key,      \* the keys of the keyboard: [e0, code]
          Buffer    \* bytes that wait in the controller

VARIABLES shift,    \* the flags of kbdgetc()
          fifo,     \* the controller: each byte with the key it is of, and whether it goes down
          char,     \* what the last kbdgetc() has returned
          down,     \* the keys that are held
          held,     \* the keys that are held as far as the bytes have been read
          caps,     \* how often CAPSLOCK has come, modulo 2
          twins,    \* modifiers of which two keys were held at once since none was
          last      \* the last byte, with what it is of

kbdVars == <<shift, fifo, char, down, held, caps, twins, last>>

E0 == 224
Idle == [byte |-> 0, key |-> [e0 |-> FALSE, code |-> 0], down |-> FALSE]

Init ==
    /\ shift = {} /\ fifo = <<>> /\ char = "none"
    /\ down = {} /\ held = {} /\ caps = 0 /\ twins = {} /\ last = Idle

shiftcode(data) == CASE data \in {29, 157} -> {"CTL"} [] data \in {42, 54} -> {"SHIFT"}
                     [] data \in {56, 184} -> {"ALT"} [] OTHER -> {}
togglecode(data) == IF data = 58 THEN {"CAPSLOCK"} ELSE {}

\* The maps, for the keys a, keypad 8 and cursor up.
charcode(flags, data) ==
    CASE data = 30 -> IF "CTL" \in flags THEN "^A" ELSE IF "SHIFT" \in flags THEN "A" ELSE "a"
      [] data = 72 -> IF "CTL" \in flags THEN "none" ELSE "8"
      [] data = 200 -> "UP"
      [] OTHER -> "none"

\* CAPSLOCK swaps the cases.
Swapped(c) == CASE c = "a" -> "A" [] c = "A" -> "a" [] OTHER -> c

\* The bytes of key k.
Bytes(k, goesDown) ==
    LET b(x) == [byte |-> x, key |-> k, down |-> goesDown]
        code == IF goesDown THEN k.code ELSE k.code + 128
    IN  IF k.e0 THEN <<b(E0), b(code)>> ELSE <<b(code)>>

\* A key is pressed, or held so long that it repeats; a key is released.
Press(k) ==
    /\ Len(fifo) + 1 < Buffer
    /\ fifo' = fifo \o Bytes(k, TRUE)
    /\ down' = down \cup {k}
    /\ UNCHANGED <<shift, char, held, caps, twins, last>>

Release(k) ==
    /\ k \in down
    /\ Len(fifo) + 1 < Buffer
    /\ fifo' = fifo \o Bytes(k, FALSE)
    /\ down' = down \ {k}
    /\ UNCHANGED <<shift, char, held, caps, twins, last>>

\* The keys of modifier m.
KeysOf(m) == {k \in Key : m \in shiftcode(IF k.e0 THEN k.code + 128 ELSE k.code)}

\* Mutant: the prefix is not looked at when a key goes up.
ReleasedPlain(data) == data - 128

\* The code of a key that goes up: its own, or with the prefix that of its twin.
Released(data) == IF "E0ESC" \in shift THEN data ELSE data - 128

\* kbdgetc(), with a byte in the controller.
kbdgetc ==
    LET b == Head(fifo)
        data == IF "E0ESC" \in shift THEN b.byte + 128 ELSE b.byte
        pressed == (shift \ {"E0ESC"}) \cup shiftcode(data)
        flags == (pressed \ togglecode(data)) \cup (togglecode(data) \ pressed)
        c == charcode(flags, data)
        now == IF b.byte = E0 THEN held ELSE IF b.down THEN held \cup {b.key} ELSE held \ {b.key}
    IN  /\ fifo # <<>>
        /\ \/ b.byte = E0 /\ shift' = shift \cup {"E0ESC"} /\ char' = "none"
           \/ /\ b.byte # E0 /\ b.byte >= 128
              /\ shift' = shift \ (shiftcode(Released(b.byte)) \cup {"E0ESC"}) /\ char' = "none"
           \/ /\ b.byte < 128
              /\ shift' = flags
              /\ char' = IF "CAPSLOCK" \in flags THEN Swapped(c) ELSE c
        /\ fifo' = Tail(fifo)
        /\ held' = now
        /\ caps' = IF b.byte = 58 THEN 1 - caps ELSE caps
        /\ twins' = {m \in {"CTL", "SHIFT", "ALT"} :
                        LET n == Cardinality(KeysOf(m) \cap now) IN n = 2 \/ (n = 1 /\ m \in twins)}
        /\ last' = b
        /\ UNCHANGED down

Next == (\E k \in Key : Press(k) \/ Release(k)) \/ kbdgetc

Spec == Init /\ [][Next]_kbdVars

--------------------------------------------------------------------------------

TypeOK ==
    /\ shift \subseteq {"CTL", "SHIFT", "ALT", "CAPSLOCK", "E0ESC"}
    /\ Len(fifo) <= Buffer
    /\ down \subseteq Key /\ held \subseteq Key
    /\ caps \in {0, 1} /\ twins \subseteq {"CTL", "SHIFT", "ALT"}

\* The character that key k stands for.
Meant(k) ==
    CASE k.e0 /\ k.code = 72 -> "UP"
      [] k.code = 30 -> IF "CTL" \in shift THEN "^A"
                        ELSE IF ("SHIFT" \in shift) = (caps = 1) THEN "a" ELSE "A"
      [] k.code = 72 /\ "CTL" \notin shift -> "8"
      [] OTHER -> "none"

\* A modifier is on when one of its keys is held and off when none is, unless both of
\* them were held together (then the first release counts); the prefix is remembered for
\* one byte, over interrupts; and a character is the one of its key.
ModifiersRight ==
    /\ \A m \in {"CTL", "SHIFT", "ALT"} :
          /\ m \in shift => KeysOf(m) \cap held # {}
          /\ m \notin shift => KeysOf(m) \cap held = {} \/ m \in twins
    /\ "E0ESC" \in shift <=> last.byte = E0
    /\ "CAPSLOCK" \in shift <=> caps = 1
    /\ last.down /\ last.byte # E0 => char = Meant(last.key)
================================================================================
