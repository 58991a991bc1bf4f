-------------------------------- MODULE LineInput ------------------------------
(***************************************************************************)
(* What the console promises about its input: the line that is being typed *)
(* can be edited until it ends; then it is in a queue, from which readers  *)
(* take it in order.  Line and queue together have room for Size bytes.    *)
(***************************************************************************)
EXTENDS Naturals, Sequences

CONSTANTS Char, Newline, Eof, Size

VARIABLES line, queue

absVars == <<line, queue>>

Init == line = <<>> /\ queue = <<>>

Ends(c) == c \in {Newline, Eof} \/ Len(queue) + Len(line) + 1 = Size

Type(c) ==
    /\ Len(queue) + Len(line) < Size
    /\ IF Ends(c) THEN queue' = queue \o Append(line, c) /\ line' = <<>>
       ELSE line' = Append(line, c) /\ queue' = queue

\* The last byte of the line, or the line, is taken back.
Erase == line # <<>> /\ line' \in {<<>>, SubSeq(line, 1, Len(line) - 1)} /\ queue' = queue

Take == queue # <<>> /\ queue' = Tail(queue) /\ line' = line

Next == (\E c \in Char : Type(c)) \/ Erase \/ Take

Spec == Init /\ [][Next]_absVars
================================================================================
