-------------------------------- MODULE Channel --------------------------------
(***************************************************************************)
(* What a pipe promises: a bounded first-in first-out queue of bytes       *)
(* between two ends.  Bytes come out in the order they went in, each once; *)
(* nothing enters a pipe whose write end is closed, and a closed end stays *)
(* closed.                                                                 *)
(***************************************************************************)
EXTENDS Naturals, Sequences

CONSTANTS Byte, Capacity

VARIABLES queue, canRead, canWrite

absVars == <<queue, canRead, canWrite>>

Init == queue = <<>> /\ canRead = TRUE /\ canWrite = TRUE

Put(s) == canWrite /\ Len(queue \o s) <= Capacity /\ queue' = queue \o s /\ UNCHANGED <<canRead, canWrite>>

Get(n) == canRead /\ queue' = SubSeq(queue, n + 1, Len(queue)) /\ UNCHANGED <<canRead, canWrite>>

Close == UNCHANGED queue /\ (canRead' => canRead) /\ (canWrite' => canWrite)

Next ==
    \/ \E n \in 1 .. Capacity : \E s \in [1 .. n -> Byte] : Put(s)
    \/ \E n \in 1 .. Len(queue) : Get(n)
    \/ Close

Spec == Init /\ [][Next]_absVars
================================================================================
