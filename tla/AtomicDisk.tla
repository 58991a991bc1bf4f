------------------------------ MODULE AtomicDisk ------------------------------
(***************************************************************************)
(* What log.c promises to the file system: a disk whose blocks change all  *)
(* at once, when no file system call is in progress, and which a crash     *)
(* takes back to the last such moment.                                     *)
(***************************************************************************)
CONSTANTS Op, Block, Value

VARIABLES stable,    \* what survives a crash
          view,      \* what a file system call reads
          active     \* the calls between begin_op() and end_op()

absvars == <<stable, view, active>>

AbsInit == stable \in [Block -> Value] /\ view = stable /\ active = {}

Begin(p) == active' = active \cup {p} /\ UNCHANGED <<stable, view>>

Write(p) ==
    /\ p \in active
    /\ \E b \in Block, v \in Value : view' = [view EXCEPT ![b] = v]
    /\ UNCHANGED <<stable, active>>

End(p) == p \in active /\ active' = active \ {p} /\ UNCHANGED <<stable, view>>

Commit == active = {} /\ stable' = view /\ UNCHANGED <<view, active>>

Fall == view' = stable /\ active' = {} /\ UNCHANGED stable

AbsNext == Commit \/ Fall \/ \E p \in Op : Begin(p) \/ Write(p) \/ End(p)

AbsSpec == AbsInit /\ [][AbsNext]_absvars
===============================================================================
