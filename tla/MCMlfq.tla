-------------------------------- MODULE MCMlfq --------------------------------
(***************************************************************************)
(* Mlfq on small machines: short quanta (the code gives 2, 4, 6 and 8      *)
(* ticks), a short boost interval (100 in the code) and a few programs.    *)
(***************************************************************************)
EXTENDS Mlfq

\* One tick in L0, none below: a process moves at every second or every tick.
Slices == [l \in 0 .. 3 |-> IF l = 0 THEN 1 ELSE 0]

\* The first process makes the calls of a parent, all others those of a child.
Programs(parent, child) == [n \in 1 .. MaxPid |-> IF n = 1 THEN parent ELSE child]

\* Three generations on two CPUs: a zombie may be passed on to init.
ForkTree ==
    [n \in 1 .. MaxPid |-> CASE n = 1 -> {"fork", "wait"}
                            [] n = 2 -> {"fork", "exit"}
                            [] n > 2 -> {"exit"}]

\* Test 4 of mlfq_test.c: the parent moves its children to MoQ and starts it.
Monopoly == Programs({"fork", "setmonopoly", "monopolize"}, {"exit"})

\* The other calls, from a parent and one child.
Everything ==
    Programs({"fork", "wait", "kill", "setpriority"}, {"exit", "kill", "sleep", "yield", "unmonopolize"})
===============================================================================
