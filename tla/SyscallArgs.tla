------------------------------- MODULE SyscallArgs -----------------------------
(***************************************************************************)
(* The arguments of system calls: argint(), argptr(), argstr(), fetchint() *)
(* and fetchstr() of syscall.c, as sys_read(), sys_write(), sys_fstat(),   *)
(* sys_pipe() and sys_exec() of sysfile.c use them.                        *)
(*                                                                         *)
(* Addresses are uints, sizes are ints of the same width.  What the kernel *)
(* finds in the memory of the process is any value.  A step is one fetch.  *)
(* The process has one thread, so that its size does not change meanwhile. *)
(***************************************************************************)
EXTENDS Integers

CONSTANTS UintMod,      \* the range of a uint
          KERNBASE,     \* user memory ends below, see allocuvm()
          Word,         \* bytes of an int: 4
          StatSize,     \* sizeof(struct stat)
          MAXARG

VARIABLES sz, esp,      \* of the process
          sys,          \* the call: at, its argument number arg, n, uargv, i
          touched       \* addresses that the kernel used in the last step

argVars == <<sz, esp, sys, touched>>

Uint == 0 .. UintMod - 1
AsInt(v) == IF v < UintMod \div 2 THEN v ELSE v - UintMod
Plus(a, n) == (a + n) % UintMod

Call(at) == [at |-> at, arg |-> 0, n |-> 0, uargv |-> 0, i |-> 0]

Init == sz \in 0 .. KERNBASE - 1 /\ esp \in Uint /\ sys = Call("user") /\ touched = {}

Goes(call) == sys' = call /\ UNCHANGED <<sz, esp>>
Fails(used) == Goes(Call("user")) /\ touched' = used

\* The system calls: which arguments they fetch first.
syscall ==
    /\ sys.at = "user" /\ touched' = {}
    /\ Goes(Call("rw")) \/ Goes(Call("fstat")) \/ Goes(Call("path"))
       \/ Goes([Call("ptr") EXCEPT !.n = 2 * Word])

\* fetchint(), and the address of argument n.
Fetched(addr) == addr < sz /\ Plus(addr, Word) <= sz
IntAt(addr) == addr .. addr + Word - 1
Arg(n) == Plus(esp, Word + Word * n)

\* fetchstr(): the string has n bytes before its nul.
Str(addr, n) == addr .. addr + n

\* argfd(), of an open file or not.
argfd ==
    /\ sys.at \in {"rw", "fstat"}
    /\ \/ Fails(IF Fetched(Arg(0)) THEN IntAt(Arg(0)) ELSE {})
       \/ /\ Fetched(Arg(0)) /\ touched' = IntAt(Arg(0))
          /\ IF sys.at = "rw" THEN Goes(Call("count"))
             ELSE Goes([Call("ptr") EXCEPT !.arg = 1, !.n = StatSize])

\* The size that read() or write() is called with.
argint ==
    /\ sys.at = "count"
    /\ IF ~Fetched(Arg(2)) THEN Fails({})
       ELSE \E v \in Uint : Goes([Call("ptr") EXCEPT !.arg = 1, !.n = AsInt(v)]) /\ touched' = IntAt(Arg(2))

\* What argptr() refuses.
Refused(p, size) == size < 0 \/ p >= sz \/ Plus(p, size) > sz

argptr ==
    /\ sys.at = "ptr"
    /\ IF ~Fetched(Arg(sys.arg)) THEN Fails({})
       ELSE \E p \in Uint : IF Refused(p, sys.n) THEN Fails(IntAt(Arg(sys.arg)))
                            ELSE Goes([Call("use") EXCEPT !.n = sys.n, !.uargv = p]) /\ touched' = IntAt(Arg(sys.arg))

\* fileread(), filewrite(), filestat() or sys_pipe() use what argptr() has let pass.
Use == sys.at = "use" /\ Fails(sys.uargv .. sys.uargv + sys.n - 1)

\* argstr() of the path of exec(), and the address of argv.
argstr ==
    /\ sys.at = "path"
    /\ IF ~Fetched(Arg(0)) THEN Fails({})
       ELSE \E p \in Uint :
            \/ p >= sz /\ Fails(IntAt(Arg(0)))
            \/ p < sz /\ Fails(p .. sz - 1)
            \/ \E n \in 0 .. sz - 1 - p : Goes(Call("uargv")) /\ touched' = Str(p, n)

UArgv ==
    /\ sys.at = "uargv"
    /\ IF ~Fetched(Arg(1)) THEN Fails({})
       ELSE \E p \in Uint : Goes([Call("argv") EXCEPT !.uargv = p]) /\ touched' = IntAt(Arg(1))

\* A turn of the loop of sys_exec(); a null ends it.
sys_exec ==
    LET addr == Plus(sys.uargv, Word * sys.i) IN
    /\ sys.at = "argv"
    /\ IF sys.i >= MAXARG \/ ~Fetched(addr) THEN Fails({})
       ELSE \/ Goes([sys EXCEPT !.at = "exec"]) /\ touched' = IntAt(addr)
            \/ \E p \in Uint \ {0} :
                \/ p >= sz /\ Fails(IntAt(addr))
                \/ p < sz /\ Fails(p .. sz - 1)
                \/ \E n \in 0 .. sz - 1 - p : Goes([sys EXCEPT !.i = @ + 1]) /\ touched' = Str(p, n)

\* exec() pushes i pointers and the null behind the three words of main()'s frame.
Exec == sys.at = "exec" /\ Fails({})

Next == syscall \/ argfd \/ argint \/ argptr \/ Use \/ argstr \/ UArgv \/ sys_exec \/ Exec

Spec == Init /\ [][Next]_argVars

--------------------------------------------------------------------------------
(* Properties.                                                             *)

TypeOK == sz \in 0 .. KERNBASE - 1 /\ esp \in Uint /\ sys.i \in 0 .. MAXARG /\ sys.n \in -UintMod .. UintMod

\* syscall.c: whatever the stack pointer and the arguments are, the kernel uses addresses of
\* the process only, also where sums wrap around.
WithinProcess == touched \subseteq 0 .. sz - 1

\* sysfile.c, exec.c: the arguments and the null behind them fit argv[], and so ustack[].
ArgvFits == sys.at = "exec" => sys.i < MAXARG
================================================================================
