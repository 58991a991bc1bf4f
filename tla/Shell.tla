--------------------------------- MODULE Shell --------------------------------
(***************************************************************************)
(* The shell and init: sh.c with its parser, init.c, and a program that    *)
(* copies its input to its output (cat.c).  A system call is a step; the   *)
(* calls between two that others can notice are one.                       *)
(*                                                                         *)
(* A line is a sequence of tokens ("a" is a word, "+" is >>), a command a  *)
(* tree.  A pipe is named by the line and the place of its command in the  *)
(* tree, and has no contents: a program gets its input to the end when no  *)
(* one can write to it, and gets rid of its output when somebody reads it. *)
(***************************************************************************)
EXTENDS Integers, Sequences, FiniteSets, SequencesExt

CONSTANTS NPROC,     \* slots of the process table
          NOFILE,    \* open files of a process
          MAXARGS,
          Lines,     \* what is typed
          MaxLines,  \* bound: lines that are typed
          MaxTokens  \* bound: lines that the parser is tried on

VARIABLES job,      \* the processes
          lines,    \* the commands typed so far
          lost      \* a fork() or a pipe() of the shell has failed

shellVars == <<job, lines, lost>>

-------------------------------------------------------------------------------
(* The parser *)

Token == {"a", "|", "&", ";", "(", ")", "<", ">", "+"}

SYNTAX == [type |-> "SYNTAX"]
execcmd(argc) == [type |-> "EXEC", argc |-> argc]
redircmd(c, fd) == IF c = SYNTAX THEN c ELSE [type |-> "REDIR", cmd |-> c, fd |-> fd]
pipecmd(l, r) == IF SYNTAX \in {l, r} THEN SYNTAX ELSE [type |-> "PIPE", left |-> l, right |-> r]
listcmd(l, r) == IF SYNTAX \in {l, r} THEN SYNTAX ELSE [type |-> "LIST", left |-> l, right |-> r]
backcmd(c) == IF c = SYNTAX THEN c ELSE [type |-> "BACK", cmd |-> c]

peek(s, toks) == s # <<>> /\ Head(s) \in toks

\* What a function of the parser returns: a tree, and the tokens that are left.
Parsed(c, s) == [cmd |-> c, rest |-> s]

RECURSIVE parseline(_), parsepipe(_), parseexec(_), parseargs(_, _, _), parseredirs(_, _), Redirected(_, _)

\* The descriptors that the redirections at the start of s are for, after fds.
parseredirs(fds, s) ==
    IF ~peek(s, {"<", ">", "+"}) THEN [fds |-> fds, rest |-> s, ok |-> TRUE]
    ELSE IF ~peek(Tail(s), {"a"}) THEN [fds |-> fds, rest |-> s, ok |-> FALSE]
    ELSE parseredirs(Append(fds, IF Head(s) = "<" THEN 0 ELSE 1), SubSeq(s, 3, Len(s)))

\* The command c with these redirections, the last one outermost.
Redirected(c, fds) == IF fds = <<>> THEN c ELSE redircmd(Redirected(c, Front(fds)), Last(fds))

\* The loop of parseexec().
parseargs(argc, fds, s) ==
    LET word == Tail(s)
        more == parseredirs(fds, word)
    IN  IF s = <<>> \/ peek(s, {"|", ")", "&", ";"}) THEN Parsed(Redirected(execcmd(argc), fds), s)
        ELSE IF Head(s) # "a" \/ argc + 1 >= MAXARGS \/ ~more.ok THEN Parsed(SYNTAX, s)
        ELSE parseargs(argc + 1, more.fds, more.rest)

parseblock(s) ==
    LET line == parseline(Tail(s))
        more == parseredirs(<<>>, Tail(line.rest))
    IN  IF line.cmd = SYNTAX \/ ~peek(line.rest, {")"}) \/ ~more.ok THEN Parsed(SYNTAX, s)
        ELSE Parsed(Redirected(line.cmd, more.fds), more.rest)

parseexec(s) ==
    LET more == parseredirs(<<>>, s)
    IN  IF peek(s, {"("}) THEN parseblock(s)
        ELSE IF ~more.ok THEN Parsed(SYNTAX, s)
        ELSE parseargs(0, more.fds, more.rest)

parsepipe(s) ==
    LET left == parseexec(s)
        right == parsepipe(Tail(left.rest))
    IN  IF left.cmd # SYNTAX /\ peek(left.rest, {"|"})
        THEN Parsed(pipecmd(left.cmd, right.cmd), right.rest)
        ELSE left

\* A command, its &, and after a ; the rest of the line.
parseline(s) ==
    LET RECURSIVE Backs(_)
        Backs(x) == IF peek(x.rest, {"&"}) THEN Backs(Parsed(backcmd(x.cmd), Tail(x.rest))) ELSE x
        left  == parsepipe(s)
        back  == Backs(left)
        right == parseline(Tail(back.rest))
    IN  IF left.cmd = SYNTAX THEN left
        ELSE IF peek(back.rest, {";"}) THEN Parsed(listcmd(back.cmd, right.cmd), right.rest)
        ELSE back

parsecmd(s) == LET line == parseline(s) IN IF line.rest # <<>> THEN SYNTAX ELSE line.cmd

-------------------------------------------------------------------------------
(* Processes *)

Slot == 1 .. NPROC
initproc == 1

\* What a descriptor stands for: closed, the console, a file, an end of a pipe.
Object(kind, n, path) == <<kind, n, path>>
Closed  == Object("closed", 0, <<>>)
Console == Object("console", 0, <<>>)
Standard == [d \in 0 .. NOFILE - 1 |-> IF d < 3 THEN Console ELSE Closed]
NoFiles  == [d \in 0 .. NOFILE - 1 |-> Closed]

Free == [state |-> "UNUSED", parent |-> 0, at |-> "none", n |-> 0, cmd |-> SYNTAX, path |-> <<>>,
         fd |-> NoFiles, p |-> <<0, 0>>, pid |-> 0]

\* init.c has opened the console three times.
Init ==
    /\ job = [q \in Slot |-> IF q = initproc
                             THEN [Free EXCEPT !.state = "RUNNING", !.at = "init_fork", !.fd = Standard]
                             ELSE Free]
    /\ lines = <<>>
    /\ lost = FALSE

\* q executes at.  Without init the kernel has stopped.
At(q, at) == job[q].state = "RUNNING" /\ job[q].at = at /\ job[initproc].state = "RUNNING"

Lowest(S) == CHOOSE x \in S : \A y \in S : x <= y
Unused == {c \in Slot : job[c].state = "UNUSED"}
Children(q) == {c \in Slot : job[c].parent = q}
Zombies(q) == {c \in Children(q) : job[c].state = "ZOMBIE"}

\* exit(): the files are closed, the children left to init.
exit(q) ==
    job' = [c \in Slot |-> IF c = q THEN [Free EXCEPT !.state = "ZOMBIE", !.parent = job[q].parent]
                           ELSE IF job[c].parent = q THEN [job[c] EXCEPT !.parent = initproc]
                           ELSE job[c]]

panic(q) == exit(q) /\ lost' = TRUE

\* fork1(): q goes on as self and its child as child, or the table is full.
fork1(q, self, child) ==
    \/ Unused = {} /\ panic(q)
    \/ /\ Unused # {}
       /\ job' = [job EXCEPT ![q] = [self EXCEPT !.pid = Lowest(Unused)],
                             ![Lowest(Unused)] = [child EXCEPT !.parent = q]]
       /\ UNCHANGED lost

\* wait() of a process that goes on as self: for a zombie, if there are children.
wait(q, self) ==
    \/ Children(q) = {} /\ job' = [job EXCEPT ![q] = self]
    \/ \E z \in Zombies(q) : job' = [job EXCEPT ![q] = self, ![z] = Free]

-------------------------------------------------------------------------------
(* init.c *)

InitFork(q) ==
    /\ At(q, "init_fork")
    /\ fork1(q, [job[q] EXCEPT !.at = "init_wait"], [job[q] EXCEPT !.at = "exec_sh"])
    /\ UNCHANGED lines

\* Orphans are reaped until the shell has ended.
InitWait(q) ==
    /\ At(q, "init_wait")
    /\ \E z \in Zombies(q) :
          job' = [job EXCEPT ![q].at = IF z = job[q].pid THEN "init_fork" ELSE @, ![z] = Free]
    /\ UNCHANGED <<lines, lost>>

\* exec("sh"), which opens the console up to descriptor 3 and closes that one.
ExecSh(q) ==
    /\ At(q, "exec_sh")
    /\ \/ job' = [job EXCEPT ![q].at = "prompt", ![q].fd = Standard]
       \/ exit(q)
    /\ UNCHANGED <<lines, lost>>

-------------------------------------------------------------------------------
(* sh.c: main and runcmd *)

\* getcmd(): a line, which a child parses and runs, or the end of the input.  A line
\* with cd changes the directory of the shell, and nothing here.
Prompt(q) ==
    /\ At(q, "prompt")
    /\ \/ /\ Len(lines) < MaxLines
          /\ \E line \in Lines :
                /\ lines' = Append(lines, parsecmd(line))
                /\ fork1(q, [job[q] EXCEPT !.at = "sh_wait"],
                            [job[q] EXCEPT !.at = "run", !.n = Len(lines) + 1, !.cmd = Last(lines')])
       \/ exit(q) /\ UNCHANGED <<lines, lost>>

ShWait(q) ==
    /\ At(q, "sh_wait")
    /\ wait(q, [job[q] EXCEPT !.at = "prompt"])
    /\ UNCHANGED <<lines, lost>>

\* q about to run the command c, which is the i-th part of its own.
Part(self, c, i) == [self EXCEPT !.at = "run", !.cmd = c, !.path = Append(@, i)]

\* q runs a command of that type.
Runs(q, type) == At(q, "run") /\ job[q].cmd.type = type

\* exec() succeeds or not; a command without a word, or with an error, is over.
RunExec(q) ==
    /\ At(q, "run")
    /\ job[q].cmd.type \in {"EXEC", "SYNTAX"}
    /\ \/ exit(q)
       \/ /\ job[q].cmd.type = "EXEC" /\ job[q].cmd.argc > 0
          /\ job' = [job EXCEPT ![q].at = "program"]
    /\ UNCHANGED <<lines, lost>>

\* The table of descriptors with object x in the first place that is free.
Opened(fd, x) == [fd EXCEPT ![Lowest({d \in DOMAIN fd : fd[d] = Closed})] = x]

\* close() the descriptor and open() the file in its place.
RunRedir(q) ==
    LET self == job[q]
        File == Object("file", self.n, self.path)
    IN  /\ Runs(q, "REDIR")
        /\ \/ exit(q)
           \/ job' = [job EXCEPT ![q] =
                         [Part(self, self.cmd.cmd, 1) EXCEPT !.fd = Opened([@ EXCEPT ![self.cmd.fd] = Closed], File)]]
        /\ UNCHANGED <<lines, lost>>

RunList(q) ==
    /\ Runs(q, "LIST")
    /\ fork1(q, [job[q] EXCEPT !.at = "list_wait"], Part(job[q], job[q].cmd.left, 1))
    /\ UNCHANGED lines

ListWait(q) ==
    /\ At(q, "list_wait")
    /\ wait(q, Part(job[q], job[q].cmd.right, 2))
    /\ UNCHANGED <<lines, lost>>

RunBack(q) ==
    /\ Runs(q, "BACK")
    /\ fork1(q, [job[q] EXCEPT !.at = "exit"], Part(job[q], job[q].cmd.cmd, 1))
    /\ UNCHANGED lines

\* pipe(p): two descriptors, if there are.
RunPipe(q) ==
    LET self == job[q]
        free == {d \in DOMAIN self.fd : self.fd[d] = Closed}
        p0 == Lowest(free)
        p1 == Lowest(free \ {p0})
    IN  /\ Runs(q, "PIPE")
        /\ \/ Cardinality(free) < 2 /\ panic(q)
           \/ /\ Cardinality(free) >= 2
              /\ job' = [job EXCEPT ![q].at = "pipe_left", ![q].p = <<p0, p1>>,
                                    ![q].fd[p0] = Object("read", self.n, self.path),
                                    ![q].fd[p1] = Object("write", self.n, self.path)]
              /\ UNCHANGED lost
        /\ UNCHANGED lines

\* Mutant: the writing end stays open.
PipeClosedHalf(fd, p) == [fd EXCEPT ![p[1]] = Closed]

\* close(p[0]); close(p[1])
PipeClosed(fd, p) == [fd EXCEPT ![p[1]] = Closed, ![p[2]] = Closed]

\* A child of the pipe: its end of the pipe becomes its descriptor d.
PipeChild(self, c, i, d) ==
    [Part(self, c, i) EXCEPT
        !.fd = PipeClosed(Opened([@ EXCEPT ![d] = Closed], @[self.p[IF d = 0 THEN 1 ELSE 2]]), self.p)]

PipeLeft(q) ==
    /\ At(q, "pipe_left")
    /\ fork1(q, [job[q] EXCEPT !.at = "pipe_right"], PipeChild(job[q], job[q].cmd.left, 1, 1))
    /\ UNCHANGED lines

PipeRight(q) ==
    /\ At(q, "pipe_right")
    /\ fork1(q, [job[q] EXCEPT !.at = "pipe_close"], PipeChild(job[q], job[q].cmd.right, 2, 0))
    /\ UNCHANGED lines

PipeClose(q) ==
    /\ At(q, "pipe_close")
    /\ job' = [job EXCEPT ![q].at = "pipe_wait", ![q].fd = PipeClosed(@, job[q].p)]
    /\ UNCHANGED <<lines, lost>>

\* wait(); wait(); exit()
PipeWait(q) ==
    /\ \/ At(q, "pipe_wait") /\ wait(q, [job[q] EXCEPT !.at = "pipe_wait2"])
       \/ At(q, "pipe_wait2") /\ wait(q, [job[q] EXCEPT !.at = "exit"])
    /\ UNCHANGED <<lines, lost>>

Exit(q) == At(q, "exit") /\ exit(q) /\ UNCHANGED <<lines, lost>>

-------------------------------------------------------------------------------
(* cat.c *)

\* The processes that have an end of the pipe that x is an end of.
Holders(kind, x) == {c \in Slot : \E d \in DOMAIN job[c].fd : job[c].fd[d] = Object(kind, x[2], x[3])}

InputEnds(q) == LET x == job[q].fd[0] IN x[1] = "read" => Holders("write", x) = {}

RECURSIVE OutputTaken(_)

\* Somebody copies the output of q on, or nobody can read it.
OutputTaken(q) ==
    LET x == job[q].fd[1]
    IN  \/ x[1] # "write"
        \/ Holders("read", x) = {}
        \/ \E c \in Slot : At(c, "program") /\ job[c].fd[0] = Object("read", x[2], x[3]) /\ OutputTaken(c)

\* cat() has copied everything; another program may end at any time.
Copied(q) == InputEnds(q) /\ OutputTaken(q)

Program(q) == At(q, "program") /\ exit(q) /\ UNCHANGED <<lines, lost>>

-------------------------------------------------------------------------------

Next ==
    \E q \in Slot :
        \/ InitFork(q) \/ InitWait(q) \/ ExecSh(q) \/ Prompt(q) \/ ShWait(q)
        \/ RunExec(q) \/ RunRedir(q) \/ RunList(q) \/ ListWait(q) \/ RunBack(q)
        \/ RunPipe(q) \/ PipeLeft(q) \/ PipeRight(q) \/ PipeClose(q) \/ PipeWait(q)
        \/ Exit(q) \/ Program(q)

Spec == Init /\ [][Next]_shellVars

-------------------------------------------------------------------------------
(* Properties *)

Places == {"none", "init_fork", "init_wait", "exec_sh", "prompt", "sh_wait", "run", "list_wait", "pipe_left",
           "pipe_right", "pipe_close", "pipe_wait", "pipe_wait2", "exit", "program"}

TypeOK ==
    /\ DOMAIN job = Slot
    /\ \A q \in Slot : /\ job[q].state \in {"UNUSED", "RUNNING", "ZOMBIE"}
                       /\ job[q].parent \in Slot \cup {0}
                       /\ job[q].at \in Places
                       /\ DOMAIN job[q].fd = 0 .. NOFILE - 1
    /\ Len(lines) <= MaxLines
    /\ lost \in BOOLEAN

\* q can go on, if programs copy all their input.
CanStep(q) ==
    \/ At(q, "program") /\ Copied(q)
    \/ \E at \in {"init_wait", "sh_wait", "list_wait", "pipe_wait", "pipe_wait2"} :
          At(q, at) /\ (Zombies(q) # {} \/ Children(q) = {})
    \/ \E at \in Places \ {"none", "init_wait", "sh_wait", "list_wait", "pipe_wait", "pipe_wait2", "program", "prompt"} :
          At(q, at)

\* While the shell waits for a line to end somebody can go on, even if every program
\* reads its input to the end: every end of a pipe that is not used is closed.
SomeoneRuns ==
    (\E q \in Slot : At(q, "sh_wait")) => \E q \in Slot : CanStep(q)

RECURSIVE Leaves(_, _, _, _, _)

\* The programs of command c, each with its place and its input and output.
Leaves(c, n, path, in, out) ==
    CASE c.type = "EXEC" -> {<<path, in, out>>}
      [] c.type = "REDIR" -> LET file == Object("file", n, path)
                             IN  Leaves(c.cmd, n, Append(path, 1), IF c.fd = 0 THEN file ELSE in,
                                                                   IF c.fd = 1 THEN file ELSE out)
      [] c.type = "PIPE" -> Leaves(c.left, n, Append(path, 1), in, Object("write", n, path))
                            \cup Leaves(c.right, n, Append(path, 2), Object("read", n, path), out)
      [] c.type = "LIST" -> Leaves(c.left, n, Append(path, 1), in, out) \cup Leaves(c.right, n, Append(path, 2), in, out)
      [] c.type = "BACK" -> Leaves(c.cmd, n, Append(path, 1), in, out)
      [] c.type = "SYNTAX" -> {}

\* A program starts with the input and the output that its place in the line asks for,
\* the console as its third descriptor, no other one, and no children.
ProgramFds ==
    \A q \in Slot : job[q].at = "program" =>
        /\ <<job[q].path, job[q].fd[0], job[q].fd[1]>>
              \in Leaves(lines[job[q].n], job[q].n, <<>>, Console, Console)
        /\ job[q].fd[2] = Console
        /\ \A d \in 3 .. NOFILE - 1 : job[q].fd[d] = Closed
        /\ Children(q) = {}

RECURSIVE Behind(_, _)

\* There is a & on the way from command c down the path.
Behind(c, path) ==
    /\ path # <<>>
    /\ CASE c.type = "BACK" -> TRUE
         [] c.type = "REDIR" -> Behind(c.cmd, Tail(path))
         [] OTHER -> Behind(IF Head(path) = 1 THEN c.left ELSE c.right, Tail(path))

\* The shell asks for a line with its own three descriptors and no child, and unless it
\* ran out of processes only commands with & still run.
PromptAlone ==
    \A q \in Slot : At(q, "prompt") =>
        /\ job[q].fd = Standard
        /\ Children(q) = {}
        /\ lost \/ \A c \in Slot : job[c].n > 0 /\ job[c].state = "RUNNING" =>
                                      Behind(lines[job[c].n], job[c].path)

RECURSIVE LineOf(_), PipeOf(_), BackOf(_)

Depth(s, i) == Cardinality({j \in 1 .. i : s[j] = "("}) - Cardinality({j \in 1 .. i : s[j] = ")"})

\* The places of token t in s that are in no parentheses.
Outside(s, t) == {i \in DOMAIN s : s[i] = t /\ Depth(s, i) = 0}

\* Words and redirections, after a command c of so many words.
WordsOf(c, s, argc) ==
    LET ops == {i \in DOMAIN s : s[i] \in {"<", ">", "+"}}
        fds == [k \in 1 .. Cardinality(ops) |-> IF s[SetToSortSeq(ops, <)[k]] = "<" THEN 0 ELSE 1]
        words == Len(s) - 2 * Cardinality(ops)
    IN  IF /\ \A i \in DOMAIN s : s[i] \in {"a", "<", ">", "+"}
           /\ \A i \in ops : i < Len(s) /\ s[i + 1] = "a"
           /\ words <= argc
        THEN Redirected(IF c = SYNTAX THEN execcmd(words) ELSE c, fds)
        ELSE SYNTAX

\* The grammar: a line is split at its first ; and from there at its last & and first |
\* that are in no parentheses.
CommandOf(s) ==
    LET close == Lowest({i \in DOMAIN s : Depth(s, i) = 0})
        inner == LineOf(SubSeq(s, 2, close - 1))
    IN  IF s = <<>> \/ Head(s) # "(" THEN WordsOf(SYNTAX, s, MAXARGS - 1)
        ELSE IF inner = SYNTAX THEN SYNTAX
        ELSE WordsOf(inner, SubSeq(s, close + 1, Len(s)), 0)

PipeOf(s) ==
    LET i == Lowest(Outside(s, "|"))
    IN  IF Outside(s, "|") = {} THEN CommandOf(s)
        ELSE pipecmd(CommandOf(SubSeq(s, 1, i - 1)), PipeOf(SubSeq(s, i + 1, Len(s))))

BackOf(s) == IF s # <<>> /\ Last(s) = "&" THEN backcmd(BackOf(Front(s))) ELSE PipeOf(s)

LineOf(s) ==
    LET i == Lowest(Outside(s, ";"))
    IN  IF Outside(s, ";") = {} THEN BackOf(s)
        ELSE listcmd(BackOf(SubSeq(s, 1, i - 1)), LineOf(SubSeq(s, i + 1, Len(s))))

Balanced(s) == (\A i \in DOMAIN s : Depth(s, i) >= 0) /\ Depth(s, Len(s)) = 0

\* The recursive descent of the shell accepts the lines of the grammar, and builds
\* their trees; it is tried on every short line before the first one is typed.
ParserRight ==
    lines = <<>> /\ At(initproc, "init_fork") =>
        \A s \in UNION {[1 .. n -> Token] : n \in 0 .. MaxTokens} :
            parsecmd(s) = IF Balanced(s) THEN LineOf(s) ELSE SYNTAX
===============================================================================
