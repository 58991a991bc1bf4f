-------------------------------- MODULE Filters --------------------------------
(***************************************************************************)
(* grep.c with its matcher, and wc.c, on an input that read() brings in    *)
(* pieces of any size, as a pipe does.  A read() with what is done about   *)
(* it is a step.  A text is a sequence of characters ("nl" ends a line,    *)
(* "nul" a string); a pattern is one, too.                                 *)
(***************************************************************************)
EXTENDS Integers, Sequences, FiniteSets, SequencesExt

CONSTANTS Program,    \* "grep" or "wc", or both
          BufSize,    \* sizeof(buf) of grep.c
          Input,      \* the texts that are read
          Pattern,    \* the patterns that grep is called with
          PatternChar, TextChar, MaxPattern, MaxText  \* what the matcher is tried on

VARIABLES program, pattern, input,
          rest,     \* what has not been read
          buf,      \* the part of a line that grep keeps
          out,      \* the lines that grep has written
          broken,   \* a read() brought no end of a line, or a nul
          count,    \* l, w and c of wc.c, and inword
          ended

filterVars == <<program, pattern, input, rest, buf, out, broken, count, ended>>

RECURSIVE matchhere(_, _), matchstar(_, _, _)

\* c*re at the beginning of text
matchstar(c, re, text) ==
    \/ matchhere(re, text)
    \/ text # <<>> /\ (Head(text) = c \/ c = ".") /\ matchstar(c, re, Tail(text))

\* re at the beginning of text
matchhere(re, text) ==
    IF re = <<>> THEN TRUE
    ELSE IF Len(re) > 1 /\ re[2] = "*" THEN matchstar(re[1], SubSeq(re, 3, Len(re)), text)
    ELSE IF re = <<"$">> THEN text = <<>>
    ELSE text # <<>> /\ re[1] \in {".", Head(text)} /\ matchhere(Tail(re), Tail(text))

match(re, text) ==
    IF re # <<>> /\ Head(re) = "^" THEN matchhere(Tail(re), text)
    ELSE \E i \in 1 .. Len(text) + 1 : matchhere(re, SubSeq(text, i, Len(text)))

Init ==
    /\ program \in Program /\ pattern \in Pattern /\ input \in Input
    /\ rest = input /\ buf = <<>> /\ out = <<>> /\ broken = FALSE
    /\ count = [l |-> 0, w |-> 0, c |-> 0, inword |-> FALSE]
    /\ ended = FALSE

\* strchr(s, '\n'), which stops at a nul: a place in s, or 0.
strchr(s) ==
    LET at == {i \in DOMAIN s : s[i] = "nl" /\ \A j \in 1 .. i : s[j] # "nul"}
    IN  IF at = {} THEN 0 ELSE CHOOSE i \in at : \A j \in at : i <= j

RECURSIVE Lines(_), After(_)

\* The lines that the inner loop of grep() takes from s, and what it leaves.
Lines(s) == LET q == strchr(s) IN IF q = 0 THEN <<>> ELSE <<SubSeq(s, 1, q - 1)>> \o Lines(SubSeq(s, q + 1, Len(s)))
After(s) == LET q == strchr(s) IN IF q = 0 THEN s ELSE After(SubSeq(s, q + 1, Len(s)))

\* Mutant: a piece without an end of a line is kept like the others.
KeptAlways(s) == After(s)

\* What stays in buf: nothing, if the loop has found no end of a line.
Kept(s) == IF strchr(s) = 0 THEN <<>> ELSE After(s)

\* A round of grep(), with n bytes more.
grep(n) ==
    LET s == buf \o SubSeq(rest, 1, n)
    IN  /\ program = "grep" /\ ~ended
        /\ n <= BufSize - Len(buf) - 1
        /\ rest' = SubSeq(rest, n + 1, Len(rest))
        /\ out' = out \o SelectSeq(Lines(s), LAMBDA line : match(pattern, line))
        /\ buf' = Kept(s)
        /\ broken' = (broken \/ strchr(s) = 0 \/ "nul" \in {s[i] : i \in DOMAIN s})
        /\ UNCHANGED <<program, pattern, input, count, ended>>

Space == {"sp", "nl"}

\* A character in the loop of wc().
Counted(k, ch) ==
    [l |-> IF ch = "nl" THEN k.l + 1 ELSE k.l,
     w |-> IF ch \in Space \/ k.inword THEN k.w ELSE k.w + 1,
     c |-> k.c + 1,
     inword |-> ch \notin Space]

\* A round of wc(), with n bytes more.
wc(n) ==
    /\ program = "wc" /\ ~ended
    /\ rest' = SubSeq(rest, n + 1, Len(rest))
    /\ count' = FoldLeft(Counted, count, SubSeq(rest, 1, n))
    /\ UNCHANGED <<program, pattern, input, buf, out, broken, ended>>

\* read() returns 0: at the end of the input, or when it was asked for nothing.
End ==
    /\ ~ended
    /\ rest = <<>> \/ (program = "grep" /\ BufSize - Len(buf) - 1 = 0)
    /\ ended' = TRUE
    /\ UNCHANGED <<program, pattern, input, rest, buf, out, broken, count>>

Next == (\E n \in 1 .. Len(rest) : grep(n) \/ wc(n)) \/ End

Spec == Init /\ [][Next]_filterVars

--------------------------------------------------------------------------------

TypeOK ==
    /\ program \in Program /\ pattern \in Pattern /\ input \in Input
    /\ Len(rest) <= Len(input) /\ Len(buf) < BufSize
    /\ broken \in BOOLEAN /\ ended \in BOOLEAN /\ {count.l, count.w, count.c} \subseteq Nat

RECURSIVE Items(_)

\* A pattern without its anchors: characters, each with a star or not.
Items(re) ==
    IF re = <<>> THEN <<>>
    ELSE IF Len(re) > 1 /\ re[2] = "*" THEN <<[ch |-> re[1], star |-> TRUE]>> \o Items(SubSeq(re, 3, Len(re)))
    ELSE <<[ch |-> re[1], star |-> FALSE]>> \o Items(Tail(re))

\* The text is cut into a piece for each item.
Denotes(items, text) ==
    \E cut \in [0 .. Len(items) -> 0 .. Len(text)] :
        /\ cut[0] = 0 /\ cut[Len(items)] = Len(text)
        /\ \A k \in DOMAIN items :
              /\ cut[k - 1] <= cut[k]
              /\ items[k].star \/ cut[k] = cut[k - 1] + 1
              /\ \A i \in cut[k - 1] + 1 .. cut[k] : items[k].ch \in {".", text[i]}

\* What a pattern means: some part of the text, from the start if there is a ^ and to the
\* end if there is a $.
Means(re, text) ==
    LET first == re # <<>> /\ Head(re) = "^"
        all   == Items(IF first THEN Tail(re) ELSE re)
        last  == all # <<>> /\ Last(all) = [ch |-> "$", star |-> FALSE]
    IN  \E i \in 1 .. Len(text) + 1, j \in 0 .. Len(text) :
            /\ first => i = 1
            /\ last => j = Len(text)
            /\ i <= j + 1
            /\ Denotes(IF last THEN Front(all) ELSE all, SubSeq(text, i, j))

\* The matcher's backtracking finds what the pattern means, tried before the first read().
MatcherRight ==
    rest = input /\ Len(input) = 0 =>
        \A re \in UNION {[1 .. n -> PatternChar] : n \in 0 .. MaxPattern} :
            \A text \in UNION {[1 .. n -> TextChar] : n \in 0 .. MaxText} : match(re, text) = Means(re, text)

\* The words of a text begin where a character that is no space follows one or nothing.
Words(s) == {i \in DOMAIN s : s[i] \notin Space /\ (i = 1 \/ s[i - 1] \in Space)}

\* In whatever pieces the input comes: grep reads all of it, and writes the lines that
\* match, all of them unless a piece had no end of a line (then it has lost a part of
\* one); wc counts what there is.
OutputRight ==
    ended =>
        /\ rest = <<>>
        /\ program = "grep" /\ ~broken => out = SelectSeq(Lines(input), LAMBDA line : match(pattern, line))
        /\ program = "wc" => /\ count.c = Len(input)
                             /\ count.l = Cardinality({i \in DOMAIN input : input[i] = "nl"})
                             /\ count.w = Cardinality(Words(input))
================================================================================
