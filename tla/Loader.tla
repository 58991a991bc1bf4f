--------------------------------- MODULE Loader --------------------------------
(***************************************************************************)
(* exec.c of Project1 with what it uses of vm.c: a new image from the      *)
(* segments of a file, a guard page, a stack with the arguments.  The page *)
(* table belongs to exec() alone, so a pass of one of its loops is a step. *)
(* The file may have any headers and be too short, and memory may run out. *)
(* The byte that stands at offset off of segment i of the file is <<i,     *)
(* off>>; <<0, 0>> is a zero.                                              *)
(***************************************************************************)
EXTENDS Integers, Sequences, FiniteSets

CONSTANTS PGSIZE, KERNBASE, UintMod, Word, MAXARG,
          Headers,    \* program headers: [load, vaddr, memsz, filesz]
          MaxHeaders, \* bound: headers of a file
          Lengths,    \* the lengths of arguments
          MaxArgs     \* bound: arguments

VARIABLES phdr,    \* the program headers of the file
          args,    \* the lengths of the arguments
          i,       \* the headers, and then the arguments, that are done
          sz, sp,
          page,    \* the pages that are present, and whether the user may use them
          mem,     \* what stands in them
          ustack,  \* the addresses of the arguments
          short,   \* memory has run out, or the file is too short or no program
          loading  \* "headers", "args", "done", "bad", "panic"

loadVars == <<phdr, args, i, sz, sp, page, mem, ustack, short, loading>>

Uint == 0 .. UintMod - 1
User == 0 .. KERNBASE - 1
Pages == 0 .. KERNBASE \div PGSIZE - 1
Zero == <<0, 0>>

Init ==
    /\ phdr \in UNION {[1 .. n -> Headers] : n \in 0 .. MaxHeaders}
    /\ args \in UNION {[1 .. n -> Lengths] : n \in 0 .. MaxArgs}
    /\ i = 0 /\ sz = 0 /\ sp = 0
    /\ page = [p \in Pages |-> "absent"] /\ mem = [a \in User |-> Zero]
    /\ ustack = <<>> /\ short = FALSE /\ loading = "headers"

\* goto bad
Bad(isShort) ==
    /\ loading' = "bad" /\ short' = isShort
    /\ UNCHANGED <<phdr, args, i, sz, sp, page, mem, ustack>>

\* There is no such file, it has no ELF header, or there is no page for a page table.
Elf == loading = "headers" /\ i = 0 /\ Bad(TRUE)

PGROUNDUP(a) == ((a + PGSIZE - 1) \div PGSIZE) * PGSIZE

\* What allocuvm() returns, and the pages after it.
allocuvm(old, new) == IF new >= KERNBASE THEN 0 ELSE IF new < old THEN old ELSE new
Grown(old, new) ==
    [p \in Pages |-> IF PGROUNDUP(old) <= p * PGSIZE /\ p * PGSIZE < new THEN "user" ELSE page[p]]

\* Mutant: a segment is not asked whether it ends behind its start.
RefusedUnwrapped(h, end) == h.memsz < h.filesz \/ allocuvm(sz, end) = 0 \/ h.vaddr % PGSIZE # 0

\* exec() does not take a segment, or the segment that ends there.
Refused(h, end) ==
    h.memsz < h.filesz \/ end < h.vaddr \/ allocuvm(sz, end) = 0 \/ h.vaddr % PGSIZE # 0

\* loaduvm() finds the pages that it fills; if not it panics, or writes elsewhere.
Present(h, pages) ==
    \A a \in h.vaddr .. h.vaddr + h.filesz - 1 : a \in User /\ pages[a \div PGSIZE] # "absent"

\* A program header: room for the segment, and its bytes.
Segment ==
    LET h == phdr[i + 1]
        end == (h.vaddr + h.memsz) % UintMod
    IN  /\ loading = "headers" /\ i < Len(phdr)
        /\ \/ /\ ~h.load
              /\ i' = i + 1
              /\ UNCHANGED <<phdr, args, sz, sp, page, mem, ustack, short, loading>>
           \/ h.load /\ Refused(h, end) /\ Bad(FALSE)
           \/ h.load /\ ~Refused(h, end) /\ Bad(TRUE)
           \/ /\ h.load /\ ~Refused(h, end)
              /\ i' = i + 1
              /\ sz' = allocuvm(sz, end)
              /\ page' = Grown(sz, end)
              /\ mem' = [a \in User |-> IF a \in h.vaddr .. h.vaddr + h.filesz - 1 THEN <<i + 1, a - h.vaddr>> ELSE mem[a]]
              /\ loading' = IF Present(h, page') THEN loading ELSE "panic"
              /\ UNCHANGED <<phdr, args, sp, ustack, short>>

\* Two pages behind the image, the first without PTE_U.
Stack ==
    LET base == PGROUNDUP(sz)
        top  == base + 2 * PGSIZE
    IN  /\ loading = "headers" /\ i = Len(phdr)
        /\ \/ allocuvm(base, top) = 0 /\ Bad(FALSE)
           \/ allocuvm(base, top) # 0 /\ Bad(TRUE)
           \/ /\ allocuvm(base, top) # 0
              /\ sz' = top /\ sp' = top
              /\ page' = [Grown(base, top) EXCEPT ![base \div PGSIZE] = "guard"]
              /\ i' = 0 /\ loading' = "args"
              /\ UNCHANGED <<phdr, args, mem, ustack, short>>

\* copyout() reaches all of the n bytes at va.  (uva2ka() relies on a page table being
\* there for every address; here there is one.)
Reaches(va, n) == \A a \in va .. va + n - 1 : a \in User /\ page[a \div PGSIZE] = "user"

\* An argument, below the ones before it, from a multiple of Word on.
Place(n) == LET a == (sp - n) % UintMod IN (a \div Word) * Word

Argument ==
    LET n == args[i + 1] + 1
    IN  /\ loading = "args" /\ i < Len(args)
        /\ \/ (i >= MAXARG \/ ~Reaches(Place(n), n)) /\ Bad(FALSE)
           \/ /\ i < MAXARG /\ Reaches(Place(n), n)
              /\ sp' = Place(n)
              /\ ustack' = Append(ustack, Place(n))
              /\ mem' = [a \in User |-> IF a \in Place(n) .. Place(n) + n - 1 THEN <<-1, i>> ELSE mem[a]]
              /\ i' = i + 1
              /\ UNCHANGED <<phdr, args, sz, page, short, loading>>

\* The array of their addresses below them, and the image is that of the process.
Commit ==
    LET n  == (3 + Len(args) + 1) * Word
        at == (sp - n) % UintMod
    IN  /\ loading = "args" /\ i = Len(args)
        /\ \/ ~Reaches(at, n) /\ Bad(FALSE)
           \/ /\ Reaches(at, n)
              /\ sp' = at
              /\ mem' = [a \in User |-> IF a \in at .. at + n - 1 THEN <<-2, a - at>> ELSE mem[a]]
              /\ loading' = "done"
              /\ UNCHANGED <<phdr, args, i, sz, page, ustack, short>>

Next == Elf \/ Segment \/ Stack \/ Argument \/ Commit

Spec == Init /\ [][Next]_loadVars

--------------------------------------------------------------------------------

TypeOK ==
    /\ sz \in Uint /\ sp \in Uint /\ i \in 0 .. Len(phdr) + Len(args)
    /\ page \in [Pages -> {"absent", "user", "guard"}]
    /\ short \in BOOLEAN /\ loading \in {"headers", "args", "done", "bad", "panic"}

Loaded(a) == {k \in DOMAIN phdr : phdr[k].load /\ a \in phdr[k].vaddr .. phdr[k].vaddr + phdr[k].filesz - 1}
LastOf(S) == CHOOSE k \in S : \A l \in S : l <= k

\* The end of the image that the headers ask for.
ImageEnd == LET ends == {phdr[k].vaddr + phdr[k].memsz : k \in {l \in DOMAIN phdr : phdr[l].load}} \cup {0}
            IN  LastOf(ends)

\* The bytes that the arguments take on the stack, each from a multiple of Word on.
ArgumentBytes[n \in 0 .. MaxArgs] ==
    IF n = 0 THEN 0 ELSE ArgumentBytes[n - 1] + ((args[n] + 1 + Word - 1) \div Word) * Word

\* A file and arguments that a process can be made of.
Loadable ==
    /\ \A k \in DOMAIN phdr : phdr[k].load =>
          /\ phdr[k].filesz <= phdr[k].memsz
          /\ phdr[k].vaddr % PGSIZE = 0
          /\ \E l \in 1 .. k : phdr[l].load /\ phdr[l].vaddr + phdr[l].memsz > 0
    /\ PGROUNDUP(ImageEnd) + 2 * PGSIZE < KERNBASE
    /\ Len(args) <= MAXARG
    /\ ArgumentBytes[Len(args)] + (4 + Len(args)) * Word <= PGSIZE

\* exec() makes a process of every file and arguments that allow it, and of no other, and
\* its image is right: present from 0 to sz, a guard page before a stack of one page, the
\* bytes of the file, of the last segment where several overlap, and zeros elsewhere; the
\* arguments are on the stack, one below the other, and nothing was written over them.
ImageLoaded ==
    /\ loading # "panic"
    /\ loading = "bad" /\ ~short => ~Loadable
    /\ loading = "done" =>
         /\ Loadable
         /\ sz = PGROUNDUP(ImageEnd) + 2 * PGSIZE
         /\ page = [p \in Pages |-> IF p * PGSIZE >= sz THEN "absent"
                                    ELSE IF p * PGSIZE = sz - 2 * PGSIZE THEN "guard" ELSE "user"]
         /\ \A a \in 0 .. sz - PGSIZE - 1 : mem[a] = IF Loaded(a) = {} THEN Zero
                                                     ELSE <<LastOf(Loaded(a)), a - phdr[LastOf(Loaded(a))].vaddr>>
         /\ \A k \in DOMAIN args : \A a \in ustack[k] .. ustack[k] + args[k] : a < sz /\ mem[a] = <<-1, k - 1>>
         /\ \A a \in sp .. sp + (4 + Len(args)) * Word - 1 : mem[a] = <<-2, a - sp>>
         /\ sp % Word = 0
================================================================================
