----------------------------------- MODULE Fs ----------------------------------
(***************************************************************************)
(* Inodes, directories, path names and open files: fs.c, sysfile.c and     *)
(* file.c, which are the same in the four kernels, with the parts of       *)
(* fork(), exit() and exec() of proc.c and exec.c that use them.           *)
(*                                                                         *)
(* A system call is a sequence of steps.  A step takes at most one inode   *)
(* lock (sleep lock) and goes on to the next place where the code asks for *)
(* a lock or reads a reference count.  ino is what the blocks of the disk  *)
(* hold, cache the inode cache, and disk what the log has committed: the   *)
(* log commits when the last system call inside a transaction ends, and a  *)
(* crash brings that state back (Log.tla shows that it does).              *)
(***************************************************************************)
EXTENDS Integers, Sequences, FiniteSets, FiniteSetsExt

CONSTANTS Proc,      \* processes; 1 is init, which runs after a crash
          Inum,      \* inode numbers 1..sb.ninodes-1; 1 is ROOTINO
          NINODE,    \* entries of the inode cache
          NFILE,     \* open files of the system
          NOFILE,    \* open files of a process
          Files,     \* names of directory entries, without "." and ".."
          Images,    \* states of the disk to start with, and where each process is
          Syscalls,  \* system calls with their path names
          MaxCalls,  \* bound: calls of a behaviour
          MaxCrashes \* bound: crashes of a behaviour

VARIABLES ino,       \* dinode and, of a directory, its entries
          cache,     \* icache
          cwd,       \* p->cwd; 0: there is no such process
          ofile,     \* p->ofile[], file numbers; 0: unused
          file,      \* ftable: ref and ip
          pr,        \* where the system call of a process is
          disk,      \* what the log has committed of ino (and stray then)
          panic,     \* the message of panic(), or "none"
          stray,     \* inodes with an entry in a removed directory, these directories,
                     \* and inodes freed while the ".." of a removed directory named them
          orphans,   \* inodes without a link that were in use at a crash, or that two
                     \* processes put at the same time
          calls, crashes

fsVars == <<ino, cache, cwd, ofile, file, pr, disk, panic, stray, orphans, calls, crashes>>

Root == 1
NoProc == 0
Dots == {".", ".."}
Name == Dots \cup Files
NoEntries == [n \in Name |-> 0]
FreeInode == [type |-> "free", nlink |-> 0, dent |-> NoEntries]
Uncached == [ref |-> 0, valid |-> FALSE, lock |-> NoProc, type |-> "free", nlink |-> 0]
NoCall == [op |-> "none", path |-> [abs |-> TRUE, names |-> <<>>], new |-> [abs |-> TRUE, names |-> <<>>]]
Idle == [at |-> "idle", call |-> NoCall, w |-> 0, ip |-> 0, path |-> <<>>, puts |-> <<>>, phase |-> "lock"]
NoFile == [ref |-> 0, ip |-> 0]

Init ==
    \E image \in Images :
        /\ ino = image.ino /\ disk = [ino |-> image.ino, stray |-> {}]
        /\ cwd = image.cwd
        /\ cache = [i \in Inum |-> IF \A p \in Proc : cwd[p] # i THEN Uncached
                                   ELSE [ref |-> Cardinality({p \in Proc : cwd[p] = i}), valid |-> TRUE,
                                         lock |-> NoProc, type |-> ino[i].type, nlink |-> ino[i].nlink]]
        /\ ofile = [p \in Proc |-> [fd \in 1..NOFILE |-> 0]]
        /\ file = [f \in 1..NFILE |-> NoFile]
        /\ pr = [p \in Proc |-> Idle]
        /\ panic = "none" /\ stray = {} /\ orphans = {} /\ calls = 0 /\ crashes = 0

--------------------------------------------------------------------------------
(* The inode cache.  These operators map a cache to a cache.               *)

\* iget() of an inode, idup().
iget(c, i) == [c EXCEPT ![i].ref = @ + 1]

\* ilock(): the first one reads the inode from the disk.
ilock(c, p, i) ==
    [c EXCEPT ![i] = IF @.valid THEN [@ EXCEPT !.lock = p]
                     ELSE [@ EXCEPT !.lock = p, !.valid = TRUE, !.type = ino[i].type, !.nlink = ino[i].nlink]]

iunlock(c, i) == [c EXCEPT ![i].lock = NoProc]

Unlocked(i) == cache[i].lock = NoProc

\* ip->nlink += d and iupdate(ip).
AddLinkCache(c, i, d) == [c EXCEPT ![i].nlink = @ + d]
AddLinkDisk(n, c, i, d) == [n EXCEPT ![i].nlink = c[i].nlink + d, ![i].type = c[i].type]

\* dirlookup() and the entry that dirlink() writes.
dirlookup(dp, name) == ino[dp].dent[name]
dirlink(n, dp, name, i) == [n EXCEPT ![dp].dent[name] = i]

isdirempty(dp) == \A name \in Files : dirlookup(dp, name) = 0

Last(path) == path.names[Len(path.names)]

\* The step of p that comes next, with the inodes it puts before.
Go(p, at, puts) == pr' = [pr EXCEPT ![p].at = at, ![p].puts = puts]

At(p, at) == pr[p].at = at /\ pr[p].puts = <<>>

--------------------------------------------------------------------------------
(* iput(): the count is read under icache.lock and used after it was given *)
(* up, and the reference is dropped after the inode was unlocked.          *)

\* Mutant: the references are not looked at.
DeadAnyRef(c, i) == c[i].valid /\ c[i].nlink = 0

\* Whether iput() frees the inode.
Dead(c, i) == c[i].valid /\ c[i].nlink = 0 /\ c[i].ref = 1

\* p has decided not to free i and still has its reference.
Dropping(p, i) == pr[p].puts # <<>> /\ pr[p].phase = "drop" /\ Head(pr[p].puts) = i

\* acquiresleep(), and the decision.
PutLock(p) ==
    /\ pr[p].puts # <<>> /\ pr[p].phase = "lock"
    /\ LET i == Head(pr[p].puts) IN
        /\ Unlocked(i)
        /\ IF Dead(cache, i)
           THEN cache' = [cache EXCEPT ![i].lock = p] /\ pr' = [pr EXCEPT ![p].phase = "free"]
           ELSE cache' = cache /\ pr' = [pr EXCEPT ![p].phase = "drop"]
        /\ orphans' = IF cache[i].nlink = 0 /\ \E q \in Proc \ {p} : Dropping(q, i) THEN orphans \cup {i} ELSE orphans
    /\ UNCHANGED <<ino, cwd, ofile, file, stray>>

\* itrunc(), type 0, iupdate(), valid 0, releasesleep().
PutFree(p) ==
    /\ pr[p].puts # <<>> /\ pr[p].phase = "free"
    /\ LET i == Head(pr[p].puts) IN
        /\ ino' = [ino EXCEPT ![i] = FreeInode]
        /\ stray' = IF \E d \in Inum : d # i /\ dirlookup(d, "..") = i THEN stray \cup {i} ELSE stray
        /\ cache' = [cache EXCEPT ![i].valid = FALSE, ![i].type = "free", ![i].nlink = 0, ![i].lock = NoProc]
    /\ pr' = [pr EXCEPT ![p].phase = "drop"]
    /\ UNCHANGED <<cwd, ofile, file, orphans>>

\* ip->ref--; an entry without references is as good as empty.
PutDrop(p) ==
    /\ pr[p].puts # <<>> /\ pr[p].phase = "drop"
    /\ LET i == Head(pr[p].puts) IN
        cache' = [cache EXCEPT ![i] = IF @.ref = 1 THEN Uncached ELSE [@ EXCEPT !.ref = @ - 1]]
    /\ pr' = [pr EXCEPT ![p].puts = Tail(@), ![p].phase = "lock"]
    /\ UNCHANGED <<ino, cwd, ofile, file, stray, orphans>>

--------------------------------------------------------------------------------
(* Path names.                                                             *)

\* Whether namex() stops at the parent of the last element.
ToParent(p) == pr[p].call.op \in {"unlink", "create", "mkdir", "mknod"} \/ pr[p].ip # 0

Start(p, path) == IF path.abs THEN Root ELSE cwd[p]

\* namex(): one element of the path, looked up under the lock of its directory.
Walk(p) ==
    /\ At(p, "walk")
    /\ LET w == pr[p].w
           path == pr[p].path
           c == ilock(cache, p, w)
           n == dirlookup(w, Head(path))
           fails == c[w].type # "dir" \/ n = 0
       IN IF path = <<>>
          THEN /\ pr' = [pr EXCEPT ![p].at = "found", ![p].w = IF ToParent(p) THEN 0 ELSE w,
                                   ![p].puts = IF ToParent(p) THEN <<w>> ELSE <<>>]
               /\ UNCHANGED cache
          ELSE /\ Unlocked(w)
               /\ IF c[w].type = "dir" /\ ToParent(p) /\ Len(path) = 1
                  THEN cache' = iunlock(c, w) /\ Go(p, "found", <<>>)
                  ELSE /\ cache' = IF fails THEN iunlock(c, w) ELSE iget(iunlock(c, w), n)
                       /\ pr' = [pr EXCEPT ![p].at = IF fails THEN "found" ELSE "walk", ![p].puts = <<w>>,
                                           ![p].w = IF fails THEN 0 ELSE n, ![p].path = Tail(@)]
    /\ UNCHANGED <<ino, cwd, ofile, file, stray, orphans>>

\* A path name that leads nowhere ends the call; link() takes its count back.
NotFound(p) ==
    /\ At(p, "found") /\ pr[p].w = 0
    /\ Go(p, IF pr[p].ip # 0 THEN "bad" ELSE "done", <<>>)
    /\ UNCHANGED <<ino, cache, cwd, ofile, file, stray, orphans>>

Found(p, ops) == At(p, "found") /\ pr[p].w # 0 /\ pr[p].call.op \in ops

--------------------------------------------------------------------------------
(* link().                                                                 *)

\* Mutant: the inode stays locked while the new path is looked up.
CountedLocked(c, i) == AddLinkCache(c, i, 1)

\* ip->nlink++, and ip is unlocked before the new path is looked up.
Counted(c, i) == iunlock(AddLinkCache(c, i, 1), i)

\* sys_link() counts the link before it makes it.
LinkOld(p) ==
    /\ Found(p, {"link"}) /\ pr[p].ip = 0
    /\ LET i == pr[p].w
           c == ilock(cache, p, i)
           new == pr[p].call.new
       IN /\ Unlocked(i)
          /\ IF c[i].type = "dir"
             THEN cache' = iunlock(c, i) /\ ino' = ino /\ Go(p, "done", <<i>>)
             ELSE /\ cache' = iget(Counted(c, i), Start(p, new))
                  /\ ino' = AddLinkDisk(ino, c, i, 1)
                  /\ pr' = [pr EXCEPT ![p].at = "walk", ![p].ip = i, ![p].w = Start(p, new), ![p].path = new.names]
    /\ UNCHANGED <<cwd, ofile, file, stray, orphans>>

\* An entry in a directory that was removed, and the inodes it involves.
Astray(c, dp, i) == IF c[dp].nlink = 0 THEN {dp, i} ELSE {}

\* dirlink() puts the inode of a name that exists, with the directory locked.
LinkNew(p) ==
    /\ Found(p, {"link"}) /\ pr[p].ip # 0
    /\ LET dp == pr[p].w
           c == ilock(cache, p, dp)
           name == Last(pr[p].call.new)
           n == dirlookup(dp, name)
       IN /\ Unlocked(dp)
          /\ IF n # 0
             THEN cache' = iget(c, n) /\ ino' = ino /\ stray' = stray /\ Go(p, "linkfail", <<n>>)
             ELSE /\ cache' = iunlock(c, dp)
                  /\ ino' = dirlink(ino, dp, name, pr[p].ip)
                  /\ stray' = stray \cup Astray(c, dp, pr[p].ip)
                  /\ Go(p, "done", <<dp, pr[p].ip>>)
    /\ UNCHANGED <<cwd, ofile, file, orphans>>

\* The name exists: the directory is unlocked and put, the count taken back.
LinkFail(p) ==
    /\ At(p, "linkfail")
    /\ cache' = iunlock(cache, pr[p].w)
    /\ Go(p, "bad", <<pr[p].w>>)
    /\ UNCHANGED <<ino, cwd, ofile, file, stray, orphans>>

\* Mutant: the count stays when link() fails.
LinkBadKeeps(p) ==
    /\ At(p, "bad")
    /\ Go(p, "done", <<pr[p].ip>>)
    /\ UNCHANGED <<ino, cache, cwd, ofile, file, stray, orphans>>

\* sys_link(), bad: ip->nlink--.
LinkBad(p) ==
    /\ At(p, "bad") /\ Unlocked(pr[p].ip)
    /\ LET i == pr[p].ip
           c == ilock(cache, p, i)
       IN /\ cache' = iunlock(AddLinkCache(c, i, -1), i)
          /\ ino' = AddLinkDisk(ino, c, i, -1)
          /\ Go(p, "done", <<i>>)
    /\ UNCHANGED <<cwd, ofile, file, stray, orphans>>

--------------------------------------------------------------------------------
(* unlink().                                                               *)

\* The parent is locked and the name looked up.
UnlinkDir(p) ==
    /\ Found(p, {"unlink"})
    /\ LET dp == pr[p].w
           c == ilock(cache, p, dp)
           name == Last(pr[p].call.path)
           n == dirlookup(dp, name)
       IN /\ Unlocked(dp)
          /\ IF name \in Dots \/ n = 0
             THEN cache' = iunlock(c, dp) /\ Go(p, "done", <<dp>>)
             ELSE cache' = iget(c, n) /\ pr' = [pr EXCEPT ![p].at = "unlink", ![p].ip = n]
    /\ UNCHANGED <<ino, cwd, ofile, file, stray, orphans>>

\* The entry is cleared and the parent unlocked and put while ip stays locked.
Unlink(p) ==
    /\ At(p, "unlink")
    /\ LET dp == pr[p].w
           i == pr[p].ip
           c == ilock(cache, p, i)
           d == IF c[i].type = "dir" THEN -1 ELSE 0
       IN /\ Unlocked(i)
          /\ IF c[i].type = "dir" /\ ~isdirempty(i)
             THEN cache' = iunlock(c, i) /\ ino' = ino /\ Go(p, "unlinkbad", <<i>>)
             ELSE /\ cache' = iunlock(AddLinkCache(c, dp, d), dp)
                  /\ ino' = AddLinkDisk(dirlink(ino, dp, Last(pr[p].call.path), 0), c, dp, d)
                  /\ Go(p, "unlinked", <<dp>>)
    /\ UNCHANGED <<cwd, ofile, file, stray, orphans>>

\* A directory that is not empty stays.
UnlinkBad(p) ==
    /\ At(p, "unlinkbad")
    /\ cache' = iunlock(cache, pr[p].w)
    /\ Go(p, "done", <<pr[p].w>>)
    /\ UNCHANGED <<ino, cwd, ofile, file, stray, orphans>>

\* ip->nlink--, with ip still locked.
Unlinked(p) ==
    /\ At(p, "unlinked")
    /\ LET i == pr[p].ip IN
        /\ cache' = iunlock(AddLinkCache(cache, i, -1), i)
        /\ ino' = AddLinkDisk(ino, cache, i, -1)
        /\ Go(p, "done", <<i>>)
    /\ UNCHANGED <<cwd, ofile, file, stray, orphans>>

--------------------------------------------------------------------------------
(* create(), and open(), mkdir(), mknod(), chdir() and exec() around it.   *)

TypeMade(p) == CASE pr[p].call.op = "mkdir" -> "dir" [] pr[p].call.op = "mknod" -> "dev" [] OTHER -> "file"

FreeInums == {i \in Inum : ino[i].type = "free"}

\* The name exists, or ialloc() takes a free inode.
CreateDir(p) ==
    /\ Found(p, {"create", "mkdir", "mknod"})
    /\ LET dp == pr[p].w
           c == ilock(cache, p, dp)
           n == dirlookup(dp, Last(pr[p].call.path))
       IN /\ Unlocked(dp)
          /\ \/ /\ n # 0
                /\ cache' = iget(iunlock(c, dp), n)
                /\ pr' = [pr EXCEPT ![p].at = "exists", ![p].ip = n, ![p].puts = <<dp>>]
                /\ UNCHANGED <<ino, stray, orphans>>
             \/ /\ n = 0 /\ FreeInums # {}
                /\ \E i \in FreeInums :
                    /\ ino' = [ino EXCEPT ![i] = [FreeInode EXCEPT !.type = TypeMade(p)]]
                    /\ cache' = iget(c, i)
                    /\ stray' = stray \ {i} /\ orphans' = orphans \ {i}
                    /\ pr' = [pr EXCEPT ![p].at = "create", ![p].ip = i]
             \/ /\ n = 0 /\ FreeInums = {}
                /\ cache' = c /\ pr' = [pr EXCEPT ![p].at = "panic"] /\ UNCHANGED <<ino, stray, orphans>>
    /\ UNCHANGED <<cwd, ofile, file>>

\* Entries of a new inode, then its own; the parent is unlocked and put while
\* ip stays locked.
Create(p) ==
    /\ At(p, "create")
    /\ LET dp == pr[p].w
           i == pr[p].ip
           c == AddLinkCache(ilock(cache, p, i), i, 1)
           d == IF TypeMade(p) = "dir" THEN 1 ELSE 0
           made == AddLinkDisk(AddLinkDisk(ino, c, i, 0), c, dp, d)
           dots == IF d = 1 THEN dirlink(dirlink(made, i, ".", i), i, "..", dp) ELSE made
       IN /\ Unlocked(i)
          /\ cache' = iunlock(AddLinkCache(c, dp, d), dp)
          /\ ino' = dirlink(dots, dp, Last(pr[p].call.path), i)
          /\ stray' = stray \cup Astray(c, dp, i)
    /\ Go(p, "created", <<pr[p].w>>)
    /\ UNCHANGED <<cwd, ofile, file, orphans>>

\* sys_open() goes on with ip locked; sys_mkdir() and sys_mknod() put it.
Created(p) ==
    /\ At(p, "created")
    /\ IF pr[p].call.op = "create"
       THEN cache' = cache /\ Go(p, "opened", <<>>)
       ELSE cache' = iunlock(cache, pr[p].ip) /\ Go(p, "done", <<pr[p].ip>>)
    /\ UNCHANGED <<ino, cwd, ofile, file, stray, orphans>>

\* What the call asks of the inode that it found: create() of a name that exists
\* wants a file, open() for writing none that is a directory.
Suits(p, type) ==
    CASE pr[p].call.op = "create" -> type = "file"
      [] pr[p].call.op = "openw" -> type # "dir"
      [] pr[p].call.op = "open" -> TRUE
      [] OTHER -> FALSE

\* sys_open(), create() of a name that exists, exec() as far as it uses inodes.
Open(p) ==
    /\ At(p, "exists") \/ Found(p, {"open", "openw", "exec"})
    /\ LET i == IF pr[p].at = "exists" THEN pr[p].ip ELSE pr[p].w
           c == ilock(cache, p, i)
       IN /\ Unlocked(i)
          /\ IF Suits(p, c[i].type)
             THEN cache' = c /\ pr' = [pr EXCEPT ![p].at = "opened", ![p].ip = i]
             ELSE cache' = iunlock(c, i) /\ Go(p, "done", <<i>>)
    /\ UNCHANGED <<ino, cwd, ofile, file, stray, orphans>>

FreeFiles == {f \in 1..NFILE : file[f].ref = 0}
FreeFds(p) == {fd \in 1..NOFILE : ofile[p][fd] = 0}

\* filealloc(), fdalloc(); fileclose() and iunlockput() when one of them fails.
Opened(p) ==
    /\ At(p, "opened")
    /\ cache' = iunlock(cache, pr[p].ip)
    /\ IF FreeFiles = {} \/ FreeFds(p) = {}
       THEN Go(p, "done", <<pr[p].ip>>) /\ UNCHANGED <<file, ofile>>
       ELSE /\ file' = [file EXCEPT ![Min(FreeFiles)] = [ref |-> 1, ip |-> pr[p].ip]]
            /\ ofile' = [ofile EXCEPT ![p][Min(FreeFds(p))] = Min(FreeFiles)]
            /\ Go(p, "done", <<>>)
    /\ UNCHANGED <<ino, cwd, stray, orphans>>

\* sys_chdir() puts the old directory before it has the new one.
Chdir(p) ==
    /\ Found(p, {"chdir"})
    /\ LET i == pr[p].w
           c == ilock(cache, p, i)
       IN /\ Unlocked(i)
          /\ cache' = iunlock(c, i)
          /\ IF c[i].type = "dir" THEN Go(p, "done", <<cwd[p]>>) /\ cwd' = [cwd EXCEPT ![p] = i]
                                  ELSE Go(p, "done", <<i>>) /\ cwd' = cwd
    /\ UNCHANGED <<ino, ofile, file, stray, orphans>>

--------------------------------------------------------------------------------
(* Open files, processes, transactions, crashes.                           *)

\* The other processes that are in a transaction.
Outstanding(p) == {q \in Proc \ {p} : pr[q].at \notin {"idle", "exit"}}

\* end_op(); the last one commits.
EndOp(p) ==
    /\ At(p, "done")
    /\ disk' = IF Outstanding(p) = {} THEN [ino |-> ino, stray |-> stray] ELSE disk
    /\ pr' = [pr EXCEPT ![p] = IF pr[p].call.op = "exit" /\ cwd[p] # 0 THEN [Idle EXCEPT !.at = "exit", !.call = pr[p].call]
                               ELSE Idle]
    /\ UNCHANGED <<ino, cache, cwd, ofile, file, stray, orphans>>

\* fileclose(): the last reference puts the inode.
fileclose(p, fd) ==
    LET f == ofile[p][fd] IN
        /\ ofile' = [ofile EXCEPT ![p][fd] = 0]
        /\ file' = [file EXCEPT ![f] = IF @.ref = 1 THEN NoFile ELSE [@ EXCEPT !.ref = @ - 1]]
        /\ IF file[f].ref = 1 THEN Go(p, "done", <<file[f].ip>>) ELSE pr' = pr

\* sys_close().
Close(p) ==
    /\ pr[p].at = "idle"
    /\ \E fd \in 1..NOFILE \ FreeFds(p) : fileclose(p, fd)
    /\ UNCHANGED <<ino, cache, cwd, stray, orphans>>

\* sys_dup().
Dup(p) ==
    /\ pr[p].at = "idle" /\ FreeFds(p) # {}
    /\ \E fd \in 1..NOFILE \ FreeFds(p) :
        /\ ofile' = [ofile EXCEPT ![p][Min(FreeFds(p))] = ofile[p][fd]]
        /\ file' = [file EXCEPT ![ofile[p][fd]].ref = @ + 1]
    /\ UNCHANGED <<ino, cache, cwd, pr, stray, orphans>>

\* fork() shares the open files and the current directory.
Fork(p) ==
    /\ pr[p].at = "idle" /\ cwd[p] # 0
    /\ \E q \in Proc :
        /\ cwd[q] = 0 /\ pr[q].at = "idle"
        /\ cwd' = [cwd EXCEPT ![q] = cwd[p]]
        /\ ofile' = [ofile EXCEPT ![q] = ofile[p]]
    /\ file' = [f \in 1..NFILE |-> [file[f] EXCEPT !.ref = @ + Cardinality({fd \in 1..NOFILE : ofile[p][fd] = f})]]
    /\ cache' = iget(cache, cwd[p])
    /\ UNCHANGED <<ino, pr, stray, orphans>>

\* exit() closes the files of p one by one, then puts its directory.
Exit(p) ==
    /\ pr[p].at = "idle" /\ p # 1 /\ cwd[p] # 0
    /\ pr' = [pr EXCEPT ![p].at = "exit", ![p].call = [NoCall EXCEPT !.op = "exit"]]
    /\ UNCHANGED <<ino, cache, cwd, ofile, file, stray, orphans>>

ExitFiles(p) ==
    /\ pr[p].at = "exit"
    /\ IF FreeFds(p) # 1..NOFILE
       THEN fileclose(p, Min(1..NOFILE \ FreeFds(p))) /\ cwd' = cwd
       ELSE Go(p, "done", <<cwd[p]>>) /\ cwd' = [cwd EXCEPT ![p] = 0] /\ UNCHANGED <<ofile, file>>
    /\ UNCHANGED <<ino, cache, stray, orphans>>

\* begin_op() and the start of namex().
Call(p) ==
    /\ pr[p].at = "idle" /\ cwd[p] # 0
    /\ \E call \in Syscalls :
        LET w == Start(p, call.path) IN
            /\ pr' = [pr EXCEPT ![p] = [Idle EXCEPT !.at = "walk", !.call = call, !.w = w, !.path = call.path.names]]
            /\ cache' = iget(cache, w)
    /\ UNCHANGED <<ino, cwd, ofile, file, stray, orphans>>

\* Power fails; the log is replayed, init starts.
Crash ==
    /\ crashes < MaxCrashes /\ crashes' = crashes + 1
    /\ ino' = disk.ino /\ stray' = disk.stray /\ disk' = disk
    /\ cache' = [i \in Inum |-> IF i = Root THEN [Uncached EXCEPT !.ref = 1] ELSE Uncached]
    /\ cwd' = [p \in Proc |-> IF p = 1 THEN Root ELSE 0]
    /\ ofile' = [p \in Proc |-> [fd \in 1..NOFILE |-> 0]]
    /\ file' = [f \in 1..NFILE |-> NoFile]
    /\ pr' = [p \in Proc |-> Idle]
    /\ orphans' = {i \in Inum : disk.ino[i].type # "free" /\ disk.ino[i].nlink = 0}
    /\ UNCHANGED <<panic, calls>>

\* Steps that go on with a call, and steps that begin one.
Inside(p) ==
    \/ PutLock(p) \/ PutFree(p) \/ PutDrop(p) \/ Walk(p) \/ NotFound(p)
    \/ LinkOld(p) \/ LinkNew(p) \/ LinkFail(p) \/ LinkBad(p)
    \/ UnlinkDir(p) \/ Unlink(p) \/ UnlinkBad(p) \/ Unlinked(p)
    \/ CreateDir(p) \/ Create(p) \/ Created(p) \/ Open(p) \/ Opened(p) \/ Chdir(p) \/ ExitFiles(p)

Begins(p) == Call(p) \/ Close(p) \/ Dup(p) \/ Fork(p) \/ Exit(p)

\* The panic() calls: iget() without a free entry, ilock() of a free inode,
\* ialloc() without a free inode, unlink() of an inode without links.
PanicOf ==
    CASE Cardinality({i \in Inum : cache'[i].ref > 0}) > NINODE -> "iget: no inodes"
      [] \E i \in Inum : cache'[i].valid /\ cache'[i].type = "free" -> "ilock: no type"
      [] \E p \in Proc : pr'[p].at = "panic" -> "ialloc: no inodes"
      [] \E p \in Proc : pr'[p].at = "unlinked" /\ cache'[pr'[p].ip].nlink < 1 -> "unlink: nlink < 1"
      [] OTHER -> "none"

Next ==
    /\ panic = "none"
    /\ \/ \E p \in Proc : Inside(p) /\ panic' = PanicOf /\ UNCHANGED <<disk, calls, crashes>>
       \/ \E p \in Proc : EndOp(p) /\ UNCHANGED <<panic, calls, crashes>>
       \/ \E p \in Proc : /\ calls < MaxCalls /\ calls' = calls + 1
                          /\ Begins(p) /\ panic' = PanicOf /\ UNCHANGED <<disk, crashes>>
       \/ Crash

Spec == Init /\ [][Next]_fsVars

--------------------------------------------------------------------------------
(* Properties.                                                             *)

TypeOK ==
    /\ ino \in [Inum -> [type : {"free", "dir", "file", "dev"}, nlink : 0..Cardinality(Inum) + 2 * MaxCalls,
                         dent : [Name -> Inum \cup {0}]]]
    /\ \A i \in Inum : cache[i].lock \in Proc \cup {NoProc} /\ cache[i].ref \in Nat
    /\ cwd \in [Proc -> Inum \cup {0}]
    /\ \A p \in Proc : \A fd \in 1..NOFILE : ofile[p][fd] # 0 => file[ofile[p][fd]].ref > 0
    /\ stray \subseteq Inum /\ orphans \subseteq Inum

\* The entries that name i, and the directories in i by their "..".
Entries(d, i) == {e \in Inum \X Files : d.ino[e[1]].type = "dir" /\ d.ino[e[1]].dent[e[2]] = i}
Subdirs(d, i) ==
    {e \in Inum \ (d.stray \cup {Root}) : d.ino[e].type = "dir" /\ d.ino[e].nlink > 0 /\ d.ino[e].dent[".."] = i}

\* sysfile.c: every state that a crash can bring back has exact link counts and
\* entries that name inodes in use, whatever calls ran together, one of them failing
\* half-way included.  (mkfs gives the root one link of its own.)  Entries made in a
\* directory that is already removed are the exception.
DiskConsistent ==
    \A i \in Inum \ disk.stray :
        LET d == disk.ino[i] IN
            /\ d.type # "free" =>
                d.nlink = Cardinality(Entries(disk, i)) + Cardinality(Subdirs(disk, i)) + (IF i = Root THEN 1 ELSE 0)
            /\ d.type = "dir" /\ d.nlink > 0 =>
                \A n \in Name : d.dent[n] # 0 => disk.ino[d.dent[n]].type # "free"

Quiet == panic = "none" /\ \A p \in Proc : pr[p].at = "idle"

\* fs.c: between system calls the count of a cached inode is the number of its
\* users, and no inode is locked.
RefsExact ==
    Quiet => \A i \in Inum :
        /\ cache[i].ref = Cardinality({p \in Proc : cwd[p] = i}) + Cardinality({f \in 1..NFILE : file[f].ref > 0 /\ file[f].ip = i})
        /\ Unlocked(i)

Unused(i) == ino[i].type # "free" /\ ino[i].nlink = 0 /\ cache[i].ref = 0

\* fs.c, iput(): "If that was the last reference and the inode has no links to it,
\* free the inode".
Freed == Quiet => \A i \in Inum : ~Unused(i)

\* fs.c, iput(): an inode that nobody names and nobody uses is free, unless it was
\* in use at a crash or two processes put it at the same time.
Reclaimed == Quiet => \A i \in Inum : Unused(i) => i \in orphans

\* fs.c: the cached copy of an inode that nobody has locked is what the disk holds.
CacheCoherent ==
    panic = "none" => \A i \in Inum :
        cache[i].valid /\ Unlocked(i) => cache[i].type = ino[i].type /\ cache[i].nlink = ino[i].nlink

\* fs.c: ilock() meets a free inode only through the ".." of a removed directory, and
\* unlink() meets no inode without links.
PanicHasCause ==
    /\ panic # "unlink: nlink < 1"
    /\ panic = "ilock: no type" => \E i \in stray : cache[i].valid /\ cache[i].type = "free"

\* The inode whose lock p asks for next, and who has it.
Wants(p) ==
    IF pr[p].puts # <<>> THEN IF pr[p].phase = "lock" THEN Head(pr[p].puts) ELSE 0
    ELSE CASE pr[p].at = "walk" /\ pr[p].path # <<>> -> pr[p].w
           [] pr[p].at = "found" -> pr[p].w
           [] pr[p].at \in {"bad", "unlink", "create", "exists"} -> pr[p].ip
           [] OTHER -> 0

Holder(p) == IF Wants(p) = 0 THEN NoProc ELSE cache[Wants(p)].lock

Stuck(S) == S # {} /\ \A p \in S : Holder(p) \in S

\* usertests.c, linkunlink(), which looks for deadlocks: processes that link, unlink and create do not wait for
\* each other.
NoDeadlock == panic = "none" => \A S \in SUBSET Proc : ~Stuck(S)

\* fs.c, sysfile.c: processes that wait for each other's inodes are at a place where
\* a directory is put by someone who has locked one of its inodes, or the other way
\* round: the iunlockput(dp) of unlink() and create() and the iput() of dirlink().
WaitHasCause ==
    panic = "none" => \A S \in SUBSET Proc :
        Stuck(S) => \E p \in S : pr[p].at \in {"unlinked", "created", "linkfail"}

\* What the disk and the cache hold, and who uses it.
FilesConsistent == DiskConsistent /\ Reclaimed /\ CacheCoherent
InodesInUse == RefsExact /\ PanicHasCause
================================================================================
