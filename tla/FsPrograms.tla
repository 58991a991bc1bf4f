-------------------------------- MODULE FsPrograms -----------------------------
(***************************************************************************)
(* States of the disk that mkfs and earlier programs leave, and calls.     *)
(***************************************************************************)
EXTENDS Naturals

Abs(names) == [abs |-> TRUE, names |-> names]
Rel(names) == [abs |-> FALSE, names |-> names]

Sys(op, path) == [op |-> op, path |-> path, new |-> Abs(<<>>)]
Link(old, new) == [op |-> "link", path |-> old, new |-> new]

\* A directory with the inodes that x and y name, 0 for none; a file; a free inode.
Directory(self, up, nlink, x, y) ==
    [type |-> "dir", nlink |-> nlink,
     dent |-> [n \in {".", "..", "x", "y"} |-> CASE n = "." -> self [] n = ".." -> up [] n = "x" -> x [] n = "y" -> y]]
NoDent == [n \in {".", "..", "x", "y"} |-> 0]
Reg(nlink) == [type |-> "file", nlink |-> nlink, dent |-> NoDent]
Free == [type |-> "free", nlink |-> 0, dent |-> NoDent]

\* An empty file system and init alone; two names of a file; a file, or an
\* empty directory in which the second process is, in a directory x.
EmptyImage == [ino |-> <<Directory(1, 1, 1, 0, 0), Free, Free, Free>>, cwd |-> <<1, 0>>]
LinkImage == [ino |-> <<Directory(1, 1, 1, 2, 2), Reg(2), Free, Free>>, cwd |-> <<1, 1>>]
FileImage == [ino |-> <<Directory(1, 1, 2, 2, 0), Directory(2, 1, 1, 3, 0), Reg(1), Free>>, cwd |-> <<1, 2>>]
DirImage == [ino |-> <<Directory(1, 1, 2, 2, 0), Directory(2, 1, 2, 3, 0), Directory(3, 2, 1, 0, 0), Free>>, cwd |-> <<1, 3>>]
TreeImages == {EmptyImage, LinkImage, FileImage, DirImage}

\* Calls on a tree of two levels.
TreeCalls ==
    {Link(Rel(<<"x">>), Abs(<<"y">>)), Link(Abs(<<"x", "x">>), Abs(<<"x", ".">>)),
     Link(Abs(<<"y">>), Rel(<<"x", "y">>)),
     Sys("unlink", Rel(<<"x">>)), Sys("unlink", Abs(<<"x", "x">>)),
     Sys("create", Rel(<<"x">>)), Sys("create", Abs(<<"x", "x">>)), Sys("mkdir", Rel(<<"x">>)), Sys("mknod", Abs(<<"y">>)),
     Sys("open", Abs(<<"x", "x">>)), Sys("openw", Rel(<<"x">>)), Sys("chdir", Rel(<<"..">>)), Sys("chdir", Abs(<<>>)),
     Sys("exec", Abs(<<"y">>))}

\* linkunlink() of usertests.c: y stands for cat.
CatImage == {[ino |-> <<Directory(1, 1, 1, 0, 2), Reg(1), Free, Free>>, cwd |-> <<1, 1>>]}
LinkUnlink == {Sys("create", Rel(<<"x">>)), Link(Rel(<<"y">>), Rel(<<"x">>)), Sys("unlink", Rel(<<"x">>))}

\* A file is removed while another process closes it.
OpenUnlink == {Sys("open", Rel(<<"y">>)), Sys("unlink", Rel(<<"y">>))}
================================================================================
