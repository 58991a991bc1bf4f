---------------------------------- MODULE MCFs ---------------------------------
(***************************************************************************)
(* The file system calls of two processes on a small disk.                 *)
(***************************************************************************)
EXTENDS Fs, FsPrograms
================================================================================
