CONSTANTS
    Proc = {1, 2}  Inum = {1, 2, 3, 4}  NINODE = 4  NFILE = 2  NOFILE = 1  Files = {"x", "y"}
    Images <- CatImage  Syscalls <- OpenUnlink  MaxCalls = 4  MaxCrashes = 0
SPECIFICATION Spec
INVARIANT Freed
CHECK_DEADLOCK FALSE
