CONSTANTS
    NPROC = 2  NCPU = 2  Slice <- Slices  BoostInterval = 2  TickModulus = 2
    SleepFor = 1  Priorities = {0}  PidArgs = {0, 2}  MemoryFails = TRUE  MaxPid = 3
    Calls <- Everything
SPECIFICATION Spec
INVARIANT NoLostExit
CHECK_DEADLOCK FALSE
