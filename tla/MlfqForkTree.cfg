CONSTANTS
    NPROC = 4  NCPU = 2  Slice <- Slices  BoostInterval = 2  TickModulus = 2
    SleepFor = 1  Priorities = {0}  PidArgs = {2}  MemoryFails = FALSE  MaxPid = 3
    Calls <- ForkTree
SPECIFICATION Spec
INVARIANTS TypeOK OneQueue NoFault OneCpu
