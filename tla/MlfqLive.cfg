CONSTANTS
    NPROC = 4  NCPU = 1  Slice <- Slices  BoostInterval = 4  TickModulus = 4
    SleepFor = 1  Priorities = {0}  PidArgs = {2, 3}  MemoryFails = FALSE  MaxPid = 3
    Calls <- Monopoly
SPECIFICATION FairSpec
PROPERTIES MonopolyIsExclusive MonopolyEnds DemotedAfterQuantum NobodyStarves
CHECK_DEADLOCK FALSE
