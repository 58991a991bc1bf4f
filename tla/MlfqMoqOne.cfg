CONSTANTS
    NPROC = 3  NCPU = 1  Slice <- Slices  BoostInterval = 3  TickModulus = 3
    SleepFor = 1  Priorities = {0}  PidArgs = {2}  MemoryFails = FALSE  MaxPid = 2
    Calls <- Monopoly
SPECIFICATION Spec
PROPERTY MonopolyLasts
CHECK_DEADLOCK FALSE
