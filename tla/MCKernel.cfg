CONSTANTS
    NPROC = 2
    NPages = 9
    MaxSz = 2
    NPTE = 1
    Val = {0, 1}
SPECIFICATION KernelSpec
INVARIANTS
    KernelTypeOK References MemoryOwned StacksOwned ThreadsEnd SleepersWait
    FilesConsistent InodesInUse InodeWaits
    FileBlocks BlocksCached TypedRuns LocksGuarded
PROPERTIES
    Isolation IsChannel IsByteArray IsLineInput
CHECK_DEADLOCK FALSE
