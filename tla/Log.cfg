CONSTANTS
    Op = {p1, p2}  Block = {a, b, c}  Value = {0, 1}
    LOGSIZE = 3  MAXOPBLOCKS = 1  LogBlocks = 3
SPECIFICATION FairSpec
INVARIANTS TypeOK Durable SleepersAwaited SpaceReserved
PROPERTIES Atomicity Admitted
CHECK_DEADLOCK FALSE
