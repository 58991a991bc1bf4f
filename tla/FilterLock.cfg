CONSTANTS NUM_THREADS = 2  NUM_ITERS = 1  StoreBufferSize = 2
SPECIFICATION FairSpec
INVARIANTS TypeOK
PROPERTIES Termination
CHECK_DEADLOCK FALSE
