CONSTANTS NUM_THREADS = 2  NUM_ITERS = 1  StoreBufferSize = 2
SPECIFICATION Spec
INVARIANT MutualExclusion
CHECK_DEADLOCK FALSE
