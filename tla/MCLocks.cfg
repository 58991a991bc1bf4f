CONSTANTS NUM_THREADS = 4  NUM_ITERS = 2  StoreBufferSize = 2
SPECIFICATION LocksSpec
INVARIANTS TypeOK MutualExclusion FilterMutualExclusion
PROPERTIES AllJoined Refinement FilterRefinement
CHECK_DEADLOCK FALSE
