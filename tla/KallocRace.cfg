\* Two processors allocate and free at the same time.
CONSTANTS
    NCPU = 2
    LowPages = 3
    NPages = 5
    Allocating = {0, 1}
SPECIFICATION Spec
INVARIANT PagesConserved
