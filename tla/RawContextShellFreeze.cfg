CONSTANTS
    Threads = {t1, t2, t3}
    GC = gc
    Handles = {h1, h2}
    NoHandle = NoHandle
    UseAfterClose = FALSE
    StaleRelease = FALSE
SPECIFICATION Spec
SYMMETRY Symmetry
INVARIANT NoParseDuringLoad
