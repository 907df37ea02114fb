CONSTANTS
    Threads = {t1, t2}
    GC = gc
    Handles = {h1}
    NoHandle = NoHandle
    UseAfterClose = TRUE
    StaleRelease = FALSE
SPECIFICATION Spec
INVARIANT FailClosed
