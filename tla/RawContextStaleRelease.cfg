CONSTANTS
    Threads = {t1, t2}
    GC = gc
    Handles = {h1, h2}
    NoHandle = NoHandle
    UseAfterClose = FALSE
    StaleRelease = TRUE
SPECIFICATION Spec
SYMMETRY Symmetry
INVARIANT ContextOutlivesHolders
