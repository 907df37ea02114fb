CONSTANTS
    Threads = {t1, t2}
    GC = gc
    Handles = {h1, h2}
    NoHandle = NoHandle
    UseAfterClose = FALSE
    StaleRelease = FALSE
SPECIFICATION Spec
SYMMETRY Symmetry
INVARIANTS TypeOK LiveCounts NoUseAfterDestroy ContextOutlivesHolders
PROPERTY KeepsLifecycle
