CONSTANTS
    Threads = {t1, t2}
    GC = gc
    Handles = {h1}
    NoHandle = NoHandle
    UseAfterClose = TRUE
    StaleRelease = TRUE
SPECIFICATION FairSpec
INVARIANTS DestroyedOnce LoadsAlone NoLeak
PROPERTY Reclaimed
