CONSTANTS
    Boxes = {b1, b2}
    Leaves = {f1}
    Entries = {e1, e2}
    Items = {i1}
    Trees = {t1, t2}
    Handles = {l1, l2}
    Documents <- SmallDocuments
    Nil = Nil
    MaxMutations = 3
    PartialFailure = TRUE
    KeepConsumed = FALSE
    b1 = b1
    b2 = b2
    f1 = f1
    e1 = e1
    e2 = e2
    i1 = i1
SPECIFICATION Spec
SYMMETRY Symmetry
INVARIANT FreshMeansUnchanged
CHECK_DEADLOCK FALSE
