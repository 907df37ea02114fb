CONSTANTS
    Names = {A, B, C}
    Revs = {0, 1, 2}
    Spaces = {nsx, nsy, nsz}
    Dirs = {d1, d2}
    Sources <- Amendments
    Builders = {b1, b2}
    Memory = Memory
    Nil = Nil
    Flags = {TRUE, FALSE}
    MaxCalls = 3
    A = A
    B = B
    C = C
    d1 = d1
    d2 = d2
    nsx = nsx
    nsy = nsy
    nsz = nsz
SPECIFICATION Spec
INVARIANTS FailedLoadInvisible ImportsBound DefaultIsBest NamespaceOwned AmendmentsComplete
PROPERTIES FrozenIsReadOnly CallsReturn
CHECK_DEADLOCK FALSE
