CONSTANTS
    Names = {A, B, C}
    Revs = {0, 1, 2}
    Spaces = {nsx, nsy, nsz}
    Dirs = {d1, d2}
    Sources <- Cyclic
    Builders = {b1}
    Memory = Memory
    Nil = Nil
    Flags = {FALSE}
    MaxCalls = 4
    A = A
    B = B
    C = C
    d1 = d1
    d2 = d2
    nsx = nsx
    nsy = nsy
    nsz = nsz
SPECIFICATION Spec
INVARIANT ImportsAcyclic
CHECK_DEADLOCK FALSE
