SPECIFICATION Spec
CONSTANTS
    Table = {k, p, q}
    Kernel = k
    Section = {1, 2}
    KernSection = {1}
    Frame = {1, 2}
    Asid = {0, 1, 2, 64}
    Pid = {64, 5134}
    Perm = {1}
    NoTable = NoTable
    MaxMaps = 2
INVARIANTS
    TlbTrue
    RightSpace
