CONSTANTS
    A = A  B = B  C = C  D = D
    Files = {A, B, C, D}
    Configs = {A, D}
    Layouts <- Chains
    Handles = {h}
    NoHandle = NoHandle
    WatchEnabled = TRUE
    MaxId = 3
    MaxRefs = 4
SPECIFICATION BoundedSpec
INVARIANTS
    DisposedOnceAndLast
    ReplacedIsDisposed
    ProgramsHeld
    OwnersAreUsers
    StopsExplained
SYMMETRY Alike
CHECK_DEADLOCK FALSE
