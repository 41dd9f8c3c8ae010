SPECIFICATION Spec
CONSTANTS
    Runs = {r1, r2, r3, r4}
    Times = {1, 2, 3}
    PerPage = 2
    MaxLimit = 2
    MaxInt = 7
    Pages = {0, 2, 6}
    Limits = {1, 3}
    Offsets = {0, 8}
SYMMETRY MCSymmetry
INVARIANTS
    OffsetsFit
    NothingMissed
    NextHasRuns
