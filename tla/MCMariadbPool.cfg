SPECIFICATION Spec
CONSTANTS
    Conns = {c1, c2, c3, c4, c5}
    MaxSize = 4
    DefaultMin = 2
    FailureSets <- AllOrNone
SYMMETRY ConnSymmetry
INVARIANTS CountsRight Exclusive NoFreedUse
CHECK_DEADLOCK FALSE
