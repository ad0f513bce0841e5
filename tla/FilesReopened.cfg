SPECIFICATION Spec
CONSTANTS
    None = None
    w1 = w1
    w2 = w2
    Writers <- MCWriters
    Jobs <- MCLocal
    Old <- MCOld
    Drops = FALSE
    ReplaceAttempts = 2
INVARIANT
    ClosedInPlace
CHECK_DEADLOCK FALSE
