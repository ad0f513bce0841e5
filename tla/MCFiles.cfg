SPECIFICATION Spec
CONSTANTS
    None = None
    w1 = w1
    w2 = w2
    Writers <- MCWriters
    Jobs <- MCJobs
    Old <- MCOld
    Drops = FALSE
    ReplaceAttempts = 2
INVARIANTS
    NeverExposed
    NoLitter
PROPERTY
    WritesAtomically
CHECK_DEADLOCK FALSE
