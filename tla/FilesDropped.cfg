SPECIFICATION Spec
CONSTANTS
    None = None
    w1 = w1
    w2 = w2
    Writers <- MCOne
    Jobs <- MCRemote
    Old <- MCOld
    Drops = TRUE
    ReplaceAttempts = 2
PROPERTY
    WritesAtomically
CHECK_DEADLOCK FALSE
