SPECIFICATION FairSpec
CONSTANTS
    None = None
    w1 = w1
    s1 = s1
    Waiters <- MCWaiters
    Stoppers <- MCStoppers
INVARIANTS
    TimeoutTold
    OneTrueAnswer
PROPERTIES
    ProgramEnds
    StopReturns
CHECK_DEADLOCK FALSE
