SPECIFICATION Spec
CONSTANTS
    Keys = {1, 2, 3}
    Wants <- MCWants
    Reserves <- MCReserves
    MaxMeddling = 1
INVARIANTS
    Converged
    BoundaryKnown
    OnlyWhatWasAsked
CHECK_DEADLOCK FALSE
