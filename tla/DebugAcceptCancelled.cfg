SPECIFICATION SessionSpec
CONSTANTS
    k1 = k1
    Key <- MCKey
    Pipelines <- MCPipelines
    MaxRuns = 20
    TypeAhead = FALSE
    MaxReruns = 0
    MaxSends = 0
INVARIANT
    AcceptReturns
CHECK_DEADLOCK FALSE
