SPECIFICATION FairSpec
CONSTANTS
    k1 = k1
    k2 = k2
    Key <- MCKey
    Pipelines <- MCPipelines
    MaxRuns = 4
INVARIANTS
    InputsWired
    RerunSeesOriginalInputs
    FailFast
PROPERTIES
    Descends
    RunReturns
CHECK_DEADLOCK FALSE
