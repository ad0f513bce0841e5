SPECIFICATION DeploySpec
CONSTANTS
    Key <- KeyValues
    Pipelines <- AllPipelines
    MaxRuns = 4
    Name <- MCMatches
    Own <- MCOwn
    Matches <- MCMatches
    Release <- MCRelease
    Routed <- MCRouted
    Previous <- MCPrevious
    Plans <- PublishPlans
    Replacing = {}
    Attempts = 2
    Fragile = {}
INVARIANT
    NilMeansDone
CHECK_DEADLOCK FALSE
