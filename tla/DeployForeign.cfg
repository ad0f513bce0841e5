SPECIFICATION DeploySpec
CONSTANTS
    Key <- KeyValues
    Pipelines <- AllPipelines
    MaxRuns = 4
    Name <- MCMatches
    Own <- MCOwn
    Matches <- MCMatches
    Release <- MCRelease
    Routed <- MCRouted
    Previous <- ForeignPrevious
    Plans <- RetirePlans
    Replacing = {}
    Attempts = 2
    Fragile = {}
INVARIANT
    OwnOnly
CHECK_DEADLOCK FALSE
