SPECIFICATION DeployFairSpec
CONSTANTS
    Key <- KeyValues
    Pipelines <- AllPipelines
    MaxRuns = 5
    Name <- MCMatches
    Own <- MCOwn
    Matches <- MCMatches
    Release <- MCRelease
    Routed <- MCRouted
    Previous <- MCPrevious
    Plans <- MCPlans
    Replacing <- MCReplacing
    Attempts = 2
    Fragile <- MCFragile
INVARIANTS
    NoOutage
    TrafficServed
    OneRelease
    SchemaFirst
PROPERTIES
    RehearsalTouchesNothing
    DeployReturns
CHECK_DEADLOCK FALSE
