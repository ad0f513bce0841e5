SPECIFICATION SessionFairSpec
CONSTANTS
    k1 = k1
    Key <- MCKey
    Pipelines <- MCPipelines
    MaxRuns = 20
    TypeAhead = TRUE
    MaxReruns = 2
    MaxSends = 1
INVARIANTS
    Consent
    PanelInSync
    HonestVerdict
PROPERTIES
    FreshAnswers
    SessionEnds
CHECK_DEADLOCK FALSE
