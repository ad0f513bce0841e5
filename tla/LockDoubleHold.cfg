SPECIFICATION Spec
CONSTANTS
    a = a
    b = b
    c = c
    h1 = h1
    h2 = h2
    Proc <- MCPair
    Host <- MCHost
    HostOf <- MCPairHostOf
    Waits <- MCPairWaits
    Verifiable = TRUE
    StaleAfter = TRUE
    MaxClaims = 2
INVARIANT
    MutualExclusion
CHECK_DEADLOCK FALSE
