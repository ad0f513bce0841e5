SPECIFICATION FairSpec
CONSTANTS
    a = a
    b = b
    c = c
    h1 = h1
    h2 = h2
    Proc <- MCProc
    Host <- MCHost
    HostOf <- MCHostOf
    Waits <- MCWaits
    Verifiable = TRUE
    StaleAfter = TRUE
    MaxClaims = 1
INVARIANTS
    SoleHolderNamed
    StaleMeansDead
PROPERTIES
    CrashNeverWedges
CHECK_DEADLOCK FALSE
