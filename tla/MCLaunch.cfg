SPECIFICATION FairSpec
CONSTANTS
    None = None
    t1 = t1
    t2 = t2
    r1 = r1
    Panels <- MCPanels
    Launchers <- MCLaunchers
    Runs <- MCRuns
    MaxLives = 2
INVARIANTS
    ListsTheLiving
    OneDriver
PROPERTY
    NoWaitForTheDead
CHECK_DEADLOCK FALSE
