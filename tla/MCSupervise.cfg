SPECIFICATION Spec
CONSTANTS
    Policies <- MCPolicies
    MaxCalls = 10
INVARIANTS
    AttemptsBounded
    DelayBounded
PROPERTIES
    NoCallAfterCancel
CHECK_DEADLOCK FALSE
