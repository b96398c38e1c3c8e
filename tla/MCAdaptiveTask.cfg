SPECIFICATION Spec
CONSTANTS
    low = low
    high = high
    MaxOperations = 3
    Routes <- MCRoutes
    FirstRoute = low
    LastRuntime = 2
    Limit = 1
    RingSize = 1
    MaxRevision = 3
    MaxPicks = 1
CONSTRAINT Focus
INVARIANTS
    AppliedOnce
    ToolGone
PROPERTIES
    NothingAfterRevocation
    TurnEnds
    ImplementsGrant
CHECK_DEADLOCK FALSE
