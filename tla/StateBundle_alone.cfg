CONSTANTS
    Requests = {r1, r2, r3}
    Slots = {s1, s2}
    NumLayers = 3
    StaticIds = FALSE
    MaxRunning = 1
    MaxTokens = 2
    MaxRetracts = 1
    Diverging = {}
    LaunchFaults = FALSE
    Nobody = Nobody
    NaN = NaN
    Mixed = Mixed
    NoSlot = NoSlot
CHECK_DEADLOCK FALSE
SPECIFICATION FairSpec
INVARIANTS GuardsSilentAlone
PROPERTY EveryRequestServed
