CONSTANTS
    Requests = {r1, r2}
    Slots = {s1, s2}
    NumLayers = 2
    StaticIds = TRUE
    MaxRunning = 1
    MaxTokens = 2
    MaxRetracts = 0
    Diverging = {r1}
    LaunchFaults = FALSE
    Nobody = Nobody
    NaN = NaN
    Mixed = Mixed
    NoSlot = NoSlot
CHECK_DEADLOCK FALSE
SPECIFICATION Spec
INVARIANTS ClearedBeforeUse
