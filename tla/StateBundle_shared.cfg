CONSTANTS
    Requests = {r1, r2, r3}
    Slots = {s1, s2}
    NumLayers = 2
    StaticIds = TRUE
    MaxRunning = 2
    MaxTokens = 3
    MaxRetracts = 1
    Diverging = {}
    LaunchFaults = TRUE
    Nobody = Nobody
    NaN = NaN
    Mixed = Mixed
    NoSlot = NoSlot
CHECK_DEADLOCK FALSE
SPECIFICATION Spec
SYMMETRY MCSymmetry
INVARIANTS OwnState NoLeftoverClear
PROPERTY ImplementsPrivateState
