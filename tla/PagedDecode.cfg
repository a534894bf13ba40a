CONSTANTS
    Servers = {s1, s2}
    SingleTokens = {40}
    SeveralTokens = {}
    MaxContext = 64
    MaxCrashes = 1
CHECK_DEADLOCK FALSE
SPECIFICATION FairSpec
INVARIANTS ReadyIsRecorded AssemblesOnlyAsLastResort
PROPERTIES ShapeIsStable RequestEnds
