SPECIFICATION Spec
CONSTANTS
    one = one
    two = two
    Auditors <- MCAuditors
    Events <- MCEvents
    Manifests <- MCManifests
    MaxFaults = 1
    MaxRemovals = 1
    Nobody = Nobody
SYMMETRY Symmetry
INVARIANTS
    PassedIsEarned
    PoisonNeverPasses
PROPERTIES
    FinalReportImmutable
    ImplementsOwnedReport
CHECK_DEADLOCK FALSE
