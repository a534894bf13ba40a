CONSTANTS
    Pids = {p1, p2}
    Leader = p1
    MaxBirths = 2
    MaxSamples = 1
    MayDie = TRUE
    Overlap = FALSE
    NoPid = NoPid
CHECK_DEADLOCK FALSE
SPECIFICATION FairSpec
INVARIANTS RecordedEndIsEmpty NoSurvivorSpared
PROPERTIES ForeignOnlyInWindow KillAfterTerm CleanupEnds
