CONSTANTS
    Pids = {p1, p2}
    Leader = p1
    MaxBirths = 2
    Modes = {"plain", "coexistence", "guarded"}
    MaxInterrupts = 2
    MaxPauses = 1
    Stopper = TRUE
CHECK_DEADLOCK FALSE
SPECIFICATION FairSpec
INVARIANTS ExitedMeansEmpty PausedMeansStopped
PROPERTIES ForeignOnlyInWindow PauseAndInterruptEnd
