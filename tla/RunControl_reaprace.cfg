CONSTANTS
    Pids = {p1}
    Leader = p1
    MaxBirths = 0
    Modes = {"guarded"}
    MaxInterrupts = 0
    MaxPauses = 0
    Stopper = FALSE
CHECK_DEADLOCK FALSE
SPECIFICATION Spec
INVARIANT ChildExitIsNoError
