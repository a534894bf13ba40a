SPECIFICATION Spec
CONSTANTS
    main = main
    worker = worker
    neg = neg
    add = add
    Threads <- MCThreads
    Programs <- MCPrograms
    Jobs <- CompileAndSwiglu
    MaxCalls = 2
    MaxWindows = 1
    MaxFaults = 1
    None = None
INVARIANTS
    NoCircularWait
CHECK_DEADLOCK FALSE
