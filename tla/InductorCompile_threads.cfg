SPECIFICATION FairSpec
CONSTANTS
    main = main
    worker = worker
    neg = neg
    add = add
    Threads <- MCThreads
    Programs <- MCPrograms
    Jobs <- AllJobs
    MaxCalls = 3
    MaxWindows = 2
    MaxFaults = 1
    None = None
INVARIANTS
    CaptureIsOwn
    CallablesReady
    WrappersReady
    OneExecutable
    PrewarmedBeforeTrace
    CircularWaitIsCapture
CHECK_DEADLOCK FALSE
PROPERTY CallsReturn
