SPECIFICATION Spec
CONSTANTS
    OldFiles <- MCOldFiles
    NewFiles <- MCNewFiles
    RemovalRank <- MCRemovalRank
    InstallRank <- MCInstallRank
    Metadata = "METADATA"
    Finder = "pth"
    Paths = {"default", "other"}
    DefaultPath = "default"
    Commands = {"recover", "rollback"}
    MaxFaults = 0
    MaxCrashes = 0
INVARIANTS
    FinishedUnlessInterrupted
CHECK_DEADLOCK FALSE
