SPECIFICATION FairSpec
CONSTANTS
    OldFiles <- MCOldFiles
    NewFiles <- MCNewFiles
    RemovalRank <- MCRemovalRank
    InstallRank <- MCInstallRank
    Metadata = "METADATA"
    Finder = "pth"
    Paths = {"default", "other"}
    DefaultPath = "default"
    Commands = {"recover", "rollback"}
    MaxFaults = 2
    MaxCrashes = 3
INVARIANTS
    BackedUpBeforeRemoval
    RolledBackIsRestored
    JournalTellsPrefix
PROPERTIES
    OnlyRollbackUndoes
    PrefixFrozenUnderConsumer
    ImplementsSwitch
    Settles
CHECK_DEADLOCK FALSE
