CONSTANTS
    MaxRestores = 3
    MaxFaults = 4
SPECIFICATION FairSpec
INVARIANTS NoGenerationSplit FilesOfDatabaseKept RecoveryNeverRefuses NothingLeftOver
PROPERTIES CommitIsFinal EventuallyAccepting
CHECK_DEADLOCK FALSE
