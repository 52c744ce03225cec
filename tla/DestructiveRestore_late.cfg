CONSTANTS
    MaxRestores = 1
    MaxFaults = 0
SPECIFICATION LateCommitSpec
INVARIANTS NoGenerationSplit
CHECK_DEADLOCK FALSE
