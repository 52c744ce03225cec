CONSTANTS
    MaxRestores = 1
    MaxFaults = 0
SPECIFICATION SecondInstanceSpec
INVARIANTS MarkerJournalled
CHECK_DEADLOCK FALSE
