SPECIFICATION WrapperFairSpec
CONSTANTS
    Calls = {c1, c2, c3}
    Values <- MCValues
    Costs <- MCCosts
    CycleRange = 8
    MaxClock = 6
CHECK_DEADLOCK FALSE
INVARIANTS
    WrapperTypeOK
    LoadedOnce
    SameOutcome
PROPERTIES
    CallsSettle
