CONSTANTS
    Mod = 3
    Waiter = {w1, w2}
    Patient = {w1}
    Shared = FALSE
    MaxCycle = 2
    MaxFails = 1
    MaxBreaks = 1
SPECIFICATION FairSpec
INVARIANTS DoneIsDone
PROPERTIES BrokenIsFailed WaitMarkerReturns
CHECK_DEADLOCK FALSE
