CONSTANTS
    Waiter = {w1}
    RingPages = 2
    MaxErrors = 3
    MaxEvents = 3
    MaxQueries = 2
    MaxFails = 1
SPECIFICATION FairSpec
INVARIANTS PacketsRight ErrorNotForgotten
PROPERTIES QueryEnds
CHECK_DEADLOCK FALSE
