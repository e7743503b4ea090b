CONSTANTS
    Page = 1
    MaxBlock = 2
    Size = 7
    Two64 = 16
    Offsets = {0, 1, 4, 8, 15}
    MaxLen = 8
    MaxFails = 3
SPECIFICATION FairSpec
INVARIANTS BlocksRight LoadRight
PROPERTIES LoadEnds
CHECK_DEADLOCK FALSE
