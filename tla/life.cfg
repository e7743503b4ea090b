CONSTANTS
    Ctx = {c1, c2}
    Mortal = {c1}
    Used = {c1}
    MaxOps = 1
    MaxDeaths = 2
    MaxFails = 1
SPECIFICATION FairSpec
INVARIANTS EndsRight
PROPERTIES CallsReturn FinEnds
CHECK_DEADLOCK FALSE
