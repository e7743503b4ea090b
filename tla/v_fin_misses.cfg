CONSTANTS
    Ctx = {c1, c2, c3}
    Mortal = {}
    Used = {}
    MaxOps = 0
    MaxDeaths = 0
    MaxFails = 0
SPECIFICATION Spec
INVARIANTS FinWaitsForAll
CHECK_DEADLOCK FALSE
