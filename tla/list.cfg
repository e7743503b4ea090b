CONSTANTS
    Res <- MCListRes
    UsageFlags <- MCFlags
    CpuSync = {}
    CpuThread = {}
    CpuRes <- MCNoThread
    Patient = {}
    Copy <- MCCopies
    CopyRes <- MCResOf
    C2H = {"c", "s"}
    Vec <- MCVec
    Solo = {"s"}
    ClearInFlight = FALSE
    FailInClear = FALSE
    MaxRuns = 2
    MaxSolos = 1
    MaxFails = 1
    MaxQueued = 1
    MaxBreaks = 1
SPECIFICATION FairSpec
INVARIANTS LockHeldOnCard ListRight
PROPERTIES NoFailureMissed CallsEnd
CHECK_DEADLOCK FALSE
