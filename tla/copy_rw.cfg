SPECIFICATION FairSpec
CONSTANTS
    Res = {"inout"}
    UsageFlags <- RWUsage
    CpuSync = {}
    CpuThread <- OneThread
    CpuRes <- RWCpuRes
    Patient = {"t1"}
    Copy <- RWCopy
    CopyRes <- RWCopyRes
    C2H = {"w"}
    RescheduleInFlight = FALSE
    CardFails = FALSE
    RaceCardFailure = FALSE
    MaxInFlight = 1
INVARIANTS ReadersExact DmaExclusion
PROPERTIES ImplementsRWLock WaitEnds
