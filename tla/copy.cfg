SPECIFICATION Spec
CONSTANTS
    Res <- MCRes
    UsageFlags <- MCUsage
    CpuSync = {"out"}
    CpuThread <- MCCpuThread
    CpuRes <- MCCpuRes
    Patient = {"t1"}
    Copy <- MCCopy3
    CopyRes <- MCCopyRes
    C2H = {"c2h"}
    RescheduleInFlight = FALSE
    CardFails = TRUE
    RaceCardFailure = FALSE
    MaxInFlight = 1
INVARIANTS CpuLockedExact BusyOnlyWhilePending ExitReleases
PROPERTIES FailedDataNeverHandedOut
