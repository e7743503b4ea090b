CONSTANTS
    Kinds <- MCAllKinds
    PageSize = 36
    MaxBatch = 2
    Overlap = FALSE
    MaxCmds = 3
    MaxOverwrites = 2
    MaxSends = 2
    MaxFailures = 1
SPECIFICATION EditsSpec
INVARIANTS BatchesRight EditsRight CardUpToDate
CHECK_DEADLOCK FALSE
