CONSTANTS
    Thread <- MCThread
    Does <- MCDoes
    MaxId = 1
    MaxCreates <- MCCreates
    MaxBreaks = 1
    MaxRecovers = 1
    CardDies = TRUE
SPECIFICATION FairSpec
INVARIANTS IdsRight FinalizeCountExact AnswerIsMineUnlessRecovered
PROPERTIES CreateEndsUnlessRecovered RecoverEndsWhileAlive
CHECK_DEADLOCK FALSE
