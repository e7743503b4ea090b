CONSTANTS
    MaxId = 2
    Two32 = 5
    Thread <- MCThread
    Builder = "t1"
    Does <- MCDoes
    Page = 2
    Sizes <- MCSizes
    MaxCalls <- MCCalls
    MaxFails = 1
SPECIFICATION NetSpec
INVARIANTS FreeExact RequestsRight ResourcesRight AnswerIsOwn
PROPERTIES CallReturns
CHECK_DEADLOCK FALSE
