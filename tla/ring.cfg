SPECIFICATION RingFairSpec
CONSTANTS
    p1 = p1 p2 = p2 p3 = p3
    N = 2
    Producer <- MCProducer
    Pages <- MCPages
    Fails = TRUE
INVARIANTS CountExact
PROPERTIES ImplementsFifo CommandEnds
CHECK_DEADLOCK FALSE
