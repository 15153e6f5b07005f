CONSTANTS
    a1 = a1
    w1 = w1
    w2 = w2
    Agent <- OneAgent
    HandlerThread <- TwoWorkers
    Depth <- TwoDepths
    QueueThreshold = 0
    Timeout = 1
    MaxSeq = 1
    MaxStall = 1
SPECIFICATION FairSpec
INVARIANTS
    SuspicionJustified
PROPERTY
    RevivalIsNews
    FailureDetected
