CONSTANTS
    t1 = t1
    a1 = a1
    a2 = a2
    w1 = w1
    w2 = w2
    Task <- OneTask
    Agent <- TwoAgents
    Worker <- TwoWorkers
    Version <- TwoVersions
    MaxHistory = 3
    AgentThreshold = 2
    Window = 2
    MaxWait = 2
SPECIFICATION WorkersSpec
SYMMETRY Symmetric
INVARIANTS
    ResumesFromNewest
    NoOrphanHistory
    CondemnedFairly
    NoMissedPoison
