CONSTANTS
    a1 = a1
    a2 = a2
    a3 = a3
    AgentId <- ThreeAgents
    NoCapability = NoCapability
    Profile <- MCProfile
    Latency <- MCLatency
    QoS <- MCQoS
    DefaultTransfer = 1
    MergeOverhead = 2
    VotingOverhead = 1
    TightLatency = 5
    Parallelism = 2
    CascadeDepth = 2
    MaxRoutes = 2
SPECIFICATION Spec
SYMMETRY Symmetry
INVARIANTS
    RouteIsSound
    FailureIsFinal
    BellmanFordIsExact
    FrontSuffices
    ListHoldsTheBest
