CONSTANTS
    a1 = a1
    a2 = a2
    c1 = c1
    c2 = c2
    Agent <- OneAgent
    Caller <- TwoCallers
    Threshold = 2
    Cooldown = 2
    MaxFailures = 4
SPECIFICATION BreakerSpec
INVARIANT
    AtMostOneProbe
