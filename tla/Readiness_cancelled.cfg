SPECIFICATION Spec
CONSTANTS
    p1 = p1
    p2 = p2
    NoProbe = NoProbe
    Probes <- TwoProbes
    CacheFor = 5
    HealthTimeout = 2
INVARIANTS
    OthersLeavingIsNotHealth
