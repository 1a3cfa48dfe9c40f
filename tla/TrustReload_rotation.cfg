SPECIFICATION FairSpec
CONSTANTS
    p1 = p1
    p2 = p2
    r1 = r1
    r2 = r2
    k1 = k1
    poller = poller
    Pairs <- MCPairs
    Began <- MCBegan
    Lasting = {p1}
    Roots <- MCRoots
    Versions <- MCVersions
    First <- Old
    NoRoot = NoRoot
    Missing = Missing
    Poller <- poller
    Callers <- OneCaller
    Conns <- OneConn
INVARIANTS
    InForceIsValid
    TrackerIsExact
    RetiredClosed
PROPERTIES
    TrustedStaysOpen
    Converges
    StopReturns
