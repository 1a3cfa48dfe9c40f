SPECIFICATION FairSpec

CONSTANTS
    Unreadable = Unreadable
    h1 = h1
    h2 = h2
    Inputs <- MCInputs
    Handlers = {h1, h2}

INVARIANTS
    PlaintextOnlyInDevelopment
    RotationCoversConnections
    ConnectionsOutliveHandlers
    ExitZeroIsClean
    StartedIsStopped

PROPERTIES
    DeadListenerExits
    StopExits
