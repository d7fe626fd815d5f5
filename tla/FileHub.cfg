SPECIFICATION FairSpec
CONSTANTS
    Pages = {p1, p2}
    BuffersOffline = FALSE
    Trickling = {1}
    MaxConns = 2
    MaxClicks = 2
    MaxPeers = 2
    MaxFaults = 2
    Capacity = 2
CHECK_DEADLOCK FALSE
INVARIANT TypeOK
INVARIANT RegisteredAreServed
INVARIANT CasterIsRegistered
INVARIANT WaitingAreKnown
INVARIANT LeftPeersAreClosed
PROPERTY CleanupCompletes
