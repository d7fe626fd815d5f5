SPECIFICATION Spec
CONSTANTS
    Pages = {p1, p2}
    BuffersOffline = TRUE
    Trickling = {2}
    MaxConns = 3
    MaxClicks = 2
    MaxPeers = 3
    MaxFaults = 1
SYMMETRY Interchangeable
CHECK_DEADLOCK FALSE
INVARIANT TypeOK
INVARIANT RolesAreConnected
INVARIANT CasterIsRegistered
INVARIANT LeftIsNotShown
INVARIANT CandidatesReach
INVARIANT ServedUnlessAskedTwice
