SPECIFICATION Spec
CONSTANTS
    h = h
    g = g
    v = v
    Pages = {h, g}
    Hosts = {h}
    NoPage = NoPage
    Kinds = {v}
    MaxShares = 2
    Losing = {h}
    Trickling = {g}
    MaxPCs = 2
CHECK_DEADLOCK FALSE
INVARIANT TypeOK
INVARIANT RequestIsAnswered
INVARIANT RolesAgree
INVARIANT CandidatesReach
INVARIANT CaptureReleased
INVARIANT HostIsHeard
INVARIANT GuestsSee
