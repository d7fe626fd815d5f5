SPECIFICATION Spec
CONSTANTS
    Conns = {c1, c2, c3}
    Hosts = {c1, c2}
    Guests = {c3}
    Tracks = {t1}
    NoConn = NoConn
    MaxHostPCs = 2
    MaxGuestPCs = 3
SYMMETRY Interchangeable
CHECK_DEADLOCK FALSE
INVARIANT LiveReachesAll
