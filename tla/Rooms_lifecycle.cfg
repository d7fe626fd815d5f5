SPECIFICATION FairSpec
CONSTANTS
    RoomIds = {r1, r2}
    IPs = {ip1, ip2}
    Peers = {p1, p2}
    NoRoom = NoRoom
    NoIP = NoIP
    NoPeer = NoPeer
    PCMayFail = TRUE
CHECK_DEADLOCK FALSE
PROPERTIES
    ImplementsLifecycle
    AbandonedIsClosed
    LeavingCompletes
