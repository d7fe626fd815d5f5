SPECIFICATION Spec
CONSTANTS
    RoomIds = {r1}
    IPs = {ip1}
    Peers = {p1, p2}
    NoRoom = NoRoom
    NoIP = NoIP
    NoPeer = NoPeer
    PCMayFail = FALSE
CHECK_DEADLOCK FALSE
INVARIANT LiveHasPublisher
