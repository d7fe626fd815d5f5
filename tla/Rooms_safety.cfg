SPECIFICATION Spec
CONSTANTS
    RoomIds = {r1, r2, r3}
    IPs = {ip1, ip2}
    Peers = {p1, p2, p3}
    NoRoom = NoRoom
    NoIP = NoIP
    NoPeer = NoPeer
    PCMayFail = TRUE
SYMMETRY Interchangeable
CHECK_DEADLOCK FALSE
INVARIANTS
    TypeOK
    OneRoomPerIP
    UnlistedIsClosed
    ClosedIsEmpty
    MembersHaveSessions
    HostKeepsSlot
    AbandonedIsUnlisted
