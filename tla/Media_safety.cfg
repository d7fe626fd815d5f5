SPECIFICATION Spec
CONSTANTS
    Conns = {c1, c2}
    Hosts = {c1}
    Guests = {c2}
    Tracks = {t1}
    NoConn = NoConn
    MaxHostPCs = 2
    MaxGuestPCs = 3
SYMMETRY Interchangeable
CHECK_DEADLOCK FALSE
INVARIANTS
    TypeOK
    AttachOnce
    MembersCanNegotiate
    HostRecovers
    AdmittedAreClosed
