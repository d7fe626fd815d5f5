SPECIFICATION FairSpec
CONSTANTS
    Rooms = {r1, r2}
    Pages = {p1}
    MaxChanges = 2
    Capacity = 1
CHECK_DEADLOCK FALSE
INVARIANT TypeOK
PROPERTY EveryChangeArrives
