SPECIFICATION Spec
CONSTANTS
    Rooms = {r1}
    Pages = {p1}
    MaxChanges = 2
    Capacity = 3
CHECK_DEADLOCK FALSE
INVARIANT ShowsCurrent
