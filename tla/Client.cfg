SPECIFICATION FairSpec
CONSTANTS
    Capacity = 2
    MaxSent = 5
CHECK_DEADLOCK FALSE
INVARIANTS
    TypeOK
    NoPanic
PROPERTIES
    PumpsEndTogether
    ImplementsMailbox
