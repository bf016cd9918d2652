SPECIFICATION OrderSpec
CONSTANTS
    i1 = i1
    i2 = i2
    i3 = i3
    i4 = i4
    ann = ann
    bob = bob
    cy = cy
    Items <- MCItems
    Keys <- MCKeys
    KeyOf <- MCKeyOf
    MaxStamps = 3
    MaxArrivals = 5
INVARIANTS
    BoundedOvertaking
    PositionIsByRounds
    LimitedCopyPopsTheSame
PROPERTIES
    ActsAsRoundRobin
CHECK_DEADLOCK FALSE
