SPECIFICATION OrderSpec
CONSTANTS
    i1 = i1
    i2 = i2
    i3 = i3
    i4 = i4
    ann = ann
    bob = bob
    cy = cy
    Items <- MCItems
    Keys <- MCKeys
    KeyOf <- MCKeyOf
    MaxStamps = 2
    MaxArrivals = 5
PROPERTIES
    TrimKeepsOrder
CHECK_DEADLOCK FALSE
