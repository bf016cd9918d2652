SPECIFICATION PlacesSpec
CONSTANTS
    t1 = t1
    t2 = t2
    t3 = t3
    t4 = t4
    c1 = c1
    c2 = c2
    c3 = c3
    ann = ann
    bob = bob
    NoPlace = NoPlace
    Tasks <- MCTasks
    Sessions <- MCSessions
    Persons <- MCPersons
    SessionOf <- MCSessionOf
    PersonOf <- MCPersonOf
    PriorityOf <- MCPriority
    ClassOf <- MCClassOf
    Weight <- MCWeight
    Watched <- MCWatched
    Counted = 1
    Threads = 2
    Legacy = FALSE
CHECK_DEADLOCK FALSE
INVARIANTS
    PlacesAreCurrent
    NoOldPlaceStays
