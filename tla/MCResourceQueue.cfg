SPECIFICATION FairSpec
CONSTANTS
    t1 = t1
    t2 = t2
    t3 = t3
    ann = ann
    bob = bob
    NoThread = NoThread
    Threads <- MCThreads
    Persons <- MCPersons
    PersonOf <- MCPersonOf
    Leavers <- MCLeavers
    Slots = 1
    MaxWaiting = 2
    MaxWaitingPerKey = 1
INVARIANTS
    SlotsAccounted
    NoIdleSlot
PROPERTIES
    Admits
    WaitEnds
    PatientIsServed
