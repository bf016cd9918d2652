SPECIFICATION Spec
CONSTANTS
    w1 = w1
    w2 = w2
    t1 = t1
    t2 = t2
    t3 = t3
    c1 = c1
    c2 = c2
    ann = ann
    bob = bob
    NoTask = NoTask
    NoSession = NoSession
    Summary = Summary
    Drainer = w1
    Tasks <- MCTasks
    Sessions <- MCSessions
    Persons <- MCPersons
    Workers <- MCWorkers
    SessionOf <- MCSessionOf
    PersonOf <- MCPersonOf
    PriorityOf <- MCCommandPriority
    ClassOf <- MCInteractive
    Weight <- MCWeight
    Legacy = TRUE
    LateStarters <- MCNone
    Careless <- MCNone
    Mortal <- MCSecond
INVARIANTS
    OneTurnPerChat
    LinesMatchOrders
    StopReachesTurn
PROPERTIES
    ChatTurnsInOrder
    LowerPriorityFirst
    KeepsPromise
