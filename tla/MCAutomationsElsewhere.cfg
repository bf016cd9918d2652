SPECIFICATION Spec
CONSTANTS
    task = task
    r1 = r1
    r2 = r2
    x1 = x1
    Gone = Gone
    NoJob = NoJob
    Free = Free
    Dead = Dead
    NoEdit = NoEdit
    Tasks <- MCTask
    Threads <- MCThread
    Terminals <- MCTerm
    Long <- MCThread
    Elsewhere = TRUE
    MaxChanges = 2
    MaxCrashes = 1
INVARIANTS
    ChangesStay
CHECK_DEADLOCK FALSE
