SPECIFICATION Spec
CONSTANTS
    k1 = k1
    k2 = k2
    w1 = w1
    NoOp = NoOp
    Ops <- MCOne
    Clicks <- MCClicks
    Sweeps <- MCSweeps
    MaxAttempts = 2
    MaxEdits = 1
    MaxPresses = 3
    MaxCrashes = 1
    FreshPass = FALSE
    Prompt = TRUE
    Together = TRUE
INVARIANTS
    AtMostOneCopy
CHECK_DEADLOCK FALSE
