SPECIFICATION Spec
CONSTANTS
    k1 = k1
    k2 = k2
    bob = bob
    anna = anna
    NoDraft = NoDraft
    Drafts <- MCDrafts
    To <- MCTo
    Clicks <- MCClicks
    MaxEdits = 1
    MaxPresses = 2
    MaxSays = 2
    MaxCrashes = 1
    FreshArgs = TRUE
    Prompt = TRUE
INVARIANTS
    ToldStaysTrue
PROPERTIES
    KeepsDelivery
    SentIsTold
CHECK_DEADLOCK FALSE
