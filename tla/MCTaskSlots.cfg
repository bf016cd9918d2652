SPECIFICATION Spec
CONSTANTS
    N = 3
    Inline <- MCInline
    Preempted <- MCSecond
    Nobody = Nobody
INVARIANTS
    OneRunButForTheGap
    NoGhosts
    NotAllRefused
CHECK_DEADLOCK FALSE
