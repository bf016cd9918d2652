SPECIFICATION Spec
CONSTANTS
    N = 3
    Inline <- MCInline
    Preempted <- MCNone
    Nobody = Nobody
INVARIANTS
    OneRun
CHECK_DEADLOCK FALSE
