SPECIFICATION Spec
CONSTANTS
    w1 = w1
    w2 = w2
    r1 = r1
    r2 = r2
    Members <- MCMembers
    Writers <- MCWriters
    Readers <- MCReader
    PeerOf <- MCOneReader
    Ways <- MCWake
    Limit <- MCAmple
    Failing <- MCNone
    Closers <- MCNone
    MaxFrames <- MCFrames
    MaxCrashes = 0
INVARIANTS
    NeverSkipped
CHECK_DEADLOCK FALSE
