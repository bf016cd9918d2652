SPECIFICATION Spec
CONSTANTS
    w1 = w1
    w2 = w2
    r1 = r1
    r2 = r2
    Members <- MCMembers
    Writers <- MCWriters
    Readers <- MCReader
    PeerOf <- MCSamePeer
    Ways <- MCWake
    Limit <- MCAmple
    Failing <- MCNone
    Closers <- MCNone
    MaxFrames <- MCTwoFrames
    MaxCrashes = 0
PROPERTIES
    FramesStay
CHECK_DEADLOCK FALSE
