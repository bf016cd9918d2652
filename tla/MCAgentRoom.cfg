SPECIFICATION FairSpec
CONSTANTS
    w1 = w1
    w2 = w2
    r1 = r1
    r2 = r2
    Members <- MCMembers
    Writers <- MCWriters
    Readers <- MCReaders
    PeerOf <- MCPeerOf
    Ways <- MCWays
    Limit <- MCLimit
    Failing <- MCReader
    Closers <- MCClosers
    MaxFrames <- MCFrames
    MaxCrashes = 1
INVARIANTS
    NothingSkipped
PROPERTIES
    AnswersComeAfter
    EveryFrameIsTold
CHECK_DEADLOCK FALSE
