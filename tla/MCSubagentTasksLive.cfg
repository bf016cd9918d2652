SPECIFICATION FairSpec
CONSTANTS
    t1 = t1
    t2 = t2
    t3 = t3
    c1 = c1
    c2 = c2
    f1 = f1
    NoFan = NoFan
    NoChat = NoChat
    Runner = Runner
    Tasks <- MCPair
    Chats <- MCOneChat
    ChatOf <- MCPairChatOf
    FanOf <- MCPairFanOf
    Stalling <- MCFirst
    Overlong <- MCPair
    Loose <- MCNone
    Fragile <- MCNone
    Single = TRUE
PROPERTIES
    EveryTaskIsTold
