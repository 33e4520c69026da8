CONSTANTS
    c1 = c1
    c2 = c2
    Channels <- MCChannels
    Seed <- MCSeed
    NoChannel = NoChannel
    HeldCap = 1
    WorkCap = 3
    MaxConns = 3
    MaxMsgs = 3
    MaxAdmin = 2
SPECIFICATION FairSpec
INVARIANTS OneLifeline Orderly AutojoinHolds
PROPERTIES Answerable ComesBack
CHECK_DEADLOCK FALSE
