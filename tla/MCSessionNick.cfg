CONSTANTS
    c = c
    bot = bot
    bot1 = bot1
    bot2 = bot2
    guest = guest
    ann = ann
    Channels <- MCChannels
    Seed <- MCSeed
    Nicks <- MCNicks
    UserNicks <- MCUserNicks
    CfgNick = bot
    Underscored <- MCUnderscored
    NoNick = NoNick
    NoChannel = NoChannel
    MaxEvents = 2
    MaxSessions = 2
    MaxCalls = 0
    MaxBuffer = 1
    MaxOutBuffer = 3
    SockCap = 1
    MaxIRC = 1
    MaxCores = 1
    MaxIn = 1
    MaxOpen = 1
    MaxLines = 1
    Delays = {3, 60, 180, 300}
    Peace = 300
    Window = 420
    Lifetimes = {0, 1, 200, 301}
    MaxDials = 1
    Counted = {eve, fay}
    Rooms = {den, pub}
    Hits = {2}
    Kinds = {"up", "command", "talk"}
    saveInterval = 2
    reportRate = 3
    MaxHeard = 1
    MaxFails = 0
    MaxRestarts = 0
SPECIFICATION MCSpec
INVARIANTS AnswersToItsNick
CHECK_DEADLOCK FALSE
