CONSTANTS
    logger = logger
    karma = karma
    privmsg = privmsg
    sent = sent
    Modules <- MCModules
    Events <- MCEvents
    Nobody = Nobody
    MaxSubmits = 6
    a = a
    b = b
    p1 = p1
    p2 = p2
    alpha = alpha
    Nicks <- MCNicks
    Names <- MCNames
    Delays = {1}
    Repeats = {0, 2}
    Near = 2
    Soon = 1
    MinRepeat = 2
    Confirm = 1
    MaxTime = 3
    MaxAlarms = 2
    MaxFallback = 1
    MaxLives = 1
    MaxFails = 1
    x = x
    y = y
    Readers <- MCReaders
    Commands <- MCCommands
    Budgets = {0, 1, 2}
    MaxLength = 3
    MaxReplies = 3
    Channels <- MCChannels
    Crons = {0, 2}
    Titles <- MCTitles
    maxRemembered = 1
    MaxMinute = 3
    MaxRequests = 3
    MaxLoads = 1
    Masks <- MCMasks
    Chans <- MCChans
    Texts <- MCTexts
    guard_resident_days = 2
    seenSlack = 2
    guard_line_rate = 3
    guard_line_window_sec = 1
    guard_dup_channels = 2
    guard_join_channels = 2
    guard_join_window_sec = 1
    MaxSightings = 3
    MaxBoots = 1
    Symbols = {"btc"}
    Targets = {"here", "there"}
    Users = {"ann"}
    maxData = 2
    maxJSONErrors = 0
    Minute = 1
    refreshEvery = 1
    Hour = 2
    broadcastGap = 2
    MaxClock = 3
    MaxLanded = 2
    MaxRestarts = 1
    MaxOrders = 2
    Words <- MCWords
    Typed <- MCTyped
    Letters = {1, 2}
    Priorities = {0, 1}
    MaxSteps = 4
    Passwords = {"x", "y", "long"}
    TooLong = {"long"}
    CliPasswords = {"y"}
    superName = "root"
    superPass = "x"
    Inputs <- MCInputs
    maxTries = 2
    Buffer = 1
    MaxLines = 4
    MaxAhead = 1
    MaxRuns = 1
    Settings = {"rate", "guard"}
    Raws = {"on", "off", "4"}
    Releases = {"old", "new"}
    Parses <- MCParses
    Default <- MCDefault
    MaxSets = 3
    MaxBootings = 2
SYMMETRY MCSymmetry
SPECIFICATION MCSpec
INVARIANTS DispatchExact AlarmsKept PagedInFull RemindersKept TrustHolds TickersRun CommandsKnown SuggestionsRight AdminHolds SettingsKept
CHECK_DEADLOCK FALSE
