CONSTANTS
    u = u
    v = v
    c = c
    Urls <- MCUrls
    Targets <- MCTargets
    Items <- MCItems
    idWrap = 5
    historyKeep = 1
    maxBroadcast = 2
    newSubItems = 1
    maxErrors = 0
    maxTries = 0
    MaxRestarts = 1
    MaxCommands = 3
    MaxFailures = 1
    a = a
    b = b
    Keys <- MCKeys
    Lineups <- MCLineups
    Consonants = {"B", "X"}
    Vowels = {"A", "E"}
    Count <- MCCount
    Amounts = {1}
    rvf_vowel_cost = 1
    rvf_max_missed_turns = 2
    topTen = 1
    MaxStarts = 2
    MaxMoves = 3
    here = here
    away = away
    Nicks <- MCNicks
    Places <- MCPlaces
    Kind <- MCKind
    Named <- MCNamed
    Home = here
    Alerts = {"storm"}
    feedTTL = 1
    rainTTL = 1
    warnTTL = 1
    warnPoll = 2
    Forget = 1
    Life = 1
    MaxClock = 2
    MaxEvents = 2
    Times <- MCTimes
    Day = 4
    ShiftAt = 5
    Shift <- MCForward
    MaxHour = 10
    MaxChanges = 2
    Channels = {"dutch", "english"}
    Models = {"gpt", "oi"}
    Bounded = {"gpt"}
    maxHistory = 4
    MaxQuestions = 3
SPECIFICATION MCSpec
INVARIANTS OneChain ItemsKept GamesKept WeatherHolds TurnsPaired
PROPERTIES FairTurns
CHECK_DEADLOCK FALSE
