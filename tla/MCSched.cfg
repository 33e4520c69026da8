CONSTANTS
    Delays = {0, 1, 2}
    MaxTimers = 3
    MaxTime = 3
    None = None
    MaxBuffer = 1
    MaxOutBuffer = 3
    SockCap = 1
    MaxIRC = 1
    MaxCores = 1
    MaxIn = 2
    MaxOpen = 1
    MaxLines = 1
    Talkers = {"ann"}
    Lines <- MCLines
    Legacy <- MCLegacy
    Start = "<s>"
    End = "</s>"
    Dot = "."
    Help = "*.*"
    order = 3
    maxBack = 2
    maxLoop = 1
    timeout = 1
    MaxMinute = 2
    MaxHeard = 4
SPECIFICATION MCFairSpec
INVARIANTS OneFate WakeupArmed Mirrored
PROPERTIES InOrder FiresInTheEnd ShutdownEnds SilenceNoticed
CHECK_DEADLOCK FALSE
