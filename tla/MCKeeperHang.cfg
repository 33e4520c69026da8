CONSTANTS
    MaxBuffer = 1
    MaxOutBuffer = 3
    SockCap = 1
    MaxIRC = 1
    MaxCores = 1
    MaxIn = 2
    MaxOpen = 1
    MaxLines = 1
SPECIFICATION KeeperSpec
PROPERTY ShutdownEnds
CHECK_DEADLOCK FALSE
