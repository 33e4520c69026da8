CONSTANTS
    MaxBuffer = 1
    MaxOutBuffer = 3
    SockCap = 1
    MaxIRC = 2
    MaxCores = 2
    MaxIn = 2
    MaxOpen = 1
    MaxLines = 1
SPECIFICATION Spec
INVARIANT RegistersFirst
CHECK_DEADLOCK FALSE
