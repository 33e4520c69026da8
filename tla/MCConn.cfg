CONSTANTS
    Buckets = {g, h}
    High = High
    Extras = {0}
    Second = 1
    MaxWait = 1
    MaxLines = 2
    MaxAge = 6
SPECIFICATION FairSpec
INVARIANTS ConnExact
PROPERTIES NoOvertaking Drains GoroutinesEnd
CHECK_DEADLOCK FALSE
