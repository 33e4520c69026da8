CONSTANTS
    Times <- MCTimes
    Day = 4
    ShiftAt = 5
    Shift = 1
    MaxHour = 10
    MaxChanges = 2
SPECIFICATION Spec
INVARIANTS OneADay
CHECK_DEADLOCK FALSE
