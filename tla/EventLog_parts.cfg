CONSTANTS
    Loggers = {w1}
    MaxBytes = 5
    LongestLine = 4
    Surplus = 2
    Lines <- MCLines
    MaxPart = 2
    MaxEvents = 6
SPECIFICATION EventSpec
INVARIANTS PartsBounded
CHECK_DEADLOCK FALSE
