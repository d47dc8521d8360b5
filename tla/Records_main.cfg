SPECIFICATION RecordsSpec
CONSTANTS
    Runs = {r1, r2, r3}
    Ideas = {i1, i2}
    NoRun = NoRun
    None = None
    Sessions = {s1, s2}
    Requests = {c1, c2}
    NoLogger = NoLogger
    Appenders = {a, b}
    Naming = {a}
    MaxRecords = 3
    Writers = {w1, w2}
    Entries = {e1, e2}
    Broken = Broken
    Absent = Absent
    Loggers = {g1, g2}
    MaxBytes = 5
    LongestLine = 4
    Surplus = 2
    Lines <- MCLines
    MaxPart = 2
    MaxEvents = 5
    Repeats = {p1, p2}
    Nobody = Nobody
SYMMETRY Symmetry
INVARIANTS
    MarkedIsDone DoneNotRepeated ResumedPlanIsOrigins OwnReport
    OneVerdict CallsFiled   OwnPlanExecuted
    BaseBounded BundleIsOwn
CHECK_DEADLOCK FALSE
