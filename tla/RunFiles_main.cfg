CONSTANTS
    Calls = {c1, c2, c3}
    Events = {}
    AnEvent = c3
    NoLock = noLock
    MainFirst = TRUE
    CanMisread = FALSE
    CanCrash = TRUE
    Sessions = {t1, t2}
    Runs = {r1}
    NoRun = noRun
    NoToken = noToken
SPECIFICATION FilesSpec
INVARIANTS NoStaleSnapshot NoAppendLost TmpAccountedThroughFaults
PROPERTIES ImplementsAppendLog AppendsEndThroughFaults RunEndsReleased
CHECK_DEADLOCK FALSE
