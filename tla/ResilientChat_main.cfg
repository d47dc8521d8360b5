SPECIFICATION FairSpec
CONSTANTS
    Callers = {c1, c2}
    first = first
    second = second
    Models <- MCModels
    Chain <- MCChain
    Shapes = {"mapping", "object"}
    Streaming = {c1}
    Attempts = 2
    Threshold = 2
    MaxChats = 3
INVARIANTS OpenEarned KeptDelivered
PROPERTIES ChatReturns
CHECK_DEADLOCK FALSE
