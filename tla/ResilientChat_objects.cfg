SPECIFICATION Spec
CONSTANTS
    Callers = {c1}
    first = first
    second = second
    Models <- MCModels
    Chain <- MCChain
    Shapes = {"object"}
    Streaming = {}
    Attempts = 2
    Threshold = 2
    MaxChats = 1
INVARIANTS AnswerDelivered
CHECK_DEADLOCK FALSE
