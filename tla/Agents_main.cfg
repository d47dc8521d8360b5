SPECIFICATION AgentsSpec
CONSTANTS
    Reviews <- MCReviews
    Threads = {1, 2}
    Params = {p1}
    ToolLimit = 1
    Outcomes = {"raises", "good"}
    Plan <- MCPlan
    Pools = {1, 2}
    MaxRetries = 1
    Searching = {1}
    Weak = {2}
    Limit = 5
    Sizes = {0, 1, 4, 6}
    MaxRuns = 2
    Briefs <- MCBriefs
    TaskRole <- MCTaskRole
    OwnRetries = {2}
    MaxWalks = 2
    Searchers = {s1, s2}
    SearchLimit = 1
    Period = 2
    MaxTime = 2
    MaxItems = 2
    MaxSearches = 3
    Names <- MCNames
    SizeHints = {5, 300, 700, 1500, 150000, 500000, 1500000}
INVARIANTS
    CallsBounded LastTextJudged
    CapOvershootBounded OwnSpanTraced AnswerWhole StopAnnounced 
    RateKept  FailoverFits 
PROPERTIES AgentsEnd LadderIsTask
CHECK_DEADLOCK FALSE
