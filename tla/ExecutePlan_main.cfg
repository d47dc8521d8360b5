SPECIFICATION FairSpec
CONSTANTS
    Names <- MCNames
    Roles <- MCRoles
    QA <- Reviewer
    NoName <- Nobody
    Route <- MCRoute
    Plans <- MCPlans
    FollowUps <- MCFollowUps
    Pool <- MCPool
    Modes = {FALSE, TRUE}
    Evaluating = TRUE
    HumanReview = FALSE
    MaxReflections = 1
    MaxRounds = 1
INVARIANTS ReflectionsBounded FabricatedInGaps 
PROPERTIES Terminates
CHECK_DEADLOCK FALSE
