SPECIFICATION Spec
CONSTANTS
    Names <- MCNames
    Roles <- MCRoles
    QA <- Reviewer
    NoName <- Nobody
    Route <- MCRoute
    Plans <- MCPlans
    FollowUps <- MCFollowUps
    Pool <- MCPool
    Modes = {FALSE, TRUE}
    Evaluating = TRUE
    HumanReview = FALSE
    MaxReflections = 2
    MaxRounds = 1
INVARIANTS FailuresInGaps
CHECK_DEADLOCK FALSE
