SPECIFICATION RoutingSpec
CONSTANTS
    Names = {"CTO", "QA", "Research Scientist", "Dynamic Specialist", "Marketing",
             "Software Engineer", "Juggler"}
INVARIANTS FallbackRuns
CHECK_DEADLOCK FALSE
