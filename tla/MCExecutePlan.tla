--------------------------- MODULE MCExecutePlan ---------------------------
(* Instances of ExecutePlan: two roles, one alias of the first.            *)
EXTENDS ExecutePlan

CTO == "CTO"
Reviewer == "QA"
Engineer == "Engineer"
Nobody == "nobody"

MCNames == {CTO, Reviewer, Engineer}
MCRoles == {CTO, Reviewer}
MCRoute == [n \in MCNames \cup {Nobody} |-> IF n = Reviewer THEN Reviewer ELSE CTO]

Task(work, qa) == [work |-> work, qa |-> qa]
MCPlans == {Task(<< >>, << >>), Task(<<CTO>>, <<Reviewer>>), Task(<<CTO, Engineer>>, << >>)}
MCFollowUps == {<< >>, <<Engineer, Reviewer>>, <<Nobody>>}
MCPool == {1, 2}
=============================================================================
