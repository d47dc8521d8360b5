----------------------------- MODULE TaskOfPlan -----------------------------
(***************************************************************************)
(* What RetryLadder comes to is what ExecutePlan takes for granted.  Seen  *)
(* from execute_plan, the ladder of a task is a strand with this one task  *)
(* to do: it runs, perhaps asks again, flags, reviews and records.  Both   *)
(* modules translate _run_task of core/orchestrator.py; this one says that *)
(* they translate the same.                                                *)
(***************************************************************************)
EXTENDS RetryLadder, Sequences

\* The router's two roles that matter to the ladder, and this task's.
PlanRoles == {"worker", "QA"}
Role == IF review THEN "QA" ELSE "worker"

\* What the self-check says of the task, and what a review says.
Verdict == IF valid THEN "good" ELSE "fabricated"
Said == IF review /\ valid /\ SaysNothing THEN "silent" ELSE Verdict

StepOf(d, n, k) == [do |-> d, on |-> n, as |-> k]
Settled(k) == StepOf(IF review THEN "qa" ELSE "record", Role, k)

\* The steps that execute_plan has left for the task.
Left ==
    CASE ladder = "task" /\ at \in {"ask", "check"} -> <<StepOf("run", Role, "any")>>
      [] ladder = "task" /\ at = "judged" /\ flagged -> <<StepOf("second", Role, "any")>>
      [] ladder = "flagged" /\ at \in {"again", "check"} -> <<StepOf("retry", Role, "any")>>
      [] at = "flagging" \/ (ladder = "flagged" /\ at = "judged" /\ flagged) ->
            <<StepOf("flag", Role, "any")>>
      [] at = "reflecting" -> <<StepOf("reflect", "none", "nested"), Settled("fabricated")>>
      [] ladder = "review" /\ at \in {"again", "check", "judged", "settled"} ->
            <<StepOf("review", Role, "any")>>
      [] ladder # "review" /\ (at = "settled" \/ (at = "judged" /\ ~flagged)) ->
            <<Settled(Verdict)>>
      [] at = "reviewed" -> <<StepOf("record", Role, Said)>>
      [] OTHER -> << >>

\* What the task leaves under its role.
Result ==
    CASE at = "recorded" -> Said
      [] at = "unanswered" -> "unanswered"
      [] at = "empty" -> "error"
      [] OTHER -> "none"
Results == IF Result = "none" THEN {} ELSE {Result}

ForRole(mine, others) == [r \in PlanRoles |-> IF r = Role THEN mine ELSE others]
WhenTrue(b) == IF b THEN {Role} ELSE {}

Task == INSTANCE ExecutePlan WITH
    Names <- PlanRoles, Roles <- PlanRoles, QA <- "QA", NoName <- "none",
    Route <- [n \in PlanRoles \cup {"none"} |-> IF n = "QA" THEN "QA" ELSE "worker"],
    Plans <- {[work |-> << >>, qa |-> << >>]}, FollowUps <- {}, Pool <- {}, Modes <- {FALSE},
    Evaluating <- FALSE, HumanReview <- FALSE, MaxReflections <- 0, MaxRounds <- 0,
    status <- IF at = "raised" THEN "raised" ELSE "running",
    parallel <- FALSE, plan <- [work |-> << >>, qa |-> << >>],
    todo <- [s \in {0} |-> Left],
    failed <- IF at = "raised" THEN {0} ELSE {},
    answers <- ForRole(Results, {}), findings <- ForRole(Result, "none"),
    retried <- WhenTrue(retried), open <- WhenTrue(open),
    attempts <- 0, round <- 0, defined <- TRUE, gaps <- {},
    outcomes <- ForRole(Results, {})

planVars == Task!vars

\* Every step of the ladder is a step that execute_plan takes with the task, or
\* one that it does not see; only the retries of other tasks come in between.
LadderIsTask == [][Task!StrandStep(Task!Main) \/ OtherTask]_planVars
=============================================================================
