------------------------------- MODULE Resume ------------------------------
(***************************************************************************)
(* orchestrate (core/orchestrator.py): the phases planner, executor and    *)
(* synth of a run, the checkpoint that marks those that are done, and runs *)
(* resumed from an earlier one's checkpoint and trace.                     *)
(*                                                                         *)
(* A plan, and the answers to it, are represented by the idea they are     *)
(* for.  One session calls orchestrate, for one run at a time; plan_tasks  *)
(* and answers_raw stay in the session from run to run.                    *)
(***************************************************************************)
EXTENDS Naturals

CONSTANTS Runs, Ideas, NoRun, None

ASSUME ResumeAssumption ==
    /\ NoRun \notin Runs
    /\ None \notin Ideas /\ Ideas \cap {"empty", "bare"} = {}
    /\ None \notin {"empty", "bare"}

Phases == {"planner", "executor", "synth"}
Plans == Ideas \cup {None}

VARIABLES
    marked,    \* marked[r]: phases of r's checkpoint with next_index > 0
    started,   \* the runs that have a checkpoint
    origin,    \* origin[r]: resume_from, or NoRun
    ideaOf,    \* ideaOf[r]
    trace,     \* trace[r]: the first planner step of trace.json whose
               \* summary is a list: an idea's plan, "empty", "bare" after
               \* execute_plan replaced the steps, or None
    planTasks, \* session_state["plan_tasks"]
    answers,   \* session_state["answers_raw"]
    run,       \* the run of the call in progress, or NoRun
    at,        \* where that call is
    executed,  \* history: executed[r]: whose plan r executed
    report,    \* history: report[r]: whose answers it is from, "bare" of none
    clean      \* history: the runs that began in a new session

session == <<planTasks, answers>>
history == <<executed, report, clean>>
vars == <<marked, started, origin, ideaOf, trace, session, run, at, history>>

Init ==
    /\ marked = [r \in Runs |-> {}] /\ started = {}
    /\ origin = [r \in Runs |-> NoRun]
    /\ ideaOf = [r \in Runs |-> None] /\ trace = [r \in Runs |-> None]
    /\ planTasks = None /\ answers = None
    /\ run = NoRun /\ at = "idle"
    /\ executed = [r \in Runs |-> None] /\ report = [r \in Runs |-> None]
    /\ clean = {}

\* start: the phases that the origin's checkpoint marks.  The origin's call
\* has ended, so its checkpoint does not change any more.
Start(r) == IF origin[r] = NoRun THEN {} ELSE marked[origin[r]]

-----------------------------------------------------------------------------
\* checkpoints.init, and the choice between planning and recovering.
Begin(r, o, idea) ==
    /\ at = "idle" /\ r \notin started
    /\ started' = started \cup {r}
    /\ run' = r
    /\ origin' = [origin EXCEPT ![r] = o]
    /\ ideaOf' = [ideaOf EXCEPT ![r] = idea]
    /\ clean' = IF planTasks = None /\ answers = None THEN clean \cup {r} ELSE clean
    /\ UNCHANGED <<marked, trace, session, executed, report>>

Fresh(r) ==
    /\ \E idea \in Ideas : Begin(r, NoRun, idea)
    /\ at' = "plan"

\* Without a checkpoint of the origin nothing is begun: ResumeNotPossible.
ResumeFrom(r, o) ==
    /\ o \in started
    /\ Begin(r, o, ideaOf[o])
    /\ at' = IF "planner" \in marked[o] THEN "recover" ELSE "plan"

\* generate_plan returns a plan, finds no task in it (ValueError after the
\* session and the trace got the empty list), or cannot read the answer
\* (ValueError before), and orchestrate goes on in each case.
Plan ==
    /\ at = "plan" /\ at' = "planned"
    /\ \/ planTasks' = ideaOf[run] /\ trace' = [trace EXCEPT ![run] = ideaOf[run]]
       \/ planTasks' = None /\ trace' = [trace EXCEPT ![run] = "empty"]
       \/ UNCHANGED <<planTasks, trace>>
    /\ UNCHANGED <<marked, started, origin, ideaOf, answers, run, history>>

Mark(phase, place) ==
    /\ marked' = [marked EXCEPT ![run] = @ \cup {phase}]
    /\ at' = place
    /\ UNCHANGED <<started, origin, ideaOf, trace, session, run, history>>

MarkPlanner == at = "planned" /\ Mark("planner", "check")

\* Mutant: a trace without a plan leaves the session's plan in place.
KeepUnlessFound(o) ==
    planTasks' = IF trace[o] \in Ideas THEN trace[o] ELSE planTasks

TakeFound(o) == planTasks' = IF trace[o] \in Ideas THEN trace[o] ELSE None

Recover ==
    /\ at = "recover" /\ at' = "check"
    /\ TakeFound(origin[run])
    /\ UNCHANGED <<marked, started, origin, ideaOf, trace, answers, run, history>>

Return == run' = NoRun /\ at' = "idle"

\* No task: the run ends with planner_empty_or_invalid in its trace.
ReturnEmpty ==
    /\ at = "check" /\ planTasks = None
    /\ trace' = [trace EXCEPT ![run] = IF @ = None THEN "empty" ELSE @]
    /\ Return
    /\ UNCHANGED <<marked, started, origin, ideaOf, session, history>>

-----------------------------------------------------------------------------
\* Mutant: a resumed run executes whatever was done.
ExecuteAlways(r) == TRUE

NeedsExecution(r) == "executor" \notin Start(r)

\* execute_plan returns: it replaced the steps of trace.json, unless that
\* write failed, which it ignores.
Execute ==
    /\ at = "check" /\ planTasks # None /\ NeedsExecution(run)
    /\ executed' = [executed EXCEPT ![run] = planTasks]
    /\ answers' = planTasks
    /\ \/ trace' = [trace EXCEPT ![run] = "bare"]
       \/ UNCHANGED trace
    /\ at' = "executed"
    /\ UNCHANGED <<marked, started, origin, ideaOf, planTasks, run, report, clean>>

\* Mutant: the phase is marked though an exception left it.
MarkThough ==
    /\ at = "check" /\ planTasks # None /\ NeedsExecution(run)
    /\ at' = "executed"
    /\ UNCHANGED <<marked, started, origin, ideaOf, trace, session, run, history>>

ExecuteRaises ==
    /\ at = "check" /\ planTasks # None /\ NeedsExecution(run)
    /\ Return
    /\ UNCHANGED <<marked, started, origin, ideaOf, trace, session, history>>

MarkExecutor == at = "executed" /\ Mark("executor", "synth")

SkipExecution ==
    /\ at = "check" /\ planTasks # None /\ ~NeedsExecution(run)
    /\ at' = "synth"
    /\ UNCHANGED <<marked, started, origin, ideaOf, trace, session, run, history>>

\* Mutant: a plan without answers is reported on.
PlanOrAnswers == IF answers # None THEN answers ELSE planTasks

\* compose_final_proposal prefers the session's answers to its argument,
\* which is empty when the execution was skipped.
Answers == IF answers # None THEN answers ELSE "bare"

Compose ==
    /\ at = "synth" /\ "synth" \notin Start(run)
    /\ report' = [report EXCEPT ![run] = Answers]
    /\ at' = "composed"
    /\ UNCHANGED <<marked, started, origin, ideaOf, trace, session, run, executed, clean>>

ComposeRaises ==
    /\ at = "synth" /\ "synth" \notin Start(run)
    /\ Return
    /\ UNCHANGED <<marked, started, origin, ideaOf, trace, session, history>>

MarkSynth == at = "composed" /\ Mark("synth", "done")

SkipSynth ==
    /\ at = "synth" /\ "synth" \in Start(run)
    /\ Return
    /\ UNCHANGED <<marked, started, origin, ideaOf, trace, session, history>>

Done ==
    /\ at = "done"
    /\ Return
    /\ UNCHANGED <<marked, started, origin, ideaOf, trace, session, history>>

\* The process restarts, between two runs or in the middle of one.
NewSession ==
    /\ planTasks' = None /\ answers' = None
    /\ Return
    /\ UNCHANGED <<marked, started, origin, ideaOf, trace, history>>

Next ==
    \/ \E r \in Runs : Fresh(r) \/ \E o \in Runs : ResumeFrom(r, o)
    \/ Plan \/ MarkPlanner \/ Recover \/ ReturnEmpty
    \/ Execute \/ ExecuteRaises \/ MarkExecutor \/ SkipExecution
    \/ Compose \/ ComposeRaises \/ MarkSynth \/ SkipSynth \/ Done
    \/ NewSession

Spec == Init /\ [][Next]_vars

-----------------------------------------------------------------------------
\* Types of the checkpoints, the session and the call in progress.
TypeOK ==
    /\ marked \in [Runs -> SUBSET Phases] /\ started \subseteq Runs
    /\ origin \in [Runs -> Runs \cup {NoRun}]
    /\ ideaOf \in [Runs -> Plans]
    /\ trace \in [Runs -> Plans \cup {"empty", "bare"}]
    /\ planTasks \in Plans /\ answers \in Plans
    /\ run \in Runs \cup {NoRun}
    /\ at \in {"idle", "plan", "planned", "recover", "check", "executed", "synth",
               "composed", "done"}
    /\ executed \in [Runs -> Plans]
    /\ report \in [Runs -> Plans \cup {"bare"}]
    /\ clean \subseteq Runs

\* A checkpoint claims no work that was not done, wherever the process died:
\* of an executor phase there are answers, its own or the origin's, and of a
\* synth phase there is a report.
MarkedIsDone ==
    \A r \in Runs :
        /\ "executor" \in marked[r] => executed[r] # None
        /\ "synth" \in marked[r] => report[r] # None

\* A resumed run repeats neither the execution nor the report that its origin's
\* checkpoint marks.
DoneNotRepeated ==
    \A r \in Runs : origin[r] # NoRun =>
        /\ executed[r] # None => "executor" \notin marked[origin[r]]
        /\ report[r] # None => "synth" \notin marked[origin[r]]

\* A run that resumes a planned one executes that run's plan or nothing: never
\* the plan that another run left in the session.
ResumedPlanIsOrigins ==
    \A r \in Runs :
        origin[r] # NoRun /\ "planner" \in Start(r) => executed[r] \in {None, ideaOf[r]}

\* The report of a run that began in a new session is of answers that this run
\* got to its own idea, or says that there are none.
OwnReport ==
    \A r \in clean :
        report[r] \in Ideas => report[r] = ideaOf[r] /\ executed[r] = ideaOf[r]
=============================================================================
