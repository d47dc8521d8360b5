------------------------------ MODULE StreamRun -----------------------------
(***************************************************************************)
(* A run as a stream of events (run_stream in core/orchestrator.py), with  *)
(* the planner it calls (generate_plan).  run_stream is a generator: it    *)
(* runs only while its consumer asks for the next event, and a consumer    *)
(* that stops asking leaves it where it is.                                *)
(*                                                                         *)
(* A plan is whose it is: the session keeps the last one it was given,     *)
(* which may be an earlier run's.                                          *)
(***************************************************************************)
EXTENDS Naturals, Sequences

VARIABLES
    stage,      \* what the generator does when it is next resumed
    todo,       \* the events it yields first
    sent,       \* the events the consumer has got
    stopped,    \* cancelled, or past the deadline
    plan,       \* session_state["plan_tasks"]
    tasks,      \* the tasks run_stream goes by
    ranPlan,    \* the tasks execute_plan was given
    completed,  \* the stream_completed events recorded
    unrecorded  \* history: one could not be recorded

streamVars == <<stage, todo, sent, stopped, plan, tasks, ranPlan, completed, unrecorded>>

StreamInit ==
    /\ stage = "plan" /\ todo = <<"phase_start">> /\ sent = <<>>
    /\ stopped = FALSE
    /\ plan \in {"none", "stale"} /\ tasks = "none" /\ ranPlan = "none"
    /\ completed = <<>> /\ unrecorded = FALSE

\* What every phase ends with.
Closing == <<"step_end", "usage_delta", "phase_end">>
Summary == <<"summary">> \o Closing

\* The generator yields the first of some events, the rest when it is resumed,
\* and then goes on at a stage; with no event it goes on at once.
Continue(events, next) ==
    /\ stage' = next
    /\ IF events = <<>>
       THEN UNCHANGED <<sent, todo>>
       ELSE sent' = Append(sent, Head(events)) /\ todo' = Tail(events)

\* An exception reaches the except clause around the phases.
Raises == Continue(<<"error">>, "failed")

-----------------------------------------------------------------------------
Yield ==
    /\ todo # <<>> /\ stage # "left"
    /\ sent' = Append(sent, Head(todo))
    /\ todo' = Tail(todo)
    /\ UNCHANGED <<stage, stopped, plan, tasks, ranPlan, completed, unrecorded>>

\* The consumer closes the generator at an event: GeneratorExit is no Exception.
Leave ==
    /\ sent # <<>> /\ stage \notin {"retry", "again", "over", "left"}
    /\ stage' = "left" /\ todo' = <<>>
    /\ UNCHANGED <<sent, stopped, plan, tasks, ranPlan, completed, unrecorded>>

Stop ==
    /\ ~stopped /\ stopped' = TRUE
    /\ UNCHANGED <<stage, todo, sent, plan, tasks, ranPlan, completed, unrecorded>>

-----------------------------------------------------------------------------
At(s) == stage = s /\ todo = <<>>

\* A valid reply becomes the session's plan before it is returned.  The trace
\* may refuse the step that holds it.
Planned ==
    /\ plan' = "own" /\ tasks' = "own"
    /\ \/ Continue(Summary, "opened") \/ Raises

\* Mutant: what the session holds is taken for the plan.
PlanKept ==
    /\ tasks' = plan
    /\ IF plan = "none"
       THEN Continue(Summary \o <<"error">>, "error") \/ Raises
       ELSE Continue(Summary, "opened") \/ Raises
    /\ UNCHANGED plan

\* On ValueError the stream goes on without tasks, and ends after the phase.
NoPlan ==
    /\ tasks' = "empty" /\ UNCHANGED plan
    /\ Continue(Summary \o <<"error">>, "error") \/ Raises

\* The first reply: an error in it is final, any other defect is asked about again.
AskPlanner ==
    /\ At("plan")
    /\ \/ stopped /\ Raises /\ UNCHANGED <<plan, tasks>>
       \/ ~stopped /\ Planned
       \/ ~stopped /\ NoPlan
       \/ Continue(<<>>, "retry") /\ UNCHANGED <<plan, tasks>>
    /\ UNCHANGED <<stopped, ranPlan, completed, unrecorded>>

CheckBeforeRetry ==
    /\ At("retry")
    /\ IF stopped THEN Raises ELSE Continue(<<>>, "again")
    /\ UNCHANGED <<stopped, plan, tasks, ranPlan, completed, unrecorded>>

\* Whatever stops the second call, a timeout or a cancellation too, is ValueError.
AskAgain ==
    /\ At("again")
    /\ (~stopped /\ Planned) \/ NoPlan
    /\ UNCHANGED <<stopped, ranPlan, completed, unrecorded>>

OpenExecutor ==
    /\ At("opened")
    /\ Continue(<<"phase_start">>, "execute")
    /\ UNCHANGED <<stopped, plan, tasks, ranPlan, completed, unrecorded>>

\* The tasks are read from the session again.  ValueError ends the stream after
\* the phase, anything else at once.
ExecuteStream ==
    /\ At("execute")
    /\ tasks' = plan /\ ranPlan' = plan
    /\ \/ ~stopped /\ Continue(Summary \o <<"phase_start">>, "synth")
       \/ Continue(Closing \o <<"error">>, "error")
       \/ Raises
    /\ UNCHANGED <<stopped, plan, completed, unrecorded>>

Synthesize ==
    /\ At("synth")
    /\ (~stopped /\ Continue(Summary \o <<"done">>, "done")) \/ Raises
    /\ UNCHANGED <<stopped, plan, tasks, ranPlan, completed, unrecorded>>

\* Mutant: a stream that ended early falls into the end of one that did not.
CompletedDone == completed' = Append(completed, "done")

Completed == completed' = Append(completed, IF stage = "done" THEN "done" ELSE "error")

\* Recorded when the consumer asks for more after the last event.  Inside the try
\* a record that fails makes another error event; in the except clause it is raised.
CompleteStream ==
    /\ stage \in {"done", "error", "failed"} /\ todo = <<>>
    /\ \/ Completed /\ Continue(<<>>, "over") /\ UNCHANGED unrecorded
       \/ /\ unrecorded' = TRUE /\ UNCHANGED completed
          /\ IF stage = "failed" THEN Continue(<<>>, "over") ELSE Raises
    /\ UNCHANGED <<stopped, plan, tasks, ranPlan>>

StreamNext ==
    \/ Yield \/ Leave \/ Stop
    \/ AskPlanner \/ CheckBeforeRetry \/ AskAgain
    \/ OpenExecutor \/ ExecuteStream \/ Synthesize \/ CompleteStream

StreamSpec == StreamInit /\ [][StreamNext]_streamVars

-----------------------------------------------------------------------------
Kinds == {"phase_start", "summary", "step_end", "usage_delta", "phase_end", "error", "done"}
Whose == {"none", "stale", "own", "empty"}

StreamTypeOK ==
    /\ stage \in {"plan", "retry", "again", "opened", "execute", "synth",
                  "done", "error", "failed", "over", "left"}
    /\ todo \in Seq(Kinds) /\ sent \in Seq(Kinds)
    /\ stopped \in BOOLEAN /\ unrecorded \in BOOLEAN
    /\ plan \in Whose /\ tasks \in Whose /\ ranPlan \in Whose
    /\ completed \in Seq({"done", "error"})

Terminal(s) == {i \in DOMAIN s : s[i] \in {"error", "done"}}

\* A consumer that reads to the end gets one terminal event, the last, and the
\* same verdict is recorded once, unless telemetry could not record it: then an
\* error may follow "done".  Nothing is recorded of a stream its consumer left.
OneVerdict ==
    /\ stage = "over" /\ ~unrecorded =>
          /\ Terminal(sent) = {Len(sent)}
          /\ completed = <<sent[Len(sent)]>>
    /\ stage = "left" => completed = <<>>
    /\ Terminal(sent) # {} /\ ~unrecorded => Terminal(sent) = {Len(sent)}

\* What is executed is the plan this stream's planner gave, never the one the
\* session still holds from an earlier run, whose reading the executor repeats.
OwnPlanExecuted == ranPlan \in {"none", "own"}
=============================================================================
