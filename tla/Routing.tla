------------------------------- MODULE Routing ------------------------------
(***************************************************************************)
(* From the name that a plan gives a task's role to the agent that answers *)
(* (core/roles.py, core/router.py), by the two ways an agent is called:    *)
(* execute_plan's, with the arguments its signature asks for               *)
(* (core/agents/runtime.py), and the graph's, which asks the router again  *)
(* and calls with fixed keywords (core/agents/invoke.py).                  *)
(*                                                                         *)
(* The tables are kept to names that tell the layers apart: one per table, *)
(* and those that two tables treat differently.                            *)
(***************************************************************************)
EXTENDS Naturals, Sequences

CONSTANT Names     \* that a plan may give to a task's role

VARIABLES
    callPath,   \* "plan" (execute_plan) or "graph" (run_langgraph)
    role,       \* task["role"], later the role it is routed to
    agent,      \* the agent that is called
    routing,    \* where the task is
    answeredBy, \* the agent whose answer was returned
    ran         \* the agents whose own code ran, in order

routingVars == <<callPath, role, agent, routing, answeredBy, ran>>

-----------------------------------------------------------------------------
(* Agents and their signatures. *)

Signature(params, required, rest) ==
    [params |-> params, required |-> required, rest |-> rest]

ActOnIdea == Signature({"idea", "task"}, {"idea"}, TRUE)
RunOnIdea == Signature({"idea", "task"}, {"idea", "task"}, TRUE)
Prompted == [run |-> RunOnIdea, act |-> ActOnIdea]
ByCall == Signature({"task", "model", "meta"}, {"task"}, FALSE)

OnPrompt == {"Regulatory", "Finance", "Marketing Analyst", "IP Analyst", "Planner",
             "Mechanical Systems Lead", "HRM", "Reflection", "Chief Scientist",
             "Regulatory Specialist"}

Specialist == "Dynamic Specialist"
Registered == OnPrompt \cup {"CTO", "Research Scientist", "Materials Engineer", "Synthesizer",
                            "Evaluation", "QA", "Simulation", Specialist}

AGENT_REGISTRY == [r \in Registered |->
    CASE r \in OnPrompt -> Prompted
      [] r = "CTO" -> [act |-> ActOnIdea]
      [] r = "Research Scientist" -> [call |-> ByCall, act |-> ActOnIdea]
      [] r = "Materials Engineer" ->
            [call |-> ByCall, run |-> Signature({"task", "model"}, {"task", "model"}, FALSE)]
      [] r = "Synthesizer" ->
            [run |-> Signature({"idea", "answers"}, {"idea", "answers"}, TRUE)]
      [] r = "Evaluation" ->
            [run |-> Signature({"idea", "answers_by_role", "payload_by_role", "context"},
                               {"idea", "answers_by_role", "payload_by_role"}, FALSE)]
      [] r = "QA" ->
            [run |-> Signature({"task", "requirements", "tests", "defects", "idea", "context"},
                               {"task", "requirements", "tests", "defects"}, FALSE)]
      [] r = "Simulation" -> [run |-> Signature({"task"}, {"task"}, TRUE)]
      [] r = Specialist -> [run |-> Signature({"spec"}, {"spec"}, FALSE)]]

-----------------------------------------------------------------------------
(* Tables of names, as pairs. *)

CANON == {<<"Compliance", "Regulatory">>, <<"marketing", "Marketing Analyst">>,
          <<"Marketing", "Marketing Analyst">>, <<"Human Resources", "HRM">>,
          <<"Quality Assurance", "QA">>, <<"", Specialist>>}

\* Looked up in lower case; a prefix stands for the whole name.
ALIASES == {<<"Software Engineer", "CTO">>, <<"Product Designer", "Research Scientist">>,
            <<"Quality Assurance", "QA">>, <<"qa_lead", "QA">>, <<"dev_ops", "CTO">>}

CANONICAL == {<<"Mechanical Engineer", "Mechanical Systems Lead">>,
              <<"Software Engineer", "Research Scientist">>, <<"Human Resources", "HRM">>}

\* Looked up as written.
ROLE_SYNONYMS == {<<"Project Manager", "Planner">>, <<"Risk Manager", "Regulatory">>,
                  <<"Marketing", "Marketing Analyst">>}

Over(table, name) ==
    IF \E p \in table : p[1] = name THEN (CHOOSE p \in table : p[1] = name)[2] ELSE name

\* What a planned task's role becomes (_coerce_and_fill); a follow-up's stays.
Normalised(name) == Over(CANON, name)

Route(name) ==
    LET r == Over(ROLE_SYNONYMS, Over(CANONICAL, Over(ALIASES, name)))
    IN  IF r \in Registered THEN r ELSE Specialist

-----------------------------------------------------------------------------
RoutingInit ==
    /\ callPath \in {"plan", "graph"}
    /\ role \in Names
    /\ agent = Specialist /\ routing = "planned" /\ answeredBy = {}
    /\ ran = <<>>

\* Follow-ups exist in execute_plan only.
Normalise ==
    /\ routing = "planned"
    /\ role' \in IF callPath = "plan" THEN {role, Normalised(role)} ELSE {Normalised(role)}
    /\ routing' = "named"
    /\ UNCHANGED <<callPath, agent, answeredBy, ran>>

\* The graph's tasks have no field for hints.
RouteTask ==
    /\ routing = "named"
    /\ role' \in {Route(role)} \cup (IF callPath = "plan" THEN {Route("Simulation")} ELSE {})
    /\ routing' = "routed"
    /\ UNCHANGED <<callPath, agent, answeredBy, ran>>

-----------------------------------------------------------------------------
Takes(sig, given) == sig.required \subseteq given

\* Mutant: the argument that Dynamic Specialist asks for is forgotten.
TaskLikeFew == {"task", "input", "params"}

TaskLike == {"task", "input", "spec", "params"}

\* What invoke_agent_safely can fill in.
Fillable == TaskLike \cup {"idea", "project", "concept", "requirements", "tests", "defects",
                           "model", "llm", "client", "meta", "ctx", "context"}

FirstOf(a, attrs) ==
    AGENT_REGISTRY[a][attrs[CHOOSE i \in DOMAIN attrs :
        /\ attrs[i] \in DOMAIN AGENT_REGISTRY[a]
        /\ \A j \in 1 .. i - 1 : attrs[j] \notin DOMAIN AGENT_REGISTRY[a]]]

Runs(a) == ran' = Append(ran, a)

AnswerBy(a) == Runs(a) /\ answeredBy' = {a} /\ routing' = "answered"

\* Any error is the caller's (_run_task), here and below.
InvokeSafely ==
    /\ callPath = "plan" /\ routing = "routed"
    /\ agent' = role
    /\ LET sig == FirstOf(role, <<"call", "run", "act">>)
       IN  IF Takes(sig, sig.params \cap Fillable)
           THEN \/ AnswerBy(role)
                \/ Runs(role) /\ routing' = "raised" /\ UNCHANGED answeredBy
           ELSE routing' = "raised" /\ UNCHANGED <<answeredBy, ran>>
    /\ UNCHANGED <<callPath, role>>

Dispatch ==
    /\ callPath = "graph" /\ routing = "routed"
    /\ agent' = Route(role) /\ routing' = "invoke"
    /\ UNCHANGED <<callPath, role, answeredBy, ran>>

Callable(a) == DOMAIN AGENT_REGISTRY[a] \cap {"run", "call"} # {}
Invoked(a) == FirstOf(a, <<"run", "call">>)
Keywords == {"task", "model", "meta"}

\* A TypeError: the agent's own, or the call's.
FallBack ==
    IF agent = Specialist THEN routing' = "raised" /\ UNCHANGED agent
                          ELSE routing' = "invoke" /\ agent' = Specialist

Uncallable ==
    /\ routing = "invoke" /\ ~Callable(agent)
    /\ FallBack
    /\ UNCHANGED <<callPath, role, answeredBy, ran>>

\* fn(task=, model=, meta=), and after a TypeError with the accepted ones.
Invoke(first) ==
    /\ routing = IF first THEN "invoke" ELSE "accepted"
    /\ Callable(agent)
    /\ LET sig == Invoked(agent)
           given == IF first THEN Keywords ELSE Keywords \cap sig.params
           again == IF first THEN routing' = "accepted" /\ UNCHANGED agent ELSE FallBack
       IN  IF Takes(sig, given) /\ (given \subseteq sig.params \/ sig.rest)
           THEN \/ AnswerBy(agent) /\ UNCHANGED agent
                \/ Runs(agent) /\ again /\ UNCHANGED answeredBy
                \/ Runs(agent) /\ routing' = "raised" /\ UNCHANGED <<agent, answeredBy>>
           ELSE again /\ UNCHANGED <<answeredBy, ran>>
    /\ UNCHANGED <<callPath, role>>

RoutingNext ==
    \/ Normalise \/ RouteTask \/ InvokeSafely
    \/ Dispatch \/ Uncallable \/ \E first \in BOOLEAN : Invoke(first)

RoutingSpec == RoutingInit /\ [][RoutingNext]_routingVars

-----------------------------------------------------------------------------
RoutingTypeOK ==
    /\ callPath \in {"plan", "graph"}
    /\ role \in Names \cup Registered /\ agent \in Registered
    /\ routing \in {"planned", "named", "routed", "invoke", "accepted", "answered", "raised"}
    /\ answeredBy \subseteq Registered
    /\ ran \in Seq(Registered)

\* A task that execute_plan has routed reaches its agent's own code, once, whatever
\* name it was planned under, but for the two agents that take the answers of
\* others; and by either way no agent answers for another's role.
RoleAnswers ==
    /\ (callPath = "plan" /\ routing \in {"answered", "raised"}
            /\ role \notin {"Synthesizer", "Evaluation"}) => ran = <<role>>
    /\ answeredBy \subseteq {role}

\* "Unknown roles fall back to Dynamic Specialist.  If the resolved agent lacks a
\* callable interface, ... the task is rerouted to Dynamic Specialist" (dispatch):
\* an agent that no keywords fit is replaced by one that runs.
FallbackRuns == (callPath = "graph" /\ routing = "raised") => ran # <<>>
=============================================================================
