------------------------------ MODULE MCAgents -----------------------------
(***************************************************************************)
(* What happens around an agent's answer, eight components that share no   *)
(* state: the retry ladder, the graph pipeline with its tools, the call of *)
(* the model with the session's usage, the aliases, the searches of        *)
(* connectors, the routing of tasks to agents and that of requests to      *)
(* models, and the cleaning of answers.  A behaviour is of one of them,    *)
(* chosen at the start; the others stay in an initial state.               *)
(***************************************************************************)
EXTENDS TaskOfPlan, GraphRun, LlmCall, Aliases, Connector, Routing, ModelRoute,
    Payload

VARIABLE which

around == <<connectorVars, routingVars, modelVars, payloadVars>>
agentsVars == <<which, vars, toolVars, graphVars, llmVars, aliasVars, around>>

MCReviews == {FALSE, TRUE}

\* Two tasks in the order 1, 2; one of them searches patents.
MCPlan == <<1, 2>>

\* A retry meets two names where the first prompt had one.
Plainly(x) == [name |-> x, nested |-> FALSE]
Nested(x) == [name |-> x, nested |-> TRUE]
Brief == <<Plainly("n1")>>
MCBriefs == {Brief, <<Nested("n2"), Plainly("n1")>>}
MCTaskRole == [t \in {1, 2} |-> IF t = 1 THEN "CTO" ELSE "QA"]

\* Names that tell the tables of Routing apart, and one that is in none.
MCNames == Registered \cup
    {"", "Compliance", "marketing", "Marketing", "Human Resources", "Quality Assurance",
     "qa_lead", "dev_ops", "Software Engineer", "Product Designer", "Mechanical Engineer",
     "Project Manager", "Risk Manager", "Juggler"}

Components == {"ladder", "graph", "llm", "aliases", "connector", "routing", "models",
               "payload"}

AgentsInit ==
    /\ which \in Components
    /\ Init /\ GraphInit /\ LlmInit /\ AliasInit
    /\ ConnectorInit /\ RoutingInit /\ ModelInit /\ PayloadInit
    /\ which # "ladder" => ~review /\ ~retried
    /\ which # "graph" => workers = 1
    /\ which # "aliases" => \A t \in AliasTasks : brief[t] = Brief
    /\ which # "connector" => ~offline
    /\ which # "routing" => callPath = "plan" /\ role = "CTO"
    /\ which # "models" => size = CHOOSE n \in SizeHints : TRUE

LadderTask == which = "ladder" /\ TaskStep
LadderRest == UNCHANGED <<which, toolVars, graphVars, llmVars, aliasVars, around>>
GraphRest == UNCHANGED <<which, vars, llmVars, aliasVars, around>>
inside == <<which, vars, toolVars, graphVars, llmVars, aliasVars>>

AgentsNext ==
    \/ LadderTask /\ LadderRest
    \/ which = "ladder" /\ OtherTask /\ LadderRest
    \/ which = "graph" /\ GraphNext /\ GraphRest
    \/ which = "llm" /\ LlmNext /\ UNCHANGED <<which, vars, toolVars, graphVars, aliasVars, around>>
    \/ which = "aliases" /\ AliasNext /\ UNCHANGED <<which, vars, toolVars, graphVars, llmVars, around>>
    \/ which = "connector" /\ ConnectorNext /\ UNCHANGED <<inside, routingVars, modelVars, payloadVars>>
    \/ which = "routing" /\ RoutingNext /\ UNCHANGED <<inside, connectorVars, modelVars, payloadVars>>
    \/ which = "models" /\ ModelNext /\ UNCHANGED <<inside, connectorVars, routingVars, payloadVars>>
    \/ which = "payload" /\ PayloadNext /\ UNCHANGED <<inside, connectorVars, routingVars, modelVars>>

\* The fairness of FairSpec and of GraphSpec, each for its component.
AgentsSpec ==
    /\ AgentsInit /\ [][AgentsNext]_agentsVars
    /\ WF_agentsVars(LadderTask /\ LadderRest)
    /\ \A t \in Threads : WF_agentsVars(which = "graph" /\ GraphStep(t) /\ GraphRest)
    /\ WF_agentsVars(which = "graph" /\ (Join \/ Synthesise) /\ GraphRest)

-----------------------------------------------------------------------------
\* A task's ladder runs out of rungs, and a run of the graph ends.
AgentsEnd ==
    /\ which = "ladder" => Settles
    /\ which = "graph" => GraphEnds
=============================================================================
