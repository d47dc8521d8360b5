------------------------------ MODULE GraphRun ------------------------------
(***************************************************************************)
(* The graph pipeline (core/graph): a planned list of tasks is run by a    *)
(* pool of threads, each task through retrieval, the patent search, the    *)
(* agent and its evaluation, again while the score is low, then the tool   *)
(* the agent asked for and the compliance check; the caller joins them in  *)
(* plan order.  Tools go through ToolCall, whose threads are the tasks.    *)
(*                                                                         *)
(* What is in a task's answer is told by the attempt that put it there.    *)
(***************************************************************************)
EXTENDS ToolCall

CONSTANTS
    Plan,        \* the tasks in plan order
    Pools,       \* numbers of workers to explore
    MaxRetries,
    Searching,   \* tasks for which the patent search is on
    Weak         \* tasks whose answers may score too low

ASSUME GraphAssumption ==
    /\ Plan \in Seq(Threads) /\ {Plan[i] : i \in DOMAIN Plan} = Threads
    /\ \A i, j \in DOMAIN Plan : Plan[i] = Plan[j] => i = j
    /\ Pools \subseteq Nat \ {0}
    /\ MaxRetries \in Nat /\ Searching \subseteq Threads /\ Weak \subseteq Threads

Fields == {"sources", "patents", "content", "evaluation", "tool_result", "compliance"}
Running == {"retrieval", "ip", "patents", "agent", "judge", "tool", "calling", "comply"}

VARIABLES
    workers,
    node,        \* where each task is in _process_task
    attempt,
    wants,       \* task.tool_request
    fields,      \* the attempt each field of the task's answer is from, 0 if it has none
    mark,        \* number of events before the tool was called
    toolTrace,   \* spans in the task's tool_trace
    joined,      \* futures the caller has the result of
    result       \* of run_langgraph

graphVars == <<workers, node, attempt, wants, fields, mark, toolTrace, joined, result>>

GraphInit ==
    /\ ToolInit
    /\ workers \in Pools
    /\ node = [t \in Threads |-> "queued"]
    /\ attempt = [t \in Threads |-> 0]
    /\ wants = [t \in Threads |-> FALSE]
    /\ fields = [t \in Threads |-> [f \in Fields |-> 0]]
    /\ mark = [t \in Threads |-> 0]
    /\ toolTrace = [t \in Threads |-> {}]
    /\ joined = 0 /\ result = "none"

NodeTo(t, n) == node' = [node EXCEPT ![t] = n]
Puts(t, f) == fields' = [fields EXCEPT ![t][f] = attempt[t]]
Active == {t \in Threads : node[t] \in Running}

-----------------------------------------------------------------------------
\* A worker takes the first task that is still queued.
Start(t) ==
    /\ node[t] = "queued" /\ Cardinality(Active) < workers
    /\ \A i, j \in DOMAIN Plan : Plan[j] = t /\ i < j => node[Plan[i]] # "queued"
    /\ NodeTo(t, "retrieval")
    /\ attempt' = [attempt EXCEPT ![t] = 1]
    /\ UNCHANGED <<toolVars, workers, wants, fields, mark, toolTrace, joined, result>>

Retrieve(t) ==
    /\ node[t] = "retrieval"
    /\ Puts(t, "sources")
    /\ NodeTo(t, IF t \in Searching THEN "ip" ELSE "agent")
    /\ UNCHANGED <<toolVars, workers, attempt, wants, mark, toolTrace, joined, result>>

SearchPatents(t) ==
    /\ node[t] = "ip"
    /\ Reject(t) \/ Call(t)
    /\ NodeTo(t, "patents")
    /\ UNCHANGED <<workers, attempt, wants, fields, mark, toolTrace, joined, result>>

TakePatents(t) ==
    /\ node[t] = "patents" /\ step[t] = "out"
    /\ Puts(t, "patents")
    /\ NodeTo(t, "agent")
    /\ UNCHANGED <<toolVars, workers, attempt, wants, mark, toolTrace, joined, result>>

\* Mutant: nothing of the old answer is carried over.
AnswerFresh(t) == [f \in Fields |-> IF f = "content" THEN attempt[t] ELSE 0]

\* The answer is replaced; only sources, and a tool's result, are carried over.
AnswerReplaced(t) ==
    [f \in Fields |-> CASE f = "content" -> attempt[t]
                        [] f \in {"sources", "tool_result"} -> fields[t][f]
                        [] OTHER -> 0]

\* The tool an earlier attempt asked for stays asked for.
Act(t) ==
    /\ node[t] = "agent"
    /\ fields' = [fields EXCEPT ![t] = AnswerReplaced(t)]
    /\ \E w \in BOOLEAN : wants' = [wants EXCEPT ![t] = wants[t] \/ w]
    /\ NodeTo(t, "judge")
    /\ UNCHANGED <<toolVars, workers, attempt, mark, toolTrace, joined, result>>

\* Retrieval, the agent, an answer that is no mapping, or the compliance
\* profile raises: the future holds the error.
FailTask(t) ==
    /\ node[t] \in {"retrieval", "agent", "comply"}
    /\ NodeTo(t, "failed")
    /\ UNCHANGED <<toolVars, workers, attempt, wants, fields, mark, toolTrace, joined, result>>

Accept(t) ==
    /\ node[t] = "judge"
    /\ Puts(t, "evaluation")
    /\ NodeTo(t, IF wants[t] THEN "tool" ELSE "comply")
    /\ UNCHANGED <<toolVars, workers, attempt, wants, mark, toolTrace, joined, result>>

RetryLow(t) ==
    /\ node[t] = "judge" /\ t \in Weak /\ attempt[t] <= MaxRetries
    /\ Puts(t, "evaluation")
    /\ attempt' = [attempt EXCEPT ![t] = @ + 1]
    /\ NodeTo(t, "retrieval")
    /\ UNCHANGED <<toolVars, workers, wants, mark, toolTrace, joined, result>>

UseTool(t) ==
    /\ node[t] = "tool"
    /\ mark' = [mark EXCEPT ![t] = Len(events)]
    /\ Reject(t) \/ Call(t)
    /\ NodeTo(t, "calling")
    /\ UNCHANGED <<workers, attempt, wants, fields, toolTrace, joined, result>>

\* Mutant: the first event after the mark is left out.
DeltaShort(t) == mark[t] + 2 .. Len(events)

\* What all tasks have filed since the mark.
Delta(t) == mark[t] + 1 .. Len(events)

TakeTool(t) ==
    /\ node[t] = "calling" /\ step[t] = "out"
    /\ Puts(t, "tool_result")
    /\ toolTrace' = [toolTrace EXCEPT ![t] = Delta(t)]
    /\ NodeTo(t, "comply")
    /\ UNCHANGED <<toolVars, workers, attempt, wants, mark, joined, result>>

Comply(t) ==
    /\ node[t] = "comply"
    /\ Puts(t, "compliance")
    /\ NodeTo(t, "done")
    /\ UNCHANGED <<toolVars, workers, attempt, wants, mark, toolTrace, joined, result>>

InTool(t) == Within(t) /\ UNCHANGED graphVars

\* The caller takes the results in plan order; the first error it meets is
\* raised, and the tasks not joined yet go on in the pool.
Join ==
    /\ result = "none" /\ joined < Len(Plan)
    /\ \/ node[Plan[joined + 1]] = "done" /\ joined' = joined + 1 /\ UNCHANGED result
       \/ node[Plan[joined + 1]] = "failed" /\ result' = "raised" /\ UNCHANGED joined
    /\ UNCHANGED <<toolVars, workers, node, attempt, wants, fields, mark, toolTrace>>

Synthesise ==
    /\ result = "none" /\ joined = Len(Plan)
    /\ result' \in {"returned", "raised"}
    /\ UNCHANGED <<toolVars, workers, node, attempt, wants, fields, mark, toolTrace, joined>>

GraphStep(t) ==
    \/ Start(t) \/ Retrieve(t) \/ SearchPatents(t) \/ TakePatents(t)
    \/ Act(t) \/ FailTask(t) \/ Accept(t) \/ RetryLow(t) \/ UseTool(t) \/ TakeTool(t)
    \/ Comply(t) \/ InTool(t)

GraphNext ==
    \/ \E t \in Threads : GraphStep(t)
    \/ Join \/ Synthesise
    \/ Outdate /\ UNCHANGED graphVars

\* The pool's threads and the caller are scheduled; agents and tools end.
GraphFairness ==
    /\ \A t \in Threads : WF_<<toolVars, graphVars>>(GraphStep(t))
    /\ WF_<<toolVars, graphVars>>(Join \/ Synthesise)

GraphSpec == GraphInit /\ [][GraphNext]_<<toolVars, graphVars>> /\ GraphFairness

-----------------------------------------------------------------------------
GraphTypeOK ==
    /\ ToolTypeOK
    /\ workers \in Pools
    /\ node \in [Threads -> Running \cup {"queued", "done", "failed"}]
    /\ attempt \in [Threads -> 0 .. MaxRetries + 1]
    /\ wants \in [Threads -> BOOLEAN]
    /\ fields \in [Threads -> [Fields -> 0 .. MaxRetries + 1]]
    /\ mark \in [Threads -> Nat]
    /\ toolTrace \in [Threads -> SUBSET Nat]
    /\ joined \in 0 .. Len(Plan)
    /\ result \in {"none", "returned", "raised"}

\* Whatever was retried, a finished task's answer is whole and of one attempt:
\* the text, the sources it was given and the evaluation are those of the last.
AnswerWhole ==
    \A t \in Threads : node[t] = "done" =>
        \A f \in {"content", "sources", "evaluation", "compliance"} : fields[t][f] = attempt[t]

\* The tool_trace of a task, cut from the list of every task's spans, holds the
\* span of its own call; with one worker it holds no other task's.
OwnSpanTraced ==
    \A t \in Threads : node[t] \in {"comply", "done"} /\ fields[t]["tool_result"] # 0 =>
        /\ span[t] > mark[t] => span[t] \in toolTrace[t]
        /\ workers = 1 => \A i \in toolTrace[t] : events[i].by = t

\* The run comes to an end, with a proposal or an error.
GraphEnds == <>(result # "none")
=============================================================================
