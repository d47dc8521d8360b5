---------------------------- MODULE Agents_proofs ---------------------------
(***************************************************************************)
(* What happens around an agent's answer: how often a task calls its agent *)
(* and what it makes of the last text, the cap on tool calls, the answers  *)
(* and tool traces of the graph pipeline, the announcement of a token      *)
(* limit, the way of names back into the answers, the limit on searches,   *)
(* which agent and which model a task reaches, and what the cleaning makes *)
(* of an answer's fields; then all of it together.  For any number of      *)
(* threads and tasks, any cap, limit, period, name, size, brief and list.  *)
(***************************************************************************)
EXTENDS MCAgents, Induction,
    FiniteSetTheorems, TLAPS

\* The threads that have passed the test of the cap and are still to be counted.
Passed == {t \in Threads : step[t] \in {"admitted", "filed", "running", "ran"}}

StepTypeOK ==
    /\ step \in [Threads -> {"out", "admitted", "filed", "running", "ran", "counted"}]
    /\ counted \in Nat

\* Whoever is counted has passed the test, and the last to pass it found the
\* count below the cap.
CapInv == StepTypeOK /\ counted + Cardinality(Passed) <= ToolLimit + Cardinality(Threads) - 1

\* The threads, and any of them, are finitely many.
LEMMA ThreadsCounted ==
    /\ Cardinality(Threads) \in Nat \ {0}
    /\ \A P \in SUBSET Threads : IsFiniteSet(P) /\ Cardinality(P) \in 0 .. Cardinality(Threads)
  BY ToolAssumption, FS_CardinalityType, FS_EmptySet, FS_Subset DEF ToolAssumption

\* A step of a thread that neither passes the test nor is counted.
LEMMA FewerPassed ==
  ASSUME CapInv, StepTypeOK', Passed' \subseteq Passed, counted' = counted PROVE CapInv'
<1>1. Passed \subseteq Threads /\ Passed' \subseteq Threads
  BY DEF Passed
<1>2. Cardinality(Passed') <= Cardinality(Passed)
  BY <1>1, ThreadsCounted, FS_Subset
<1> QED
  BY <1>1, <1>2, ThreadsCounted, ToolAssumption DEF CapInv, StepTypeOK, ToolAssumption

\* A thread is counted after it has passed the test, and only once.
LEMMA CapStep == CapInv /\ [ToolNext]_toolVars => CapInv'
<1> SUFFICES ASSUME CapInv, [ToolNext]_toolVars PROVE CapInv'
  OBVIOUS
<1>0. StepTypeOK /\ ToolLimit \in Nat /\ Passed \in SUBSET Threads
  BY ToolAssumption DEF CapInv, ToolAssumption, Passed
<1>1. ASSUME NEW t \in Threads, Reject(t) PROVE CapInv'
  BY <1>0, <1>1, FewerPassed DEF Reject, StepTypeOK, Passed
<1>2. ASSUME NEW t \in Threads, Call(t) PROVE CapInv'
  <2>1. CASE WithinCap
    <3>1. StepTypeOK' /\ counted' = counted /\ counted <= ToolLimit - 1
      BY <1>0, <1>2, <2>1 DEF Call, StepTo, StepTypeOK, WithinCap
    <3>2. Passed' \in SUBSET Threads
      BY DEF Passed
    <3> QED
      BY <1>0, <3>1, <3>2, ThreadsCounted DEF CapInv, StepTypeOK
  <2>2. CASE ~WithinCap
    BY <1>0, <1>2, <2>2, FewerPassed DEF Call, StepTypeOK, Passed
  <2> QED
    BY <2>1, <2>2
<1>3. ASSUME NEW t \in Threads, Within(t) PROVE CapInv'
  <2>1. CASE Look(t)
    BY <1>0, <2>1, FewerPassed DEF Look, StepTo, StepTypeOK, Passed
  <2>2. CASE Push(t)
    BY <1>0, <2>2, FewerPassed DEF Push, StepTo, StepTypeOK, Passed
  <2>3. CASE Run(t)
    BY <1>0, <2>3, FewerPassed DEF Run, StepTo, StepTypeOK, Passed
  <2>4. CASE End(t) /\ outcome[t] = "hit"
    BY <1>0, <2>4, FewerPassed DEF End, StepTo, StepTypeOK, Passed
  <2>5. CASE End(t) /\ outcome[t] # "hit"
    <3>1. StepTypeOK' /\ counted' = counted + 1
      BY <1>0, <2>5 DEF End, StepTo, StepTypeOK
    <3>2. t \in Passed /\ Passed' = Passed \ {t}
      BY <1>0, <2>5 DEF End, StepTo, StepTypeOK, Passed
    <3>3. Cardinality(Passed') = Cardinality(Passed) - 1
      BY <1>0, <3>2, ThreadsCounted, FS_RemoveElement
    <3> QED
      BY <1>0, <3>1, <3>3, ThreadsCounted DEF CapInv, StepTypeOK
  <2>6. CASE Keep(t)
    BY <1>0, <2>6, FewerPassed DEF Keep, StepTo, StepTypeOK, Passed
  <2> QED
    BY <1>3, <2>1, <2>2, <2>3, <2>4, <2>5, <2>6 DEF Within
<1>4. CASE Outdate
  BY <1>0, <1>4, FewerPassed DEF Outdate, StepTypeOK, Passed
<1>5. CASE UNCHANGED toolVars
  BY <1>0, <1>5, FewerPassed DEF toolVars, StepTypeOK, Passed
<1> QED
  BY <1>1, <1>2, <1>3, <1>4, <1>5 DEF ToolNext

\* However many threads call a tool together, and however their calls end, the count
\* exceeds the cap by fewer calls than there are threads (tool_router.py:107).
THEOREM CapOvershoots == ToolSpec => []CapOvershootBounded
<1>1. ToolInit => CapInv
  <2> SUFFICES ASSUME ToolInit PROVE CapInv
    OBVIOUS
  <2>1. Passed = {} /\ StepTypeOK /\ counted = 0
    BY DEF ToolInit, Passed, StepTypeOK
  <2> QED
    BY <2>1, FS_EmptySet, ThreadsCounted, ToolAssumption DEF CapInv, ToolAssumption
<1>2. CapInv => CapOvershootBounded
  <2> SUFFICES ASSUME CapInv PROVE CapOvershootBounded
    OBVIOUS
  <2>1. Passed \in SUBSET Threads
    BY DEF Passed
  <2> QED
    BY <2>1, ThreadsCounted, ToolAssumption
    DEF CapInv, StepTypeOK, CapOvershootBounded, ToolAssumption
<1> QED
  BY <1>1, <1>2, CapStep, PTL DEF ToolSpec

-----------------------------------------------------------------------------
\* The pipeline without its fairness, which its invariants do not need.
GraphSafety == GraphInit /\ [][GraphNext]_<<toolVars, graphVars>>

LEMMA GraphIsSafe == GraphSpec => GraphSafety
  BY DEF GraphSpec, GraphSafety

\* The graph's tasks do with tools what any caller of the router may do: every
\* behaviour of the pipeline is one of the router, and keeps its bound.
THEOREM GraphUsesTools == GraphSafety => ToolSpec /\ []CapOvershootBounded
<1>1. GraphInit => ToolInit
  BY DEF GraphInit
<1>2. [GraphNext]_<<toolVars, graphVars>> => [ToolNext]_toolVars
  <2> SUFFICES ASSUME [GraphNext]_<<toolVars, graphVars>> PROVE [ToolNext]_toolVars
    OBVIOUS
  <2>1. ASSUME NEW t \in Threads, GraphStep(t) PROVE [ToolNext]_toolVars
    BY <2>1
    DEF GraphStep, Start, Retrieve, SearchPatents, TakePatents, Act, FailTask, Accept,
        RetryLow, UseTool, TakeTool, Comply, InTool, ToolNext
  <2>2. CASE Join \/ Synthesise
    BY <2>2 DEF Join, Synthesise
  <2>3. CASE Outdate
    BY <2>3 DEF ToolNext
  <2>4. CASE UNCHANGED <<toolVars, graphVars>>
    BY <2>4
  <2> QED
    BY <2>1, <2>2, <2>3, <2>4 DEF GraphNext
<1> QED
  BY <1>1, <1>2, CapOvershoots, PTL DEF GraphSafety, ToolSpec

-----------------------------------------------------------------------------
GraphNodes == Running \cup {"queued", "done", "failed"}

\* How much of a task's answer is of the attempt under way, by how far it has come.
AnswerInv ==
    /\ node \in [Threads -> GraphNodes]
    /\ attempt \in [Threads -> Nat]
    /\ fields \in [Threads -> [Fields -> Nat]]
    /\ \A t \in Threads :
        /\ node[t] \in Running \ {"retrieval"} => fields[t]["sources"] = attempt[t]
        /\ node[t] \in {"judge", "tool", "calling", "comply"} => fields[t]["content"] = attempt[t]
        /\ node[t] \in {"tool", "calling", "comply"} => fields[t]["evaluation"] = attempt[t]
    /\ AnswerWhole

\* Each node fills its own part of the answer, and a retry goes through all of them.
LEMMA AnswerStep == AnswerInv /\ [GraphNext]_<<toolVars, graphVars>> => AnswerInv'
<1> SUFFICES ASSUME AnswerInv, [GraphNext]_<<toolVars, graphVars>> PROVE AnswerInv'
  OBVIOUS
<1> USE DEF AnswerInv, AnswerWhole, GraphNodes, Running, Fields, NodeTo, Puts
<1>1. ASSUME NEW t \in Threads, Start(t) PROVE AnswerInv'
  BY <1>1 DEF Start
<1>2. ASSUME NEW t \in Threads, Retrieve(t) PROVE AnswerInv'
  BY <1>2 DEF Retrieve
<1>3. ASSUME NEW t \in Threads, SearchPatents(t) PROVE AnswerInv'
  BY <1>3 DEF SearchPatents
<1>4. ASSUME NEW t \in Threads, TakePatents(t) PROVE AnswerInv'
  BY <1>4 DEF TakePatents
<1>5. ASSUME NEW t \in Threads, Act(t) PROVE AnswerInv'
  BY <1>5 DEF Act, AnswerReplaced
<1>6. ASSUME NEW t \in Threads, FailTask(t) PROVE AnswerInv'
  BY <1>6 DEF FailTask
<1>7. ASSUME NEW t \in Threads, Accept(t) PROVE AnswerInv'
  BY <1>7 DEF Accept
<1>8. ASSUME NEW t \in Threads, RetryLow(t) PROVE AnswerInv'
  BY <1>8 DEF RetryLow
<1>9. ASSUME NEW t \in Threads, UseTool(t) PROVE AnswerInv'
  BY <1>9 DEF UseTool
<1>10. ASSUME NEW t \in Threads, TakeTool(t) PROVE AnswerInv'
  BY <1>10 DEF TakeTool
<1>11. ASSUME NEW t \in Threads, Comply(t) PROVE AnswerInv'
  BY <1>11 DEF Comply
<1>12. ASSUME NEW t \in Threads, InTool(t) PROVE AnswerInv'
  BY <1>12 DEF InTool, graphVars
<1>13. CASE Join \/ Synthesise
  BY <1>13 DEF Join, Synthesise
<1>14. CASE UNCHANGED graphVars
  BY <1>14 DEF graphVars
<1> QED
  BY <1>1, <1>2, <1>3, <1>4, <1>5, <1>6, <1>7, <1>8, <1>9, <1>10, <1>11, <1>12, <1>13, <1>14
  DEF GraphNext, GraphStep

\* Retried or not, the text, the sources, the evaluation and the compliance check of a
\* finished task belong together (core/graph/nodes.py, graph.py).
THEOREM AnswerIsWhole == GraphSafety => []AnswerWhole
<1>1. GraphInit => AnswerInv
  BY DEF GraphInit, AnswerInv, GraphNodes, Running, Fields, AnswerWhole
<1>2. AnswerInv => AnswerWhole
  BY DEF AnswerInv
<1> QED
  BY <1>1, <1>2, AnswerStep, PTL DEF GraphSafety

-----------------------------------------------------------------------------
\* The flags of the tokens stand for what was announced, in this run or the one before,
\* and once a run has used any they follow its usage.
LimitInv ==
    /\ used \in Nat
    /\ flags \in [crossed : BOOLEAN, exceeded : BOOLEAN]
    /\ \A f \in {"crossed", "exceeded"} : flags[f] => f \in announced \/ carried[f]
    /\ used > 0 => flags = FlagsOf(used)

\* Flags change with the usage, and rise with an event.
LEMMA LimitStep == LimitInv /\ [LlmNext]_llmVars => LimitInv'
<1> SUFFICES ASSUME LimitInv, [LlmNext]_llmVars PROVE LimitInv'
  OBVIOUS
<1>0. Limit \in Nat /\ Sizes \subseteq Nat
  BY LlmAssumption DEF LlmAssumption
<1>1. CASE NewRun
  BY <1>1 DEF NewRun, LimitInv
<1>2. ASSUME NEW n \in Sizes, Account(n) PROVE LimitInv'
  <2>1. used' \in Nat /\ flags' = FlagsOf(used') /\ flags' \in [crossed : BOOLEAN, exceeded : BOOLEAN]
    BY <1>0, <1>2 DEF Account, FlagsOf, LimitInv
  <2>2. ASSUME NEW f \in {"crossed", "exceeded"}, flags'[f] PROVE f \in announced' \/ carried'[f]
    BY <1>2, <2>2 DEF Account, Crossings, LimitInv
  <2> QED
    BY <2>1, <2>2 DEF LimitInv
<1>3. CASE UNCHANGED usage
  BY <1>3 DEF usage, LimitInv, FlagsOf
<1> QED
  BY <1>1, <1>2, <1>3
  DEF LlmNext, Ask, AnswerWithoutRequest, Reply, NotFound, TryAgain, Raise, Deliver,
      GiveValid, RaiseBroken, AskFallback, llmVars, usage

\* A run over its limit has sent both of its events, whatever the limit and the sizes
\* of the replies, if the flags were down when it began (app/__init__.py, log_usage).
THEOREM LimitAnnounced == LlmSpec => []StopAnnounced
<1>1. LlmInit => LimitInv
  BY DEF LlmInit, LimitInv, NoFlags
<1>2. LimitInv => StopAnnounced
  <2> SUFFICES ASSUME LimitInv, Limit > 0, ~WithinLimits,
                      NEW f \in {"crossed", "exceeded"}
               PROVE f \in announced \/ carried[f]
    BY DEF StopAnnounced
  <2>1. Limit \in Nat /\ used \in Nat /\ used > Limit
    BY LlmAssumption DEF LlmAssumption, LimitInv, WithinLimits
  <2>2. flags = FlagsOf(used)
    BY <2>1 DEF LimitInv
  <2>3. Limit > 0 /\ 10 * used >= 8 * Limit /\ used >= Limit
    BY <2>1
  <2>4. flags["crossed"] /\ flags["exceeded"]
    BY <2>2, <2>3, Zenon DEF FlagsOf
  <2> QED
    BY <2>4 DEF LimitInv
<1> QED
  BY <1>1, <1>2, LimitStep, PTL DEF LlmSpec

-----------------------------------------------------------------------------
ToolSteps == {"out", "admitted", "filed", "running", "ran", "counted"}
Events == [parent : Nat, by : Threads, ended : BOOLEAN, lines : Nat]

RouterTypeOK ==
    /\ step \in [Threads -> ToolSteps]
    /\ events \in Seq(Events) /\ stack \in Seq(Nat)
    /\ span \in [Threads -> Nat]

PipelineTypeOK ==
    /\ node \in [Threads -> GraphNodes]
    /\ mark \in [Threads -> Nat]
    /\ toolTrace \in [Threads -> SUBSET Nat]
    /\ attempt \in [Threads -> Nat]
    /\ fields \in [Threads -> [Fields -> Nat]]
    /\ workers \in Nat \ {0}

\* One worker has one task in hand.
OneActive == workers = 1 => \A t, u \in Threads : node[t] \in Running /\ node[u] \in Running => t = u

\* A task is in the router only where it waits for it, and has the result of a tool
\* only when that has answered.
InRouter ==
    \A t \in Threads :
        /\ node[t] \notin {"patents", "calling"} => step[t] = "out"
        /\ node[t] \notin {"comply", "done", "failed"} => fields[t]["tool_result"] = 0

\* What was filed since a task's mark is its own while it is the only one, and what was
\* cut from the list stays as it was.
FiledSince(t) == workers = 1 => \A i \in mark[t] + 1 .. Len(events) : events[i].by = t
CutFrom(t) ==
    /\ toolTrace[t] \subseteq 1 .. Len(events)
    /\ span[t] > mark[t] => span[t] \in toolTrace[t]
    /\ workers = 1 => \A i \in toolTrace[t] : events[i].by = t

Tracing(t) == node[t] = "calling"
Traced(t) == node[t] \in {"comply", "done"} /\ fields[t]["tool_result"] # 0

TraceInv ==
    \A t \in Threads :
        /\ span[t] <= Len(events)
        /\ Tracing(t) => FiledSince(t)
        /\ Traced(t) => CutFrom(t)

SpanInv == RouterTypeOK /\ PipelineTypeOK /\ OneActive /\ InRouter /\ TraceInv

\* Inside the router a thread files at most one event, its own, and changes no
\* event's owner.
LEMMA FiledByOwner ==
  ASSUME RouterTypeOK, NEW u \in Threads, Within(u)
  PROVE  /\ RouterTypeOK'
         /\ \A i \in 1 .. Len(events) : events'[i].by = events[i].by
         /\ \/ Len(events') = Len(events) /\ span' = span
            \/ /\ Len(events') = Len(events) + 1
               /\ events'[Len(events) + 1].by = u
               /\ span' = [span EXCEPT ![u] = Len(events) + 1]
<1> USE DEF RouterTypeOK, ToolSteps
<1>1. CASE Look(u)
  <2> DEFINE e == [parent |-> Top, by |-> u, ended |-> FALSE, lines |-> 0]
  <2>1. e \in Events /\ e.by = u
    <3>1. Top \in Nat
      BY DEF Top
    <3> QED
      BY <3>1 DEF Events
  <2>2. events' = Append(events, e)
    BY <1>1 DEF Look
  <2> HIDE DEF e
  <2>3. events' \in Seq(Events) /\ Len(events') = Len(events) + 1 /\ events'[Len(events) + 1] = e
        /\ \A i \in 1 .. Len(events) : events'[i] = events[i]
    BY <2>1, <2>2
  <2>4. step' \in [Threads -> ToolSteps]
    BY <1>1 DEF Look, StepTo
  <2>5. span' = [span EXCEPT ![u] = Len(events) + 1] /\ stack' = stack
    BY <1>1 DEF Look
  <2>6. Len(events) \in Nat /\ span' \in [Threads -> Nat]
    BY <2>5
  <2> QED
    BY <2>1, <2>3, <2>4, <2>5, <2>6
<1>2. CASE Push(u)
  <2>1. step' \in [Threads -> ToolSteps] /\ events' = events /\ span' = span
    BY <1>2 DEF Push, StepTo
  <2>2. stack' \in Seq(Nat)
    BY <1>2 DEF Push
  <2> QED
    BY <2>1, <2>2
<1>3. CASE Run(u)
  BY <1>3 DEF Run, StepTo
<1>4. CASE End(u)
  <2> DEFINE E == [events EXCEPT ![span[u]] = Closed(events[span[u]])]
  <2>0. ASSUME NEW r \in Events PROVE Closed(r) \in Events /\ Closed(r).by = r.by
    BY DEF Events, Closed
  <2>1. events' = E
    BY <1>4, Zenon DEF End, SpanEnded
  <2>2. ASSUME span[u] \in 1 .. Len(events)
        PROVE  E \in Seq(Events) /\ Len(E) = Len(events) /\ \A i \in 1 .. Len(events) : E[i].by = events[i].by
    <3>1. events[span[u]] \in Events
      BY <2>2, ElementOfSeq
    <3>2. E \in Seq(Events) /\ Len(E) = Len(events)
          /\ \A j \in 1 .. Len(events) :
                E[j] = IF j = span[u] THEN Closed(events[span[u]]) ELSE events[j]
      BY <2>0, <2>2, <3>1, ExceptSeq
    <3> QED
      BY <2>0, <3>1, <3>2
  <2>3. ASSUME span[u] \notin 1 .. Len(events) PROVE E = events
    BY <2>3
  <2>6. E \in Seq(Events) /\ Len(E) = Len(events) /\ \A i \in 1 .. Len(events) : E[i].by = events[i].by
    BY <2>2, <2>3
  <2> HIDE DEF E
  <2>4. step' \in [Threads -> ToolSteps] /\ span' = span
    BY <1>4 DEF End, StepTo
  <2>5. stack' \in Seq(Nat)
    <3>1. stack' = stack \/ stack' = SubSeq(stack, 1, Len(stack) - 1)
      BY <1>4, Zenon DEF End, SpanEnded
    <3>2. SubSeq(stack, 1, Len(stack) - 1) \in Seq(Nat)
      <4>1. Len(stack) \in Nat /\ \A i \in 1 .. Len(stack) - 1 : stack[i] \in Nat
        OBVIOUS
      <4> QED
        BY <4>1
    <3> QED
      BY <3>1, <3>2
  <2> QED
    BY <2>1, <2>4, <2>5, <2>6
<1>5. CASE Keep(u)
  BY <1>5 DEF Keep, StepTo
<1> QED
  BY <1>1, <1>2, <1>3, <1>4, <1>5 DEF Within

\* At its door the router files nothing.
LEMMA Entered ==
  ASSUME RouterTypeOK, NEW t \in Threads, Reject(t) \/ Call(t)
  PROVE  /\ RouterTypeOK' /\ events' = events /\ span' = span
         /\ \A u \in Threads \ {t} : step'[u] = step[u]
  BY DEF Reject, Call, StepTo, RouterTypeOK, ToolSteps

\* A worker that is alone starts a task when none is active.
LEMMA StartsAlone ==
  ASSUME workers = 1, NEW t \in Threads, Start(t), NEW u \in Threads PROVE node[u] \notin Running
<1>1. Active \in SUBSET Threads /\ Cardinality(Active) < 1
  BY DEF Start, Active
<1>2. Active = {}
  BY <1>1, ThreadsCounted, FS_EmptySet
<1> QED
  BY <1>2 DEF Active

\* Steps that file nothing leave the traces as they are, but for a task that marks the
\* list or cuts from it.
LEMMA TracesStay ==
  ASSUME SpanInv, events' = events, span' = span, workers' = workers,
         \A t \in Threads :
            /\ Tracing(t)' => FiledSince(t)' \/ (Tracing(t) /\ mark'[t] = mark[t])
            /\ Traced(t)' => \/ CutFrom(t)'
                             \/ Traced(t) /\ mark'[t] = mark[t] /\ toolTrace'[t] = toolTrace[t]
  PROVE  TraceInv'
<1> SUFFICES ASSUME NEW t \in Threads
             PROVE  /\ span'[t] <= Len(events')
                    /\ Tracing(t)' => FiledSince(t)'
                    /\ Traced(t)' => CutFrom(t)'
  BY DEF TraceInv
<1>1. span'[t] <= Len(events')
  BY DEF SpanInv, TraceInv
<1>2. ASSUME Tracing(t), mark'[t] = mark[t] PROVE FiledSince(t)'
  BY <1>2 DEF SpanInv, TraceInv, FiledSince
<1>3. ASSUME Traced(t), mark'[t] = mark[t], toolTrace'[t] = toolTrace[t] PROVE CutFrom(t)'
  BY <1>3 DEF SpanInv, TraceInv, CutFrom
<1> QED
  BY <1>1, <1>2, <1>3

\* Marks, spans and cuts stay in step with the list of events.
LEMMA SpanStep == SpanInv /\ [GraphNext]_<<toolVars, graphVars>> => SpanInv'
<1> SUFFICES ASSUME SpanInv, [GraphNext]_<<toolVars, graphVars>> PROVE SpanInv'
  OBVIOUS
<1> USE DEF GraphNodes, Running, Fields, NodeTo, Puts
<1>0. /\ RouterTypeOK /\ PipelineTypeOK /\ OneActive /\ InRouter /\ TraceInv
      /\ Len(events) \in Nat
  BY DEF SpanInv, RouterTypeOK
<1>1. ASSUME NEW t \in Threads,
             \/ Retrieve(t) \/ TakePatents(t) \/ FailTask(t)
             \/ Accept(t) \/ RetryLow(t) \/ Comply(t)
      PROVE  SpanInv'
  <2> USE DEF Retrieve, TakePatents, FailTask, Accept, RetryLow, Comply
  <2>1. UNCHANGED toolVars /\ workers' = workers
    BY <1>1
  <2>2. PipelineTypeOK'
    <3>1. CASE Retrieve(t)
      BY <1>0, <3>1 DEF PipelineTypeOK
    <3>2. CASE TakePatents(t)
      BY <1>0, <3>2 DEF PipelineTypeOK
    <3>3. CASE FailTask(t)
      BY <1>0, <3>3 DEF PipelineTypeOK
    <3>4. CASE Accept(t)
      BY <1>0, <3>4 DEF PipelineTypeOK
    <3>5. CASE RetryLow(t)
      <4>1. attempt' \in [Threads -> Nat] /\ node' \in [Threads -> GraphNodes]
        BY <1>0, <3>5 DEF PipelineTypeOK
      <4>2. fields' \in [Threads -> [Fields -> Nat]]
        BY <1>0, <3>5 DEF PipelineTypeOK
      <4> QED
        BY <1>0, <3>5, <4>1, <4>2 DEF PipelineTypeOK
    <3>6. CASE Comply(t)
      BY <1>0, <3>6 DEF PipelineTypeOK
    <3> QED
      BY <1>1, <3>1, <3>2, <3>3, <3>4, <3>5, <3>6
  <2>3. InRouter'
    <3>1. CASE Retrieve(t)
      BY <1>0, <2>1, <3>1 DEF toolVars, InRouter, PipelineTypeOK
    <3>2. CASE TakePatents(t)
      BY <1>0, <2>1, <3>2 DEF toolVars, InRouter, PipelineTypeOK
    <3>3. CASE FailTask(t)
      BY <1>0, <2>1, <3>3 DEF toolVars, InRouter, PipelineTypeOK
    <3>4. CASE Accept(t)
      BY <1>0, <2>1, <3>4 DEF toolVars, InRouter, PipelineTypeOK
    <3>5. CASE RetryLow(t)
      BY <1>0, <2>1, <3>5 DEF toolVars, InRouter, PipelineTypeOK
    <3>6. CASE Comply(t)
      BY <1>0, <2>1, <3>6 DEF toolVars, InRouter, PipelineTypeOK
    <3> QED
      BY <1>1, <3>1, <3>2, <3>3, <3>4, <3>5, <3>6
  <2>6. OneActive'
    BY <1>0, <1>1, <2>1 DEF OneActive, PipelineTypeOK
  <2>4. \A u \in Threads : (Tracing(u)' => Tracing(u)) /\ (Traced(u)' => Traced(u))
                           /\ mark'[u] = mark[u] /\ toolTrace'[u] = toolTrace[u]
    <3>1. CASE Retrieve(t)
      BY <1>0, <3>1 DEF Tracing, Traced, PipelineTypeOK
    <3>2. CASE TakePatents(t)
      BY <1>0, <3>2 DEF Tracing, Traced, PipelineTypeOK
    <3>3. CASE FailTask(t)
      BY <1>0, <3>3 DEF Tracing, Traced, PipelineTypeOK
    <3>4. CASE Accept(t)
      BY <1>0, <3>4 DEF Tracing, Traced, PipelineTypeOK, InRouter
    <3>5. CASE RetryLow(t)
      BY <1>0, <3>5 DEF Tracing, Traced, PipelineTypeOK, InRouter
    <3>6. CASE Comply(t)
      BY <1>0, <3>6 DEF Tracing, Traced, PipelineTypeOK
    <3> QED
      BY <1>1, <3>1, <3>2, <3>3, <3>4, <3>5, <3>6
  <2>5. TraceInv'
    BY <2>1, <2>4, TracesStay DEF toolVars
  <2> QED
    BY <1>0, <2>1, <2>2, <2>3, <2>5, <2>6 DEF SpanInv, toolVars, RouterTypeOK
<1>2. ASSUME NEW t \in Threads, Act(t) PROVE SpanInv'
  <2>1. UNCHANGED toolVars /\ workers' = workers
    BY <1>2 DEF Act
  <2>2. /\ AnswerReplaced(t) \in [Fields -> Nat]
        /\ AnswerReplaced(t)["tool_result"] = 0
    <3>1. fields[t] \in [Fields -> Nat] /\ attempt[t] \in Nat /\ fields[t]["tool_result"] = 0
      BY <1>0, <1>2 DEF Act, PipelineTypeOK, InRouter
    <3> QED
      BY <3>1 DEF AnswerReplaced
  <2>3. PipelineTypeOK' /\ OneActive' /\ InRouter'
    BY <1>0, <1>2, <2>1, <2>2 DEF Act, PipelineTypeOK, toolVars, OneActive, InRouter
  <2>4. \A u \in Threads : (Tracing(u)' => Tracing(u)) /\ (Traced(u)' => Traced(u))
                           /\ mark'[u] = mark[u] /\ toolTrace'[u] = toolTrace[u]
    BY <1>0, <1>2 DEF Act, Tracing, Traced, PipelineTypeOK
  <2>5. TraceInv'
    BY <2>1, <2>4, TracesStay DEF toolVars
  <2> QED
    BY <1>0, <2>1, <2>3, <2>5 DEF SpanInv, toolVars, RouterTypeOK
<1>3. ASSUME NEW t \in Threads, Start(t) PROVE SpanInv'
  <2>1. UNCHANGED toolVars /\ workers' = workers
    BY <1>3 DEF Start
  <2>2. PipelineTypeOK' /\ InRouter'
    BY <1>0, <1>3, <2>1 DEF Start, PipelineTypeOK, toolVars, InRouter
  <2>3. OneActive'
    <3> SUFFICES ASSUME workers = 1, NEW u \in Threads, node'[u] \in Running PROVE u = t
      BY <2>1 DEF OneActive
    <3>1. node[u] \notin Running
      BY <1>3, StartsAlone
    <3> QED
      BY <1>0, <1>3, <3>1 DEF Start, PipelineTypeOK
  <2>4. \A u \in Threads : (Tracing(u)' => Tracing(u)) /\ (Traced(u)' => Traced(u))
                           /\ mark'[u] = mark[u] /\ toolTrace'[u] = toolTrace[u]
    BY <1>0, <1>3 DEF Start, Tracing, Traced, PipelineTypeOK
  <2>5. TraceInv'
    BY <2>1, <2>4, TracesStay DEF toolVars
  <2> QED
    BY <1>0, <2>1, <2>2, <2>3, <2>5 DEF SpanInv, toolVars, RouterTypeOK
<1>4. ASSUME NEW t \in Threads, SearchPatents(t) \/ UseTool(t) PROVE SpanInv'
  <2>1. /\ RouterTypeOK' /\ events' = events /\ span' = span /\ workers' = workers
        /\ \A u \in Threads \ {t} : step'[u] = step[u]
    BY <1>0, <1>4, Entered DEF SearchPatents, UseTool
  <2>2. PipelineTypeOK' /\ OneActive'
    BY <1>0, <1>4 DEF SearchPatents, UseTool, OneActive, PipelineTypeOK
  <2>3. InRouter'
    BY <1>0, <1>4, <2>1 DEF SearchPatents, UseTool, InRouter, PipelineTypeOK
  <2>4. \A u \in Threads : Traced(u)' => Traced(u) /\ mark'[u] = mark[u] /\ toolTrace'[u] = toolTrace[u]
    BY <1>0, <1>4 DEF SearchPatents, UseTool, Traced, PipelineTypeOK
  <2>5. \A u \in Threads : Tracing(u)' => mark'[u] = Len(events) \/ (Tracing(u) /\ mark'[u] = mark[u])
    BY <1>0, <1>4 DEF SearchPatents, UseTool, Tracing, PipelineTypeOK
  <2>6. \A u \in Threads : mark'[u] = Len(events) => FiledSince(u)'
    BY <1>0, <2>1 DEF FiledSince
  <2>7. TraceInv'
    BY <2>1, <2>4, <2>5, <2>6, TracesStay
  <2> QED
    BY <2>1, <2>2, <2>3, <2>7 DEF SpanInv
<1>5. ASSUME NEW t \in Threads, TakeTool(t) PROVE SpanInv'
  <2>1. UNCHANGED toolVars /\ workers' = workers /\ mark' = mark
    BY <1>5 DEF TakeTool
  <2>2. Delta(t) \in SUBSET Nat
    BY <1>0 DEF Delta, PipelineTypeOK
  <2>3. PipelineTypeOK' /\ OneActive' /\ InRouter'
    BY <1>0, <1>5, <2>1, <2>2 DEF TakeTool, PipelineTypeOK, toolVars, OneActive, InRouter
  <2>4. CutFrom(t)'
    <3>1. toolTrace'[t] = mark[t] + 1 .. Len(events)
      BY <1>0, <1>5 DEF TakeTool, Delta, PipelineTypeOK
    <3>2. mark[t] \in Nat /\ span[t] \in Nat /\ span[t] <= Len(events)
      BY <1>0 DEF PipelineTypeOK, RouterTypeOK, TraceInv
    <3>3. FiledSince(t)
      BY <1>0, <1>5 DEF TakeTool, TraceInv, Tracing
    <3> QED
      BY <1>0, <2>1, <3>1, <3>2, <3>3 DEF CutFrom, FiledSince, toolVars
  <2>5. \A u \in Threads \ {t} : (Tracing(u)' => Tracing(u)) /\ (Traced(u)' => Traced(u))
                                 /\ mark'[u] = mark[u] /\ toolTrace'[u] = toolTrace[u]
    BY <1>0, <1>5 DEF TakeTool, Tracing, Traced, PipelineTypeOK
  <2>6. ~Tracing(t)'
    BY <1>0, <1>5 DEF TakeTool, Tracing, PipelineTypeOK
  <2>7. TraceInv'
    BY <2>1, <2>4, <2>5, <2>6, TracesStay DEF toolVars
  <2> QED
    BY <1>0, <2>1, <2>3, <2>7 DEF SpanInv, toolVars, RouterTypeOK
<1>6. ASSUME NEW u \in Threads, InTool(u) PROVE SpanInv'
  <2>1. /\ RouterTypeOK'
        /\ \A i \in 1 .. Len(events) : events'[i].by = events[i].by
        /\ \/ Len(events') = Len(events) /\ span' = span
           \/ /\ Len(events') = Len(events) + 1
              /\ events'[Len(events) + 1].by = u
              /\ span' = [span EXCEPT ![u] = Len(events) + 1]
    BY <1>0, <1>6, FiledByOwner DEF InTool
  <2>2. UNCHANGED graphVars /\ step[u] # "out"
    BY <1>6 DEF InTool, Within, Look, Push, Run, End, Keep
  <2>3. node[u] \in {"patents", "calling"}
    BY <1>0, <2>2 DEF InRouter
  <2>4. \A t \in Threads \ {u} : step'[t] = step[t]
    BY <1>0, <1>6 DEF InTool, Within, Look, Push, Run, End, Keep, StepTo, RouterTypeOK
  <2>5. PipelineTypeOK' /\ OneActive' /\ InRouter'
    BY <1>0, <2>2, <2>3, <2>4 DEF graphVars, OneActive, InRouter, PipelineTypeOK
  <2>6. ASSUME NEW t \in Threads
        PROVE  /\ span'[t] <= Len(events')
               /\ Tracing(t)' => FiledSince(t)'
               /\ Traced(t)' => CutFrom(t)'
    <3>0. /\ span[t] \in Nat /\ mark[t] \in Nat /\ span[t] <= Len(events)
          /\ mark'[t] = mark[t] /\ workers' = workers /\ toolTrace'[t] = toolTrace[t]
          /\ node'[t] = node[t] /\ fields'[t] = fields[t]
      BY <1>0, <2>2 DEF graphVars, PipelineTypeOK, RouterTypeOK, TraceInv
    <3>1. span'[t] <= Len(events')
      <4>1. CASE Len(events') = Len(events) /\ span' = span
        BY <3>0, <4>1
      <4>2. CASE Len(events') = Len(events) + 1 /\ span' = [span EXCEPT ![u] = Len(events) + 1]
        <5>1. span'[t] = Len(events) + 1 \/ span'[t] = span[t]
          BY <1>0, <4>2 DEF RouterTypeOK
        <5> QED
          BY <1>0, <3>0, <4>2, <5>1
      <4> QED
        BY <2>1, <4>1, <4>2
    <3>2. ASSUME Tracing(t)', workers = 1 PROVE u = t
      BY <1>0, <2>3, <3>0, <3>2 DEF Tracing, OneActive
    <3>3. ASSUME Tracing(t)' PROVE FiledSince(t)'
      <4> SUFFICES ASSUME workers = 1, NEW i \in mark[t] + 1 .. Len(events') PROVE events'[i].by = t
        BY <3>0 DEF FiledSince
      <4>1. CASE i \in 1 .. Len(events)
        <5>1. FiledSince(t)
          BY <1>0, <3>0, <3>3 DEF Tracing, TraceInv
        <5> QED
          BY <1>0, <2>1, <3>0, <4>1, <5>1 DEF FiledSince
      <4>2. CASE i = Len(events) + 1
        BY <2>1, <3>2, <3>3, <4>2
      <4> QED
        BY <1>0, <2>1, <3>0, <4>1, <4>2
    <3>4. ASSUME Traced(t)' PROVE CutFrom(t)'
      <4>1. t # u /\ CutFrom(t)
        BY <1>0, <2>3, <3>0, <3>4 DEF Traced, TraceInv
      <4>2. span'[t] = span[t] /\ Len(events) <= Len(events')
        BY <1>0, <2>1, <4>1 DEF RouterTypeOK
      <4> QED
        BY <1>0, <2>1, <3>0, <4>1, <4>2 DEF CutFrom
    <3> QED
      BY <3>1, <3>3, <3>4
  <2> QED
    BY <2>1, <2>5, <2>6 DEF SpanInv, TraceInv
<1>7. CASE UNCHANGED <<counted, events, stack, step, params, span, outcome, workers, node,
                       attempt, wants, fields, mark, toolTrace>>
  BY <1>0, <1>7 DEF SpanInv, RouterTypeOK, PipelineTypeOK, OneActive, InRouter, TraceInv, Tracing,
                    Traced, FiledSince, CutFrom
<1> QED
  <2>1. ASSUME NEW t \in Threads, GraphStep(t) PROVE SpanInv'
    BY <1>1, <1>2, <1>3, <1>4, <1>5, <1>6, <2>1 DEF GraphStep
  <2>2. CASE Join \/ Synthesise \/ (Outdate /\ UNCHANGED graphVars) \/ UNCHANGED <<toolVars, graphVars>>
    BY <1>7, <2>2 DEF Join, Synthesise, Outdate, toolVars, graphVars
  <2> QED
    BY <2>1, <2>2 DEF GraphNext

LEMMA SpanInit == GraphInit => SpanInv
<1> SUFFICES ASSUME GraphInit PROVE SpanInv
  OBVIOUS
<1> USE DEF GraphInit, ToolInit
<1>1. RouterTypeOK /\ Len(events) = 0
  BY DEF RouterTypeOK, ToolSteps
<1>2. PipelineTypeOK
  BY GraphAssumption DEF GraphAssumption, PipelineTypeOK, GraphNodes, Fields
<1>3. OneActive /\ InRouter /\ TraceInv
  BY <1>1 DEF OneActive, InRouter, TraceInv, Tracing, Traced, Running, Fields
<1> QED
  BY <1>1, <1>2, <1>3 DEF SpanInv

\* The tool_trace of a task holds the span of its own call, and with one worker no
\* other's, for any number of tasks and attempts (core/provenance.py, core/graph).
THEOREM OwnSpansTraced == GraphSafety => []OwnSpanTraced
<1>1. SpanInv => OwnSpanTraced
  BY DEF SpanInv, TraceInv, Traced, CutFrom, OwnSpanTraced
<1> QED
  BY <1>1, SpanInit, SpanStep, PTL DEF GraphSafety

-----------------------------------------------------------------------------
\* How many steps of its own a task of the pipeline may still take: those of this attempt,
\* the router's included, and nineteen for each attempt after it.
RouterLeft(t) ==
    CASE step[t] = "admitted" -> 5
      [] step[t] = "filed" -> 4
      [] step[t] = "running" -> 3
      [] step[t] = "ran" -> 2
      [] step[t] = "counted" -> 1
      [] step[t] = "out" -> 0

NodesLeft(t) ==
    CASE node[t] = "queued" -> 0
      [] node[t] = "retrieval" -> 18
      [] node[t] = "ip" -> 17
      [] node[t] = "patents" -> 11 + RouterLeft(t)
      [] node[t] = "agent" -> 10
      [] node[t] = "judge" -> 9
      [] node[t] = "tool" -> 8
      [] node[t] = "calling" -> 2 + RouterLeft(t)
      [] node[t] = "comply" -> 1

WorkLeft(t) ==
    IF node[t] \in {"done", "failed"} THEN 0
    ELSE 19 * (MaxRetries + 1 - attempt[t]) + NodesLeft(t)

RouterCounts(t) ==
    /\ step[t] = "admitted" => RouterLeft(t) = 5
    /\ step[t] = "filed" => RouterLeft(t) = 4
    /\ step[t] = "running" => RouterLeft(t) = 3
    /\ step[t] = "ran" => RouterLeft(t) = 2
    /\ step[t] = "counted" => RouterLeft(t) = 1
    /\ step[t] = "out" => RouterLeft(t) = 0

NodesCount(t) ==
    /\ node[t] = "queued" => NodesLeft(t) = 0
    /\ node[t] = "retrieval" => NodesLeft(t) = 18
    /\ node[t] = "ip" => NodesLeft(t) = 17
    /\ node[t] = "patents" => NodesLeft(t) = 11 + RouterLeft(t)
    /\ node[t] = "agent" => NodesLeft(t) = 10
    /\ node[t] = "judge" => NodesLeft(t) = 9
    /\ node[t] = "tool" => NodesLeft(t) = 8
    /\ node[t] = "calling" => NodesLeft(t) = 2 + RouterLeft(t)
    /\ node[t] = "comply" => NodesLeft(t) = 1

AllCount == \A t \in Threads : RouterCounts(t) /\ NodesCount(t)

LEMMA CountsAt == AllCount
<1>1. \A t \in Threads : RouterCounts(t)
  BY DEF RouterCounts, RouterLeft
<1>2. \A t \in Threads : NodesCount(t)
  BY DEF NodesCount, NodesLeft
<1> QED
  BY <1>1, <1>2 DEF AllCount

\* No task is tried more often than MaxRetries allows.
RoundInv ==
    \A t \in Threads :
        /\ attempt[t] \in 0 .. MaxRetries + 1
        /\ node[t] = "queued" <=> attempt[t] = 0

LEMMA RoundStep == SpanInv /\ RoundInv /\ [GraphNext]_<<toolVars, graphVars>> => RoundInv'
<1> SUFFICES ASSUME SpanInv, RoundInv, [GraphNext]_<<toolVars, graphVars>> PROVE RoundInv'
  OBVIOUS
<1> USE GraphAssumption DEF RoundInv, SpanInv, PipelineTypeOK, NodeTo
<1>1. ASSUME NEW t \in Threads, Start(t) PROVE RoundInv'
  BY <1>1 DEF Start
<1>2. ASSUME NEW t \in Threads, RetryLow(t) PROVE RoundInv'
  BY <1>2 DEF RetryLow
<1>3. ASSUME NEW t \in Threads, Retrieve(t) \/ SearchPatents(t) \/ TakePatents(t) \/ Act(t)
      PROVE  RoundInv'
  BY <1>3 DEF Retrieve, SearchPatents, TakePatents, Act
<1>4. ASSUME NEW t \in Threads, FailTask(t) \/ Accept(t) \/ UseTool(t) \/ TakeTool(t) \/ Comply(t)
      PROVE  RoundInv'
  BY <1>4 DEF FailTask, Accept, UseTool, TakeTool, Comply
<1>5. CASE UNCHANGED <<node, attempt>>
  BY <1>5
<1>6. ASSUME NEW t \in Threads, InTool(t) PROVE UNCHANGED <<node, attempt>>
  BY <1>6 DEF InTool, graphVars
<1>7. CASE Join \/ Synthesise \/ (Outdate /\ UNCHANGED graphVars) \/ UNCHANGED <<toolVars, graphVars>>
  BY <1>7 DEF Join, Synthesise, graphVars
<1> QED
  BY <1>1, <1>2, <1>3, <1>4, <1>5, <1>6, <1>7 DEF GraphNext, GraphStep

\* Every node, and every step in the router, brings its task on.
LEMMA TaskCounts ==
    ASSUME SpanInv, RoundInv, RoundInv', NEW t \in Threads
    PROVE  /\ WorkLeft(t) \in 0 .. 19 * (MaxRetries + 1)
           /\ GraphStep(t) => WorkLeft(t)' \in 0 .. WorkLeft(t) - 1
<1>1. RouterCounts(t) /\ NodesCount(t) /\ RouterCounts(t)' /\ NodesCount(t)'
  <2>1. AllCount'
    BY CountsAt, PTL
  <2> QED
    BY <2>1, CountsAt DEF AllCount
<1>2. /\ MaxRetries \in Nat
      /\ attempt[t] \in 0 .. MaxRetries + 1 /\ attempt'[t] \in 0 .. MaxRetries + 1
      /\ node[t] = "queued" <=> attempt[t] = 0
      /\ node[t] \in GraphNodes /\ step[t] \in ToolSteps
      /\ node[t] \notin {"patents", "calling"} => step[t] = "out"
  BY GraphAssumption DEF RoundInv, SpanInv, PipelineTypeOK, RouterTypeOK, InRouter
<1>3. RouterLeft(t) \in 0 .. 5
  BY <1>1, <1>2 DEF RouterCounts, ToolSteps
<1>4. node[t] \notin {"done", "failed"} =>
         NodesLeft(t) \in 0 .. 18 /\ (node[t] # "queued" => NodesLeft(t) > 0)
  BY <1>1, <1>2, <1>3 DEF NodesCount, GraphNodes, Running
<1>5. WorkLeft(t) \in 0 .. 19 * (MaxRetries + 1)
  <2>1. CASE node[t] = "queued"
    BY <1>1, <1>2, <2>1 DEF WorkLeft, NodesCount
  <2>2. CASE node[t] # "queued"
    BY <1>2, <1>4, <2>2 DEF WorkLeft
  <2> QED
    BY <2>1, <2>2
<1>6. ASSUME GraphStep(t)
      PROVE  WorkLeft(t)' \in 0 .. WorkLeft(t) - 1
  <2> USE <1>1, <1>2, <1>3 DEF WorkLeft, NodesCount, NodeTo
  <2>0. node \in [Threads -> GraphNodes] /\ attempt \in [Threads -> Nat] /\ step \in [Threads -> ToolSteps]
    BY DEF SpanInv, PipelineTypeOK, RouterTypeOK
  <2>1. CASE Start(t)
    BY <2>0, <2>1 DEF Start
  <2>2. CASE Retrieve(t) \/ Act(t)
    BY <2>0, <2>2 DEF Retrieve, Act
  <2>3. CASE FailTask(t) \/ Accept(t) \/ Comply(t)
    BY <2>0, <2>3 DEF FailTask, Accept, Comply
  <2>4. CASE SearchPatents(t) \/ UseTool(t)
    <3>1. RouterLeft(t)' \in 0 .. 5
      BY <2>0, <2>4 DEF SearchPatents, UseTool, Reject, Call, StepTo, RouterCounts
    <3>2. CASE SearchPatents(t)
      BY <2>0, <3>1, <3>2 DEF SearchPatents
    <3>3. CASE UseTool(t)
      BY SMTT(60), <2>0, <3>1, <3>3 DEF UseTool
    <3> QED
      BY <2>4, <3>2, <3>3
  <2>5. CASE TakePatents(t) \/ TakeTool(t)
    BY <2>0, <2>5 DEF TakePatents, TakeTool
  <2>6. CASE RetryLow(t)
    BY <2>0, <2>6 DEF RetryLow
  <2>7. CASE InTool(t)
    <3>1. RouterLeft(t)' \in 0 .. RouterLeft(t) - 1 /\ step[t] # "out"
      BY <2>0, <2>7 DEF InTool, Within, Look, Push, Run, End, Keep, StepTo, RouterCounts
    <3>2. node'[t] = node[t] /\ attempt'[t] = attempt[t] /\ node[t] \in {"patents", "calling"}
      BY <2>7, <3>1 DEF InTool, graphVars
    <3> QED
      BY <3>1, <3>2
  <2> QED
    BY <1>6, <2>1, <2>2, <2>3, <2>4, <2>5, <2>6, <2>7 DEF GraphStep
<1> QED
  BY <1>5, <1>6

\* A step of another task, of the caller or of a file's ttl.
OthersOf(t) ==
    \/ \E u \in Threads \ {t} : GraphStep(u)
    \/ Join \/ Synthesise
    \/ Outdate /\ UNCHANGED graphVars

LEMMA OthersWait ==
    ASSUME SpanInv, NEW t \in Threads, OthersOf(t)
    PROVE  UNCHANGED <<node[t], attempt[t], step[t]>>
<1> USE DEF NodeTo, StepTo
<1>0. node \in [Threads -> GraphNodes] /\ attempt \in [Threads -> Nat] /\ step \in [Threads -> ToolSteps]
  BY DEF SpanInv, PipelineTypeOK, RouterTypeOK
<1>1. ASSUME NEW u \in Threads \ {t}, GraphStep(u)
      PROVE  UNCHANGED <<node[t], attempt[t], step[t]>>
  <2>1. CASE Start(u) \/ Retrieve(u) \/ TakePatents(u) \/ Act(u) \/ FailTask(u)
    BY <1>0, <2>1 DEF Start, Retrieve, TakePatents, Act, FailTask, toolVars
  <2>2. CASE Accept(u) \/ RetryLow(u) \/ TakeTool(u) \/ Comply(u)
    BY <1>0, <2>2 DEF Accept, RetryLow, TakeTool, Comply, toolVars
  <2>3. CASE SearchPatents(u) \/ UseTool(u)
    BY <1>0, <2>3 DEF SearchPatents, UseTool, Reject, Call
  <2>4. CASE InTool(u)
    BY <1>0, <2>4 DEF InTool, graphVars, Within, Look, Push, Run, End, Keep
  <2> QED
    BY <1>1, <2>1, <2>2, <2>3, <2>4 DEF GraphStep
<1>2. CASE Join \/ Synthesise
  BY <1>2 DEF Join, Synthesise, toolVars
<1>3. CASE Outdate /\ UNCHANGED graphVars
  BY <1>3 DEF Outdate, graphVars
<1> QED
  BY <1>1, <1>2, <1>3 DEF OthersOf

\* A task of the graph pipeline is over after at most nineteen steps of its own for each of
\* its attempts, retries, tools and errors included (core/graph/graph.py:33-63), and neither
\* the other tasks nor the caller take it back.  That a task goes on is left to fairness,
\* and to AgentsEnd.
THEOREM GraphDescends ==
  GraphSpec => [][\A t \in Threads :
                     /\ WorkLeft(t) \in 0 .. 19 * (MaxRetries + 1)
                     /\ GraphStep(t) => WorkLeft(t)' \in 0 .. WorkLeft(t) - 1
                     /\ OthersOf(t) => WorkLeft(t)' = WorkLeft(t)]_<<toolVars, graphVars>>
<1>1. GraphInit => SpanInv /\ RoundInv
  <2>1. GraphInit => SpanInv
    BY SpanInit
  <2>2. GraphInit => RoundInv
    BY GraphAssumption DEF GraphInit, RoundInv
  <2> QED
    BY <2>1, <2>2
<1>2. ASSUME NEW t \in Threads, UNCHANGED <<node[t], attempt[t], step[t]>>
      PROVE  WorkLeft(t)' = WorkLeft(t)
  BY <1>2 DEF WorkLeft, NodesLeft, RouterLeft
<1>3. ASSUME SpanInv, RoundInv, RoundInv'
      PROVE  \A t \in Threads :
                     /\ WorkLeft(t) \in 0 .. 19 * (MaxRetries + 1)
                     /\ GraphStep(t) => WorkLeft(t)' \in 0 .. WorkLeft(t) - 1
                     /\ OthersOf(t) => WorkLeft(t)' = WorkLeft(t)
  BY <1>2, <1>3, TaskCounts, OthersWait
<1> QED
  BY <1>1, <1>3, SpanStep, RoundStep, PTL DEF GraphSpec

-----------------------------------------------------------------------------
LEMMA LeastOf ==
    ASSUME NEW S \in SUBSET Nat, S # {}
    PROVE  \E x \in S : \A y \in S : x <= y
<1> DEFINE R == OpToRel(<, Nat)
<1>1. IsWellFoundedOn(R, Nat)
  BY NatLessThanWellFounded, Zenon
<1>2. \A x, y \in Nat : y < x => <<y, x>> \in R
  BY DEF OpToRel
<1> HIDE DEF R
<1>3. PICK x \in S : \A y \in S : ~ (<<y, x>> \in R)
  BY <1>1, WFMin, Zenon
<1>4. \A y \in S : y \in Nat /\ x \in Nat /\ ~ (y < x)
  BY <1>2, <1>3, Zenon
<1>5. \A y \in S : x <= y
  BY <1>4
<1> QED
  BY <1>5

\* A redactor gives different names different numbers.
OneToOne(map) == \A x, y \in DOMAIN map : map[x] = map[y] => x = y

\* The task's own redactor does: a name's number counts the names up to its first place,
\* and the later of two names is not among those up to the earlier's.
LEMMA OwnMapOneToOne ==
    ASSUME NEW t \in AliasTasks, brief[t] \in Briefs
    PROVE  OneToOne(OwnMap(t))
<1> DEFINE names == NamesTo(t, Len(brief[t]))
           Places(x) == {i \in Seen(t) : brief[t][i].name = x}
<1>1. /\ Len(brief[t]) \in Nat /\ DOMAIN brief[t] = 1 .. Len(brief[t])
  BY AliasAssumption DEF AliasAssumption
<1>2. Seen(t) \in SUBSET Nat /\ \A i \in Seen(t) : i \in 1 .. Len(brief[t])
  BY <1>1 DEF Seen
<1>3. \A x \in names : /\ First(t, x) \in Seen(t) /\ brief[t][First(t, x)].name = x
                       /\ \A j \in Seen(t) : brief[t][j].name = x => First(t, x) <= j
  <2> TAKE x \in names
  <2>1. Places(x) \in SUBSET Nat /\ Places(x) # {}
    BY <1>2 DEF NamesTo
  <2>2. PICK i \in Places(x) : \A j \in Places(x) : i <= j
    BY <2>1, LeastOf
  <2> QED
    BY <2>2 DEF First
<1>4. \A i \in Nat : IsFiniteSet(NamesTo(t, i)) /\ Cardinality(NamesTo(t, i)) \in Nat
  <2> TAKE i \in Nat
  <2> DEFINE D == {k \in Seen(t) : k <= i}
             f == [k \in D |-> brief[t][k].name]
  <2>1. IsFiniteSet(D)
    <3>1. IsFiniteSet(1 .. i) /\ D \in SUBSET (1 .. i)
      BY <1>2, FS_Interval
    <3> QED
      BY <3>1, FS_Subset
  <2>2. f \in Surjection(D, NamesTo(t, i))
    BY DEF Surjection, NamesTo
  <2> QED
    BY <2>1, <2>2, FS_Surjection, FS_CardinalityType
<1>5. ASSUME NEW x \in names, NEW y \in names, First(t, x) < First(t, y)
      PROVE  Cardinality(NamesTo(t, First(t, x))) # Cardinality(NamesTo(t, First(t, y)))
  <2> DEFINE X == NamesTo(t, First(t, x))
             Y == NamesTo(t, First(t, y))
  <2>0. First(t, x) \in Nat /\ First(t, y) \in Nat /\ First(t, x) <= First(t, y)
    BY <1>2, <1>3, <1>5
  <2>1. X \in SUBSET Y
    BY <1>2, <2>0 DEF NamesTo
  <2>2. y \in Y
    BY <1>3, <2>0 DEF NamesTo
  <2>3. y \notin X
    <3> SUFFICES ASSUME y \in X PROVE FALSE
      OBVIOUS
    <3>1. PICK k \in Seen(t) : k <= First(t, x) /\ brief[t][k].name = y
      BY DEF NamesTo
    <3>2. First(t, y) <= k /\ k \in Nat
      BY <1>2, <1>3, <3>1
    <3> QED
      BY <1>5, <2>0, <3>1, <3>2
  <2>4. X # Y /\ IsFiniteSet(Y)
    BY <1>4, <2>0, <2>2, <2>3
  <2> HIDE DEF X, Y
  <2>5. Cardinality(X) # Cardinality(Y)
    BY <2>1, <2>4, FS_Subset
  <2> QED
    BY <2>5 DEF X, Y
<1>6. ASSUME NEW x \in names, NEW y \in names, x # y
      PROVE  Cardinality(NamesTo(t, First(t, x))) # Cardinality(NamesTo(t, First(t, y)))
  <2>1. First(t, x) \in Nat /\ First(t, y) \in Nat /\ First(t, x) # First(t, y)
    BY <1>2, <1>3, <1>6
  <2>2. First(t, x) < First(t, y) \/ First(t, y) < First(t, x)
    BY <2>1
  <2> QED
    BY <1>5, <2>2
<1>7. /\ DOMAIN OwnMap(t) = names
      /\ \A x \in names : OwnMap(t)[x] = Cardinality(NamesTo(t, First(t, x)))
  BY DEF OwnMap
<1> QED
  BY <1>6, <1>7, Zenon DEF OneToOne

Desks == Walking \cup {"new", "asked", "answered", "raised", "done"}

DeskTypeOK ==
    /\ numbered \in Nat
    /\ brief \in [AliasTasks -> Briefs] /\ desk \in [AliasTasks -> Desks]
    /\ \A f \in {purpose, walked, shown, copied, quoted, kept} : DOMAIN f = AliasTasks
    /\ disturbed \subseteq AliasTasks
    /\ DOMAIN mapOf = {TaskRole[t] : t \in AliasTasks}

\* A numbering, and the aliases that were taken from it.
Numbers(map, aliases) == OneToOne(map) /\ aliases \subseteq Pairs(map)

\* What a task that no other walk met has in hand.
UndisturbedInv(t) ==
    /\ desk[t] = "clearing" => shared = NoMap
    /\ desk[t] \in {"walking", "found", "missed"} =>
          /\ Numbers(shared, shown[t])
          /\ \A x \in DOMAIN shared : shared[x] \in Nat /\ shared[x] <= numbered
    /\ desk[t] = "missed" => Mention(t) \notin DOMAIN shared
    /\ desk[t] = "asked" => Numbers(copied[t], shown[t])
    /\ Numbers(kept[t], quoted[t])
    /\ desk[t] \in Walking => \A u \in AliasTasks \ {t} : desk[u] \notin Walking

NameInv ==
    /\ DeskTypeOK
    /\ \A t \in AliasTasks : desk[t] \in {"new", "answered", "clearing"} => shown[t] = {}
    /\ \A t \in AliasTasks \ disturbed : UndisturbedInv(t)
    /\ \A r \in DOMAIN mapOf :
          mapOf[r].task \in AliasTasks =>
              desk[mapOf[r].task] = "done" /\ mapOf[r].map = kept[mapOf[r].task]

LEMMA NoNumbers == Numbers(NoMap, {})
  BY DEF Numbers, OneToOne, NoMap, Pairs

\* Another name under the next number.
LEMMA NextNumber ==
    ASSUME NEW map, NEW aliases, NEW x, NEW n \in Nat, Numbers(map, aliases), x \notin DOMAIN map,
           \A y \in DOMAIN map : map[y] \in Nat /\ map[y] <= n,
           NEW more, more = [y \in DOMAIN map \cup {x} |-> IF y = x THEN n + 1 ELSE map[y]]
    PROVE  /\ Numbers(more, aliases \cup {<<x, n + 1>>})
           /\ \A y \in DOMAIN more : more[y] \in Nat /\ more[y] <= n + 1
<1>1. /\ DOMAIN more = DOMAIN map \cup {x} /\ more[x] = n + 1
      /\ \A y \in DOMAIN map : more[y] = map[y] /\ more[y] # n + 1 /\ y # x
  OBVIOUS
<1>2. OneToOne(more)
  BY <1>1, Zenon DEF Numbers, OneToOne
<1>3. Pairs(map) \subseteq Pairs(more) /\ <<x, n + 1>> \in Pairs(more)
  BY <1>1, Zenon DEF Pairs
<1>4. \A y \in DOMAIN more : more[y] \in Nat /\ more[y] <= n + 1
  BY <1>1
<1> QED
  BY <1>2, <1>3, <1>4, Zenon DEF Numbers

\* What the step of one task leaves to another that is undisturbed: all it has, and the
\* redactor while it walks.
Untouched(t, u) ==
    /\ desk'[u] = desk[u] /\ shown'[u] = shown[u] /\ walked'[u] = walked[u]
    /\ copied'[u] = copied[u] /\ quoted'[u] = quoted[u] /\ kept'[u] = kept[u]
    /\ brief' = brief

LEMMA OthersUndisturbed ==
    ASSUME NEW t \in AliasTasks, NEW u \in AliasTasks, UndisturbedInv(u), Untouched(t, u),
           desk[u] \in Walking => /\ shared' = shared /\ numbered' = numbered
                                 /\ \A v \in AliasTasks \ {u} : desk'[v] \notin Walking
    PROVE  UndisturbedInv(u)'
<1>1. Mention(u)' = Mention(u)
  BY DEF Mention, Untouched
<1>2. CASE desk[u] \in Walking
  BY <1>1, <1>2 DEF UndisturbedInv, Untouched, Numbers, Pairs, OneToOne
<1>3. CASE desk[u] \notin Walking
  <2>1. Numbers(copied[u], shown[u])' = Numbers(copied[u], shown[u])
        /\ Numbers(kept[u], quoted[u])' = Numbers(kept[u], quoted[u])
    BY DEF Untouched, Numbers, Pairs, OneToOne
  <2>2. desk[u] \notin {"clearing", "walking", "found", "missed"}
    BY <1>3 DEF Walking
  <2> QED
    BY <2>1, <2>2, <1>3, Zenon DEF UndisturbedInv, Untouched
<1> QED
  BY <1>2, <1>3

\* The parts of the invariant that are the same for every step of a task.
LEMMA StepKeeps ==
    ASSUME NameInv, NEW t \in AliasTasks, DeskTypeOK',
           desk[t] # "done", mapOf' = mapOf, disturbed \subseteq disturbed',
           \A u \in AliasTasks \ {t} : Untouched(t, u),
           desk'[t] \in {"new", "answered", "clearing"} => shown'[t] = {},
           \A u \in AliasTasks \ disturbed' : u # t /\ desk[u] \in Walking =>
               /\ shared' = shared /\ numbered' = numbered /\ desk'[t] \notin Walking,
           t \notin disturbed' => UndisturbedInv(t)'
    PROVE  NameInv'
<1>1. \A u \in AliasTasks : desk'[u] \in {"new", "answered", "clearing"} => shown'[u] = {}
  BY DEF NameInv, Untouched
<1>2. ASSUME NEW u \in AliasTasks \ disturbed', u # t
      PROVE  UndisturbedInv(u)'
  <2>1. UndisturbedInv(u) /\ Untouched(t, u)
    BY <1>2 DEF NameInv
  <2>2. ASSUME desk[u] \in Walking, NEW v \in AliasTasks \ {u}
        PROVE  desk'[v] \notin Walking
    <3>1. desk[v] \notin Walking
      BY <2>1, <2>2, Zenon DEF UndisturbedInv
    <3>2. v # t => desk'[v] = desk[v]
      BY DEF Untouched
    <3> QED
      BY <1>2, <2>2, <3>1, <3>2
  <2> QED
    BY <1>2, <2>1, <2>2, OthersUndisturbed
<1>3. ASSUME NEW r \in DOMAIN mapOf, mapOf[r].task \in AliasTasks
      PROVE  desk'[mapOf[r].task] = "done" /\ mapOf[r].map = kept'[mapOf[r].task]
  BY <1>3 DEF NameInv, Untouched
<1> QED
  BY <1>1, <1>2, <1>3, Zenon DEF NameInv


\* Beside a walk that is under way no undisturbed task walks.
LEMMA WalkerAlone ==
    ASSUME NameInv, NEW t \in AliasTasks, desk[t] \in Walking
    PROVE  \A u \in AliasTasks \ disturbed : u # t => desk[u] \notin Walking
  BY Zenon DEF NameInv, UndisturbedInv

LEMMA OwnPart ==
    ASSUME NameInv, NEW t \in AliasTasks
    PROVE  t \notin disturbed => UndisturbedInv(t)
  BY DEF NameInv

LEMMA EmptiesShown ==
    ASSUME NEW t \in AliasTasks, DOMAIN shown = AliasTasks, EndWalk(t)
    PROVE  shown'[t] = {}
  BY DEF EndWalk

LEMMA AliasStart == ASSUME AliasInit PROVE NameInv
<1>1. DeskTypeOK
  BY DEF AliasInit, DeskTypeOK, Desks
<1>2. ASSUME NEW t \in AliasTasks PROVE UndisturbedInv(t)
  <2>1. Numbers(kept[t], quoted[t]) /\ desk[t] = "new"
    BY NoNumbers DEF AliasInit
  <2> QED
    BY <2>1 DEF UndisturbedInv, Walking
<1>3. \A r \in DOMAIN mapOf : mapOf[r].task \notin AliasTasks
  BY AliasAssumption DEF AliasInit, AliasAssumption
<1>4. \A t \in AliasTasks : shown[t] = {}
  BY DEF AliasInit
<1> QED
  BY <1>1, <1>2, <1>3, <1>4, Zenon DEF NameInv

LEMMA PutFirstKeeps ==
    ASSUME NameInv, NEW t \in AliasTasks, PutFirst(t)
    PROVE  NameInv'
<1>1. DeskTypeOK /\ DeskTypeOK' /\ \A u \in AliasTasks \ {t} : Untouched(t, u)
  BY DEF NameInv, PutFirst, DeskTo, DeskTypeOK, Desks, Untouched
<1>2. /\ desk[t] = "new" /\ desk'[t] = "answered" /\ shown'[t] = {}
      /\ kept'[t] = OwnMap(t) /\ quoted'[t] = Pairs(OwnMap(t))
  BY <1>1 DEF NameInv, PutFirst, DeskTo, DeskTypeOK
<1>3. Numbers(kept[t], quoted[t])'
  <2>1. brief[t] \in Briefs
    BY <1>1 DEF DeskTypeOK
  <2>2. OneToOne(OwnMap(t))
    BY <2>1, OwnMapOneToOne
  <2> QED
    BY <1>2, <2>2, Zenon DEF Numbers, Pairs, OneToOne
<1>4. UndisturbedInv(t)'
  BY <1>2, <1>3 DEF UndisturbedInv, Walking
<1>5. desk'[t] \notin Walking
  BY <1>2 DEF Walking
<1> QED
  BY <1>1, <1>2, <1>4, <1>5, StepKeeps DEF PutFirst

LEMMA BeginWalkKeeps ==
    ASSUME NameInv, NEW t \in AliasTasks, BeginWalk(t)
    PROVE  NameInv'
<1> DEFINE others == {u \in AliasTasks : desk[u] \in Walking}
<1>0. DeskTypeOK
  BY DEF NameInv
<1>1. disturbed' = IF others = {} THEN disturbed ELSE disturbed \cup others \cup {t}
  BY DEF BeginWalk
<1>2. DeskTypeOK'
  BY <1>0, <1>1 DEF BeginWalk, DeskTo, DeskTypeOK, Desks, Walking
<1>3. \A u \in AliasTasks \ {t} : Untouched(t, u)
  BY <1>0 DEF BeginWalk, DeskTo, DeskTypeOK, Untouched
<1>4. /\ desk[t] = "answered" /\ desk'[t] = "clearing" /\ shown'[t] = {} /\ shared' = NoMap
      /\ kept' = kept /\ quoted' = quoted
  BY <1>0 DEF NameInv, BeginWalk, DeskTo, DeskTypeOK, Cleared
<1>5. ASSUME t \notin disturbed' PROVE UndisturbedInv(t)'
  <2>1. others = {} /\ UndisturbedInv(t)
    BY <1>1, <1>5, OwnPart
  <2>2. Numbers(kept[t], quoted[t])'
    BY <1>4, <2>1 DEF UndisturbedInv, Numbers, OneToOne, Pairs
  <2>3. \A u \in AliasTasks \ {t} : desk'[u] \notin Walking
    BY <1>3, <2>1 DEF Untouched
  <2> QED
    BY <1>4, <2>2, <2>3 DEF UndisturbedInv
<1>6. disturbed \subseteq disturbed' /\ \A u \in AliasTasks \ disturbed' : desk[u] \notin Walking
  BY <1>1
<1> QED
  BY <1>2, <1>3, <1>4, <1>5, <1>6, StepKeeps DEF BeginWalk

LEMMA ResetNumbersKeeps ==
    ASSUME NameInv, NEW t \in AliasTasks, ResetNumbers(t)
    PROVE  NameInv'
<1>1. DeskTypeOK /\ DeskTypeOK' /\ \A u \in AliasTasks \ {t} : Untouched(t, u)
  BY DEF NameInv, ResetNumbers, DeskTo, DeskTypeOK, Desks, Walking, Untouched
<1>2. /\ desk[t] = "clearing" /\ desk'[t] = "walking" /\ shown'[t] = {}
      /\ shared' = shared /\ kept' = kept /\ quoted' = quoted
  BY <1>1 DEF NameInv, ResetNumbers, DeskTo, DeskTypeOK
<1>3. desk[t] \in Walking
  BY <1>2 DEF Walking
<1>4. ASSUME t \notin disturbed' PROVE UndisturbedInv(t)'
  <2>1. UndisturbedInv(t)
    BY <1>4, OwnPart DEF ResetNumbers
  <2>2. Numbers(kept[t], quoted[t])'
    BY <1>2, <2>1 DEF UndisturbedInv, Numbers, OneToOne, Pairs
  <2>3. shared' = NoMap /\ Numbers(shared', shown'[t]) /\ DOMAIN shared' = {}
    BY <1>2, <2>1, NoNumbers, Zenon DEF UndisturbedInv, NoMap
  <2>4. Numbers(shared, shown[t])'
    BY <2>3, Zenon DEF Numbers, OneToOne, Pairs
  <2>5. \A u \in AliasTasks \ {t} : desk'[u] \notin Walking
    BY <1>1, <1>3, <2>1, Zenon DEF UndisturbedInv, Untouched
  <2> QED
    BY <1>2, <2>2, <2>3, <2>4, <2>5, Zenon DEF UndisturbedInv
<1>5. \A u \in AliasTasks \ disturbed' : u # t => desk[u] \notin Walking
  BY <1>3, WalkerAlone DEF ResetNumbers
<1> QED
  BY <1>1, <1>2, <1>4, <1>5, StepKeeps DEF ResetNumbers


LEMMA FindAliasKeeps ==
    ASSUME NameInv, NEW t \in AliasTasks, FindAlias(t)
    PROVE  NameInv'
<1>1. DeskTypeOK /\ DeskTypeOK' /\ \A u \in AliasTasks \ {t} : Untouched(t, u)
  BY DEF NameInv, FindAlias, DeskTo, DeskTypeOK, Desks, Walking, Untouched
<1>2. /\ desk[t] = "walking" /\ desk'[t] \in {"found", "missed"}
      /\ desk'[t] = "missed" => Mention(t) \notin DOMAIN shared
      /\ shared' = shared /\ numbered' = numbered /\ shown' = shown /\ copied' = copied
      /\ kept' = kept /\ quoted' = quoted /\ Mention(t)' = Mention(t)
  BY <1>1 DEF FindAlias, DeskTo, DeskTypeOK, Mention
<1>3. desk[t] \in Walking /\ desk'[t] \in Walking
  BY <1>2 DEF Walking
<1>4. ASSUME t \notin disturbed' PROVE UndisturbedInv(t)'
  <2>1. UndisturbedInv(t)
    BY <1>4, OwnPart DEF FindAlias
  <2>2. Numbers(kept[t], quoted[t])' /\ Numbers(shared, shown[t])'
    BY <1>2, <2>1 DEF UndisturbedInv, Numbers, OneToOne, Pairs
  <2>3. \A u \in AliasTasks \ {t} : desk'[u] \notin Walking
    BY <1>1, <1>3, <2>1, Zenon DEF UndisturbedInv, Untouched
  <2>4. \A x \in DOMAIN shared' : shared'[x] \in Nat /\ shared'[x] <= numbered'
    BY <1>2, <2>1, Zenon DEF UndisturbedInv
  <2>5. desk'[t] # "clearing" /\ desk'[t] # "asked"
    BY <1>2
  <2> QED
    BY <1>2, <2>2, <2>3, <2>4, <2>5, Zenon DEF UndisturbedInv
<1>5. \A u \in AliasTasks \ disturbed' : u # t => desk[u] \notin Walking
  BY <1>3, WalkerAlone DEF FindAlias
<1> QED
  BY <1>1, <1>2, <1>4, <1>5, StepKeeps DEF FindAlias

\* A walk that fails ends, and leaves the task what it had.
LEMMA FailsKeeps ==
    ASSUME NameInv, NEW t \in AliasTasks, Fails(t), desk[t] # "done",
           DeskTypeOK', \A u \in AliasTasks \ {t} : Untouched(t, u),
           shared' = shared, numbered' = numbered, kept' = kept, quoted' = quoted,
           disturbed' = disturbed, mapOf' = mapOf
    PROVE  NameInv'
<1>1. desk'[t] \in {"raised", "answered"} /\ shown'[t] = {}
  BY EmptiesShown DEF Fails, DeskTo, NameInv, DeskTypeOK
<1>2. desk'[t] \notin Walking
  BY <1>1 DEF Walking
<1>3. ASSUME t \notin disturbed' PROVE UndisturbedInv(t)'
  <2>1. Numbers(kept[t], quoted[t])'
    BY <1>3, OwnPart DEF UndisturbedInv, Numbers, OneToOne, Pairs
  <2>2. desk'[t] \notin {"clearing", "walking", "found", "missed", "asked"}
    BY <1>1
  <2> QED
    BY <1>2, <2>1, <2>2, Zenon DEF UndisturbedInv
<1> QED
  BY <1>1, <1>2, <1>3, StepKeeps

LEMMA TakeAliasKeeps ==
    ASSUME NameInv, NEW t \in AliasTasks, TakeAlias(t)
    PROVE  NameInv'
<1>1. DeskTypeOK /\ DeskTypeOK' /\ \A u \in AliasTasks \ {t} : Untouched(t, u)
  BY DEF NameInv, TakeAlias, Shows, Fails, EndWalk, DeskTo, DeskTypeOK, Desks, Walking, Untouched
<1>2. /\ desk[t] = "found"
      /\ shared' = shared /\ numbered' = numbered /\ copied' = copied
      /\ kept' = kept /\ quoted' = quoted /\ disturbed' = disturbed /\ mapOf' = mapOf
  BY DEF TakeAlias
<1>3. CASE Fails(t)
  BY <1>1, <1>2, <1>3, FailsKeeps
<1>4. CASE Mention(t) \in DOMAIN shared /\ Shows(t, shared[Mention(t)])
  <2>1. desk'[t] = "walking" /\ shown'[t] = shown[t] \cup {<<Mention(t), shared[Mention(t)]>>}
    BY <1>1, <1>4 DEF Shows, DeskTo, DeskTypeOK
  <2>2. desk[t] \in Walking /\ desk'[t] \in Walking
    BY <1>2, <2>1 DEF Walking
  <2>3. ASSUME t \notin disturbed' PROVE UndisturbedInv(t)'
    <3>1. UndisturbedInv(t)
      BY <1>2, <2>3, OwnPart
    <3>2. Numbers(kept[t], quoted[t])'
      BY <1>2, <3>1, Zenon DEF UndisturbedInv, Numbers, OneToOne, Pairs
    <3>3. <<Mention(t), shared[Mention(t)]>> \in Pairs(shared)
      BY <1>4, Zenon DEF Pairs
    <3>4. OneToOne(shared) /\ shown'[t] \subseteq Pairs(shared)
      BY <1>2, <2>1, <3>1, <3>3 DEF UndisturbedInv, Numbers
    <3>5. Numbers(shared, shown[t])'
      BY <1>2, <3>4, Zenon DEF Numbers, OneToOne, Pairs
    <3>6. \A u \in AliasTasks \ {t} : desk'[u] \notin Walking
      BY <1>1, <2>2, <3>1, Zenon DEF UndisturbedInv, Untouched
    <3>7. \A x \in DOMAIN shared' : shared'[x] \in Nat /\ shared'[x] <= numbered'
      BY <1>2, <3>1, Zenon DEF UndisturbedInv
    <3>8. desk'[t] \notin {"clearing", "missed", "asked"}
      BY <2>1
    <3> QED
      BY <3>2, <3>5, <3>6, <3>7, <3>8, Zenon DEF UndisturbedInv
  <2>4. \A u \in AliasTasks \ disturbed' : u # t => desk[u] \notin Walking
    BY <1>2, <2>2, WalkerAlone
  <2> QED
    BY <1>1, <1>2, <2>1, <2>3, <2>4, StepKeeps
<1> QED
  BY <1>3, <1>4 DEF TakeAlias

LEMMA MakeAliasKeeps ==
    ASSUME NameInv, NEW t \in AliasTasks, MakeAlias(t)
    PROVE  NameInv'
<1> DEFINE more == [x \in DOMAIN shared \cup {Mention(t)} |->
                       IF x = Mention(t) THEN numbered + 1 ELSE shared[x]]
<1>1. DeskTypeOK /\ DeskTypeOK' /\ \A u \in AliasTasks \ {t} : Untouched(t, u)
  BY DEF NameInv, MakeAlias, Shows, DeskTo, DeskTypeOK, Desks, Walking, Untouched
<1>2. /\ desk[t] = "missed" /\ desk'[t] = "walking"
      /\ shown'[t] = shown[t] \cup {<<Mention(t), numbered + 1>>}
      /\ shared' = more /\ numbered' = numbered + 1 /\ copied' = copied
      /\ kept' = kept /\ quoted' = quoted /\ disturbed' = disturbed /\ mapOf' = mapOf
  BY <1>1 DEF MakeAlias, Shows, DeskTo, DeskTypeOK
<1>3. desk[t] \in Walking /\ desk'[t] \in Walking
  BY <1>2 DEF Walking
<1>4. ASSUME t \notin disturbed' PROVE UndisturbedInv(t)'
  <2>1. UndisturbedInv(t)
    BY <1>2, <1>4, OwnPart
  <2>2. Numbers(kept[t], quoted[t])'
    BY <1>2, <2>1 DEF UndisturbedInv, Numbers, OneToOne, Pairs
  <2>3. /\ Numbers(shared, shown[t]) /\ Mention(t) \notin DOMAIN shared /\ numbered \in Nat
        /\ \A x \in DOMAIN shared : shared[x] \in Nat /\ shared[x] <= numbered
    BY <1>1, <1>2, <2>1 DEF UndisturbedInv, DeskTypeOK
  <2>4. /\ Numbers(more, shown[t] \cup {<<Mention(t), numbered + 1>>})
        /\ \A x \in DOMAIN more : more[x] \in Nat /\ more[x] <= numbered + 1
    BY <2>3, NextNumber
  <2> HIDE DEF more
  <2>5. Numbers(shared, shown[t])' /\ \A x \in DOMAIN shared' : shared'[x] \in Nat /\ shared'[x] <= numbered'
    BY <1>2, <2>4, Zenon DEF Numbers, OneToOne, Pairs
  <2>6. \A u \in AliasTasks \ {t} : desk'[u] \notin Walking
    BY <1>1, <1>3, <2>1, Zenon DEF UndisturbedInv, Untouched
  <2>7. desk'[t] \notin {"clearing", "missed", "asked"}
    BY <1>2
  <2> QED
    BY <2>2, <2>5, <2>6, <2>7, Zenon DEF UndisturbedInv
<1>5. \A u \in AliasTasks \ disturbed' : u # t => desk[u] \notin Walking
  BY <1>2, <1>3, WalkerAlone
<1> HIDE DEF more
<1> QED
  BY <1>1, <1>2, <1>4, <1>5, StepKeeps

LEMMA CopyMapKeeps ==
    ASSUME NameInv, NEW t \in AliasTasks, CopyMap(t)
    PROVE  NameInv'
<1>1. DeskTypeOK /\ DeskTypeOK' /\ \A u \in AliasTasks \ {t} : Untouched(t, u)
  BY DEF NameInv, CopyMap, DeskTo, DeskTypeOK, Desks, Walking, Untouched
<1>2. /\ desk[t] = "walking" /\ desk'[t] = "asked" /\ copied'[t] = shared
      /\ shown' = shown /\ kept' = kept /\ quoted' = quoted
  BY <1>1 DEF CopyMap, DeskTo, DeskTypeOK
<1>3. desk[t] \in Walking /\ desk'[t] \notin Walking
  BY <1>2 DEF Walking
<1>4. ASSUME t \notin disturbed' PROVE UndisturbedInv(t)'
  <2>1. UndisturbedInv(t)
    BY <1>4, OwnPart DEF CopyMap
  <2>2. Numbers(kept[t], quoted[t])' /\ Numbers(copied[t], shown[t])'
    BY <1>2, <2>1 DEF UndisturbedInv, Numbers, OneToOne, Pairs
  <2>3. desk'[t] \notin {"clearing", "walking", "found", "missed"}
    BY <1>2
  <2> QED
    BY <1>3, <2>2, <2>3, Zenon DEF UndisturbedInv
<1> QED
  BY <1>1, <1>2, <1>3, <1>4, StepKeeps DEF CopyMap

LEMMA TakeReplyKeeps ==
    ASSUME NameInv, NEW t \in AliasTasks, TakeReply(t)
    PROVE  NameInv'
<1>1. DeskTypeOK /\ DeskTypeOK' /\ \A u \in AliasTasks \ {t} : Untouched(t, u)
  BY DEF NameInv, TakeReply, EndWalk, DeskTo, DeskTypeOK, Desks, Walking, Untouched
<1>2. /\ desk[t] = "asked" /\ desk'[t] = "answered" /\ shown'[t] = {}
      /\ \/ quoted'[t] = shown[t] /\ kept'[t] = copied[t]
         \/ quoted' = quoted /\ kept' = kept
  BY <1>1, EmptiesShown DEF TakeReply, DeskTo, DeskTypeOK
<1>3. desk'[t] \notin Walking
  BY <1>2 DEF Walking
<1>4. ASSUME t \notin disturbed' PROVE UndisturbedInv(t)'
  <2>1. Numbers(kept[t], quoted[t])'
    BY <1>2, <1>4, OwnPart DEF TakeReply, UndisturbedInv, Numbers, OneToOne, Pairs
  <2>2. desk'[t] \notin {"clearing", "walking", "found", "missed", "asked"}
    BY <1>2
  <2> QED
    BY <1>3, <2>1, <2>2, Zenon DEF UndisturbedInv
<1> QED
  BY <1>1, <1>2, <1>3, <1>4, StepKeeps DEF TakeReply

LEMMA AgentFailsKeeps ==
    ASSUME NameInv, NEW t \in AliasTasks, AgentFails(t)
    PROVE  NameInv'
<1>1. DeskTypeOK /\ DeskTypeOK' /\ \A u \in AliasTasks \ {t} : Untouched(t, u)
  BY DEF NameInv, AgentFails, Fails, EndWalk, DeskTo, DeskTypeOK, Desks, Walking, Untouched
<1> QED
  BY <1>1, FailsKeeps DEF AgentFails

LEMMA RecordAnswerKeeps ==
    ASSUME NameInv, NEW t \in AliasTasks, RecordAnswer(t)
    PROVE  NameInv'
<1>1. DeskTypeOK /\ DeskTypeOK' /\ \A u \in AliasTasks \ {t} : Untouched(t, u)
  BY DEF NameInv, RecordAnswer, DeskTo, DeskTypeOK, Desks, Walking, Untouched
<1>2. /\ desk[t] = "answered" /\ desk'[t] = "done" /\ shown' = shown
      /\ kept' = kept /\ quoted' = quoted /\ disturbed' = disturbed
      /\ shared' = shared /\ numbered' = numbered
  BY <1>1 DEF RecordAnswer, DeskTo, DeskTypeOK
<1>3. desk'[t] \notin Walking
  BY <1>2 DEF Walking
<1>4. \A u \in AliasTasks : desk'[u] \in {"new", "answered", "clearing"} => shown'[u] = {}
  BY <1>1, <1>2 DEF NameInv, Untouched
<1>5. ASSUME NEW u \in AliasTasks \ disturbed' PROVE UndisturbedInv(u)'
  <2>1. UndisturbedInv(u)
    BY <1>2, <1>5, OwnPart
  <2>2. CASE u = t
    <3>1. Numbers(kept[t], quoted[t])'
      BY <1>2, <2>1, <2>2 DEF UndisturbedInv, Numbers, OneToOne, Pairs
    <3>2. desk'[t] \notin {"clearing", "walking", "found", "missed", "asked"}
      BY <1>2
    <3> QED
      BY <1>3, <2>2, <3>1, <3>2, Zenon DEF UndisturbedInv
  <2>3. CASE u # t
    <3>1. desk[u] \in Walking => \A v \in AliasTasks \ {u} : desk'[v] \notin Walking
      BY <1>1, <1>3, <2>1, <2>3, Zenon DEF UndisturbedInv, Untouched
    <3> QED
      BY <1>1, <1>2, <2>1, <2>3, <3>1, OthersUndisturbed
  <2> QED
    BY <2>2, <2>3
<1>6. ASSUME NEW r \in DOMAIN mapOf', mapOf'[r].task \in AliasTasks
      PROVE  desk'[mapOf'[r].task] = "done" /\ mapOf'[r].map = kept'[mapOf'[r].task]
  <2>1. CASE r = TaskRole[t]
    BY <1>1, <1>2, <2>1 DEF RecordAnswer, DeskTypeOK
  <2>2. CASE r # TaskRole[t]
    <3>1. r \in DOMAIN mapOf /\ mapOf'[r] = mapOf[r]
      BY <1>1, <2>2, <1>6 DEF RecordAnswer, DeskTypeOK
    <3>2. desk[mapOf[r].task] = "done" /\ mapOf[r].map = kept[mapOf[r].task]
      BY <1>6, <3>1 DEF NameInv
    <3> QED
      BY <1>1, <1>2, <1>6, <3>1, <3>2 DEF Untouched
  <2> QED
    BY <2>1, <2>2
<1> QED
  BY <1>1, <1>4, <1>5, <1>6, Zenon DEF NameInv

LEMMA AliasStep == NameInv /\ [AliasNext]_aliasVars => NameInv'
<1> SUFFICES ASSUME NameInv, [AliasNext]_aliasVars PROVE NameInv'
  OBVIOUS
<1>1. CASE UNCHANGED aliasVars
  <2>1. /\ DeskTypeOK'
        /\ \A t \in AliasTasks : desk'[t] \in {"new", "answered", "clearing"} => shown'[t] = {}
        /\ \A r \in DOMAIN mapOf' : mapOf'[r].task \in AliasTasks =>
               desk'[mapOf'[r].task] = "done" /\ mapOf'[r].map = kept'[mapOf'[r].task]
    BY <1>1 DEF aliasVars, NameInv, DeskTypeOK
  <2>2. \A t \in AliasTasks \ disturbed' : UndisturbedInv(t)'
    BY <1>1 DEF aliasVars, NameInv, UndisturbedInv, Numbers, OneToOne, Pairs, Mention
  <2> QED
    BY <2>1, <2>2, Zenon DEF NameInv
<1>2. CASE AliasNext
  BY <1>2, PutFirstKeeps, BeginWalkKeeps, ResetNumbersKeeps, FindAliasKeeps, TakeAliasKeeps,
     MakeAliasKeeps, CopyMapKeeps, TakeReplyKeeps, AgentFailsKeeps, RecordAnswerKeeps, Zenon
     DEF AliasNext
<1> QED
  BY <1>1, <1>2

\* In the answers of a role every alias of the last task's text gives back the one name it
\* stands for, for any tasks and briefs and whatever was retried, reflected on or failed,
\* unless a walk of the task met another's (the retries of execute_plan).
THEOREM NamesAreRestored == AliasSpec => []NamesRestored
<1>1. AliasInit => NameInv
  BY AliasStart
<1>2. NameInv => NamesRestored
  <2> SUFFICES ASSUME NameInv, NEW r \in DOMAIN mapOf, NEW t, t = mapOf[r].task,
                      t \in AliasTasks \ disturbed, NEW q \in quoted[t]
               PROVE  Restored(r, q[2]) = {q[1]}
    BY DEF NamesRestored
  <2>1. mapOf[r].map = kept[t] /\ Numbers(kept[t], quoted[t])
    BY DEF NameInv, UndisturbedInv
  <2>2. PICK x \in DOMAIN kept[t] : q = <<x, kept[t][x]>>
    BY <2>1 DEF Numbers, Pairs
  <2>3. \A y \in DOMAIN kept[t] : kept[t][y] = kept[t][x] <=> y = x
    BY <2>1 DEF Numbers, OneToOne
  <2> QED
    BY <2>1, <2>2, <2>3 DEF Restored
<1> QED
  BY <1>1, <1>2, AliasStep, PTL DEF AliasSpec

-----------------------------------------------------------------------------
\* A call under way has a span of its own that has not ended.
UnderWayInv ==
    /\ RouterTypeOK
    /\ \A t \in Threads :
         step[t] \in {"filed", "running", "ran"} =>
            /\ span[t] \in DOMAIN events
            /\ events[span[t]].by = t /\ ~events[span[t]].ended

\* Where the events that have not ended wait.
Waits(i) ==
    \/ \E t \in Threads : span[t] = i /\ step[t] = "filed"
    \/ \E k \in DOMAIN stack : stack[k] = i

AccountInv ==
    /\ UnderWayInv
    /\ \A i \in DOMAIN events :
         /\ events[i].lines = IF events[i].ended THEN 1 ELSE 0
         /\ ~events[i].ended => Waits(i)

\* A step that files and ends nothing.
LEMMA FilesNothing ==
  ASSUME AccountInv, NEW t \in Threads, UNCHANGED <<events, stack, span>>,
         NEW s \in ToolSteps, step' = [step EXCEPT ![t] = s], step[t] # "filed",
         s # "filed",
         s \in {"running", "ran"} => step[t] \in {"running", "ran"}
  PROVE  AccountInv'
<1>1. RouterTypeOK'
  BY DEF AccountInv, UnderWayInv, RouterTypeOK
<1>2. UnderWayInv'
  BY <1>1 DEF AccountInv, UnderWayInv, RouterTypeOK
<1>3. ASSUME NEW i \in DOMAIN events, Waits(i) PROVE Waits(i)'
  BY <1>3 DEF Waits, AccountInv, UnderWayInv, RouterTypeOK
<1> QED
  BY <1>2, <1>3 DEF AccountInv

\* Filing, pushing, ending: each event waits until it has ended.
LEMMA AccountStep == AccountInv /\ [ToolNext]_toolVars => AccountInv'
<1> SUFFICES ASSUME AccountInv, [ToolNext]_toolVars PROVE AccountInv'
  OBVIOUS
<1> USE DEF ToolSteps
<1>0. RouterTypeOK
  BY DEF AccountInv, UnderWayInv
<1>1. ASSUME NEW t \in Threads, Call(t) PROVE AccountInv'
  <2>1. step[t] = "out" /\ UNCHANGED <<events, stack, span>>
        /\ \E s \in {"out", "admitted"} : step' = [step EXCEPT ![t] = s]
    BY <1>0, <1>1 DEF Call, StepTo, RouterTypeOK
  <2> QED
    BY <2>1, FilesNothing
<1>2. ASSUME NEW t \in Threads, Look(t) PROVE AccountInv'
  <2> DEFINE new == [parent |-> Top, by |-> t, ended |-> FALSE, lines |-> 0]
  <2>1. /\ step[t] = "admitted" /\ events' = Append(events, new)
        /\ span' = [span EXCEPT ![t] = Len(events) + 1]
        /\ step' = [step EXCEPT ![t] = "filed"] /\ stack' = stack
    BY <1>2 DEF Look, StepTo
  <2>2. Top \in Nat
    BY <1>0 DEF Top, RouterTypeOK
  <2>3. new \in Events
    BY <2>2 DEF Events
  <2>4. new.by = t /\ new.ended = FALSE /\ new.lines = 0
    OBVIOUS
  <2> HIDE DEF new
  <2>5. /\ Len(events') = Len(events) + 1 /\ events'[Len(events) + 1] = new
        /\ \A i \in DOMAIN events : i \in DOMAIN events' /\ events'[i] = events[i]
        /\ DOMAIN events' = DOMAIN events \cup {Len(events) + 1}
        /\ Len(events) \in Nat /\ events' \in Seq(Events)
    BY <1>0, <2>1, <2>3 DEF RouterTypeOK
  <2>6. RouterTypeOK'
    BY <1>0, <2>1, <2>5 DEF RouterTypeOK
  <2>7. UnderWayInv'
    BY <1>0, <2>1, <2>4, <2>5, <2>6 DEF AccountInv, UnderWayInv, RouterTypeOK
  <2>8. ASSUME NEW i \in DOMAIN events, Waits(i) PROVE Waits(i)'
    BY <1>0, <2>1, <2>8 DEF Waits, RouterTypeOK
  <2>9. ASSUME NEW i, i = Len(events) + 1 PROVE Waits(i)'
    BY <1>0, <2>1, <2>9 DEF Waits, RouterTypeOK
  <2> QED
    BY <2>4, <2>5, <2>7, <2>8, <2>9 DEF AccountInv
<1>3. ASSUME NEW t \in Threads, Push(t) PROVE AccountInv'
  <2>1. /\ step[t] = "filed" /\ stack' = Append(stack, span[t])
        /\ \E s \in {"ran", "running"} : step' = [step EXCEPT ![t] = s]
        /\ UNCHANGED <<events, span>>
    BY <1>3 DEF Push, StepTo
  <2>2. /\ stack' \in Seq(Nat) /\ Len(stack) + 1 \in DOMAIN stack'
        /\ stack'[Len(stack) + 1] = span[t]
        /\ \A k \in DOMAIN stack : k \in DOMAIN stack' /\ stack'[k] = stack[k]
    BY <1>0, <2>1 DEF RouterTypeOK
  <2>3. RouterTypeOK'
    BY <1>0, <2>1, <2>2 DEF RouterTypeOK
  <2>4. UnderWayInv'
    BY <1>0, <2>1, <2>3 DEF AccountInv, UnderWayInv, RouterTypeOK
  <2>5. ASSUME NEW i \in DOMAIN events, Waits(i) PROVE Waits(i)'
    BY <1>0, <2>1, <2>2, <2>5 DEF Waits, RouterTypeOK
  <2> QED
    BY <2>1, <2>4, <2>5 DEF AccountInv
<1>4. ASSUME NEW t \in Threads, Run(t) PROVE AccountInv'
  <2>1. step[t] = "running" /\ UNCHANGED <<events, stack, span>>
        /\ \E s \in {"out", "ran"} : step' = [step EXCEPT ![t] = s]
    BY <1>4 DEF Run, StepTo
  <2> QED
    BY <2>1, FilesNothing
<1>5. ASSUME NEW t \in Threads, End(t) PROVE AccountInv'
  <2>1. /\ step[t] = "ran" /\ span' = span
        /\ events' = [events EXCEPT ![span[t]] = Closed(@)]
        /\ stack' = IF Top = span[t] THEN SubSeq(stack, 1, Len(stack) - 1) ELSE stack
        /\ \E s \in {"out", "counted"} : step' = [step EXCEPT ![t] = s]
    BY <1>5 DEF End, SpanEnded, StepTo
  <2>2. span[t] \in DOMAIN events /\ events[span[t]].by = t /\ ~events[span[t]].ended
        /\ events[span[t]].lines = 0
    BY <2>1 DEF AccountInv, UnderWayInv
  <2>3. /\ events' \in Seq(Events) /\ DOMAIN events' = DOMAIN events
        /\ events'[span[t]] = Closed(events[span[t]])
        /\ \A i \in DOMAIN events : i # span[t] => events'[i] = events[i]
    <3>1. events \in Seq(Events) /\ events[span[t]] \in Events
      BY <1>0, <2>2 DEF RouterTypeOK
    <3>2. Closed(events[span[t]]) \in Events
      BY <3>1 DEF Closed, Events
    <3> QED
      BY <2>1, <2>2, <3>1, <3>2
  <2>4. /\ events'[span[t]].ended /\ events'[span[t]].lines = 1
        /\ events'[span[t]].by = t
    BY <2>2, <2>3 DEF Closed
  <2>5. /\ stack' \in Seq(Nat)
        /\ \A k \in DOMAIN stack : stack[k] # span[t] =>
               k \in DOMAIN stack' /\ stack'[k] = stack[k]
    <3>1. CASE Top = span[t] /\ stack # << >>
      BY <1>0, <2>1, <3>1 DEF RouterTypeOK, Top
    <3>2. CASE Top # span[t] \/ stack = << >>
      BY <1>0, <2>1, <3>2 DEF RouterTypeOK
    <3> QED
      BY <3>1, <3>2
  <2>6. RouterTypeOK'
    BY <1>0, <2>1, <2>3, <2>5 DEF RouterTypeOK
  <2>7. UnderWayInv'
    BY <1>0, <2>1, <2>2, <2>3, <2>6 DEF AccountInv, UnderWayInv, RouterTypeOK
  <2>8. ASSUME NEW i \in DOMAIN events, i # span[t], Waits(i) PROVE Waits(i)'
    BY <1>0, <2>1, <2>5, <2>8 DEF Waits, RouterTypeOK
  <2> QED
    BY <2>3, <2>4, <2>7, <2>8 DEF AccountInv
<1>6. ASSUME NEW t \in Threads, Keep(t) PROVE AccountInv'
  <2>1. step[t] = "counted" /\ UNCHANGED <<events, stack, span>>
        /\ step' = [step EXCEPT ![t] = "out"]
    BY <1>6 DEF Keep, StepTo
  <2> QED
    BY <2>1, FilesNothing
<1>7. CASE UNCHANGED <<events, stack, span, step>>
  BY <1>7 DEF AccountInv, UnderWayInv, RouterTypeOK, Waits
<1> QED
  BY <1>1, <1>2, <1>3, <1>4, <1>5, <1>6, <1>7
  DEF ToolNext, Within, Reject, Outdate, toolVars

\* Every span filed is written exactly once, but for those of calls under way and of
\* tools that raised, whichever threads call, fail and end in whatever order
\* (core/provenance.py, call_tool of core/tool_router.py).
THEOREM SpansAreAccounted == ToolSpec => []SpansAccounted
<1>1. ToolInit => AccountInv
  <2> SUFFICES ASSUME ToolInit PROVE AccountInv
    OBVIOUS
  <2>1. events = << >> /\ stack = << >> /\ \A t \in Threads : step[t] = "out"
    BY DEF ToolInit
  <2>2. RouterTypeOK
    BY DEF ToolInit, RouterTypeOK, ToolSteps
  <2> QED
    BY <2>1, <2>2 DEF AccountInv, UnderWayInv
<1>2. AccountInv => SpansAccounted
  BY DEF AccountInv, SpansAccounted, Waits
<1> QED
  BY <1>1, <1>2, AccountStep, PTL DEF ToolSpec

-----------------------------------------------------------------------------
\* What a question has spent: five requests in its first round at most, and in the
\* second so many as its attempts so far.
RequestInv ==
    /\ place \in {"rest", "responses", "chat", "replied"}
    /\ round \in {1, 2} /\ tries \in 0 .. 3 /\ requests \in Nat
    /\ LET before == IF round = 2 THEN 5 ELSE 0
       IN  /\ place = "responses" => requests <= before + tries
           /\ place = "chat" => requests <= before + 4
           /\ requests <= before + 5

\* Every attempt, every change to the other API and every round is a request at most.
LEMMA RequestStep == RequestInv /\ [LlmNext]_llmVars => RequestInv'
<1> SUFFICES ASSUME RequestInv, [LlmNext]_llmVars PROVE RequestInv'
  OBVIOUS
<1> USE DEF RequestInv
<1>1. CASE NewRun
  BY <1>1 DEF NewRun
<1>2. ASSUME NEW c \in Callers, Ask(c) PROVE RequestInv'
  BY <1>2 DEF Ask
<1>3. CASE AnswerWithoutRequest \/ Reply
  BY <1>3 DEF AnswerWithoutRequest, Reply
<1>4. CASE NotFound \/ TryAgain
  BY <1>4 DEF NotFound, TryAgain, LastAttempt
<1>5. CASE Raise
  BY <1>5 DEF Raise, Ends
<1>6. CASE Deliver \/ GiveValid \/ RaiseBroken
  BY <1>6 DEF Deliver, GiveValid, RaiseBroken, Ends, Judged
<1>7. CASE AskFallback
  BY <1>7 DEF AskFallback, Judged
<1>8. CASE UNCHANGED llmVars
  BY <1>8 DEF llmVars
<1> QED
  BY <1>1, <1>2, <1>3, <1>4, <1>5, <1>6, <1>7, <1>8 DEF LlmNext

\* Retries, the change to the chat API and the fallback prompt multiply, but one question
\* makes no more than ten requests (call_openai of core/llm_client.py, run_with_spec).
THEOREM RequestsAreBounded == LlmSpec => []RequestsBounded
<1>1. LlmInit => RequestInv
  BY DEF LlmInit, RequestInv
<1>2. RequestInv => RequestsBounded
  BY DEF RequestInv, RequestsBounded
<1> QED
  BY <1>1, <1>2, RequestStep, PTL DEF LlmSpec

-----------------------------------------------------------------------------
\* Calls before a ladder's first check, and on the rungs above it.
Base == IF ladder = "task" THEN 2 ELSE IF ladder = "flagged" THEN 6 ELSE 10
Height == IF rung = "first" THEN 0 ELSE IF rung = "again" THEN 1
          ELSE IF rung = "reminded" THEN 2 ELSE 3

Verdicted == {"judged", "flagging", "reflecting", "settled", "reviewed", "recorded"}

\* A rung is left upwards and a ladder for a later one, a call at a time.
ClimbInv ==
    /\ at = "ask" => /\ ladder = "task" /\ rung = "first"
                     /\ calls = IF refused THEN 1 ELSE 0
    /\ at = "again" => ladder # "task" /\ calls < Base
    /\ at \in {"check"} \cup Verdicted => calls <= Base + Height
    /\ CallsBounded

\* The text that is checked is the agent's last, and the verdict its own; an
\* open issue was flagged, which counts the role's retry and ends the climbing.
VerdictInv ==
    /\ at \in {"check"} \cup Verdicted => text = heard
    /\ at \in Verdicted =>
         /\ valid <=> heard \in Passing
         /\ flagged <=> heard = "placeholder"
    /\ at \in {"ask", "again", "check", "judged", "flagging"} => ~open
    /\ at \in {"reflecting", "settled"} /\ open => retried /\ ~valid
    /\ at = "reviewed" /\ open => ~valid
    /\ at \in {"flagging", "reflecting"} => flagged /\ ladder # "review"
    /\ ladder = "review" => review
    /\ IssueIffPlaceholder

-----------------------------------------------------------------------------
\* Types are kept; that the count stays within its type is ClimbInv's.
LEMMA TypeKept == TypeOK /\ ClimbInv /\ [Next]_vars => TypeOK'
<1> SUFFICES ASSUME TypeOK, ClimbInv, [Next]_vars PROVE TypeOK'
  OBVIOUS
<1> USE DEF TypeOK, ClimbInv, CallsBounded, Base, Height, Verdicted, Texts, Passing, MaxCalls, meta
<1>1. CASE Answer
  BY <1>1 DEF Answer, Hears, Counted, MaxCalls
<1>2. CASE Refuse
  BY <1>2 DEF Refuse, Counted, MaxCalls
<1>3. CASE Empty
  BY <1>3 DEF Empty, Counted, MaxCalls
<1>4. CASE Fail
  BY <1>4 DEF Fail, Counted, MaxCalls
<1>5. CASE CheckScalar
  BY <1>5 DEF CheckScalar
<1>6. CASE Pass
  BY <1>6 DEF Pass, Judge
<1>7. CASE RetryPlaceholder
  BY <1>7 DEF RetryPlaceholder, PlaceholderRetry, Retry, Hears, Counted, MaxCalls
<1>8. CASE GiveUpPlaceholder
  BY <1>8 DEF GiveUpPlaceholder, Judge
<1>9. CASE Remind
  BY <1>9 DEF Remind, Retry, Hears, Counted, MaxCalls
<1>10. CASE LastReminder
  BY <1>10 DEF LastReminder, Retry, Hears, Counted, MaxCalls
<1>11. CASE GiveUp
  BY <1>11 DEF GiveUp, Judge
<1>12. CASE RetryFlagged
  BY <1>12 DEF RetryFlagged, AskFlagged, Again
<1>13. CASE GiveIn
  BY <1>13 DEF GiveIn, Leave
<1>14. CASE Flag
  BY <1>14 DEF Flag, Leave
<1>15. CASE Reflect
  BY <1>15 DEF Reflect, Leave
<1>16. CASE Settle
  BY <1>16 DEF Settle, Leave
<1>17. CASE RetryReview
  BY <1>17 DEF RetryReview, AskReview, Again
<1>18. CASE AnswerAgain
  BY <1>18 DEF AnswerAgain, Hears, Counted, MaxCalls
<1>19. CASE Review
  BY <1>19 DEF Review, Leave, AskReview, SaysNothing
<1>20. CASE Record
  BY <1>20 DEF Record, Leave
<1>21. CASE OtherTask
  BY <1>21 DEF OtherTask
<1>22. CASE UNCHANGED vars
  BY <1>22 DEF vars
<1> QED
  BY <1>1, <1>2, <1>3, <1>4, <1>5, <1>6, <1>7, <1>8, <1>9, <1>10, <1>11, <1>12,
     <1>13, <1>14, <1>15, <1>16, <1>17, <1>18, <1>19, <1>20, <1>21, <1>22
  DEF Next, TaskStep

\* Each call is paid for by a rung.
LEMMA ClimbKept == TypeOK /\ ClimbInv /\ [Next]_vars => ClimbInv'
<1> SUFFICES ASSUME TypeOK, ClimbInv, [Next]_vars PROVE ClimbInv'
  OBVIOUS
<1> USE DEF TypeOK, ClimbInv, CallsBounded, Base, Height, Verdicted, Texts, Passing, MaxCalls, meta
<1>1. CASE Answer
  BY <1>1 DEF Answer, Hears, Counted, MaxCalls
<1>2. CASE Refuse
  BY <1>2 DEF Refuse, Counted, MaxCalls
<1>3. CASE Empty
  BY <1>3 DEF Empty, Counted, MaxCalls
<1>4. CASE Fail
  BY <1>4 DEF Fail, Counted, MaxCalls
<1>5. CASE CheckScalar
  BY <1>5 DEF CheckScalar
<1>6. CASE Pass
  BY <1>6 DEF Pass, Judge
<1>7. CASE RetryPlaceholder
  BY <1>7 DEF RetryPlaceholder, PlaceholderRetry, Retry, Hears, Counted, MaxCalls
<1>8. CASE GiveUpPlaceholder
  BY <1>8 DEF GiveUpPlaceholder, Judge
<1>9. CASE Remind
  BY <1>9 DEF Remind, Retry, Hears, Counted, MaxCalls
<1>10. CASE LastReminder
  BY <1>10 DEF LastReminder, Retry, Hears, Counted, MaxCalls
<1>11. CASE GiveUp
  BY <1>11 DEF GiveUp, Judge
<1>12. CASE RetryFlagged
  BY <1>12 DEF RetryFlagged, AskFlagged, Again
<1>13. CASE GiveIn
  BY <1>13 DEF GiveIn, Leave
<1>14. CASE Flag
  BY <1>14 DEF Flag, Leave
<1>15. CASE Reflect
  BY <1>15 DEF Reflect, Leave
<1>16. CASE Settle
  BY <1>16 DEF Settle, Leave
<1>17. CASE RetryReview
  BY <1>17 DEF RetryReview, AskReview, Again
<1>18. CASE AnswerAgain
  BY <1>18 DEF AnswerAgain, Hears, Counted, MaxCalls
<1>19. CASE Review
  BY <1>19 DEF Review, Leave, AskReview, SaysNothing
<1>20. CASE Record
  BY <1>20 DEF Record, Leave
<1>21. CASE OtherTask
  BY <1>21 DEF OtherTask
<1>22. CASE UNCHANGED vars
  BY <1>22 DEF vars
<1> QED
  BY <1>1, <1>2, <1>3, <1>4, <1>5, <1>6, <1>7, <1>8, <1>9, <1>10, <1>11, <1>12,
     <1>13, <1>14, <1>15, <1>16, <1>17, <1>18, <1>19, <1>20, <1>21, <1>22
  DEF Next, TaskStep

\* Verdicts and issues.
LEMMA VerdictKept == TypeOK /\ VerdictInv /\ [Next]_vars => VerdictInv'
<1> SUFFICES ASSUME TypeOK, VerdictInv, [Next]_vars PROVE VerdictInv'
  OBVIOUS
<1> USE DEF TypeOK, VerdictInv, IssueIffPlaceholder, Verdicted, Texts, Passing, meta
<1>1. CASE Answer
  BY <1>1 DEF Answer, Hears, Counted, MaxCalls
<1>2. CASE Refuse
  BY <1>2 DEF Refuse, Counted, MaxCalls
<1>3. CASE Empty
  BY <1>3 DEF Empty, Counted, MaxCalls
<1>4. CASE Fail
  BY <1>4 DEF Fail, Counted, MaxCalls
<1>5. CASE CheckScalar
  BY <1>5 DEF CheckScalar
<1>6. CASE Pass
  BY <1>6 DEF Pass, Judge
<1>7. CASE RetryPlaceholder
  BY <1>7 DEF RetryPlaceholder, PlaceholderRetry, Retry, Hears, Counted, MaxCalls
<1>8. CASE GiveUpPlaceholder
  BY <1>8 DEF GiveUpPlaceholder, Judge
<1>9. CASE Remind
  BY <1>9 DEF Remind, Retry, Hears, Counted, MaxCalls
<1>10. CASE LastReminder
  BY <1>10 DEF LastReminder, Retry, Hears, Counted, MaxCalls
<1>11. CASE GiveUp
  BY <1>11 DEF GiveUp, Judge
<1>12. CASE RetryFlagged
  BY <1>12 DEF RetryFlagged, AskFlagged, Again
<1>13. CASE GiveIn
  BY <1>13 DEF GiveIn, Leave
<1>14. CASE Flag
  BY <1>14 DEF Flag, Leave
<1>15. CASE Reflect
  BY <1>15 DEF Reflect, Leave
<1>16. CASE Settle
  BY <1>16 DEF Settle, Leave
<1>17. CASE RetryReview
  BY <1>17 DEF RetryReview, AskReview, Again
<1>18. CASE AnswerAgain
  BY <1>18 DEF AnswerAgain, Hears, Counted, MaxCalls
<1>19. CASE Review
  BY <1>19 DEF Review, Leave, AskReview, SaysNothing
<1>20. CASE Record
  BY <1>20 DEF Record, Leave
<1>21. CASE OtherTask
  BY <1>21 DEF OtherTask
<1>22. CASE UNCHANGED vars
  BY <1>22 DEF vars
<1> QED
  BY <1>1, <1>2, <1>3, <1>4, <1>5, <1>6, <1>7, <1>8, <1>9, <1>10, <1>11, <1>12,
     <1>13, <1>14, <1>15, <1>16, <1>17, <1>18, <1>19, <1>20, <1>21, <1>22
  DEF Next, TaskStep

-----------------------------------------------------------------------------
IInv == TypeOK /\ ClimbInv /\ VerdictInv

LEMMA InitIInv == Init => IInv
<1> SUFFICES ASSUME Init PROVE IInv
  OBVIOUS
<1>1. TypeOK
  <2>1. review \in BOOLEAN
    BY LadderAssumption, Zenon DEF Init
  <2>2. /\ refused \in BOOLEAN /\ valid \in BOOLEAN /\ flagged \in BOOLEAN
        /\ escalated \in BOOLEAN /\ open \in BOOLEAN /\ retried \in BOOLEAN
    BY Zenon DEF Init
  <2>3. /\ at = "ask" /\ text = "none" /\ heard = "none"
        /\ rung = "first" /\ ladder = "task" /\ calls = 0
    BY Zenon DEF Init
  <2>4. calls \in 0 .. MaxCalls
    BY <2>3 DEF MaxCalls
  <2> QED
    BY <2>1, <2>2, <2>3, <2>4, Zenon DEF TypeOK
<1>2. ClimbInv
  <2>1. calls = (IF refused THEN 1 ELSE 0)
    BY DEF Init
  <2>2. CallsBounded
    BY DEF Init, CallsBounded
  <2> QED
    BY <2>1, <2>2 DEF Init, ClimbInv, Verdicted
<1>3. VerdictInv
  BY DEF Init, VerdictInv, IssueIffPlaceholder, Verdicted
<1> QED
  BY <1>1, <1>2, <1>3 DEF IInv

LEMMA Invariance == Spec => []IInv
<1>1. IInv /\ [Next]_vars => IInv'
  BY TypeKept, ClimbKept, VerdictKept DEF IInv
<1> QED
  BY InitIInv, <1>1, PTL DEF Spec

\* The variables of the ladder keep their types.
THEOREM TypeCorrect == Spec => []TypeOK
<1>1. IInv => TypeOK
  BY DEF IInv
<1> QED
  BY Invariance, <1>1, PTL

\* _run_task and its calls of validate_and_retry call the agent at most 13
\* times, whatever texts and errors come back.
THEOREM CallsRunOut == Spec => []CallsBounded
<1>1. IInv => CallsBounded
  BY DEF IInv, ClimbInv
<1> QED
  BY Invariance, <1>1, PTL

\* The verdict _run_task acts on is that of the agent's last text.
THEOREM VerdictIsLast == Spec => []LastTextJudged
<1>1. IInv => LastTextJudged
  BY DEF IInv, VerdictInv, LastTextJudged, Verdicted
<1> QED
  BY Invariance, <1>1, PTL

\* A recorded task has an open issue exactly when its output is a placeholder.
THEOREM IssuesExact == Spec => []IssueIffPlaceholder
<1>1. IInv => IssueIffPlaceholder
  BY DEF IInv, VerdictInv
<1> QED
  BY Invariance, <1>1, PTL

-----------------------------------------------------------------------------
\* How far a task is from its end: a call of validate_and_retry leaves another one for
\* later, and within it every text brings the next rung.
Distance ==
    IF Ended THEN 0
    ELSE (IF ladder = "task" THEN 28 ELSE IF ladder = "flagged" THEN 14 ELSE 0)
         + (CASE at = "ask" -> IF refused THEN 11 ELSE 12
              [] at = "again" -> 10
              [] at = "check" -> 9 - Height
              [] at = "judged" -> 5
              [] at = "flagging" -> 4
              [] at = "reflecting" -> 3
              [] at = "settled" -> 2
              [] at = "reviewed" -> 1)

\* Every step of a task brings it closer to its end, and no other task takes it back: it
\* goes at most 40 steps, whatever texts and errors come back.  Only that a next step is
\* taken at all is left to fairness, and to AgentsEnd.
THEOREM LadderDescends ==
  Spec => [][ /\ Distance \in 0 .. 40
              /\ TaskStep => Distance' \in 0 .. Distance - 1
              /\ OtherTask => Distance' = Distance ]_vars
<1>1. ASSUME IInv
      PROVE  Distance \in 0 .. 40
  BY <1>1 DEF IInv, TypeOK, Distance, Height, Ended
<1>2. ASSUME IInv, TaskStep
      PROVE  Distance' \in 0 .. Distance - 1
  <2> USE DEF IInv, TypeOK, Distance, Height, Ended, meta
  <2>1. CASE Answer \/ Refuse \/ Empty \/ Fail \/ CheckScalar
    BY <1>2, <2>1 DEF Answer, Refuse, Empty, Fail, CheckScalar, Hears, ClimbInv
  <2>2. CASE Pass \/ GiveUpPlaceholder \/ GiveUp
    BY <1>2, <2>2 DEF Pass, GiveUpPlaceholder, GiveUp, Judge
  <2>3. CASE RetryPlaceholder \/ Remind \/ LastReminder
    BY <1>2, <2>3 DEF RetryPlaceholder, PlaceholderRetry, Remind, LastReminder, Retry, Hears
  <2>4. CASE RetryFlagged \/ RetryReview \/ AnswerAgain
    BY <1>2, <2>4 DEF RetryFlagged, AskFlagged, RetryReview, AskReview, Again, AnswerAgain, Hears
  <2>5. CASE GiveIn \/ Flag \/ Reflect \/ Settle \/ Review \/ Record
    BY <1>2, <2>5 DEF GiveIn, Flag, Reflect, Settle, Review, Record, Leave
  <2> QED
    BY <1>2, <2>1, <2>2, <2>3, <2>4, <2>5 DEF TaskStep
<1>3. ASSUME OtherTask
      PROVE  Distance' = Distance
  BY <1>3 DEF OtherTask, meta, Distance, Height, Ended
<1> QED
  BY Invariance, <1>1, <1>2, <1>3, PTL DEF Spec

-----------------------------------------------------------------------------
\* The strand of a task that goes on from one step to others.
LEMMA ThenIs ==
  /\ \A x, y : Left = <<x>> /\ Left' = <<y>> => Task!Then(Task!Main, <<y>>)
  /\ \A x, y, z : Left = <<x>> /\ Left' = <<y, z>> => Task!Then(Task!Main, <<y, z>>)
  /\ \A x : Left = <<x>> /\ Left' = << >> => Task!Then(Task!Main, << >>)
  /\ \A x, y : Left = <<x, y>> /\ Left' = <<y>> => Task!Then(Task!Main, << >>)
<1>1. /\ \A x : Tail(<<x>>) = << >>
      /\ \A x, y : Tail(<<x, y>>) = <<y>>
  OBVIOUS
<1>2. /\ \A y : <<y>> \o << >> = <<y>> /\ << >> \o <<y>> = <<y>>
      /\ \A y, z : <<y, z>> \o << >> = <<y, z>>
      /\ << >> \o << >> = << >>
  OBVIOUS
<1>3. ASSUME NEW new, Left' = new \o Tail(Left)
      PROVE  Task!Then(Task!Main, new)
  BY <1>3 DEF Task!Then, Task!Main
<1>4. ASSUME NEW x, NEW y, Left = <<x>>, Left' = <<y>>
      PROVE  Task!Then(Task!Main, <<y>>)
  BY <1>1, <1>2, <1>3, <1>4, Zenon
<1>5. ASSUME NEW x, NEW y, NEW z, Left = <<x>>, Left' = <<y, z>>
      PROVE  Task!Then(Task!Main, <<y, z>>)
  BY <1>1, <1>2, <1>3, <1>5, Zenon
<1>6. ASSUME NEW x, Left = <<x>>, Left' = << >>
      PROVE  Task!Then(Task!Main, << >>)
  BY <1>1, <1>2, <1>3, <1>6, Zenon
<1>7. ASSUME NEW x, NEW y, Left = <<x, y>>, Left' = <<y>>
      PROVE  Task!Then(Task!Main, << >>)
  BY <1>1, <1>2, <1>3, <1>7, Zenon
<1> QED
  BY <1>4, <1>5, <1>6, <1>7, Zenon

\* The step that the task is at, as execute_plan sees it.
LEMMA AtIs ==
  ASSUME at # "raised", NEW d, NEW n, NEW k, Left = <<StepOf(d, n, k)>>
  PROVE  Task!At(Task!Main, d) /\ Task!Top(Task!Main) = StepOf(d, n, k)
  BY DEF Task!At, Task!Top, Task!Main, StepOf

\* What execute_plan does not see of a task.
LEMMA Unseen ==
  ASSUME review' = review, Left' = Left, Result' = Result, retried' = retried, open' = open,
         (at' = "raised") = (at = "raised")
  PROVE  UNCHANGED planVars
  BY DEF planVars, Task!vars, Task!given, ForRole, WhenTrue, Results, Role

\* What a step that neither ends the task nor counts a retry nor opens an issue leaves
\* alone.
LEMMA GoesOn ==
  ASSUME ~Ended, ~Ended', UNCHANGED <<review, retried, open>>
  PROVE  /\ Role' = Role /\ Role \in PlanRoles /\ at # "raised" /\ at' # "raised"
         /\ WhenTrue(retried)' = WhenTrue(retried) /\ WhenTrue(open)' = WhenTrue(open)
         /\ Result = "none" /\ Result' = "none"
         /\ ForRole(Results, {})' = ForRole(Results, {})
         /\ ForRole(Result, "none")' = ForRole(Result, "none")
<1>1. Role' = Role /\ Role \in PlanRoles /\ at # "raised" /\ at' # "raised"
  BY DEF Ended, Role, PlanRoles
<1>2. Result = "none" /\ Result' = "none"
  BY DEF Ended, Result
<1> QED
  BY <1>1, <1>2 DEF WhenTrue, ForRole, Results

\* An error of the agent, where it is called.
LEMMA RaiseIs ==
  ASSUME ~Ended, at' = "raised", UNCHANGED <<review, retried, open>>,
         NEW d \in {"run", "retry", "review"}, Left = <<StepOf(d, Role, "any")>>
  PROVE  Task!Raise(Task!Main)
<1>1. Role' = Role /\ Result = "none" /\ Result' = "none" /\ at # "raised"
  BY DEF Ended, Role, Result
<1>2. Left' = << >>
  BY DEF Left
<1>3. Task!At(Task!Main, d)
  BY <1>1, AtIs
<1>4. /\ [s \in {0} |-> Left]' = [[s \in {0} |-> Left] EXCEPT ![Task!Main] = << >>]
  BY <1>2 DEF Task!Main
<1> QED
  BY <1>1, <1>3, <1>4
  DEF Task!Raise, Task!given, Task!Main, ForRole, WhenTrue, Results

\* A verdict: of the first text, of the flagged one's retry, or of a review's.
LEMMA JudgeIs ==
  ASSUME TypeOK, VerdictInv, at = "check", at' = "judged",
         UNCHANGED <<review, ladder, retried, open>>,
         valid' \in BOOLEAN, flagged' \in BOOLEAN, flagged' => ~valid'
  PROVE  Task!StrandStep(Task!Main) \/ UNCHANGED planVars
<1>1. ~Ended /\ ~Ended'
  BY DEF Ended
<1>2. Role \in PlanRoles /\ Role' = Role /\ (Role = "QA" <=> review) /\ review \in BOOLEAN
  BY DEF TypeOK, Role, PlanRoles
<1> DEFINE k == IF valid' THEN "good" ELSE "fabricated"
<1>3. Task!Settle(Role, k) = Settled(k) /\ k \in {"good", "fabricated"}
  BY <1>2 DEF Task!Settle, Task!Step, Settled, StepOf
<1>4. Verdict' = k /\ <<Settled(Verdict)>>' = <<Settled(k)>>
  BY <1>2 DEF Verdict, Settled, StepOf, Role
<1>5. CASE ladder = "task"
  <2>1. Left = <<StepOf("run", Role, "any")>>
    BY <1>5 DEF Left
  <2>2. Task!At(Task!Main, "run") /\ Task!Top(Task!Main) = StepOf("run", Role, "any")
    BY <1>1, <2>1, AtIs DEF Ended
  <2>3. [n \in PlanRoles \cup {"none"} |-> IF n = "QA" THEN "QA" ELSE "worker"]
          [Task!Top(Task!Main).on] = Role
    BY <1>2, <2>2 DEF StepOf, PlanRoles
  <2>4. CASE flagged'
    <3>1. Left' = <<StepOf("second", Role, "any")>>
      BY <1>2, <1>5, <2>4 DEF Left, StepOf
    <3>2. Task!Then(Task!Main, <<Task!Step("second", Role, "any")>>)
      BY <2>1, <3>1, ThenIs DEF Task!Step, StepOf
    <3>3. Task!RunJudged(Task!Main)
      BY <1>1, <2>2, <2>3, <3>2, GoesOn DEF Task!RunJudged, Task!given
    <3> QED
      BY <3>3 DEF Task!StrandStep
  <2>5. CASE ~flagged'
    <3>1. Left' = <<Settled(Verdict)>>'
      BY <1>5, <2>5 DEF Left
    <3>2. Task!Then(Task!Main, <<Task!Settle(Role, k)>>)
      BY <1>3, <1>4, <2>1, <3>1, ThenIs
    <3> HIDE DEF k
    <3>3. Task!RunJudged(Task!Main)
      BY <1>1, <1>3, <2>2, <2>3, <3>2, GoesOn DEF Task!RunJudged, Task!given
    <3> QED
      BY <3>3 DEF Task!StrandStep
  <2> QED
    BY <2>4, <2>5
<1>6. CASE ladder = "flagged"
  <2>1. Left = <<StepOf("retry", Role, "any")>>
    BY <1>6 DEF Left
  <2>2. Task!At(Task!Main, "retry") /\ Task!Top(Task!Main).on = Role
    BY <1>1, <2>1, AtIs DEF Ended, StepOf
  <2>3. CASE flagged'
    <3>1. Left' = <<StepOf("flag", Role, "any")>>
      BY <1>2, <1>6, <2>3 DEF Left, StepOf
    <3>2. Task!Then(Task!Main, <<Task!Step("flag", Role, "any")>>)
      BY <2>1, <3>1, ThenIs DEF Task!Step, StepOf
    <3>3. Task!RetryFlagged(Task!Main)
      BY <1>1, <2>2, <3>2, GoesOn DEF Task!RetryFlagged, Task!given
    <3> QED
      BY <3>3 DEF Task!StrandStep
  <2>4. CASE ~flagged'
    <3>1. Left' = <<Settled(Verdict)>>'
      BY <1>6, <2>4 DEF Left
    <3>2. Task!Then(Task!Main, <<Task!Settle(Role, k)>>)
      BY <1>3, <1>4, <2>1, <3>1, ThenIs
    <3> HIDE DEF k
    <3>3. Task!RetryFlagged(Task!Main)
      BY <1>1, <1>3, <2>2, <3>2, GoesOn DEF Task!RetryFlagged, Task!given
    <3> QED
      BY <3>3 DEF Task!StrandStep
  <2> QED
    BY <2>3, <2>4
<1>7. CASE ladder = "review"
  <2>1. Left' = Left
    BY <1>2, <1>7 DEF Left, StepOf
  <2> QED
    BY <1>1, <2>1, GoesOn, Unseen
<1> QED
  BY <1>5, <1>6, <1>7 DEF TypeOK

\* Every step of the ladder, as execute_plan sees it.
LEMMA LadderStep ==
  ASSUME IInv, [Next]_vars
  PROVE  [Task!StrandStep(Task!Main) \/ OtherTask]_planVars
<1> USE DEF IInv, meta
<1>0. TypeOK /\ ClimbInv /\ VerdictInv
  OBVIOUS
<1>a. Role \in PlanRoles /\ (Role = "QA" <=> review) /\ review \in BOOLEAN
  BY DEF TypeOK, Role, PlanRoles
<1>b. [n \in PlanRoles \cup {"none"} |-> IF n = "QA" THEN "QA" ELSE "worker"][Role] = Role
  BY <1>a DEF PlanRoles
<1>1. CASE Answer
  <2>1. ~Ended /\ ~Ended' /\ Left' = Left
    BY <1>0, <1>1 DEF Answer, Ended, ClimbInv, Left, StepOf, Role
  <2> QED
    BY <1>1, <2>1, GoesOn, Unseen DEF Answer
<1>2. ASSUME Refuse \/ Empty
      PROVE  [Task!StrandStep(Task!Main)]_planVars
  <2>1. /\ ladder = "task" /\ at = "ask" /\ ~Ended
        /\ UNCHANGED <<review, text, ladder, valid, retried, open>>
    BY <1>0, <1>2 DEF ClimbInv, Refuse, Empty, Ended
  <2>2. Left = <<StepOf("run", Role, "any")>>
    BY <2>1 DEF Left
  <2>3. Task!At(Task!Main, "run") /\ Task!Top(Task!Main).on = Role
    BY <2>1, <2>2, AtIs DEF StepOf
  <2>4. CASE at' = "ask"
    <3>1. ~Ended' /\ Left' = Left
      BY <2>1, <2>4 DEF Left, StepOf, Role, Ended
    <3> QED
      BY <2>1, <3>1, GoesOn, Unseen
  <2>5. CASE at' = "raised"
    BY <2>1, <2>2, <2>5, RaiseIs DEF Task!StrandStep
  <2>6. ASSUME at' \in {"unanswered", "empty"}
        PROVE  Task!StrandStep(Task!Main)
    <3> DEFINE kind == IF at' = "empty" THEN "error" ELSE "unanswered"
    <3>1. Left' = << >>
      BY <2>1, <2>6 DEF Left
    <3>2. Task!Then(Task!Main, << >>)
      BY <2>2, <3>1, ThenIs
    <3>3. Result = "none" /\ Result' = kind /\ Role' = Role /\ at' # "raised" /\ at # "raised"
      BY <2>1, <2>6 DEF Result, Role
    <3>4. /\ ForRole(Results, {})' = [ForRole(Results, {}) EXCEPT ![Role] = @ \cup {kind}]
          /\ ForRole(Results, {})' = [ForRole(Results, {}) EXCEPT ![Role] = {kind}]
          /\ ForRole(Result, "none")' = [ForRole(Result, "none") EXCEPT ![Role] = kind]
          /\ WhenTrue(retried)' = WhenTrue(retried) /\ WhenTrue(open)' = WhenTrue(open)
      BY <1>a, <2>1, <3>3 DEF ForRole, Results, WhenTrue
    <3>5. CASE at' = "unanswered"
      <4>1. Task!RunUnanswered(Task!Main)
        BY <1>b, <2>3, <3>2, <3>3, <3>4, <3>5 DEF Task!RunUnanswered, Task!Got, Task!given
      <4> QED
        BY <4>1 DEF Task!StrandStep
    <3>6. CASE at' = "empty"
      <4>1. Task!RunEmpty(Task!Main)
        BY <1>b, <2>3, <3>2, <3>3, <3>4, <3>6
        DEF Task!RunEmpty, Task!Got, Task!given, Task!EmptyOutput
      <4> QED
        BY <4>1 DEF Task!StrandStep
    <3> QED
      BY <2>6, <3>5, <3>6
  <2> QED
    BY <1>2, <2>4, <2>5, <2>6 DEF Refuse, Empty
<1>4. CASE Fail \/ CheckScalar
  <2>1. ~Ended /\ at' = "raised" /\ UNCHANGED <<review, retried, open>>
    BY <1>4 DEF Fail, CheckScalar, Ended
  <2>2. \E d \in {"run", "retry", "review"} : Left = <<StepOf(d, Role, "any")>>
    BY <1>0, <1>4 DEF Fail, CheckScalar, ClimbInv, TypeOK, Left
  <2> QED
    BY <2>1, <2>2, RaiseIs DEF Task!StrandStep
<1>5. CASE Pass \/ GiveUpPlaceholder \/ GiveUp
  <2>1. /\ at = "check" /\ at' = "judged" /\ UNCHANGED <<review, ladder, retried, open>>
        /\ valid' \in BOOLEAN /\ flagged' \in BOOLEAN /\ (flagged' => ~valid')
    BY <1>0, <1>5 DEF Pass, GiveUpPlaceholder, GiveUp, Judge, TypeOK
  <2> QED
    BY <1>0, <2>1, JudgeIs
<1>6. CASE RetryPlaceholder \/ Remind \/ LastReminder
  <2>1. ~Ended /\ ~Ended' /\ Left' = Left /\ UNCHANGED <<review, retried, open>>
    BY <1>0, <1>6
    DEF RetryPlaceholder, Remind, LastReminder, Retry, Ended, Left, StepOf, Role, TypeOK
  <2> QED
    BY <2>1, GoesOn, Unseen
<1>7. CASE RetryFlagged
  <2>1. /\ ~Ended /\ ~Ended' /\ UNCHANGED <<review, retried, open>> /\ ~retried
        /\ Left = <<StepOf("second", Role, "any")>>
        /\ Left' = <<StepOf("retry", Role, "any")>>
    BY <1>a, <1>7 DEF RetryFlagged, AskFlagged, Again, Ended, Left, StepOf, Role
  <2>2. /\ Task!At(Task!Main, "second") /\ Task!Top(Task!Main).on = Role
        /\ Task!Then(Task!Main, <<Task!Step("retry", Role, "any")>>)
    BY <2>1, AtIs, ThenIs DEF Ended, StepOf, Task!Step
  <2>3. Task!Second(Task!Main)
    BY <2>1, <2>2, GoesOn DEF Task!Second, Task!given, WhenTrue
  <2> QED
    BY <2>3 DEF Task!StrandStep
<1>8. CASE GiveIn
  <2>1. /\ at = "judged" /\ at' = "flagging" /\ flagged /\ ladder \in {"task", "flagged"}
        /\ ladder = "task" => retried
        /\ UNCHANGED <<review, ladder, flagged, valid, text, retried, open>>
        /\ ~Ended /\ ~Ended'
    BY <1>0, <1>8 DEF GiveIn, Leave, AskFlagged, Ended, TypeOK
  <2>2. Left' = <<StepOf("flag", Role, "any")>>
    BY <1>a, <2>1 DEF Left, StepOf, Role
  <2>3. CASE ladder = "task"
    <3>1. Left = <<StepOf("second", Role, "any")>>
      BY <2>1, <2>3 DEF Left
    <3>2. /\ Task!At(Task!Main, "second") /\ Task!Top(Task!Main).on = Role
          /\ Task!Then(Task!Main, <<Task!Step("flag", Role, "any")>>)
      BY <2>1, <2>2, <3>1, AtIs, ThenIs DEF Ended, StepOf, Task!Step
    <3>3. Task!Second(Task!Main)
      BY <2>1, <2>3, <3>2, GoesOn DEF Task!Second, Task!given, WhenTrue
    <3> QED
      BY <3>3 DEF Task!StrandStep
  <2>4. CASE ladder = "flagged"
    <3>1. Left' = Left
      BY <2>1, <2>2, <2>4 DEF Left
    <3> QED
      BY <2>1, <3>1, GoesOn, Unseen
  <2> QED
    BY <2>1, <2>3, <2>4
<1>9. CASE Flag
  <2>1. /\ at = "flagging" /\ at' = "reflecting" /\ retried' = TRUE /\ open' = TRUE
        /\ UNCHANGED <<review, ladder, flagged, valid, text>>
        /\ at # "raised" /\ at' # "raised" /\ Role' = Role
        /\ Result = "none" /\ Result' = "none" /\ ladder # "review"
    BY <1>0, <1>9 DEF Flag, Leave, Role, Result, VerdictInv
  <2>2. /\ Left = <<StepOf("flag", Role, "any")>>
        /\ Left' = <<StepOf("reflect", "none", "nested"), Settled("fabricated")>>
    BY <2>1 DEF Left, Settled, StepOf, Role
  <2>3. /\ Task!Step("reflect", "none", "nested") = StepOf("reflect", "none", "nested")
        /\ Task!Settle(Role, "fabricated") = Settled("fabricated")
    BY <1>a DEF Task!Step, Task!Settle, StepOf, Settled
  <2>4. /\ Task!At(Task!Main, "flag") /\ Task!Top(Task!Main).on = Role
        /\ Task!Then(Task!Main, <<Task!Step("reflect", "none", "nested"),
                                  Task!Settle(Role, "fabricated")>>)
    BY <2>1, <2>2, <2>3, AtIs, ThenIs DEF StepOf
  <2>5. /\ WhenTrue(retried)' = WhenTrue(retried) \cup {Role}
        /\ WhenTrue(open)' = WhenTrue(open) \cup {Role}
        /\ ForRole(Results, {})' = ForRole(Results, {})
        /\ ForRole(Result, "none")' = ForRole(Result, "none")
    BY <2>1 DEF WhenTrue, ForRole, Results
  <2>6. Task!Flag(Task!Main)
    BY <2>1, <2>4, <2>5 DEF Task!Flag, Task!given
  <2> QED
    BY <2>6 DEF Task!StrandStep
<1>10. CASE Reflect
  <2>1. /\ at = "reflecting" /\ at' = "settled" /\ ~valid /\ ladder # "review"
        /\ UNCHANGED <<review, ladder, flagged, valid, text, retried, open>>
        /\ ~Ended /\ ~Ended'
    BY <1>0, <1>10 DEF Reflect, Leave, Ended, VerdictInv, Verdicted, Passing
  <2>2. /\ Left = <<StepOf("reflect", "none", "nested"), Settled("fabricated")>>
        /\ Left' = <<Settled("fabricated")>>
    BY <2>1 DEF Left, Settled, Verdict, StepOf, Role
  <2>3. Task!At(Task!Main, "reflect") /\ Task!Then(Task!Main, << >>)
    BY <2>1, <2>2, ThenIs DEF Task!At, Task!Main, StepOf, Ended
  <2>4. Task!Reflect(Task!Main)
    BY <2>1, <2>3, GoesOn DEF Task!Reflect, Task!ReflectionAllowed, Task!given
  <2> QED
    BY <2>4 DEF Task!StrandStep
<1>11. CASE Settle
  <2>1. ~Ended /\ ~Ended' /\ UNCHANGED <<review, retried, open>>
    BY <1>11 DEF Settle, Leave, Ended
  <2>2. Left' = Left
    BY <1>0, <1>11 DEF Settle, Leave, Left, StepOf, Settled, Role, Verdict, TypeOK
  <2> QED
    BY <2>1, <2>2, GoesOn, Unseen
<1>12. CASE RetryReview
  <2>1. /\ review /\ ~retried /\ SaysNothing /\ ladder # "review"
        /\ at = "settled" /\ at' = "again" /\ ladder' = "review"
        /\ UNCHANGED <<review, retried, open>> /\ ~Ended /\ ~Ended'
    BY <1>12 DEF RetryReview, AskReview, Again, Ended
  <2>2. /\ Left = <<StepOf("qa", Role, Verdict)>> /\ Left' = <<StepOf("review", Role, "any")>>
    BY <1>a, <2>1 DEF Left, StepOf, Settled, Role
  <2>3. /\ Task!At(Task!Main, "qa") /\ Role = "QA"
        /\ Task!Then(Task!Main, <<Task!Step("review", "QA", "any")>>)
    BY <1>a, <2>1, <2>2, AtIs, ThenIs DEF Ended, StepOf, Task!Step
  <2>4. Task!CheckReview(Task!Main)
    BY <2>1, <2>3, GoesOn DEF Task!CheckReview, Task!given, WhenTrue
  <2> QED
    BY <2>4 DEF Task!StrandStep
<1>13. CASE AnswerAgain
  <2>1. ~Ended /\ ~Ended' /\ Left' = Left /\ UNCHANGED <<review, retried, open>>
    BY <1>0, <1>13 DEF AnswerAgain, Ended, Left, StepOf, Role, TypeOK, ClimbInv
  <2> QED
    BY <2>1, GoesOn, Unseen
<1>14. CASE Review
  <2>1. /\ at = "settled" /\ at' = "reviewed" /\ ~AskReview
        /\ retried' = (retried \/ (review /\ SaysNothing))
        /\ UNCHANGED <<review, ladder, flagged, valid, text, open>>
        /\ at # "raised" /\ at' # "raised" /\ Role' = Role
        /\ Result = "none" /\ Result' = "none"
    BY <1>14 DEF Review, Leave, Role, Result
  <2>2. /\ ForRole(Results, {})' = ForRole(Results, {})
        /\ ForRole(Result, "none")' = ForRole(Result, "none")
        /\ WhenTrue(open)' = WhenTrue(open)
    BY <2>1 DEF WhenTrue, ForRole, Results
  <2>3. Left' = <<StepOf("record", Role, Said)>> /\ Said' = Said
    BY <2>1 DEF Left, StepOf, Role, Said, Verdict, SaysNothing
  <2>4. /\ Said \in {"good", "silent", "fabricated"}
        /\ Task!Step("record", Role, Said) = StepOf("record", Role, Said)
        /\ review => (Said = "good" <=> ~SaysNothing)
    BY DEF Said, Verdict, SaysNothing, Task!Step, StepOf
  <2>5. CASE ~review
    <3>1. Left' = Left /\ retried' = retried
      BY <1>0, <2>1, <2>3, <2>5 DEF Left, Settled, StepOf, Said, Verdict, TypeOK, VerdictInv
    <3>2. ~Ended /\ ~Ended'
      BY <2>1 DEF Ended
    <3> QED
      BY <2>1, <3>1, <3>2, GoesOn, Unseen
  <2>6. CASE review /\ ladder = "review"
    <3>1. Left = <<StepOf("review", Role, "any")>> /\ Role = "QA"
      BY <1>a, <2>1, <2>6 DEF Left
    <3>2. /\ Task!At(Task!Main, "review")
          /\ Task!Then(Task!Main, <<Task!Step("record", "QA", Said)>>)
      BY <2>1, <2>3, <2>4, <3>1, AtIs, ThenIs
    <3>3. WhenTrue(retried)' = IF Said = "good" THEN WhenTrue(retried)
                               ELSE WhenTrue(retried) \cup {"QA"}
      BY <1>0, <2>1, <2>4, <2>6, <3>1 DEF WhenTrue, TypeOK
    <3>4. Task!RetryReview(Task!Main)
      BY <2>1, <2>2, <2>4, <3>2, <3>3 DEF Task!RetryReview, Task!given
    <3> QED
      BY <3>4 DEF Task!StrandStep
  <2>7. CASE review /\ ladder # "review"
    <3>1. Left = <<StepOf("qa", Role, Verdict)>> /\ Role = "QA"
      BY <1>a, <2>1, <2>7 DEF Left, Settled, StepOf
    <3>2. /\ Task!At(Task!Main, "qa") /\ Task!Top(Task!Main).as = Verdict
          /\ Task!Then(Task!Main, <<Task!Step("record", "QA", Said)>>)
      BY <2>1, <2>3, <2>4, <3>1, AtIs, ThenIs DEF StepOf
    <3>3. WhenTrue(retried)' = WhenTrue(retried)
      BY <1>0, <2>1, <2>7 DEF WhenTrue, TypeOK, AskReview
    <3>4. \/ Verdict = "good" /\ Said = "good"
          \/ /\ "QA" \in WhenTrue(retried)
             /\ Said = IF Verdict = "good" THEN "silent" ELSE "fabricated"
      BY <2>1, <2>7, <3>1 DEF WhenTrue, AskReview, SaysNothing, Said, Verdict
    <3>5. Task!CheckReview(Task!Main)
      BY <2>1, <2>2, <3>2, <3>3, <3>4 DEF Task!CheckReview, Task!given
    <3> QED
      BY <3>5 DEF Task!StrandStep
  <2> QED
    BY <1>a, <2>5, <2>6, <2>7
<1>15. CASE Record
  <2>1. /\ at = "reviewed" /\ at' = "recorded" /\ open' = (open \/ ~valid)
        /\ UNCHANGED <<review, ladder, flagged, valid, text, retried>>
        /\ at # "raised" /\ at' # "raised" /\ Role' = Role /\ Said' = Said
        /\ Result = "none" /\ Result' = Said /\ Said # "none"
    BY <1>15 DEF Record, Leave, Role, Result, Said, Verdict, SaysNothing
  <2>2. Left = <<StepOf("record", Role, Said)>> /\ Left' = << >>
    BY <2>1 DEF Left
  <2>3. /\ Task!At(Task!Main, "record") /\ Task!Then(Task!Main, << >>)
        /\ Task!Top(Task!Main).on = Role /\ Task!Top(Task!Main).as = Said
    BY <2>1, <2>2, AtIs, ThenIs DEF StepOf
  <2>4. /\ ForRole(Results, {})' = [ForRole(Results, {}) EXCEPT ![Role] = @ \cup {Said}]
        /\ ForRole(Result, "none")' = [ForRole(Result, "none") EXCEPT ![Role] = Said]
        /\ WhenTrue(retried)' = WhenTrue(retried)
    BY <1>a, <2>1 DEF ForRole, Results, WhenTrue
  <2>5. WhenTrue(open)' = IF Said = "fabricated" THEN WhenTrue(open) \cup {Role}
                          ELSE WhenTrue(open)
    BY <1>0, <2>1 DEF WhenTrue, Said, Verdict, TypeOK
  <2>6. Task!Record(Task!Main)
    BY <2>1, <2>3, <2>4, <2>5
    DEF Task!Record, Task!Keep, Task!Got, Task!NoteIssue, Task!given
  <2> QED
    BY <2>6 DEF Task!StrandStep
<1>16. CASE UNCHANGED vars
  <2>1. Left' = Left /\ Result' = Result
    BY <1>16 DEF vars, Left, Result, Role, Settled, Said, Verdict, SaysNothing
  <2> QED
    BY <1>16, <2>1, Unseen DEF vars
<1> QED
  BY <1>1, <1>2, <1>4, <1>5, <1>6, <1>7, <1>8, <1>9, <1>10, <1>11, <1>12, <1>13, <1>14,
     <1>15, <1>16
  DEF Next, TaskStep

\* validate_and_retry and what _run_task does with its verdicts come to what execute_plan
\* is modelled to take for granted: no step of the ladder is more, or less, than a step
\* of the task's strand, whatever texts come back and whatever other tasks retry.
THEOREM LadderIsATask == Spec => LadderIsTask
  BY Invariance, LadderStep, PTL DEF Spec, LadderIsTask

-----------------------------------------------------------------------------
\* What every list that is read, held or written back still holds of the searches
\* that were admitted alone.
RateInv ==
    /\ ConnectorTypeOK
    /\ IsFiniteSet(recent) /\ IsFiniteSet(admitted)
    /\ \A x \in admitted : now - x.at < Period => x \in recent
    /\ \A t \in InGuard :
         /\ IsFiniteSet(seen[t]) /\ ~Exhausted(seen[t])
         /\ \A x \in admitted : readAt[t] - x.at < Period => x \in seen[t]
         /\ readAt[t] <= now
         /\ alone[t] => InGuard = {t}
    /\ RateKept

\* Steps outside the guard, time's own included.
LEMMA OutsideTheGuard ==
  ASSUME RateInv, ConnectorTypeOK', now <= now', InGuard' = InGuard,
         UNCHANGED guardVars
  PROVE  RateInv'
<1> USE DEF guardVars
<1>1. /\ now \in Nat /\ now' \in Nat /\ Period \in Nat
      /\ \A x \in admitted : x.at \in Nat
      /\ \A t \in InGuard : readAt[t] \in Nat
  BY ConnectorAssumption DEF RateInv, ConnectorTypeOK, Search, InGuard, ConnectorAssumption
<1>2. \A x \in admitted : now' - x.at < Period => now - x.at < Period
  BY <1>1
<1>3. RateKept'
  BY DEF RateInv, RateKept
<1>4. \A t \in InGuard : readAt[t] <= now'
  BY <1>1 DEF RateInv
<1> QED
  BY <1>2, <1>3, <1>4 DEF RateInv, Exhausted

\* A thread enters the guard with the searches of the last period.
LEMMA ReadWindowKeeps ==
  ASSUME RateInv, NEW t \in Searchers, ReadWindow(t) PROVE RateInv'
<1>1. /\ now \in Nat /\ Period \in Nat /\ recent \subseteq Search
      /\ InPeriod(recent) \subseteq recent
      /\ seen \in [Searchers -> SUBSET Search] /\ alone \in [Searchers -> BOOLEAN]
      /\ readAt \in [Searchers -> 0 .. MaxTime] /\ now \in 0 .. MaxTime
      /\ searching \in [Searchers -> {"idle", "search", "admit", "request", "keep", "write"}]
      /\ InGuard \subseteq Searchers
  BY ConnectorAssumption DEF RateInv, ConnectorTypeOK, ConnectorAssumption, InPeriod, InGuard
<1>2. CASE Exhausted(InPeriod(recent))
  <2>1. ConnectorTypeOK' /\ InGuard' = InGuard /\ UNCHANGED guardVars /\ now' = now
    BY <1>1, <1>2 DEF ReadWindow, Goto, RateInv, ConnectorTypeOK, InGuard, guardVars
  <2> QED
    BY <1>1, <2>1, OutsideTheGuard
<1>3. CASE ~Exhausted(InPeriod(recent))
  <2>1. /\ seen' = [seen EXCEPT ![t] = InPeriod(recent)]
        /\ readAt' = [readAt EXCEPT ![t] = now]
        /\ searching' = [searching EXCEPT ![t] = "admit"]
        /\ searching[t] = "search"
        /\ alone' = [u \in Searchers |->
                        IF u = t THEN InGuard = {} ELSE alone[u] /\ u \notin InGuard]
        /\ UNCHANGED <<now, recent, admitted, cacheFile, offline, attempts, searched>>
    BY <1>3 DEF ReadWindow, Goto
  <2>2. ConnectorTypeOK'
    BY <1>1, <2>1 DEF RateInv, ConnectorTypeOK
  <2>3. InGuard' = InGuard \cup {t} /\ t \notin InGuard
    BY <1>1, <2>1 DEF InGuard
  <2>4. /\ IsFiniteSet(seen'[t]) /\ ~Exhausted(seen'[t]) /\ readAt'[t] = now
        /\ \A x \in admitted : readAt'[t] - x.at < Period => x \in seen'[t]
        /\ alone'[t] => InGuard' = {t}
    BY <1>1, <1>3, <2>1, <2>3, FS_Subset DEF RateInv, InPeriod, Exhausted
  <2>5. \A u \in InGuard : seen'[u] = seen[u] /\ readAt'[u] = readAt[u] /\ ~alone'[u]
    BY <1>1, <2>1, <2>3
  <2>6. RateKept'
    BY <2>1 DEF RateInv, RateKept
  <2>7. now <= now' /\ now' = now /\ recent' = recent /\ admitted' = admitted
    BY <1>1, <2>1
  <2>rest. ASSUME NEW u \in InGuard'
        PROVE  /\ IsFiniteSet(seen'[u]) /\ ~Exhausted(seen'[u])
               /\ \A x \in admitted' : readAt'[u] - x.at < Period => x \in seen'[u]
               /\ readAt'[u] <= now' /\ (alone'[u] => InGuard' = {u})
    BY <2>3, <2>4, <2>5, <2>7 DEF RateInv
  <2> QED
    BY <2>2, <2>6, <2>7, <2>rest DEF RateInv, Exhausted
<1> QED
  BY <1>2, <1>3

\* A thread that was alone in the guard held all that was admitted in the period before its
\* search, and fewer than the limit: whatever period the search falls into has room for it.
LEMMA WriteWindowKeeps ==
  ASSUME RateInv, NEW t \in Searchers, WriteWindow(t) PROVE RateInv'
<1> DEFINE InSpan(from) == {x \in admitted : x.at \in from .. from + Period - 1}
<1>1. /\ now \in Nat /\ Period \in Nat /\ SearchLimit \in Nat /\ MaxTime \in Nat
      /\ admitted \subseteq Search
      /\ \A x \in admitted : x.at \in Nat
      /\ seen \in [Searchers -> SUBSET Search]
      /\ readAt \in [Searchers -> 0 .. MaxTime] /\ readAt[t] \in Nat
      /\ searching \in [Searchers -> {"idle", "search", "admit", "request", "keep", "write"}]
      /\ t \in InGuard /\ SearchOf(t) \in Search /\ SearchOf(t).at = readAt[t]
  BY ConnectorAssumption
  DEF RateInv, ConnectorTypeOK, ConnectorAssumption, WriteWindow, Search, InGuard, SearchOf
<1>2. /\ recent' = seen[t] \cup {SearchOf(t)}
      /\ admitted' = IF alone[t] THEN admitted \cup {SearchOf(t)} ELSE admitted
      /\ searching' = [searching EXCEPT ![t] = "request"]
      /\ UNCHANGED <<now, cacheFile, offline, seen, readAt, attempts, searched, alone>>
  BY DEF WriteWindow, Goto
<1>3. ConnectorTypeOK'
  BY <1>1, <1>2 DEF RateInv, ConnectorTypeOK
<1>4. InGuard' = InGuard \ {t}
  BY <1>1, <1>2 DEF InGuard
<1>5. /\ IsFiniteSet(seen[t]) /\ Cardinality(seen[t]) \in Nat
      /\ Cardinality(seen[t]) < SearchLimit
      /\ IsFiniteSet(recent') /\ IsFiniteSet(admitted')
  <2>1. IsFiniteSet(seen[t]) /\ ~Exhausted(seen[t]) /\ IsFiniteSet(admitted)
    <3>1. t \in InGuard
      BY <1>1
    <3> QED
      BY <3>1 DEF RateInv
  <2>2. Cardinality(seen[t]) \in Nat /\ ~(Cardinality(seen[t]) >= SearchLimit)
    BY <2>1, FS_CardinalityType DEF Exhausted
  <2>3. /\ IsFiniteSet(seen[t] \cup {SearchOf(t)})
        /\ IsFiniteSet(admitted \cup {SearchOf(t)})
    BY <2>1, FS_AddElement
  <2>4. IsFiniteSet(recent') /\ IsFiniteSet(admitted')
    BY <1>2, <2>1, <2>3
  <2> QED
    BY <1>1, <2>1, <2>2, <2>4
<1>6. \A x \in admitted : now - x.at < Period => readAt[t] - x.at < Period
  BY <1>1 DEF RateInv
<1>7. \A x \in admitted' : now' - x.at < Period => x \in recent'
  BY <1>1, <1>2, <1>6 DEF RateInv
<1>8. ASSUME NEW u \in InGuard'
      PROVE  /\ IsFiniteSet(seen'[u]) /\ ~Exhausted(seen'[u])
             /\ \A x \in admitted' : readAt'[u] - x.at < Period => x \in seen'[u]
             /\ readAt'[u] <= now' /\ (alone'[u] => InGuard' = {u})
  BY <1>1, <1>2, <1>4, <1>8 DEF RateInv
<1>9. RateKept'
  <2>1. CASE ~alone[t]
    BY <1>2, <2>1 DEF RateInv, RateKept
  <2>2. CASE alone[t]
    <3> SUFFICES ASSUME NEW from \in 0 .. MaxTime
                 PROVE  Cardinality({x \in admitted' : x.at \in from .. from + Period - 1})
                            <= SearchLimit
      BY DEF RateKept
    <3>1. CASE readAt[t] \in from .. from + Period - 1
      <4>1. InSpan(from) \subseteq seen[t]
        <5>1. ASSUME NEW x \in InSpan(from) PROVE x \in seen[t]
          <6>1. readAt[t] - x.at < Period
            BY <1>1, <3>1
          <6> QED
            BY <1>1, <6>1 DEF RateInv
        <5> QED
          BY <5>1
      <4>2. /\ IsFiniteSet(InSpan(from)) /\ Cardinality(InSpan(from)) \in Nat
            /\ Cardinality(InSpan(from)) <= Cardinality(seen[t])
        BY <1>5, <4>1, FS_Subset, FS_CardinalityType
      <4>3. {x \in admitted' : x.at \in from .. from + Period - 1}
              = InSpan(from) \cup {SearchOf(t)}
        BY <1>1, <1>2, <2>2, <3>1
      <4>4. \/ Cardinality(InSpan(from) \cup {SearchOf(t)}) = Cardinality(InSpan(from))
            \/ Cardinality(InSpan(from) \cup {SearchOf(t)}) = Cardinality(InSpan(from)) + 1
        <5> HIDE DEF InSpan
        <5> QED
          BY <4>2, FS_AddElement
      <4>5. Cardinality(InSpan(from)) + 1 <= SearchLimit
        <5> HIDE DEF InSpan
        <5> QED
          BY <1>1, <1>5, <4>2
      <4>6. Cardinality(InSpan(from) \cup {SearchOf(t)}) <= SearchLimit
        <5> HIDE DEF InSpan
        <5> QED
          BY <1>1, <4>2, <4>4, <4>5
      <4> QED
        BY <4>3, <4>6
    <3>2. CASE readAt[t] \notin from .. from + Period - 1
      <4>1. {x \in admitted' : x.at \in from .. from + Period - 1} = InSpan(from)
        BY <1>1, <1>2, <2>2, <3>2
      <4> QED
        BY <4>1 DEF RateInv, RateKept
    <3> QED
      BY <3>1, <3>2
  <2> QED
    BY <2>1, <2>2
<1> QED
  BY <1>3, <1>5, <1>7, <1>8, <1>9 DEF RateInv

LEMMA RateStep == RateInv /\ [ConnectorNext]_connectorVars => RateInv'
<1> SUFFICES ASSUME RateInv, [ConnectorNext]_connectorVars PROVE RateInv'
  OBVIOUS
<1>1. ASSUME NEW t \in Searchers, ReadWindow(t) PROVE RateInv'
  BY <1>1, ReadWindowKeeps
<1>2. ASSUME NEW t \in Searchers, WriteWindow(t) PROVE RateInv'
  BY <1>2, WriteWindowKeeps
<1>3. ASSUME \/ Tick \/ Expire \/ UNCHANGED connectorVars
             \/ \E t \in Searchers :
                   \/ LookUp(t) \/ LoadFixture(t) \/ RequestFails(t) \/ SearchFails(t)
                   \/ Answered(t) \/ OpenCacheFile(t) \/ WriteCacheFile(t)
      PROVE  RateInv'
  <2>0. ConnectorTypeOK /\ {Period, MaxTime, MaxSearches} \subseteq Nat
    BY ConnectorAssumption DEF RateInv, ConnectorAssumption
  <2> USE DEF ConnectorTypeOK, InGuard, guardVars, Goto
  <2>1. CASE Tick
    BY <2>0, <2>1, OutsideTheGuard DEF Tick
  <2>2. CASE Expire
    BY <2>0, <2>2, OutsideTheGuard DEF Expire
  <2>3. CASE UNCHANGED connectorVars
    BY <2>0, <2>3, OutsideTheGuard DEF connectorVars
  <2>4. ASSUME NEW t \in Searchers, LookUp(t) PROVE RateInv'
    BY <2>0, <2>4, OutsideTheGuard DEF LookUp
  <2>5. ASSUME NEW t \in Searchers, LoadFixture(t) PROVE RateInv'
    BY <2>0, <2>5, OutsideTheGuard DEF LoadFixture
  <2>6. ASSUME NEW t \in Searchers, RequestFails(t) PROVE RateInv'
    BY <2>0, <2>6, OutsideTheGuard DEF RequestFails
  <2>7. ASSUME NEW t \in Searchers, SearchFails(t) \/ Answered(t) PROVE RateInv'
    BY <2>0, <2>7, OutsideTheGuard DEF SearchFails, Answered
  <2>rest. ASSUME NEW t \in Searchers, OpenCacheFile(t) \/ WriteCacheFile(t) PROVE RateInv'
    BY <2>0, <2>rest, OutsideTheGuard DEF OpenCacheFile, WriteCacheFile
  <2> QED
    BY <1>3, <2>1, <2>2, <2>3, <2>4, <2>5, <2>6, <2>7, <2>rest
<1> QED
  BY <1>1, <1>2, <1>3 DEF ConnectorNext

LEMMA RateStart == ConnectorInit => RateInv
<1> SUFFICES ASSUME ConnectorInit PROVE RateInv
  OBVIOUS
<1>1. recent = {} /\ admitted = {} /\ InGuard = {} /\ ConnectorTypeOK
  BY ConnectorAssumption DEF ConnectorInit, InGuard, ConnectorTypeOK, ConnectorAssumption
<1>2. RateKept
  <2>1. \A from : {x \in admitted : x.at \in from .. from + Period - 1} = {}
    BY <1>1
  <2> QED
    BY <2>1, FS_EmptySet, ConnectorAssumption DEF RateKept, ConnectorAssumption
<1> QED
  BY <1>1, <1>2, FS_EmptySet DEF RateInv

\* For any number of threads, any limit and any period, searches whose passage through the
\* guard overlapped no other keep the limit in every period (ratelimit_guard, commons.py:17).
THEOREM RateIsKept == ConnectorSpec => []RateKept
<1>1. RateInv => RateKept
  BY DEF RateInv
<1> QED
  BY <1>1, RateStart, RateStep, PTL DEF ConnectorSpec
-----------------------------------------------------------------------------
\* The interface that is taken is the first that the agent has.
LEMMA FirstOfTwo ==
  ASSUME NEW a, NEW x, NEW y, x \in DOMAIN AGENT_REGISTRY[a]
  PROVE  FirstOf(a, <<x, y>>) = AGENT_REGISTRY[a][x]
<1> DEFINE attrs == <<x, y>>
           IsFirst(k) == /\ attrs[k] \in DOMAIN AGENT_REGISTRY[a]
                         /\ \A j \in 1 .. k - 1 : attrs[j] \notin DOMAIN AGENT_REGISTRY[a]
<1>1. DOMAIN attrs = 1 .. 2 /\ attrs[1] = x
  OBVIOUS
<1>2. \A k \in DOMAIN attrs : IsFirst(k) <=> k = 1
  BY <1>1
<1>3. (CHOOSE k \in DOMAIN attrs : IsFirst(k)) = 1
  BY <1>1, <1>2
<1> QED
  BY <1>1, <1>3 DEF FirstOf

LEMMA FirstOfThree ==
  ASSUME NEW a, NEW x, NEW y, NEW z
  PROVE  LET has == DOMAIN AGENT_REGISTRY[a]
             first == FirstOf(a, <<x, y, z>>)
         IN  /\ x \in has => first = AGENT_REGISTRY[a][x]
             /\ x \notin has /\ y \in has => first = AGENT_REGISTRY[a][y]
             /\ x \notin has /\ y \notin has /\ z \in has => first = AGENT_REGISTRY[a][z]
<1> DEFINE attrs == <<x, y, z>>
           has == DOMAIN AGENT_REGISTRY[a]
           IsFirst(k) == attrs[k] \in has /\ \A j \in 1 .. k - 1 : attrs[j] \notin has
<1>1. DOMAIN attrs = 1 .. 3 /\ attrs[1] = x /\ attrs[2] = y /\ attrs[3] = z
  OBVIOUS
<1> HIDE DEF attrs
<1>2. CASE x \in has
  <2>1. \A k \in DOMAIN attrs : IsFirst(k) <=> k = 1
    BY <1>1, <1>2
  <2>2. (CHOOSE k \in DOMAIN attrs : IsFirst(k)) = 1
    BY <1>1, <2>1
  <2> QED
    BY <1>1, <1>2, <2>2 DEF FirstOf, attrs
<1>3. CASE x \notin has /\ y \in has
  <2>1. \A k \in DOMAIN attrs : IsFirst(k) <=> k = 2
    BY <1>1, <1>3
  <2>2. (CHOOSE k \in DOMAIN attrs : IsFirst(k)) = 2
    BY <1>1, <2>1
  <2> QED
    BY <1>1, <1>3, <2>2 DEF FirstOf, attrs
<1>4. CASE x \notin has /\ y \notin has /\ z \in has
  <2>1. \A k \in DOMAIN attrs : IsFirst(k) <=> k = 3
    BY <1>1, <1>4
  <2>2. (CHOOSE k \in DOMAIN attrs : IsFirst(k)) = 3
    BY <1>1, <2>1
  <2> QED
    BY <1>1, <1>4, <2>2 DEF FirstOf, attrs
<1> QED
  BY <1>2, <1>3, <1>4

LEMMA NameOfPair == \A name, to : <<name, to>>[1] = name
  OBVIOUS

\* No table gives a registered role another name, and a router's answer is registered.
LEMMA RouteIsRegistered ==
  /\ \A name : Route(name) \in Registered
  /\ \A r \in Registered : Route(r) = r
<1>1. Specialist \in Registered
  BY DEF Registered
<1>2. ASSUME NEW r \in Registered
      PROVE  /\ Over(ALIASES, r) = r /\ Over(CANONICAL, r) = r /\ Over(ROLE_SYNONYMS, r) = r
  <2>1. \A p \in ALIASES : p[1] # r
    <3>1. \A p \in ALIASES :
             p[1] \in {"Software Engineer", "Product Designer", "Quality Assurance", "qa_lead",
                      "dev_ops"}
      BY NameOfPair, Zenon DEF ALIASES
    <3> QED
      BY <3>1 DEF Registered, OnPrompt, Specialist
  <2>2. \A p \in CANONICAL : p[1] # r
    <3>1. \A p \in CANONICAL :
             p[1] \in {"Mechanical Engineer", "Software Engineer", "Human Resources"}
      BY NameOfPair, Zenon DEF CANONICAL
    <3> QED
      BY <3>1 DEF Registered, OnPrompt, Specialist
  <2>3. \A p \in ROLE_SYNONYMS : p[1] # r
    <3>1. \A p \in ROLE_SYNONYMS : p[1] \in {"Project Manager", "Risk Manager", "Marketing"}
      BY NameOfPair, Zenon DEF ROLE_SYNONYMS
    <3> QED
      BY <3>1 DEF Registered, OnPrompt, Specialist
  <2> QED
    BY <2>1, <2>2, <2>3 DEF Over
<1> QED
  BY <1>1, <1>2 DEF Route

\* Whatever execute_plan calls is given the arguments it asks for, but for the agents that
\* take the answers of others.
LEMMA InterfaceTakesFillable ==
  ASSUME NEW r \in Registered \ {"Synthesizer", "Evaluation"}
  PROVE  LET sig == FirstOf(r, <<"call", "run", "act">>)
         IN  Takes(sig, sig.params \cap Fillable)
<1> DEFINE sig == FirstOf(r, <<"call", "run", "act">>)
<1>1. CASE r \in OnPrompt
  <2>1. AGENT_REGISTRY[r] = Prompted
    BY <1>1 DEF AGENT_REGISTRY, Registered, OnPrompt, Specialist
  <2>2. sig = RunOnIdea
    BY <2>1, FirstOfThree DEF Prompted
  <2> QED
    BY <2>2 DEF RunOnIdea, Signature, Takes, Fillable, TaskLike
<1>2. CASE r = "CTO"
  <2>1. AGENT_REGISTRY[r] = [act |-> ActOnIdea]
    BY <1>2 DEF AGENT_REGISTRY, Registered, OnPrompt, Specialist
  <2>2. sig = ActOnIdea
    BY <2>1, FirstOfThree
  <2> QED
    BY <2>2 DEF ActOnIdea, Signature, Takes, Fillable, TaskLike
<1>3. CASE r \in {"Research Scientist", "Materials Engineer"}
  <2>1. "call" \in DOMAIN AGENT_REGISTRY[r] /\ AGENT_REGISTRY[r]["call"] = ByCall
    BY <1>3 DEF AGENT_REGISTRY, Registered, OnPrompt, Specialist
  <2>2. sig = ByCall
    BY <2>1, FirstOfThree
  <2> QED
    BY <2>2 DEF ByCall, Signature, Takes, Fillable, TaskLike
<1>4. CASE r \in {"QA", "Simulation", Specialist}
  <2>1. /\ DOMAIN AGENT_REGISTRY[r] = {"run"}
        /\ Takes(AGENT_REGISTRY[r]["run"], AGENT_REGISTRY[r]["run"].params \cap Fillable)
    BY <1>4
    DEF AGENT_REGISTRY, Registered, OnPrompt, Specialist, Signature, Takes, Fillable, TaskLike
  <2>2. sig = AGENT_REGISTRY[r]["run"]
    BY <2>1, FirstOfThree
  <2> QED
    BY <2>1, <2>2
<1> QED
  BY <1>1, <1>2, <1>3, <1>4 DEF Registered

\* The Dynamic Specialist asks for an argument that no keyword gives.
LEMMA SpecialistUncallable == \A args \in SUBSET Keywords : ~Takes(Invoked(Specialist), args)
<1>1. /\ DOMAIN AGENT_REGISTRY[Specialist] = {"run"}
      /\ AGENT_REGISTRY[Specialist]["run"].required = {"spec"}
  BY DEF AGENT_REGISTRY, Registered, OnPrompt, Specialist, Signature
<1>2. Invoked(Specialist) = AGENT_REGISTRY[Specialist]["run"]
  BY <1>1, FirstOfTwo DEF Invoked
<1> QED
  BY <1>1, <1>2 DEF Takes, Keywords

\* A routed role is registered; the graph calls its agent or the Dynamic Specialist; and no
\* agent has run before a task that execute_plan routed is called.
RoutingInv ==
    /\ callPath \in {"plan", "graph"}
    /\ routing \in {"planned", "named", "routed", "invoke", "accepted", "answered", "raised"}
    /\ routing \notin {"planned", "named"} => role \in Registered
    /\ routing \in {"invoke", "accepted"} => callPath = "graph" /\ agent \in {role, Specialist}
    /\ routing \in {"planned", "named", "routed"} => ran = <<>>
    /\ routing # "answered" => answeredBy = {}
    /\ RoleAnswers

LEMMA RoutingStep == RoutingInv /\ [RoutingNext]_routingVars => RoutingInv'
<1> SUFFICES ASSUME RoutingInv, [RoutingNext]_routingVars PROVE RoutingInv'
  OBVIOUS
<1> USE DEF RoutingInv, RoleAnswers
<1>1. CASE Normalise
  BY <1>1 DEF Normalise
<1>2. CASE RouteTask
  BY <1>2, RouteIsRegistered DEF RouteTask
<1>3. CASE InvokeSafely
  <2> DEFINE sig == FirstOf(role, <<"call", "run", "act">>)
  <2>1. CASE Takes(sig, sig.params \cap Fillable)
    <3>1. ran' = <<role>> /\ role' = role /\ callPath' = callPath
      BY <1>3, <2>1 DEF InvokeSafely, AnswerBy, Runs
    <3>2. answeredBy' \subseteq {role} /\ routing' \in {"answered", "raised"}
          /\ (routing' # "answered" => answeredBy' = {})
      BY <1>3, <2>1 DEF InvokeSafely, AnswerBy, Runs
    <3> QED
      BY <1>3, <3>1, <3>2 DEF InvokeSafely
  <2>2. CASE ~Takes(sig, sig.params \cap Fillable)
    <3>1. role \in {"Synthesizer", "Evaluation"}
      BY <1>3, <2>2, InterfaceTakesFillable DEF InvokeSafely
    <3> QED
      BY <1>3, <2>2, <3>1 DEF InvokeSafely
  <2> QED
    BY <2>1, <2>2
<1>4. CASE Dispatch
  BY <1>4, RouteIsRegistered DEF Dispatch
<1>5. CASE Uncallable
  BY <1>5 DEF Uncallable, FallBack
<1>6. ASSUME NEW first \in BOOLEAN, Invoke(first) PROVE RoutingInv'
  <2> DEFINE args == IF first THEN Keywords ELSE Keywords \cap Invoked(agent).params
  <2>1. /\ routing \in {"invoke", "accepted"} /\ callPath = "graph" /\ role \in Registered
        /\ callPath' = callPath /\ role' = role /\ args \in SUBSET Keywords
    BY <1>6 DEF Invoke
  <2>2. CASE Takes(Invoked(agent), args)
    <3>1. agent = role
      BY <2>1, <2>2, SpecialistUncallable
    <3> QED
      BY <1>6, <2>1, <3>1 DEF Invoke, AnswerBy, Runs, FallBack
  <2>3. CASE ~Takes(Invoked(agent), args)
    BY <1>6, <2>1, <2>3 DEF Invoke, FallBack
  <2> QED
    BY <2>2, <2>3
<1>7. CASE UNCHANGED routingVars
  BY <1>7 DEF routingVars
<1> QED
  BY <1>1, <1>2, <1>3, <1>4, <1>5, <1>6, <1>7 DEF RoutingNext

\* Whatever name a plan gives a role, execute_plan's agent for it runs once, but for the two
\* that take the answers of others, and by either way nobody else answers for it
\* (invoke_agent_safely, runtime.py:51; dispatch, router.py:245).
THEOREM RoleIsAnswered == RoutingSpec => []RoleAnswers
<1>1. RoutingInit => RoutingInv
  BY DEF RoutingInit, RoutingInv, RoleAnswers
<1>2. RoutingInv => RoleAnswers
  BY DEF RoutingInv
<1> QED
  BY <1>1, <1>2, RoutingStep, PTL DEF RoutingSpec

-----------------------------------------------------------------------------
\* Counting the members of a set of numbers up to each gives every number up to their count.
LEMMA PlacesAreCounted ==
  ASSUME NEW room \in SUBSET Nat, IsFiniteSet(room)
  PROVE  \A k \in 1 .. Cardinality(room) :
            \E i \in room : Cardinality({j \in room : j <= i}) = k
<1> DEFINE Upto(i) == {j \in room : j <= i}
           f == [i \in room |-> Cardinality(Upto(i))]
<1>1. ASSUME NEW i \in room
      PROVE  /\ IsFiniteSet(Upto(i)) /\ Cardinality(Upto(i)) \in 1 .. Cardinality(room)
  <2>1. Upto(i) \in SUBSET room /\ i \in Upto(i)
    OBVIOUS
  <2>2. /\ IsFiniteSet(Upto(i)) /\ Cardinality(Upto(i)) <= Cardinality(room)
        /\ Cardinality(Upto(i)) \in Nat /\ Cardinality(Upto(i)) # 0 /\ Cardinality(room) \in Nat
    BY <2>1, FS_Subset, FS_CardinalityType, FS_EmptySet
  <2> HIDE DEF Upto
  <2> QED
    BY <2>2
<1>2. ASSUME NEW i \in room, NEW j \in room, i < j
      PROVE  Cardinality(Upto(i)) # Cardinality(Upto(j))
  <2>1. i \in Nat /\ j \in Nat /\ \A k \in room : k \in Nat
    OBVIOUS
  <2>2. /\ \A k \in room : k <= i => k <= j
        /\ j <= j /\ ~ (j <= i)
    BY <1>2, <2>1
  <2>3. Upto(i) \in SUBSET Upto(j) /\ j \in Upto(j) /\ j \notin Upto(i)
    BY <2>2
  <2> HIDE DEF Upto
  <2> QED
    BY <1>1, <2>3, FS_Subset
<1>3. ASSUME NEW i \in room, NEW j \in room, i # j
      PROVE  Cardinality(Upto(i)) # Cardinality(Upto(j))
  <2>1. i < j \/ j < i
    BY <1>3
  <2> HIDE DEF Upto
  <2> QED
    BY <1>2, <2>1
<1>4. f \in Injection(room, 1 .. Cardinality(room))
  <2> HIDE DEF Upto
  <2>1. f \in [room -> 1 .. Cardinality(room)]
    BY <1>1
  <2>2. \A i, j \in room : f[i] = f[j] => i = j
    BY <1>3
  <2> HIDE DEF f
  <2> QED
    BY <2>1, <2>2 DEF Injection, IsInjective
<1>5. Cardinality(room) \in Nat /\ IsFiniteSet(1 .. Cardinality(room))
      /\ Cardinality(1 .. Cardinality(room)) = Cardinality(room)
  <2>1. Cardinality(room) \in Nat
    BY FS_CardinalityType
  <2> QED
    BY <2>1, FS_Interval
<1>6. f \in Surjection(room, 1 .. Cardinality(room))
  BY <1>4, <1>5, FS_Injection
<1> QED
  BY <1>6 DEF Surjection

\* Models in a row, none of them twice.
Row(models) ==
    /\ models \in Seq(ModelNames)
    /\ \A i, j \in DOMAIN models : models[i] = models[j] => i = j

\* What is left of a row is a row, of its models that have room.
LEMMA FittingIsRow ==
  ASSUME NEW models, Row(models)
  PROVE  /\ Row(Fitting(models))
         /\ \A k \in DOMAIN Fitting(models) :
               /\ Models[Fitting(models)[k]].ctx >= size
               /\ \E i \in DOMAIN models : Fitting(models)[k] = models[i]
<1> DEFINE room == {i \in DOMAIN models : Models[models[i]].ctx >= size}
           Place(i) == Cardinality({j \in room : j <= i})
           Chosen(k) == CHOOSE i \in room : Place(i) = k
           n == Cardinality(room)
<1>1. /\ Len(models) \in Nat /\ DOMAIN models = 1 .. Len(models)
      /\ \A i \in DOMAIN models : models[i] \in ModelNames
  BY DEF Row
<1>2. room \in SUBSET Nat /\ IsFiniteSet(room) /\ n \in Nat
  <2>1. IsFiniteSet(1 .. Len(models)) /\ room \in SUBSET (1 .. Len(models))
    BY <1>1, FS_Interval
  <2>2. room \in SUBSET Nat
    BY <1>1
  <2> HIDE DEF room
  <2>3. IsFiniteSet(room)
    BY <2>1, FS_Subset
  <2> QED
    BY <2>2, <2>3, FS_CardinalityType
<1>3. \A k \in 1 .. n : Chosen(k) \in room /\ Place(Chosen(k)) = k
  <2> HIDE DEF room
  <2>1. \A k \in 1 .. n : \E i \in room : Place(i) = k
    BY <1>2, PlacesAreCounted
  <2> HIDE DEF Place, n
  <2> QED
    BY <2>1
<1>4. Fitting(models) = [k \in 1 .. n |-> models[Chosen(k)]]
  BY DEF Fitting
<1>5. \A k \in 1 .. n : Chosen(k) \in DOMAIN models /\ Models[models[Chosen(k)]].ctx >= size
  <2>1. \A i \in room : i \in DOMAIN models /\ Models[models[i]].ctx >= size
    OBVIOUS
  <2> HIDE DEF room, Chosen
  <2> QED
    BY <1>3, <2>1
<1> HIDE DEF Chosen, Place, n
<1>6. Fitting(models) \in Seq(ModelNames) /\ DOMAIN Fitting(models) = 1 .. n
  BY <1>1, <1>2, <1>4, <1>5
<1>7. \A k, l \in 1 .. n : Fitting(models)[k] = Fitting(models)[l] => k = l
  <2> TAKE k, l \in 1 .. n
  <2> HAVE Fitting(models)[k] = Fitting(models)[l]
  <2>1. Chosen(k) = Chosen(l)
    BY <1>4, <1>5 DEF Row
  <2> QED
    BY <1>3, <2>1
<1> QED
  BY <1>4, <1>5, <1>6, <1>7 DEF Row

\* Two rows without a model in common.
Apart(a, b) == \A i \in DOMAIN a, j \in DOMAIN b : a[i] # b[j]

\* What a purpose or a role names as preferred and as backups are rows without a model in common.
LEMMA CandidatesAreRows ==
  ASSUME NEW aim \in {"plan", "exec", "synth"}, NEW role_
  PROVE  LET c == ListCandidates(aim, role_)
         IN  Row(c.preferred) /\ Row(c.backups) /\ Apart(c.preferred, c.backups)
<1> DEFINE Separate(c) == Row(c.preferred) /\ Row(c.backups) /\ Apart(c.preferred, c.backups)
<1>1. ASSUME NEW x \in ModelNames, NEW y \in ModelNames, x # y
      PROVE  Row(<< >>) /\ Row(<<x>>) /\ Row(<<x, y>>)
  BY <1>1 DEF Row
<1>2. ASSUME NEW x \in ModelNames, NEW y \in ModelNames, NEW z \in ModelNames,
             x # y, y # z, x # z
      PROVE  /\ Separate(Candidates(<<x>>, <<y>>)) /\ Separate(Candidates(<<x, y>>, << >>))
             /\ Separate(Candidates(<<x, y>>, <<z>>))
  <2>1. Row(<< >>) /\ Row(<<x>>) /\ Row(<<y>>) /\ Row(<<z>>) /\ Row(<<x, y>>)
    BY <1>1, <1>2
  <2>2. /\ \A i \in DOMAIN <<x>>, j \in DOMAIN <<y>> : <<x>>[i] # <<y>>[j]
        /\ \A i \in DOMAIN <<x, y>>, j \in DOMAIN << >> : <<x, y>>[i] # << >>[j]
        /\ \A i \in DOMAIN <<x, y>>, j \in DOMAIN <<z>> : <<x, y>>[i] # <<z>>[j]
    BY <1>2
  <2> QED
    BY <2>1, <2>2 DEF Candidates, Apart
<1> HIDE DEF Separate
<1>3. \A p \in {"plan", "exec", "synth"} : Separate(Defaults[p])
  BY <1>2 DEF Defaults, ModelNames
<1>4. \A r \in DOMAIN Role_overrides : Separate(Role_overrides[r])
  BY <1>2 DEF Role_overrides, ModelNames
<1> QED
  BY <1>3, <1>4 DEF ListCandidates, Separate

LEMMA RowsJoin ==
  ASSUME NEW a, NEW b, Row(a), Row(b), Apart(a, b)
  PROVE  /\ Row(a \o b)
         /\ \A k \in DOMAIN (a \o b) : \/ \E i \in DOMAIN a : (a \o b)[k] = a[i]
                                       \/ \E j \in DOMAIN b : (a \o b)[k] = b[j]
<1> USE DEF Apart
<1>1. /\ a \o b \in Seq(ModelNames) /\ Len(a) \in Nat /\ Len(b) \in Nat
      /\ DOMAIN a = 1 .. Len(a) /\ DOMAIN b = 1 .. Len(b)
      /\ DOMAIN (a \o b) = 1 .. Len(a) + Len(b)
      /\ \A k \in DOMAIN a : (a \o b)[k] = a[k]
      /\ \A k \in DOMAIN (a \o b) \ DOMAIN a : (a \o b)[k] = b[k - Len(a)]
  BY DEF Row
<1>2. \A k \in DOMAIN (a \o b) \ DOMAIN a : \E j \in DOMAIN b : k = Len(a) + j
  <2> TAKE k \in DOMAIN (a \o b) \ DOMAIN a
  <2>1. k - Len(a) \in DOMAIN b /\ k = Len(a) + (k - Len(a))
    BY <1>1
  <2> QED
    BY <2>1
<1>3. \A j \in DOMAIN b : (a \o b)[Len(a) + j] = b[j]
  <2> TAKE j \in DOMAIN b
  <2>1. Len(a) + j \in DOMAIN (a \o b) \ DOMAIN a /\ Len(a) + j - Len(a) = j
    BY <1>1
  <2> QED
    BY <1>1, <2>1
<1>4. ASSUME NEW k \in DOMAIN (a \o b), NEW l \in DOMAIN (a \o b), (a \o b)[k] = (a \o b)[l]
      PROVE  k = l
  <2>1. CASE k \in DOMAIN a /\ l \in DOMAIN a
    BY <1>1, <1>4, <2>1 DEF Row
  <2>2. CASE k \in DOMAIN a /\ l \notin DOMAIN a
    BY <1>1, <1>2, <1>3, <1>4, <2>2
  <2>3. CASE k \notin DOMAIN a /\ l \in DOMAIN a
    BY <1>1, <1>2, <1>3, <1>4, <2>3
  <2>4. CASE k \notin DOMAIN a /\ l \notin DOMAIN a
    <3>1. PICK i \in DOMAIN b : k = Len(a) + i
      BY <1>2, <2>4
    <3>2. PICK j \in DOMAIN b : l = Len(a) + j
      BY <1>2, <2>4
    <3>3. b[i] = b[j]
      BY <1>3, <1>4, <3>1, <3>2
    <3> QED
      BY <3>1, <3>2, <3>3 DEF Row
  <2> QED
    BY <2>1, <2>2, <2>3, <2>4
<1> QED
  BY <1>1, <1>2, <1>3, <1>4 DEF Row

\* Models that have room.
Roomy(d) == \A i \in DOMAIN d : Models[d[i]].ctx >= size

LEMMA ByRoomIsRow ==
  ASSUME NEW aim \in {"plan", "exec", "synth"}, NEW role_
  PROVE  LET d == ByRoom(ListCandidates(aim, role_)) IN Row(d) /\ Roomy(d)
<1> DEFINE c == ListCandidates(aim, role_)
           a == Fitting(c.preferred)
           b == Fitting(c.backups)
<1>1. Row(c.preferred) /\ Row(c.backups) /\ Apart(c.preferred, c.backups)
  BY CandidatesAreRows
<1> HIDE DEF c
<1>2. /\ Row(a) /\ Roomy(a)
      /\ \A k \in DOMAIN a : \E i \in DOMAIN c.preferred : a[k] = c.preferred[i]
  BY <1>1, FittingIsRow DEF Roomy
<1>3. /\ Row(b) /\ Roomy(b)
      /\ \A k \in DOMAIN b : \E i \in DOMAIN c.backups : b[k] = c.backups[i]
  BY <1>1, FittingIsRow DEF Roomy
<1>4. Apart(a, b)
  BY <1>1, <1>2, <1>3 DEF Apart
<1>5. ByRoom(c) = a \o b
  BY DEF ByRoom
<1> HIDE DEF a, b
<1>6. Row(a \o b) /\ Roomy(a \o b)
  <2>1. /\ Row(a \o b)
        /\ \A k \in DOMAIN (a \o b) : \/ \E i \in DOMAIN a : (a \o b)[k] = a[i]
                                      \/ \E j \in DOMAIN b : (a \o b)[k] = b[j]
    BY <1>2, <1>3, <1>4, RowsJoin
  <2> QED
    BY <1>2, <1>3, <2>1 DEF Roomy
<1> QED
  BY <1>5, <1>6 DEF c

\* The models of a provider have one context, the cheapest for a purpose too.
LEMMA CheapestHasRoom ==
  ASSUME NEW m \in ModelNames, NEW aim, OfProvider(m, aim) # {}
  PROVE  LET cheaper == CHOOSE n \in OfProvider(m, aim) :
                           \A o \in OfProvider(m, aim) : Models[n].price <= Models[o].price
         IN  cheaper \in ModelNames /\ Models[cheaper].ctx = Models[m].ctx
<1>1. /\ DOMAIN Models = ModelNames
      /\ Models["gpt-4.1-mini"].price = 150 /\ Models["gpt-4o"].price = 500
      /\ Models["gemini-1.5-pro"].price = 1250 /\ Models["claude-3-5-sonnet"].price = 3000
  BY DEF Models, ModelNames, ModelSpecOf
<1>2. /\ Models["gpt-4.1-mini"].provider = "openai" /\ Models["gpt-4.1-mini"].ctx = 128000
      /\ Models["gpt-4o"].provider = "openai" /\ Models["gpt-4o"].ctx = 128000
      /\ Models["gemini-1.5-pro"].provider = "google"
      /\ Models["claude-3-5-sonnet"].provider = "anthropic"
  BY DEF Models, ModelNames, ModelSpecOf
<1> DEFINE S == OfProvider(m, aim)
<1>3. S \subseteq ModelNames
  BY <1>1 DEF OfProvider
<1>4. \A n \in S : Models[n].ctx = Models[m].ctx
  BY <1>1, <1>2 DEF OfProvider, ModelNames
<1>5. S # {}
  OBVIOUS
<1> HIDE DEF S
<1>6. \E n \in S : \A o \in S : Models[n].price <= Models[o].price
  <2>0. \A n \in S : n \in ModelNames
    BY <1>3
  <2>1. \A n \in S :
           \/ n = "gpt-4.1-mini" /\ Models[n].price = 150
           \/ n = "gpt-4o" /\ Models[n].price = 500
           \/ n = "gemini-1.5-pro" /\ Models[n].price = 1250
           \/ n = "claude-3-5-sonnet" /\ Models[n].price = 3000
    <3> TAKE n \in S
    <3>1. \/ n = "gpt-4.1-mini" \/ n = "gpt-4o" \/ n = "gemini-1.5-pro"
          \/ n = "claude-3-5-sonnet"
      BY <2>0 DEF ModelNames
    <3>2. CASE n = "gpt-4.1-mini"
      BY <1>1, <3>2
    <3>3. CASE n = "gpt-4o"
      BY <1>1, <3>3
    <3>4. CASE n = "gemini-1.5-pro"
      BY <1>1, <3>4
    <3>5. CASE n = "claude-3-5-sonnet"
      BY <1>1, <3>5
    <3> QED
      BY <3>1, <3>2, <3>3, <3>4, <3>5
  <2>2. CASE "gpt-4.1-mini" \in S
    BY <1>1, <2>1, <2>2
  <2>3. CASE "gpt-4.1-mini" \notin S /\ "gpt-4o" \in S
    BY <1>1, <2>1, <2>3
  <2>4. CASE "gpt-4.1-mini" \notin S /\ "gpt-4o" \notin S /\ "gemini-1.5-pro" \in S
    BY <1>1, <2>1, <2>4
  <2>5. CASE "gpt-4.1-mini" \notin S /\ "gpt-4o" \notin S /\ "gemini-1.5-pro" \notin S
    BY <1>1, <1>5, <2>1, <2>5
  <2> QED
    BY <2>2, <2>3, <2>4, <2>5
<1> QED
  BY <1>3, <1>4, <1>6 DEF S

\* What a decision may be: models that have room, the first two different.
Decision(d) == /\ d \in Seq(ModelNames) /\ d # << >> /\ Roomy(d)
               /\ Len(d) > 1 => d[1] # d[2]

LEMMA DownshiftKeepsRoom ==
  ASSUME NEW d, NEW aim, Row(d), Roomy(d), d # << >>, OfProvider(d[1], aim) # {},
         size \in Nat
  PROVE  Decision(Downshift(d, aim))
<1> DEFINE cheaper == CHOOSE n \in OfProvider(d[1], aim) :
                        \A o \in OfProvider(d[1], aim) : Models[n].price <= Models[o].price
<1>1. /\ d \in Seq(ModelNames) /\ Len(d) \in Nat \ {0} /\ DOMAIN d = 1 .. Len(d)
      /\ d[1] \in ModelNames /\ 1 \in DOMAIN d
  BY DEF Row
<1>2. cheaper \in ModelNames /\ Models[cheaper].ctx >= size
  <2>1. cheaper \in ModelNames /\ Models[cheaper].ctx = Models[d[1]].ctx
    BY <1>1, CheapestHasRoom
  <2> QED
    BY <1>1, <2>1 DEF Roomy
<1>3. Downshift(d, aim) = IF cheaper = d[1] THEN d ELSE <<cheaper>> \o d
  BY DEF Downshift
<1> HIDE DEF cheaper
<1>4. CASE cheaper = d[1]
  BY <1>1, <1>3, <1>4 DEF Decision, Row
<1>5. CASE cheaper # d[1]
  <2> DEFINE e == <<cheaper>> \o d
  <2>1. /\ e \in Seq(ModelNames) /\ Len(e) = Len(d) + 1 /\ e[1] = cheaper /\ e[2] = d[1]
        /\ \A i \in DOMAIN e \ {1} : i - 1 \in DOMAIN d /\ e[i] = d[i - 1]
    BY <1>1, <1>2
  <2>2. Roomy(e) /\ e # << >>
    BY <1>1, <1>2, <2>1 DEF Roomy
  <2> HIDE DEF e
  <2>3. Decision(e)
    BY <1>5, <2>1, <2>2 DEF Decision
  <2> QED
    BY <1>3, <1>5, <2>3 DEF e
<1> QED
  BY <1>4, <1>5

LEMMA ProbesAreDecisions == ASSUME NEW d, Decision(d) PROVE \A e \in Probes(d) : Decision(e)
<1>1. CASE Len(d) > 1
  <2>1. /\ d \in Seq(ModelNames) /\ Len(d) \in Nat /\ DOMAIN d = 1 .. Len(d)
        /\ d[1] \in ModelNames /\ d[2] \in ModelNames
    BY <1>1 DEF Decision
  <2> DEFINE rest == SubSeq(d, 3, Len(d))
             e == <<d[2], d[1]>> \o rest
  <2>rest. /\ rest \in Seq(ModelNames) /\ Len(rest) = Len(d) - 2
        /\ \A i \in 1 .. Len(d) - 2 : rest[i] = d[i + 2]
    <3>1. /\ 3 \in 1 .. Len(d) + 1 /\ Len(d) \in 3 - 1 .. Len(d)
          /\ Len(d) - 3 + 1 = Len(d) - 2
          /\ \A i \in 1 .. Len(d) - 2 : 3 + i - 1 = i + 2
      BY <1>1, <2>1
    <3> QED
      BY <2>1, <3>1, SubSeqProperties
  <2>2. /\ e \in Seq(ModelNames) /\ Len(e) = Len(d) /\ e[1] = d[2] /\ e[2] = d[1]
        /\ \A i \in 3 .. Len(d) : e[i] = rest[i - 2]
    <3>1. /\ <<d[2], d[1]>> \in Seq(ModelNames) /\ Len(<<d[2], d[1]>>) = 2
          /\ <<d[2], d[1]>>[1] = d[2] /\ <<d[2], d[1]>>[2] = d[1]
      BY <2>1
    <3> HIDE DEF rest
    <3> QED
      <4>1. /\ e \in Seq(ModelNames) /\ Len(e) = 2 + Len(rest)
            /\ \A i \in 1 .. 2 + Len(rest) :
                  e[i] = IF i <= 2 THEN <<d[2], d[1]>>[i] ELSE rest[i - 2]
        BY <2>rest, <3>1, ConcatProperties
      <4> HIDE DEF e
      <4>2. 2 + Len(rest) = Len(d) /\ 1 \in 1 .. Len(d) /\ 2 \in 1 .. Len(d)
        BY <1>1, <2>1, <2>rest
      <4>3. e[1] = d[2] /\ e[2] = d[1]
        BY <3>1, <4>1, <4>2
      <4>4. \A i \in 3 .. Len(d) : e[i] = rest[i - 2]
        <5> TAKE i \in 3 .. Len(d)
        <5>1. i \in 1 .. 2 + Len(rest) /\ ~ (i <= 2)
          BY <2>1, <4>2
        <5> QED
          BY <4>1, <5>1
      <4> QED
        BY <4>1, <4>2, <4>3, <4>4
  <2>3. \A i \in DOMAIN e : \E j \in DOMAIN d : e[i] = d[j]
    <3> TAKE i \in DOMAIN e
    <3>0. DOMAIN e = 1 .. Len(d)
      BY <2>2
    <3>1. CASE i = 1
      BY <1>1, <2>1, <2>2, <3>1
    <3>2. CASE i = 2
      BY <1>1, <2>1, <2>2, <3>2
    <3>3. CASE i \in 3 .. Len(d)
      <4>1. i - 2 \in 1 .. Len(d) - 2 /\ i - 2 + 2 = i /\ i \in DOMAIN d
        BY <2>1, <3>3
      <4>2. rest[i - 2] = d[i - 2 + 2]
        BY <2>rest, <4>1
      <4> QED
        BY <2>2, <3>3, <4>1, <4>2
    <3> QED
      BY <2>1, <3>0, <3>1, <3>2, <3>3
  <2>4. Roomy(e)
    BY <2>3 DEF Decision, Roomy
  <2>5. e # << >>
    BY <1>1, <2>2
  <2>6. Swapped(d) = e
    BY DEF Swapped
  <2> HIDE DEF e
  <2>7. Decision(e)
    BY <1>1, <2>2, <2>4, <2>5 DEF Decision
  <2> QED
    BY <1>1, <2>6, <2>7 DEF Probes
<1>2. CASE ~ (Len(d) > 1)
  BY <1>2 DEF Probes
<1> QED
  BY <1>1, <1>2

\* A first call is still to be made with a decision; a second is with the next of its models.
CallInv ==
    /\ modelAt \in {"choose", "call", "failover", "answered", "raised"} /\ size \in Nat
    /\ modelAt = "choose" => triedModels = << >>
    /\ modelAt = "call" => Decision(decision) /\ triedModels = << >>
    /\ modelAt = "failover" =>
         /\ decision \in Seq(ModelNames) /\ decision # << >> /\ Roomy(decision)
         /\ \E m \in ModelNames : triedModels = <<m>> /\ m # decision[1]
    /\ FailoverFits

LEMMA ModelStep == CallInv /\ [ModelNext]_modelVars => CallInv'
<1> SUFFICES ASSUME CallInv, [ModelNext]_modelVars PROVE CallInv'
  OBVIOUS
<1>1. CASE ChooseModel
  <2>1. PICK budget \in MaxTokens, role_ \in DOMAIN Role_overrides \cup {"CTO"} :
          LET risk == budget[2] # 0 /\ size > budget[2]
              d == ByRoom(ListCandidates(budget[1], role_))
          IN  IF NoModel(d, budget[1], risk)
              THEN modelAt' = "raised" /\ UNCHANGED decision
              ELSE /\ decision' \in Probes(IF risk THEN Downshift(d, budget[1]) ELSE d)
                   /\ modelAt' = "call"
    BY <1>1 DEF ChooseModel
  <2> DEFINE aim == budget[1]
             risk == budget[2] # 0 /\ size > budget[2]
             d == ByRoom(ListCandidates(aim, role_))
             e == IF risk THEN Downshift(d, aim) ELSE d
  <2>2. aim \in {"plan", "exec", "synth"}
    <3>1. \A b \in MaxTokens : b[1] \in {"plan", "exec", "synth"}
      <4>1. \A b \in MaxTokens : \E x \in {"plan", "exec", "synth"}, n \in Nat : b = <<x, n>>
        BY SMT DEF MaxTokens
      <4> TAKE b \in MaxTokens
      <4>2. PICK x \in {"plan", "exec", "synth"}, n \in Nat : b = <<x, n>>
        BY <4>1
      <4>3. b[1] = x
        BY <4>2, NameOfPair
      <4> QED
        BY <4>3
    <3> QED
      BY <3>1
  <2>3. size' = size /\ triedModels' = triedModels /\ modelAt = "choose"
    BY <1>1 DEF ChooseModel
  <2>4. CASE NoModel(d, aim, risk)
    BY <2>1, <2>3, <2>4 DEF CallInv, FailoverFits, Roomy
  <2>5. CASE ~NoModel(d, aim, risk)
    <3>1. Row(d) /\ Roomy(d)
      BY <2>2, ByRoomIsRow
    <3>2. d # << >> /\ (risk => OfProvider(d[1], aim) # {})
      BY <2>5 DEF NoModel
    <3>3. modelAt' = "call" /\ decision' \in Probes(e)
      BY <2>1, <2>5
    <3> HIDE DEF d, risk, aim
    <3>4. Decision(d)
      BY <3>1, <3>2 DEF Decision, Row
    <3>5. Decision(e)
      BY <3>1, <3>2, <3>4, DownshiftKeepsRoom DEF CallInv
    <3> HIDE DEF e
    <3>6. Decision(decision')
      BY <3>3, <3>5, ProbesAreDecisions
    <3> QED
      BY <2>3, <3>3, <3>6 DEF CallInv, FailoverFits, Decision, Roomy
  <2> QED
    BY <2>4, <2>5
<1>2. CASE CallModel
  <2>1. /\ decision \in Seq(ModelNames) /\ decision # << >> /\ Roomy(decision)
        /\ modelAt \in {"call", "failover"} /\ size' = size
        /\ triedModels' = Append(triedModels, decision[1])
    BY <1>2 DEF CallModel, CallInv, Decision
  <2>2. /\ Len(decision) \in Nat \ {0} /\ decision[1] \in ModelNames /\ 1 \in DOMAIN decision
        /\ Models[decision[1]].ctx >= size
    BY <2>1 DEF Roomy
  <2>3. CASE modelAt = "call"
    <3>1. triedModels' = <<decision[1]>>
      BY <2>1, <2>3 DEF CallInv
    <3>2. FailoverFits'
      BY <2>1, <2>2, <3>1 DEF FailoverFits
    <3>3. CASE modelAt' # "failover"
      BY <1>2, <2>3, <3>2, <3>3 DEF CallModel, CallInv
    <3>4. CASE modelAt' = "failover"
      <4>1. Len(decision) > 1 /\ decision' = Tail(decision)
        BY <1>2, <2>3, <3>4 DEF CallModel
      <4>2. /\ decision' \in Seq(ModelNames) /\ Len(decision') = Len(decision) - 1
            /\ \A i \in 1 .. Len(decision) - 1 : decision'[i] = decision[i + 1]
        BY <2>1, <2>2, <4>1
      <4>3. decision' # << >> /\ decision'[1] = decision[2] /\ decision[1] # decision[2]
        <5>1. 1 \in 1 .. Len(decision) - 1 /\ 1 + 1 = 2
          BY <2>2, <4>1
        <5>2. decision'[1] = decision[2]
          BY <4>2, <5>1
        <5> QED
          <6>1. decision[1] # decision[2]
            BY <2>3, <4>1 DEF CallInv, Decision
          <6>2. decision' # << >>
            BY <2>2, <4>1, <4>2
          <6> QED
            BY <5>2, <6>1, <6>2
      <4>4. Roomy(decision')
        BY SMTT(60), <2>1, <2>2, <4>2 DEF Roomy
      <4> QED
        BY <2>1, <2>2, <3>1, <3>2, <3>4, <4>2, <4>3, <4>4 DEF CallInv, Roomy
    <3> QED
      BY <3>3, <3>4
  <2>4. CASE modelAt = "failover"
    <3>1. PICK m \in ModelNames : triedModels = <<m>> /\ m # decision[1]
      BY <2>4 DEF CallInv
    <3>2. /\ Len(triedModels') = 2 /\ DOMAIN triedModels' = 1 .. 2
          /\ triedModels'[1] = m /\ triedModels'[2] = decision[1]
      <4>1. <<m>> \in Seq(ModelNames) /\ Len(<<m>>) = 1 /\ <<m>>[1] = m
        OBVIOUS
      <4> QED
        BY <2>1, <2>2, <3>1, <4>1, AppendProperties
    <3>3. Models[m].ctx >= size
      BY <3>1 DEF CallInv, FailoverFits
    <3>4. FailoverFits'
      BY <2>1, <2>2, <3>1, <3>2, <3>3 DEF FailoverFits
    <3>5. modelAt' \in {"answered", "raised"}
      BY <1>2, <2>4 DEF CallModel
    <3> QED
      BY <2>1, <3>4, <3>5 DEF CallInv
  <2> QED
    BY <2>1, <2>3, <2>4
<1>3. CASE UNCHANGED modelVars
  BY <1>3 DEF modelVars, CallInv, FailoverFits, Decision, Roomy
<1> QED
  BY <1>1, <1>2, <1>3 DEF ModelNext

\* A request of any size is sent to models that have room for it, and a failover calls
\* another model than the one that failed (choose_model, model_router.py:129;
\* call_model_with_failover, clients.py:47).
THEOREM FailoverHasRoom == ModelRouteSpec => []FailoverFits
<1>1. ModelInit => CallInv
  BY SizeAssumption DEF ModelInit, CallInv, FailoverFits, SizeAssumption
<1>2. CallInv => FailoverFits
  BY DEF CallInv
<1> QED
  BY <1>1, <1>2, ModelStep, PTL DEF ModelRouteSpec

-----------------------------------------------------------------------------
\* Types.  What the router holds besides the steps, events and spans of RouterTypeOK.
CallTypes ==
    /\ counted \in Nat
    /\ cache \subseteq Params
    /\ params \in [Threads -> Params]
    /\ outcome \in [Threads -> Outcomes \cup {"none", "hit", "rejected", "capped"}]

LEMMA ToolTypeStep ==
  RouterTypeOK /\ CallTypes /\ [ToolNext]_toolVars => RouterTypeOK' /\ CallTypes'
<1> SUFFICES ASSUME RouterTypeOK, CallTypes, [ToolNext]_toolVars PROVE RouterTypeOK' /\ CallTypes'
  OBVIOUS
<1>1. ASSUME NEW t \in Threads, Reject(t) \/ Call(t) PROVE RouterTypeOK' /\ CallTypes'
  BY <1>1, Entered DEF CallTypes, Reject, Call, Gets
<1>2. ASSUME NEW t \in Threads, Within(t) PROVE RouterTypeOK' /\ CallTypes'
  <2>1. RouterTypeOK'
    BY <1>2, FiledByOwner
  <2>2. CallTypes'
    BY <1>2 DEF Within, Look, Push, Run, End, Keep, Gets, CallTypes
  <2> QED
    BY <2>1, <2>2
<1>3. CASE Outdate
  BY <1>3 DEF Outdate, RouterTypeOK, CallTypes
<1>4. CASE UNCHANGED toolVars
  BY <1>4 DEF toolVars, RouterTypeOK, CallTypes
<1> QED
  BY <1>1, <1>2, <1>3, <1>4 DEF ToolNext

\* The router's counter, cache, spans and stack keep their types under any threads.
THEOREM RouterTypes == ToolSpec => []ToolTypeOK
<1>1. ToolInit => RouterTypeOK /\ CallTypes
  BY DEF ToolInit, RouterTypeOK, ToolSteps, CallTypes
<1>2. RouterTypeOK /\ CallTypes => ToolTypeOK
  BY DEF RouterTypeOK, CallTypes, ToolTypeOK, ToolSteps, Events
<1> QED
  BY <1>1, <1>2, ToolTypeStep, PTL DEF ToolSpec

TaskTypes ==
    /\ workers \in Pools
    /\ wants \in [Threads -> BOOLEAN]
    /\ fields \in [Threads -> [Fields -> 0 .. MaxRetries + 1]]
    /\ joined \in 0 .. Len(Plan)
    /\ result \in {"none", "returned", "raised"}

LEMMA TaskTypeStep ==
  SpanInv /\ RoundInv /\ TaskTypes /\ [GraphNext]_<<toolVars, graphVars>> => TaskTypes'
<1> SUFFICES ASSUME SpanInv, RoundInv, TaskTypes, [GraphNext]_<<toolVars, graphVars>>
             PROVE  TaskTypes'
  OBVIOUS
<1>0. attempt \in [Threads -> 0 .. MaxRetries + 1] /\ Len(Plan) \in Nat /\ MaxRetries \in Nat
  BY GraphAssumption DEF SpanInv, PipelineTypeOK, RoundInv
<1> USE <1>0 DEF TaskTypes
<1>1. ASSUME NEW t \in Threads, NEW f \in Fields, Puts(t, f)
      PROVE  fields' \in [Threads -> [Fields -> 0 .. MaxRetries + 1]]
  BY <1>1 DEF Puts
<1>2. ASSUME NEW t \in Threads, Act(t) PROVE TaskTypes'
  <2>1. AnswerReplaced(t) \in [Fields -> 0 .. MaxRetries + 1]
    BY DEF AnswerReplaced
  <2> QED
    BY <1>2, <2>1 DEF Act
<1>3. ASSUME NEW t \in Threads,
             Retrieve(t) \/ TakePatents(t) \/ Accept(t) \/ RetryLow(t) \/ TakeTool(t) \/ Comply(t)
      PROVE  TaskTypes'
  <2>1. fields' \in [Threads -> [Fields -> 0 .. MaxRetries + 1]]
    BY <1>1, <1>3 DEF Retrieve, TakePatents, Accept, RetryLow, TakeTool, Comply, Fields
  <2> QED
    BY <1>3, <2>1 DEF Retrieve, TakePatents, Accept, RetryLow, TakeTool, Comply
<1>4. ASSUME NEW t \in Threads,
             Start(t) \/ FailTask(t) \/ SearchPatents(t) \/ UseTool(t) \/ InTool(t)
      PROVE  TaskTypes'
  BY <1>4 DEF Start, FailTask, SearchPatents, UseTool, InTool, graphVars
<1>5. CASE Join \/ Synthesise
  BY <1>5 DEF Join, Synthesise
<1>6. CASE (Outdate /\ UNCHANGED graphVars) \/ UNCHANGED <<toolVars, graphVars>>
  BY <1>6 DEF graphVars
<1> QED
  BY <1>2, <1>3, <1>4, <1>5, <1>6 DEF GraphNext, GraphStep

\* The pipeline's variables keep their types; no field of an answer is of an attempt beyond
\* those that MaxRetries allows.
THEOREM PipelineTypes == GraphSafety => []GraphTypeOK
<1>1. GraphInit => SpanInv /\ RoundInv /\ TaskTypes
  <2>1. GraphInit => SpanInv
    BY SpanInit
  <2>2. GraphInit => RoundInv
    BY GraphAssumption DEF GraphInit, RoundInv
  <2>3. GraphInit => TaskTypes
    BY GraphAssumption DEF GraphInit, TaskTypes
  <2> QED
    BY <2>1, <2>2, <2>3
<1>2. ToolTypeOK /\ SpanInv /\ RoundInv /\ TaskTypes => GraphTypeOK
  BY DEF SpanInv, PipelineTypeOK, RoundInv, TaskTypes, GraphTypeOK, GraphNodes
<1> QED
  BY <1>1, <1>2, SpanStep, RoundStep, TaskTypeStep, GraphUsesTools, RouterTypes, PTL DEF GraphSafety

\* A model's usage and flags, and a question's place, keep their types.
THEOREM QuestionTypes == LlmSpec => []LlmTypeOK
<1> DEFINE Rest ==
       /\ caller \in Callers /\ reply \in Replies
       /\ verdict \in {"none", "given", "fallback", "empty", "raised"}
       /\ runs \in 1 .. MaxRuns
       /\ carried \in [crossed : BOOLEAN, exceeded : BOOLEAN]
       /\ announced \subseteq {"crossed", "exceeded"}
<1>1. LlmInit => LimitInv /\ RequestInv /\ Rest
  BY LlmAssumption DEF LlmInit, LimitInv, RequestInv, NoFlags, Callers, Replies, LlmAssumption
<1>2. LimitInv /\ Rest /\ [LlmNext]_llmVars => Rest'
  <2> SUFFICES ASSUME LimitInv, Rest, [LlmNext]_llmVars PROVE Rest'
    OBVIOUS
  <2>1. CASE NewRun
    BY <2>1, LlmAssumption DEF NewRun, LimitInv, LlmAssumption
  <2>2. ASSUME NEW c \in Callers, Ask(c) PROVE Rest'
    BY <2>2 DEF Ask, usage
  <2>3. CASE AnswerWithoutRequest \/ Reply
    BY <2>3 DEF AnswerWithoutRequest, Reply, usage, Replies
  <2>4. CASE NotFound \/ TryAgain \/ Raise
    BY <2>4 DEF NotFound, TryAgain, Raise, Ends, usage
  <2>5. CASE Deliver
    BY <2>5 DEF Deliver, Account, Crossings, Ends, usage
  <2>6. CASE GiveValid \/ RaiseBroken \/ AskFallback
    BY <2>6 DEF GiveValid, RaiseBroken, AskFallback, Ends, usage
  <2>7. CASE UNCHANGED llmVars
    BY <2>7 DEF llmVars
  <2> QED
    BY <2>1, <2>2, <2>3, <2>4, <2>5, <2>6, <2>7 DEF LlmNext
<1>3. LimitInv /\ RequestInv /\ Rest => LlmTypeOK
  BY DEF LimitInv, RequestInv, LlmTypeOK
<1> QED
  BY <1>1, <1>2, <1>3, LimitStep, RequestStep, PTL DEF LlmSpec

\* A walk never passes the end of its brief.
WalkTypes ==
    /\ purpose \in [AliasTasks -> {"retry", "reflect"}]
    /\ walked \in [AliasTasks -> Nat] /\ walks \in [AliasTasks -> 0 .. MaxWalks]
    /\ \A t \in AliasTasks : Len(brief[t]) \in Nat /\ walked[t] \in 0 .. Len(brief[t])
    /\ \A t \in AliasTasks : desk[t] \in {"found", "missed"} => walked[t] < Len(brief[t])

LEMMA WalkTypeStep == DeskTypeOK /\ WalkTypes /\ [AliasNext]_aliasVars => WalkTypes'
<1> SUFFICES ASSUME DeskTypeOK, WalkTypes, [AliasNext]_aliasVars PROVE WalkTypes'
  OBVIOUS
<1> USE DEF DeskTypeOK, WalkTypes
<1>0. MaxWalks \in Nat
  BY AliasAssumption DEF AliasAssumption
<1>1. ASSUME NEW t \in AliasTasks, PutFirst(t) \/ ResetNumbers(t) \/ RecordAnswer(t)
      PROVE  WalkTypes'
  BY <1>1 DEF PutFirst, ResetNumbers, RecordAnswer, DeskTo
<1>2. ASSUME NEW t \in AliasTasks, BeginWalk(t) PROVE WalkTypes'
  BY <1>0, <1>2 DEF BeginWalk, DeskTo, Purposes
<1>3. ASSUME NEW t \in AliasTasks, FindAlias(t) \/ CopyMap(t) PROVE WalkTypes'
  BY <1>3 DEF FindAlias, CopyMap, DeskTo
<1>a. ASSUME NEW t \in AliasTasks, NEW n, Shows(t, n), walked[t] < Len(brief[t]),
             UNCHANGED <<brief, purpose, walks>>
      PROVE  WalkTypes'
  <2>1. walked' = [walked EXCEPT ![t] = @ + 1] /\ desk' = [desk EXCEPT ![t] = "walking"]
    BY <1>a DEF Shows, DeskTo
  <2>2. walked[t] + 1 \in 0 .. Len(brief[t])
    BY <1>a
  <2> QED
    BY <1>a, <2>1, <2>2
<1>b. ASSUME NEW t \in AliasTasks, EndWalk(t), desk' \in [AliasTasks -> Desks],
             \A u \in AliasTasks \ {t} : desk'[u] = desk[u], desk'[t] \notin {"found", "missed"},
             UNCHANGED <<brief, purpose, walks>>
      PROVE  WalkTypes'
  <2>1. walked' = [walked EXCEPT ![t] = 0]
    BY <1>b DEF EndWalk
  <2> QED
    BY <1>b, <2>1
<1>c. ASSUME NEW t \in AliasTasks, Fails(t)
      PROVE  /\ EndWalk(t) /\ desk' \in [AliasTasks -> Desks]
             /\ \A u \in AliasTasks \ {t} : desk'[u] = desk[u]
             /\ desk'[t] \notin {"found", "missed"}
  BY <1>c DEF Fails, DeskTo, Desks
<1>4. ASSUME NEW t \in AliasTasks, TakeAlias(t) \/ MakeAlias(t) PROVE WalkTypes'
  <2>1. UNCHANGED <<brief, purpose, walks>> /\ walked[t] < Len(brief[t])
    BY <1>4 DEF TakeAlias, MakeAlias
  <2>2. CASE \E n \in {numbered + 1, shared[Mention(t)]} : Shows(t, n)
    BY <1>a, <2>1, <2>2
  <2>3. CASE Fails(t)
    BY <1>b, <1>c, <2>1, <2>3
  <2> QED
    BY <1>4, <2>2, <2>3 DEF TakeAlias, MakeAlias
<1>5. ASSUME NEW t \in AliasTasks, TakeReply(t) \/ AgentFails(t) PROVE WalkTypes'
  <2>1. UNCHANGED <<brief, walks, purpose>>
    BY <1>5 DEF TakeReply, AgentFails
  <2>2. CASE TakeReply(t)
    BY <1>b, <2>1, <2>2 DEF TakeReply, DeskTo, Desks
  <2>3. CASE AgentFails(t)
    BY <1>b, <1>c, <2>1, <2>3 DEF AgentFails
  <2> QED
    BY <1>5, <2>2, <2>3
<1>6. CASE UNCHANGED aliasVars
  BY <1>6 DEF aliasVars
<1> QED
  BY <1>1, <1>2, <1>3, <1>4, <1>5, <1>6 DEF AliasNext

\* The redactor's counter and the tasks' walks keep their types; a walk is never past its
\* brief.
THEOREM AliasTypes == AliasSpec => []AliasTypeOK
<1>1. AliasInit => NameInv /\ WalkTypes
  <2> SUFFICES ASSUME AliasInit PROVE NameInv /\ WalkTypes
    OBVIOUS
  <2>1. \A t \in AliasTasks : Len(brief[t]) \in Nat
    <3>1. \A b \in Briefs : b \in Seq({b[i] : i \in DOMAIN b})
      BY AliasAssumption DEF AliasAssumption
    <3>2. \A t \in AliasTasks : brief[t] \in Briefs
      BY DEF AliasInit
    <3> QED
      BY <3>1, <3>2, LenProperties
  <2> QED
    BY <2>1, AliasStart, AliasAssumption DEF AliasInit, WalkTypes, AliasAssumption
<1>2. NameInv /\ WalkTypes => AliasTypeOK
  BY DEF NameInv, DeskTypeOK, WalkTypes, AliasTypeOK, Desks
<1>3. NameInv => DeskTypeOK
  BY DEF NameInv
<1> QED
  BY <1>1, <1>2, <1>3, AliasStep, WalkTypeStep, PTL DEF AliasSpec

\* The lists of searches, and what each thread holds of them, keep their types.
THEOREM ConnectorTypes == ConnectorSpec => []ConnectorTypeOK
<1>1. RateInv => ConnectorTypeOK
  BY DEF RateInv
<1> QED
  BY <1>1, RateStart, RateStep, PTL DEF ConnectorSpec

\* A request's models and its size keep their types.
THEOREM RequestTypes == ModelRouteSpec => []ModelTypeOK
<1> DEFINE Rest == decision \in Seq(ModelNames) /\ triedModels \in Seq(ModelNames) /\ size \in SizeHints
<1>1. ModelInit => CallInv /\ Rest
  BY SizeAssumption DEF ModelInit, CallInv, FailoverFits, SizeAssumption
<1>2. CallInv /\ Rest /\ CallInv' /\ [ModelNext]_modelVars => Rest'
  <2> SUFFICES ASSUME CallInv, Rest, CallInv', [ModelNext]_modelVars PROVE Rest'
    OBVIOUS
  <2>1. CASE ChooseModel
    <3>1. size' = size /\ triedModels' = triedModels
      BY <2>1 DEF ChooseModel
    <3>2. modelAt' = "call" \/ decision' = decision
      BY <2>1 DEF ChooseModel
    <3> QED
      BY <3>1, <3>2 DEF CallInv, Decision
  <2>2. CASE CallModel
    <3>1. decision # << >>
      BY <2>2 DEF CallModel, CallInv, Decision
    <3>2. decision[1] \in ModelNames /\ Tail(decision) \in Seq(ModelNames)
      BY <3>1
    <3> QED
      BY <2>2, <3>2, AppendProperties DEF CallModel
  <2>3. CASE UNCHANGED modelVars
    BY <2>3 DEF modelVars
  <2> QED
    BY <2>1, <2>2, <2>3 DEF ModelNext
<1>3. CallInv /\ Rest => ModelTypeOK
  <2>1. DOMAIN Models = ModelNames
    BY DEF Models
  <2> QED
    BY <2>1 DEF CallInv, ModelTypeOK
<1> QED
  BY <1>1, <1>2, <1>3, ModelStep, PTL DEF ModelRouteSpec

\* Normalising gives the name itself or a registered one.
LEMMA NormalisedIsKnown == ASSUME NEW name PROVE Normalised(name) \in {name} \cup Registered
<1>1. \A x, y : <<x, y>>[2] = y
  OBVIOUS
<1>2. \A p \in CANON :
         p[2] \in {"Regulatory", "Marketing Analyst", "HRM", "QA", "Dynamic Specialist"}
  BY <1>1, Zenon DEF CANON, Specialist
<1>3. {"Regulatory", "Marketing Analyst", "HRM", "QA", "Dynamic Specialist"} \subseteq Registered
  BY DEF Registered, OnPrompt, Specialist
<1>4. \A p \in CANON : p[2] \in Registered
  BY <1>2, <1>3
<1>5. CASE \E p \in CANON : p[1] = name
  <2>1. (CHOOSE p \in CANON : p[1] = name) \in CANON
    BY <1>5
  <2> QED
    BY <1>4, <1>5, <2>1 DEF Normalised, Over
<1>6. CASE ~ \E p \in CANON : p[1] = name
  BY <1>6 DEF Normalised, Over
<1> QED
  BY <1>5, <1>6

\* A task's role is a name of the plan or a registered one, and only registered agents run.
THEOREM RoutingTypes == RoutingSpec => []RoutingTypeOK
<1> DEFINE Rest ==
       /\ role \in Names \cup Registered /\ agent \in Registered
       /\ answeredBy \subseteq Registered /\ ran \in Seq(Registered)
<1>0. Specialist \in Registered
  BY DEF Registered
<1>1. RoutingInit => RoutingInv /\ Rest
  BY <1>0 DEF RoutingInit, RoutingInv, RoleAnswers
<1>2. RoutingInv /\ Rest /\ [RoutingNext]_routingVars => Rest'
  <2> SUFFICES ASSUME RoutingInv, Rest, [RoutingNext]_routingVars PROVE Rest'
    OBVIOUS
  <2>1. CASE Normalise
    BY <2>1, NormalisedIsKnown DEF Normalise
  <2>2. CASE RouteTask
    BY <2>2, RouteIsRegistered DEF RouteTask
  <2>3. CASE InvokeSafely
    <3>1. role \in Registered
      BY <2>3 DEF InvokeSafely, RoutingInv
    <3>2. Append(ran, role) \in Seq(Registered)
      BY <3>1
    <3> QED
      BY <2>3, <3>1, <3>2 DEF InvokeSafely, AnswerBy, Runs
  <2>4. CASE Dispatch
    BY <2>4, RouteIsRegistered DEF Dispatch
  <2>5. CASE Uncallable
    BY <1>0, <2>5 DEF Uncallable, FallBack
  <2>6. ASSUME NEW first \in BOOLEAN, Invoke(first) PROVE Rest'
    <3>1. Append(ran, agent) \in Seq(Registered)
      OBVIOUS
    <3> QED
      BY <1>0, <2>6, <3>1 DEF Invoke, AnswerBy, Runs, FallBack
  <2>7. CASE UNCHANGED routingVars
    BY <2>7 DEF routingVars
  <2> QED
    BY <2>1, <2>2, <2>3, <2>4, <2>5, <2>6, <2>7 DEF RoutingNext
<1>3. RoutingInv /\ Rest => RoutingTypeOK
  BY DEF RoutingInv, RoutingTypeOK
<1> QED
  BY <1>1, <1>2, <1>3, RoutingStep, PTL DEF RoutingSpec
-----------------------------------------------------------------------------
(* The cleaning of answers: what the passes make of a field is a map of its *)
(* texts, part by part, so that the words of the outcome are those given.   *)

\* One of a set is a sequence over it.
LEMMA OneIsASeq == \A S : \A x \in S : <<x>> \in Seq(S)
  OBVIOUS

Part == {" ", "word", "- word", "-40", "40", "[word](word)", "Not determined"}
PartTexts == {Text(s) : s \in Seq(Part)}
bare == [p \in Part |-> Bare(p)]

\* A part without its bullet has none.
LEMMA BareIs ==
    /\ bare \in Maps(Part, Part)
    /\ \A p \in Part : MapFlat(bare, bare[p]) = bare[p]
<1>1. StripBullet("- word") = "word" /\ StripBullet("-40") = "40"
  BY Zenon DEF StripBullet
<1>2. ASSUME NEW p \in Part \ {"- word", "-40"} PROVE StripBullet(p) = p
  BY Zenon DEF StripBullet
<1>3. ASSUME NEW p \in Part PROVE /\ StripBullet(p) \in Part \ {"- word", "-40"}
                                  /\ p # " " => StripBullet(p) # " "
  BY <1>1, <1>2 DEF Part
<1>4. ASSUME NEW p \in Part PROVE bare[p] = IF p = " " THEN << >> ELSE <<StripBullet(p)>>
  BY DEF bare, Bare
<1>5. bare \in Maps(Part, Part)
  <2>1. ASSUME NEW p \in Part PROVE bare[p] \in Seq(Part)
    BY <1>3, <1>4, OneIsASeq, EmptySeq
  <2> QED
    BY <2>1 DEF bare, Maps
<1>6. ASSUME NEW p \in Part PROVE MapFlat(bare, bare[p]) = bare[p]
  <2>1. CASE p = " "
    BY <1>4, <2>1, MapFlatEmpty
  <2>2. CASE p # " "
    <3> DEFINE q == StripBullet(p)
    <3>1. q \in Part /\ q # " " /\ StripBullet(q) = q /\ bare[p] = <<q>>
      BY <1>2, <1>3, <1>4, <2>2
    <3>2. bare[q] = <<q>>
      BY <1>4, <3>1
    <3> HIDE DEF q
    <3>3. MapFlat(bare, <<q>>) = bare[q]
      BY <1>5, <3>1, MapFlatSingle
    <3> QED
      BY <3>1, <3>2, <3>3
  <2> QED
    BY <2>1, <2>2
<1> QED
  BY <1>5, <1>6

\* Splitting a text maps its parts.
LEMMA SplitIs ==
  ASSUME NEW s \in Seq(Part)
  PROVE  Split(Text(s)) = MapFlat(bare, s) /\ Split(Text(s)) \in Seq(Part)
<1>1. Text(s)[2] = s
  BY DEF Text
<1>2. \A i \in DOMAIN s : s[i] \in Part
  BY LenProperties, ElementOfSeq
<1>3. [i \in DOMAIN s |-> Bare(s[i])] = [i \in DOMAIN s |-> bare[s[i]]]
  BY <1>2 DEF bare
<1>4. Split(Text(s)) = MapFlat(bare, s)
  BY <1>1, <1>3 DEF Split, Each, MapFlat, MapOver
<1>5. MapFlat(bare, s) \in Seq(Part)
  BY BareIs, MapFlatType
<1> QED
  BY <1>4, <1>5

\* Splitting once more splits nothing.
LEMMA SplitTwice ==
  ASSUME NEW s \in Seq(Part)
  PROVE  Split(Text(Split(Text(s)))) = Split(Text(s))
<1>0. bare \in Maps(Part, Part) /\ \A p \in Part : MapFlat(bare, bare[p]) = bare[p]
  BY BareIs
<1>1. MapFlat(bare, MapFlat(bare, s)) = MapFlat(bare, s)
  BY <1>0, MapFlatComposes
<1> QED
  BY <1>1, SplitIs

\* What may be an item of a list: of the texts, those that have parts.
Readable(X) == \A x \in X : Is(x, "text") => x \in PartTexts
bareItem(X) == [x \in X |-> BareItem(x)]
words(X) == [x \in X |-> WordsOf(x)]
parts == [x \in PartTexts |-> Parts(x)]
single == [p \in Part |-> Single(p)]

\* A sequence of parts makes a text, which has them.
LEMMA TextIs == \A s \in Seq(Part) : Text(s) \in PartTexts /\ Text(s)[2] = s /\ Is(Text(s), "text")
  BY DEF PartTexts, Text, Is

\* A text is made of its parts.
LEMMA TextsAreTexts == \A x \in PartTexts : Is(x, "text") /\ x[2] \in Seq(Part) /\ x = Text(x[2])
  BY DEF PartTexts, Text, Is

\* The parts of a text that is stripped as a whole say what all its parts do.
LEMMA HeadStripped ==
  ASSUME NEW p \in Seq(Part), p # << >>
  PROVE  /\ Bare(Head(p)) \o Tail(p) \in Seq(Part)
         /\ MapFlat(bare, Bare(Head(p)) \o Tail(p)) = MapFlat(bare, p)
<1> DEFINE h == Head(p)
           t == Tail(p)
<1>1. h \in Part /\ t \in Seq(Part) /\ p = <<h>> \o t
  BY HeadTailProperties
<1>2. Bare(h) = bare[h] /\ bare[h] \in Seq(Part) /\ <<h>> \in Seq(Part)
  BY <1>1, BareIs DEF bare, Maps
<1> HIDE DEF h, t
<1>3. bare[h] \o t \in Seq(Part)
  BY <1>1, <1>2, ConcatProperties
<1>4. ASSUME NEW a \in Seq(Part)
      PROVE  MapFlat(bare, a \o t) = MapFlat(bare, a) \o MapFlat(bare, t)
  BY <1>1, BareIs, MapFlatConcat
<1>5. MapFlat(bare, bare[h]) = bare[h] /\ MapFlat(bare, <<h>>) = bare[h]
  BY <1>1, BareIs, MapFlatSingle
<1> QED
  BY <1>1, <1>2, <1>3, <1>4, <1>5 DEF h, t

\* What an item of a list is made to, and what it says then.
LEMMA BareItemIs ==
  ASSUME NEW x, Is(x, "text") => x \in PartTexts
  PROVE  \/ BareItem(x) = << >> /\ WordsOf(x) = << >>
         \/ \E q \in Seq(Part) : BareItem(x) = <<Text(q)>> /\ WordsOf(x) = MapFlat(bare, q)
<1>1. CASE ~ Is(x, "text")
  BY <1>1 DEF BareItem, WordsOf
<1>2. CASE Is(x, "text")
  <2>1. PICK p \in Seq(Part) : x = Text(p)
    BY <1>2 DEF PartTexts
  <2>2. x[2] = p /\ WordsOf(x) = MapFlat(bare, p)
    BY <1>2, <2>1, TextIs, SplitIs DEF WordsOf
  <2>3. CASE p = << >>
    BY <2>1, <2>2, <2>3, MapFlatEmpty DEF BareItem
  <2>4. CASE p = <<" ">>
    <3>1. " " \in Part /\ bare[" "] = << >>
      BY DEF Part, bare, Bare
    <3>2. MapFlat(bare, p) = << >>
      BY <2>4, <3>1, BareIs, MapFlatSingle
    <3> QED
      BY <2>1, <2>2, <2>4, <3>2 DEF BareItem
  <2>5. CASE p # << >> /\ p # <<" ">>
    <3>1. Text(p) # Text(<< >>) /\ Text(p) # Text(<<" ">>)
      BY <2>5 DEF Text
    <3>2. BareItem(x) = <<Text(Bare(Head(p)) \o Tail(p))>>
      BY <1>2, <2>1, <2>2, <3>1 DEF BareItem
    <3> QED
      BY <2>2, <2>5, <3>2, HeadStripped
  <2> QED
    BY <2>3, <2>4, <2>5
<1> QED
  BY <1>1, <1>2

\* The operators on items are maps, once what the items may be is known.
LEMMA ItemsMapped ==
  ASSUME NEW X, Readable(X)
  PROVE  /\ bareItem(X) \in Maps(X, PartTexts) /\ words(X) \in Maps(X, Part)
         /\ \A x \in X : words(X)[x] = WordsOf(x) /\ bareItem(X)[x] = BareItem(x)
         /\ \A s \in Seq(X) : /\ Each(BareItem, s) = MapFlat(bareItem(X), s)
                              /\ Each(WordsOf, s) = MapFlat(words(X), s)
<1>1. ASSUME NEW x \in X PROVE BareItem(x) \in Seq(PartTexts) /\ WordsOf(x) \in Seq(Part)
  <2>1. \A q \in Seq(Part) : /\ MapFlat(bare, q) \in Seq(Part)
                             /\ Text(q) \in PartTexts /\ <<Text(q)>> \in Seq(PartTexts)
    BY BareIs, MapFlatType, TextIs, OneIsASeq
  <2>2. Is(x, "text") => x \in PartTexts
    BY DEF Readable
  <2> QED
    BY <2>1, <2>2, BareItemIs, EmptySeq
<1>2. bareItem(X) \in Maps(X, PartTexts) /\ words(X) \in Maps(X, Part)
  BY <1>1 DEF bareItem, words, Maps
<1>3. \A x \in X : words(X)[x] = WordsOf(x) /\ bareItem(X)[x] = BareItem(x)
  BY DEF bareItem, words
<1>4. ASSUME NEW s \in Seq(X)
      PROVE  /\ Each(BareItem, s) = MapFlat(bareItem(X), s)
             /\ Each(WordsOf, s) = MapFlat(words(X), s)
  <2>1. \A i \in DOMAIN s : s[i] \in X
    BY LenProperties, ElementOfSeq
  <2>2. /\ [i \in DOMAIN s |-> BareItem(s[i])] = [i \in DOMAIN s |-> bareItem(X)[s[i]]]
        /\ [i \in DOMAIN s |-> WordsOf(s[i])] = [i \in DOMAIN s |-> words(X)[s[i]]]
    BY <1>3, <2>1
  <2> QED
    BY <2>2 DEF Each, MapFlat, MapOver
<1> QED
  BY <1>2, <1>3, <1>4

\* And so are those on texts and on parts.
LEMMA PartsMapped ==
    /\ parts \in Maps(PartTexts, Part) /\ single \in Maps(Part, PartTexts)
    /\ \A q \in Seq(Part) : parts[Text(q)] = q
    /\ \A p \in Part : single[p] = <<Text(<<p>>)>>
    /\ \A s \in Seq(PartTexts) : Each(Parts, s) = MapFlat(parts, s)
    /\ \A s \in Seq(Part) : Each(Single, s) = MapFlat(single, s)
<1>1. parts \in Maps(PartTexts, Part) /\ \A q \in Seq(Part) : parts[Text(q)] = q
  BY TextIs, TextsAreTexts DEF parts, Parts, Maps
<1>2. single \in Maps(Part, PartTexts) /\ \A p \in Part : single[p] = <<Text(<<p>>)>>
  <2>1. ASSUME NEW p \in Part PROVE Single(p) = <<Text(<<p>>)>> /\ Single(p) \in Seq(PartTexts)
    <3>1. <<p>> \in Seq(Part)
      BY OneIsASeq
    <3> QED
      BY <3>1, TextIs, OneIsASeq DEF Single
  <2> QED
    BY <2>1 DEF single, Maps
<1>3. ASSUME NEW s \in Seq(PartTexts) PROVE Each(Parts, s) = MapFlat(parts, s)
  <2>1. \A i \in DOMAIN s : s[i] \in PartTexts
    BY LenProperties, ElementOfSeq
  <2>2. [i \in DOMAIN s |-> Parts(s[i])] = [i \in DOMAIN s |-> parts[s[i]]]
    BY <2>1 DEF parts
  <2> QED
    BY <2>2 DEF Each, MapFlat, MapOver
<1>4. ASSUME NEW s \in Seq(Part) PROVE Each(Single, s) = MapFlat(single, s)
  <2>1. \A i \in DOMAIN s : s[i] \in Part
    BY LenProperties, ElementOfSeq
  <2>2. [i \in DOMAIN s |-> Single(s[i])] = [i \in DOMAIN s |-> single[s[i]]]
    BY <2>1 DEF single
  <2> QED
    BY <2>2 DEF Each, MapFlat, MapOver
<1> QED
  BY <1>1, <1>2, <1>3, <1>4

\* A list of texts made one text says what its items did, one after the other.
LEMMA ListToText ==
  ASSUME NEW X, Readable(X), NEW s \in Seq(X)
  PROVE  /\ Each(Parts, Each(BareItem, s)) \in Seq(Part)
         /\ Split(Text(Each(Parts, Each(BareItem, s)))) = Each(WordsOf, s)
<1> DEFINE b == bareItem(X)
           w == words(X)
           pb == [x \in X |-> MapFlat(parts, b[x])]
<1>1. b \in Maps(X, PartTexts) /\ w \in Maps(X, Part)
  BY ItemsMapped
<1>2. \A x \in X : b[x] = BareItem(x) /\ w[x] = WordsOf(x)
  BY ItemsMapped
<1>3. Each(BareItem, s) = MapFlat(b, s) /\ Each(WordsOf, s) = MapFlat(w, s)
  BY ItemsMapped
<1> HIDE DEF b, w
<1>4. MapFlat(b, s) \in Seq(PartTexts)
  BY <1>1, MapFlatType
<1>5. Each(Parts, MapFlat(b, s)) = MapFlat(parts, MapFlat(b, s))
  BY <1>4, PartsMapped
<1>6. MapFlat(parts, MapFlat(b, s)) \in Seq(Part)
  BY <1>4, PartsMapped, MapFlatType
<1>7. ASSUME NEW x \in X
      PROVE  pb[x] \in Seq(Part) /\ pb[x] = MapFlat(parts, b[x]) /\ MapFlat(bare, pb[x]) = w[x]
  <2>1. b[x] \in Seq(PartTexts)
    BY <1>1 DEF Maps
  <2>2. pb[x] = MapFlat(parts, b[x]) /\ pb[x] \in Seq(Part)
    BY <2>1, PartsMapped, MapFlatType
  <2> HIDE DEF pb
  <2>3. Is(x, "text") => x \in PartTexts
    BY DEF Readable
  <2>4. CASE b[x] = << >> /\ w[x] = << >>
    BY <2>2, <2>4, MapFlatEmpty
  <2>5. CASE \E q \in Seq(Part) : b[x] = <<Text(q)>> /\ w[x] = MapFlat(bare, q)
    <3>1. PICK q \in Seq(Part) : b[x] = <<Text(q)>> /\ w[x] = MapFlat(bare, q)
      BY <2>5
    <3>2. MapFlat(parts, <<Text(q)>>) = parts[Text(q)]
      BY TextIs, PartsMapped, MapFlatSingle
    <3> QED
      BY <2>2, <3>1, <3>2, PartsMapped
  <2> QED
    BY <1>2, <2>3, <2>4, <2>5, BareItemIs
<1>8. pb \in Maps(X, Part)
  BY <1>7 DEF Maps
<1>9. \A x \in X : MapFlat(parts, b[x]) = pb[x] /\ MapFlat(bare, pb[x]) = w[x]
  BY <1>7
<1> HIDE DEF pb
<1>10. MapFlat(parts, MapFlat(b, s)) = MapFlat(pb, s)
  BY <1>1, <1>8, <1>9, PartsMapped, MapFlatComposes
<1>11. MapFlat(bare, MapFlat(pb, s)) = MapFlat(w, s)
  BY <1>1, <1>8, <1>9, BareIs, MapFlatComposes
<1> QED
  BY <1>3, <1>5, <1>6, <1>10, <1>11, SplitIs

\* A list of texts says what its items did.
LEMMA ListToList ==
  ASSUME NEW X, Readable(X), NEW s \in Seq(X)
  PROVE  /\ Each(BareItem, s) \in Seq(PartTexts)
         /\ Each(WordsOf, Each(BareItem, s)) = Each(WordsOf, s)
<1> DEFINE b == bareItem(X)
           w == words(X)
           v == words(PartTexts)
<1>0. Readable(PartTexts)
  BY DEF Readable
<1>1. b \in Maps(X, PartTexts) /\ w \in Maps(X, Part)
  BY ItemsMapped
<1>2. \A x \in X : b[x] = BareItem(x) /\ w[x] = WordsOf(x)
  BY ItemsMapped
<1>3. Each(BareItem, s) = MapFlat(b, s) /\ Each(WordsOf, s) = MapFlat(w, s)
  BY ItemsMapped
<1>4. v \in Maps(PartTexts, Part) /\ \A x \in PartTexts : v[x] = WordsOf(x)
  BY <1>0, ItemsMapped
<1>5. \A t \in Seq(PartTexts) : Each(WordsOf, t) = MapFlat(v, t)
  BY <1>0, ItemsMapped
<1> HIDE DEF b, w, v
<1>6. MapFlat(b, s) \in Seq(PartTexts)
  BY <1>1, MapFlatType
<1>7. ASSUME NEW x \in X PROVE MapFlat(v, b[x]) = w[x]
  <2>1. Is(x, "text") => x \in PartTexts
    BY DEF Readable
  <2>2. CASE b[x] = << >> /\ w[x] = << >>
    BY <2>2, MapFlatEmpty
  <2>3. CASE \E q \in Seq(Part) : b[x] = <<Text(q)>> /\ w[x] = MapFlat(bare, q)
    <3>1. PICK q \in Seq(Part) : b[x] = <<Text(q)>> /\ w[x] = MapFlat(bare, q)
      BY <2>3
    <3>2. MapFlat(v, <<Text(q)>>) = v[Text(q)]
      BY <1>4, TextIs, MapFlatSingle
    <3>3. v[Text(q)] = MapFlat(bare, q)
      BY <1>4, TextIs, SplitIs DEF WordsOf
    <3> QED
      BY <3>1, <3>2, <3>3
  <2> QED
    BY <1>2, <2>1, <2>2, <2>3, BareItemIs
<1>8. MapFlat(v, MapFlat(b, s)) = MapFlat(w, s)
  BY <1>1, <1>4, <1>7, MapFlatComposes
<1> QED
  BY <1>3, <1>5, <1>6, <1>8

\* A text made a list of its parts says what it did.
LEMMA TextToList ==
  ASSUME NEW p \in Seq(Part)
  PROVE  /\ Each(Single, Split(Text(p))) \in Seq(PartTexts)
         /\ Each(WordsOf, Each(Single, Split(Text(p)))) = Split(Text(p))
<1> DEFINE q == Split(Text(p))
           v == words(PartTexts)
<1>0. Readable(PartTexts)
  BY DEF Readable
<1>1. q \in Seq(Part) /\ MapFlat(bare, q) = q
  BY SplitIs, SplitTwice
<1>2. v \in Maps(PartTexts, Part) /\ \A x \in PartTexts : v[x] = WordsOf(x)
  BY <1>0, ItemsMapped
<1>3. \A t \in Seq(PartTexts) : Each(WordsOf, t) = MapFlat(v, t)
  BY <1>0, ItemsMapped
<1> HIDE DEF q, v
<1>4. Each(Single, q) = MapFlat(single, q) /\ MapFlat(single, q) \in Seq(PartTexts)
  BY <1>1, PartsMapped, MapFlatType
<1>5. ASSUME NEW x \in Part PROVE MapFlat(v, single[x]) = bare[x]
  <2>1. <<x>> \in Seq(Part) /\ single[x] = <<Text(<<x>>)>> /\ Text(<<x>>) \in PartTexts
    BY OneIsASeq, PartsMapped, TextIs
  <2>2. MapFlat(v, <<Text(<<x>>)>>) = v[Text(<<x>>)]
    BY <1>2, <2>1, MapFlatSingle
  <2>3. v[Text(<<x>>)] = MapFlat(bare, <<x>>)
    BY <1>2, <2>1, TextIs, SplitIs DEF WordsOf
  <2>4. MapFlat(bare, <<x>>) = bare[x]
    BY BareIs, MapFlatSingle
  <2> QED
    BY <2>1, <2>2, <2>3, <2>4
<1>6. MapFlat(v, MapFlat(single, q)) = MapFlat(bare, q)
  BY <1>1, <1>2, <1>5, BareIs, PartsMapped, MapFlatComposes
<1> QED
  BY <1>1, <1>3, <1>4, <1>6 DEF q

\* The schema of each field.
LEMMA PropertyIs ==
  ASSUME NEW r
  PROVE  /\ Property("summary", r) = Scalar({"text"} \cup Nulls(r))
         /\ \A n \in {"npv", "confidence"} : Property(n, r) = Scalar({"number"} \cup Nulls(r))
         /\ \A n \in {"risks", "text sources"} :
              Property(n, r) = ArrayOf(Scalar({"text"}), Nulls(r))
         /\ Property("findings", r) =
              ArrayOf(Having({"claim", "evidence"}, {"text"}, r, {}), Nulls(r))
         /\ Property("sources", r) = ArrayOf(Source, Nulls(r))
         /\ Property("unit_economics", r) = Having({"total_cost"}, {"number"}, r, Nulls(r))
  BY Zenon DEF Property

\* What an object of an answer has.
Plain == {Number, Text(<<" ">>), Word}
Holding(o, name) == DOMAIN o \subseteq Keys(name) /\ \A key \in DOMAIN o : o[key] \in Plain

\* An item of an answer is null, a number, a text or an object.
LEMMA ItemIs ==
  ASSUME NEW n, NEW x \in Items(n)
  PROVE  \/ x \in {Null, Number} \/ x \in GivenTexts
         \/ \E o : x = Object(o) /\ Holding(o, n)
<1>1. CASE x \in Scalars
  BY <1>1 DEF Scalars
<1>2. CASE x \in ObjectsOf(n)
  <2>1. PICK ks \in SUBSET Keys(n) : \E o \in [ks -> Plain] : x = Object(o)
    BY <1>2 DEF ObjectsOf, Plain, Word
  <2>2. PICK o \in [ks -> Plain] : x = Object(o)
    BY <2>1
  <2> QED
    BY <2>2 DEF Holding
<1> QED
  BY <1>1, <1>2 DEF Items

\* The texts of an answer are of known parts.
LEMMA GivenTextsAreTexts == GivenTexts \subseteq PartTexts
<1>1. /\ << >> \in Seq(Part) /\ <<" ">> \in Seq(Part) /\ <<"word">> \in Seq(Part)
      /\ <<"-40">> \in Seq(Part) /\ <<"[word](word)">> \in Seq(Part)
  BY DEF Part
<1>2. <<"- word", "- word">> \in Seq(Part)
  BY DEF Part
<1> QED
  BY <1>1, <1>2, TextIs DEF GivenTexts

\* The kind of a value, and what it is made of.
LEMMA KindsDiffer ==
    /\ Is(Missing, "missing") /\ Is(Null, "null") /\ Is(Number, "number")
    /\ \A s : Is(Text(s), "text") /\ Text(s)[2] = s
    /\ \A s : Is(List(s), "list") /\ List(s)[2] = s
    /\ \A o : Is(Object(o), "object") /\ Object(o)[2] = o
  BY DEF Is, Missing, Null, Number, Text, List, Object

\* A field is left out, or given as an item or a list of them.
LEMMA GivenIs ==
  ASSUME NEW n, NEW v \in Givens(n)
  PROVE  \/ v = Missing \/ v \in Items(n)
         \/ \E s \in Seq(Items(n)) : v = List(s)
<1>1. CASE v \in Lists(n)
  <2>1. PICK m \in 0 .. MaxItems : \E s \in [1 .. m -> Items(n)] : v = List(s)
    BY <1>1 DEF Lists
  <2>2. PICK s \in [1 .. m -> Items(n)] : v = List(s)
    BY <2>1
  <2>3. m \in Nat
    BY ItemsAssumption
  <2> QED
    BY <2>2, <2>3
<1> QED
  BY <1>1 DEF Givens

\* The items of an answer can be read.
LEMMA ItemsReadable == ASSUME NEW n PROVE Readable(Items(n))
  BY ItemIs, GivenTextsAreTexts, KindsDiffer DEF Readable, Is

\* Stripping changes nothing but objects.
LEMMA StripKeepsTexts ==
  ASSUME NEW x, NEW sch
  PROVE  /\ ~ Is(x, "object") => StripObject(x, sch) = x
         /\ Is(StripObject(x, sch), "text") <=> Is(x, "text")
  BY KindsDiffer DEF StripObject, Is

\* Stripping keeps a list's texts.
StrippedItems(s, sch) == [i \in DOMAIN s |-> StripObject(s[i], ItemsOf(sch))]

\* Stripping a list keeps the words of its texts.
LEMMA ListStripped ==
  ASSUME NEW X, Readable(X), NEW s \in Seq(X), NEW sch
  PROVE  /\ Strip(List(s), sch) = List(StrippedItems(s, sch))
         /\ \E Y : Readable(Y) /\ StrippedItems(s, sch) \in Seq(Y)
         /\ Each(WordsOf, StrippedItems(s, sch)) = Each(WordsOf, s)
<1> DEFINE q == StrippedItems(s, sch)
           Y == {StripObject(x, ItemsOf(sch)) : x \in X}
<1>1. Strip(List(s), sch) = List(q)
  BY KindsDiffer DEF Strip, StrippedItems
<1>2. /\ Len(s) \in Nat /\ DOMAIN s = 1 .. Len(s) /\ \A i \in DOMAIN s : s[i] \in X
  BY LenProperties, ElementOfSeq
<1>3. q \in Seq(Y)
  <2>1. q \in [1 .. Len(s) -> Y]
    BY <1>2 DEF StrippedItems
  <2> HIDE DEF q, Y
  <2> QED
    BY <1>2, <2>1
<1>4. ASSUME NEW x \in X
      PROVE  /\ Is(x, "text") => StripObject(x, ItemsOf(sch)) = x /\ x \in PartTexts
             /\ ~ Is(x, "text") => ~ Is(StripObject(x, ItemsOf(sch)), "text")
  BY StripKeepsTexts DEF Readable, Is
<1>5. Readable(Y)
  BY <1>4 DEF Readable
<1>6. \A i \in DOMAIN s : WordsOf(q[i]) = WordsOf(s[i])
  BY <1>2, <1>4 DEF WordsOf, StrippedItems
<1>7. Each(WordsOf, q) = Each(WordsOf, s)
  <2>1. DOMAIN q = DOMAIN s
    BY DEF StrippedItems
  <2> HIDE DEF q
  <2>2. [i \in DOMAIN q |-> WordsOf(q[i])] = [i \in DOMAIN s |-> WordsOf(s[i])]
    BY <1>6, <2>1
  <2> QED
    BY <2>2 DEF Each
<1> QED
  BY <1>1, <1>3, <1>5, <1>7

-----------------------------------------------------------------------------
\* A text of known parts, a list that can be read, or neither.
Legible(v) ==
    \/ v \in PartTexts
    \/ ~ Is(v, "text") /\ ~ Is(v, "list")
    \/ \E X : Readable(X) /\ \E s \in Seq(X) : v = List(s)

\* What an answer gives is legible.
LEMMA GivenIsLegible == ASSUME NEW n, NEW v \in Givens(n) PROVE Legible(v)
<1>1. CASE v \in Items(n)
  BY <1>1, ItemIs, GivenTextsAreTexts, KindsDiffer DEF Legible, Is
<1>2. CASE v = Missing
  BY <1>2, KindsDiffer DEF Legible, Is
<1>3. CASE \E s \in Seq(Items(n)) : v = List(s)
  BY <1>3, ItemsReadable DEF Legible
<1> QED
  BY <1>1, <1>2, <1>3, GivenIs

\* Stripping a value leaves it legible, and its words what they were.
LEMMA StrippedIsLegible ==
  ASSUME NEW v, Legible(v), NEW sch
  PROVE  Legible(Strip(v, sch)) /\ Words(Strip(v, sch)) = Words(v)
<1>1. CASE v \in PartTexts
  <2>1. Strip(v, sch) = v
    BY <1>1, TextsAreTexts DEF Strip, StripObject, Is
  <2> QED
    BY <2>1
<1>2. CASE ~ Is(v, "text") /\ ~ Is(v, "list")
  <2>1. ~ Is(Strip(v, sch), "text") /\ ~ Is(Strip(v, sch), "list")
    BY <1>2, KindsDiffer DEF Strip, StripObject, Is
  <2> QED
    BY <1>2, <2>1 DEF Legible, Words, WordsOf
<1>3. ASSUME NEW X, Readable(X), NEW s \in Seq(X), v = List(s)
      PROVE  Legible(Strip(v, sch)) /\ Words(Strip(v, sch)) = Words(v)
  <2>1. Words(List(s)) = Each(WordsOf, s)
    BY KindsDiffer DEF Words
  <2>2. Words(List(StrippedItems(s, sch))) = Each(WordsOf, StrippedItems(s, sch))
    BY KindsDiffer DEF Words
  <2> QED
    BY <1>3, <2>1, <2>2, ListStripped DEF Legible
<1> QED
  BY <1>1, <1>2, <1>3 DEF Legible

\* What a text is made of, and a list of texts.
TextOf(v) == IF Is(v, "list") THEN Each(Parts, Each(BareItem, v[2]))
             ELSE IF Is(v, "text") THEN Split(v) ELSE <<>>
TextsOf(v) == IF Is(v, "list") THEN Each(BareItem, v[2])
              ELSE IF Is(v, "text") THEN Each(Single, Split(v)) ELSE <<>>

\* What normalize makes of a value where the schema has a text,
LEMMA NormalizedScalar ==
  ASSUME NEW v, NEW sch, "text" \in sch.types
  PROVE  NormalizeScalar(v, sch) = Text(TextOf(v))
<1>0. Is(v, "text") => ~ Is(v, "list")
  BY DEF Is
<1>1. CASE Is(v, "list")
  BY <1>0, <1>1, Zenon DEF NormalizeScalar, TextOf
<1>2. CASE Is(v, "text")
  BY <1>0, <1>2, Zenon DEF NormalizeScalar, TextOf
<1>3. CASE ~ Is(v, "list") /\ ~ Is(v, "text")
  BY <1>3, Zenon DEF NormalizeScalar, TextOf
<1> QED
  BY <1>1, <1>2, <1>3

\* or a text for the whole field,
LEMMA NormalizedText ==
  ASSUME NEW v, NEW sch, "text" \in sch.types, "object" \notin sch.types,
         "list" \notin sch.types
  PROVE  Normalize(v, sch) = Text(TextOf(v))
<1>1. Normalize(v, sch) = NormalizeObject(v, sch)
  BY Zenon DEF Normalize
<1> QED
  BY <1>1, NormalizedScalar DEF NormalizeObject

\* or a list of texts.
LEMMA NormalizedTexts ==
  ASSUME NEW v, NEW sch, "list" \in sch.types, "text" \in sch.items.types
  PROVE  Normalize(v, sch) = List(TextsOf(v))
<1>1. Is(v, "text") => ~ Is(v, "list")
  BY DEF Is
<1>2. CASE Is(v, "text")
  BY <1>1, <1>2, Zenon DEF Normalize, TextsOf
<1>3. CASE Is(v, "list")
  BY <1>1, <1>3, Zenon DEF Normalize, TextsOf
<1>4. CASE ~ Is(v, "text") /\ ~ Is(v, "list")
  BY <1>4, Zenon DEF Normalize, TextsOf
<1> QED
  BY <1>2, <1>3, <1>4

\* Either keeps the words.
LEMMA WordsKept ==
  ASSUME NEW v, Legible(v)
  PROVE  /\ Words(Text(TextOf(v))) = Words(v) /\ Text(TextOf(v)) \in PartTexts
         /\ Words(List(TextsOf(v))) = Words(v) /\ TextsOf(v) \in Seq(PartTexts)
<1>0. /\ \A p : Words(Text(p)) = Split(Text(p)) /\ \A s : Words(List(s)) = Each(WordsOf, s)
  BY KindsDiffer DEF Words, WordsOf, Is
<1>1. CASE v \in PartTexts
  <2>1. PICK p \in Seq(Part) : v = Text(p)
    BY <1>1, TextsAreTexts
  <2>2. TextOf(v) = Split(v) /\ TextsOf(v) = Each(Single, Split(v))
    BY <2>1, KindsDiffer DEF TextOf, TextsOf, Is
  <2> QED
    BY <1>0, <2>1, <2>2, SplitIs, SplitTwice, TextToList, TextIs
<1>2. CASE ~ Is(v, "text") /\ ~ Is(v, "list")
  <2>1. TextOf(v) = << >> /\ TextsOf(v) = << >> /\ Words(v) = << >>
    BY <1>2 DEF TextOf, TextsOf, Words, WordsOf
  <2>2. << >> \in Seq(Part) /\ << >> \in Seq(PartTexts) /\ Readable(PartTexts)
    BY EmptySeq DEF Readable
  <2>3. Split(Text(<< >>)) = << >>
    BY <2>2, SplitIs, MapFlatEmpty
  <2>4. Each(WordsOf, << >>) = << >>
    BY <2>2, ItemsMapped, MapFlatEmpty
  <2> QED
    BY <1>0, <2>1, <2>2, <2>3, <2>4, TextIs
<1>3. ASSUME NEW X, Readable(X), NEW s \in Seq(X), v = List(s)
      PROVE  /\ Words(Text(TextOf(v))) = Words(v) /\ Text(TextOf(v)) \in PartTexts
             /\ Words(List(TextsOf(v))) = Words(v) /\ TextsOf(v) \in Seq(PartTexts)
  <2>1. TextOf(v) = Each(Parts, Each(BareItem, s)) /\ TextsOf(v) = Each(BareItem, s)
    BY <1>3, KindsDiffer DEF TextOf, TextsOf
  <2>2. TextOf(v) \in Seq(Part) /\ Split(Text(TextOf(v))) = Each(WordsOf, s)
    BY <1>3, <2>1, ListToText
  <2>3. TextsOf(v) \in Seq(PartTexts) /\ Each(WordsOf, TextsOf(v)) = Each(WordsOf, s)
    BY <1>3, <2>1, ListToList
  <2> QED
    BY <1>0, <1>3, <2>2, <2>3, TextIs
<1> QED
  BY <1>1, <1>2, <1>3 DEF Legible

-----------------------------------------------------------------------------
\* An object among what the schema describes: what is left of it, and when that is valid.
LEMMA ObjectNormalized ==
  ASSUME NEW x, NEW props, NEW req, NEW null
  PROVE  LET sch == ObjectOf(props, req, null)
             y == NormalizeObject(StripObject(x, sch), sch)
             ks == IF Is(x, "object") THEN DOMAIN x[2] \cap DOMAIN props ELSE {}
         IN  /\ Is(y, "object") /\ DOMAIN y[2] = ks
             /\ \A key \in ks : y[2][key] = NormalizeScalar(x[2][key], props[key])
             /\ ValidObject(y, sch) <=>
                  /\ req \subseteq ks
                  /\ \A key \in ks : NormalizeScalar(x[2][key], props[key])[1] \in props[key].types
<1> DEFINE sch == ObjectOf(props, req, null)
           y == NormalizeObject(StripObject(x, sch), sch)
           ks == IF Is(x, "object") THEN DOMAIN x[2] \cap DOMAIN props ELSE {}
<1>0. sch.types = {"object"} \cup null /\ sch.props = props /\ sch.required = req
  BY DEF ObjectOf
<1> HIDE DEF sch
<1>1. CASE Is(x, "object")
  <2>1. /\ StripObject(x, sch) = Object([key \in ks |-> x[2][key]])
    BY <1>0, <1>1 DEF StripObject
  <2>2. y = Object([key \in ks |-> NormalizeScalar(x[2][key], props[key])])
    <3>1. /\ Is(StripObject(x, sch), "object")
          /\ StripObject(x, sch)[2] = [key \in ks |-> x[2][key]]
      BY <2>1, KindsDiffer
    <3>2. ks \cap DOMAIN props = ks
      BY <1>1
    <3> HIDE DEF ks
    <3> QED
      BY <1>0, <3>1, <3>2 DEF NormalizeObject
  <2>3. /\ Is(y, "object") /\ y[2] = [key \in ks |-> NormalizeScalar(x[2][key], props[key])]
    BY <2>2, KindsDiffer
  <2> HIDE DEF ks, y
  <2> QED
    BY <1>0, <2>3 DEF ValidObject, Is, ks, y, sch
<1>2. CASE ~ Is(x, "object")
  <2>1. y = Object(<< >>) /\ ks = {}
    BY <1>0, <1>2 DEF StripObject, NormalizeObject
  <2>2. Is(y, "object") /\ DOMAIN y[2] = {}
    BY <2>1, KindsDiffer
  <2> HIDE DEF ks, y
  <2> QED
    BY <1>0, <2>1, <2>2 DEF ValidObject, Is, ks, y, sch
<1> QED
  BY <1>1, <1>2

\* What a sanitized value comes to, before a word of confidence is made a number.
Made(v, sch) == Cleaned(Strip(v, sch), sch)

\* A missing field is filled, and any other normalized.
LEMMA MadeIs ==
  ASSUME NEW v, NEW sch
  PROVE  /\ v = Missing => Made(v, sch) = EmptyPayload(sch)
         /\ v # Missing => Made(v, sch) = Normalize(Strip(v, sch), sch)
<1>1. Strip(v, sch) = Missing <=> v = Missing
  BY KindsDiffer DEF Strip, StripObject, Is
<1> QED
  BY <1>1 DEF Made, Cleaned

\* When a value is valid, by its kind.
LEMMA ListIsValid ==
  ASSUME NEW s, NEW sch
  PROVE  Validates(List(s), sch) <=> /\ "list" \in sch.types
                                     /\ \A i \in DOMAIN s : ValidObject(s[i], sch.items)
<1>1. List(s)[1] = "list" /\ List(s)[2] = s
  BY DEF List
<1> QED
  BY <1>1 DEF Validates, ValidObject, Is

\* A value that is neither list nor object has only its kind to be valid by.
LEMMA ScalarIsValid ==
  ASSUME NEW v, ~ Is(v, "list"), ~ Is(v, "object"), NEW sch
  PROVE  Validates(v, sch) <=> v[1] \in sch.types
  BY DEF Validates, ValidObject, Is

\* An object has its keys to be valid by.
LEMMA ObjectIsValid ==
  ASSUME NEW v, ~ Is(v, "list"), NEW sch
  PROVE  Validates(v, sch) <=> ValidObject(v, sch)
  BY DEF Validates, Is

\* The kind of a value is not changed by stripping.
LEMMA StripKeepsKind ==
  ASSUME NEW v, NEW sch
  PROVE  /\ Strip(v, sch)[1] = v[1]
         /\ ~ Is(v, "list") => Strip(v, sch) = StripObject(v, sch)
         /\ ~ Is(v, "list") /\ ~ Is(v, "object") => Strip(v, sch) = v
<1>1. CASE Is(v, "list")
  BY <1>1, KindsDiffer DEF Strip, Is
<1>2. CASE ~ Is(v, "list") /\ Is(v, "object")
  BY <1>2, KindsDiffer DEF Strip, StripObject, Is
<1>3. CASE ~ Is(v, "list") /\ ~ Is(v, "object")
  BY <1>3, KindsDiffer DEF Strip, StripObject, Is
<1> QED
  BY <1>1, <1>2, <1>3

\* What make_empty_payload fills a field with.
LEMMA EmptyIs ==
  ASSUME NEW sch
  PROVE  /\ "object" \notin sch.types /\ "list" \in sch.types => EmptyPayload(sch) = List(<< >>)
         /\ "object" \notin sch.types /\ "list" \notin sch.types =>
              EmptyPayload(sch) = EmptyScalar(sch)
         /\ "object" \in sch.types /\ "list" \notin sch.types =>
              EmptyPayload(sch) = Object([key \in DOMAIN sch.props |-> EmptyScalar(sch.props[key])])
<1>1. ASSUME "object" \notin sch.types, "list" \in sch.types
      PROVE  EmptyPayload(sch) = List(<< >>)
  BY <1>1, Zenon DEF EmptyPayload
<1>2. ASSUME "object" \notin sch.types, "list" \notin sch.types
      PROVE  EmptyPayload(sch) = EmptyScalar(sch)
  BY <1>2, Zenon DEF EmptyPayload
<1>3. ASSUME "object" \in sch.types, "list" \notin sch.types
      PROVE  EmptyPayload(sch) = Object([key \in DOMAIN sch.props |-> EmptyScalar(sch.props[key])])
  BY <1>3, Zenon DEF EmptyPayload
<1> QED
  BY <1>1, <1>2, <1>3

\* What the kinds of a schema's values may be.
Kinds(sch, kind) == kind \in sch.types /\ sch.types \subseteq {kind, "null"}

\* A text may be given as anything.
LEMMA TextIsValid ==
  ASSUME NEW sch, Kinds(sch, "text"), NEW v, Legible(v)
  PROVE  /\ Validates(Made(v, sch), sch)
         /\ v # Missing => Words(Made(v, sch)) = Words(v)
<1>1. "text" \in sch.types /\ "object" \notin sch.types /\ "list" \notin sch.types
      /\ "number" \notin sch.types
  BY DEF Kinds
<1>2. \A p : Validates(Text(p), sch)
  <2>1. ASSUME NEW p PROVE Validates(Text(p), sch)
    <3>1. Text(p)[1] = "text"
      BY DEF Text
    <3> QED
      BY <1>1, <3>1, ScalarIsValid DEF Is
  <2> QED
    BY <2>1
<1>3. CASE v = Missing
  <2>1. Made(v, sch) = Text(<<"Not determined">>)
    BY <1>1, <1>3, MadeIs, EmptyIs DEF EmptyScalar
  <2> QED
    BY <1>2, <1>3, <2>1
<1>4. CASE v # Missing
  <2> DEFINE u == Strip(v, sch)
  <2>1. Made(v, sch) = Normalize(u, sch)
    BY <1>4, MadeIs
  <2>2. Legible(u) /\ Words(u) = Words(v)
    BY StrippedIsLegible
  <2> HIDE DEF u
  <2>3. Made(v, sch) = Text(TextOf(u))
    BY <1>1, <2>1, NormalizedText
  <2>4. Words(Text(TextOf(u))) = Words(v)
    BY <2>2, WordsKept
  <2> QED
    BY <1>2, <2>3, <2>4
<1> QED
  BY <1>3, <1>4

\* A list of texts, too.
LEMMA TextsAreValid ==
  ASSUME NEW sch, Kinds(sch, "list"), sch.items.types = {"text"}, NEW v, Legible(v)
  PROVE  /\ Validates(Made(v, sch), sch)
         /\ v # Missing => Words(Made(v, sch)) = Words(v)
<1>1. "list" \in sch.types /\ "object" \notin sch.types /\ "text" \in sch.items.types
  BY DEF Kinds
<1>2. ASSUME NEW s \in Seq(PartTexts) PROVE Validates(List(s), sch)
  <2>1. ASSUME NEW i \in DOMAIN s PROVE ValidObject(s[i], sch.items)
    <3>1. s[i] \in PartTexts
      BY LenProperties, ElementOfSeq
    <3>2. s[i][1] = "text"
      BY <3>1, TextsAreTexts DEF Is
    <3> QED
      BY <3>2 DEF ValidObject, Is
  <2> QED
    BY <1>1, <2>1, ListIsValid
<1>3. CASE v = Missing
  <2>1. Made(v, sch) = List(<< >>)
    BY <1>1, <1>3, MadeIs, EmptyIs
  <2>2. << >> \in Seq(PartTexts)
    BY EmptySeq
  <2> QED
    BY <1>2, <1>3, <2>1, <2>2
<1>4. CASE v # Missing
  <2> DEFINE u == Strip(v, sch)
  <2>1. Made(v, sch) = Normalize(u, sch)
    BY <1>4, MadeIs
  <2>2. Legible(u) /\ Words(u) = Words(v)
    BY StrippedIsLegible
  <2> HIDE DEF u
  <2>3. Made(v, sch) = List(TextsOf(u))
    BY <1>1, <2>1, NormalizedTexts
  <2>4. Words(List(TextsOf(u))) = Words(v) /\ TextsOf(u) \in Seq(PartTexts)
    BY <2>2, WordsKept
  <2> QED
    BY <1>2, <2>3, <2>4
<1> QED
  BY <1>3, <1>4

\* A number is left as it is given, by every pass.
LEMMA NumberIsMade ==
  ASSUME NEW sch, Kinds(sch, "number"), NEW v
  PROVE  /\ v = Missing => Made(v, sch) = Number
         /\ v # Missing => Made(v, sch)[1] = v[1]
<1>1. "number" \in sch.types /\ "object" \notin sch.types /\ "list" \notin sch.types
      /\ "text" \notin sch.types
  BY DEF Kinds
<1>2. v = Missing => Made(v, sch) = Number
  BY <1>1, MadeIs, EmptyIs DEF EmptyScalar
<1>3. ASSUME v # Missing PROVE Made(v, sch) = Strip(v, sch)
  <2> DEFINE u == Strip(v, sch)
  <2>1. Made(v, sch) = Normalize(u, sch)
    BY <1>3, MadeIs
  <2> HIDE DEF u
  <2>2. Normalize(u, sch) = NormalizeObject(u, sch)
    BY <1>1, Zenon DEF Normalize
  <2>3. NormalizeObject(u, sch) = u
    BY <1>1 DEF NormalizeObject, NormalizeScalar
  <2> QED
    BY <2>1, <2>2, <2>3 DEF u
<1> QED
  BY <1>2, <1>3, StripKeepsKind

\* A list of objects is made item by item, and anything else an empty one.
LEMMA ObjectsAreMade ==
  ASSUME NEW sch, Kinds(sch, "list"), "text" \notin sch.items.types, NEW v
  PROVE  /\ ~ Is(v, "list") => Validates(Made(v, sch), sch)
         /\ \A s : v = List(s) =>
              (Validates(Made(v, sch), sch) <=>
                 \A i \in DOMAIN s :
                    ValidObject(NormalizeObject(StripObject(s[i], sch.items), sch.items), sch.items))
<1>1. "list" \in sch.types /\ "object" \notin sch.types
  BY DEF Kinds
<1>2. Validates(List(<< >>), sch)
  <2>1. DOMAIN << >> = {}
    OBVIOUS
  <2> QED
    BY <1>1, <2>1, ListIsValid
<1>3. ASSUME ~ Is(v, "list") PROVE Validates(Made(v, sch), sch)
  <2>1. CASE v = Missing
    BY <1>1, <1>2, <2>1, MadeIs, EmptyIs
  <2>2. CASE v # Missing
    <3> DEFINE u == Strip(v, sch)
    <3>1. Made(v, sch) = Normalize(u, sch) /\ ~ Is(u, "list")
      BY <1>3, <2>2, MadeIs, StripKeepsKind DEF Is
    <3> HIDE DEF u
    <3>2. Normalize(u, sch) = List(<< >>)
      BY <1>1, <3>1, Zenon DEF Normalize
    <3> QED
      BY <1>2, <3>1, <3>2
  <2> QED
    BY <2>1, <2>2
<1>4. ASSUME NEW s, v = List(s)
      PROVE  Made(v, sch) = List([i \in DOMAIN s |->
                NormalizeObject(StripObject(s[i], sch.items), sch.items)])
  <2> DEFINE u == Strip(v, sch)
             t == [i \in DOMAIN s |-> StripObject(s[i], sch.items)]
  <2>1. v # Missing
    BY <1>4, KindsDiffer DEF Is
  <2>2. Made(v, sch) = Normalize(u, sch)
    BY <2>1, MadeIs
  <2>3. u = List(t)
    BY <1>1, <1>4, KindsDiffer DEF Strip, ItemsOf
  <2> HIDE DEF u, t
  <2>4. Is(u, "list") /\ u[2] = t
    BY <2>3, KindsDiffer
  <2>5. Normalize(u, sch) = List([i \in DOMAIN u[2] |-> NormalizeObject(u[2][i], sch.items)])
    BY <1>1, <2>4, Zenon DEF Normalize
  <2>6. [i \in DOMAIN t |-> NormalizeObject(t[i], sch.items)]
        = [i \in DOMAIN s |-> NormalizeObject(StripObject(s[i], sch.items), sch.items)]
    BY DEF t
  <2> QED
    BY <2>2, <2>4, <2>5, <2>6
<1>5. ASSUME NEW s, v = List(s)
      PROVE  Validates(Made(v, sch), sch) <=>
                \A i \in DOMAIN s :
                   ValidObject(NormalizeObject(StripObject(s[i], sch.items), sch.items), sch.items)
  <2> DEFINE t == [i \in DOMAIN s |-> NormalizeObject(StripObject(s[i], sch.items), sch.items)]
  <2>1. Made(v, sch) = List(t)
    BY <1>4, <1>5
  <2>2. DOMAIN t = DOMAIN s /\ \A i \in DOMAIN s :
           t[i] = NormalizeObject(StripObject(s[i], sch.items), sch.items)
    OBVIOUS
  <2> HIDE DEF t
  <2>3. Validates(List(t), sch) <=> \A i \in DOMAIN t : ValidObject(t[i], sch.items)
    BY <1>1, ListIsValid
  <2> QED
    BY <2>1, <2>2, <2>3
<1> QED
  BY <1>3, <1>5

\* What a schema is made of.
LEMMA SchemaIs ==
    /\ \A T : Scalar(T).types = T
    /\ \A items, null : /\ ArrayOf(items, null).types = {"list"} \cup null
                        /\ ArrayOf(items, null).items = items
    /\ \A props, req, null : /\ ObjectOf(props, req, null).types = {"object"} \cup null
                             /\ ObjectOf(props, req, null).props = props
                             /\ ObjectOf(props, req, null).required = req
  BY DEF Scalar, ArrayOf, ObjectOf

\* Null is allowed where the schema is relaxed.
LEMMA NullsIs == ASSUME NEW r PROVE Nulls(r) \subseteq {"null"} /\ ("null" \in Nulls(r) <=> r)
  BY DEF Nulls

\* The kinds of each field.
LEMMA KindsOf ==
  ASSUME NEW r
  PROVE  /\ Kinds(Property("summary", r), "text")
         /\ Property("npv", r).types = {"number"} \cup Nulls(r)
         /\ Property("confidence", r).types = {"number"} \cup Nulls(r)
         /\ Kinds(Property("risks", r), "list") /\ Property("risks", r).items.types = {"text"}
         /\ Kinds(Property("text sources", r), "list")
         /\ Property("text sources", r).items.types = {"text"}
         /\ Kinds(Property("findings", r), "list") /\ Kinds(Property("sources", r), "list")
         /\ Property("sources", r).items = Source
         /\ Property("findings", r).items = Having({"claim", "evidence"}, {"text"}, r, {})
<1> DEFINE null == Nulls(r)
<1>0. null \subseteq {"null"}
  BY NullsIs
<1> HIDE DEF null
<1>1. Kinds(Property("summary", r), "text")
  <2>1. Property("summary", r) = Scalar({"text"} \cup null)
    BY PropertyIs DEF null
  <2>2. Property("summary", r).types = {"text"} \cup null
    BY <2>1, SchemaIs
  <2> QED
    BY <1>0, <2>2 DEF Kinds
<1>2. ASSUME NEW n \in {"npv", "confidence"}
      PROVE  Property(n, r).types = {"number"} \cup null
  <2>1. Property(n, r) = Scalar({"number"} \cup null)
    BY PropertyIs DEF null
  <2>2. Scalar({"number"} \cup null).types = {"number"} \cup null
    BY SchemaIs
  <2> QED
    BY <2>1, <2>2
<1>3. ASSUME NEW n \in {"risks", "text sources"}
      PROVE  Kinds(Property(n, r), "list") /\ Property(n, r).items.types = {"text"}
  <2>1. Property(n, r) = ArrayOf(Scalar({"text"}), null)
    BY PropertyIs DEF null
  <2> DEFINE sch == ArrayOf(Scalar({"text"}), null)
  <2>2. sch.types = {"list"} \cup null /\ sch.items = Scalar({"text"})
    BY SchemaIs
  <2>3. Scalar({"text"}).types = {"text"}
    BY SchemaIs
  <2> HIDE DEF sch
  <2>4. Kinds(sch, "list") /\ sch.items.types = {"text"}
    BY <1>0, <2>2, <2>3 DEF Kinds
  <2> QED
    BY <2>1, <2>4 DEF sch
<1>4. /\ Kinds(Property("findings", r), "list")
      /\ Property("findings", r).items = Having({"claim", "evidence"}, {"text"}, r, {})
  <2>1. Property("findings", r) = ArrayOf(Having({"claim", "evidence"}, {"text"}, r, {}), null)
    BY PropertyIs DEF null
  <2>2. /\ Property("findings", r).types = {"list"} \cup null
        /\ Property("findings", r).items = Having({"claim", "evidence"}, {"text"}, r, {})
    BY <2>1, SchemaIs
  <2> QED
    BY <1>0, <2>2 DEF Kinds
<1>5. Kinds(Property("sources", r), "list") /\ Property("sources", r).items = Source
  <2>1. Property("sources", r) = ArrayOf(Source, null)
    BY PropertyIs DEF null
  <2>2. Property("sources", r).types = {"list"} \cup null /\ Property("sources", r).items = Source
    BY <2>1, SchemaIs
  <2> QED
    BY <1>0, <2>2 DEF Kinds
<1>6. /\ Property("npv", r).types = {"number"} \cup null
      /\ Property("confidence", r).types = {"number"} \cup null
  BY <1>2
<1>7. /\ Kinds(Property("risks", r), "list") /\ Property("risks", r).items.types = {"text"}
      /\ Kinds(Property("text sources", r), "list")
      /\ Property("text sources", r).items.types = {"text"}
  BY <1>3
<1> QED
  BY <1>1, <1>4, <1>5, <1>6, <1>7 DEF null

\* The schema of an object with some keys of one kind.
LEMMA HavingIs ==
  ASSUME NEW keys, NEW types, NEW r, NEW null
  PROVE  LET sch == Having(keys, types, r, null)
         IN  \E props : /\ sch = ObjectOf(props, IF r THEN {} ELSE keys, null)
                        /\ DOMAIN props = keys
                        /\ \A key \in keys : props[key].types = types \cup Nulls(r)
<1> DEFINE props == [key \in keys |-> Scalar(types \cup Nulls(r))]
<1>1. Having(keys, types, r, null) = ObjectOf(props, IF r THEN {} ELSE keys, null)
  BY DEF Having
<1>2. DOMAIN props = keys /\ \A key \in keys : props[key].types = types \cup Nulls(r)
  BY SchemaIs
<1> HIDE DEF props
<1> QED
  BY <1>1, <1>2

\* A number must be given as one, and may be null where the schema is relaxed.
LEMMA NumberIsValid ==
  ASSUME NEW r \in BOOLEAN, NEW sch, sch.types = {"number"} \cup Nulls(r), NEW v
  PROVE  /\ v = Missing => Made(v, sch) = Number
         /\ v # Missing => Made(v, sch)[1] = v[1]
         /\ Validates(Number, sch)
         /\ Validates(Null, sch) <=> r
         /\ Validates(Made(v, sch), sch) <=> v = Missing \/ Is(v, "number") \/ (r /\ Is(v, "null"))
<1>0. Nulls(r) \subseteq {"null"} /\ ("null" \in Nulls(r) <=> r)
  BY NullsIs
<1>1. Kinds(sch, "number") /\ \A k : k \in sch.types <=> k = "number" \/ (k = "null" /\ r)
  BY <1>0 DEF Kinds
<1>2. v = Missing => Made(v, sch) = Number
  BY <1>1, NumberIsMade
<1>3. v # Missing => Made(v, sch)[1] = v[1]
  BY <1>1, NumberIsMade
<1>4. Number[1] = "number" /\ Null[1] = "null"
  BY DEF Number, Null
<1>5. ASSUME NEW u PROVE Validates(u, sch) <=> u[1] = "number" \/ (u[1] = "null" /\ r)
  <2>1. CASE Is(u, "list") \/ Is(u, "object")
    BY <1>1, <2>1 DEF Validates, ValidObject, Is
  <2>2. CASE ~ Is(u, "list") /\ ~ Is(u, "object")
    BY <1>1, <2>2, ScalarIsValid
  <2> QED
    BY <2>1, <2>2
<1>6. Validates(Number, sch) /\ (Validates(Null, sch) <=> r)
  BY <1>4, <1>5
<1>7. CASE v = Missing
  BY <1>2, <1>3, <1>6, <1>7
<1>8. CASE v # Missing
  BY <1>2, <1>3, <1>5, <1>6, <1>8 DEF Is
<1> QED
  BY <1>7, <1>8

\* A finding is valid exactly if it has what is required.
LEMMA FindingIsValid ==
  ASSUME NEW r \in BOOLEAN, NEW x
  PROVE  LET sch == Having({"claim", "evidence"}, {"text"}, r, {})
         IN  ValidObject(NormalizeObject(StripObject(x, sch), sch), sch)
             <=> r \/ (Holds(x, "claim") /\ Holds(x, "evidence"))
<1> DEFINE sch == Having({"claim", "evidence"}, {"text"}, r, {})
           req == IF r THEN {} ELSE {"claim", "evidence"}
<1>1. PICK props : /\ sch = ObjectOf(props, req, {}) /\ DOMAIN props = {"claim", "evidence"}
                   /\ \A key \in {"claim", "evidence"} : props[key].types = {"text"} \cup Nulls(r)
  BY HavingIs
<1> DEFINE ks == IF Is(x, "object") THEN DOMAIN x[2] \cap DOMAIN props ELSE {}
<1> HIDE DEF sch
<1>2. ValidObject(NormalizeObject(StripObject(x, sch), sch), sch)
      <=> /\ req \subseteq ks
          /\ \A key \in ks : NormalizeScalar(x[2][key], props[key])[1] \in props[key].types
  BY <1>1, ObjectNormalized
<1>3. ASSUME NEW key \in ks
      PROVE  NormalizeScalar(x[2][key], props[key])[1] \in props[key].types
  <2>1. key \in {"claim", "evidence"}
    BY <1>1
  <2>2. "text" \in props[key].types
    BY <1>1, <2>1
  <2>3. NormalizeScalar(x[2][key], props[key]) = Text(TextOf(x[2][key]))
    BY <2>2, NormalizedScalar
  <2>4. Text(TextOf(x[2][key]))[1] = "text"
    BY DEF Text
  <2> QED
    BY <2>2, <2>3, <2>4
<1>4. req \subseteq ks <=> r \/ (Holds(x, "claim") /\ Holds(x, "evidence"))
  BY <1>1 DEF Holds
<1> HIDE DEF req, ks
<1> QED
  BY <1>2, <1>3, <1>4 DEF sch

\* The costs of an object are left as they are given.
LEMMA EconomicsIsValid ==
  ASSUME NEW r \in BOOLEAN, NEW v \in Givens("unit_economics")
  PROVE  LET sch == Property("unit_economics", r)
         IN  Validates(Made(v, sch), sch)
             <=> v = Missing \/ (Costs(v) /\ (r \/ Holds(v, "total_cost")))
<1> DEFINE sch == Property("unit_economics", r)
           req == IF r THEN {} ELSE {"total_cost"}
<1>1. PICK props : /\ sch = ObjectOf(props, req, Nulls(r)) /\ DOMAIN props = {"total_cost"}
                   /\ \A key \in {"total_cost"} : props[key].types = {"number"} \cup Nulls(r)
  <2>1. sch = Having({"total_cost"}, {"number"}, r, Nulls(r))
    BY PropertyIs
  <2> HIDE DEF sch
  <2> QED
    BY <2>1, HavingIs
<1>2. sch.types = {"object"} \cup Nulls(r) /\ sch.props = props /\ sch.required = req
  BY <1>1, SchemaIs
<1>3. props["total_cost"].types = {"number"} \cup Nulls(r)
  BY <1>1
<1>4. /\ "object" \in sch.types /\ "list" \notin sch.types
      /\ "text" \notin props["total_cost"].types /\ "number" \in props["total_cost"].types
  BY <1>2, <1>3, NullsIs
<1> HIDE DEF sch
<1>5. ASSUME NEW u
      PROVE  Validates(NormalizeObject(u, sch), sch) <=> ValidObject(NormalizeObject(u, sch), sch)
  <2>1. Is(NormalizeObject(u, sch), "object")
    BY <1>4, KindsDiffer DEF NormalizeObject
  <2> QED
    BY <2>1, ObjectIsValid DEF Is
<1>6. CASE v = Missing
  <2> DEFINE o == [key \in DOMAIN props |-> EmptyScalar(props[key])]
  <2>1. Made(v, sch) = Object(o)
    BY <1>2, <1>4, <1>6, MadeIs, EmptyIs
  <2>2. DOMAIN o = {"total_cost"} /\ o["total_cost"] = Number
    BY <1>1, <1>4 DEF EmptyScalar
  <2> HIDE DEF o
  <2>3. Is(Object(o), "object") /\ Object(o)[2] = o /\ Is(Number, "number")
    BY KindsDiffer
  <2>4. \A key \in DOMAIN o : key = "total_cost" /\ o[key][1] \in sch.props[key].types
    BY <1>2, <1>4, <2>2, <2>3 DEF Is
  <2>5. req \subseteq DOMAIN o
    BY <2>2
  <2>6. ValidObject(Object(o), sch)
    BY <1>2, <1>4, <2>3, <2>4, <2>5 DEF ValidObject, Is
  <2>7. Validates(Object(o), sch)
    BY <2>3, <2>6, ObjectIsValid DEF Is
  <2> QED
    BY <1>6, <2>1, <2>7 DEF sch
<1>7. CASE v # Missing
  <2> DEFINE u == Strip(v, sch)
  <2>1. Made(v, sch) = Normalize(u, sch)
    BY <1>7, MadeIs
  <2>2. Normalize(u, sch) = NormalizeObject(u, sch)
    BY <1>4, Zenon DEF Normalize
  <2>3. Validates(Made(v, sch), sch) <=> ValidObject(NormalizeObject(u, sch), sch)
    BY <1>5, <2>1, <2>2
  <2>4. CASE Is(v, "list")
    <3>1. ~ Is(u, "object")
      BY <2>4, StripKeepsKind DEF Is
    <3> HIDE DEF u
    <3>2. NormalizeObject(u, sch) = Object(<< >>)
      BY <1>4, <3>1 DEF NormalizeObject
    <3>3. Is(Object(<< >>), "object") /\ Object(<< >>)[2] = << >> /\ DOMAIN << >> = {}
      BY KindsDiffer
    <3>4. ValidObject(Object(<< >>), sch) <=> r
      BY <1>2, <1>4, <3>3 DEF ValidObject, Is
    <3> QED
      BY <1>7, <2>3, <2>4, <3>2, <3>4 DEF Costs, Holds, Is, sch
  <2>5. CASE ~ Is(v, "list")
    <3> DEFINE ks == IF Is(v, "object") THEN DOMAIN v[2] \cap DOMAIN props ELSE {}
    <3>1. u = StripObject(v, sch)
      BY <2>5, StripKeepsKind
    <3>2. ValidObject(NormalizeObject(StripObject(v, sch), sch), sch)
          <=> /\ req \subseteq ks
              /\ \A key \in ks : NormalizeScalar(v[2][key], props[key])[1] \in props[key].types
      BY <1>1, ObjectNormalized
    <3>3. ASSUME NEW key \in ks
          PROVE  NormalizeScalar(v[2][key], props[key])[1] \in props[key].types
                 <=> v[2]["total_cost"] = Number
      <4>1. key = "total_cost" /\ Is(v, "object") /\ key \in DOMAIN v[2]
        BY <1>1
      <4>2. NormalizeScalar(v[2][key], props[key]) = v[2][key]
        BY <1>4, <4>1 DEF NormalizeScalar
      <4>3. v[2][key] \in Plain
        <5>1. v \in Items("unit_economics")
          BY <2>5, <1>7, GivenIs, KindsDiffer
        <5>2. PICK o : v = Object(o) /\ Holding(o, "unit_economics")
          BY <4>1, <5>1, ItemIs, GivenTextsAreTexts, TextsAreTexts, KindsDiffer DEF Is
        <5> QED
          BY <4>1, <5>2, KindsDiffer DEF Holding
      <4>4. ASSUME NEW x \in Plain PROVE x[1] \in {"number"} \cup Nulls(r) <=> x = Number
        <5>1. x = Number \/ x[1] = "text"
          BY KindsDiffer DEF Plain, Word, Is
        <5>2. Number[1] = "number"
          BY DEF Number
        <5> QED
          BY <5>1, <5>2, NullsIs
      <4> QED
        BY <1>3, <4>1, <4>2, <4>3, <4>4
    <3>4. "total_cost" \in ks <=> Holds(v, "total_cost")
      BY <1>1 DEF Holds
    <3>5. \A key \in ks : key = "total_cost"
      BY <1>1
    <3> HIDE DEF ks, u
    <3>6. (\A key \in ks : NormalizeScalar(v[2][key], props[key])[1] \in props[key].types)
          <=> Costs(v)
      BY <3>3, <3>4, <3>5 DEF Costs
    <3>7. req \subseteq ks <=> r \/ Holds(v, "total_cost")
      BY <3>4
    <3> QED
      BY <1>7, <2>3, <3>1, <3>2, <3>6, <3>7 DEF sch
  <2> QED
    BY <2>4, <2>5
<1> QED
  BY <1>6, <1>7

\* A source that is made an object has what it must, and nothing but words.
LEMMA SourceIsValid ==
  ASSUME NEW keys, {"id", "title"} \subseteq keys
  PROVE  ValidObject(NormalizeObject(StripObject(SourceOf(keys), Source), Source), Source)
<1> DEFINE props == [key \in {"id", "title", "url"} |-> Scalar({"text"})]
           req == {"id", "title"}
           x == SourceOf(keys)
           ks == IF Is(x, "object") THEN DOMAIN x[2] \cap DOMAIN props ELSE {}
<1>1. Source = ObjectOf(props, req, {})
  BY DEF Source
<1>2. DOMAIN props = {"id", "title", "url"} /\ \A key \in DOMAIN props : props[key].types = {"text"}
  BY SchemaIs
<1> HIDE DEF props
<1>3. Is(x, "object") /\ DOMAIN x[2] = keys
  BY KindsDiffer DEF SourceOf
<1> HIDE DEF x
<1>4. ValidObject(NormalizeObject(StripObject(x, Source), Source), Source)
      <=> /\ req \subseteq ks
          /\ \A key \in ks : NormalizeScalar(x[2][key], props[key])[1] \in props[key].types
  BY <1>1, ObjectNormalized
<1>5. ASSUME NEW key \in ks
      PROVE  NormalizeScalar(x[2][key], props[key])[1] \in props[key].types
  <2>1. "text" \in props[key].types /\ Text(TextOf(x[2][key]))[1] = "text"
    BY <1>2 DEF Text
  <2> QED
    BY <2>1, NormalizedScalar
<1>6. req \subseteq ks
  BY <1>2, <1>3
<1> HIDE DEF req, ks
<1> QED
  BY <1>4, <1>5, <1>6 DEF x

\* Tuples of one and of two.
LEMMA TuplesAre ==
    /\ \A a : DOMAIN <<a>> = {1} /\ <<a>>[1] = a
    /\ \A a, b : DOMAIN <<a, b>> = {1, 2} /\ <<a, b>>[1] = a
    /\ \A j \in 1 .. 1 - 1 : FALSE
  OBVIOUS

\* A source raises exactly if a title or a url is a number, or an id that is looked at.
LEMMA SourceRaises ==
  ASSUME field \in {"sources", "text sources"}, NEW o, Holding(o, field)
  PROVE  (\E keys \in SourceKeys : Unstrippable(o, keys))
         <=> \E key \in DOMAIN o : o[key] = Number /\ (key = "id" => field = "sources")
<1>1. ASSUME NEW key
      PROVE  /\ Truthy(o, key) <=> key \in DOMAIN o
             /\ key \in DOMAIN o => (~ Is(o[key], "text") <=> o[key] = Number)
  <2>1. ASSUME NEW x \in Plain
        PROVE  x \notin {Null, Text(<<>>)} /\ (~ Is(x, "text") <=> x = Number)
    <3>1. CASE x = Number
      BY <3>1, KindsDiffer DEF Is
    <3>2. ASSUME NEW p, x = Text(p), p # << >>
          PROVE  x \notin {Null, Text(<<>>)} /\ Is(x, "text") /\ x # Number
      <4>1. x[1] = "text" /\ x[2] = p /\ Text(<< >>)[2] = << >>
        BY <3>2 DEF Text
      <4>2. Null[1] = "null" /\ Number[1] = "number"
        BY DEF Null, Number
      <4> QED
        BY <3>2, <4>1, <4>2 DEF Is
    <3>3. x = Number \/ x = Text(<<" ">>) \/ x = Text(<<"word">>)
      BY DEF Plain, Word
    <3>4. <<" ">> # << >> /\ <<"word">> # << >>
      OBVIOUS
    <3> QED
      BY <3>1, <3>2, <3>3, <3>4
  <2> QED
    BY <2>1 DEF Truthy, Holding
<1>2. \A key \in DOMAIN o : key \in {"id", "title", "url"}
  <2>1. Keys(field) = {"id", "title", "url"}
    BY Zenon DEF Keys
  <2> QED
    BY <2>1 DEF Holding
<1>3. ASSUME NEW keys \in SourceKeys, Unstrippable(o, keys)
      PROVE  \E key \in DOMAIN o : o[key] = Number /\ (key = "id" => field = "sources")
  <2>1. PICK i \in DOMAIN keys : Truthy(o, keys[i]) /\ ~ Is(o[keys[i]], "text")
    BY <1>3 DEF Unstrippable
  <2>2. keys[i] \in DOMAIN o /\ o[keys[i]] = Number
    BY <1>1, <2>1
  <2>3. keys[i] = "id" => field = "sources"
    <3>1. CASE field # "sources"
      <4>1. keys = <<"title">> \/ keys = <<"url">>
        BY <3>1 DEF SourceKeys
      <4>2. keys[i] = "title" \/ keys[i] = "url"
        <5>1. ASSUME NEW a, keys = <<a>> PROVE keys[i] = a
          <6>1. DOMAIN <<a>> = {1} /\ <<a>>[1] = a
            BY TuplesAre
          <6>2. i \in DOMAIN <<a>>
            BY <2>1, <5>1
          <6> QED
            BY <5>1, <6>1, <6>2
        <5> QED
          BY <4>1, <5>1
      <4> QED
        BY <4>2
    <3> QED
      BY <3>1
  <2> QED
    BY <2>2, <2>3
<1>4. ASSUME NEW a \in DOMAIN o, o[a] = Number, NEW b
      PROVE  Unstrippable(o, <<a>>) /\ Unstrippable(o, <<a, b>>)
  <2>1. 1 \in DOMAIN <<a>> /\ <<a>>[1] = a
    BY TuplesAre
  <2>3. 1 \in DOMAIN <<a, b>> /\ <<a, b>>[1] = a
    BY TuplesAre
  <2>4. \A j \in 1 .. 1 - 1 : FALSE
    BY TuplesAre
  <2>2. Truthy(o, a) /\ ~ Is(o[a], "text")
    BY <1>1, <1>4
  <2> QED
    BY <2>1, <2>2, <2>3, <2>4 DEF Unstrippable
<1>5. ASSUME NEW key \in DOMAIN o, o[key] = Number, key = "id" => field = "sources"
      PROVE  \E keys \in SourceKeys : Unstrippable(o, keys)
  <2>1. CASE field = "sources"
    <3>1. SourceKeys = {<<"title", "url">>, <<"id", "url">>, <<"url">>}
      BY <2>1 DEF SourceKeys
    <3>2. Unstrippable(o, <<key>>) /\ Unstrippable(o, <<key, "url">>)
      BY <1>4, <1>5
    <3> QED
      BY <1>2, <3>1, <3>2
  <2>2. CASE field # "sources"
    <3>1. SourceKeys = {<<"title">>, <<"url">>}
      BY <2>2 DEF SourceKeys
    <3>2. Unstrippable(o, <<key>>) /\ key \in {"title", "url"}
      BY <1>2, <1>4, <1>5, <2>2
    <3> QED
      BY <3>1, <3>2
  <2> QED
    BY <2>1, <2>2
<1> QED
  BY <1>3, <1>5

\* sanitize_sources raises exactly where it is said to without the passes.
LEMMA RaisesIs ==
  ASSUME given \in Givens(field)
  PROVE  Sourced(given) /\ Raising(given[2]) <=> Raises
<1>1. ASSUME Sourced(given), NEW i \in DOMAIN given[2], Is(given[2][i], "object")
      PROVE  (\E keys \in SourceKeys : Unstrippable(given[2][i][2], keys))
             <=> \E key \in DOMAIN given[2][i][2] :
                   given[2][i][2][key] = Number /\ (key = "id" => field = "sources")
  <2>1. PICK s \in Seq(Items(field)) : given = List(s)
    <3>1. ~ given \in Items(field) /\ given # Missing
      <4>1. given[1] = "list"
        BY <1>1 DEF Sourced, Is
      <4>2. ASSUME given \in Items(field) PROVE given[1] # "list"
        BY <4>2, ItemIs, GivenTextsAreTexts, TextsAreTexts, KindsDiffer DEF Is
      <4> QED
        BY <4>1, <4>2, KindsDiffer DEF Is
    <3> QED
      BY <3>1, GivenIs
  <2>2. given[2] = s
    BY <2>1, KindsDiffer
  <2>3. s[i] \in Items(field)
    BY <1>1, <2>2, LenProperties, ElementOfSeq
  <2>4. PICK o : s[i] = Object(o) /\ Holding(o, field)
    BY <1>1, <2>2, <2>3, ItemIs, GivenTextsAreTexts, TextsAreTexts, KindsDiffer DEF Is
  <2>5. given[2][i][2] = o
    BY <2>2, <2>4, KindsDiffer
  <2> QED
    BY <1>1, <2>4, <2>5, SourceRaises DEF Sourced
<1>2. CASE Sourced(given)
  BY <1>1, <1>2 DEF Raising, Raises, Sourced
<1>3. CASE ~ Sourced(given)
  BY <1>3 DEF Raises, Sourced
<1> QED
  BY <1>2, <1>3

\* What sources become.
Sources == {SourceOf({"id", "title"}), SourceOf({"id", "title", "url"})}
asText == [x \in Items(field) |-> AsText(x)]
asObject == [x \in Items(field) |-> AsObject(x)]

\* A word is a text.
LEMMA WordIsText == Word \in PartTexts
  BY TextIs, OneIsASeq DEF Word, Part

\* A text source becomes a text, or is dropped.
LEMMA AsTextIs ==
  ASSUME NEW x \in Items(field)
  PROVE  AsText(x) \in Seq(PartTexts)
<1>1. /\ << >> \in Seq(PartTexts) /\ <<Word>> \in Seq(PartTexts)
      /\ Is(x, "text") => <<x>> \in Seq(PartTexts)
  <2>1. Is(x, "text") => x \in PartTexts
    BY ItemsReadable DEF Readable
  <2> QED
    BY <2>1, WordIsText, OneIsASeq, EmptySeq
<1>2. \/ AsText(x) = << >> \/ AsText(x) = <<Word>>
      \/ Is(x, "text") /\ AsText(x) = <<x>>
  <2>1. CASE Is(x, "text")
    <3>1. AsText(x) = IF IsLink(x) THEN <<Word>>
                      ELSE IF x \in {Text(<<>>), Text(<<" ">>)} THEN <<>> ELSE <<x>>
      <4>1. ~ Is(x, "object")
        BY <2>1 DEF Is
      <4> QED
        BY <2>1, <4>1, Zenon DEF AsText
    <3> QED
      BY <2>1, <3>1
  <2>2. CASE Is(x, "object") /\ ~ Is(x, "text")
    BY <2>2, Zenon DEF AsText
  <2>3. CASE ~ Is(x, "object") /\ ~ Is(x, "text")
    BY <2>3, Zenon DEF AsText
  <2> QED
    BY <2>1, <2>2, <2>3
<1> QED
  BY <1>1, <1>2

\* A source becomes an object of words, or is dropped.
LEMMA AsObjectIs ==
  ASSUME NEW x \in Items(field)
  PROVE  AsObject(x) \in Seq(Sources)
<1>1. /\ << >> \in Seq(Sources)
      /\ \A y \in Sources : <<y>> \in Seq(Sources)
  BY OneIsASeq, EmptySeq
<1>2. AsObject(x) = << >> \/ \E y \in Sources : AsObject(x) = <<y>>
  <2>1. CASE Is(x, "text")
    <3>1. AsObject(x) = IF x \in {Text(<<>>), Text(<<" ">>)} THEN <<>>
                        ELSE <<SourceOf({"id", "title", "url"})>>
      <4>1. ~ Is(x, "object")
        BY <2>1 DEF Is
      <4> QED
        BY <2>1, <4>1, Zenon DEF AsObject
    <3> QED
      BY <3>1 DEF Sources
  <2>2. CASE Is(x, "object") /\ ~ Is(x, "text")
    <3>1. \/ AsObject(x) = << >>
          \/ AsObject(x) = <<SourceOf({"id", "title"} \cup {"url"})>>
          \/ AsObject(x) = <<SourceOf({"id", "title"} \cup {})>>
      BY <2>2, Zenon DEF AsObject
    <3>2. {"id", "title"} \cup {"url"} = {"id", "title", "url"} /\ {"id", "title"} \cup {} = {"id", "title"}
      OBVIOUS
    <3> QED
      BY <3>1, <3>2 DEF Sources
  <2>3. CASE ~ Is(x, "object") /\ ~ Is(x, "text")
    BY <2>3, Zenon DEF AsObject
  <2> QED
    BY <2>1, <2>2, <2>3
<1> QED
  BY <1>1, <1>2

\* A list of sources becomes a list of those.
LEMMA SourcesMade ==
  ASSUME NEW s \in Seq(Items(field))
  PROVE  Each(AsText, s) \in Seq(PartTexts) /\ Each(AsObject, s) \in Seq(Sources)
<1>1. asText \in Maps(Items(field), PartTexts) /\ asObject \in Maps(Items(field), Sources)
  BY AsTextIs, AsObjectIs DEF asText, asObject, Maps
<1>2. \A i \in DOMAIN s : s[i] \in Items(field)
  BY LenProperties, ElementOfSeq
<1>3. /\ [i \in DOMAIN s |-> AsText(s[i])] = [i \in DOMAIN s |-> asText[s[i]]]
      /\ [i \in DOMAIN s |-> AsObject(s[i])] = [i \in DOMAIN s |-> asObject[s[i]]]
  BY <1>2 DEF asText, asObject
<1>4. Each(AsText, s) = MapFlat(asText, s) /\ Each(AsObject, s) = MapFlat(asObject, s)
  BY <1>3 DEF Each, MapFlat, MapOver
<1>5. MapFlat(asText, s) \in Seq(PartTexts)
  BY <1>1, MapFlatType
<1>6. MapFlat(asObject, s) \in Seq(Sources)
  BY <1>1, MapFlatType
<1> QED
  BY <1>4, <1>5, <1>6

\* What the answer is validated as.
Final == LET made == Made(Sanitized(given), Property(field, relaxed))
         IN  IF field = "confidence" THEN Confidence(made) ELSE made

\* A field that does not raise is valid exactly where it is acceptable.
LEMMA FieldJudged ==
  ASSUME field \in Described, relaxed \in BOOLEAN, given \in Givens(field),
         ~ (Sourced(given) /\ Raising(given[2]))
  PROVE  /\ Validates(Final, Property(field, relaxed)) <=> Acceptable
         /\ field \in {"summary", "risks"} /\ given # Missing => Words(Final) = Words(given)
<1> DEFINE sch == Property(field, relaxed)
<1>1. Legible(given)
  BY GivenIsLegible
<1>2. ~ Raises
  BY RaisesIs
<1>3. CASE field \notin {"sources", "text sources"}
  <2>0. Sanitized(given) = given
    BY <1>3 DEF Sanitized, Sourced
  <2>1. CASE field = "summary"
    <3>1. Kinds(sch, "text")
      BY <2>1, KindsOf
    <3>2. Final = Made(given, sch)
      BY <2>0, <2>1 DEF Final
    <3> HIDE DEF sch
    <3>3. Validates(Final, sch) /\ (given # Missing => Words(Final) = Words(given))
      BY <1>1, <3>1, <3>2, TextIsValid
    <3> QED
      BY <2>1, <3>3 DEF Acceptable, sch
  <2>2. CASE field = "risks"
    <3>1. Kinds(sch, "list") /\ sch.items.types = {"text"}
      BY <2>2, KindsOf
    <3>2. Final = Made(given, sch)
      BY <2>0, <2>2 DEF Final
    <3> HIDE DEF sch
    <3>3. Validates(Final, sch) /\ (given # Missing => Words(Final) = Words(given))
      BY <1>1, <3>1, <3>2, TextsAreValid
    <3> QED
      BY <2>2, <3>3 DEF Acceptable, sch
  <2>3. CASE field = "npv"
    <3>1. sch.types = {"number"} \cup Nulls(relaxed)
      BY <2>3, KindsOf
    <3>2. Final = Made(given, sch)
      BY <2>0, <2>3 DEF Final
    <3> HIDE DEF sch
    <3>3. Validates(Final, sch)
          <=> given = Missing \/ Is(given, "number") \/ (relaxed /\ Is(given, "null"))
      BY <3>1, <3>2, NumberIsValid
    <3>4. (Is(given, "number") <=> given = Number) /\ (Is(given, "null") <=> given = Null)
      BY GivenIs, ItemIs, GivenTextsAreTexts, TextsAreTexts, KindsDiffer DEF Is
    <3>5. Acceptable <=> given = Missing \/ given \in {Number} \cup IF relaxed THEN {Null} ELSE {}
      BY <2>3 DEF Acceptable
    <3> QED
      BY <2>3, <3>3, <3>4, <3>5 DEF sch
  <2>4. CASE field = "confidence"
    <3> DEFINE made == Made(given, sch)
    <3>1. sch.types = {"number"} \cup Nulls(relaxed)
      BY <2>4, KindsOf
    <3>2. Final = Confidence(made)
      BY <2>0, <2>4 DEF Final
    <3>3. /\ given = Missing => made = Number
          /\ given # Missing => made[1] = given[1]
      BY <3>1, NumberIsValid
    <3>4. Validates(Number, sch) /\ (Validates(Null, sch) <=> relaxed)
      BY <3>1, NumberIsValid
    <3>5. given # Missing /\ Is(given, "number") => made = Number
      <4>1. ASSUME Is(given, "number"), given # Missing PROVE made = given
        <5>1. "text" \notin sch.types /\ "list" \notin sch.types /\ "object" \notin sch.types
          BY <3>1, NullsIs
        <5>2. made = Normalize(given, sch)
          BY <4>1, MadeIs, StripKeepsKind DEF Is
        <5> HIDE DEF made, sch
        <5>3. Normalize(given, sch) = NormalizeObject(given, sch)
          BY <5>1, Zenon DEF Normalize
        <5> QED
          BY <5>1, <5>2, <5>3 DEF NormalizeObject, NormalizeScalar
      <4>2. Is(given, "number") => given = Number
        BY GivenIs, ItemIs, GivenTextsAreTexts, TextsAreTexts, KindsDiffer DEF Is
      <4> QED
        BY <4>1, <4>2
    <3> HIDE DEF made, sch
    <3>6. (Is(given, "number") <=> given = Number)
          /\ (given \in GivenTexts => Is(given, "text"))
          /\ (Is(given, "text") => given \in GivenTexts)
      BY GivenIs, ItemIs, GivenTextsAreTexts, TextsAreTexts, KindsDiffer DEF Is
    <3>7. Acceptable <=> given = Missing \/ relaxed \/ given \in {Number} \cup GivenTexts
      BY <2>4 DEF Acceptable
    <3>8. Number[1] = "number"
      BY DEF Number
    <3>9. CASE given = Missing \/ given = Number
      <4>1. made = Number
        BY <3>3, <3>5, <3>6, <3>9
      <4>2. Final = Number
        BY <3>2, <3>8, <4>1 DEF Confidence, Is
      <4> QED
        BY <2>4, <3>4, <3>7, <3>9, <4>2 DEF sch
    <3>10. CASE given # Missing /\ given # Number /\ Is(given, "text")
      <4>1. Final = Number
        BY <3>2, <3>3, <3>10 DEF Confidence, Is
      <4> QED
        BY <2>4, <3>4, <3>6, <3>7, <3>10, <4>1 DEF sch
    <3>11. CASE given # Missing /\ given # Number /\ ~ Is(given, "text")
      <4>1. Final = Null
        BY <3>2, <3>3, <3>6, <3>11 DEF Confidence, Is
      <4> QED
        BY <2>4, <3>4, <3>6, <3>7, <3>11, <4>1 DEF sch
    <3> QED
      BY <3>9, <3>10, <3>11
  <2>5. CASE field = "findings"
    <3> DEFINE item == Having({"claim", "evidence"}, {"text"}, relaxed, {})
    <3>1. Kinds(sch, "list") /\ sch.items = item
      BY <2>5, KindsOf
    <3>2. "text" \notin item.types
      BY SchemaIs DEF Having
    <3>3. Final = Made(given, sch)
      BY <2>0, <2>5 DEF Final
    <3>4. \A x : ValidObject(NormalizeObject(StripObject(x, item), item), item)
                 <=> relaxed \/ (Holds(x, "claim") /\ Holds(x, "evidence"))
      BY FindingIsValid
    <3> HIDE DEF sch, item
    <3>5. /\ ~ Is(given, "list") => Validates(Final, sch)
          /\ \A s : given = List(s) =>
               (Validates(Final, sch) <=> \A i \in DOMAIN s :
                  ValidObject(NormalizeObject(StripObject(s[i], item), item), item))
      BY <3>1, <3>2, <3>3, ObjectsAreMade
    <3>6. Acceptable <=> (relaxed \/ (Is(given, "list") => \A i \in DOMAIN given[2] :
                             Holds(given[2][i], "claim") /\ Holds(given[2][i], "evidence")))
      <4>1. given = Missing => ~ Is(given, "list")
        BY KindsDiffer DEF Is
      <4> QED
        BY <2>5, <4>1 DEF Acceptable
    <3>7. CASE Is(given, "list")
      <4>1. PICK s : given = List(s) /\ given[2] = s
        BY <3>7, GivenIs, ItemIs, GivenTextsAreTexts, TextsAreTexts, KindsDiffer DEF Is
      <4>2. Validates(Final, sch) <=> \A i \in DOMAIN s :
                  ValidObject(NormalizeObject(StripObject(s[i], item), item), item)
        BY <3>5, <4>1
      <4> QED
        BY <2>5, <3>4, <3>6, <3>7, <4>1, <4>2 DEF sch
    <3>8. CASE ~ Is(given, "list")
      BY <2>5, <3>5, <3>6, <3>8 DEF sch
    <3> QED
      BY <3>7, <3>8
  <2>6. CASE field = "unit_economics"
    <3>1. Final = Made(given, sch)
      BY <2>0, <2>6 DEF Final
    <3>2. Validates(Made(given, sch), sch)
          <=> given = Missing \/ (Costs(given) /\ (relaxed \/ Holds(given, "total_cost")))
      BY <2>6, EconomicsIsValid
    <3>3. Acceptable
          <=> given = Missing \/ (Costs(given) /\ (relaxed \/ Holds(given, "total_cost")))
      BY <2>6 DEF Acceptable
    <3> QED
      BY <2>6, <3>1, <3>2, <3>3
  <2> QED
    BY <1>3, <2>1, <2>2, <2>3, <2>4, <2>5, <2>6 DEF Described
<1>4. CASE field \in {"sources", "text sources"}
  <2>0. Acceptable
    BY <1>2, <1>4 DEF Acceptable
  <2>1. Is(given, "list") => \E s \in Seq(Items(field)) : given = List(s) /\ given[2] = s
    BY GivenIs, ItemIs, GivenTextsAreTexts, TextsAreTexts, KindsDiffer DEF Is
  <2>2. Final = Made(Sanitized(given), sch)
    BY <1>4 DEF Final
  <2>3. CASE field = "text sources"
    <3>1. Kinds(sch, "list") /\ sch.items.types = {"text"}
      BY <2>3, KindsOf
    <3>2. Legible(Sanitized(given))
      <4>1. CASE Is(given, "list")
        <5>1. PICK s \in Seq(Items(field)) : given = List(s) /\ given[2] = s
          BY <2>1, <4>1
        <5>2. Sanitized(given) = List(Each(AsText, s))
          BY <2>3, <4>1, <5>1 DEF Sanitized, Sourced
        <5>3. Each(AsText, s) \in Seq(PartTexts) /\ Readable(PartTexts)
          BY SourcesMade DEF Readable
        <5> QED
          BY <5>2, <5>3 DEF Legible
      <4>2. CASE ~ Is(given, "list")
        BY <1>1, <4>2 DEF Sanitized, Sourced
      <4> QED
        BY <4>1, <4>2
    <3> HIDE DEF sch
    <3>3. Validates(Final, sch)
      BY <2>2, <3>1, <3>2, TextsAreValid
    <3> QED
      BY <2>0, <2>3, <3>3 DEF sch
  <2>4. CASE field = "sources"
    <3>1. Kinds(sch, "list") /\ sch.items = Source
      BY <2>4, KindsOf
    <3>2. "text" \notin Source.types
      BY SchemaIs DEF Source
    <3> HIDE DEF sch
    <3>3. Validates(Final, sch)
      <4>1. CASE Is(given, "list")
        <5>1. PICK s \in Seq(Items(field)) : given = List(s) /\ given[2] = s
          BY <2>1, <4>1
        <5> DEFINE t == Each(AsObject, s)
        <5>2. Sanitized(given) = List(t)
          BY <2>4, <4>1, <5>1 DEF Sanitized, Sourced
        <5>3. t \in Seq(Sources)
          BY SourcesMade
        <5> HIDE DEF t
        <5>4. ASSUME NEW i \in DOMAIN t
              PROVE  ValidObject(NormalizeObject(StripObject(t[i], Source), Source), Source)
          <6>1. t[i] \in Sources
            BY <5>3, LenProperties, ElementOfSeq
          <6>2. PICK keys : t[i] = SourceOf(keys) /\ {"id", "title"} \subseteq keys
            BY <6>1 DEF Sources
          <6> QED
            BY <6>2, SourceIsValid
        <5> QED
          BY <2>2, <3>1, <3>2, <5>2, <5>4, ObjectsAreMade
      <4>2. CASE ~ Is(given, "list")
        <5>1. Sanitized(given) = given
          BY <4>2 DEF Sanitized, Sourced
        <5> QED
          BY <2>2, <3>1, <3>2, <4>2, <5>1, ObjectsAreMade
      <4> QED
        BY <4>1, <4>2
    <3> QED
      BY <2>0, <2>4, <3>3 DEF sch
  <2> QED
    BY <1>4, <2>3, <2>4
<1> QED
  BY <1>3, <1>4

-----------------------------------------------------------------------------
\* What a value is before each of the passes, and that nothing has raised since.
PayloadInv ==
    /\ cleaning \in {"asked", "sanitize", "strip", "normalize", "validate",
                     "valid", "invalid", "raised"}
    /\ cleaning # "asked" =>
           field \in Described /\ relaxed \in BOOLEAN /\ given \in Givens(field)
    /\ cleaning = "sanitize" => value = given
    /\ cleaning = "raised" => Raises
    /\ cleaning \in {"strip", "normalize", "validate", "valid", "invalid"} =>
           ~ (Sourced(given) /\ Raising(given[2]))
    /\ cleaning = "strip" => value = Sanitized(given)
    /\ cleaning = "normalize" => value = Strip(Sanitized(given), Property(field, relaxed))
    /\ cleaning = "validate" => value = Made(Sanitized(given), Property(field, relaxed))
    /\ cleaning \in {"valid", "invalid"} =>
           /\ value = Final
           /\ cleaning = "valid" <=> Validates(Final, Property(field, relaxed))

\* The invariant holds at the start, every step keeps it, and it says enough.
LEMMA PayloadInductive ==
  /\ PayloadInit => PayloadInv
  /\ PayloadInv /\ [PayloadNext]_payloadVars => PayloadInv'
  /\ PayloadInv => CleanedAsGiven
<1>1. PayloadInit => PayloadInv
  BY DEF PayloadInit, PayloadInv
<1>2. PayloadInv /\ [PayloadNext]_payloadVars => PayloadInv'
  <2> SUFFICES ASSUME PayloadInv, [PayloadNext]_payloadVars PROVE PayloadInv'
    OBVIOUS
  <2>1. CASE Receive
    BY <2>1 DEF Receive, PayloadInv
  <2>2. CASE Sanitize /\ UNCHANGED <<field, relaxed, given>>
    <3>1. /\ field' = field /\ relaxed' = relaxed /\ given' = given
          /\ cleaning = "sanitize" /\ value = given
          /\ field \in Described /\ relaxed \in BOOLEAN /\ given \in Givens(field)
      BY <2>2 DEF Sanitize, PayloadInv
    <3>2. CASE Sourced(value) /\ Raising(value[2])
      <4>1. cleaning' = "raised"
        BY <2>2, <3>2 DEF Sanitize
      <4>2. Raises'
        BY <3>1, <3>2, RaisesIs DEF Raises
      <4> QED
        BY <3>1, <4>1, <4>2 DEF PayloadInv
    <3>3. CASE ~ (Sourced(value) /\ Raising(value[2]))
      <4>1. cleaning' = "strip" /\ value' = Sanitized(given)
        BY <2>2, <3>1, <3>3 DEF Sanitize
      <4>2. Sanitized(given)' = Sanitized(given)
        BY <3>1 DEF Sanitized, Sourced
      <4>3. (Sourced(given) /\ Raising(given[2]))' <=> (Sourced(given) /\ Raising(given[2]))
        BY <3>1 DEF Sourced, Raising, SourceKeys
      <4> QED
        BY <3>1, <3>3, <4>1, <4>2, <4>3 DEF PayloadInv
    <3> QED
      BY <3>2, <3>3
  <2>3. ASSUME StripUnknown \/ NormalizeAndFill \/ Validate \/ UNCHANGED payloadVars,
               UNCHANGED <<field, relaxed, given>>
        PROVE  PayloadInv'
    <3>0. field' = field /\ relaxed' = relaxed /\ given' = given
      BY <2>3
    <3>1. /\ Sanitized(given)' = Sanitized(given)
          /\ (Sourced(given) /\ Raising(given[2]))' <=> (Sourced(given) /\ Raising(given[2]))
          /\ Property(field, relaxed)' = Property(field, relaxed)
          /\ Raises' <=> Raises
          /\ Final' = Final
      BY <3>0 DEF Sanitized, Sourced, Raising, SourceKeys, Final, Raises
    <3>2. CASE StripUnknown
      BY <2>3, <3>1, <3>2 DEF StripUnknown, PayloadInv
    <3>3. CASE NormalizeAndFill
      BY <2>3, <3>1, <3>3 DEF NormalizeAndFill, PayloadInv, Made
    <3>4. CASE Validate
      <4>1. value' = Final
        BY <3>4 DEF Validate, PayloadInv, Final
      <4>2. cleaning' = IF Validates(Final, Property(field, relaxed)) THEN "valid" ELSE "invalid"
        BY <3>0, <3>4, <4>1 DEF Validate
      <4>3. cleaning = "validate" /\ field \in Described /\ relaxed \in BOOLEAN
            /\ given \in Givens(field) /\ ~ (Sourced(given) /\ Raising(given[2]))
        BY <3>4 DEF Validate, PayloadInv
      <4>4. Validates(Final, Property(field, relaxed))' <=> Validates(Final, Property(field, relaxed))
        BY <3>1
      <4> QED
        BY <3>0, <3>1, <4>1, <4>2, <4>3, <4>4 DEF PayloadInv
    <3>5. CASE UNCHANGED payloadVars
      <4>1. cleaning' = cleaning /\ value' = value
        BY <3>5 DEF payloadVars
      <4>2. Validates(Final, Property(field, relaxed))' <=> Validates(Final, Property(field, relaxed))
        BY <3>1
      <4> QED
        BY <3>0, <3>1, <4>1, <4>2 DEF PayloadInv
    <3> QED
      BY <2>3, <3>2, <3>3, <3>4, <3>5
  <2> QED
    BY <2>1, <2>2, <2>3 DEF PayloadNext, payloadVars
<1>3. PayloadInv => CleanedAsGiven
  <2> SUFFICES ASSUME PayloadInv, cleaning \in {"valid", "invalid", "raised"}
               PROVE  /\ cleaning = "raised" <=> Raises
                      /\ cleaning = "valid" <=> Acceptable
                      /\ field \in {"summary", "risks"} /\ given # Missing =>
                             Words(value) = Words(given)
    BY DEF CleanedAsGiven
  <2>1. field \in Described /\ relaxed \in BOOLEAN /\ given \in Givens(field)
    BY DEF PayloadInv
  <2>2. CASE cleaning = "raised"
    <3>1. Raises
      BY <2>2 DEF PayloadInv
    <3>2. given # Missing /\ field \in {"sources", "text sources"}
      BY <3>1, KindsDiffer DEF Raises, Is
    <3>3. ~ Acceptable
      BY <3>1, <3>2 DEF Acceptable
    <3> QED
      BY <2>2, <3>1, <3>2, <3>3
  <2>3. CASE cleaning \in {"valid", "invalid"}
    <3>1. /\ ~ (Sourced(given) /\ Raising(given[2]))
          /\ value = Final
          /\ cleaning = "valid" <=> Validates(Final, Property(field, relaxed))
      BY <2>3 DEF PayloadInv
    <3>2. ~ Raises
      BY <2>1, <3>1, RaisesIs
    <3> QED
      BY <2>1, <2>3, <3>1, <3>2, FieldJudged
  <2> QED
    BY <2>2, <2>3
<1> QED
  BY <1>1, <1>2, <1>3

\* Whatever a field is given as, by lists of any length: sanitize_sources raises
\* exactly for the numbers it cannot strip, run_with_spec's validation accepts exactly
\* what is acceptable, and clean_json_payload loses no word of a summary or of risks.
THEOREM CleaningIsExact == PayloadSpec => []CleanedAsGiven
<1>1. PayloadSpec => []PayloadInv
  BY PayloadInductive, PTL DEF PayloadSpec
<1> QED
  BY <1>1, PayloadInductive, PTL
-----------------------------------------------------------------------------
\* Put together as the model checker runs them, each of the eight components does only
\* what it does alone: nothing that one of them relies on is changed by another.
THEOREM AgentsCompose ==
    AgentsSpec =>
        /\ Spec /\ GraphSafety /\ LlmSpec /\ AliasSpec /\ ConnectorSpec /\ RoutingSpec
        /\ ModelRouteSpec /\ PayloadSpec
<1>1. AgentsInit => /\ Init /\ GraphInit /\ LlmInit /\ AliasInit /\ ConnectorInit
                    /\ RoutingInit /\ ModelInit /\ PayloadInit
  BY DEF AgentsInit
<1>2. ASSUME [AgentsNext]_agentsVars
      PROVE  /\ [Next]_vars /\ [GraphNext]_<<toolVars, graphVars>> /\ [LlmNext]_llmVars
             /\ [AliasNext]_aliasVars /\ [ConnectorNext]_connectorVars
             /\ [RoutingNext]_routingVars /\ [ModelNext]_modelVars /\ [PayloadNext]_payloadVars
  BY <1>2 DEF AgentsNext, agentsVars, around, inside, LadderTask, LadderRest, GraphRest, Next
<1> QED
  BY <1>1, <1>2, PTL DEF AgentsSpec, Spec, GraphSafety, LlmSpec, AliasSpec, ConnectorSpec,
     RoutingSpec, ModelRouteSpec, PayloadSpec

\* Around an agent's answer every component keeps what it is checked for: a task's calls
\* and its verdict, the cap on tools, the spans and answers of the pipeline, the announced
\* limit, the names put back, the rate of searches, the role that answers, the room of a
\* model taken over to, and the cleaning of the fields.
THEOREM AgentsKeep ==
    AgentsSpec =>
        /\ []CallsBounded /\ []LastTextJudged /\ LadderIsTask
        /\ []CapOvershootBounded /\ []OwnSpanTraced /\ []AnswerWhole
        /\ []StopAnnounced /\ []NamesRestored /\ []RateKept /\ []RoleAnswers
        /\ []FailoverFits /\ []CleanedAsGiven
  BY AgentsCompose, CallsRunOut, VerdictIsLast, LadderIsATask, GraphUsesTools, OwnSpansTraced,
     AnswerIsWhole, LimitAnnounced, NamesAreRestored, RateIsKept, RoleIsAnswered,
     FailoverHasRoom, CleaningIsExact, PTL
=============================================================================
