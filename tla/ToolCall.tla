------------------------------ MODULE ToolCall ------------------------------
(***************************************************************************)
(* A tool called through the router (core/tool_router.py): the checks, the *)
(* cap on calls, the answers kept on disk (dr_rd/cache/file_cache.py) and  *)
(* the spans filed for every call (core/provenance.py).  The counter, the  *)
(* list of spans and the stack of open spans are one each for the process, *)
(* and several threads call (core/graph): a step is what runs between two  *)
(* calls at which the interpreter may switch threads.                      *)
(*                                                                         *)
(* One tool is modelled, with a ttl and schemas; a span's id is its place  *)
(* in the list of events.                                                  *)
(***************************************************************************)
EXTENDS Naturals, Sequences, FiniteSets

CONSTANTS
    Threads,
    Params,     \* digests of parameters
    ToolLimit,  \* the least of max_calls and the budget's max_tool_calls
    Outcomes    \* what the tool may do

ASSUME ToolAssumption ==
    /\ ToolLimit \in Nat
    /\ IsFiniteSet(Threads) /\ Threads # {}
    /\ Outcomes \subseteq {"raises", "slow", "malformed", "good"}

VARIABLES
    counted,    \* meta.calls
    cache,      \* the arguments with an answer that is within its ttl
    events,     \* _EVENTS, with the number of lines each has in provenance.jsonl
    stack,      \* _STACK
    step,       \* where each thread is in call_tool
    params,     \* its arguments
    span,       \* its span
    outcome     \* what its last call has come to

toolVars == <<counted, cache, events, stack, step, params, span, outcome>>

ToolInit ==
    /\ counted = 0 /\ cache = {}
    /\ events = <<>> /\ stack = <<>>
    /\ step = [t \in Threads |-> "out"]
    /\ params \in [Threads -> Params]
    /\ span = [t \in Threads |-> 0]
    /\ outcome = [t \in Threads |-> "none"]

StepTo(t, s) == step' = [step EXCEPT ![t] = s]
Gets(t, o) == outcome' = [outcome EXCEPT ![t] = o]

-----------------------------------------------------------------------------
\* Not registered, not allowed, disabled, or against the input schema.
Reject(t) ==
    /\ step[t] = "out"
    /\ Gets(t, "rejected")
    /\ UNCHANGED <<counted, cache, events, stack, step, params, span>>

\* Mutant: the cap itself is still let through.
WithinCapInclusive == counted <= ToolLimit

WithinCap == counted < ToolLimit

\* The cap is tested once, here.
Call(t) ==
    /\ step[t] = "out"
    /\ IF WithinCap
       THEN StepTo(t, "admitted") /\ UNCHANGED outcome
       ELSE Gets(t, "capped") /\ UNCHANGED step
    /\ UNCHANGED <<counted, cache, events, stack, params, span>>

Top == IF stack = <<>> THEN 0 ELSE stack[Len(stack)]

\* The cache is asked; hit or not, the call is filed under the span on top.
Look(t) ==
    /\ step[t] = "admitted"
    /\ Gets(t, IF params[t] \in cache THEN "hit" ELSE "none")
    /\ events' = Append(events, [parent |-> Top, by |-> t, ended |-> FALSE, lines |-> 0])
    /\ span' = [span EXCEPT ![t] = Len(events) + 1]
    /\ StepTo(t, "filed")
    /\ UNCHANGED <<counted, cache, stack, params>>

Push(t) ==
    /\ step[t] = "filed"
    /\ stack' = Append(stack, span[t])
    /\ StepTo(t, IF outcome[t] = "hit" THEN "ran" ELSE "running")
    /\ UNCHANGED <<counted, cache, events, params, span, outcome>>

\* A tool that raises leaves its span open and on the stack, and is not counted.
Run(t) ==
    /\ step[t] = "running"
    /\ \E o \in Outcomes :
        /\ Gets(t, o)
        /\ StepTo(t, IF o = "raises" THEN "out" ELSE "ran")
    /\ UNCHANGED <<counted, cache, events, stack, params, span>>

\* An event that end_span has completed and written once more.
Closed(e) == [parent |-> e.parent, by |-> e.by, ended |-> TRUE, lines |-> e.lines + 1]

\* Only a span on top leaves the stack.
SpanEnded(t) ==
    /\ events' = [events EXCEPT ![span[t]] = Closed(@)]
    /\ stack' = IF Top = span[t] THEN SubSeq(stack, 1, Len(stack) - 1) ELSE stack

\* A call is counted when its tool has run; a hit is not counted.
End(t) ==
    /\ step[t] = "ran"
    /\ SpanEnded(t)
    /\ IF outcome[t] = "hit"
       THEN StepTo(t, "out") /\ UNCHANGED counted
       ELSE StepTo(t, "counted") /\ counted' = counted + 1
    /\ UNCHANGED <<cache, params, span, outcome>>

\* Too slow or malformed, the result is not given; a good one is kept.
Keep(t) ==
    /\ step[t] = "counted"
    /\ cache' = IF outcome[t] = "good" THEN cache \cup {params[t]} ELSE cache
    /\ StepTo(t, "out")
    /\ UNCHANGED <<counted, events, stack, params, span, outcome>>

\* An answer outlives its ttl, or its file cannot be read.
Outdate ==
    /\ \E p \in cache : cache' = cache \ {p}
    /\ UNCHANGED <<counted, events, stack, step, params, span, outcome>>

Within(t) == Look(t) \/ Push(t) \/ Run(t) \/ End(t) \/ Keep(t)

ToolNext ==
    \/ \E t \in Threads : Reject(t) \/ Call(t) \/ Within(t)
    \/ Outdate

ToolSpec == ToolInit /\ [][ToolNext]_toolVars

-----------------------------------------------------------------------------
ToolTypeOK ==
    /\ counted \in Nat
    /\ cache \subseteq Params
    /\ events \in Seq([parent : Nat, by : Threads, ended : BOOLEAN, lines : Nat])
    /\ stack \in Seq(Nat)
    /\ step \in [Threads -> {"out", "admitted", "filed", "running", "ran", "counted"}]
    /\ params \in [Threads -> Params]
    /\ span \in [Threads -> Nat]
    /\ outcome \in [Threads -> Outcomes \cup {"none", "hit", "rejected", "capped"}]

\* The cap is tested before a tool runs and the call counted after it: threads
\* that call together pass the test together.  The count exceeds the cap by no
\* more than the other threads, however calls, hits, failures and timeouts mix.
CapOvershootBounded == counted <= ToolLimit + Cardinality(Threads) - 1

\* Every span filed is written to provenance.jsonl exactly once, but for the
\* spans of calls under way and of tools that raised, which stay on the stack.
SpansAccounted ==
    \A i \in DOMAIN events :
        /\ events[i].lines = IF events[i].ended THEN 1 ELSE 0
        /\ ~events[i].ended =>
              \/ \E t \in Threads : span[t] = i /\ step[t] = "filed"
              \/ \E k \in DOMAIN stack : stack[k] = i
=============================================================================
