------------------------------ MODULE LlmCall -------------------------------
(***************************************************************************)
(* One question put to the model, from an agent down to the requests       *)
(* (core/llm_client.py, core/agents/prompt_agent.py, base_agent.py), and   *)
(* what the session makes of the tokens the replies report (utils/usage.py *)
(* and log_usage).  A session asks, run after run, one question at a time. *)
(*                                                                         *)
(* A reply is what run_with_spec makes of it; its tokens are a small       *)
(* number, and the prices are left out: the budget in dollars is compared  *)
(* with its limit as the tokens are with theirs.                           *)
(***************************************************************************)
EXTENDS Naturals

CONSTANTS
    Limit,     \* session_state["max_tokens"]; 0 stops a run but sends no event
    Sizes,     \* tokens a reply may report
    MaxRuns    \* bound: runs of the session

ASSUME LlmAssumption ==
    Limit \in Nat /\ Sizes \subseteq Nat /\ MaxRuns \in Nat \ {0}

Callers == {"run_with_spec", "base_run", "llm_call"}

\* valid: parses and meets the schema; unsourced: valid, but the sources that
\* retrieval should have given are missing; foreign: JSON of another shape, of
\* which only the schema's defaults are left; repairable: valid once repaired;
\* broken: repaired, it still fails the schema; hopeless: cannot be repaired.
Replies == {"valid", "unsourced", "foreign", "repairable", "broken", "hopeless"}

VARIABLES
    place,     \* where the question is: rest, responses, chat, replied
    caller,
    round,     \* of run_with_spec: 1 the prompt, 2 the minimal fallback
    tries,     \* attempts at the Responses API in this call_openai
    reply,
    verdict,   \* how the last question ended
    used,      \* usage.total_tokens
    flags,     \* _usage_flags of the tokens
    announced, \* the run's telemetry events
    runs,      \* history: runs begun
    carried,   \* history: the flags the run began with
    requests   \* history: requests made for this question

llmVars == <<place, caller, round, tries, reply, verdict, used, flags, announced,
             runs, carried, requests>>

NoFlags == [crossed |-> FALSE, exceeded |-> FALSE]

LlmInit ==
    /\ place = "rest" /\ caller = "llm_call" /\ round = 1 /\ tries = 0
    /\ reply = "hopeless" /\ verdict = "none"
    /\ used = 0 /\ flags = NoFlags /\ announced = {}
    /\ runs = 1 /\ carried = NoFlags /\ requests = 0

usage == <<used, flags, announced, runs, carried>>

-----------------------------------------------------------------------------
\* within_limits, by which _run stops, and thresholds, by which events are sent.
WithinLimits == used <= Limit

FlagsOf(n) ==
    [crossed |-> Limit > 0 /\ 10 * n >= 8 * Limit, exceeded |-> Limit > 0 /\ n >= Limit]

\* Mutant: one event for a reply that crosses both thresholds.
CrossingsOneAtATime(new) ==
    IF new.crossed /\ ~flags.crossed THEN {"crossed"}
    ELSE IF new.exceeded /\ ~flags.exceeded THEN {"exceeded"} ELSE {}

\* An event is sent when a flag rises.
Crossings(new) == {f \in {"crossed", "exceeded"} : new[f] /\ ~flags[f]}

\* log_usage.
Account(n) ==
    LET new == FlagsOf(used + n)
    IN  /\ used' = used + n
        /\ announced' = announced \cup Crossings(new)
        /\ flags' = new
        /\ UNCHANGED <<runs, carried>>

\* A run that is started: the usage is reset, the flags are not.
NewRun ==
    /\ place = "rest" /\ runs < MaxRuns
    /\ used' = 0 /\ announced' = {}
    /\ runs' = runs + 1 /\ carried' = flags
    /\ UNCHANGED <<place, caller, round, tries, reply, verdict, flags, requests>>

\* A run within its limits goes on asking.
Ask(c) ==
    /\ place = "rest" /\ WithinLimits
    /\ caller' = c /\ round' = 1 /\ tries' = 0 /\ requests' = 0 /\ verdict' = "none"
    /\ place' \in {"responses", "chat"}     \* chat: a seeded request
    /\ UNCHANGED <<reply, usage>>

-----------------------------------------------------------------------------
Ends(v) == place' = "rest" /\ verdict' = v

\* No key, or a dry run: an empty or a stub text, and no request.
AnswerWithoutRequest ==
    /\ place = "responses" /\ tries = 0
    /\ reply' = "hopeless" /\ place' = "replied"
    /\ UNCHANGED <<caller, round, tries, verdict, usage, requests>>

Reply ==
    /\ place \in {"responses", "chat"}
    /\ requests' = requests + 1
    /\ reply' \in Replies /\ place' = "replied"
    /\ UNCHANGED <<caller, round, tries, verdict, usage>>

\* 404, as a status or in the message of an error.
NotFound ==
    /\ place = "responses"
    /\ requests' = requests + 1
    /\ place' = "chat"
    /\ UNCHANGED <<caller, round, tries, reply, verdict, usage>>

\* 429, 5xx or any other error is tried again, four times in all.
LastAttempt == tries = 3

TryAgain ==
    /\ place = "responses" /\ ~LastAttempt
    /\ requests' = requests + 1 /\ tries' = tries + 1
    /\ UNCHANGED <<place, caller, round, reply, verdict, usage>>

\* Another status, a TypeError, the last attempt, or a failing chat request.
Raise ==
    /\ place \in {"responses", "chat"}
    /\ requests' = requests + 1
    /\ Ends("raised")
    /\ UNCHANGED <<caller, round, tries, reply, usage>>

-----------------------------------------------------------------------------
\* llm_call accounts for the reply, and so does BaseAgent.run if it reports a
\* usage; but in a thread of a pool log_usage returns at once.
Deliver ==
    /\ place = "replied" /\ caller # "run_with_spec"
    /\ \/ \E n \in Sizes : Account(n)
       \/ UNCHANGED usage
    /\ Ends("given")
    /\ UNCHANGED <<caller, round, tries, reply, requests>>

\* run_with_spec accounts for nothing.
Judged == place = "replied" /\ caller = "run_with_spec"

GiveValid ==
    /\ Judged
    /\ \/ round = 1 /\ reply \in {"valid", "foreign", "repairable"} /\ Ends("given")
       \/ round = 2 /\ reply \in {"valid", "foreign", "unsourced"} /\ Ends("fallback")
       \/ round = 2 /\ reply \in {"repairable", "broken", "hopeless"} /\ Ends("empty")
    /\ UNCHANGED <<caller, round, tries, reply, usage, requests>>

\* A repaired answer that fails the schema raises: the fallback is not tried.
RaiseBroken ==
    /\ Judged /\ round = 1 /\ reply = "broken"
    /\ Ends("raised")
    /\ UNCHANGED <<caller, round, tries, reply, usage, requests>>

AskFallback ==
    /\ Judged /\ round = 1 /\ reply \in {"unsourced", "hopeless"}
    /\ round' = 2 /\ tries' = 0
    /\ place' \in {"responses", "chat"}
    /\ UNCHANGED <<caller, reply, verdict, usage, requests>>

LlmNext ==
    \/ NewRun \/ \E c \in Callers : Ask(c)
    \/ AnswerWithoutRequest \/ Reply \/ NotFound \/ TryAgain \/ Raise
    \/ Deliver \/ GiveValid \/ RaiseBroken \/ AskFallback

LlmSpec == LlmInit /\ [][LlmNext]_llmVars

-----------------------------------------------------------------------------
LlmTypeOK ==
    /\ place \in {"rest", "responses", "chat", "replied"}
    /\ caller \in Callers /\ round \in 1 .. 2 /\ tries \in 0 .. 3
    /\ reply \in Replies
    /\ verdict \in {"none", "given", "fallback", "empty", "raised"}
    /\ used \in Nat /\ runs \in 1 .. MaxRuns
    /\ flags \in [crossed : BOOLEAN, exceeded : BOOLEAN]
    /\ carried \in [crossed : BOOLEAN, exceeded : BOOLEAN]
    /\ announced \subseteq {"crossed", "exceeded"}

\* Retries, the change to the chat API and the fallback prompt multiply: one
\* question of an agent never makes more than ten requests, five for a call.
RequestsBounded == requests <= IF round = 2 THEN 10 ELSE 5

\* A run that is over its limit has sent both events, in whatever steps its
\* usage grew, unless the flags of the session's run before it were still up.
StopAnnounced ==
    Limit > 0 /\ ~WithinLimits =>
        \A f \in {"crossed", "exceeded"} : f \in announced \/ carried[f]
=============================================================================
