--------------------------- MODULE ResilientChat ---------------------------
(***************************************************************************)
(* chat (utils/llm_client.py): callers ask the models of a chain in turn,  *)
(* with retries, a response cache, and a circuit breaker (utils/circuit.py)*)
(* whose state is one JSON file that every caller loads, changes and       *)
(* rewrites without a lock.                                                *)
(*                                                                         *)
(* All callers send one payload.  An entry's "until" is the Boolean        *)
(* "still ahead"; a file being written reads as no entries at all.         *)
(***************************************************************************)
EXTENDS Naturals, Sequences, FiniteSets

CONSTANTS Callers,   \* threads and processes that share .dr_rd
          Models,    \* provider and model pairs
          Chain,     \* fallback_chain(mode)
          Shapes,    \* what providers answer: "mapping", "object"
          Streaming, \* the callers that ask for a stream
          Attempts,  \* calls of one model before the next is asked
          Threshold, \* THRESH_FAILS
          MaxChats   \* bound on the chats begun

ASSUME ChatAssumption ==
    /\ Chain \in Seq(Models)
    /\ Shapes \subseteq {"mapping", "object"} /\ Streaming \subseteq Callers
    /\ Attempts \in Nat \ {0} /\ Threshold \in Nat \ {0} /\ MaxChats \in Nat

Cap(n) == IF n > Threshold THEN Threshold ELSE n
Entry == [fails : 0 .. Threshold, open : BOOLEAN, half : BOOLEAN]
NoEntry == [fails |-> 0, open |-> FALSE, half |-> FALSE]
Circuits == [Models -> Entry]
Empty == [m \in Models |-> NoEntry]

VARIABLES
    file,     \* circuits.json as last written
    torn,     \* whether it does not parse: being written, or mixed
    cached,   \* models with a fresh cached response
    at,       \* at[c]: where caller c is
    index,    \* index[c]: position in the chain
    attempt,  \* attempt[c]
    copy,     \* copy[c]: the circuits that c loaded and is about to write
    then,     \* then[c]: where c goes after the write
    overlap,  \* callers whose write began before another one ended
    result,   \* result[c]: "none", "answer", "cached", "nothing"
    chats,    \* chats begun
    shape,    \* shape[c]: what the provider shape in the present chat
    failures  \* history: failures[m]: failures recorded, capped

circuit == <<file, torn, overlap>>
vars == <<circuit, cached, at, index, attempt, copy, then, result, chats,
          shape, failures>>

Init ==
    /\ file = Empty /\ torn = FALSE
    /\ cached = {}
    /\ at = [c \in Callers |-> "idle"]
    /\ index = [c \in Callers |-> 1]
    /\ attempt = [c \in Callers |-> 0]
    /\ copy = [c \in Callers |-> Empty]
    /\ then = [c \in Callers |-> "idle"]
    /\ overlap = {}
    /\ result = [c \in Callers |-> "none"]
    /\ chats = 0
    /\ shape = [c \in Callers |-> "none"]
    /\ failures = [m \in Models |-> 0]

Model(c) == Chain[index[c]]
Goto(c, place) == at' = [at EXCEPT ![c] = place]

-----------------------------------------------------------------------------
Chat(c) ==
    /\ at[c] = "idle" /\ chats < MaxChats
    /\ chats' = chats + 1
    /\ result' = [result EXCEPT ![c] = "none"]
    /\ shape' = [shape EXCEPT ![c] = "none"]
    /\ Goto(c, "model")
    /\ UNCHANGED <<circuit, cached, index, attempt, copy, then, failures>>

\* What a step leaves behind that is no longer read is reset: index, attempt,
\* copy and then.
Return(c, r) ==
    /\ result' = [result EXCEPT ![c] = r]
    /\ index' = [index EXCEPT ![c] = 1]
    /\ attempt' = [attempt EXCEPT ![c] = 0]
    /\ Goto(c, "idle")

\* Mutant: the same model is asked again.
AskSame(c) ==
    /\ attempt' = [attempt EXCEPT ![c] = 0]
    /\ Goto(c, "model")
    /\ UNCHANGED index

AskNext(c) ==
    /\ index' = [index EXCEPT ![c] = @ + 1]
    /\ attempt' = [attempt EXCEPT ![c] = 0]
    /\ Goto(c, "model")

\* The chain is exhausted.
ReturnNothing(c) ==
    /\ at[c] = "model" /\ index[c] > Len(Chain)
    /\ Return(c, "nothing")
    /\ UNCHANGED <<circuit, cached, copy, then, chats,
                   shape, failures>>

CacheHit(c) ==
    /\ at[c] = "model" /\ index[c] <= Len(Chain)
    /\ c \notin Streaming /\ Model(c) \in cached
    /\ Return(c, "cached")
    /\ UNCHANGED <<circuit, cached, copy, then, chats,
                   shape, failures>>

CacheMiss(c) ==
    /\ at[c] = "model" /\ index[c] <= Len(Chain)
    /\ c \in Streaming \/ Model(c) \notin cached
    /\ Goto(c, "status")
    /\ UNCHANGED <<circuit, cached, index, attempt, copy, then, result,
                   chats, shape, failures>>

-----------------------------------------------------------------------------
\* _load: a file that does not parse holds no entries.
Loaded == IF torn THEN Empty ELSE file

Status(c) ==
    /\ at[c] = "status"
    /\ Goto(c, IF Loaded[Model(c)].open THEN "half" ELSE "call")
    /\ attempt' = [attempt EXCEPT ![c] = 1]
    /\ UNCHANGED <<circuit, cached, index, copy, then, result, chats,
                   shape, failures>>

\* Load the circuits to write them back with entry e for the model.
Rewrite(c, e, place) ==
    /\ copy' = [copy EXCEPT ![c] = [Loaded EXCEPT ![Model(c)] = e]]
    /\ then' = [then EXCEPT ![c] = place]
    /\ Goto(c, "save")

\* An open circuit is skipped, unless its window has passed meanwhile.
Skip(c) ==
    /\ at[c] = "half" /\ Loaded[Model(c)].open
    /\ AskNext(c)
    /\ UNCHANGED <<circuit, cached, copy, then, result, chats,
                   shape, failures>>

AllowHalfOpen(c) ==
    /\ at[c] = "half" /\ ~Loaded[Model(c)].open
    /\ Rewrite(c, [Loaded[Model(c)] EXCEPT !.half = TRUE], "call")
    /\ UNCHANGED <<circuit, cached, index, attempt, result, chats,
                   shape, failures>>

-----------------------------------------------------------------------------
\* The provider answers, and the success is recorded.
CallAnswers(c) ==
    /\ at[c] = "call"
    /\ \E s \in Shapes : shape' = [shape EXCEPT ![c] = s]
    /\ Rewrite(c, NoEntry, "keep")
    /\ UNCHANGED <<circuit, cached, index, attempt, result, chats, failures>>

Exhausted(c) == attempt[c] >= Attempts

\* Rate limits, timeouts and transient errors are retried after a back-off.
CallRetried(c) ==
    /\ at[c] = "call" /\ ~Exhausted(c)
    /\ attempt' = [attempt EXCEPT ![c] = @ + 1]
    /\ UNCHANGED <<circuit, cached, at, index, copy, then, result, chats,
                   shape, failures>>

\* Mutant: one failure early.
Opening(fails) == fails + 1 >= Threshold

Opens(fails) == fails >= Threshold

\* The last attempt counts for the circuit, then the next model is asked.
CallExhausted(c) ==
    /\ at[c] = "call" /\ Exhausted(c)
    /\ LET e == Loaded[Model(c)]
           n == Cap(e.fails + 1)
       IN  Rewrite(c, IF Opens(n) THEN [fails |-> n, open |-> TRUE, half |-> FALSE]
                      ELSE [e EXCEPT !.fails = n], "model")
    /\ failures' = [failures EXCEPT ![Model(c)] = Cap(@ + 1)]
    /\ index' = [index EXCEPT ![c] = @ + 1]
    /\ attempt' = [attempt EXCEPT ![c] = 0]
    /\ UNCHANGED <<circuit, cached, result, chats, shape>>

\* Other errors do not: the next model is asked at once.
CallRefused(c) ==
    /\ at[c] = "call"
    /\ AskNext(c)
    /\ UNCHANGED <<circuit, cached, copy, then, result, chats,
                   shape, failures>>

-----------------------------------------------------------------------------
\* _save: write_text truncates the file, then writes and closes it.  Writes
\* that overlap leave a mixture when the longer one is written first.
Truncate(c) ==
    /\ at[c] = "save"
    /\ torn' = TRUE
    /\ Goto(c, "write")
    /\ overlap' = {}
    /\ UNCHANGED <<file, cached, index, attempt, copy, then, result, chats,
                   shape, failures>>

Write(c) ==
    /\ at[c] = "write"
    /\ file' = copy[c]
    /\ torn' \in IF c \in overlap THEN BOOLEAN ELSE {FALSE}
    /\ overlap' = (overlap \cup {d \in Callers : at[d] = "write"}) \ {c}
    /\ Goto(c, then[c])
    /\ copy' = [copy EXCEPT ![c] = Empty]
    /\ then' = [then EXCEPT ![c] = "idle"]
    /\ UNCHANGED <<cached, index, attempt, result, chats, shape,
                   failures>>

\* Mutant: an answer that is kept is not returned.
KeepOnly(c) == cached' = cached \cup {Model(c)} /\ AskNext(c) /\ UNCHANGED result

KeepAndReturn(c) == cached' = cached \cup {Model(c)} /\ Return(c, "answer")

\* The answer of a stream is returned, a mapping is cached and returned; what
\* json.dumps cannot write raises TypeError, which the same except clause
\* takes for a failed call that is not retried.
Keep(c) ==
    /\ at[c] = "keep"
    /\ \/ c \in Streaming /\ Return(c, "answer") /\ UNCHANGED cached
       \/ c \notin Streaming /\ shape[c] = "mapping" /\ KeepAndReturn(c)
       \/ c \notin Streaming /\ shape[c] = "object" /\ AskNext(c) /\ UNCHANGED <<cached, result>>
    /\ UNCHANGED <<circuit, copy, then, chats, shape, failures>>

-----------------------------------------------------------------------------
\* WINDOW_SEC passes for a circuit, cache_ttl_sec for a response.
WindowPasses(m) ==
    /\ \/ file[m].open
       \/ \E c \in Callers : at[c] \in {"save", "write"} /\ copy[c][m].open
    /\ file' = [file EXCEPT ![m].open = FALSE]
    /\ copy' = [c \in Callers |-> [copy[c] EXCEPT ![m].open = FALSE]]
    /\ UNCHANGED <<torn, overlap, cached, at, index, attempt, then, result,
                   chats, shape, failures>>

CacheExpires(m) ==
    /\ m \in cached
    /\ cached' = cached \ {m}
    /\ UNCHANGED <<circuit, at, index, attempt, copy, then, result, chats,
                   shape, failures>>

\* The process of a caller dies, in the middle of a write even.
Crash(c) ==
    /\ at[c] \notin {"idle", "dead"}
    /\ Goto(c, "dead")
    /\ overlap' = overlap \ {c}
    /\ index' = [index EXCEPT ![c] = 1]
    /\ attempt' = [attempt EXCEPT ![c] = 0]
    /\ copy' = [copy EXCEPT ![c] = Empty]
    /\ then' = [then EXCEPT ![c] = "idle"]
    /\ UNCHANGED <<file, torn, cached, result, chats, shape, failures>>

ChatStep(c) ==
    \/ ReturnNothing(c) \/ CacheHit(c) \/ CacheMiss(c) \/ Status(c) \/ Skip(c)
    \/ AllowHalfOpen(c) \/ CallAnswers(c) \/ CallRetried(c)
    \/ CallExhausted(c) \/ CallRefused(c)
    \/ Truncate(c) \/ Write(c) \/ Keep(c)

Next ==
    \/ \E c \in Callers : Chat(c) \/ ChatStep(c) \/ Crash(c)
    \/ \E m \in Models : WindowPasses(m) \/ CacheExpires(m)

Spec == Init /\ [][Next]_vars

\* Callers are scheduled, and a provider's call ends.
FairSpec == Spec /\ \A c \in Callers : WF_vars(ChatStep(c))

-----------------------------------------------------------------------------
\* Types of the callers' and the file's state.
TypeOK ==
    /\ file \in Circuits /\ torn \in BOOLEAN
    /\ cached \subseteq Models
    /\ at \in [Callers -> {"idle", "model", "status", "half", "call", "save",
                           "write", "keep", "dead"}]
    /\ index \in [Callers -> 1 .. Len(Chain) + 1]
    /\ attempt \in [Callers -> 0 .. Attempts]
    /\ copy \in [Callers -> Circuits]
    /\ then \in [Callers -> {"idle", "model", "call", "keep"}]
    /\ overlap \subseteq Callers
    /\ result \in [Callers -> {"none", "answer", "cached", "nothing"}]
    /\ chats \in 0 .. MaxChats
    /\ shape \in [Callers -> Shapes \cup {"none"}]
    /\ failures \in [Models -> 0 .. Threshold]

\* However writes of the circuit file overlap, are lost or torn, a circuit is
\* open only after THRESH_FAILS chats recorded a failure of its model.
OpenEarned ==
    \A m \in Models : file[m].open => failures[m] >= Threshold

\* The answer of a stream, and an answer that can be written to the cache, is
\* what its chat returns, whatever the models asked before it did and the
\* circuits say.
KeptDelivered ==
    \A c \in Callers :
        at[c] = "idle" /\ shape[c] \in (IF c \in Streaming THEN Shapes ELSE Shapes \ {"object"})
            => result[c] = "answer"

\* A chat whose provider answered returns an answer, as "provider dispatch.
\* Supports OpenAI chat API" (utils/llm_client.py) lets a caller expect: that
\* provider answers with an object.
AnswerDelivered ==
    \A c \in Callers : at[c] = "idle" /\ shape[c] # "none" => result[c] \in {"answer", "cached"}

\* Every chat returns, whatever fails and whoever writes the circuits, unless
\* its process dies.
ChatReturns == \A c \in Callers : at[c] = "model" ~> at[c] \in {"idle", "dead"}
=============================================================================
