# DR-RD in TLA+

DR-RD is a Streamlit workbench that plans a research idea, dispatches the tasks
to language-model agents, and composes a report. The models here cover the code
that decides *what happens when*: sessions and runs, the pipeline and its
checkpoints, the retry ladders, the thread pools, the shared files, the routing
of tasks and requests, and what is made of an agent's answer. Prompts, layout,
formatting and the agents' prose are left out.

`PROJECT.json` lists the runs, the source lines of every definition (`map`), a
mutant of the code for every property, the hazards with their lines, and the
theorems. Run a check with `tlc -config <cfg> <module>`, a proof with
`tlapm <module>_proofs.tla`.

## 1. The system

| Component | State it keeps | Operations | What is hard |
| --- | --- | --- | --- |
| Run session (`app/__init__.py`) and run lock (`utils/session_guard.py`) | `st.session_state["active_run"]`, the URL's `run_id`, `.dr_rd/locks/<run>.lock`, `run.json` | start, demo, take over, phases, heartbeat, finally | sessions interleave at file operations; Streamlit ends a script at any `st.*` call; the lock is a file nobody owns |
| Orchestrator (`core/orchestrator.py`) | `plan_tasks`, `answers_raw`, answers and findings by role, retries, open issues | `generate_plan`, `execute_plan`, `compose_final_proposal`, `orchestrate`, `run_stream` | tasks share state on a pool; failures become placeholders; follow-up loops must end; a stream may be left |
| Checkpoints (`utils/checkpoints.py`) | `checkpoint.json` per run | `init`, `load`, `mark_step_done` | a crash between a phase and its mark; resuming from another run's files |
| Trace writer (`utils/trace_writer.py`) | `trace.json`, `phase_meta.json`, the `_LOCKS` table | `append_step`, `append_event`, `flush_phase_meta` | read-modify-write of whole files by several threads |
| Self-check (`core/evaluation/self_check.py`) | none between calls | `validate_and_retry` | a ladder of retries whose outcomes overlap |
| Resilient chat (`utils/llm_client.py`, `utils/circuit.py`, `utils/retry.py`, `utils/idempotency.py`) | circuit file, response cache | `chat` | fallback chain, retries, a circuit shared by processes without a lock |
| Task engine (`core/engine/executor.py`) | ready and pending tasks, results | `run_tasks` | order of completion, failures in the pool |
| Graph pipeline (`core/graph/*`) | graph state, pool | nodes, `ParallelLimiter`, `run_langgraph` | retries that replace parts of an answer, a list of spans shared by all tasks |
| Tool router and provenance (`core/tool_router.py`, `core/provenance.py`) | call counter, list of events, stack of spans | `call_tool`, `start_span`, `end_span` | the cap is tested before a call and counted after it, by several threads |
| Model calls, budget and usage (`core/llm_client.py`, `core/agents/prompt_agent.py`, `utils/usage.py`, `core/budget.py`) | usage and threshold flags of the session | `call_openai`, `run_with_spec`, `log_usage` | ladders of requests inside ladders; limits at their boundary; flags that outlive a run |
| Aliases (`core/redaction.py`, `core/privacy.py`) | one redactor for the process, alias maps by role | `redact`, `pseudonymize_for_model`, `rehydrate_output` | every call resets the redactor other threads are in |
| Routing of tasks (`core/roles.py`, `core/router.py`, `core/agents/*`) | tables | `normalize_role`, `canonicalize`, `route_task`, `dispatch`, `invoke_agent`, `invoke_agent_safely` | three tables that disagree, two ways to call, signatures that differ |
| Routing of requests (`core/llm/*`, `config/*.yaml`) | configuration | `choose_model`, `call_model_with_failover` | windows, budgets and probes together |
| Cleaning of answers (`utils/agent_json.py`, `core/agents/prompt_agent.py`) | none | `clean_json_payload` and its passes | passes that undo each other; values of unexpected shape |
| API call log (`dr_rd/telemetry/*`) | one pointer, records in memory, files of the run | `log`, `flush`, `close`, `set_api_call_logger` | runs of one process replace each other's logger |
| Audit log, erasure, retention (`core/audit_log.py`, `dr_rd/privacy/*`) | hash-chained JSONL | `append_event`, `verify_chain`, erase, sweep | two appenders; erasure rewrites chained records |
| Stores (`memory/*`, `utils/knowledge_store.py`, `utils/prefs.py`, `utils/run_notes.py`, `utils/runs.py`) | JSON files | load, change, save | whole-file rewrites that overlap; a crash in the middle |
| Telemetry (`utils/telemetry.py`) | `events-<day>.jsonl` and parts | `log_event`, purge | roll-over at the size limit by several processes |
| Connectors and caches (`dr_rd/connectors/*`, `dr_rd/cache/*`) | times of recent searches, cached files | `ratelimit_guard`, `http_get`, `cached` | an unsynchronised window; fixtures that enter the cache |
| Project artifacts and final bundle (`core/orchestrator.py`, `core/final/*`, `orchestrators/spec_builder.py`) | `audits/<slug>/*`, `memory/decision_log/*` | the tail of `execute_plan`, `run_poc`, `write_final_bundle` | runs of one idea write the same names, and a bundle packs what it finds |
| Billing and tenancy (`dr_rd/billing/*`, `dr_rd/tenancy/*`) | append-only stores | aggregate, invoice, quotas | rounding, look-ups |
| Presentation, prompting, reporting, retrieval back ends, simulation, scripts | - | - | no control state that outlives a call |

How they meet. The page starts a run and calls `generate_plan`, `execute_plan` and
`compose_final_proposal` in turn, beating the lock's heart in between, or reads
`run_stream`, which does the three itself. `execute_plan` routes tasks to agents,
on a pool if asked; each task goes out under aliases, through the self-check's
ladder, and appends steps to the trace; the model is called through
`core/llm_client.py`, whose calls go to the run's log and to the session's usage.
At its end it writes the files of the project, which the composer packs.
`core/graph` runs the same agents by another dispatch and through the tool router.
`orchestrate`, a deprecated entry that only tests call, drives the phases with
checkpoints. The session state carries the plan and the answers from phase to
phase, and from run to run. `chat` stands beside `core/llm_client.py`.

## 2. Modules

| Module | Models | Runs | Proofs |
| --- | --- | --- | --- |
| `RunSession` | sessions, take-over, `_run`, lock file, `run.json` | `session_safety`, `run_files`, `session_timeout` | `RunSession_proofs` |
| `TraceWriter` | `append_step` and `append_event` by threads of one process | `run_files`, `trace_lost` | `TraceWriter_proofs`, `RunFiles_proofs` |
| `AppendLog` | what `append_step` promises: an atomic append | refined by `TraceWriter` in `run_files` | `AppendIsAtomic` |
| `ExecutePlan` | `execute_plan` with its pool, reflection and evaluation, and the Gaps section of the report | `plan_main`, `plan_failures` | `ExecutePlan_proofs` |
| `ResilientChat` | `chat`, the circuit file, the response cache | `chat_main`, `chat_objects` | `ResilientChat_proofs` |
| `RetryLadder` | one task's calls of its agent, and what becomes of its texts | `agents_main` | `Agents_proofs` |
| `TaskOfPlan` | `RetryLadder` as a task of `ExecutePlan`: the refinement mapping | `agents_main` | `LadderIsATask` |
| `ToolCall`, `GraphRun` | `call_tool` with spans and file cache; `run_langgraph` over it | `agents_main` | `Agents_proofs` |
| `LlmCall` | the requests behind one question, and the session's usage | `agents_main` | `Agents_proofs` |
| `Aliases` | names, their aliases and the way back | `agents_main` | `Agents_proofs` |
| `Connector` | searches behind the limit of a period, with cache and fixtures | `agents_main` | `Agents_proofs` |
| `Routing` | role names, dispatch, the calls of agents | `agents_main`, `dispatch_fallback` | `Agents_proofs` |
| `ModelRoute` | `choose_model`, failover | `agents_main` | `Agents_proofs` |
| `Payload` | the passes that clean a field, and its validation | `agents_main` | `Agents_proofs` |
| `Resume` | `orchestrate` with checkpoints, sessions and restarts | `records_main` | `Records_proofs` |
| `StreamRun` | `run_stream` and `generate_plan` | `records_main` | `Records_proofs` |
| `ApiCallLog` | the pointer, records and files of the call log | `records_main` | `Records_proofs` |
| `AuditTrail` | appenders, erasure, sweep | `records_main` | `Records_proofs` |
| `DocStore` | five JSON documents, in the ways they are rewritten | `records_main` | `Records_proofs` |
| `EventLog` | the telemetry files of a day | `records_main`, `events_parts` | `Records_proofs` |
| `Artifacts` | the files of a project and the bundle | `records_main` | `Records_proofs` |
| `Induction` | nothing of the code: induction over numbers and sequences, and flattened sequences, for the proofs | - | itself |

`MC*` modules hold the constants' values and compose. `MCAgents` and `MCRecords`
EXTEND the nine and seven components they check, and `MCRunFiles` is `TraceWriter` with two
more instances, one of `TraceWriter` with every fault and one of `RunSession`.
The components of such a run share no state in the code, so a behaviour is of one
of them, chosen at the start by `which`; the others keep an initial state. That is
a disjoint union of the components' state spaces, and a property of one component
says of the run exactly what it says of the component. `GraphRun` with `ToolCall`
compose otherwise: the pool's threads are the router's callers, and a step of one is
a step of the other.

### RunSession

One action per step that another session can observe. `at[t]` is the place of a
session's script; `prepare` to `finally` are the lines of `_run`. `acquire` and
`mark_heartbeat` open the lock file for writing, which truncates it, and write it
later, so each is an open and a write action; a handle whose file was unlinked
in between writes to nothing, and two overlapping writes may leave a file that
does not parse (`garbled`), which `is_locked` counts as locked. `release` unlinks
by run id, whoever wrote the token. `Interrupt` is Streamlit ending the script
where it may: inside a phase, at the limit check, after the success. A lock is
`fresh` until `Expire`. `acquire` of a new run id is one step, since no other
session can name the file yet.

### TraceWriter and AppendLog

`append_step` looks up the run's lock, or creates one and stores it in `_LOCKS`
(`LookupLock`, `MakeLock`: two steps, unprotected), reads the file, writes a
temporary file and replaces the trace, with up to three attempts. `append_event`
does the same without a lock. `MainFirst` is the condition under which the
orchestrator calls it: the main thread appends the planner's step before it
starts the pool, so the lock exists when threads race. `AppendLog` is one
variable and one action, `Append`, and `ImplementsAppendLog` maps the trace to its log
and each call to idle, returned, or failed.

### ExecutePlan

The call stack of a thread is the sequence of steps it has left (`todo[s]`);
handlers replace the first step by those it calls. That keeps reflections inside
reflections, which the code reaches by recursion, without a recursive operator.
Steps of different strands interleave at agent calls and at every access of the
shared `answers`, `role_to_findings`, `role_retries`, `open_issues` and
`reflection_attempts`.

 - `Names` are what planner and agents write, `Roles` what `Route` makes of them;
   the difference matters because retries are counted under the one and findings
   kept under the other.
 - Kinds of outputs: `good`; `silent`, a valid review that says nothing;
   `fabricated`, a placeholder of the self-check; `unanswered`, the placeholder of
   an agent that refused its input twice; `error` and `blank`, what is kept of
   an empty model output, which replaces the answers of the role.
 - The pool is a thread for each task of the wave (`1 .. Len(p.work)` is within
   `Pool`); `Join` waits for all and raises the first error, as the executor's
   `with` block does.
 - Cancellation and deadline are `Raise` at the points where `_check` is called.
 - `reflection_attempts += 1` is one step after the agent returned (`Ask`); the
   test before the call is another (`Reflect`).

### RetryLadder and TaskOfPlan

`_run_task` is translated twice: by this module, with every call of the agent and every
text, and by `ExecutePlan`, where a step ends with an output of one kind. A text is what the
check makes of it; a rung says which prompt it answers (`first`, `again` after
placeholder content, `reminded`, `final`), a ladder which call of
`validate_and_retry` (`task`, `flagged`, `review`). An error inside `retry_fn` is
swallowed there and the previous text is judged again; an error outside ends the
task. docs/RETRY_LADDER.md describes an escalation to a stronger model as the
last rung; the code sets `escalated` and calls the same model.

`TaskOfPlan` says that the two translations are one. It maps a place in the ladder to
the steps that the task's strand has left (`Left`), and its verdict to what is filed under the
role (`Result`); a step of the ladder is then a step of the strand, or one that `execute_plan`
does not see (`LadderIsTask`). The mapped plan has this one task and two roles. What other
tasks do to it is `OtherTask`, and the tasks that a reflection asks for are among them: the
reflection itself is mapped to one past its bound, which asks for nothing.

### ToolCall and GraphRun

A step is what runs between two points where the interpreter may switch
threads: the tests of the call (`Call`, `Reject`), the look into the file cache (`Look`), filing
the span (`Push`), running the tool (`Run`), ending the span (`End`), keeping the answer (`Keep`). `counted` is `meta.calls`; a tool that raises leaves its span on the stack
(`tool_router.py:107` and after). `GraphRun` adds the nodes of a task in the order
of `graph.py`. `fields[t][f]` is the attempt that put field `f` into the answer, 0 for none;
`agent_node` replaces the answer and carries some fields over, so different
fields may be of different attempts. `mark` and `toolTrace` are the two ends of the
list of spans between which a task takes its trace.

### LlmCall

`place` tells the API a request goes to, `tries` the attempts there, `round` the prompt of
`run_with_spec` (its own, then the fallback). A reply is what parsing, validation and the search for
sources make of it. `log_usage` adds the tokens and compares with the thresholds:
a run stops above its limit (`WithinLimits`), and is announced to exceed it from the limit on (`FlagsOf`). `flags` live in the session
and are not reset by a new run; `carried` remembers which were still up.

### Aliases

An alias is its number. A walk over a task's fields is `BeginWalk` (the map is cleared),
`ResetNumbers` (the counters after it), then for each name `FindAlias` and `TakeAlias` or
`MakeAlias`, with other threads' walks in between: a name found and cleared since is a
`KeyError`. `kept` is the map stored with the task's text, `mapOf` the one map per role
that the last task leaves. `disturbed` are the tasks whose walk met another's.

### Connector

A search looks in the cache's file, passes `ratelimit_guard` in two steps (`ReadWindow` reads the
list of times, `WriteWindow` replaces it with its own added), asks up to three times, and writes
the file, which another may read half-written (`torn`). `alone` remembers that nobody
else was in the guard meanwhile. A search is its thread, its number and the time that the
guard read, so that two searches of one moment count as two.

### Routing and ModelRoute

The tables are kept to representatives: one name for each entry that two layers treat
differently. A path is execute_plan's (`plan`) or the graph's (`graph`). An agent's
signature says which keywords it takes; `invoke_agent` retries without them on a
`TypeError`, wherever that came from, so an agent's own code (`ran`) may run twice.
`ModelRoute` computes `choose_model` over the shipped `models.yaml` and `budgets.yaml`
and calls with one failover; sizes are taken around every threshold of the files.

### Payload

One action per pass of `clean_json_payload`, in order, on one field in every shape:
missing, null, number, text, object, and lists of these. The passes recurse over any value; no schema of
`dr_rd/schemas` goes deeper than an object in a list, so the model has a definition for each level
(`NormalizeScalar`, `NormalizeObject`, `Normalize`). The model was compared with
the Python functions on all 28,832 inputs the instance enumerates; they agree on every
one. `Acceptable` and `Raises` say what should come out without
the passes, and `CleanedAsGiven` compares.

### ResilientChat

A caller is a thread or process that shares `.dr_rd`. `circuits.json` is loaded,
changed and rewritten without a lock: `Rewrite` loads, `Truncate` and `Write` are
the two halves of `write_text`. A file that is being written, or that holds a
mixture of overlapping writes, does not parse and reads as no circuits. `open` is
"until is still ahead", which `WindowPasses` ends for the file and for every copy
about to be written alike. What a provider answers is a `mapping`, as in the
tests, or an `object`, as the OpenAI SDK's.

### Resume

`orchestrate` for one session at a time. `trace[r]` is the first planner step whose
summary is a list, the only part of a trace that a resumed run reads; `Execute`
turns it to `bare`, because `execute_plan` replaces the steps of `trace.json` by
those of its collector. `plan_tasks` and `answers_raw` outlive the run and die with
the session. The run ids of a session are assumed to be fresh, and the idea of a
resumed run to be that of its origin.

### StreamRun

`run_stream` is a generator: it moves only when its consumer asks for the next event (`Yield`), and stays where it
is when the consumer leaves (`Leave`). The planner fails, is called again, may give an empty
plan; the session's plan of an earlier run is `stale`. `completed` is what telemetry was told,
`unrecorded` that telemetry itself failed.

### ApiCallLog, AuditTrail, DocStore, EventLog

 - `ApiCallLog`: a call reads the pointer when it starts and logs to what it read when
   it ends. A run ends in three steps, `flush`, clearing its records, clearing the pointer.
   `met` are runs that shared the process with another, `late` calls that ended after the flush.
 - `AuditTrail`: an appender reads the last hash, then opens the file; the erasure reads,
   rewrites and notes; the sweep removes. A hash is the record's id, and `fits` is lost when
   a record is rewritten. `mixed` is set when an append overlapped another writer or a
   record was rewritten.
 - `DocStore`: `KnowledgeMeta`, `Preferences`, `RunNotes`, `RunMeta` and `ProjectMemory` differ in
   whether they write under a temporary name (always the same one), and in what they do about a
   file they cannot read. `saved` is what a returned save promised.
 - `EventLog`: a process looks for a part that is not full (`PassPart`, `TakePart`), measures it with
   its line (`KeepPart`, `Rollover`) and appends (`AppendLine`). The measure counts characters, the file bytes and a newline.

### Artifacts

`emitting[r]` goes through the places at which `execute_plan` writes a file, in their order,
with the errors that end it between two of them; a file on `disk` is its last writer's.
`crossed` are runs that executed while another run of the project did. No caller sets a
project slug, so that a slug is the idea's and all runs of one idea meet.

## 3. What the runs show

| Run | Instance | States | Shows |
| --- | --- | --- | --- |
| `session_safety` | 2 sessions, 2 runs, a timeout, crashes | 1,713,950 | a driven run keeps its lock file whatever other sessions unlink; a success shows results; a failure is not rewritten |
| `run_files` | a trace with 3 calls, one of them first; a trace with 3 calls, one an event, and every fault; 2 sessions on one run | 250,213 | no snapshot is stale and no entry lost, and the trace refines `AppendLog`; with faults, temporary files are accounted for and every append ends; whatever ends the try block, lock and session are released |
| `plan_main` | 3 plans, 2 pool threads, 1 reflection, 1 evaluation round | 577,347 | reflections bounded; fabricated placeholders reported; planned tasks answered; every run ends |
| `chat_main` | 2 callers (1 streams), 2 models, 2 attempts, threshold 2, 3 chats, crashes | 310,077 | a circuit is open only after enough recorded failures; an answer that can be kept is returned; every chat returns |
| `agents_main` | the components of `MCAgents` | 474,638 | see below |
| `records_main` | the components of `MCRecords` | 772,355 | see below |
| `session_timeout` | as `session_safety` | | **violated**: the configured timeout never reaches the phases |
| `trace_lost` | 3 first calls at once | | **violated**: two locks for one run, an entry lost |
| `plan_failures` | as `plan_main`, 2 reflections | | **violated**: a task that failed for good is not among the gaps |
| `chat_objects` | 1 caller, SDK objects | | **violated**: every call succeeds and the chat returns `None` |
| `events_parts` | 1 process | | **violated**: part 1 grows without limit |
| `dispatch_fallback` | a task that no agent fits | | **violated**: the fallback agent is not called either |

`agents_main`, component by component:

| Component | Instance | Shows |
| --- | --- | --- |
| `RetryLadder`, `TaskOfPlan` | one task, reviewer or not | `CallsBounded`: at most 13 calls of the agent; `LastTextJudged`: the verdict is that of the last text; `LadderIsTask`: every step is one of `execute_plan`'s task, or unseen by it; `AgentsEnd`: the task ends |
| `GraphRun`, `ToolCall` | 2 tasks, pools of 1 and 2, one tool call allowed, 1 retry | `CapOvershootBounded`: the cap is exceeded by fewer calls than there are threads; `AnswerWhole`: a finished answer's text, sources and evaluation are of one attempt; `OwnSpanTraced`: a tool trace holds the task's own span, and with one worker no other's; `AgentsEnd`: the run ends |
| `LlmCall` | 2 runs, limit 5, replies of 0, 1, 4, 6 tokens | `StopAnnounced`: a run over its limit has sent both events, unless the last run left the flags up |
| `Aliases` | 2 tasks of 2 roles, 2 walks each, a name met only by retries | `NamesRestored`: the aliases of a role's last text give their own names back, unless a walk of the task met another's |
| `Connector` | 2 searchers, 3 searches each, 1 search in a period of 2, times 0..2 | `RateKept`: in any period the limit holds for searches that were alone in the guard |
| `Routing` | every representative name, both ways | `RoleAnswers`: an agent runs its own code once for its own role |
| `ModelRoute` | a size next to every threshold | `FailoverFits`: a model that is called has room, and a failover calls another |
| `Payload` | every shape of value, lists of up to 2 items | `CleanedAsGiven`: a field is accepted exactly if it is acceptable, and its words survive |

`records_main`, component by component:

| Component | Instance | Shows |
| --- | --- | --- |
| `Resume` | 3 runs, 2 ideas | `MarkedIsDone`, `DoneNotRepeated`: marks never run ahead of work, and marked work is not repeated; `ResumedPlanIsOrigins`: only the origin's plan is resumed; `OwnReport`: a report in a new session is the run's own |
| `StreamRun` | one stream | `OneVerdict`: one verdict, last, and the same in telemetry; `OwnPlanExecuted`: never the plan of an earlier run |
| `ApiCallLog` | 2 runs, 2 calls | `CallsFiled`: a call is in one run's files at most, and in its own run's, the exceptions named |
| `AuditTrail` | 2 appenders, one naming the subject, 3 records | `UnmixedVerifies`: a log verifies unless an append overlapped another writer or a record was rewritten |
| `DocStore` | 2 writers, 2 entries, each of the five documents, crashes | `SavesSurvive`: what was saved is read back unless writers overlapped or a document written in place was cut off |
| `EventLog` | 2 processes, 5 events, lines of 1 and of 2 characters | `BaseBounded`: the first file exceeds the limit by no more than what was under way |
| `Artifacts` | 2 runs of one idea | `BundleIsOwn`: a bundle holds everything its run made and of others only named leftovers |

What the properties excuse. Several hold only outside a hazard the code does not handle; the
excuse is a history variable that the hazard sets, never a state the property would
rather not see:

 - `mixed`, `overlapped`, `disturbed`, `met`, `alone`, `crossed`: two actors were in the
   same unprotected stretch at once.
 - `died`, `late`, `unrecorded`, `carried`: a crash in the middle of a write in place, a call
   that ends after the flush, telemetry that raised, flags of the run before.
 - `Leavings`: `coverage` and `poc_report` of an earlier run are packed by a later one that does
   not write them.

Each of these is needed: TLC finds the property violated when the excuse is taken out of it.
`RateKept` counts admissions; the three attempts of an admitted search are not counted by the
code either. `RoleAnswers` leaves out Synthesizer and Evaluation, which take the others' answers.

Bounds, and why they are enough. Two sessions are what a take-over needs, and two
runs what it needs to confuse them; the release in `run_files` is about one run. Three
appends are one to make the lock and two to race. Two pool threads and plans of up to
two tasks let a good and a bad answer of one role meet in either order; one reflection
with nested follow-ups reaches the bound, one evaluation round reaches the second pass
of the loop. In `chat_main` a threshold of two (three in the code) and two attempts
(five) leave room for a streak, a success that breaks it, and a window that passes;
three chats are two that open a circuit and one that meets it. Three runs are an
origin, its resumption, and either a resumption of that or a stranger that left its
plan in the session. One tool call allowed and two threads are one to pass the cap and one
to pass it with it. The sizes of replies reach 80% and 100% of the limit one at a time, together
and from zero. Two walks of a task are a retry and what follows it. A period of two with times
0..2 has a search leave the window while another stays. `MaxBytes` of 5 leaves room in the first file that a short line fits and a long one does not;
`LongestLine` and `Surplus` are what the two lines give, and 5 events pass the bound of a part.
Three audit records are one before, one during and one after an erasure. Two writers, appenders
and runs of a project are what an overlap needs.
`calls` in `RetryLadder` stops counting one beyond `MaxCalls`; `fails` and `failures` in
`ResilientChat` are capped at the threshold, beyond which nothing tells them apart.

Symmetry is used where no liveness is checked: `session_safety` (sessions and runs),
`records_main` (the runs and ideas of `Resume`).
`CHECK_DEADLOCK FALSE` is set where the system stops by design: all calls ended, the plan
composed, the task recorded, the chats used up.

Fairness. Each liveness property is checked under weak fairness of the steps the code's own
scheduling takes, and of no others:

 - `RunEndsReleased`: a script runs on by itself until it ends (`Script`), while clicks and
   reloads (`Environment`) need not happen.
 - `AppendsEndThroughFaults`: a thread that appends is scheduled, and one that waits for a lock
   gets it in the end.
 - `Terminates`, `ChatReturns`: threads are scheduled, and a call of an agent or provider ends, by
   answer or by error, as the clients' timeouts see to.
 - `AgentsEnd`: the same of the ladder's task, of each pool thread, and of the caller that joins
   them (`Join`, `Synthesise`); without the last the property fails.

No fairness is assumed of choices between outcomes: a provider may
fail, and an agent refuse, for ever. In the composed runs fairness is guarded by `which`, so that it
is what the component's own specification states.

### Disagreements

The violated runs, with what they contradict (`findings` quotes the lines):

| Run | Against | What happens |
| --- | --- | --- |
| `session_timeout` | docs/CONFIG.md:325 | `_run` passes no deadline, and phases outlive the timeout (`app/__init__.py:503`) |
| `trace_lost` | tests/test_trace_writer_atomic.py:32 | two first appends each make a lock, and one entry is lost (`utils/trace_writer.py:83`) |
| `plan_failures` | docs/USER_GUIDE.md:81 | an agent that raised or answered nothing leaves no open issue (`core/orchestrator.py:638`) |
| `chat_objects` | utils/llm_client.py:16 | the SDK's object cannot be written to the cache, which counts as a failed call |
| `events_parts` | docs/UX_METRICS.md:54 | the roll-over always goes to part 1, whose size nobody looks at (`utils/telemetry.py:84`) |
| `dispatch_fallback` | core/router.py:240 | the Dynamic Specialist does not take the keywords that dispatch passes either |

Seen while modelling, without a run of their own. Sessions and plans:

 - a session that takes over a run from its driver stays blocked for good when the
   driver ends (`app/__init__.py:122`), and a demo returns with its lock held (434);
 - the planner's step is lost from every trace once `execute_plan` ends
   (`core/orchestrator.py:1530`), so that a run resumed after its execution finds no
   plan and returns an empty report, against the comment at 1852;
 - `generate_plan` failing early leaves the last plan of the session in place, and
   `orchestrate` executes it for the new idea (1848); `run_stream` does not;
 - an empty output replaces the answers of other tasks of the role (643); a name planned
   under an alias is always reported as a gap (1585); a QA task routed under another name runs
   before `_qa_all_placeholder` is bound (920); a follow-up's retry is counted under the name it
   asked for (1301);
 - a trace that cannot be read counts as empty and is replaced (`utils/trace_writer.py:23`);
 - a JSON scalar makes the self-check's search for keys raise (`self_check.py:49`).

Files:

 - a `ValidationError` of the assembled project, or an interface with a name that no file can have
   (`core/orchestrator.py:1499`), ends a run whose tasks all succeeded;
 - no code outside tests sets a project slug, so that all runs of an idea share `audits/<slug>`, and
   coverage and test results of an earlier run are packed by a later one;
 - `delete_run_events` looks for `"run_id":"X"` without the space that `json.dumps` writes, and
   removes nothing.

Routing and models:

 - `roles.py` makes a "Software Engineer" a Research Scientist, the router's own table a CTO; names like "marketing" are normalised when
   planned and not when they come as follow-ups;
 - `invoke_agent` takes any `TypeError` for a wrong signature and runs an agent's code again;
 - `choose_model` raises `IndexError` when no model has room; a downshift ignores the size;
   backups of other providers raise `NotImplementedError`, and only tests call the failover that
   docs/MODEL_ROUTING.md:10 describes;
 - fixtures that answer for a search enter the cache and are served as live for a day.

Answers:

 - a source whose id, title or url is a number makes `sanitize_sources` raise, against its
   docstring, and the repair raises again; `run_with_spec` passes it on;
 - `_strip_bullet` takes the sign off a text that begins with one ("-40 °C");
 - numbers and objects among texts are dropped and the rest accepted; required fields are filled at the top level
   only; an answer that is a JSON scalar becomes a payload of defaults, and valid.

## 4. What is proved

Each `*_proofs` module proves inductive invariants and draws its theorems from them.
TLAPS checks them for every value of the constants that the `ASSUME` of the model
allows: any number of sessions, callers, runs, models, plans, pool threads, tasks and entries.

| Module | Theorems | Inductive invariant |
| --- | --- | --- |
| `RunSession_proofs` | `TypeCorrect`, `LockPresentWhileDriven`, `SuccessIsComplete`, `FailureStays` | `TypeInv`, `DriverInv`, `ProgressInv` |
| `TraceWriter_proofs` | `TypeCorrect`, `TmpFilesAccounted`, `LocksGiveWay`, `AppendDescends`, `SnapshotNeverStale`, `ReturnedIsKept`, `AppendIsAtomic` | `TypeOK`, `TmpAccounted`, `HeldByRunning`, `OneLock`, `NoStaleSnapshot`, `EntryWhenReplaced` |
| `RunFiles_proofs` | `TmpFilesAccountedThroughFaults`, `FilesKeep` | those of `TraceWriter_proofs`, by `INSTANCE` and as they are |
| `ExecutePlan_proofs` | `TypeCorrect`, `PlaceholdersReported`, `ReflectionBound`, `PlanIsAnswered`, `PlanDescends` | `TypeOK`, `IssuesReported`, `ReflectionInv`, `AnswerInv` |
| `ResilientChat_proofs` | `TypeCorrect`, `OpeningIsEarned`, `AnswerIsReturned`, `ChatDescends` | `TypeInv`, `FailureInv`, `AnswerInv` |
| `Agents_proofs`: ladder | `TypeCorrect`, `CallsRunOut`, `VerdictIsLast`, `IssuesExact`, `LadderDescends`, `LadderIsATask` | `TypeOK`, `ClimbInv`, `VerdictInv` |
| - tools and graph | `CapOvershoots`, `GraphUsesTools`, `AnswerIsWhole`, `OwnSpansTraced`, `SpansAreAccounted`, `GraphDescends`, `RouterTypes`, `PipelineTypes` | `CapInv`, `AnswerInv`, `SpanInv`, `UnderWayInv`, `AccountInv`, `RoundInv` |
| - questions | `LimitAnnounced`, `RequestsAreBounded`, `QuestionTypes` | `LimitInv`, `RequestInv` |
| - aliases | `NamesAreRestored`, `AliasTypes` | `NameInv`, `WalkTypes` |
| - searches | `RateIsKept`, `ConnectorTypes` | `RateInv` |
| - routing | `RoleIsAnswered`, `FailoverHasRoom`, `RoutingTypes`, `RequestTypes` | `RoutingInv`, `CallInv` |
| - cleaning | `CleaningIsExact` | `PayloadInv` |
| - together | `AgentsCompose`, `AgentsKeep` | - |
| `Records_proofs`: resume | `TypeCorrect`, `MarksAreBacked`, `NothingRepeated`, `OriginsPlanResumed`, `ReportIsOwn` | `ResumeInv`: `TypeInv`, `WorkInv`, `OriginInv`, `SessionInv` |
| - the others | `OwnPlanIsExecuted`, `VerdictIsOne`, `CallsAreFiled`, `UnmixedChainVerifies`, `SavesAreKept`, `BaseIsBounded`, `BundlesAreOwn`; `StreamTypes`, `CallTypes`, `AuditTypes`, `DocumentTypes`, `EventTypes`, `ArtifactTypes` | `PlanInv`, `VerdictInv`, `CallInv`, `ChainInv`, `SaveInv`, `BaseInv`, `BundleInv` |
| - together | `RecordsCompose`, `RecordsAreKept` | - |
| `Induction` | no theorem of the code; lemmas the others cite | - |

The arguments, and why the properties alone are not inductive:

 - *Sessions.* That a driven run's lock file exists says nothing of who may unlink
   it: `release` is given a run id and no token. `OneDriverPerRun` says who is there to
   release a run, its one driver, and `RunsHandedOut` that no other session can be
   handed its id. `DriverProgress` ties the place in `_run` to what `run.json` and the
   trace hold there, so that a success shows its results; `FailureStays` is an action
   property from the same invariant.
 - *Trace.* `TmpFilesAccounted` holds under every fault: only an append between the write and
   the replace, or one that died there, has a temporary file. `SnapshotNeverStale`, `ReturnedIsKept` and
   `AppendIsAtomic` assume `MainThenPool`: the main thread's append returns before the pool starts, nothing misreads the file, nobody calls `append_event`
   (which has no caller in `src/`). Then every thread finds the one lock of the run
   (`OneLock`), what it read is what the file still holds (`NoStaleSnapshot`), and
   `TraceStep` shows each step to be `Append` or a stutter of `AppendLog`, which
   `AppendIsAtomic` lifts to the behaviours. Without the assumption the property is
   false; `trace_lost` exhibits it. `RunFiles_proofs` shows that the second trace of `MCRunFiles`,
   the one with every fault, is an instance of the same module, and takes the theorem from there; the first one
   is the module itself, and keeps all three (`FilesKeep`).
 - *Plan.* A fabricated placeholder is an open issue from the step that records it,
   and the report takes over every open issue (`IssuesReported`); nothing closes one,
   which is why a good answer of the role in between does not matter. The bound on
   reflections counts those under way: `PoolWaited` (while threads of the pool have
   steps left, the main thread waits) and `Awaiting` (only the first step of a thread
   can be a running reflection) bound them by the threads, and attempts plus those under
   way stay within `MaxReflections` plus the other threads of the pool. `AnswerInv` says that a
   planned role has its answer, or some thread's stack still holds a step that ends with one
   (`Owes`), or a thread of the pool raised and the main thread stands at the join that raises in
   turn. Every step delivers what it owed or pushes a step that owes it (`StrandDelivers`), and the
   evaluation is the last step of a round (`RoundEvaluates`), so that nothing is owed when it returns.
 - *Ladder.* `ClimbInv` is a variant in the shape of an invariant: calls so far are at
   most those before the ladder (`Base`) plus the rung (`Height`). `VerdictInv` says
   that the text checked is the last one heard, and that an open issue excludes
   further climbing, since it counts the role's retry.
 - *The ladder as a task.* `LadderStep` takes the steps of `RetryLadder` one by one under these
   invariants and names the step of the strand that each is, or shows that nothing of the strand
   changes. For this to hold `execute_plan` tests a role's retry in one step (`Second`) and calls
   the agent again in the next: other tasks of the role stand between the two.
 - *Chat.* `OpenEarned` speaks of the file; a stale copy about to be written
   could reopen a circuit, so `FailureInv` says the same of every caller's copy, and
   that no count exceeds the failures recorded. These only grow, so a copy may be
   stale and still be backed. `AnswerInv` follows an answer from `CallAnswers` over the two
   halves of the write to `Keep`.
 - *Resume.* `WorkInv` covers the steps between a phase and its mark.
   `OriginInv` says that no trace holds a foreign plan and that a run past recovery has
   its origin's idea, or nothing, in the session; `SessionInv` that a session new with
   the run holds nothing of another.
 - *Tools and graph.* The cap is tested and counted in different steps, so `CapInv` counts the
   threads that passed the test (`Passed`) with the calls counted: together they are at most the
   cap plus the other threads, since the last to pass found the count below it.
   `GraphUsesTools` shows the behaviours of the pipeline, fair or not (`GraphSafety`), to be behaviours of `ToolSpec`, and takes the
   bound from there. `AnswerInv` says node by node which fields are already of the current
   attempt. `SpanInv` says that a task is in the router only where it waits for it (`InRouter`), that
   one worker has one task in hand (`OneActive`), and that what was filed since a task's mark is then
   its own (`TraceInv`). `UnderWayInv` gives each call under way its own open span, and
   `AccountInv` says where the others that have not ended wait, so that each is written once.
 - *Questions.* `RequestInv` counts what a question's rounds, attempts and the change of API have
   spent by each place.
 - *Limit.* `LimitInv`: a raised flag was announced in this run or carried into it, and once a run has used
   any tokens the flags are those of its usage, which above the limit are both.
 - *Aliases.* What an undisturbed task has is that nobody else walks, so that between its steps
   the redactor is its own: it is empty after `BeginWalk`, then a one-to-one numbering that holds
   every alias the walk took and no number above the counter (`Numbers`, `NextNumber`). Such a
   numbering is copied and kept with the text. The task's own redactor is one-to-one for another
   reason: a name's number counts the names up to its first place, which of two names differ in
   the later one (`OwnMapOneToOne`).
 - *Searches.* Every list of times that is stored, held by a thread or about to be written back still holds the
   admitted searches that lie within the period (`RateInv`). Of two threads in the guard neither is
   alone, and what a thread alone read is what the list still is, so that its test is of
   the searches themselves; a period that ends later than the search holds no more than the list.
 - *Routing.* Once routed, a task's role is a registered one (`RoutingInv`), whatever name
   came in; what the tables answer is a lemma about each of them (`RouteIsRegistered`,
   `NormalisedIsKnown`, `SpecialistUncallable`).
 - *Models.* `CallInv` says that a decision is a row of models with room for the request
   (`Decision`). Filtering, downshift and probe keep it one (`ByRoomIsRow`, `DownshiftKeepsRoom`,
   `ProbesAreDecisions`), for requests of every size, where the run tries one by each threshold.
 - *Cleaning.* `PayloadInv` says pass by pass what has been made of what was given, so that the last
   verdict is about one expression (`Final`). `FieldJudged` compares that with `Acceptable`, kind of property by kind of
   property (`TextIsValid`, `TextsAreValid`, `FindingIsValid`, `SourceIsValid`, `EconomicsIsValid`). For lists the
   argument is item by item and needs no bound on their length, and `RaisesIs` finds the raising source.
   That no word is lost is about sequences made of sequences: the words of a text are its parts between
   separators, the passes split, drop, strip and join them, and each such pass is a `MapFlat`. Bare parts split into
   themselves (`SplitTwice`), so that splitting and joining in either order give the same words
   (`ListToText`, `ListToList`, `TextToList`).
 - *Together.* `AgentsCompose` and `RecordsCompose` show a behaviour of a composition to be one of each of its
   components, whose variables no step of another changes; `AgentsKeep` and `RecordsAreKept` then
   take over every safety property that `agents_main` and `records_main` check.
 - *Stream.* `VerdictInv`: up to its last stage a stream has said nothing of a verdict; there it is
   still to say it, as the last of what is left, or has said it. `PlanInv` follows the plan
   from the planner to the executor.
 - *Call log.* `FiledInv`: two runs that are open together have met; a run that met no other has the
   pointer while it is open, so its calls hold its logger; a call is nowhere but with the logger it
   holds, in memory until the flush and in the files from then on.
 - *Audit trail.* Unmixed, at most one appender is under way, and it read the hash of the
   last record still (`Chained`), so that what it appends continues the chain (`ChainGrows`).
 - *Documents.* `SaveInv`: without overlap, what the one writer copied is the document, and what it
   writes holds what was saved, in the temporary file or in place.
 - *Events.* Either the first file has outgrown its limit by the lines of processes that measured
   before (`Outgrown`), or a process that is about to write to it found room, but for the lines of
   those others (`Measured`); each process that still has to write is one line less in the bound.
 - *Bundles.* Of two runs under way both are crossed (`MetInv`). What a run has written by each
   place (`MadeInv`) therefore stays its own if it is not crossed, and so does what it packs (`PackInv`).

Assumptions on the constants are the named `ASSUME`s of the models, which the runs
evaluate on their instances. None restricts sizes beyond what the code does
(`THRESH_FAILS` and attempts are positive, a chain is a sequence of models, the names
of a plan are names, a line is shorter than a file's limit, a brief is a finite sequence).

*Measures.* What must end is a liveness property, and stays with TLC. Half of the argument is a
safety property, and is proved for all constants: a count of the steps left, from which every
step of one's own takes, and to which no step of others adds. It starts at 40 for the ladder
(`LadderDescends`), at 19 for each attempt of a graph task (`GraphDescends`), at nine for an append
(`AppendDescends`), and at a fixed number for each model of the chain and one more in a chat (`ChatDescends`).
`execute_plan` has no such number for a strand alone, since a reflection's follow-ups are pushed on it.
`PlanDescends` orders its steps: a step reaches a later stage (`Stage`), or starts one of `MaxRounds` rounds, or
makes one of the reflection calls, of which `ReflectionBound` leaves no more than `AttemptsLeft`, or takes from one
strand's `Effort`. A step of the strand is replaced by steps that together weigh less (`Weight`), and the effort is
the number of units in a sequence, `Len(MapFlat(units, todo[s]))`: a sum for which no recursion is needed.
The other half is that a step is possible and taken. For appends `LocksGiveWay` says what
that needs: whoever waits for a lock waits for one that does not wait.

*Induction.* What a definition by recursion computes is proved by induction, and the
library states that for predicates, which none of the provers can put in place. `Induction` states it for
sets: a set of numbers with 0 and the successor of each of its numbers is `Nat` (`Inductive`), and likewise for sequences
(`SequencesInductive`). From there it proves that a recursive function exists and is unique (`Recursion`), what `FlattenSeq`
of the community modules returns (`FlattenAppend`, `FlattenConcat`), and how `MapFlat` behaves under
concatenation and composition.

*Types.* Each module's type invariant is a theorem: `TypeCorrect` for the first or only component of a
proof module, else one of those whose names end in `Types`; for `Payload`, `PayloadInv` says more than types. The type of the audit trail
had bounds that two appenders keep and three do not; the attempt to prove it for any number of them
showed that, and the type no longer has them.

## 5. Only model-checked

 - Liveness, which the prover does not reach: `RunEndsReleased`, `AppendsEndThroughFaults`,
   `Terminates`, `AgentsEnd`, `ChatReturns`.
 - The properties that are violated; they have no theorem.

In turn `IssueIffPlaceholder` of `RetryLadder`, `RequestsBounded` of `LlmCall`, `SpansAccounted` of
`ToolCall` and `HeldByRunning` of `TraceWriter_proofs` are proved, and are in no configuration.

## 6. What is not modelled

In the modelled components:

 - `RunSession`: a token is represented by the session that wrote it; the usage
   limits checked before a run starts; the phases' contents. `BaseException`s
   count as Streamlit's ends of a script.
 - `TraceWriter`: `flush_phase_meta`, which writes another file under the same
   locks and is called by the main thread only, and the encoding of steps. Failing disks
   appear as attempts that fail.
 - `ExecutePlan`: `pending_followups`, which is written and never read; the collector's
   items; prompts, retrieval and what evaluators measure (their verdict is
   a choice). Task ids and dependencies do not survive normalisation.
 - `RetryLadder`: wording of reminders, logging; the schema is "passes or not".
 - `ResilientChat`: back-off and jitter as durations; the response cache's files. All
   callers send one payload, so that they meet in the cache.
 - `Resume`: one run at a time; `orchestrate` is called by tests only.
 - `ToolCall`, `GraphRun`: one tool, with provenance switched on; `Plan` is what planning and routing
   made; simulation hints, which `GraphTask` drops.
 - `LlmCall`: prices (a budget in dollars is compared as tokens are), `BudgetManager`, which no
   caller installs, the construction of parameters, retrieval inside `BaseAgent`, which only agents
   outside the registry reach.
 - `Aliases`: the patterns that find names; a brief is what they find.
 - `Connector`: the shapes of answers, `epo_ops` (a stub), `web_search` (raises or reads fixtures).
 - `Routing`: names are representatives of the tables' entries. `ModelRoute`: prices and latencies
   that no decision reads.
 - `Payload`: a field at a time, as the code cleans it; the repair of text that is no JSON
   (`json_fixers`, `json_safety`) works on characters.
 - `AuditTrail`: the subject index and the hash of the key. `DocStore`: validation, listing, copies in
   Firestore; session snapshots, which nothing reads back. `EventLog`: what an event holds, reading
   back, the removal of a run's events.
 - `Artifacts`: the texts inside, `evaluation.json`, traceability rows, which quote the plan, the two
   work files of `orchestrators/executor.py`.

Not modelled at all:

 - Billing and tenancy: only scripts call them, one process at a time; sums and look-ups in
   append-only lists, whose rounding (tax and total apart, half to even) is arithmetic for
   unit tests; `persist_monthly_usage` has no caller.
 - Prompting, presentation, reporting, retrieval back ends, simulation, health checks, settings pages, feature
   flags, scripts: text, layout, formulas, tables and start-up code, without control state that outlives
   a call. They are most of the source by lines, which is why the map covers a seventh of them.

## 7. What could come next

1. `ApiCallLog` with the loggers of `GraphRun`'s threads: calls of a pool in one run's log.
2. `GraphRun` as an implementation of one specification of a task with `ExecutePlan`: both dispatch,
   retry and answer, by other code.
3. `PlanDescends` as one well-founded order on states, and the other half of `Terminates` with it: that some
   step is possible until the run has returned.
4. `Payload` for schemas whose objects nest, by induction over the depth.
