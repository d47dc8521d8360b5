----------------------------- MODULE RunSession -----------------------------
(***************************************************************************)
(* The life of a run as the Streamlit UI drives it (app/__init__.py) and   *)
(* the per-run lock file that tells the other browser sessions about it    *)
(* (utils/session_guard.py).                                               *)
(*                                                                         *)
(* A session executes one script at a time; sessions interleave with each  *)
(* other at every file operation.  The lock file is opened for writing     *)
(* (which truncates it) and written in two steps, by acquire and by        *)
(* mark_heartbeat alike, and release unlinks it whoever holds it.          *)
(* Streamlit may end a running script at any st.* call: the stop button,   *)
(* any other widget, or a closed page.                                     *)
(***************************************************************************)
EXTENDS Naturals

CONSTANTS Sessions,  \* browser sessions of the one server process
          Runs,      \* run ids that new_run_id can return
          NoRun,     \* absence of a run id
          NoToken,   \* a lock file whose metadata has no token
          CanCrash,  \* whether the server process may die and restart
          Timed      \* whether the runs have a timeout configured

ASSUME SessionAssumption ==
    /\ NoRun \notin Runs
    /\ NoToken \notin Sessions
    /\ CanCrash \in BOOLEAN
    /\ Timed \in BOOLEAN

VARIABLES
    lock,     \* lock[r]: the file .dr_rd/locks/<r>.lock
    meta,     \* meta[r]: "status" of the run's run.json, "none" before it exists
    trace,    \* trace[r]: the phases that the run's trace.json shows
    used,     \* run ids handed out so far
    url,      \* url[t]: the run_id query parameter of the session's page
    active,   \* active[t]: st.session_state["active_run"]
    at,       \* at[t]: where the session's script is
    run,      \* run[t]: the run the script works on
    phase,    \* phase[t]: current_phase of _run
    seen,     \* seen[t]: token that mark_heartbeat read
    handle,   \* handle[t]: an open lock file, and whether it is still linked
    overdue   \* overdue[t]: the configured timeout of the run has elapsed

fileVars == <<lock, meta, trace, used>>
vars == <<lock, meta, trace, used, url, active, at, run, phase, seen, handle, overdue>>

Token == Sessions \cup {NoToken}
Phases == {"planner", "executor", "synth"}
InTryBlock == {"phase", "beat", "beat_open", "beat_write", "limit", "wrapup", "finally"}
Places == InTryBlock \cup {"idle", "takeover", "takeover_write", "prepare"}

\* The lock file: absent, truncated, holding metadata, or holding the
\* overlap of two writes, which does not parse.
LockFile == [content: {"absent", "empty", "written", "garbled"},
             token: Token, fresh: BOOLEAN]
Bare(c) == [content |-> c, token |-> NoToken, fresh |-> FALSE]
Written(tok) == [content |-> "written", token |-> tok, fresh |-> TRUE]

Activity == [run: Runs \cup {NoRun},
             status: {"none", "running", "success", "error", "timeout"}]
NoActivity == [run |-> NoRun, status |-> "none"]

Init ==
    /\ lock = [r \in Runs |-> Bare("absent")]
    /\ meta = [r \in Runs |-> "none"]
    /\ trace = [r \in Runs |-> {}]
    /\ used = {}
    /\ url = [t \in Sessions |-> NoRun]
    /\ active = [t \in Sessions |-> NoActivity]
    /\ at = [t \in Sessions |-> "idle"]
    /\ run = [t \in Sessions |-> NoRun]
    /\ phase = [t \in Sessions |-> "planner"]
    /\ seen = [t \in Sessions |-> NoToken]
    /\ handle = [t \in Sessions |-> "closed"]
    /\ overdue = [t \in Sessions |-> FALSE]

-----------------------------------------------------------------------------
(* utils/session_guard.py *)

\* A missing or truncated file is not locked, metadata is locked for the
\* TTL, and a file that does not parse is locked.
IsLocked(r) ==
    \/ lock[r].content = "garbled"
    \/ lock[r].content = "written" /\ lock[r].fresh

\* open("w"): create or truncate.
OpenLock(t, r) ==
    /\ lock' = [lock EXCEPT ![r] = Bare("empty")]
    /\ handle' = [handle EXCEPT ![t] = "linked"]

\* Write the metadata and close.  On a file that another session wrote since
\* it was truncated the result may not parse; on an unlinked one it is lost.
WriteLock(t, r, tok) ==
    /\ handle' = [handle EXCEPT ![t] = "closed"]
    /\ \/ /\ handle[t] = "linked"
          /\ lock' = [lock EXCEPT ![r] = Written(tok)]
       \/ /\ handle[t] = "linked"
          /\ lock[r].content # "empty"
          /\ lock' = [lock EXCEPT ![r] = Bare("garbled")]
       \/ /\ handle[t] # "linked"
          /\ UNCHANGED lock

\* release: unlink whatever is there.  It is given a run id and no token.
Release(t, r) ==
    /\ lock' = [lock EXCEPT ![r] = Bare("absent")]
    /\ handle' = [s \in Sessions |->
                    IF run[s] = r /\ handle[s] = "linked" THEN "unlinked" ELSE handle[s]]

\* The lock's metadata grows older than LOCK_TTL_SEC.
Expire(r) ==
    /\ lock[r].content = "written" /\ lock[r].fresh
    /\ lock' = [lock EXCEPT ![r].fresh = FALSE]
    /\ UNCHANGED <<meta, trace, used, url, active, at, run, phase, seen, handle, overdue>>

-----------------------------------------------------------------------------
(* The page: opening it, taking a run over, starting a run *)

\* A new session on this page: session state is lost, the URL names a run or not.
Reload(t) ==
    /\ at[t] = "idle"
    /\ active' = [active EXCEPT ![t] = NoActivity]
    /\ \E r \in used \cup {NoRun} : url' = [url EXCEPT ![t] = r]
    /\ UNCHANGED <<fileVars, at, run, phase, seen, handle, overdue>>

\* "Take over" is shown, and clicked, while the URL's run is locked.
SeeTakeOver(t) ==
    /\ at[t] = "idle"
    /\ url[t] # NoRun
    /\ active[t] = NoActivity
    /\ IsLocked(url[t])
    /\ at' = [at EXCEPT ![t] = "takeover"]
    /\ run' = [run EXCEPT ![t] = url[t]]
    /\ UNCHANGED <<fileVars, url, active, phase, seen, handle, overdue>>

TakeOverOpen(t) ==
    /\ at[t] = "takeover"
    /\ OpenLock(t, run[t])
    /\ at' = [at EXCEPT ![t] = "takeover_write"]
    /\ UNCHANGED <<meta, trace, used, url, active, run, phase, seen, overdue>>

TakeOverWrite(t) ==
    /\ at[t] = "takeover_write"
    /\ WriteLock(t, run[t], t)
    /\ active' = [active EXCEPT ![t] = [run |-> run[t], status |-> "running"]]
    /\ at' = [at EXCEPT ![t] = "idle"]
    /\ run' = [run EXCEPT ![t] = NoRun]
    /\ UNCHANGED <<meta, trace, used, url, phase, seen, overdue>>

\* Mutant: a start that records the run and takes no lock.
AcquireNothing(t, r) == UNCHANGED lock

\* acquire for a run id no other session knows yet: one step here.
AcquireNew(t, r) == lock' = [lock EXCEPT ![r] = Written(t)]

\* Start is pressed: a run is in session state and the URL's run is not locked
\* by anyone, or nothing happens.
StartRun(t, r) ==
    /\ at[t] = "idle"
    /\ active[t].status # "running"
    /\ ~(url[t] # NoRun /\ IsLocked(url[t]))
    /\ r \notin used
    /\ used' = used \cup {r}
    /\ active' = [active EXCEPT ![t] = [run |-> r, status |-> "running"]]
    /\ AcquireNew(t, r)
    /\ url' = [url EXCEPT ![t] = r]
    /\ at' = [at EXCEPT ![t] = "prepare"]
    /\ run' = [run EXCEPT ![t] = r]
    /\ UNCHANGED <<meta, trace, phase, seen, handle, overdue>>

\* A demo is replayed and main returns: the lock and active_run stay.
PlayDemo(t) ==
    /\ at[t] = "prepare"
    /\ meta' = [meta EXCEPT ![run[t]] = "success"]
    /\ trace' = [trace EXCEPT ![run[t]] = Phases]
    /\ at' = [at EXCEPT ![t] = "idle"]
    /\ run' = [run EXCEPT ![t] = NoRun]
    /\ UNCHANGED <<lock, used, url, active, phase, seen, handle, overdue>>

\* The script ends (an exception, or Streamlit stops it) before it reaches
\* the try block of _run: nothing is undone.
AbortBeforeTry(t) ==
    /\ at[t] = "prepare"
    /\ \E m \in {"none", "running"} : meta' = [meta EXCEPT ![run[t]] = m]
    /\ at' = [at EXCEPT ![t] = "idle"]
    /\ run' = [run EXCEPT ![t] = NoRun]
    /\ UNCHANGED <<lock, trace, used, url, active, phase, seen, handle, overdue>>

\* create_run_meta, then _run up to its try block.
EnterRun(t) ==
    /\ at[t] = "prepare"
    /\ meta' = [meta EXCEPT ![run[t]] = "running"]
    /\ at' = [at EXCEPT ![t] = "phase"]
    /\ phase' = [phase EXCEPT ![t] = "planner"]
    /\ UNCHANGED <<lock, trace, used, url, active, run, seen, handle, overdue>>

-----------------------------------------------------------------------------
(* The try block of _run *)

\* The except clauses record a status in run.json and in session state.
Conclude(t, s) ==
    /\ meta' = [meta EXCEPT ![run[t]] = s]
    /\ active' = [active EXCEPT ![t].status = s]
    /\ at' = [at EXCEPT ![t] = "finally"]

\* What the phases themselves do to the trace, failures ignored: generate_plan
\* appends a planner step, and execute_plan replaces the file by the items of
\* its trace collector, which carry no phase.
PhaseTouchesTrace(t) ==
    /\ at[t] = "phase"
    /\ \/ /\ phase[t] = "planner"
          /\ trace' = [trace EXCEPT ![run[t]] = @ \cup {"planner"}]
       \/ /\ phase[t] = "executor"
          /\ trace' = [trace EXCEPT ![run[t]] = {}]
    /\ UNCHANGED <<lock, meta, used, url, active, at, run, phase, seen, handle, overdue>>

\* The phase returned; its output is appended to the trace.
PhaseDone(t) ==
    /\ at[t] = "phase"
    /\ trace' = [trace EXCEPT ![run[t]] = @ \cup {phase[t]}]
    /\ at' = [at EXCEPT ![t] = "beat"]
    /\ UNCHANGED <<lock, meta, used, url, active, run, phase, seen, handle, overdue>>

\* Mutant: the early return of a rejected plan leaves the function for good.
LeaveForGood(t) == at' = [at EXCEPT ![t] = "idle"]

LeaveTry(t) == at' = [at EXCEPT ![t] = "finally"]

\* The planner or the executor raised ValueError: st.error and return, which
\* records no status.
PhaseRejected(t) ==
    /\ at[t] = "phase"
    /\ phase[t] \in {"planner", "executor"}
    /\ LeaveTry(t)
    /\ UNCHANGED <<fileVars, url, active, run, phase, seen, handle, overdue>>

\* Any other exception of the phase or of its trace append.
PhaseFailed(t) ==
    /\ at[t] = "phase"
    /\ \E s \in {"error", "timeout"} : Conclude(t, s)
    /\ UNCHANGED <<lock, trace, used, url, run, phase, seen, handle, overdue>>

\* mark_heartbeat: nothing to do without a file, or when it does not parse;
\* else it remembers the metadata it read, whoever wrote it.
BeatRead(t) ==
    /\ at[t] = "beat"
    /\ IF lock[run[t]].content \in {"absent", "garbled"}
       THEN /\ at' = [at EXCEPT ![t] = "limit"]
            /\ UNCHANGED seen
       ELSE /\ at' = [at EXCEPT ![t] = "beat_open"]
            /\ seen' = [seen EXCEPT ![t] = lock[run[t]].token]
    /\ UNCHANGED <<fileVars, url, active, run, phase, handle, overdue>>

BeatOpen(t) ==
    /\ at[t] = "beat_open"
    /\ OpenLock(t, run[t])
    /\ at' = [at EXCEPT ![t] = "beat_write"]
    /\ UNCHANGED <<meta, trace, used, url, active, run, phase, seen, overdue>>

BeatWrite(t) ==
    /\ at[t] = "beat_write"
    /\ WriteLock(t, run[t], seen[t])
    /\ seen' = [seen EXCEPT ![t] = NoToken]
    /\ at' = [at EXCEPT ![t] = "limit"]
    /\ UNCHANGED <<meta, trace, used, url, active, run, phase, overdue>>

\* Mutant: the check of the usage limits reports and carries on.
StopOverLimitLate(t) ==
    /\ meta' = [meta EXCEPT ![run[t]] = "error"]
    /\ at' = [at EXCEPT ![t] = "wrapup"]
    /\ UNCHANGED active

\* RuntimeError("usage_exceeded").
StopOverLimit(t) == Conclude(t, "error")

LimitExceeded(t) ==
    /\ at[t] = "limit"
    /\ StopOverLimit(t)
    /\ UNCHANGED <<lock, trace, used, url, run, phase, seen, handle, overdue>>

\* Mutant: the executor is skipped.
SkipExecutor(p) == IF p = "planner" THEN "synth" ELSE "executor"

Following(p) == IF p = "planner" THEN "executor" ELSE "synth"

\* Within the limits: on to the next phase.  deadline_ts is None in _run, so
\* that the deadline checks of the phases never fire.
NextPhase(t) ==
    /\ at[t] = "limit"
    /\ phase[t] # "synth"
    /\ phase' = [phase EXCEPT ![t] = Following(phase[t])]
    /\ at' = [at EXCEPT ![t] = "phase"]
    /\ UNCHANGED <<fileVars, url, active, run, seen, handle, overdue>>

\* Within the limits after the last phase: the run is a success.
Succeed(t) ==
    /\ at[t] = "limit"
    /\ phase[t] = "synth"
    /\ meta' = [meta EXCEPT ![run[t]] = "success"]
    /\ active' = [active EXCEPT ![t].status = "success"]
    /\ at' = [at EXCEPT ![t] = "wrapup"]
    /\ UNCHANGED <<lock, trace, used, url, run, phase, seen, handle, overdue>>

\* Telemetry, notification, survey and page switch after the success.
WrapUp(t) ==
    /\ at[t] = "wrapup"
    /\ LeaveTry(t)
    /\ UNCHANGED <<fileVars, url, active, run, phase, seen, handle, overdue>>

\* One of them raised: the except clauses overwrite the success.
WrapUpFailed(t) ==
    /\ at[t] = "wrapup"
    /\ \E s \in {"error", "timeout"} : Conclude(t, s)
    /\ UNCHANGED <<lock, trace, used, url, run, phase, seen, handle, overdue>>

\* Streamlit ends the script at an st.* call; no except clause matches.
Interrupt(t) ==
    /\ at[t] \in {"phase", "limit", "wrapup"}
    /\ LeaveTry(t)
    /\ UNCHANGED <<fileVars, url, active, run, phase, seen, handle, overdue>>

Finally(t) ==
    /\ at[t] = "finally"
    /\ Release(t, run[t])
    /\ active' = [active EXCEPT ![t] = NoActivity]
    /\ at' = [at EXCEPT ![t] = "idle"]
    /\ run' = [run EXCEPT ![t] = NoRun]
    /\ phase' = [phase EXCEPT ![t] = "planner"]
    /\ overdue' = [overdue EXCEPT ![t] = FALSE]
    /\ UNCHANGED <<meta, trace, used, url, seen>>

\* The timeout configured for the run elapses during a phase.
TimeoutElapses(t) ==
    /\ Timed
    /\ at[t] = "phase"
    /\ ~overdue[t]
    /\ overdue' = [overdue EXCEPT ![t] = TRUE]
    /\ UNCHANGED <<fileVars, url, active, at, run, phase, seen, handle>>

\* The server dies and restarts: sessions lose their state, files stay.
Crash ==
    /\ CanCrash
    /\ active' = [t \in Sessions |-> NoActivity]
    /\ at' = [t \in Sessions |-> "idle"]
    /\ run' = [t \in Sessions |-> NoRun]
    /\ phase' = [t \in Sessions |-> "planner"]
    /\ seen' = [t \in Sessions |-> NoToken]
    /\ handle' = [t \in Sessions |-> "closed"]
    /\ overdue' = [t \in Sessions |-> FALSE]
    /\ UNCHANGED <<fileVars, url>>

-----------------------------------------------------------------------------

\* The steps the script takes without anyone asking for them.
Script(t) ==
    \/ TakeOverOpen(t) \/ TakeOverWrite(t)
    \/ PlayDemo(t) \/ EnterRun(t)
    \/ PhaseDone(t) \/ PhaseRejected(t) \/ PhaseFailed(t)
    \/ BeatRead(t) \/ BeatOpen(t) \/ BeatWrite(t)
    \/ LimitExceeded(t) \/ NextPhase(t) \/ Succeed(t)
    \/ WrapUp(t) \/ WrapUpFailed(t)
    \/ Finally(t)

Environment(t) ==
    \/ Reload(t) \/ SeeTakeOver(t)
    \/ \E r \in Runs : StartRun(t, r)
    \/ AbortBeforeTry(t) \/ Interrupt(t) \/ PhaseTouchesTrace(t) \/ TimeoutElapses(t)

Next ==
    \/ \E t \in Sessions : Script(t) \/ Environment(t)
    \/ \E r \in Runs : Expire(r)
    \/ Crash

Spec == Init /\ [][Next]_vars

\* A script runs on until it ends.
FairSpec == Spec /\ \A t \in Sessions : WF_vars(Script(t))

-----------------------------------------------------------------------------

TypeOK ==
    /\ lock \in [Runs -> LockFile]
    /\ meta \in [Runs -> {"none", "running", "success", "error", "timeout"}]
    /\ trace \in [Runs -> SUBSET Phases]
    /\ used \subseteq Runs
    /\ url \in [Sessions -> Runs \cup {NoRun}]
    /\ active \in [Sessions -> Activity]
    /\ at \in [Sessions -> Places]
    /\ run \in [Sessions -> Runs \cup {NoRun}]
    /\ phase \in [Sessions -> Phases]
    /\ seen \in [Sessions -> Token]
    /\ handle \in [Sessions -> {"closed", "linked", "unlinked"}]
    /\ overdue \in [Sessions -> BOOLEAN]

Driving(t) == at[t] \in InTryBlock \cup {"prepare"}

\* While a session drives a run, the run's lock file exists: no take-over,
\* heartbeat or release of another session removes it, although release does
\* not look at the token (_run, session_guard.acquire and release).
DriverLockPresent ==
    \A t \in Sessions : Driving(t) => lock[run[t]].content # "absent"

\* A run recorded as a success shows what it executed and what it composed
\* (_run, run_playback.materialize_run), although execute_plan replaces the
\* trace in between.
SuccessShowsResults ==
    \A r \in Runs : meta[r] = "success" => {"executor", "synth"} \subseteq trace[r]

\* A run recorded as failed is never reported as anything else later
\* (complete_run_meta is called from several clauses of _run).
FailureIsFinal ==
    [][\A r \in Runs : meta[r] \in {"error", "timeout"} => meta'[r] = meta[r]]_meta

\* Whatever happens inside the try block, the run's lock file is removed and
\* the session may start another run (the finally clause of _run).
RunEndsReleased ==
    \A t \in Sessions, r \in Runs :
        (at[t] \in InTryBlock /\ run[t] = r)
            ~> (lock[r].content = "absent" /\ active[t] = NoActivity)

\* docs/CONFIG.md: the timeout is the overall run timeout.  A run past its
\* timeout does not begin another phase.
TimeoutStopsRun ==
    [][\A t \in Sessions : overdue[t] => ~NextPhase(t)]_vars
=============================================================================
