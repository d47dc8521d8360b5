----------------------------- MODULE ApiCallLog -----------------------------
(***************************************************************************)
(* The log of a run's calls to the model and other services                *)
(* (dr_rd/telemetry/api_call_log.py), kept in memory and written to the    *)
(* run's directory when the run ends.  The logger in use is one pointer    *)
(* for the process (loggers.py): a run of another session replaces it, and *)
(* the first run to end clears it (app/__init__.py).                       *)
(*                                                                         *)
(* A call is made by a thread of some run; it reads the pointer when it    *)
(* starts and logs to what it read when it ends, however late that is.     *)
(***************************************************************************)
EXTENDS Naturals, FiniteSets

CONSTANTS
    Sessions,   \* one run each
    Requests,   \* calls
    NoLogger

ASSUME ApiAssumption == NoLogger \notin Sessions

VARIABLES
    pointer,    \* _api_call_logger
    closing,    \* how far each run is
    memory,     \* _records of its logger
    files,      \* the calls in its api_calls.jsonl, .csv and .md
    maker,      \* the run whose thread makes each call
    heldLogger, \* the logger each call has read
    callAt,     \* where each call is
    met,        \* history: runs that were not alone from start to end
    late        \* history: calls that ended when their logger had been flushed

apiVars == <<pointer, closing, memory, files, maker, heldLogger, callAt, met, late>>

ApiInit ==
    /\ pointer = NoLogger
    /\ closing = [s \in Sessions |-> "new"]
    /\ memory = [s \in Sessions |-> {}]
    /\ files = [s \in Sessions |-> {}]
    /\ maker \in [Requests -> Sessions]
    /\ heldLogger = [c \in Requests |-> NoLogger]
    /\ callAt = [c \in Requests |-> "none"]
    /\ met = {} /\ late = {}

Active == {s \in Sessions : closing[s] \in {"open", "flushed", "cleared"}}
Pass(s, phase) == closing' = [closing EXCEPT ![s] = phase]

-----------------------------------------------------------------------------
OpenLogger(s) ==
    /\ closing[s] = "new"
    /\ pointer' = s
    /\ Pass(s, "open")
    /\ met' = IF Active = {} THEN met ELSE met \cup Active \cup {s}
    /\ UNCHANGED <<memory, files, maker, heldLogger, callAt, late>>

StartRequest(c) ==
    /\ callAt[c] = "none" /\ closing[maker[c]] = "open"
    /\ heldLogger' = [heldLogger EXCEPT ![c] = pointer]
    /\ callAt' = [callAt EXCEPT ![c] = "sent"]
    /\ UNCHANGED <<pointer, closing, memory, files, maker, met, late>>

\* Answered or failed, the call is logged where its logger was when it started.
EndRequest(c) ==
    /\ callAt[c] = "sent"
    /\ callAt' = [callAt EXCEPT ![c] = "over"]
    /\ IF heldLogger[c] = NoLogger
       THEN UNCHANGED <<memory, late>>
       ELSE /\ memory' = [memory EXCEPT ![heldLogger[c]] = @ \cup {c}]
            /\ late' = IF closing[heldLogger[c]] = "open" THEN late ELSE late \cup {c}
    /\ UNCHANGED <<pointer, closing, files, maker, heldLogger, met>>

\* Mutant: the records are cleared before they are written.
FlushedAfterClear(s) == {}

\* With no record nothing is written; otherwise the files are replaced.
Flushed(s) == IF memory[s] = {} THEN files[s] ELSE memory[s]

\* close() writes without the lock ...
Flush(s) ==
    /\ closing[s] = "open"
    /\ files' = [files EXCEPT ![s] = Flushed(s)]
    /\ Pass(s, "flushed")
    /\ UNCHANGED <<pointer, memory, maker, heldLogger, callAt, met, late>>

\* ... and clears what came meanwhile along with what was written.
ClearLogger(s) ==
    /\ closing[s] = "flushed"
    /\ memory' = [memory EXCEPT ![s] = {}]
    /\ Pass(s, "cleared")
    /\ UNCHANGED <<pointer, files, maker, heldLogger, callAt, met, late>>

\* Whatever run the pointer is of.
UnsetLogger(s) ==
    /\ closing[s] = "cleared"
    /\ pointer' = NoLogger
    /\ Pass(s, "closed")
    /\ UNCHANGED <<memory, files, maker, heldLogger, callAt, met, late>>

ApiNext ==
    \/ \E s \in Sessions : OpenLogger(s) \/ Flush(s) \/ ClearLogger(s) \/ UnsetLogger(s)
    \/ \E c \in Requests : StartRequest(c) \/ EndRequest(c)

ApiSpec == ApiInit /\ [][ApiNext]_apiVars

-----------------------------------------------------------------------------
ApiTypeOK ==
    /\ pointer \in Sessions \cup {NoLogger}
    /\ closing \in [Sessions -> {"new", "open", "flushed", "cleared", "closed"}]
    /\ memory \in [Sessions -> SUBSET Requests]
    /\ files \in [Sessions -> SUBSET Requests]
    /\ maker \in [Requests -> Sessions]
    /\ heldLogger \in [Requests -> Sessions \cup {NoLogger}]
    /\ callAt \in [Requests -> {"none", "sent", "over"}]
    /\ met \subseteq Sessions /\ late \subseteq Requests

\* When a run has closed its log, each call of it that is over is in that run's
\* files and in no other's, unless the run shared the process with another, whose
\* logger took its calls or whose end left them without one, or the call ended
\* when the files were already written.
CallsFiled ==
    \A c \in Requests :
        LET s == maker[c]
            In == {r \in Sessions : c \in files[r]}
        IN  /\ Cardinality(In) <= 1
            /\ closing[s] = "closed" /\ callAt[c] = "over" =>
                  In = {s} \/ s \in met \/ c \in late
=============================================================================
