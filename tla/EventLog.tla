------------------------------ MODULE EventLog ------------------------------
(***************************************************************************)
(* The telemetry events of one day (utils/telemetry.py): every process     *)
(* appends lines to events-<day>.jsonl and, when that is full, to          *)
(* events-<day>.part<n>.jsonl.  A lock of the process lets one thread at a *)
(* time log; the lock file beside the log is created if it can be and      *)
(* excludes nobody, so processes interleave between their looks at a size  *)
(* and the append.                                                         *)
(*                                                                         *)
(* Sizes are in units of the model.  A line counts its characters when it  *)
(* is measured, and its bytes and a newline when it is written.            *)
(***************************************************************************)
EXTENDS Naturals, FiniteSets

CONSTANTS
    Loggers,    \* processes
    MaxBytes,
    Lines,      \* what a line may be: its characters and its bytes
    LongestLine,    \* the most bytes that a line adds to a file
    Surplus,    \* the most that these exceed its characters by
    MaxPart,    \* bound: the parts a day may come to
    MaxEvents   \* bound: the events logged

ASSUME EventAssumption ==
    /\ IsFiniteSet(Loggers) /\ Loggers # {}
    /\ {MaxBytes, MaxPart, MaxEvents, LongestLine, Surplus} \subseteq Nat
    /\ Lines # {}
    /\ \A l \in Lines : /\ {l.chars, l.bytes} \subseteq Nat
                        /\ 0 < l.chars /\ l.chars <= l.bytes /\ l.chars <= MaxBytes
                        /\ l.bytes + 1 <= LongestLine
                        /\ l.bytes + 1 - l.chars <= Surplus

VARIABLES
    size,       \* the size of each part, 0 of one that does not exist
    logging,    \* where each process is in log_event
    part,       \* the part it has come to
    line,       \* the line it logs
    logged      \* the events logged

eventVars == <<size, logging, part, line, logged>>

Parts == 0 .. MaxPart

EventInit ==
    /\ size = [p \in Parts |-> 0]
    /\ logging = [w \in Loggers |-> "idle"]
    /\ part = [w \in Loggers |-> 0]
    /\ line \in [Loggers -> {CHOOSE l \in Lines : TRUE}]
    /\ logged = 0

-----------------------------------------------------------------------------
\* Consent given, the event validated, redacted and encoded.
LogEvent(w) ==
    /\ logging[w] = "idle" /\ logged < MaxEvents
    /\ \E l \in Lines : line' = [line EXCEPT ![w] = l]
    /\ logging' = [logging EXCEPT ![w] = "seek"]
    /\ part' = [part EXCEPT ![w] = 0]
    /\ logged' = logged + 1
    /\ UNCHANGED size

Full(p) == size[p] >= MaxBytes

\* _active_path looks at one part after the other.
PassPart(w) ==
    /\ logging[w] = "seek" /\ Full(part[w]) /\ part[w] < MaxPart
    /\ part' = [part EXCEPT ![w] = @ + 1]
    /\ UNCHANGED <<size, logging, line, logged>>

TakePart(w) ==
    /\ logging[w] = "seek" /\ ~Full(part[w])
    /\ logging' = [logging EXCEPT ![w] = "measure"]
    /\ UNCHANGED <<size, part, line, logged>>

\* Mutant: the part chosen is written to however long the line.
FitsAnyhow(w) == TRUE

Fits(w) == size[part[w]] = 0 \/ size[part[w]] + line[w].chars <= MaxBytes

KeepPart(w) ==
    /\ logging[w] = "measure" /\ Fits(w)
    /\ logging' = [logging EXCEPT ![w] = "write"]
    /\ UNCHANGED <<size, part, line, logged>>

\* _rollover: the next part, whatever its size.
Rollover(w) ==
    /\ logging[w] = "measure" /\ ~Fits(w) /\ part[w] < MaxPart
    /\ logging' = [logging EXCEPT ![w] = "write"]
    /\ part' = [part EXCEPT ![w] = @ + 1]
    /\ UNCHANGED <<size, line, logged>>

Added(w) == line[w].bytes + 1

AppendLine(w) ==
    /\ logging[w] = "write"
    /\ size' = [size EXCEPT ![part[w]] = @ + Added(w)]
    /\ logging' = [logging EXCEPT ![w] = "idle"]
    /\ UNCHANGED <<part, line, logged>>

\* purge_telemetry_older_than, with a limit of no days: the file goes.
Purge(p) ==
    /\ size[p] > 0
    /\ size' = [size EXCEPT ![p] = 0]
    /\ UNCHANGED <<logging, part, line, logged>>

EventNext ==
    \/ \E w \in Loggers : \/ LogEvent(w) \/ PassPart(w) \/ TakePart(w)
                          \/ KeepPart(w) \/ Rollover(w) \/ AppendLine(w)
    \/ \E p \in Parts : Purge(p)

EventSpec == EventInit /\ [][EventNext]_eventVars

-----------------------------------------------------------------------------
EventTypeOK ==
    /\ size \in [Parts -> Nat]
    /\ logging \in [Loggers -> {"idle", "seek", "measure", "write"}]
    /\ part \in [Loggers -> Parts]
    /\ line \in [Loggers -> Lines]
    /\ logged \in 0 .. MaxEvents

\* How far a file may exceed the limit: by what measuring leaves out of a line, and
\* by a line of each other process that measured before that one was written.
Bound == MaxBytes + Surplus + (Cardinality(Loggers) - 1) * LongestLine

\* The day's first file exceeds the limit by what the processes had under way,
\* never by the number of events.
BaseBounded == size[0] <= Bound

\* "Writers ... roll to events-YYYYMMDD.partN.jsonl when they exceed ~25MB": no
\* file does, beyond that bound.
PartsBounded == \A p \in Parts : size[p] <= Bound
=============================================================================
