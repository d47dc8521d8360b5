------------------------------ MODULE MCRecords ----------------------------
(***************************************************************************)
(* What runs leave behind and go by later, seven components that share no  *)
(* state: checkpoints and resumed runs, the stream of events, the log of   *)
(* calls, the audit trail, the JSON documents, the telemetry of a day and  *)
(* the bundles of a project.  A behaviour is of one of them, chosen at the *)
(* start; the others stay in an initial state.                             *)
(***************************************************************************)
EXTENDS Resume, StreamRun, ApiCallLog, AuditTrail, DocStore, EventLog, Artifacts, TLC

VARIABLE which

streams == <<streamVars, apiVars>>
ledgers == <<auditVars, docVars>>
left == <<eventVars, artifactVars>>
recordsVars == <<which, vars, streams, ledgers, left>>

\* Runs are interchangeable, and so are ideas.
Symmetry == Permutations(Runs) \cup Permutations(Ideas)

AnAddition == <<"add", CHOOSE e \in Entries : TRUE>>

\* A line of one character, and one of two, three bytes long.
MCLines == {[chars |-> 1, bytes |-> 1], [chars |-> 2, bytes |-> 3]}

Components == {"resume", "stream", "calls", "audit", "docs", "events", "bundles"}

RecordsInit ==
    /\ which \in Components
    /\ Init /\ StreamInit /\ ApiInit /\ AuditInit /\ DocInit /\ EventInit /\ ArtifactInit
    /\ which # "stream" => plan = "none"
    /\ which # "calls" => maker = [c \in Requests |-> CHOOSE s \in Sessions : TRUE]
    /\ which # "audit" => others = 0
    /\ which # "docs" => store = RunMeta /\ \A w \in Writers : change[w] = AnAddition

RecordsNext ==
    /\ UNCHANGED which
    /\ \/ which = "resume" /\ Next /\ UNCHANGED <<streams, ledgers, left>>
       \/ which = "stream" /\ StreamNext /\ UNCHANGED <<vars, apiVars, ledgers, left>>
       \/ which = "calls" /\ ApiNext /\ UNCHANGED <<vars, streamVars, ledgers, left>>
       \/ which = "audit" /\ AuditNext /\ UNCHANGED <<vars, streams, docVars, left>>
       \/ which = "docs" /\ DocNext /\ UNCHANGED <<vars, streams, auditVars, left>>
       \/ which = "events" /\ EventNext /\ UNCHANGED <<vars, streams, ledgers, artifactVars>>
       \/ which = "bundles" /\ ArtifactNext /\ UNCHANGED <<vars, streams, ledgers, eventVars>>

RecordsSpec == RecordsInit /\ [][RecordsNext]_recordsVars
=============================================================================
