----------------------------- MODULE MCRunFiles -----------------------------
(***************************************************************************)
(* The files of a run while it is driven.  Its trace, twice: with a first  *)
(* append that is over before the pool starts, and with every fault that   *)
(* TraceWriter has.  And its lock, with a session that drives the run to   *)
(* the finally clause and another that takes it over.  A behaviour is of   *)
(* one of the three, chosen at the start; the others stay in their initial *)
(* state.                                                                  *)
(***************************************************************************)
EXTENDS TraceWriter

CONSTANTS Sessions, Runs, NoRun, NoToken,
    AnEvent     \* one of the calls

ASSUME EventAssumption == AnEvent \in Calls

VARIABLES which,
    traceFile, tmpFiles, cleanedTmp, lockTable, lockHolder,
    appendAt, lockOf, snapshot, replaceTries,
    runLock, runMeta, runTrace, usedRuns, pageUrl, activeRun,
    scriptAt, scriptRun, scriptPhase, seenToken, openHandle, isOverdue

\* First appends together, one of them by append_event, unreadable traces and crashes.
F == INSTANCE TraceWriter WITH
        Events <- {AnEvent}, MainFirst <- FALSE, CanMisread <- TRUE, CanCrash <- TRUE,
        trace <- traceFile, tmp <- tmpFiles, cleaned <- cleanedTmp,
        table <- lockTable, holder <- lockHolder, at <- appendAt,
        mine <- lockOf, snap <- snapshot, tries <- replaceTries

\* A run whose timeout is configured.
R == INSTANCE RunSession WITH
        CanCrash <- FALSE, Timed <- TRUE,
        lock <- runLock, meta <- runMeta, trace <- runTrace, used <- usedRuns,
        url <- pageUrl, active <- activeRun, at <- scriptAt, run <- scriptRun,
        phase <- scriptPhase, seen <- seenToken, handle <- openHandle,
        overdue <- isOverdue

faultVars == <<traceFile, tmpFiles, cleanedTmp, lockTable, lockHolder,
               appendAt, lockOf, snapshot, replaceTries>>
sessionVars == <<runLock, runMeta, runTrace, usedRuns, pageUrl, activeRun,
                 scriptAt, scriptRun, scriptPhase, seenToken, openHandle, isOverdue>>
filesVars == <<which, vars, faultVars, sessionVars>>

FilesInit == which \in {"trace", "faults", "session"} /\ Init /\ F!Init /\ R!Init

FaultRest == which = "faults" /\ UNCHANGED <<which, vars, sessionVars>>
SessionRest == which = "session" /\ UNCHANGED <<which, vars, faultVars>>

FilesNext ==
    \/ which = "trace" /\ Next /\ UNCHANGED <<which, faultVars, sessionVars>>
    \/ FaultRest /\ F!Next
    \/ SessionRest /\ R!Next

\* The fairness of TraceWriter's FairSpec and of RunSession's.
FilesSpec ==
    /\ FilesInit /\ [][FilesNext]_filesVars
    /\ \A c \in Calls : WF_filesVars(FaultRest /\ F!Progress(c))
    /\ \A t \in Sessions : WF_filesVars(SessionRest /\ R!Script(t))

-----------------------------------------------------------------------------
\* With all faults, a temporary file belongs to an append that runs, or to one
\* that died with its process.
TmpAccountedThroughFaults == F!TmpAccounted

\* With all faults, every append that entered ends, although others raise inside
\* the lock.
AppendsEndThroughFaults == F!EveryAppendEnds

\* Whatever happens inside the try block, the run's lock file is removed and
\* the session may start another run (the finally clause of _run).
RunEndsReleased == R!RunEndsReleased
=============================================================================
