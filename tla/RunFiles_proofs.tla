--------------------------- MODULE RunFiles_proofs --------------------------
(***************************************************************************)
(* What holds of one trace, whatever its setting, holds of the trace that  *)
(* MCRunFiles exposes to every fault; and what holds of a trace whose      *)
(* first append is over before the pool starts holds of the other one.     *)
(***************************************************************************)
EXTENDS MCRunFiles, TraceWriter_proofs

P == INSTANCE TraceWriter_proofs WITH
        Events <- {AnEvent}, MainFirst <- FALSE, CanMisread <- TRUE, CanCrash <- TRUE,
        trace <- traceFile, tmp <- tmpFiles, cleaned <- cleanedTmp,
        table <- lockTable, holder <- lockHolder, at <- appendAt,
        mine <- lockOf, snap <- snapshot, tries <- replaceTries

\* The assumption of TraceWriter, for the values that F gives to its constants.
LEMMA FaultsAssumption == P!WriterAssumption
  BY WriterAssumption, EventAssumption DEF WriterAssumption, EventAssumption, P!WriterAssumption

\* The two instances of TraceWriter, MCRunFiles' own and the one with the theorems, are one.
LEMMA SameSteps == F!Next => P!Next
<1> SUFFICES ASSUME F!Next PROVE P!Next
  OBVIOUS
<1>1. ASSUME NEW c \in Calls, F!StartStep(c)
      PROVE  P!StartStep(c)
  BY <1>1
  DEF F!StartStep, P!StartStep,
      F!CleanupStaleTmp, P!CleanupStaleTmp,
      F!Active, P!Active,
      F!Running, P!Running,
      F!Critical, P!Critical
<1>2. ASSUME NEW c \in Calls, F!StartEvent(c)
      PROVE  P!StartEvent(c)
  BY <1>2
  DEF F!StartEvent, P!StartEvent,
      F!Active, P!Active,
      F!Running, P!Running,
      F!Critical, P!Critical
<1>3. ASSUME NEW c \in Calls, F!LookupLock(c) \/ F!MakeLock(c) \/ F!EnterLock(c) \/ F!ReadTrace(c)
      PROVE  P!LookupLock(c) \/ P!MakeLock(c) \/ P!EnterLock(c) \/ P!ReadTrace(c)
  BY <1>3
  DEF F!LookupLock, P!LookupLock,
      F!MakeLock, P!MakeLock,
      F!EnterLock, P!EnterLock,
      F!ReadTrace, P!ReadTrace
<1>4. ASSUME NEW c \in Calls, F!WriteTmp(c) \/ F!Replace(c) \/ F!Leave(c)
      PROVE  P!WriteTmp(c) \/ P!Replace(c) \/ P!Leave(c)
  BY <1>4
  DEF F!WriteTmp, P!WriteTmp,
      F!Replace, P!Replace,
      F!WithEntry, P!WithEntry,
      F!Leave, P!Leave,
      F!Unlock, P!Unlock
<1>5. ASSUME NEW c \in Calls, F!WriteTmpFails(c) \/ F!RetryReplace(c) \/ F!ReplaceFails(c)
      PROVE  P!WriteTmpFails(c) \/ P!RetryReplace(c) \/ P!ReplaceFails(c)
  BY <1>5
  DEF F!WriteTmpFails, P!WriteTmpFails,
      F!Unlock, P!Unlock,
      F!RetryReplace, P!RetryReplace,
      F!ReplaceFails, P!ReplaceFails,
      F!UnlinkTmp, P!UnlinkTmp
<1>6. F!Crash => P!Crash
  BY DEF F!Crash, P!Crash, F!Active, P!Active, F!Running, P!Running, F!Critical, P!Critical
<1> QED
  BY <1>1, <1>2, <1>3, <1>4, <1>5, <1>6 DEF F!Next, P!Next, F!Progress, P!Progress

LEMMA FaultsTrace == FilesSpec => P!Spec
<1>1. FilesInit => P!Init
  BY DEF FilesInit, F!Init, P!Init
<1>2. [FilesNext]_filesVars => [P!Next]_(P!vars)
  BY SameSteps DEF FilesNext, filesVars, FaultRest, SessionRest, faultVars, P!vars
<1> QED
  BY <1>1, <1>2, PTL DEF FilesSpec, P!Spec

\* Whatever fault meets an append, whichever calls run together, the run's directory holds
\* no temporary file but that of an append under way or of a process that died
\* (trace_writer.py:40-66).
THEOREM TmpFilesAccountedThroughFaults == FilesSpec => []TmpAccountedThroughFaults
<1>1. P!Spec => []P!TmpAccounted
  BY P!TmpFilesAccounted, FaultsAssumption, PTL
<1>2. P!TmpAccounted => TmpAccountedThroughFaults
  BY DEF P!TmpAccounted, TmpAccountedThroughFaults, F!TmpAccounted
<1> QED
  BY <1>1, <1>2, FaultsTrace, PTL
-----------------------------------------------------------------------------
\* Beside the other trace and the sessions, a trace whose first append is over before the
\* pool starts keeps what TraceWriter_proofs shows of it alone: append_step replaces the
\* file it has read, loses nothing, and is an atomic append (trace_writer.py:91-114).
THEOREM FilesKeep ==
    ASSUME MainThenPool
    PROVE  FilesSpec => []NoStaleSnapshot /\ []NoAppendLost /\ ImplementsAppendLog
<1>1. FilesInit => Init
  BY DEF FilesInit
<1>2. [FilesNext]_filesVars => [Next]_vars
  BY DEF FilesNext, filesVars, FaultRest, SessionRest, vars
<1>3. FilesSpec => Spec
  BY <1>1, <1>2, PTL DEF FilesSpec, Spec
<1> QED
  BY <1>3, SnapshotNeverStale, ReturnedIsKept, AppendIsAtomic, PTL
=============================================================================
