-------------------------- MODULE RunSession_proofs --------------------------
(***************************************************************************)
(* Type correctness and the safety of the run lock, for every set of       *)
(* sessions and runs.                                                      *)
(***************************************************************************)
EXTENDS RunSession, TLAPS

\* The run a script works on, and the run a page names, have been handed out.
RunsHandedOut ==
    \A t \in Sessions :
        /\ at[t] # "idle" => run[t] \in used
        /\ url[t] \in used \cup {NoRun}

OneDriverPerRun ==
    \A t, u \in Sessions :
        (t # u /\ Driving(t) /\ Driving(u)) => run[t] # run[u]

UnusedRunsPristine ==
    \A r \in Runs \ used : meta[r] = "none" /\ trace[r] = {}

\* What run.json and the trace say at each place of the driver's script.
DriverProgress ==
    \A t \in Sessions :
        /\ at[t] = "prepare" => meta[run[t]] = "none"
        /\ at[t] \in {"phase", "beat", "beat_open", "beat_write", "limit"} =>
             /\ meta[run[t]] = "running"
             /\ phase[t] = "synth" => "executor" \in trace[run[t]]
        /\ at[t] \in {"beat", "beat_open", "beat_write", "limit"} =>
             phase[t] \in trace[run[t]]
        /\ at[t] = "wrapup" =>
             meta[run[t]] = "success" /\ {"executor", "synth"} \subseteq trace[run[t]]

-----------------------------------------------------------------------------

\* The contents that the operations of session_guard leave in a lock file.
LEMMA LockFileValues ==
    /\ \A c \in {"absent", "empty", "written", "garbled"} : Bare(c) \in LockFile
    /\ \A tok \in Token : Written(tok) \in LockFile
  BY SessionAssumption DEF Bare, Written, LockFile, Token

LEMMA OpenTyped ==
    ASSUME TypeOK, NEW t \in Sessions, NEW r \in Runs, OpenLock(t, r)
    PROVE  /\ lock' \in [Runs -> LockFile]
           /\ handle' \in [Sessions -> {"closed", "linked", "unlinked"}]
  BY LockFileValues DEF TypeOK, OpenLock

LEMMA WriteTyped ==
    ASSUME TypeOK, NEW t \in Sessions, NEW r \in Runs, NEW tok \in Token,
           WriteLock(t, r, tok)
    PROVE  /\ lock' \in [Runs -> LockFile]
           /\ handle' \in [Sessions -> {"closed", "linked", "unlinked"}]
  BY LockFileValues DEF TypeOK, WriteLock

LEMMA ReleaseTyped ==
    ASSUME TypeOK, NEW t \in Sessions, NEW r \in Runs, Release(t, r)
    PROVE  /\ lock' \in [Runs -> LockFile]
           /\ handle' \in [Sessions -> {"closed", "linked", "unlinked"}]
  BY LockFileValues DEF TypeOK, Release

LEMMA TokenRead ==
    ASSUME TypeOK, NEW r \in Runs
    PROVE  lock[r].token \in Token
  BY DEF TypeOK, LockFile

LEMMA StaleTyped ==
    \A f \in LockFile : [f EXCEPT !.fresh = FALSE] \in LockFile
  BY DEF LockFile

LEMMA ActivityTyped ==
    /\ NoActivity \in Activity
    /\ \A r \in Runs : [run |-> r, status |-> "running"] \in Activity
    /\ \A a \in Activity, s \in {"success", "error", "timeout"} :
         [a EXCEPT !.status = s] \in Activity
  BY DEF NoActivity, Activity

LEMMA ConcludeTyped ==
    ASSUME TypeOK, NEW t \in Sessions, NEW s \in {"error", "timeout"}, Conclude(t, s)
    PROVE  /\ meta' \in [Runs -> {"none", "running", "success", "error", "timeout"}]
           /\ active' \in [Sessions -> Activity]
           /\ at' \in [Sessions -> Places]
  BY ActivityTyped DEF TypeOK, Conclude, Places, InTryBlock

TypeInv == TypeOK /\ RunsHandedOut

\* Types are kept, and a script works only on a run id that was handed out.
LEMMA TypeInvStep == TypeInv /\ [Next]_vars => TypeInv'
<1> SUFFICES ASSUME TypeInv, [Next]_vars PROVE TypeInv'
  OBVIOUS
<1> USE SessionAssumption DEF TypeInv, TypeOK, RunsHandedOut, Places, InTryBlock, fileVars
<1>1. ASSUME NEW t \in Sessions, TakeOverOpen(t) PROVE TypeInv'
  BY <1>1, OpenTyped DEF TakeOverOpen
<1>2. ASSUME NEW t \in Sessions, TakeOverWrite(t) PROVE TypeInv'
  BY <1>2, WriteTyped, ActivityTyped DEF TakeOverWrite, Token
<1>3. ASSUME NEW t \in Sessions, PlayDemo(t) PROVE TypeInv'
  BY <1>3 DEF PlayDemo
<1>4. ASSUME NEW t \in Sessions, EnterRun(t) PROVE TypeInv'
  BY <1>4 DEF EnterRun, Phases
<1>5. ASSUME NEW t \in Sessions, PhaseDone(t) PROVE TypeInv'
  BY <1>5 DEF PhaseDone
<1>6. ASSUME NEW t \in Sessions, PhaseRejected(t) PROVE TypeInv'
  BY <1>6 DEF PhaseRejected, LeaveTry
<1>7. ASSUME NEW t \in Sessions, PhaseFailed(t) PROVE TypeInv'
  BY <1>7, ConcludeTyped DEF PhaseFailed, Conclude
<1>8. ASSUME NEW t \in Sessions, BeatRead(t) PROVE TypeInv'
  BY <1>8, TokenRead DEF BeatRead
<1>9. ASSUME NEW t \in Sessions, BeatOpen(t) PROVE TypeInv'
  BY <1>9, OpenTyped DEF BeatOpen
<1>10. ASSUME NEW t \in Sessions, BeatWrite(t) PROVE TypeInv'
  BY <1>10, WriteTyped DEF BeatWrite, Token
<1>11. ASSUME NEW t \in Sessions, LimitExceeded(t) PROVE TypeInv'
  BY <1>11, ConcludeTyped DEF LimitExceeded, StopOverLimit, Conclude
<1>12. ASSUME NEW t \in Sessions, NextPhase(t) PROVE TypeInv'
  BY <1>12 DEF NextPhase, Following, Phases
<1>13. ASSUME NEW t \in Sessions, Succeed(t) PROVE TypeInv'
  BY <1>13, ActivityTyped DEF Succeed
<1>14. ASSUME NEW t \in Sessions, WrapUp(t) PROVE TypeInv'
  BY <1>14 DEF WrapUp, LeaveTry
<1>15. ASSUME NEW t \in Sessions, WrapUpFailed(t) PROVE TypeInv'
  BY <1>15, ConcludeTyped DEF WrapUpFailed, Conclude
<1>16. ASSUME NEW t \in Sessions, Finally(t) PROVE TypeInv'
  BY <1>16, ReleaseTyped, ActivityTyped DEF Finally, Phases
<1>17. ASSUME NEW t \in Sessions, Reload(t) PROVE TypeInv'
  BY <1>17, ActivityTyped DEF Reload
<1>18. ASSUME NEW t \in Sessions, SeeTakeOver(t) PROVE TypeInv'
  BY <1>18 DEF SeeTakeOver
<1>19. ASSUME NEW t \in Sessions, NEW r \in Runs, StartRun(t, r) PROVE TypeInv'
  BY <1>19, LockFileValues, ActivityTyped DEF StartRun, AcquireNew, Token
<1>20. ASSUME NEW t \in Sessions, AbortBeforeTry(t) PROVE TypeInv'
  BY <1>20 DEF AbortBeforeTry
<1>21. ASSUME NEW t \in Sessions, Interrupt(t) PROVE TypeInv'
  BY <1>21 DEF Interrupt, LeaveTry
<1>22. ASSUME NEW t \in Sessions, TimeoutElapses(t) PROVE TypeInv'
  BY <1>22 DEF TimeoutElapses
<1>26. ASSUME NEW t \in Sessions, PhaseTouchesTrace(t) PROVE TypeInv'
  BY <1>26 DEF PhaseTouchesTrace, Phases
<1>23. ASSUME NEW r \in Runs, Expire(r) PROVE TypeInv'
  BY <1>23, StaleTyped DEF Expire
<1>24. CASE Crash
  BY <1>24, ActivityTyped DEF Crash, Phases, Token
<1>25. CASE UNCHANGED vars
  BY <1>25 DEF vars
<1> QED
  BY <1>1, <1>2, <1>3, <1>4, <1>5, <1>6, <1>7, <1>8, <1>9, <1>10, <1>11, <1>12, <1>13, <1>14, <1>15, <1>16, <1>17, <1>18, <1>19, <1>20, <1>21, <1>22, <1>23, <1>24, <1>25, <1>26
    DEF Next, Script, Environment

DriverInv == OneDriverPerRun /\ DriverLockPresent

\* A run has one driver, and while it drives the lock file stays.
LEMMA DriverInvStep == TypeInv /\ DriverInv /\ [Next]_vars => DriverInv'
<1> SUFFICES ASSUME TypeInv, DriverInv, [Next]_vars PROVE DriverInv'
  OBVIOUS
<1> USE DEF DriverInv, OneDriverPerRun, DriverLockPresent, Driving, TypeInv,
      TypeOK, RunsHandedOut, LockFile, InTryBlock, fileVars
<1>1. ASSUME NEW t \in Sessions, TakeOverOpen(t) PROVE DriverInv'
  BY <1>1 DEF TakeOverOpen, OpenLock, Bare
<1>2. ASSUME NEW t \in Sessions, TakeOverWrite(t) PROVE DriverInv'
  BY <1>2 DEF TakeOverWrite, WriteLock, Bare, Written
<1>3. ASSUME NEW t \in Sessions, PlayDemo(t) PROVE DriverInv'
  BY <1>3 DEF PlayDemo
<1>4. ASSUME NEW t \in Sessions, EnterRun(t) PROVE DriverInv'
  BY <1>4 DEF EnterRun
<1>5. ASSUME NEW t \in Sessions, PhaseDone(t) PROVE DriverInv'
  BY <1>5 DEF PhaseDone
<1>6. ASSUME NEW t \in Sessions, PhaseRejected(t) PROVE DriverInv'
  BY <1>6 DEF PhaseRejected, LeaveTry
<1>7. ASSUME NEW t \in Sessions, PhaseFailed(t) PROVE DriverInv'
  BY <1>7 DEF PhaseFailed, Conclude
<1>8. ASSUME NEW t \in Sessions, BeatRead(t) PROVE DriverInv'
  <2>1. at' = [at EXCEPT ![t] = "limit"] \/ at' = [at EXCEPT ![t] = "beat_open"]
    BY <1>8 DEF BeatRead
  <2>2. at[t] = "beat" /\ UNCHANGED <<lock, run>>
    BY <1>8 DEF BeatRead
  <2>3. \A u \in Sessions : Driving(u)' <=> Driving(u)
    BY <2>1, <2>2
  <2> QED
    BY <2>2, <2>3
<1>9. ASSUME NEW t \in Sessions, BeatOpen(t) PROVE DriverInv'
  BY <1>9 DEF BeatOpen, OpenLock, Bare
<1>10. ASSUME NEW t \in Sessions, BeatWrite(t) PROVE DriverInv'
  BY <1>10 DEF BeatWrite, WriteLock, Bare, Written
<1>11. ASSUME NEW t \in Sessions, LimitExceeded(t) PROVE DriverInv'
  BY <1>11 DEF LimitExceeded, StopOverLimit, Conclude
<1>12. ASSUME NEW t \in Sessions, NextPhase(t) PROVE DriverInv'
  BY <1>12 DEF NextPhase
<1>13. ASSUME NEW t \in Sessions, Succeed(t) PROVE DriverInv'
  BY <1>13 DEF Succeed
<1>14. ASSUME NEW t \in Sessions, WrapUp(t) PROVE DriverInv'
  BY <1>14 DEF WrapUp, LeaveTry
<1>15. ASSUME NEW t \in Sessions, WrapUpFailed(t) PROVE DriverInv'
  <2>1. at[t] = "wrapup" /\ at' = [at EXCEPT ![t] = "finally"] /\ UNCHANGED <<lock, run>>
    BY <1>15 DEF WrapUpFailed, Conclude
  <2> QED
    BY <2>1
<1>16. ASSUME NEW t \in Sessions, Finally(t) PROVE DriverInv'
  BY <1>16 DEF Finally, Release, Bare
<1>17. ASSUME NEW t \in Sessions, Reload(t) PROVE DriverInv'
  BY <1>17 DEF Reload
<1>18. ASSUME NEW t \in Sessions, SeeTakeOver(t) PROVE DriverInv'
  BY <1>18 DEF SeeTakeOver
<1>19. ASSUME NEW t \in Sessions, NEW r \in Runs, StartRun(t, r) PROVE DriverInv'
  BY <1>19 DEF StartRun, AcquireNew, Written
<1>20. ASSUME NEW t \in Sessions, AbortBeforeTry(t) PROVE DriverInv'
  BY <1>20 DEF AbortBeforeTry
<1>21. ASSUME NEW t \in Sessions, Interrupt(t) PROVE DriverInv'
  BY <1>21 DEF Interrupt, LeaveTry
<1>22. ASSUME NEW t \in Sessions, TimeoutElapses(t) PROVE DriverInv'
  BY <1>22 DEF TimeoutElapses
<1>26. ASSUME NEW t \in Sessions, PhaseTouchesTrace(t) PROVE DriverInv'
  BY <1>26 DEF PhaseTouchesTrace
<1>23. ASSUME NEW r \in Runs, Expire(r) PROVE DriverInv'
  BY <1>23 DEF Expire
<1>24. CASE Crash
  BY <1>24 DEF Crash
<1>25. CASE UNCHANGED vars
  BY <1>25 DEF vars
<1> QED
  BY <1>1, <1>2, <1>3, <1>4, <1>5, <1>6, <1>7, <1>8, <1>9, <1>10, <1>11, <1>12, <1>13, <1>14, <1>15, <1>16, <1>17, <1>18, <1>19, <1>20, <1>21, <1>22, <1>23, <1>24, <1>25, <1>26
    DEF Next, Script, Environment

ProgressInv == UnusedRunsPristine /\ DriverProgress /\ SuccessShowsResults

\* run.json and the trace follow the place of the driver's script.
LEMMA ProgressInvStep == TypeInv /\ OneDriverPerRun /\ ProgressInv /\ [Next]_vars => ProgressInv'
<1> SUFFICES ASSUME TypeInv, OneDriverPerRun, ProgressInv, [Next]_vars PROVE ProgressInv'
  OBVIOUS
<1> USE DEF ProgressInv, UnusedRunsPristine, DriverProgress, SuccessShowsResults,
      Phases, OneDriverPerRun, Driving, TypeInv, TypeOK, RunsHandedOut, InTryBlock, fileVars
<1>1. ASSUME NEW t \in Sessions, TakeOverOpen(t) PROVE ProgressInv'
  BY <1>1 DEF TakeOverOpen
<1>2. ASSUME NEW t \in Sessions, TakeOverWrite(t) PROVE ProgressInv'
  BY <1>2 DEF TakeOverWrite
<1>3. ASSUME NEW t \in Sessions, PlayDemo(t) PROVE ProgressInv'
  BY <1>3 DEF PlayDemo
<1>4. ASSUME NEW t \in Sessions, EnterRun(t) PROVE ProgressInv'
  BY <1>4 DEF EnterRun
<1>5. ASSUME NEW t \in Sessions, PhaseDone(t) PROVE ProgressInv'
  BY <1>5 DEF PhaseDone
<1>6. ASSUME NEW t \in Sessions, PhaseRejected(t) PROVE ProgressInv'
  BY <1>6 DEF PhaseRejected, LeaveTry
<1>7. ASSUME NEW t \in Sessions, PhaseFailed(t) PROVE ProgressInv'
  BY <1>7 DEF PhaseFailed, Conclude
<1>8. ASSUME NEW t \in Sessions, BeatRead(t) PROVE ProgressInv'
  BY <1>8 DEF BeatRead
<1>9. ASSUME NEW t \in Sessions, BeatOpen(t) PROVE ProgressInv'
  BY <1>9 DEF BeatOpen
<1>10. ASSUME NEW t \in Sessions, BeatWrite(t) PROVE ProgressInv'
  BY <1>10 DEF BeatWrite
<1>11. ASSUME NEW t \in Sessions, LimitExceeded(t) PROVE ProgressInv'
  BY <1>11 DEF LimitExceeded, StopOverLimit, Conclude
<1>12. ASSUME NEW t \in Sessions, NextPhase(t) PROVE ProgressInv'
  BY <1>12 DEF NextPhase, Following, Phases
<1>13. ASSUME NEW t \in Sessions, Succeed(t) PROVE ProgressInv'
  BY <1>13 DEF Succeed
<1>14. ASSUME NEW t \in Sessions, WrapUp(t) PROVE ProgressInv'
  BY <1>14 DEF WrapUp, LeaveTry
<1>15. ASSUME NEW t \in Sessions, WrapUpFailed(t) PROVE ProgressInv'
  BY <1>15 DEF WrapUpFailed, Conclude
<1>16. ASSUME NEW t \in Sessions, Finally(t) PROVE ProgressInv'
  BY <1>16 DEF Finally
<1>17. ASSUME NEW t \in Sessions, Reload(t) PROVE ProgressInv'
  BY <1>17 DEF Reload
<1>18. ASSUME NEW t \in Sessions, SeeTakeOver(t) PROVE ProgressInv'
  BY <1>18 DEF SeeTakeOver
<1>19. ASSUME NEW t \in Sessions, NEW r \in Runs, StartRun(t, r) PROVE ProgressInv'
  BY <1>19 DEF StartRun
<1>20. ASSUME NEW t \in Sessions, AbortBeforeTry(t) PROVE ProgressInv'
  BY <1>20 DEF AbortBeforeTry
<1>21. ASSUME NEW t \in Sessions, Interrupt(t) PROVE ProgressInv'
  BY <1>21 DEF Interrupt, LeaveTry
<1>22. ASSUME NEW t \in Sessions, TimeoutElapses(t) PROVE ProgressInv'
  BY <1>22 DEF TimeoutElapses
<1>26. ASSUME NEW t \in Sessions, PhaseTouchesTrace(t) PROVE ProgressInv'
  BY <1>26 DEF PhaseTouchesTrace
<1>23. ASSUME NEW r \in Runs, Expire(r) PROVE ProgressInv'
  BY <1>23 DEF Expire
<1>24. CASE Crash
  BY <1>24 DEF Crash
<1>25. CASE UNCHANGED vars
  BY <1>25 DEF vars
<1> QED
  BY <1>1, <1>2, <1>3, <1>4, <1>5, <1>6, <1>7, <1>8, <1>9, <1>10, <1>11, <1>12, <1>13, <1>14, <1>15, <1>16, <1>17, <1>18, <1>19, <1>20, <1>21, <1>22, <1>23, <1>24, <1>25, <1>26
    DEF Next, Script, Environment

-----------------------------------------------------------------------------

IInv == TypeInv /\ DriverInv /\ ProgressInv

LEMMA InitIInv == Init => IInv
  BY SessionAssumption, LockFileValues, ActivityTyped
     DEF Init, IInv, TypeInv, TypeOK, RunsHandedOut, DriverInv, OneDriverPerRun,
       DriverLockPresent, ProgressInv, UnusedRunsPristine, DriverProgress,
       SuccessShowsResults, Driving, Token, Phases, Places, InTryBlock

LEMMA IInvStep == IInv /\ [Next]_vars => IInv'
  BY TypeInvStep, DriverInvStep, ProgressInvStep DEF IInv, DriverInv

LEMMA Invariance == Spec => []IInv
  BY InitIInv, IInvStep, PTL DEF Spec

\* The variables of the UI, of run.json and of the lock files keep their types.
THEOREM TypeCorrect == Spec => []TypeOK
<1>1. IInv => TypeOK
  BY DEF IInv, TypeInv
<1> QED
  BY <1>1, Invariance, PTL

\* While a session drives a run (app/__init__.py, _run), the lock file of the
\* run exists, although release removes a lock without looking at its token.
THEOREM LockPresentWhileDriven == Spec => []DriverLockPresent
<1>1. IInv => DriverLockPresent
  BY DEF IInv, DriverInv
<1> QED
  BY <1>1, Invariance, PTL

\* A run reported as a success has its results in the trace.
THEOREM SuccessIsComplete == Spec => []SuccessShowsResults
<1>1. IInv => SuccessShowsResults
  BY DEF IInv, ProgressInv
<1> QED
  BY <1>1, Invariance, PTL

\* run.json of a failed run is not rewritten: each write of run.json happens at
\* a place of the script where the run has not failed.
THEOREM FailureStays == Spec => FailureIsFinal
<1> DEFINE Kept == \A r \in Runs : meta[r] \in {"error", "timeout"} => meta'[r] = meta[r]
<1>1. ASSUME IInv, [Next]_vars PROVE [Kept]_meta
  <2> USE <1>1 DEF IInv, TypeInv, TypeOK, ProgressInv, DriverProgress, RunsHandedOut
  <2>1. ASSUME NEW t \in Sessions, PlayDemo(t) PROVE Kept
    BY <2>1 DEF PlayDemo
  <2>2. ASSUME NEW t \in Sessions, EnterRun(t) PROVE Kept
    BY <2>2 DEF EnterRun
  <2>3. ASSUME NEW t \in Sessions, PhaseFailed(t) PROVE Kept
    BY <2>3 DEF PhaseFailed, Conclude
  <2>4. ASSUME NEW t \in Sessions, LimitExceeded(t) PROVE Kept
    BY <2>4 DEF LimitExceeded, StopOverLimit, Conclude
  <2>5. ASSUME NEW t \in Sessions, Succeed(t) PROVE Kept
    BY <2>5 DEF Succeed
  <2>6. ASSUME NEW t \in Sessions, WrapUpFailed(t) PROVE Kept
    BY <2>6 DEF WrapUpFailed, Conclude
  <2>7. ASSUME NEW t \in Sessions, AbortBeforeTry(t) PROVE Kept
    BY <2>7 DEF AbortBeforeTry
  <2>8. CASE UNCHANGED meta
    BY <2>8
  <2> QED
    BY <1>1, <2>1, <2>2, <2>3, <2>4, <2>5, <2>6, <2>7, <2>8
       DEF Next, Script, Environment, fileVars, vars, Crash,
         TakeOverOpen, TakeOverWrite, PhaseDone, PhaseRejected, BeatRead, BeatOpen, BeatWrite, NextPhase, WrapUp, Finally, Reload, SeeTakeOver, StartRun, Interrupt, PhaseTouchesTrace, TimeoutElapses, Expire
<1> QED
  BY <1>1, Invariance, PTL DEF Spec, FailureIsFinal
=============================================================================
