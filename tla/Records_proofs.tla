---------------------------- MODULE Records_proofs --------------------------
(***************************************************************************)
(* Checkpoints and resumed runs, the stream of a run, the log of its       *)
(* calls, the audit trail, the documents, the size of a day's telemetry    *)
(* and the bundles of a project, for any number of runs, sessions, calls,  *)
(* writers and processes, and their disjoint union.                        *)
(***************************************************************************)
EXTENDS MCRecords, FiniteSetTheorems, SequenceTheorems, TLAPS

-----------------------------------------------------------------------------
(* Checkpoints and resumed runs. *)

\* The run in progress has begun, runs that have not are blank, and an origin
\* began before its resumption, whose call is the one in progress.
Bookkeeping ==
    /\ at = "idle" <=> run = NoRun
    /\ run # NoRun => run \in started
    /\ clean \subseteq started
    /\ \A r \in Runs \ started :
         /\ origin[r] = NoRun
         /\ marked[r] = {} /\ executed[r] = None /\ report[r] = None /\ trace[r] = None
    /\ \A r \in Runs : origin[r] # NoRun =>
         origin[r] \in started /\ origin[r] # run /\ ideaOf[r] = ideaOf[origin[r]]

TypeInv == TypeOK /\ Bookkeeping

\* Between a phase and its mark the work is there.
WorkInv ==
    /\ at = "executed" => executed[run] # None
    /\ at = "composed" => report[run] # None
    /\ MarkedIsDone
    /\ DoneNotRepeated

\* A trace holds no plan but its run's, a run plans only if its origin did not,
\* and the session then has the run's plan or none.
OriginInv ==
    /\ \A r \in Runs : trace[r] \in {None, "empty", "bare", ideaOf[r]}
    /\ at = "recover" => origin[run] # NoRun
    /\ run # NoRun /\ origin[run] # NoRun /\ "planner" \in Start(run) =>
         /\ at \notin {"plan", "planned"}
         /\ at # "recover" => planTasks \in {None, ideaOf[run]}
    /\ ResumedPlanIsOrigins

\* During a run that began in a new session, the session holds nothing of
\* another run.
SessionInv ==
    /\ run \in clean =>
         /\ planTasks \in {None, ideaOf[run]}
         /\ answers # None => answers = ideaOf[run] /\ executed[run] = ideaOf[run]
    /\ OwnReport

-----------------------------------------------------------------------------
\* Types are kept, and the books of runs and origins with them.
LEMMA RunTypeKept == TypeInv /\ [Next]_vars => TypeInv'
<1> SUFFICES ASSUME TypeInv, [Next]_vars PROVE TypeInv'
  OBVIOUS
<1> USE ResumeAssumption DEF TypeInv, TypeOK, Bookkeeping, Plans, Phases, session, history
<1>1. ASSUME NEW r \in Runs, Fresh(r) PROVE TypeInv'
  BY <1>1 DEF Fresh, Begin
<1>2. ASSUME NEW r \in Runs, NEW o \in Runs, ResumeFrom(r, o) PROVE TypeInv'
  BY <1>2 DEF ResumeFrom, Begin
<1>3. CASE Plan
  BY <1>3 DEF Plan
<1>4. CASE MarkPlanner
  BY <1>4 DEF MarkPlanner, Mark
<1>5. CASE Recover
  BY <1>5 DEF Recover, TakeFound
<1>6. CASE ReturnEmpty
  BY <1>6 DEF ReturnEmpty, Return
<1>7. CASE Execute
  BY <1>7 DEF Execute, NeedsExecution
<1>8. CASE ExecuteRaises
  BY <1>8 DEF ExecuteRaises, Return
<1>9. CASE MarkExecutor
  BY <1>9 DEF MarkExecutor, Mark
<1>10. CASE SkipExecution
  BY <1>10 DEF SkipExecution
<1>11. CASE Compose
  BY <1>11 DEF Compose, Answers
<1>12. CASE ComposeRaises
  BY <1>12 DEF ComposeRaises, Return
<1>13. CASE MarkSynth
  BY <1>13 DEF MarkSynth, Mark
<1>14. CASE SkipSynth
  BY <1>14 DEF SkipSynth, Return
<1>15. CASE Done
  BY <1>15 DEF Done, Return
<1>16. CASE NewSession
  BY <1>16 DEF NewSession, Return
<1>17. CASE UNCHANGED vars
  BY <1>17 DEF vars
<1> QED
  BY <1>1, <1>2, <1>3, <1>4, <1>5, <1>6, <1>7, <1>8,
     <1>9, <1>10, <1>11, <1>12, <1>13, <1>14, <1>15, <1>16, <1>17 DEF Next

\* The checkpoint of an origin does not change while its resumption runs.
LEMMA WorkKept == TypeInv /\ WorkInv /\ [Next]_vars => WorkInv'
<1> SUFFICES ASSUME TypeInv, WorkInv, [Next]_vars PROVE WorkInv'
  OBVIOUS
<1> USE ResumeAssumption DEF TypeInv, TypeOK, Bookkeeping, WorkInv, MarkedIsDone, DoneNotRepeated, Start, Plans, Phases, session, history
<1>1. ASSUME NEW r \in Runs, Fresh(r) PROVE WorkInv'
  BY <1>1 DEF Fresh, Begin
<1>2. ASSUME NEW r \in Runs, NEW o \in Runs, ResumeFrom(r, o) PROVE WorkInv'
  BY <1>2 DEF ResumeFrom, Begin
<1>3. CASE Plan
  BY <1>3 DEF Plan
<1>4. CASE MarkPlanner
  BY <1>4 DEF MarkPlanner, Mark
<1>5. CASE Recover
  BY <1>5 DEF Recover, TakeFound
<1>6. CASE ReturnEmpty
  BY <1>6 DEF ReturnEmpty, Return
<1>7. CASE Execute
  BY <1>7 DEF Execute, NeedsExecution
<1>8. CASE ExecuteRaises
  BY <1>8 DEF ExecuteRaises, Return
<1>9. CASE MarkExecutor
  BY <1>9 DEF MarkExecutor, Mark
<1>10. CASE SkipExecution
  BY <1>10 DEF SkipExecution
<1>11. CASE Compose
  BY <1>11 DEF Compose, Answers
<1>12. CASE ComposeRaises
  BY <1>12 DEF ComposeRaises, Return
<1>13. CASE MarkSynth
  BY <1>13 DEF MarkSynth, Mark
<1>14. CASE SkipSynth
  BY <1>14 DEF SkipSynth, Return
<1>15. CASE Done
  BY <1>15 DEF Done, Return
<1>16. CASE NewSession
  BY <1>16 DEF NewSession, Return
<1>17. CASE UNCHANGED vars
  BY <1>17 DEF vars
<1> QED
  BY <1>1, <1>2, <1>3, <1>4, <1>5, <1>6, <1>7, <1>8,
     <1>9, <1>10, <1>11, <1>12, <1>13, <1>14, <1>15, <1>16, <1>17 DEF Next

\* Recover reads the origin's plan or none.
LEMMA OriginKept == TypeInv /\ OriginInv /\ [Next]_vars => OriginInv'
<1> SUFFICES ASSUME TypeInv, OriginInv, [Next]_vars PROVE OriginInv'
  OBVIOUS
<1> USE ResumeAssumption DEF TypeInv, TypeOK, Bookkeeping, OriginInv, ResumedPlanIsOrigins, Start, Plans, Phases, session, history
<1>1. ASSUME NEW r \in Runs, Fresh(r) PROVE OriginInv'
  BY <1>1 DEF Fresh, Begin
<1>2. ASSUME NEW r \in Runs, NEW o \in Runs, ResumeFrom(r, o) PROVE OriginInv'
  BY <1>2 DEF ResumeFrom, Begin
<1>3. CASE Plan
  BY <1>3 DEF Plan
<1>4. CASE MarkPlanner
  BY <1>4 DEF MarkPlanner, Mark
<1>5. CASE Recover
  BY <1>5 DEF Recover, TakeFound
<1>6. CASE ReturnEmpty
  BY <1>6 DEF ReturnEmpty, Return
<1>7. CASE Execute
  BY <1>7 DEF Execute, NeedsExecution
<1>8. CASE ExecuteRaises
  BY <1>8 DEF ExecuteRaises, Return
<1>9. CASE MarkExecutor
  BY <1>9 DEF MarkExecutor, Mark
<1>10. CASE SkipExecution
  BY <1>10 DEF SkipExecution
<1>11. CASE Compose
  BY <1>11 DEF Compose, Answers
<1>12. CASE ComposeRaises
  BY <1>12 DEF ComposeRaises, Return
<1>13. CASE MarkSynth
  BY <1>13 DEF MarkSynth, Mark
<1>14. CASE SkipSynth
  BY <1>14 DEF SkipSynth, Return
<1>15. CASE Done
  BY <1>15 DEF Done, Return
<1>16. CASE NewSession
  BY <1>16 DEF NewSession, Return
<1>17. CASE UNCHANGED vars
  BY <1>17 DEF vars
<1> QED
  BY <1>1, <1>2, <1>3, <1>4, <1>5, <1>6, <1>7, <1>8,
     <1>9, <1>10, <1>11, <1>12, <1>13, <1>14, <1>15, <1>16, <1>17 DEF Next

\* Only the run's own steps write to its session.
LEMMA SessionKept == TypeInv /\ OriginInv /\ SessionInv /\ [Next]_vars => SessionInv'
<1> SUFFICES ASSUME TypeInv, OriginInv, SessionInv, [Next]_vars PROVE SessionInv'
  OBVIOUS
<1> USE ResumeAssumption DEF TypeInv, TypeOK, Bookkeeping, OriginInv, SessionInv, OwnReport, Plans, Phases, session, history
<1>1. ASSUME NEW r \in Runs, Fresh(r) PROVE SessionInv'
  BY <1>1 DEF Fresh, Begin
<1>2. ASSUME NEW r \in Runs, NEW o \in Runs, ResumeFrom(r, o) PROVE SessionInv'
  BY <1>2 DEF ResumeFrom, Begin
<1>3. CASE Plan
  BY <1>3 DEF Plan
<1>4. CASE MarkPlanner
  BY <1>4 DEF MarkPlanner, Mark
<1>5. CASE Recover
  BY <1>5 DEF Recover, TakeFound
<1>6. CASE ReturnEmpty
  BY <1>6 DEF ReturnEmpty, Return
<1>7. CASE Execute
  BY <1>7 DEF Execute, NeedsExecution
<1>8. CASE ExecuteRaises
  BY <1>8 DEF ExecuteRaises, Return
<1>9. CASE MarkExecutor
  BY <1>9 DEF MarkExecutor, Mark
<1>10. CASE SkipExecution
  BY <1>10 DEF SkipExecution
<1>11. CASE Compose
  BY <1>11 DEF Compose, Answers
<1>12. CASE ComposeRaises
  BY <1>12 DEF ComposeRaises, Return
<1>13. CASE MarkSynth
  BY <1>13 DEF MarkSynth, Mark
<1>14. CASE SkipSynth
  BY <1>14 DEF SkipSynth, Return
<1>15. CASE Done
  BY <1>15 DEF Done, Return
<1>16. CASE NewSession
  BY <1>16 DEF NewSession, Return
<1>17. CASE UNCHANGED vars
  BY <1>17 DEF vars
<1> QED
  BY <1>1, <1>2, <1>3, <1>4, <1>5, <1>6, <1>7, <1>8,
     <1>9, <1>10, <1>11, <1>12, <1>13, <1>14, <1>15, <1>16, <1>17 DEF Next

-----------------------------------------------------------------------------
ResumeInv == TypeInv /\ WorkInv /\ OriginInv /\ SessionInv

LEMMA InitResumeInv == Init => ResumeInv
  BY ResumeAssumption DEF Init, ResumeInv, TypeInv, TypeOK, Bookkeeping, WorkInv, MarkedIsDone,
     DoneNotRepeated, OriginInv, ResumedPlanIsOrigins, SessionInv, OwnReport, Start, Plans, Phases

LEMMA ResumeInvariant == Spec => []ResumeInv
<1>1. ResumeInv /\ [Next]_vars => ResumeInv'
  BY RunTypeKept, WorkKept, OriginKept, SessionKept DEF ResumeInv
<1> QED
  BY InitResumeInv, <1>1, PTL DEF Spec

\* The variables of the checkpoints, the session and the call keep their types.
THEOREM TypeCorrect == Spec => []TypeOK
<1>1. ResumeInv => TypeOK
  BY DEF ResumeInv, TypeInv
<1> QED
  BY ResumeInvariant, <1>1, PTL

\* A checkpoint of orchestrate never marks a phase whose work is not done,
\* whatever raises and wherever the process dies.
THEOREM MarksAreBacked == Spec => []MarkedIsDone
<1>1. ResumeInv => MarkedIsDone
  BY DEF ResumeInv, WorkInv
<1> QED
  BY ResumeInvariant, <1>1, PTL

\* A run resumed by orchestrate repeats no phase that its origin's checkpoint
\* marks, however runs resume one another.
THEOREM NothingRepeated == Spec => []DoneNotRepeated
<1>1. ResumeInv => DoneNotRepeated
  BY DEF ResumeInv, WorkInv
<1> QED
  BY ResumeInvariant, <1>1, PTL

\* A run resumed after planning executes its origin's plan or none, although
\* the session may hold the plan of any other run.
THEOREM OriginsPlanResumed == Spec => []ResumedPlanIsOrigins
<1>1. ResumeInv => ResumedPlanIsOrigins
  BY DEF ResumeInv, OriginInv
<1> QED
  BY ResumeInvariant, <1>1, PTL

\* The report of a run that began in a new session is from its own answers, or
\* from none.
THEOREM ReportIsOwn == Spec => []OwnReport
<1>1. ResumeInv => OwnReport
  BY DEF ResumeInv, SessionInv
<1> QED
  BY ResumeInvariant, <1>1, PTL

-----------------------------------------------------------------------------
(* The stream of a run. *)

\* The plan that a stage goes by.
PlanInv ==
    /\ stage \in {"opened", "execute"} => plan = "own"
    /\ OwnPlanExecuted

\* Every action keeps the plan a session executes its own.
LEMMA PlanStep == PlanInv /\ [StreamNext]_streamVars => PlanInv'
<1> SUFFICES ASSUME PlanInv, [StreamNext]_streamVars PROVE PlanInv'
  OBVIOUS
<1> USE DEF PlanInv, OwnPlanExecuted, Raises, At
<1>1. CASE Yield \/ Leave \/ Stop
  BY <1>1 DEF Yield, Leave, Stop
<1>2. CASE AskPlanner
  BY <1>2 DEF AskPlanner, Planned, NoPlan, Continue
<1>3. CASE CheckBeforeRetry
  BY <1>3 DEF CheckBeforeRetry, Continue
<1>4. CASE AskAgain
  BY <1>4 DEF AskAgain, Planned, NoPlan, Continue
<1>5. CASE OpenExecutor
  BY <1>5 DEF OpenExecutor, Continue
<1>6. CASE ExecuteStream
  BY <1>6 DEF ExecuteStream, Continue
<1>7. CASE Synthesize \/ CompleteStream
  BY <1>7 DEF Synthesize, CompleteStream, Continue
<1>8. CASE UNCHANGED streamVars
  BY <1>8 DEF streamVars
<1> QED
  BY <1>1, <1>2, <1>3, <1>4, <1>5, <1>6, <1>7, <1>8 DEF StreamNext

\* However the planner fails and the stream is left or stopped, it never executes
\* the plan that the session holds from an earlier run (orchestrator.py:1939-2022).
THEOREM OwnPlanIsExecuted == StreamSpec => []OwnPlanExecuted
<1>1. StreamInit => PlanInv
  BY DEF StreamInit, PlanInv, OwnPlanExecuted
<1>2. PlanInv => OwnPlanExecuted
  BY DEF PlanInv
<1> QED
  BY <1>1, <1>2, PlanStep, PTL DEF StreamSpec

-----------------------------------------------------------------------------
Verdicts == {"error", "done"}
Quiet(s) == \A i \in 1 .. Len(s) : s[i] \notin Verdicts
Closes(s, e) == s # <<>> /\ s[Len(s)] = e /\ \A i \in 1 .. Len(s) - 1 : s[i] \notin Verdicts

\* Before its end a stream says nothing of a verdict; at an end it is still to say the
\* verdict last, or has said it.
VerdictInv ==
    /\ stage \in {"plan", "retry", "again", "opened", "execute", "synth",
                  "done", "error", "failed", "over", "left"}
    /\ todo \in Seq(Kinds) /\ sent \in Seq(Kinds)
    /\ stage \in {"plan", "retry", "again", "opened", "execute", "synth"} =>
          Quiet(todo) /\ Quiet(sent)
    /\ stage \in {"done", "error"} =>
          IF todo = <<>> THEN unrecorded \/ Closes(sent, stage)
                         ELSE Quiet(sent) /\ Closes(todo, stage)
    /\ stage \in {"failed", "over", "left"} => todo = <<>>
    /\ stage = "failed" => unrecorded \/ Closes(sent, "error")
    /\ stage = "left" => unrecorded \/ Quiet(sent) \/ \E e \in Verdicts : Closes(sent, e)
    /\ stage = "over" => unrecorded \/ \E e \in Verdicts : Closes(sent, e) /\ completed = <<e>>
    /\ stage # "over" => completed = <<>>

LEMMA QuietAppend ==
    ASSUME NEW s \in Seq(Kinds), NEW x \in Kinds, Quiet(s)
    PROVE  /\ Append(s, x) \in Seq(Kinds)
           /\ x \notin Verdicts => Quiet(Append(s, x))
           /\ Closes(Append(s, x), x)
<1>1. /\ Append(s, x) \in Seq(Kinds) /\ Len(Append(s, x)) = Len(s) + 1 /\ Len(s) \in Nat
      /\ Append(s, x)[Len(s) + 1] = x
      /\ \A i \in 1 .. Len(s) : Append(s, x)[i] = s[i]
  OBVIOUS
<1> QED
  BY <1>1 DEF Quiet, Closes

LEMMA NoEvents == \A t \in Seq(Kinds) : t = <<>> <=> Len(t) = 0
  BY EmptySeq, Zenon

\* What is left of a sequence of events when its first is yielded.
LEMMA TailSays ==
    ASSUME NEW s \in Seq(Kinds), s # <<>>
    PROVE  /\ Head(s) \in Kinds /\ Tail(s) \in Seq(Kinds)
           /\ Tail(s) = <<>> <=> Len(s) = 1
           /\ Quiet(s) => Head(s) \notin Verdicts /\ Quiet(Tail(s))
           /\ \A e : Closes(s, e) =>
                 IF Tail(s) = <<>> THEN Head(s) = e
                 ELSE Head(s) \notin Verdicts /\ Closes(Tail(s), e)
<1>1. /\ Len(s) \in Nat \ {0} /\ Head(s) = s[1] /\ Head(s) \in Kinds
      /\ Tail(s) \in Seq(Kinds) /\ Len(Tail(s)) = Len(s) - 1
      /\ \A i \in 1 .. Len(s) - 1 : Tail(s)[i] = s[i + 1]
  OBVIOUS
<1>2. Quiet(s) => Head(s) \notin Verdicts /\ Quiet(Tail(s))
  BY <1>1 DEF Quiet
<1>3. Tail(s) = <<>> <=> Len(s) = 1
  <2>1. Len(Tail(s)) = 0 <=> Len(s) = 1
    BY <1>1
  <2> QED
    BY <1>1, <2>1, NoEvents, Zenon
<1>4. ASSUME NEW e, Closes(s, e), Len(s) = 1 PROVE Head(s) = e
  BY <1>1, <1>4 DEF Closes
<1>5. ASSUME NEW e, Closes(s, e), Len(s) # 1
      PROVE  Head(s) \notin Verdicts /\ Closes(Tail(s), e)
  <2>1. Head(s) \notin Verdicts
    BY <1>1, <1>5 DEF Closes
  <2>2. Tail(s)[Len(Tail(s))] = e
    BY <1>1, <1>5 DEF Closes
  <2>3. \A i \in 1 .. Len(Tail(s)) - 1 : Tail(s)[i] \notin Verdicts
    <3> TAKE i \in 1 .. Len(Tail(s)) - 1
    <3>1. i \in 1 .. Len(s) - 1 /\ i + 1 \in 1 .. Len(s) - 1
      BY <1>1
    <3> QED
      BY <1>1, <1>5, <3>1 DEF Closes
  <2> QED
    BY <1>3, <1>5, <2>1, <2>2, <2>3, Zenon DEF Closes
<1> QED
  BY <1>1, <1>2, <1>3, <1>4, <1>5, Zenon

LEMMA QuietConcat ==
    ASSUME NEW s \in Seq(Kinds), NEW t \in Seq(Kinds), Quiet(s)
    PROVE  /\ s \o t \in Seq(Kinds) /\ Len(s \o t) = Len(s) + Len(t)
           /\ Quiet(t) => Quiet(s \o t)
           /\ \A e : Closes(t, e) => Closes(s \o t, e)
<1>1. /\ s \o t \in Seq(Kinds) /\ Len(s \o t) = Len(s) + Len(t)
      /\ \A i \in 1 .. Len(s) + Len(t) :
            (s \o t)[i] = IF i <= Len(s) THEN s[i] ELSE t[i - Len(s)]
      /\ Len(s) \in Nat /\ Len(t) \in Nat
  OBVIOUS
<1>2. ASSUME Quiet(t) PROVE Quiet(s \o t)
  BY <1>1, <1>2 DEF Quiet
<1>3. ASSUME NEW e, Closes(t, e) PROVE Closes(s \o t, e)
  <2>1. Len(t) >= 1 /\ t[Len(t)] = e
    BY <1>1, <1>3 DEF Closes
  <2>2. (s \o t)[Len(s) + Len(t)] = e /\ s \o t # <<>>
    BY <1>1, <2>1
  <2>3. \A i \in 1 .. Len(s) + Len(t) - 1 : (s \o t)[i] \notin Verdicts
    BY <1>1, <1>3, <2>1 DEF Closes, Quiet
  <2> QED
    BY <1>1, <2>2, <2>3 DEF Closes
<1> QED
  BY <1>1, <1>2, <1>3

\* The sequences that the stages yield.
LEMMA EventLists ==
    /\ \A s \in {Summary, Summary \o <<"phase_start">>, <<"phase_start">>} :
          s \in Seq(Kinds) /\ s # <<>> /\ Quiet(s)
    /\ \A e \in Verdicts : \A s \in {Summary \o <<e>>, Closing \o <<e>>} :
          s \in Seq(Kinds) /\ s # <<>> /\ Tail(s) # <<>> /\ Closes(s, e)
<1>1. /\ Closing \in Seq(Kinds) /\ Quiet(Closing) /\ Len(Closing) = 3
      /\ \A x \in {"summary", "phase_start"} :
            <<x>> \in Seq(Kinds) /\ Quiet(<<x>>) /\ Len(<<x>>) = 1
  BY DEF Closing, Kinds, Verdicts, Quiet
<1>2. \A e \in Verdicts : <<e>> \in Seq(Kinds) /\ Closes(<<e>>, e) /\ Len(<<e>>) = 1
  BY DEF Kinds, Verdicts, Closes
<1>3. Summary \in Seq(Kinds) /\ Quiet(Summary) /\ Len(Summary) = 4
  <2>1. Summary \in Seq(Kinds) /\ Quiet(Summary) /\ Len(Summary) = Len(<<"summary">>) + Len(Closing)
    BY <1>1, QuietConcat, Zenon DEF Summary
  <2> QED
    BY <1>1, <2>1
<1>4. LET s == Summary \o <<"phase_start">>
      IN  s \in Seq(Kinds) /\ Quiet(s) /\ Len(s) = 5
  <2>1. LET s == Summary \o <<"phase_start">>
        IN  s \in Seq(Kinds) /\ Quiet(s) /\ Len(s) = Len(Summary) + Len(<<"phase_start">>)
    BY <1>1, <1>3, QuietConcat, Zenon
  <2> QED
    BY <1>1, <1>3, <2>1
<1>5. ASSUME NEW e \in Verdicts, NEW p \in {Summary, Closing}
      PROVE  LET s == p \o <<e>>
             IN  s \in Seq(Kinds) /\ s # <<>> /\ Tail(s) # <<>> /\ Closes(s, e)
  <2> DEFINE s == p \o <<e>>
  <2>1. p \in Seq(Kinds) /\ Quiet(p) /\ Len(p) \in {3, 4}
    BY <1>1, <1>3
  <2>2. s \in Seq(Kinds) /\ Len(s) = Len(p) + Len(<<e>>) /\ Closes(s, e)
    BY <1>2, <2>1, QuietConcat, Zenon
  <2> HIDE DEF s
  <2>3. Len(s) # 0 /\ Len(s) # 1
    BY <1>2, <2>1, <2>2
  <2>4. s # <<>>
    BY <2>2, <2>3, NoEvents, Zenon
  <2>5. Tail(s) # <<>>
    BY <2>2, <2>3, <2>4, TailSays, Zenon
  <2> QED
    BY <2>2, <2>4, <2>5 DEF s
<1>6. ASSUME NEW s \in {Summary, Summary \o <<"phase_start">>, <<"phase_start">>}
      PROVE  s \in Seq(Kinds) /\ s # <<>> /\ Quiet(s)
  <2>1. s \in Seq(Kinds) /\ Quiet(s) /\ Len(s) \in {1, 4, 5}
    BY <1>1, <1>3, <1>4
  <2>2. Len(<<>>) = 0
    OBVIOUS
  <2> QED
    BY <2>1, <2>2
<1> QED
  BY <1>5, <1>6

\* The generator goes on with events that say nothing of a verdict, or say it last.
LEMMA ContinueSays ==
    ASSUME NEW s \in Seq(Kinds), NEW next, s # <<>>, sent \in Seq(Kinds), Quiet(sent),
           Continue(s, next)
    PROVE  /\ stage' = next /\ todo' \in Seq(Kinds) /\ sent' \in Seq(Kinds)
           /\ Quiet(s) => Quiet(todo') /\ Quiet(sent')
           /\ \A e : Closes(s, e) =>
                 IF Tail(s) = <<>> THEN todo' = <<>> /\ Closes(sent', e)
                 ELSE todo' # <<>> /\ Quiet(sent') /\ Closes(todo', e)
<1>1. stage' = next /\ sent' = Append(sent, Head(s)) /\ todo' = Tail(s)
  BY Zenon DEF Continue
<1> QED
  BY <1>1, TailSays, QuietAppend, Zenon

LEMMA ContinueSilently ==
    ASSUME NEW next, Continue(<<>>, next)
    PROVE  stage' = next /\ UNCHANGED <<sent, todo>>
  BY Zenon DEF Continue

LEMMA RaiseSays ==
    ASSUME sent \in Seq(Kinds), Quiet(sent), Raises
    PROVE  /\ stage' = "failed" /\ todo' = <<>> /\ todo' \in Seq(Kinds)
           /\ sent' \in Seq(Kinds) /\ Closes(sent', "error")
<1>1. /\ stage' = "failed" /\ sent' = Append(sent, Head(<<"error">>))
      /\ todo' = Tail(<<"error">>) /\ <<"error">> # <<>>
  BY DEF Raises, Continue
<1>2. Head(<<"error">>) = "error" /\ Tail(<<"error">>) = <<>>
  OBVIOUS
<1>3. sent' = Append(sent, "error") /\ todo' = <<>>
  BY <1>1, <1>2, Zenon
<1> QED
  BY <1>1, <1>3, QuietAppend DEF Kinds

\* Every action keeps what a stream has said in line with where it is.
LEMMA VerdictStep == VerdictInv /\ [StreamNext]_streamVars => VerdictInv'
<1> SUFFICES ASSUME VerdictInv, [StreamNext]_streamVars PROVE VerdictInv'
  OBVIOUS
<1> DEFINE Silent == {"plan", "retry", "again", "opened", "execute", "synth"}
<1>s. \A s \in Silent, e \in Verdicts : At(s) => Quiet(sent) /\ stage = s
  BY DEF VerdictInv, At
<1>t. todo \in Seq(Kinds) /\ sent \in Seq(Kinds)
  BY DEF VerdictInv
<1>r. ASSUME NEW s \in Silent, At(s), Raises, UNCHANGED <<completed, unrecorded>>
      PROVE  VerdictInv'
  BY <1>r, <1>t, RaiseSays DEF VerdictInv, At
<1>q. ASSUME NEW s \in Silent, At(s), UNCHANGED <<completed, unrecorded>>,
             NEW next \in Silent,
             \/ Continue(<<>>, next)
             \/ \E t \in {Summary, Summary \o <<"phase_start">>, <<"phase_start">>} : Continue(t, next)
      PROVE  VerdictInv'
  <2>1. CASE Continue(<<>>, next)
    BY <1>q, <2>1, ContinueSilently DEF VerdictInv, At
  <2>2. ASSUME NEW t \in {Summary, Summary \o <<"phase_start">>, <<"phase_start">>},
               Continue(t, next)
        PROVE  VerdictInv'
    <3>1. t \in Seq(Kinds) /\ t # <<>> /\ Quiet(t)
      BY EventLists, Zenon
    <3>2. /\ stage' = next /\ todo' \in Seq(Kinds) /\ sent' \in Seq(Kinds)
          /\ Quiet(todo') /\ Quiet(sent')
      BY <1>q, <1>s, <1>t, <2>2, <3>1, ContinueSays, Zenon DEF Verdicts
    <3> HIDE DEF Summary
    <3> QED
      BY <1>q, <3>2 DEF VerdictInv, At
  <2> QED
    BY <1>q, <2>1, <2>2
<1>e. ASSUME NEW s \in Silent, At(s), UNCHANGED <<completed, unrecorded>>,
             NEW e \in Verdicts,
             \E t \in {Summary \o <<e>>, Closing \o <<e>>} : Continue(t, e)
      PROVE  VerdictInv'
  <2>1. PICK t \in {Summary \o <<e>>, Closing \o <<e>>} : Continue(t, e)
    BY <1>e
  <2>2. t \in Seq(Kinds) /\ t # <<>> /\ Tail(t) # <<>> /\ Closes(t, e)
    BY EventLists, Zenon
  <2>3. /\ stage' = e /\ todo' \in Seq(Kinds) /\ sent' \in Seq(Kinds)
        /\ todo' # <<>> /\ Quiet(sent') /\ Closes(todo', e)
    BY <1>e, <1>s, <1>t, <2>1, <2>2, ContinueSays, Zenon
  <2> QED
    BY <1>e, <2>3 DEF VerdictInv, At, Verdicts
<1>1. CASE Yield
  <2>1. /\ Head(todo) \in Kinds /\ todo' = Tail(todo) /\ todo # <<>> /\ stage # "left"
        /\ sent' = Append(sent, Head(todo)) /\ todo' \in Seq(Kinds) /\ sent' \in Seq(Kinds)
        /\ UNCHANGED <<stage, completed, unrecorded>>
    BY <1>1, <1>t, TailSays DEF Yield
  <2>2. CASE stage \in Silent
    <3>1. Quiet(todo') /\ Quiet(sent')
      BY <1>t, <2>1, <2>2, TailSays, QuietAppend DEF VerdictInv
    <3> QED
      BY <2>1, <2>2, <3>1 DEF VerdictInv
  <2>3. CASE stage \in {"done", "error"}
    <3>1. Quiet(sent) /\ Closes(todo, stage)
      BY <2>1, <2>3 DEF VerdictInv
    <3>2. IF todo' = <<>> THEN Closes(sent', stage) ELSE Quiet(sent') /\ Closes(todo', stage)
      BY <1>t, <2>1, <3>1, TailSays, QuietAppend, Zenon
    <3> QED
      BY <2>1, <2>3, <3>2 DEF VerdictInv
  <2>4. stage \notin {"failed", "over"}
    BY <2>1 DEF VerdictInv
  <2> QED
    BY <2>1, <2>2, <2>3, <2>4 DEF VerdictInv
<1>2. CASE Leave
  <2>1. /\ stage' = "left" /\ todo' = <<>> /\ UNCHANGED <<sent, completed, unrecorded>>
        /\ stage \notin {"over", "left"} /\ todo' \in Seq(Kinds)
    BY <1>2 DEF Leave
  <2>2. unrecorded \/ Quiet(sent) \/ \E e \in Verdicts : Closes(sent, e)
    BY <2>1 DEF VerdictInv, Verdicts
  <2> QED
    BY <2>1, <2>2 DEF VerdictInv
<1>3. CASE Stop
  BY <1>3 DEF Stop, VerdictInv
<1>4. CASE AskPlanner
  <2>1. At("plan") /\ UNCHANGED <<completed, unrecorded>>
    BY <1>4 DEF AskPlanner
  <2>2. \/ Raises \/ Continue(Summary, "opened") \/ Continue(Summary \o <<"error">>, "error")
        \/ Continue(<<>>, "retry")
    BY <1>4, Zenon DEF AskPlanner, Planned, NoPlan
  <2> QED
    BY <1>r, <1>q, <1>e, <2>1, <2>2, Zenon DEF Verdicts
<1>5. CASE CheckBeforeRetry
  <2>1. /\ At("retry") /\ UNCHANGED <<completed, unrecorded>>
        /\ Raises \/ Continue(<<>>, "again")
    BY <1>5, Zenon DEF CheckBeforeRetry
  <2> QED
    BY <1>r, <1>q, <2>1, Zenon
<1>6. CASE AskAgain
  <2>1. /\ At("again") /\ UNCHANGED <<completed, unrecorded>>
        /\ \/ Raises \/ Continue(Summary, "opened")
           \/ Continue(Summary \o <<"error">>, "error")
    BY <1>6, Zenon DEF AskAgain, Planned, NoPlan
  <2> QED
    BY <1>r, <1>q, <1>e, <2>1, Zenon DEF Verdicts
<1>7. CASE OpenExecutor
  <2>1. /\ At("opened") /\ UNCHANGED <<completed, unrecorded>>
        /\ Continue(<<"phase_start">>, "execute")
    BY <1>7, Zenon DEF OpenExecutor
  <2> QED
    BY <1>q, <2>1, Zenon
<1>8. CASE ExecuteStream
  <2>1. /\ At("execute") /\ UNCHANGED <<completed, unrecorded>>
        /\ \/ Raises \/ Continue(Summary \o <<"phase_start">>, "synth")
           \/ Continue(Closing \o <<"error">>, "error")
    BY <1>8, Zenon DEF ExecuteStream
  <2> QED
    BY <1>r, <1>q, <1>e, <2>1, Zenon DEF Verdicts
<1>9. CASE Synthesize
  <2>1. /\ At("synth") /\ UNCHANGED <<completed, unrecorded>>
        /\ Raises \/ Continue(Summary \o <<"done">>, "done")
    BY <1>9, Zenon DEF Synthesize
  <2> QED
    BY <1>r, <1>e, <2>1, Zenon DEF Verdicts
<1>10. CASE CompleteStream
  <2>0. stage \in {"done", "error", "failed"} /\ todo = <<>> /\ completed = <<>>
    BY <1>10 DEF CompleteStream, VerdictInv
  <2> DEFINE v == IF stage = "done" THEN "done" ELSE "error"
  <2>1. CASE completed' = Append(completed, v) /\ Continue(<<>>, "over") /\ UNCHANGED unrecorded
    <3>1. stage' = "over" /\ UNCHANGED <<sent, todo>>
      BY <2>1, ContinueSilently
    <3>2. completed' = <<v>>
      BY <2>0, <2>1
    <3>3. v \in Verdicts /\ (unrecorded \/ Closes(sent, v))
      BY <2>0 DEF VerdictInv, Verdicts
    <3> HIDE DEF v
    <3> QED
      BY <1>t, <2>0, <2>1, <3>1, <3>2, <3>3 DEF VerdictInv
  <2>2. CASE unrecorded' = TRUE /\ UNCHANGED completed /\ stage = "failed" /\ Continue(<<>>, "over")
    <3>1. stage' = "over" /\ UNCHANGED <<sent, todo>>
      BY <2>2, ContinueSilently
    <3> QED
      BY <1>t, <2>0, <2>2, <3>1 DEF VerdictInv
  <2>3. CASE unrecorded' = TRUE /\ UNCHANGED completed /\ stage # "failed" /\ Raises
    <3>1. /\ stage' = "failed" /\ sent' = Append(sent, "error") /\ todo' = <<>>
      BY <2>3 DEF Raises, Continue
    <3>2. sent' \in Seq(Kinds) /\ todo' \in Seq(Kinds)
      BY <1>t, <3>1 DEF Kinds
    <3> QED
      BY <2>0, <2>3, <3>1, <3>2 DEF VerdictInv
  <2> QED
    BY <1>10, <2>1, <2>2, <2>3, Zenon DEF CompleteStream, Completed
<1>11. CASE UNCHANGED streamVars
  BY <1>11 DEF streamVars, VerdictInv
<1> QED
  BY <1>1, <1>2, <1>3, <1>4, <1>5, <1>6, <1>7, <1>8, <1>9, <1>10, <1>11 DEF StreamNext

LEMMA VerdictStart == StreamInit => VerdictInv
<1> SUFFICES ASSUME StreamInit PROVE VerdictInv
  OBVIOUS
<1>1. todo \in Seq(Kinds) /\ sent \in Seq(Kinds) /\ Quiet(todo) /\ Quiet(sent)
  BY DEF StreamInit, Kinds, Quiet, Verdicts
<1> QED
  BY <1>1 DEF StreamInit, VerdictInv

\* However a stream fails, is stopped or is left, a consumer that reads to its end gets
\* one verdict, last, and the one that was recorded (orchestrator.py:1929-2163), unless
\* it could not be recorded.
THEOREM VerdictIsOne == StreamSpec => []OneVerdict
<1>1. VerdictInv => OneVerdict
  <2> SUFFICES ASSUME VerdictInv PROVE OneVerdict
    OBVIOUS
  <2>1. Terminal(sent) = {i \in 1 .. Len(sent) : sent[i] \in Verdicts} /\ Len(sent) \in Nat
    BY DEF VerdictInv, Terminal, Verdicts
  <2>2. Quiet(sent) => Terminal(sent) = {}
    BY <2>1 DEF Quiet
  <2>3. ASSUME NEW e \in Verdicts, Closes(sent, e)
        PROVE  Terminal(sent) = {Len(sent)} /\ sent[Len(sent)] = e
    <3>1. Len(sent) # 0
      BY <2>3, NoEvents, Zenon DEF VerdictInv, Closes
    <3> QED
      BY <2>1, <2>3, <3>1 DEF Closes
  <2>4. stage = "over" /\ ~unrecorded => Terminal(sent) = {Len(sent)} /\ completed = <<sent[Len(sent)]>>
    BY <2>3 DEF VerdictInv
  <2>5. stage = "left" => completed = <<>>
    BY DEF VerdictInv
  <2>6. unrecorded \/ Quiet(sent) \/ \E e \in Verdicts : Closes(sent, e)
    BY DEF VerdictInv, Verdicts
  <2> QED
    BY <2>2, <2>3, <2>4, <2>5, <2>6 DEF OneVerdict
<1> QED
  BY <1>1, VerdictStart, VerdictStep, PTL DEF StreamSpec

-----------------------------------------------------------------------------
ClosingPhases == {"new", "open", "flushed", "cleared", "closed"}

CallTypeOK ==
    /\ pointer \in Sessions \cup {NoLogger}
    /\ closing \in [Sessions -> ClosingPhases]
    /\ memory \in [Sessions -> SUBSET Requests]
    /\ files \in [Sessions -> SUBSET Requests]
    /\ maker \in [Requests -> Sessions]
    /\ heldLogger \in [Requests -> Sessions \cup {NoLogger}]
    /\ callAt \in [Requests -> {"none", "sent", "over"}]
    /\ met \subseteq Sessions /\ late \subseteq Requests

\* What a call holds, where it has been logged, and what became of it.
FiledInv ==
    /\ \A s \in Active, u \in Active : s # u => s \in met
    /\ \A s \in Sessions : closing[s] = "open" /\ s \notin met => pointer = s
    /\ \A c \in Requests, s \in Sessions :
        /\ c \in files[s] \/ c \in memory[s] => heldLogger[c] = s /\ callAt[c] = "over"
    /\ \A c \in Requests :
        LET s == maker[c]
        IN  /\ callAt[c] # "none" /\ s \notin met => heldLogger[c] = s
            /\ callAt[c] # "none" => closing[s] # "new"
            /\ callAt[c] = "over" /\ s \notin met /\ c \notin late =>
                  IF closing[s] = "open" THEN c \in memory[s] ELSE c \in files[s]

CallInv == CallTypeOK /\ FiledInv

\* The types of the call log: every action keeps them.
LEMMA CallTypeKept == CallTypeOK /\ [ApiNext]_apiVars => CallTypeOK'
<1> SUFFICES ASSUME CallTypeOK, [ApiNext]_apiVars PROVE CallTypeOK'
  OBVIOUS
<1> USE DEF CallTypeOK, ClosingPhases, Pass
<1>1. ASSUME NEW s \in Sessions, OpenLogger(s) PROVE CallTypeOK'
  BY <1>1 DEF OpenLogger, Active
<1>2. ASSUME NEW s \in Sessions, Flush(s) PROVE CallTypeOK'
  BY <1>2 DEF Flush, Flushed
<1>3. ASSUME NEW s \in Sessions, ClearLogger(s) \/ UnsetLogger(s) PROVE CallTypeOK'
  BY <1>3 DEF ClearLogger, UnsetLogger
<1>4. ASSUME NEW c \in Requests, StartRequest(c) PROVE CallTypeOK'
  BY <1>4 DEF StartRequest
<1>5. ASSUME NEW c \in Requests, EndRequest(c) PROVE CallTypeOK'
  BY <1>5 DEF EndRequest
<1>6. CASE UNCHANGED apiVars
  BY <1>6 DEF apiVars
<1> QED
  BY <1>1, <1>2, <1>3, <1>4, <1>5, <1>6 DEF ApiNext

\* Every action keeps a call filed under the session that made it.
LEMMA CallStep == CallInv /\ [ApiNext]_apiVars => CallInv'
<1> SUFFICES ASSUME CallInv, [ApiNext]_apiVars PROVE FiledInv'
  BY CallTypeKept DEF CallInv
<1> USE ApiAssumption DEF CallInv, CallTypeOK, ClosingPhases, FiledInv, ApiAssumption, Pass, Active
<1>1. ASSUME NEW s \in Sessions, OpenLogger(s) PROVE FiledInv'
  BY <1>1 DEF OpenLogger
<1>2. ASSUME NEW s \in Sessions, Flush(s) PROVE FiledInv'
  BY <1>2 DEF Flush, Flushed
<1>3. ASSUME NEW s \in Sessions, ClearLogger(s) PROVE FiledInv'
  BY <1>3 DEF ClearLogger
<1>4. ASSUME NEW s \in Sessions, UnsetLogger(s) PROVE FiledInv'
  BY <1>4 DEF UnsetLogger
<1>5. ASSUME NEW c \in Requests, StartRequest(c) PROVE FiledInv'
  BY <1>5 DEF StartRequest
<1>6. ASSUME NEW c \in Requests, EndRequest(c) PROVE FiledInv'
  BY <1>6 DEF EndRequest
<1>7. CASE UNCHANGED apiVars
  BY <1>7 DEF apiVars
<1> QED
  BY <1>1, <1>2, <1>3, <1>4, <1>5, <1>6, <1>7 DEF ApiNext

\* For any number of runs and calls, a call is in the files of one run at most, and in
\* its own run's when that has closed its log, with the exceptions that the property
\* names (api_call_log.py:51, loggers.py).
THEOREM CallsAreFiled == ApiSpec => []CallsFiled
<1>1. ApiInit => CallInv
  BY ApiAssumption
  DEF ApiInit, CallInv, CallTypeOK, ClosingPhases, FiledInv, Active, ApiAssumption
<1>2. CallInv => CallsFiled
  <2> SUFFICES ASSUME CallInv, NEW c \in Requests
               PROVE  /\ Cardinality({r \in Sessions : c \in files[r]}) <= 1
                      /\ closing[maker[c]] = "closed" /\ callAt[c] = "over" =>
                            \/ {r \in Sessions : c \in files[r]} = {maker[c]}
                            \/ maker[c] \in met \/ c \in late
    BY DEF CallsFiled
  <2> DEFINE In == {r \in Sessions : c \in files[r]}
  <2>1. In \subseteq {heldLogger[c]}
    BY DEF CallInv, FiledInv
  <2>2. Cardinality(In) <= 1
    <3>1. IsFiniteSet({heldLogger[c]}) /\ Cardinality({heldLogger[c]}) = 1
      BY FS_Singleton
    <3> QED
      BY <2>1, <3>1, FS_Subset
  <2>3. ASSUME closing[maker[c]] = "closed", callAt[c] = "over", maker[c] \notin met, c \notin late
        PROVE  In = {maker[c]}
    BY <2>1, <2>3 DEF CallInv, CallTypeOK, FiledInv
  <2> QED
    BY <2>2, <2>3
<1> QED
  BY <1>1, <1>2, CallStep, PTL DEF ApiSpec

-----------------------------------------------------------------------------
LastId == IF trail = <<>> THEN 0 ELSE trail[Len(trail)].id
ChainTypeOK ==
    /\ trail \in Seq(Records)
    /\ prev \in [Appenders -> Nat]
    /\ pen \in [Appenders -> {"idle", "read", "opened", "failed", "dead"}]
    /\ written \in Nat

\* On a log that nobody wrote while another did, whoever is about to append has read the
\* hash of its last record.
Chained ==
    /\ ~exists => trail = <<>>
    /\ \A a \in Underway, b \in Underway : a = b
    /\ \A a \in Underway : prev[a] = LastId
    /\ Verifies

ChainInv == mixed \/ (ChainTypeOK /\ Chained)

\* A record that continues the chain keeps it.
LEMMA ChainGrows ==
  ASSUME ChainTypeOK, Verifies, NEW r \in Records, r.prev = LastId, r.fits,
         trail' = Append(trail, r)
  PROVE  trail' \in Seq(Records) /\ trail' # <<>> /\ Verifies' /\ LastId' = r.id
<1>1. /\ trail' \in Seq(Records) /\ Len(trail') = Len(trail) + 1 /\ Len(trail) \in Nat
      /\ trail'[Len(trail) + 1] = r
      /\ \A i \in 1 .. Len(trail) : trail'[i] = trail[i]
  BY DEF ChainTypeOK
<1>2. ASSUME NEW i \in DOMAIN trail'
      PROVE  trail'[i].fits /\ trail'[i].prev = IF i = 1 THEN 0 ELSE trail'[i - 1].id
  <2>1. CASE i \in 1 .. Len(trail)
    <3>1. trail[i].fits
      BY <2>1 DEF ChainTypeOK, Verifies
    <3>2. trail[i].prev = IF i = 1 THEN 0 ELSE trail[i - 1].id
      BY <2>1 DEF ChainTypeOK, Verifies
    <3>3. i # 1 => i - 1 \in 1 .. Len(trail)
      BY <1>1, <2>1
    <3> QED
      BY <1>1, <2>1, <3>1, <3>2, <3>3
  <2>2. CASE i = Len(trail) + 1
    <3>1. Len(trail) = 0 <=> trail = <<>>
      BY DEF ChainTypeOK
    <3>2. r.prev = IF i = 1 THEN 0 ELSE trail'[i - 1].id
      BY <1>1, <2>2, <3>1 DEF LastId
    <3> QED
      BY <1>1, <2>2, <3>2
  <2> QED
    BY <1>1, <2>1, <2>2
<1>3. trail' # <<>> /\ LastId' = r.id
  BY <1>1 DEF LastId
<1> QED
  BY <1>1, <1>2, <1>3 DEF Verifies

\* What an appender reads is the end of the chain.
LEMMA ReadsLast ==
  ASSUME ChainTypeOK, Chained, Readable PROVE PrevRead = LastId /\ PrevRead \in Nat
<1>1. CASE exists
  <2>1. trail # <<>> /\ Len(trail) \in DOMAIN trail
    BY <1>1 DEF Readable, ChainTypeOK
  <2>2. trail[Len(trail)] \in Records
    BY <2>1 DEF ChainTypeOK
  <2> QED
    BY <1>1, <2>1, <2>2 DEF PrevRead, LastId, Records
<1>2. CASE ~exists
  BY <1>2 DEF PrevRead, LastId, Chained
<1> QED
  BY <1>1, <1>2

\* A step that leaves the log alone, or marks it as mixed, leaves the chain as it is.
LEMMA ChainStep == ChainInv /\ [AuditNext]_auditVars => ChainInv'
<1> SUFFICES ASSUME ChainInv, [AuditNext]_auditVars, ~mixed' PROVE (ChainTypeOK /\ Chained)'
  BY DEF ChainInv
<1>0. ~mixed /\ ChainTypeOK /\ Chained
  <2>1. mixed => mixed'
    BY Zenon DEF AuditNext, ReadLast, Open, Write, Die, Sweep, VisitLog, RewriteLog,
                 VisitOther, NoteRedaction, Mixes, auditVars
  <2> QED
    BY <2>1 DEF ChainInv
<1>1. ASSUME NEW a \in Appenders, ReadLast(a) PROVE (ChainTypeOK /\ Chained)'
  <2>1. Underway = {} /\ UNCHANGED <<trail, exists, written>>
    BY <1>1 DEF ReadLast, Mixes
  <2>2. CASE Readable
    <3>1. PrevRead = LastId /\ PrevRead \in Nat
      BY <1>0, <2>2, ReadsLast
    <3>2. prev' = [prev EXCEPT ![a] = PrevRead] /\ pen' = [pen EXCEPT ![a] = "read"]
      BY <1>1, <2>2 DEF ReadLast
    <3>3. Underway' = {a}
      BY <1>0, <2>1, <3>2 DEF ChainTypeOK, Underway
    <3> QED
      BY <1>0, <2>1, <3>1, <3>2, <3>3 DEF ChainTypeOK, Chained, LastId, Verifies
  <2>3. CASE ~Readable
    <3>1. prev' = prev /\ pen' = [pen EXCEPT ![a] = "failed"]
      BY <1>1, <2>3 DEF ReadLast
    <3>2. Underway' = {}
      BY <1>0, <2>1, <3>1 DEF ChainTypeOK, Underway
    <3> QED
      BY <1>0, <2>1, <3>1, <3>2 DEF ChainTypeOK, Chained, LastId, Verifies
  <2> QED
    BY <2>2, <2>3
<1>2. ASSUME NEW a \in Appenders, Open(a) \/ Die(a) PROVE (ChainTypeOK /\ Chained)'
  BY <1>0, <1>2 DEF Open, Die, ChainTypeOK, Chained, Underway, LastId, Verifies
<1>3. ASSUME NEW a \in Appenders, Write(a) PROVE (ChainTypeOK /\ Chained)'
  <2>1. a \in Underway /\ Underway' = {} /\ pen' \in [Appenders -> {"idle", "read", "opened", "failed", "dead"}]
    BY <1>0, <1>3 DEF Write, Underway, ChainTypeOK, Chained
  <2>2. written' \in Nat /\ UNCHANGED <<exists, prev>>
    BY <1>0, <1>3 DEF Write, ChainTypeOK
  <2>3. CASE exists
    <3>1. Entry(a).prev = LastId /\ Entry(a).fits
      BY <1>0, <2>1 DEF Entry, Chained
    <3>2. Entry(a) \in Records
      BY <1>0 DEF Entry, Records, ChainTypeOK
    <3>3. trail' = Append(trail, Entry(a))
      BY <1>3, <2>3 DEF Write
    <3>4. trail' \in Seq(Records) /\ Verifies'
      BY <1>0, <3>1, <3>2, <3>3, ChainGrows DEF Chained
    <3> QED
      BY <1>0, <2>1, <2>2, <2>3, <3>4 DEF ChainTypeOK, Chained
  <2>4. CASE ~exists
    BY <1>0, <1>3, <2>1, <2>2, <2>4 DEF Write, ChainTypeOK, Chained, Verifies
  <2> QED
    BY <2>3, <2>4
<1>4. CASE Sweep
  <2>1. Underway = {} /\ trail' = <<>> /\ UNCHANGED <<pen, prev, written>>
    BY <1>4 DEF Sweep, Mixes
  <2>2. Underway' = {} /\ trail' \in Seq(Records) /\ DOMAIN trail' = {}
    BY <2>1 DEF Underway
  <2> QED
    BY <1>0, <2>1, <2>2 DEF ChainTypeOK, Chained, Verifies
<1>5. CASE VisitLog \/ VisitOther \/ UNCHANGED auditVars
  BY <1>0, <1>5 DEF VisitLog, VisitOther, auditVars, ChainTypeOK, Chained, Underway, LastId, Verifies
<1>6. CASE NoteRedaction
  <2>1. Underway = {} /\ UNCHANGED <<pen, prev>>
    BY <1>6 DEF NoteRedaction, Mixes
  <2>2. Underway' = {}
    BY <2>1 DEF Underway
  <2> DEFINE r == [id |-> written + 1, prev |-> PrevRead, names |-> FALSE, fits |-> TRUE]
  <2>3. CASE Readable
    <3>1. PrevRead = LastId /\ PrevRead \in Nat
      BY <1>0, <2>3, ReadsLast
    <3>2. r \in Records /\ r.prev = LastId /\ r.fits
      BY <1>0, <3>1 DEF Records, ChainTypeOK
    <3>3. trail' = Append(trail, r) /\ exists' = TRUE /\ written' = written + 1
      BY <1>6, <2>3 DEF NoteRedaction
    <3> HIDE DEF r
    <3>4. trail' \in Seq(Records) /\ Verifies'
      BY <1>0, <3>2, <3>3, ChainGrows DEF Chained
    <3> QED
      BY <1>0, <2>1, <2>2, <3>3, <3>4 DEF ChainTypeOK, Chained
  <2>4. CASE ~Readable
    <3>1. UNCHANGED <<trail, exists, written>>
      BY <1>6, <2>4 DEF NoteRedaction
    <3> QED
      BY <1>0, <2>1, <2>2, <3>1 DEF ChainTypeOK, Chained, Verifies
  <2> QED
    BY <2>3, <2>4
<1> QED
  BY <1>1, <1>2, <1>3, <1>4, <1>5, <1>6 DEF AuditNext, RewriteLog

\* However many appenders there are, and whatever a sweep removes, a log on which
\* nobody's append overlapped another's is accepted by verify_chain (audit_log.py).
THEOREM UnmixedChainVerifies == AuditSpec => []UnmixedVerifies
<1>1. AuditInit => ChainInv
  BY DEF AuditInit, ChainInv, ChainTypeOK, Chained, Underway, Verifies
<1>2. ChainInv => UnmixedVerifies
  BY DEF ChainInv, Chained, UnmixedVerifies
<1> QED
  BY <1>1, <1>2, ChainStep, PTL DEF AuditSpec

-----------------------------------------------------------------------------
DocTypes ==
    /\ doc \in Files /\ tmp \in Files
    /\ hand \in [Writers -> {"idle", "loaded", "opened", "filled", "replaced"}]
    /\ copied \in [Writers -> SUBSET Entries]
    /\ change \in [Writers -> {"add", "remove"} \X Entries]
    /\ handle \in [Writers -> {"none", "doc", "tmp", "gone"}]
    /\ saved \subseteq Entries

\* What a writer is about to write has all that was saved, and its own entry.
Carries(w) ==
    /\ saved \subseteq copied[w]
    /\ change[w][1] = "add" => change[w][2] \in copied[w]

\* As long as writers do not overlap, one at most is at work, and how far it is tells
\* where the saved entries are.
Excused == overlapped \/ (~store.staged /\ died)

SaveInv ==
    ~Excused =>
        /\ \A v, w \in Writers : hand[v] # "idle" /\ hand[w] # "idle" => v = w
        /\ (store.staged \/ \A w \in Writers : hand[w] # "opened") => saved \subseteq Content(doc)
        /\ \A w \in Writers :
            /\ hand[w] = "loaded" => copied[w] = Content(doc)
            /\ hand[w] = "opened" =>
                  /\ Carries(w)
                  /\ IF store.staged THEN handle[w] = "tmp" /\ tmp = Broken
                                     ELSE handle[w] = "doc" /\ doc = Broken
            /\ hand[w] = "filled" => store.staged /\ Carries(w) /\ tmp = copied[w]
            /\ hand[w] = "replaced" => store.staged /\ Carries(w) /\ doc = copied[w]

\* The types of a document and its writers: every action keeps them.
LEMMA DocTypesKept == DocTypes /\ [DocNext]_docVars => DocTypes'
<1> SUFFICES ASSUME DocTypes, [DocNext]_docVars PROVE DocTypes'
  OBVIOUS
<1> USE DEF DocTypes, Files
<1>1. ASSUME NEW w \in Writers, LoadDoc(w) PROVE DocTypes'
  <2>1. Content(doc) \in SUBSET Entries
    BY DEF Content
  <2> QED
    BY <1>1, <2>1 DEF LoadDoc
<1>2. ASSUME NEW w \in Writers, OpenDoc(w) PROVE DocTypes'
  <2>1. change[w][2] \in Entries /\ Changed(w) \in SUBSET Entries
    BY DEF Changed
  <2>2. doc' \in Files /\ tmp' \in Files
    BY <1>2 DEF OpenDoc
  <2> QED
    BY <1>2, <2>1, <2>2 DEF OpenDoc, Opens
<1>3. ASSUME NEW w \in Writers, FillDoc(w) PROVE DocTypes'
  <2>1. doc' \in Files /\ tmp' \in Files
    <3>1. Written(tmp, w) \subseteq Files /\ Written(doc, w) \subseteq Files
      BY DEF Written
    <3>2. \/ tmp' \in Written(tmp, w) /\ doc' = doc
          \/ doc' \in Written(doc, w) /\ tmp' = tmp
          \/ UNCHANGED <<doc, tmp>>
      BY <1>3 DEF FillDoc
    <3> QED
      BY <3>1, <3>2
  <2>2. hand' \in [Writers -> {"idle", "loaded", "opened", "filled", "replaced"}]
    BY <1>3 DEF FillDoc, Returns
  <2>3. saved' \subseteq Entries /\ change' \in [Writers -> {"add", "remove"} \X Entries]
    BY <1>3 DEF FillDoc, Returns, NextChange
  <2>4. handle' \in [Writers -> {"none", "doc", "tmp", "gone"}] /\ copied' = copied
    BY <1>3 DEF FillDoc
  <2> QED
    BY <2>1, <2>2, <2>3, <2>4
<1>4. ASSUME NEW w \in Writers, ReplaceDoc(w) \/ TidyDoc(w) PROVE DocTypes'
  <2>1. doc' \in Files /\ tmp' \in Files /\ copied' = copied
    BY <1>4 DEF ReplaceDoc, TidyDoc
  <2>2. hand' \in [Writers -> {"idle", "loaded", "opened", "filled", "replaced"}]
    BY <1>4 DEF ReplaceDoc, TidyDoc, Returns
  <2>3. saved' \subseteq Entries /\ change' \in [Writers -> {"add", "remove"} \X Entries]
    <3>1. change[w][2] \in Entries
      OBVIOUS
    <3>2. ASSUME Returns(w) PROVE saved' \subseteq Entries
      BY <3>1, <3>2 DEF Returns
    <3>3. ASSUME NextChange(w) PROVE change' \in [Writers -> {"add", "remove"} \X Entries]
      BY <3>3 DEF NextChange
    <3>4. \/ UNCHANGED <<saved, change>>
          \/ UNCHANGED saved /\ NextChange(w)
          \/ Returns(w) /\ NextChange(w)
      BY <1>4 DEF ReplaceDoc, TidyDoc, Returns
    <3> QED
      BY <3>2, <3>3, <3>4
  <2>4. handle' \in [Writers -> {"none", "doc", "tmp", "gone"}]
    BY <1>4 DEF ReplaceDoc, TidyDoc, Moved
  <2> QED
    BY <2>1, <2>2, <2>3, <2>4
<1>6. CASE DieStore
  BY <1>6 DEF DieStore
<1>7. CASE UNCHANGED docVars
  BY <1>7 DEF docVars
<1> QED
  BY <1>1, <1>2, <1>3, <1>4, <1>6, <1>7 DEF DocNext

\* No content is taken for a broken or a missing file.
LEMMA Marked == Broken # Absent /\ Broken \notin SUBSET Entries /\ Absent \notin SUBSET Entries
  BY DocAssumption, Zenon DEF DocAssumption

\* Every action keeps what was saved where the writers' places say it is.
LEMMA SaveStep == DocTypes /\ DocTypes' /\ SaveInv /\ [DocNext]_docVars => SaveInv'
<1> SUFFICES ASSUME DocTypes, DocTypes', SaveInv, [DocNext]_docVars, ~Excused' PROVE SaveInv'
  BY DEF SaveInv
<1>0. ~Excused /\ store' = store
  <2>1. store' = store
    BY Zenon DEF DocNext, LoadDoc, OpenDoc, FillDoc, ReplaceDoc, TidyDoc, DieStore, docVars
  <2>2. overlapped => overlapped'
    <3>1. ASSUME NEW w \in Writers, LoadDoc(w) PROVE overlapped => overlapped'
      BY <3>1, Zenon DEF LoadDoc
    <3> QED
      BY <3>1, Zenon DEF DocNext, OpenDoc, FillDoc, ReplaceDoc, TidyDoc, DieStore, docVars
  <2>3. died => died'
    BY Zenon DEF DocNext, LoadDoc, OpenDoc, FillDoc, ReplaceDoc, TidyDoc, DieStore, docVars
  <2> QED
    BY <2>1, <2>2, <2>3 DEF Excused
<1> USE Marked DEF DocTypes, Files, SaveInv, Carries, Content
<1>1. ASSUME NEW w \in Writers, LoadDoc(w) PROVE SaveInv'
  <2>1. \A v \in Writers : hand[v] = "idle"
    BY <1>1, Zenon DEF LoadDoc, Excused
  <2>2. /\ copied' = [copied EXCEPT ![w] = Content(doc)]
        /\ hand' = [hand EXCEPT ![w] = "loaded"]
        /\ UNCHANGED <<store, doc, tmp, change, handle, saved>>
    BY <1>1 DEF LoadDoc
  <2> QED
    BY <1>0, <2>1, <2>2
<1>2. ASSUME NEW w \in Writers, OpenDoc(w) PROVE SaveInv'
  BY <1>0, <1>2 DEF OpenDoc, Opens, Staged, Changed
<1>3. ASSUME NEW w \in Writers, FillDoc(w) PROVE SaveInv'
  BY <1>0, <1>3 DEF FillDoc, Staged, Written, Returns
<1>4. ASSUME NEW w \in Writers, ReplaceDoc(w) PROVE SaveInv'
  BY <1>0, <1>4 DEF ReplaceDoc, Moved, Returns
<1>5. ASSUME NEW w \in Writers, TidyDoc(w) PROVE SaveInv'
  BY <1>0, <1>5 DEF TidyDoc, Moved, Returns
<1>6. CASE DieStore
  BY <1>0, <1>6 DEF DieStore, Excused
<1>7. CASE UNCHANGED docVars
  BY <1>0, <1>7 DEF docVars
<1> QED
  BY <1>1, <1>2, <1>3, <1>4, <1>5, <1>6, <1>7 DEF DocNext

\* For any number of sessions and entries, what was saved is read back, unless two
\* writers overlapped or a document that is written in place was cut off by the death of
\* the server (knowledge_store.py, prefs.py, run_notes.py, runs.py, memory_manager.py).
THEOREM SavesAreKept == DocSpec => []SavesSurvive
<1>1. DocInit => DocTypes /\ SaveInv
  BY Marked DEF DocInit, DocTypes, Files, SaveInv, Carries, Content
<1>2. SaveInv => SavesSurvive
  BY DEF SaveInv, SavesSurvive, Excused
<1> QED
  BY <1>1, <1>2, DocTypesKept, SaveStep, PTL DEF DocSpec

-----------------------------------------------------------------------------
\* The processes about to append to the day's first file.
AtBase == {w \in Loggers : logging[w] = "write" /\ part[w] = 0}

Late(n) == n * LongestLine

\* Either the file has outgrown the limit by what measuring leaves out and the lines of
\* those that are no longer about to append, or one that is measured its line and found
\* room, but for the lines of those others.
Outgrown == size[0] <= MaxBytes + Surplus + Late(Cardinality(Loggers) - 1 - Cardinality(AtBase))

Measured(w) == size[0] + line[w].chars <= MaxBytes + Late(Cardinality(Loggers) - Cardinality(AtBase))

BaseInv == Outgrown \/ \E w \in AtBase : Measured(w)

\* One process more or fewer is one line more or fewer.
LEMMA LinesAdd ==
  \A a, b \in Int : Late(a) \in Int /\ Late(a + 1) = Late(a) + LongestLine /\ (a <= b => Late(a) <= Late(b))
<1>0. LongestLine \in Nat
  BY EventAssumption DEF EventAssumption
<1>1. \A a \in Int : Late(a) \in Int /\ Late(a + 1) = Late(a) + LongestLine
  BY <1>0 DEF Late
<1>2. ASSUME NEW a \in Int, NEW b \in Int, a <= b PROVE Late(a) <= Late(b)
  <2>1. PICK d \in Nat : b = a + d
    BY <1>2
  <2>2. Late(b) = Late(a) + d * LongestLine /\ d * LongestLine \in Nat
    BY <1>0, <2>1 DEF Late
  <2> QED
    BY <1>1, <2>2
<1> QED
  BY <1>1, <1>2

\* The types that the bound on a file needs: every action keeps them.
LEMMA EventTypesKept == EventTypeOK /\ [EventNext]_eventVars => EventTypeOK'
<1> SUFFICES ASSUME EventTypeOK, [EventNext]_eventVars PROVE EventTypeOK'
  OBVIOUS
<1> USE EventAssumption DEF EventAssumption, EventTypeOK, Parts
<1>1. ASSUME NEW w \in Loggers, LogEvent(w) PROVE EventTypeOK'
  BY <1>1 DEF LogEvent
<1>2. ASSUME NEW w \in Loggers, PassPart(w) PROVE EventTypeOK'
  BY <1>2 DEF PassPart
<1>3. ASSUME NEW w \in Loggers, TakePart(w) PROVE EventTypeOK'
  BY <1>3 DEF TakePart
<1>4. ASSUME NEW w \in Loggers, KeepPart(w) PROVE EventTypeOK'
  BY <1>4 DEF KeepPart
<1>5. ASSUME NEW w \in Loggers, Rollover(w) PROVE EventTypeOK'
  BY <1>5 DEF Rollover
<1>6. ASSUME NEW w \in Loggers, AppendLine(w) PROVE EventTypeOK'
  BY <1>6 DEF AppendLine, Added
<1>7. ASSUME NEW p \in Parts, Purge(p) PROVE EventTypeOK'
  BY <1>7 DEF Purge
<1>8. CASE UNCHANGED eventVars
  BY <1>8 DEF eventVars
<1> QED
  BY <1>1, <1>2, <1>3, <1>4, <1>5, <1>6, <1>7, <1>8 DEF EventNext

\* Some processes are counted by a number, no more than there are.
LEMMA SomeLoggers ==
  \A S \in SUBSET Loggers :
    /\ IsFiniteSet(S) /\ Cardinality(S) \in Nat
    /\ Cardinality(Loggers) \in Nat /\ Cardinality(S) <= Cardinality(Loggers)
    /\ S # {} => Cardinality(S) >= 1
    /\ Cardinality(Loggers) >= 1
  BY EventAssumption, FS_Subset, FS_CardinalityType, FS_EmptySet DEF EventAssumption

\* Every action keeps the first file within its bound.
LEMMA BaseStep == EventTypeOK /\ EventTypeOK' /\ BaseInv /\ [EventNext]_eventVars => BaseInv'
<1> SUFFICES ASSUME EventTypeOK, EventTypeOK', BaseInv, [EventNext]_eventVars PROVE BaseInv'
  OBVIOUS
<1>0. \A w \in Loggers : /\ {line[w].chars, line[w].bytes} \subseteq Nat
                          /\ line[w].chars <= MaxBytes
                          /\ Added(w) <= LongestLine
                          /\ Added(w) - line[w].chars <= Surplus
                          /\ Added(w) \in Nat
  BY EventAssumption DEF EventAssumption, EventTypeOK, Added
<1>n. {MaxBytes, LongestLine, Surplus} \subseteq Nat /\ 0 \in Parts
  BY EventAssumption DEF EventAssumption, Parts
<1>c. /\ AtBase \subseteq Loggers /\ AtBase' \subseteq Loggers
      /\ {Cardinality(AtBase), Cardinality(AtBase)', Cardinality(Loggers)} \subseteq Nat
      /\ Cardinality(AtBase)' <= Cardinality(Loggers)
  <2>1. AtBase \subseteq Loggers /\ AtBase' \subseteq Loggers
    BY DEF AtBase
  <2> QED
    BY <2>1, SomeLoggers
<1>o. Outgrown' <=> size'[0] <= MaxBytes + Surplus + Late(Cardinality(Loggers) - 1 - Cardinality(AtBase'))
  BY DEF Outgrown, Late
<1>m. \A w \in Loggers : Measured(w)' <=>
        size'[0] + line'[w].chars <= MaxBytes + Late(Cardinality(Loggers) - Cardinality(AtBase'))
  BY DEF Measured, Late
<1>s. size[0] \in Nat /\ size'[0] \in Nat
  BY <1>n DEF EventTypeOK
<1>l. \A a, b \in Int : Late(a) \in Int /\ Late(a + 1) = Late(a) + LongestLine /\ (a <= b => Late(a) <= Late(b))
  BY LinesAdd
<1>1. ASSUME size'[0] <= size[0], AtBase' = AtBase,
             \A w \in AtBase : line'[w] = line[w]
      PROVE BaseInv'
  <2>1. CASE Outgrown
    <3>1. Late(Cardinality(Loggers) - 1 - Cardinality(AtBase)) \in Int
      BY <1>c, <1>l
    <3> QED
      BY <1>1, <1>n, <1>o, <1>s, <2>1, <3>1 DEF BaseInv, Outgrown
  <2>2. ASSUME NEW w \in AtBase, Measured(w) PROVE Measured(w)'
    <3>1. Late(Cardinality(Loggers) - Cardinality(AtBase)) \in Int
      BY <1>c, <1>l
    <3> QED
      BY <1>0, <1>1, <1>c, <1>m, <1>n, <1>s, <2>2, <3>1 DEF Measured
  <2> QED
    BY <1>1, <2>1, <2>2 DEF BaseInv
<1>2. ASSUME NEW w \in Loggers, LogEvent(w) \/ PassPart(w) \/ TakePart(w) \/ Rollover(w)
      PROVE BaseInv'
  <2>1. AtBase' = AtBase /\ size' = size
    BY <1>2 DEF LogEvent, PassPart, TakePart, Rollover, AtBase, EventTypeOK, Parts
  <2>2. \A v \in AtBase : line'[v] = line[v]
    BY <1>2 DEF LogEvent, PassPart, TakePart, Rollover, AtBase, EventTypeOK
  <2> QED
    BY <1>1, <1>n, <2>1, <2>2 DEF EventTypeOK
<1>3. ASSUME NEW w \in Loggers, KeepPart(w) PROVE BaseInv'
  <2>0. UNCHANGED <<size, part, line>> /\ logging' = [logging EXCEPT ![w] = "write"]
    BY <1>3 DEF KeepPart
  <2>1. CASE part[w] # 0
    <3>1. AtBase' = AtBase
      BY <2>0, <2>1 DEF AtBase, EventTypeOK
    <3> QED
      BY <1>1, <1>n, <2>0, <3>1 DEF EventTypeOK
  <2>2. CASE part[w] = 0
    <3>1. w \in AtBase'
      BY <2>0, <2>2 DEF AtBase, EventTypeOK
    <3>2. size'[0] + line'[w].chars <= MaxBytes
      BY <1>0, <1>3, <1>n, <2>0, <2>2 DEF KeepPart, Fits, EventTypeOK
    <3>3. Late(Cardinality(Loggers) - Cardinality(AtBase')) \in Nat
      <4>1. Cardinality(Loggers) - Cardinality(AtBase') \in Nat
        BY <1>c
      <4> QED
        BY <1>n, <4>1 DEF Late
    <3>4. Measured(w)'
      <4>1. line'[w].chars \in Nat
        BY <1>0, <2>0
      <4> QED
        BY <1>m, <1>n, <1>s, <3>2, <3>3, <4>1
    <3> QED
      BY <3>1, <3>4 DEF BaseInv
  <2> QED
    BY <2>1, <2>2
<1>4. ASSUME NEW w \in Loggers, AppendLine(w) PROVE BaseInv'
  <2>0. /\ size' = [size EXCEPT ![part[w]] = @ + Added(w)]
        /\ logging[w] = "write" /\ logging' = [logging EXCEPT ![w] = "idle"]
        /\ UNCHANGED <<part, line>>
    BY <1>4 DEF AppendLine
  <2>1. CASE part[w] # 0
    <3>1. AtBase' = AtBase /\ size'[0] = size[0]
      BY <2>0, <2>1, <1>n DEF AtBase, EventTypeOK
    <3> QED
      BY <1>1, <1>n, <2>0, <3>1 DEF EventTypeOK
  <2>2. CASE part[w] = 0
    <3> DEFINE n == Cardinality(AtBase)
    <3>1. w \in AtBase /\ AtBase' = AtBase \ {w}
      BY <2>0, <2>2 DEF AtBase, EventTypeOK
    <3>2. Cardinality(AtBase') = n - 1
      BY <1>c, <3>1, SomeLoggers, FS_RemoveElement
    <3>3. size'[0] = size[0] + Added(w)
      BY <2>0, <2>2, <1>n DEF EventTypeOK
    <3> DEFINE h == Cardinality(Loggers)
    <3>4. /\ Late(h - (n - 1)) = Late(h - n) + LongestLine
          /\ Late(h - 1 - (n - 1)) = Late(h - 1 - n) + LongestLine
          /\ Late(h - 1 - (n - 1)) = Late(h - n)
          /\ {Late(h - n), Late(h - 1 - n)} \subseteq Int
      <4>1. /\ {h - n, h - 1 - n} \subseteq Int
            /\ h - (n - 1) = (h - n) + 1 /\ h - 1 - (n - 1) = (h - 1 - n) + 1
            /\ h - 1 - (n - 1) = h - n
        BY <1>c
      <4> HIDE DEF n, h
      <4> QED
        BY <4>1, <1>l
    <3>5. Cardinality(AtBase)' = n - 1
      BY <3>2
    <3> HIDE DEF h
    <3>6. CASE Outgrown
      BY <1>0, <1>n, <1>o, <1>s, <3>2, <3>3, <3>4, <3>6 DEF Outgrown, BaseInv, h
    <3>7. CASE Measured(w)
      BY <1>0, <1>n, <1>o, <1>s, <3>2, <3>3, <3>4, <3>7 DEF Measured, BaseInv, h
    <3>8. ASSUME NEW v \in AtBase \ {w}, Measured(v) PROVE BaseInv'
      <4>1. v \in Loggers /\ v \in AtBase' /\ line'[v] = line[v] /\ line[v].chars \in Nat
        BY <1>0, <1>c, <2>0, <3>1, <3>8
      <4>2. Measured(v)'
        BY <1>0, <1>m, <1>n, <1>s, <3>2, <3>3, <3>4, <3>8, <4>1 DEF Measured, h
      <4> QED
        BY <4>1, <4>2 DEF BaseInv
    <3> QED
      BY <3>6, <3>7, <3>8 DEF BaseInv
  <2> QED
    BY <2>1, <2>2
<1>5. ASSUME NEW p \in Parts, Purge(p) PROVE BaseInv'
  <2>1. size'[0] <= size[0] /\ UNCHANGED <<logging, part, line>>
    BY <1>5, <1>n DEF Purge, EventTypeOK
  <2> QED
    BY <1>1, <2>1 DEF AtBase
<1>6. CASE UNCHANGED eventVars
  BY <1>1, <1>6, <1>n DEF eventVars, AtBase, EventTypeOK
<1> QED
  BY <1>2, <1>3, <1>4, <1>5, <1>6 DEF EventNext

\* For any number of processes and any lengths of lines, the day's first events file
\* exceeds the limit by what the processes had under way, never by the number of events
\* (utils/telemetry.py, log_event).
THEOREM BaseIsBounded == EventSpec => []BaseBounded
<1>0. /\ {MaxBytes, LongestLine, Surplus} \subseteq Nat /\ 0 \in Parts
      /\ AtBase \in SUBSET Loggers
  BY EventAssumption DEF EventAssumption, Parts, AtBase
<1>c. {Cardinality(AtBase), Cardinality(Loggers)} \subseteq Nat /\ Cardinality(Loggers) >= 1
  BY <1>0, SomeLoggers
<1>1. EventInit => EventTypeOK /\ BaseInv
  <2> SUFFICES ASSUME EventInit PROVE EventTypeOK /\ BaseInv
    OBVIOUS
  <2>1. EventTypeOK
    BY EventAssumption DEF EventInit, EventTypeOK, EventAssumption, Parts
  <2>2. AtBase = {} /\ size[0] = 0
    BY <1>0 DEF EventInit, AtBase
  <2>3. Cardinality(AtBase) = 0
    BY <2>2, FS_EmptySet
  <2>4. Late(Cardinality(Loggers) - 1 - Cardinality(AtBase)) \in Nat
    <3>1. Cardinality(Loggers) - 1 - Cardinality(AtBase) \in Nat
      BY <1>c, <2>3
    <3> QED
      BY <1>0, <3>1 DEF Late
  <2> QED
    BY <1>0, <2>1, <2>2, <2>4 DEF BaseInv, Outgrown
<1>2. EventTypeOK /\ BaseInv => BaseBounded
  <2> SUFFICES ASSUME EventTypeOK, BaseInv PROVE BaseBounded
    OBVIOUS
  <2>0. /\ size[0] \in Nat
        /\ Bound = MaxBytes + Surplus + Late(Cardinality(Loggers) - 1)
        /\ Late(Cardinality(Loggers) - 1) \in Int
    BY <1>0, <1>c, LinesAdd DEF EventTypeOK, Bound, Late
  <2>1. CASE Outgrown
    <3>1. Late(Cardinality(Loggers) - 1 - Cardinality(AtBase)) <= Late(Cardinality(Loggers) - 1)
      BY <1>c, LinesAdd
    <3>2. Late(Cardinality(Loggers) - 1 - Cardinality(AtBase)) \in Int
      BY <1>c, LinesAdd
    <3> QED
      BY <1>0, <2>0, <2>1, <3>1, <3>2 DEF Outgrown, BaseBounded
  <2>2. ASSUME NEW w \in AtBase, Measured(w) PROVE BaseBounded
    <3>1. line[w].chars \in Nat
      BY <1>0, EventAssumption DEF EventAssumption, EventTypeOK
    <3>2. Cardinality(AtBase) >= 1
      BY <1>0, <2>2, SomeLoggers
    <3>3. /\ Late(Cardinality(Loggers) - Cardinality(AtBase)) <= Late(Cardinality(Loggers) - 1)
          /\ Late(Cardinality(Loggers) - Cardinality(AtBase)) \in Int
      BY <1>c, <3>2, LinesAdd
    <3> QED
      BY <1>0, <2>0, <2>2, <3>1, <3>3 DEF Measured, BaseBounded
  <2> QED
    BY <2>1, <2>2 DEF BaseInv
<1> QED
  BY <1>1, <1>2, EventTypesKept, BaseStep, PTL DEF EventSpec

-----------------------------------------------------------------------------
LEMMA AllAppendices ==
    Appendices = {"evidence", "coverage", "decision_log", "poc_report"} \cup Build
<1>1. /\ DOMAIN Listing = 1 .. 8
      /\ Listing[1] = "evidence" /\ Listing[2] = "coverage" /\ Listing[3] = "decision_log"
      /\ Listing[4] = "poc_report" /\ Listing[5] = "sdd" /\ Listing[6] = "impl_plan"
      /\ Listing[7] = "bom" /\ Listing[8] = "budget"
  BY DEF Listing
<1> QED
  BY <1>1 DEF Appendices, Build

\* What a run has written, at least, when it is at a place.
MadeBy(place) ==
    CASE place \in {"tasks", "covered"} -> {"decision_log"}
      [] place \in {"poc", "assemble", "sdd"} -> {"decision_log", "evidence"}
      [] place = "impl_plan" -> {"decision_log", "evidence", "sdd"}
      [] place = "bom" -> {"decision_log", "evidence", "sdd", "impl_plan"}
      [] place = "budget" -> {"decision_log", "evidence", "sdd", "impl_plan", "bom"}
      [] place \in {"contracts", "executed", "packing", "bundled"} ->
             {"decision_log", "evidence"} \cup Build
      [] OTHER -> {}

\* Who has met others, what a run has made and which of that is its own still.
MetInv ==
    \A r, o \in Repeats :
        r # o /\ emitting[r] \notin Ended /\ emitting[o] \notin Ended => r \in crossed

MadeInv ==
    \A r \in Repeats :
        /\ emitting[r] = "new" => made[r] = {}
        /\ Executed(r) => MadeBy(emitting[r]) \subseteq made[r]
        /\ emitting[r] \notin Ended /\ r \notin crossed => \A a \in made[r] : disk[a] = r

PackInv ==
    \A r \in Repeats :
        r \notin crossed =>
            /\ emitting[r] = "packing" => \A a \in made[r] \ appendices[r] : bundle[r][a] = r
            /\ emitting[r] = "bundled" => \A a \in made[r] : bundle[r][a] = r

BundleInv == ArtifactTypeOK /\ MetInv /\ MadeInv /\ PackInv

Places == Ended \cup Build \cup
    {"tasks", "covered", "poc", "assemble", "contracts", "executed", "packing"}

\* A run that goes on, and perhaps writes files, keeps the invariant.
LEMMA MoveKeeps ==
    ASSUME BundleInv, NEW r \in Repeats, NEW names \in SUBSET Appendices,
           NEW from \in Places \ Ended, NEW to \in Places \ {"new", "packing", "bundled"},
           Goes(r, from, to), UNCHANGED bundleVars,
           Writes(r, names) \/ (names = {} /\ UNCHANGED keptFiles),
           \/ MadeBy(to) \subseteq names
           \/ "decision_log" \notin names /\ MadeBy(to) \subseteq MadeBy(from) \cup names
    PROVE  BundleInv'
<1> USE DEF BundleInv, Goes, bundleVars, keptFiles
<1>1. /\ disk' = [a \in Appendices |-> IF a \in names THEN r ELSE disk[a]]
      /\ made' = [made EXCEPT ![r] = @ \cup names]
  BY DEF Writes, ArtifactTypeOK
<1>2. ArtifactTypeOK'
  BY <1>1 DEF ArtifactTypeOK, Places
<1>3. MetInv'
  BY DEF MetInv, ArtifactTypeOK
<1>4. /\ emitting[r] = from /\ emitting'[r] = to /\ made'[r] = made[r] \cup names
      /\ \A o \in Repeats \ {r} : emitting'[o] = emitting[o] /\ made'[o] = made[o]
      /\ from \notin Ended
  BY <1>1 DEF ArtifactTypeOK
<1>5. MadeInv'
  <2> SUFFICES ASSUME NEW o \in Repeats
               PROVE  /\ emitting'[o] = "new" => made'[o] = {}
                      /\ Executed(o)' => MadeBy(emitting'[o]) \subseteq made'[o]
                      /\ emitting'[o] \notin Ended /\ o \notin crossed =>
                            \A a \in made'[o] : disk'[a] = o
    BY DEF MadeInv
  <2>1. CASE o = r
    <3>1. Executed(r)' => MadeBy(to) \subseteq made'[r]
      BY <1>4 DEF Executed, MadeInv
    <3>2. r \notin crossed => \A a \in made'[r] : disk'[a] = r
      BY <1>1, <1>4 DEF MadeInv, ArtifactTypeOK
    <3> QED
      BY <1>4, <2>1, <3>1, <3>2
  <2>2. CASE o # r
    <3>1. Executed(o)' => Executed(o)
      BY <1>4, <2>2 DEF Executed
    <3>2. emitting[o] \notin Ended /\ o \notin crossed => FALSE
      BY <1>4, <2>2 DEF MetInv
    <3> QED
      BY <1>4, <2>2, <3>1, <3>2 DEF MadeInv
  <2> QED
    BY <2>1, <2>2
<1>6. PackInv'
  BY <1>4 DEF PackInv
<1> QED
  BY <1>2, <1>3, <1>5, <1>6

\* So does one that begins where nothing is packed.
LEMMA EntryKeeps ==
    ASSUME BundleInv, NEW r \in Repeats, NEW names \in SUBSET Appendices,
           NEW place \in {"tasks", "executed"},
           Enters(r, place), UNCHANGED bundleVars,
           Writes(r, names) \/ (names = {} /\ UNCHANGED keptFiles),
           "decision_log" \in names => MadeBy(place) \subseteq names
    PROVE  BundleInv'
<1> USE DEF BundleInv, Enters, bundleVars, keptFiles
<1>1. /\ disk' = [a \in Appendices |-> IF a \in names THEN r ELSE disk[a]]
      /\ made' = [made EXCEPT ![r] = @ \cup names]
      /\ emitting[r] = "new" /\ emitting' = [emitting EXCEPT ![r] = place]
  BY DEF Writes, ArtifactTypeOK
<1>2. ArtifactTypeOK'
  BY <1>1 DEF ArtifactTypeOK
<1>3. /\ emitting'[r] = place /\ made'[r] = names
      /\ \A o \in Repeats \ {r} : emitting'[o] = emitting[o] /\ made'[o] = made[o]
  BY <1>1 DEF ArtifactTypeOK, MadeInv
<1>4. /\ crossed \subseteq crossed'
      /\ \A o \in Repeats \ {r} : emitting[o] \notin Ended => {o, r} \subseteq crossed'
  OBVIOUS
<1>5. MetInv'
  BY <1>3, <1>4 DEF MetInv
<1>6. MadeInv'
  <2> SUFFICES ASSUME NEW o \in Repeats
               PROVE  /\ emitting'[o] = "new" => made'[o] = {}
                      /\ Executed(o)' => MadeBy(emitting'[o]) \subseteq made'[o]
                      /\ emitting'[o] \notin Ended /\ o \notin crossed' =>
                            \A a \in made'[o] : disk'[a] = o
    BY DEF MadeInv
  <2>1. CASE o = r
    BY <1>1, <1>3, <2>1 DEF Executed, Ended
  <2>2. CASE o # r
    <3>1. Executed(o)' => Executed(o)
      BY <1>3, <2>2 DEF Executed
    <3> QED
      BY <1>3, <1>4, <2>2, <3>1 DEF MadeInv
  <2> QED
    BY <2>1, <2>2
<1>7. PackInv'
  BY <1>3, <1>4 DEF PackInv
<1> QED
  BY <1>2, <1>5, <1>6, <1>7

\* Every action of every run keeps what is disturbed by none alone.
LEMMA BundleStep == BundleInv /\ [ArtifactNext]_artifactVars => BundleInv'
<1> SUFFICES ASSUME BundleInv, [ArtifactNext]_artifactVars PROVE BundleInv'
  OBVIOUS
<1> USE AllAppendices DEF Build, Ended
<1>1. ASSUME NEW r \in Repeats, FirstTask(r) PROVE BundleInv'
  <2>1. MadeBy("tasks") \subseteq {"decision_log"}
    BY DEF MadeBy
  <2> QED
    BY <1>1, <2>1, EntryKeeps DEF FirstTask
<1>2. ASSUME NEW r \in Repeats, ResumeComposing(r) PROVE BundleInv'
  <2>1. {} \in SUBSET Appendices /\ "executed" \in {"tasks", "executed"}
    OBVIOUS
  <2> QED
    BY <1>2, <2>1, EntryKeeps DEF ResumeComposing
<1>3. ASSUME NEW r \in Repeats, TasksRaise(r) \/ WriteCoverage(r) PROVE BundleInv'
  <2>1. MadeBy("failed") = {} /\ MadeBy("covered") = MadeBy("tasks")
    BY DEF MadeBy
  <2> QED
    BY <1>3, <2>1, MoveKeeps DEF TasksRaise, WriteCoverage, Places
<1>4. ASSUME NEW r \in Repeats, WriteEvidence(r) PROVE BundleInv'
  <2>1. MadeBy("poc") = {"decision_log", "evidence"}
    BY DEF MadeBy
  <2> QED
    BY <1>4, <2>1, MoveKeeps DEF WriteEvidence, Places
<1>5. ASSUME NEW r \in Repeats, RunPoc(r) PROVE BundleInv'
  <2>1. MadeBy("failed") = {} /\ MadeBy("assemble") = MadeBy("poc")
    BY DEF MadeBy
  <2> QED
    BY <1>5, <2>1, MoveKeeps DEF RunPoc, Places
<1>6. ASSUME NEW r \in Repeats, Assemble(r) PROVE BundleInv'
  <2>1. MadeBy("failed") = {} /\ MadeBy("sdd") = MadeBy("assemble")
    BY DEF MadeBy
  <2> QED
    BY <1>6, <2>1, MoveKeeps DEF Assemble, Malformed, Places
<1>7. ASSUME NEW r \in Repeats, NEW name \in Build, WriteBuild(r, name) PROVE BundleInv'
  <2>1. /\ Following(name) \in {"impl_plan", "bom", "budget", "contracts"}
        /\ MadeBy(Following(name)) \subseteq MadeBy(name) \cup {name}
    BY DEF MadeBy, Following
  <2> QED
    BY <1>7, <2>1, MoveKeeps DEF WriteBuild, Places
<1>8. ASSUME NEW r \in Repeats, WriteContracts(r) PROVE BundleInv'
  <2>1. MadeBy("failed") = {} /\ MadeBy("executed") = MadeBy("contracts")
    BY DEF MadeBy
  <2> QED
    BY <1>8, <2>1, MoveKeeps DEF WriteContracts, Places
<1>9. ASSUME NEW r \in Repeats, FindAppendices(r) PROVE BundleInv'
  <2>1. CASE emitting'[r] = "failed" /\ UNCHANGED appendices
    <3>1. Goes(r, "executed", "failed") /\ UNCHANGED <<bundleVars, keptFiles>>
      BY <1>9, <2>1 DEF FindAppendices, Goes, BundleInv, ArtifactTypeOK, bundleVars
    <3>2. MadeBy("failed") = {}
      BY DEF MadeBy
    <3> QED
      BY <3>1, <3>2, MoveKeeps DEF Places
  <2>2. CASE Goes(r, "executed", "packing") /\ appendices' = [appendices EXCEPT ![r] = Present]
    <3>0. /\ emitting[r] = "executed" /\ emitting' = [emitting EXCEPT ![r] = "packing"]
          /\ UNCHANGED <<disk, made, bundle, crossed>>
      BY <1>9, <2>2 DEF FindAppendices, Goes, keptFiles
    <3>1. r \notin crossed => made[r] \subseteq Present
      BY <3>0, ArtifactAssumption
      DEF BundleInv, MadeInv, ArtifactTypeOK, Present, ArtifactAssumption
    <3>2. ArtifactTypeOK' /\ MetInv'
      BY <2>2, <3>0 DEF BundleInv, ArtifactTypeOK, MetInv, Present
    <3>3. MadeBy("packing") = MadeBy("executed")
      BY DEF MadeBy
    <3>4. MadeInv'
      BY <3>0, <3>3 DEF BundleInv, ArtifactTypeOK, MadeInv, Executed
    <3>5. PackInv'
      BY <2>2, <3>0, <3>1 DEF BundleInv, ArtifactTypeOK, PackInv
    <3> QED
      BY <3>2, <3>4, <3>5 DEF BundleInv
  <2> QED
    BY <1>9, <2>1, <2>2 DEF FindAppendices, Goes, BundleInv, ArtifactTypeOK
<1>10. ASSUME NEW r \in Repeats, NEW i \in DOMAIN Listing, Pack(r, i) PROVE BundleInv'
  <2>0. /\ emitting[r] = "packing" /\ UNCHANGED <<disk, made, emitting, crossed>>
        /\ Listing[i] \in appendices[r] /\ Listing[i] \in Appendices
        /\ bundle' = [bundle EXCEPT ![r][Listing[i]] = disk[Listing[i]]]
        /\ appendices' = [appendices EXCEPT ![r] = @ \ {Listing[i]}]
    BY <1>10 DEF Pack, Goes, keptFiles, BundleInv, ArtifactTypeOK, Appendices
  <2>1. ArtifactTypeOK'
    BY <2>0 DEF BundleInv, ArtifactTypeOK
  <2>2. MetInv' /\ MadeInv'
    BY <2>0 DEF BundleInv, MetInv, MadeInv, Executed
  <2>3. PackInv'
    BY <2>0 DEF BundleInv, ArtifactTypeOK, MadeInv, PackInv
  <2> QED
    BY <2>1, <2>2, <2>3 DEF BundleInv
<1>11. ASSUME NEW r \in Repeats, CloseBundle(r) PROVE BundleInv'
  <2>0. /\ appendices[r] = {} /\ UNCHANGED <<disk, made, appendices, bundle, crossed>>
        /\ emitting[r] = "packing" /\ emitting' = [emitting EXCEPT ![r] = "bundled"]
    BY <1>11 DEF CloseBundle, Goes, keptFiles, bundleVars
  <2>1. ArtifactTypeOK' /\ MetInv'
    BY <2>0 DEF BundleInv, ArtifactTypeOK, MetInv
  <2>2. MadeBy("bundled") = MadeBy("packing")
    BY DEF MadeBy
  <2>3. MadeInv'
    BY <2>0, <2>2 DEF BundleInv, ArtifactTypeOK, MadeInv, Executed
  <2>4. PackInv'
    BY <2>0 DEF BundleInv, ArtifactTypeOK, PackInv
  <2> QED
    BY <2>1, <2>3, <2>4 DEF BundleInv
<1>12. CASE UNCHANGED artifactVars
  BY <1>12 DEF artifactVars, BundleInv, ArtifactTypeOK, MetInv, MadeInv, PackInv, Executed
<1> QED
  BY <1>1, <1>2, <1>3, <1>4, <1>5, <1>6, <1>7, <1>8, <1>9, <1>10, <1>11, <1>12
  DEF ArtifactNext

\* For any number of runs of a project, the bundle of one that executed alone is of its
\* own files, but for the leavings it did not make (orchestrator.py:1441-1506 and
\* 1701-1721, core/final/composer.py:54).
THEOREM BundlesAreOwn == ArtifactSpec => []BundleIsOwn
<1>1. ArtifactInit => BundleInv
  BY DEF ArtifactInit, BundleInv, ArtifactTypeOK, MetInv, MadeInv, PackInv, Ended, Executed
<1>2. BundleInv => BundleIsOwn
  <2> SUFFICES ASSUME BundleInv, NEW r \in Repeats,
                      emitting[r] = "bundled", r \notin crossed, Executed(r)
               PROVE  /\ Build \subseteq made[r]
                      /\ \A a \in made[r] \cup (Appendices \ Leavings) : bundle[r][a] = r
    BY DEF BundleIsOwn
  <2>1. {"decision_log", "evidence"} \cup Build \subseteq made[r]
    BY DEF BundleInv, MadeInv, MadeBy
  <2>2. Appendices \ Leavings \subseteq made[r]
    BY <2>1, AllAppendices DEF Leavings
  <2> QED
    BY <2>1, <2>2 DEF BundleInv, PackInv
<1> QED
  BY <1>1, <1>2, BundleStep, PTL DEF ArtifactSpec

-----------------------------------------------------------------------------
(* Types. *)

\* The plan a stream goes by is one of the four it can be, and telemetry is told of verdicts.
THEOREM StreamTypes == StreamSpec => []StreamTypeOK
<1> DEFINE Rest ==
       /\ stopped \in BOOLEAN /\ unrecorded \in BOOLEAN
       /\ plan \in Whose /\ tasks \in Whose /\ ranPlan \in Whose
       /\ completed \in Seq({"done", "error"})
<1>1. StreamInit => Rest
  BY EmptySeq DEF StreamInit, Whose
<1>2. Rest /\ [StreamNext]_streamVars => Rest'
  <2> SUFFICES ASSUME Rest, [StreamNext]_streamVars PROVE Rest'
    OBVIOUS
  <2> USE DEF Whose
  <2>1. CASE Yield \/ Leave \/ Stop
    BY <2>1 DEF Yield, Leave, Stop
  <2>2. CASE AskPlanner
    BY <2>2 DEF AskPlanner, Planned, NoPlan
  <2>3. CASE CheckBeforeRetry \/ OpenExecutor \/ Synthesize
    BY <2>3 DEF CheckBeforeRetry, OpenExecutor, Synthesize
  <2>4. CASE AskAgain
    BY <2>4 DEF AskAgain, Planned, NoPlan
  <2>5. CASE ExecuteStream
    BY <2>5 DEF ExecuteStream
  <2>6. CASE CompleteStream
    <3>1. \A v \in {"done", "error"} : Append(completed, v) \in Seq({"done", "error"})
      OBVIOUS
    <3> QED
      BY <2>6, <3>1 DEF CompleteStream, Completed
  <2>7. CASE UNCHANGED streamVars
    BY <2>7 DEF streamVars
  <2> QED
    BY <2>1, <2>2, <2>3, <2>4, <2>5, <2>6, <2>7 DEF StreamNext
<1>3. VerdictInv /\ Rest => StreamTypeOK
  BY DEF VerdictInv, StreamTypeOK
<1> QED
  BY <1>1, <1>2, <1>3, VerdictStart, VerdictStep, PTL DEF StreamSpec

\* The pointer is of a run or of none, and the memory and the files of a run hold calls.
THEOREM CallTypes == ApiSpec => []ApiTypeOK
<1>1. ApiInit => CallTypeOK
  BY ApiAssumption DEF ApiInit, CallTypeOK, ClosingPhases, ApiAssumption
<1>2. CallTypeOK => ApiTypeOK
  BY DEF CallTypeOK, ApiTypeOK, ClosingPhases
<1> QED
  BY <1>1, <1>2, CallTypeKept, PTL DEF ApiSpec

LEMMA AuditTypeStep == AuditTypeOK /\ [AuditNext]_auditVars => AuditTypeOK'
<1> SUFFICES ASSUME AuditTypeOK, [AuditNext]_auditVars PROVE AuditTypeOK'
  OBVIOUS
<1> USE DEF AuditTypeOK
<1>1. Readable => PrevRead \in Nat
  <2>1. ASSUME exists, trail # <<>> PROVE trail[Len(trail)].id \in Nat
    <3>1. Len(trail) \in DOMAIN trail /\ trail[Len(trail)] \in Records
      BY <2>1
    <3> QED
      BY <3>1 DEF Records
  <2> QED
    BY <2>1 DEF Readable, PrevRead
<1>2. ASSUME NEW a \in Appenders, ReadLast(a) PROVE AuditTypeOK'
  BY <1>1, <1>2 DEF ReadLast, Mixes
<1>3. ASSUME NEW a \in Appenders, Open(a) \/ Die(a) PROVE AuditTypeOK'
  BY <1>3 DEF Open, Die
<1>4. ASSUME NEW a \in Appenders, Write(a) PROVE AuditTypeOK'
  <2>1. Entry(a) \in Records
    BY DEF Entry, Records
  <2>2. Append(trail, Entry(a)) \in Seq(Records)
    BY <2>1
  <2> HIDE DEF Entry
  <2> QED
    BY <1>4, <2>2 DEF Write
<1>m. ASSUME NEW P, P \in BOOLEAN, Mixes(P) PROVE mixed' \in BOOLEAN
  BY <1>m DEF Mixes
<1>5. CASE Sweep \/ VisitLog \/ VisitOther
  <2>1. CASE Sweep
    <3>1. mixed' \in BOOLEAN
      BY <1>m, <2>1 DEF Sweep
    <3>2. trail' \in Seq(Records)
      BY <2>1, EmptySeq DEF Sweep
    <3> QED
      BY <2>1, <3>1, <3>2 DEF Sweep
  <2>2. CASE VisitLog
    BY <2>2 DEF VisitLog
  <2>3. CASE VisitOther
    BY <2>3 DEF VisitOther
  <2> QED
    BY <1>5, <2>1, <2>2, <2>3
<1>6. CASE RewriteLog
  <2>1. \A r \in Records : Erased(r) \in Records
    BY DEF Erased, Records
  <2>2. DOMAIN copy = 1 .. Len(copy) /\ Len(copy) \in Nat /\ \A i \in DOMAIN copy : copy[i] \in Records
    OBVIOUS
  <2>3. trail' = [i \in 1 .. Len(copy) |-> Erased(copy[i])]
    BY <1>6, <2>2 DEF RewriteLog
  <2>4. trail' \in [1 .. Len(copy) -> Records]
    BY <2>1, <2>2, <2>3
  <2>5. trail' \in Seq(Records)
    BY <2>2, <2>4, SeqDef
  <2> QED
    BY <1>6, <2>5 DEF RewriteLog
<1>7. CASE NoteRedaction
  <2> DEFINE note == [id |-> written + 1, prev |-> PrevRead, names |-> FALSE, fits |-> TRUE]
  <2>1. ASSUME Readable PROVE Append(trail, note) \in Seq(Records)
    <3>1. note \in Records
      BY <1>1, <2>1 DEF Records
    <3> QED
      BY <3>1
  <2>2. Readable => trail' = Append(trail, note)
    BY <1>7 DEF NoteRedaction
  <2>3. mixed' \in BOOLEAN
    BY <1>m, <1>7 DEF NoteRedaction
  <2> HIDE DEF note
  <2>4. CASE Readable
    <3>0. trail' \in Seq(Records)
      BY <2>1, <2>2, <2>4
    <3>1. exists' \in BOOLEAN /\ written' \in Nat
      BY <1>7, <2>4 DEF NoteRedaction
    <3>2. eraser' \in {"visited", "idle"}
      BY <1>7, <2>4 DEF NoteRedaction
    <3> QED
      BY <1>7, <2>3, <3>0, <3>1, <3>2 DEF NoteRedaction
  <2>5. CASE ~Readable
    BY <1>7, <2>3, <2>5 DEF NoteRedaction
  <2> QED
    BY <2>4, <2>5
<1>8. CASE UNCHANGED auditVars
  BY <1>8 DEF auditVars
<1> QED
  BY <1>2, <1>3, <1>4, <1>5, <1>6, <1>7, <1>8 DEF AuditNext

\* The log holds records, whatever is appended, erased and swept, and by how many.
THEOREM AuditTypes == AuditSpec => []AuditTypeOK
<1>1. AuditInit => AuditTypeOK
  <2> SUFFICES ASSUME AuditInit PROVE AuditTypeOK
    OBVIOUS
  <2>1. trail \in Seq(Records) /\ copy \in Seq(Records)
    BY EmptySeq DEF AuditInit
  <2> QED
    BY <2>1 DEF AuditInit, AuditTypeOK
<1> QED
  BY <1>1, AuditTypeStep, PTL DEF AuditSpec

\* A document, its temporary file and every copy of them hold entries, or nothing readable.
THEOREM DocumentTypes == DocSpec => []DocTypeOK
<1> DEFINE Rest == store \in Documents /\ overlapped \in BOOLEAN /\ died \in BOOLEAN
<1>1. DocInit => DocTypes /\ Rest
  <2>1. DocInit => DocTypes
    BY Marked DEF DocInit, DocTypes, Files
  <2>2. DocInit => Rest
    BY DEF DocInit
  <2> QED
    BY <2>1, <2>2
<1>2. Rest /\ [DocNext]_docVars => Rest'
  <2>1. ASSUME NEW w \in Writers, Rest, LoadDoc(w) PROVE Rest'
    BY <2>1 DEF LoadDoc
  <2>2. ASSUME NEW w \in Writers, Rest, OpenDoc(w) \/ FillDoc(w) \/ ReplaceDoc(w) \/ TidyDoc(w)
        PROVE  Rest'
    BY <2>2 DEF OpenDoc, FillDoc, ReplaceDoc, TidyDoc
  <2>3. ASSUME Rest, DieStore \/ UNCHANGED docVars PROVE Rest'
    BY <2>3 DEF DieStore, docVars
  <2> QED
    BY <2>1, <2>2, <2>3 DEF DocNext
<1>3. DocTypes /\ Rest => DocTypeOK
  BY DEF DocTypes, DocTypeOK
<1> QED
  BY <1>1, <1>2, <1>3, DocTypesKept, PTL DEF DocSpec

\* No process seeks a part beyond the last, and every part has a size.
THEOREM EventTypes == EventSpec => []EventTypeOK
<1>1. EventInit => EventTypeOK
  BY EventAssumption DEF EventInit, EventTypeOK, EventAssumption, Parts
<1> QED
  BY <1>1, EventTypesKept, PTL DEF EventSpec

\* Every file on disk and in a bundle is of a run of the project, or of nobody.
THEOREM ArtifactTypes == ArtifactSpec => []ArtifactTypeOK
<1>1. ArtifactInit => BundleInv
  BY DEF ArtifactInit, BundleInv, ArtifactTypeOK, MetInv, MadeInv, PackInv, Ended, Executed
<1>2. BundleInv => ArtifactTypeOK
  BY DEF BundleInv
<1> QED
  BY <1>1, <1>2, BundleStep, PTL DEF ArtifactSpec
-----------------------------------------------------------------------------
(* All that runs leave behind, as the composition MCRecords has it. *)

\* A behaviour of the union is one of each component: they share no variable, so
\* that what one module of the repository is promised here holds beside the others.
THEOREM RecordsCompose ==
    RecordsSpec =>
        /\ Spec /\ StreamSpec /\ ApiSpec /\ AuditSpec /\ DocSpec /\ EventSpec
        /\ ArtifactSpec
<1>1. RecordsInit => /\ Init /\ StreamInit /\ ApiInit /\ AuditInit /\ DocInit
                     /\ EventInit /\ ArtifactInit
  BY DEF RecordsInit
<1>2. ASSUME [RecordsNext]_recordsVars
      PROVE  /\ [Next]_vars /\ [StreamNext]_streamVars /\ [ApiNext]_apiVars
             /\ [AuditNext]_auditVars /\ [DocNext]_docVars /\ [EventNext]_eventVars
             /\ [ArtifactNext]_artifactVars
  BY <1>2 DEF RecordsNext, recordsVars, streams, ledgers, left
<1> QED
  BY <1>1, <1>2, PTL DEF RecordsSpec, Spec, StreamSpec, ApiSpec, AuditSpec, DocSpec,
     EventSpec, ArtifactSpec

\* Beside the others, every component keeps what it is checked for: what a resumed
\* run, a stream, the log of calls, the audit trail, the documents, the telemetry
\* and the bundles each may leave to be read later.
THEOREM RecordsAreKept ==
    RecordsSpec =>
        /\ []MarkedIsDone /\ []DoneNotRepeated /\ []ResumedPlanIsOrigins /\ []OwnReport
        /\ []OwnPlanExecuted /\ []OneVerdict /\ []CallsFiled /\ []UnmixedVerifies
        /\ []SavesSurvive /\ []BaseBounded /\ []BundleIsOwn
  BY RecordsCompose, MarksAreBacked, NothingRepeated, OriginsPlanResumed, ReportIsOwn,
     OwnPlanIsExecuted, VerdictIsOne, CallsAreFiled, UnmixedChainVerifies, SavesAreKept,
     BaseIsBounded, BundlesAreOwn, PTL
=============================================================================
