---------------------------- MODULE ExecutePlan ----------------------------
(***************************************************************************)
(* execute_plan and compose_final_proposal (core/orchestrator.py): the     *)
(* tasks of a plan are routed to agents, one after the other or on a       *)
(* thread pool; reflection and evaluation ask for more; outputs that       *)
(* cannot be had become placeholders and open issues; the report names     *)
(* the gaps.                                                               *)
(*                                                                         *)
(* The Python call stack of a thread is the sequence of steps it has left  *)
(* to do.  A step that calls an agent ends with the call.  An output is    *)
(* one of a few kinds; the ladder of validate_and_retry, which RetryLadder *)
(* models, is its result here.  Only whether a retry was counted for a     *)
(* name is ever tested, so role_retries is a set.                          *)
(***************************************************************************)
EXTENDS Sequences, Naturals, FiniteSets

CONSTANTS Names,          \* role names that planner and agents use
          Roles,          \* those the router answers with
          QA,             \* the name and role of the reviewer
          NoName,         \* a follow-up that names no role
          Route,          \* the router
          Plans,          \* task lists: the names of the QA tasks apart
          FollowUps,      \* lists of names a reflection may return
          Pool,           \* indices of the pool's threads
          Modes,          \* values of PARALLEL_EXEC_ENABLED
          Evaluating,     \* EVALUATION_ENABLED
          HumanReview,    \* EVALUATION_HUMAN_REVIEW
          MaxReflections, \* REFLECTION_MAX_ATTEMPTS
          MaxRounds       \* EVALUATION_MAX_ROUNDS

ASSUME PlanAssumption ==
    /\ Roles \subseteq Names /\ QA \in Roles /\ NoName \notin Names
    /\ Route \in [Names \cup {NoName} -> Roles] /\ Route[QA] = QA
    /\ Plans \subseteq [work : Seq(Names \ {QA}), qa : Seq({QA})]
    /\ FollowUps \subseteq Seq(Names \cup {NoName})
    /\ Pool \subseteq Nat \ {0} /\ IsFiniteSet(Pool)
    /\ \A p \in Plans : 1 .. Len(p.work) \subseteq Pool
    /\ Modes \subseteq BOOLEAN /\ Evaluating \in BOOLEAN /\ HumanReview \in BOOLEAN
    /\ MaxReflections \in Nat /\ MaxRounds \in Nat

Main == 0
Strands == {Main} \cup Pool

\* A step says what to do, on which name or role, and with which result or
\* kind of reflection.
Steps ==
    [do : {"run", "follow", "again", "bump"}, on : Names \cup {NoName}, as : {"any"}]
    \cup [do : {"second", "retry", "flag", "review"}, on : Roles, as : {"any"}]
    \cup [do : {"qa", "record"}, on : Roles, as : {"good", "silent", "fabricated"}]
    \cup [do : {"reflect", "ask"}, on : {NoName}, as : {"first", "review", "nested"}]
    \cup [do : {"gaps", "join", "evaluate"}, on : {NoName}, as : {"any"}]

Step(d, n, k) == [do |-> d, on |-> n, as |-> k]
Each(d, names) == [i \in 1 .. Len(names) |-> Step(d, names[i], "any")]

\* What a role may have to show for a task: a validated output; a validated
\* review that says nothing; a fabricated placeholder; the placeholder of an
\* agent that refused its input twice; the error of an empty output, with or
\* without text.
Kinds == {"good", "silent", "fabricated", "unanswered", "error", "blank"}
EmptyOutput == {"error", "blank"}

VARIABLES
    status,   \* of the run: idle, running, returned, raised, composed
    parallel, \* whether tasks run on the pool
    plan,     \* the plan of the run, st.session_state["plan_tasks"]
    todo,     \* todo[s]: the steps that strand s has left
    failed,   \* the strands that raised
    answers,  \* answers[r]: the kinds of the answers kept for role r
    findings, \* role_to_findings[r], "none" before the first
    retried,  \* names with role_retries >= 1
    open,     \* roles of open_issues
    attempts, \* reflection_attempts
    round,    \* eval_round
    defined,  \* whether _qa_all_placeholder and _has_placeholder are bound
    gaps,     \* names in the Gaps section of the report
    outcomes  \* history: every kind ever obtained for a role

\* What a run is given.
given == <<plan, parallel>>

vars == <<status, given, todo, failed, answers, findings, retried, open,
          attempts, round, defined, gaps, outcomes>>

-----------------------------------------------------------------------------
\* The steps of one round of the main loop, of the main strand and the pool.
Review(p) ==
    <<Step("reflect", NoName, "first"), Step("gaps", NoName, "any")>>
    \o Each("run", p.qa)
    \o <<Step("reflect", NoName, "review"), Step("gaps", NoName, "any"),
         Step("evaluate", NoName, "any")>>

Round(p) ==
    [s \in Strands |->
        IF s = Main
        THEN (IF parallel THEN <<Step("join", NoName, "any")>> ELSE Each("run", p.work))
             \o Review(p)
        ELSE IF parallel /\ s <= Len(p.work) THEN <<Step("run", p.work[s], "any")>>
        ELSE << >>]

Init ==
    /\ status = "idle"
    /\ plan \in Plans /\ parallel \in Modes
    /\ todo = [s \in Strands |-> << >>]
    /\ failed = {}
    /\ answers = [r \in Roles |-> {}]
    /\ findings = [r \in Roles |-> "none"]
    /\ retried = {}
    /\ open = {}
    /\ attempts = 0
    /\ round = 0
    /\ defined = FALSE
    /\ gaps = {}
    /\ outcomes = [r \in Roles |-> {}]

Empty(p) == p.work = << >> /\ p.qa = << >>

Start ==
    /\ status = "idle"
    /\ IF Empty(plan) THEN status' = "raised" /\ UNCHANGED todo
       ELSE status' = "running" /\ todo' = Round(plan)
    /\ UNCHANGED <<given, failed, answers, findings, retried, open, attempts,
                   round, defined, gaps, outcomes>>

-----------------------------------------------------------------------------
At(s, d) == status = "running" /\ todo[s] # << >> /\ Head(todo[s]).do = d
Top(s) == Head(todo[s])

\* Replace the first step of s by the steps new.
Then(s, new) == todo' = [todo EXCEPT ![s] = new \o Tail(@)]

\* After a judged output of role r: the QA check, or straight to recording.
Settle(r, k) == Step(IF r = QA THEN "qa" ELSE "record", r, k)

Got(r, k) == outcomes' = [outcomes EXCEPT ![r] = @ \cup {k}]

\* The agent refused its input twice, or returned nothing: the task ends here.
RunUnanswered(s) ==
    /\ At(s, "run")
    /\ LET r == Route[Top(s).on] IN
        /\ answers' = [answers EXCEPT ![r] = @ \cup {"unanswered"}]
        /\ findings' = [findings EXCEPT ![r] = "unanswered"]
        /\ Got(r, "unanswered")
    /\ Then(s, << >>)
    /\ UNCHANGED <<status, given, failed, retried, open, attempts, round, defined, gaps>>

RunEmpty(s) ==
    /\ At(s, "run")
    /\ LET r == Route[Top(s).on] IN
        \E k \in EmptyOutput :
            /\ answers' = [answers EXCEPT ![r] = {k}]
            /\ findings' = [findings EXCEPT ![r] = k]
            /\ Got(r, k)
    /\ Then(s, << >>)
    /\ UNCHANGED <<status, given, failed, retried, open, attempts, round, defined, gaps>>

\* validate_and_retry: valid, invalid to the end (a fabricated placeholder),
\* or flagged as placeholder content.
RunJudged(s) ==
    /\ At(s, "run")
    /\ LET r == Route[Top(s).on] IN
        \/ \E k \in {"good", "fabricated"} : Then(s, <<Settle(r, k)>>)
        \/ Then(s, <<Step("second", r, "any")>>)
    /\ UNCHANGED <<status, given, failed, answers, findings, retried, open,
                   attempts, round, defined, gaps, outcomes>>

\* A flagged output is asked for once more unless the role had its retry; by
\* the time the second one is there, another thread may have counted one.
Second(s) ==
    /\ At(s, "second")
    /\ LET r == Top(s).on IN
        Then(s, <<Step(IF r \in retried THEN "flag" ELSE "retry", r, "any")>>)
    /\ UNCHANGED <<status, given, failed, answers, findings, retried, open,
                   attempts, round, defined, gaps, outcomes>>

RetryFlagged(s) ==
    /\ At(s, "retry")
    /\ LET r == Top(s).on IN
        \/ \E k \in {"good", "fabricated"} : Then(s, <<Settle(r, k)>>)
        \/ Then(s, <<Step("flag", r, "any")>>)
    /\ UNCHANGED <<status, given, failed, answers, findings, retried, open,
                   attempts, round, defined, gaps, outcomes>>

Flag(s) ==
    /\ At(s, "flag")
    /\ LET r == Top(s).on IN
        /\ retried' = retried \cup {r}
        /\ open' = open \cup {r}
        /\ Then(s, <<Step("reflect", NoName, "nested"), Settle(r, "fabricated")>>)
    /\ UNCHANGED <<status, given, failed, answers, findings, attempts, round,
                   defined, gaps, outcomes>>

\* A review that says nothing is asked for again unless QA had its retry.
CheckReview(s) ==
    /\ At(s, "qa") /\ defined
    /\ \/ Top(s).as = "good" /\ Then(s, <<Step("record", QA, "good")>>)
       \/ QA \notin retried /\ Then(s, <<Step("review", QA, "any")>>)
       \/ /\ QA \in retried
          /\ Then(s, <<Step("record", QA,
                             IF Top(s).as = "good" THEN "silent" ELSE "fabricated")>>)
    /\ UNCHANGED <<status, given, failed, answers, findings, retried, open,
                   attempts, round, defined, gaps, outcomes>>

RetryReview(s) ==
    /\ At(s, "review")
    /\ \E k \in {"good", "silent", "fabricated"} :
        /\ Then(s, <<Step("record", QA, k)>>)
        /\ retried' = IF k = "good" THEN retried ELSE retried \cup {QA}
    /\ UNCHANGED <<status, given, failed, answers, findings, open, attempts,
                   round, defined, gaps, outcomes>>

\* Mutant: issues for flagged outputs only.
RecordOnly(r, k) == UNCHANGED open

\* A placeholder is an open issue.
NoteIssue(r, k) == open' = IF k = "fabricated" THEN open \cup {r} ELSE open

Keep(r, k) == answers' = [answers EXCEPT ![r] = @ \cup {k}]

Record(s) ==
    /\ At(s, "record")
    /\ LET r == Top(s).on
           k == Top(s).as
       IN  /\ Keep(r, k)
           /\ findings' = [findings EXCEPT ![r] = k]
           /\ Got(r, k)
           /\ NoteIssue(r, k)
    /\ Then(s, << >>)
    /\ UNCHANGED <<status, given, failed, retried, attempts, round, defined, gaps>>

-----------------------------------------------------------------------------
\* _has_placeholder of the findings under a name; a name that is no role has
\* no findings, which counts as a placeholder.
HasPlaceholder(n) ==
    n \in Roles => findings[n] \in {"none", "fabricated", "unanswered", "blank"}

Incomplete ==
    \E r \in Roles : findings[r] # "none"
        /\ IF r = QA THEN findings[r] # "good" ELSE HasPlaceholder(r)

\* Mutant: one attempt too many.
MoreAllowed == attempts <= MaxReflections

ReflectionAllowed == attempts < MaxReflections

Reflect(s) ==
    /\ At(s, "reflect")
    /\ IF /\ ReflectionAllowed
          /\ \E r \in Roles : findings[r] # "none"
          /\ Top(s).as = "review" => Incomplete
       THEN Then(s, <<Step("ask", NoName, Top(s).as)>>)
       ELSE Then(s, << >>)
    /\ UNCHANGED <<status, given, failed, answers, findings, retried, open,
                   attempts, round, defined, gaps, outcomes>>

\* The follow-ups of a nested reflection run whatever their retries.
Ask(s) ==
    /\ At(s, "ask")
    /\ \E names \in FollowUps :
        Then(s, Each(IF Top(s).as = "nested" THEN "again" ELSE "follow", names))
    /\ attempts' = attempts + 1
    /\ UNCHANGED <<status, given, failed, answers, findings, retried, open,
                   round, defined, gaps, outcomes>>

Follow(s) ==
    /\ At(s, "follow") \/ At(s, "again")
    /\ LET n == Top(s).on IN
        IF Top(s).do = "follow" /\ n \in retried THEN Then(s, << >>)
        ELSE Then(s, <<Step("run", n, "any"), Step("bump", n, "any")>>)
    /\ UNCHANGED <<status, given, failed, answers, findings, retried, open,
                   attempts, round, defined, gaps, outcomes>>

Bump(s) ==
    /\ At(s, "bump")
    /\ retried' = retried \cup ({Top(s).on} \ {NoName})
    /\ Then(s, << >>)
    /\ UNCHANGED <<status, given, failed, answers, findings, open, attempts,
                   round, defined, gaps, outcomes>>

\* The two helpers are defined in the loop body, before the first check for
\* retried names that still have nothing to show.
NoteGaps(s) ==
    /\ At(s, "gaps")
    /\ defined' = TRUE
    /\ open' = open \cup {n \in retried : HasPlaceholder(n)}
    /\ Then(s, << >>)
    /\ UNCHANGED <<status, given, failed, answers, findings, retried, attempts,
                   round, gaps, outcomes>>

\* Mutant: the first thread to end will do.
AnyDone == \E s \in Pool : todo[s] = << >>

PoolDone == \A s \in Pool : todo[s] = << >>

\* The pool is left when every thread has ended; the first error is raised.
Join ==
    /\ At(Main, "join")
    /\ PoolDone
    /\ IF failed = {} THEN Then(Main, << >>) /\ UNCHANGED <<status, failed>>
       ELSE /\ status' = "raised"
            /\ failed' = failed \cup {Main}
            /\ todo' = [todo EXCEPT ![Main] = << >>]
    /\ UNCHANGED <<given, answers, findings, retried, open, attempts, round,
                   defined, gaps, outcomes>>

\* The verdict is sufficient, asks for nothing, or is left to a human.
Finish ==
    /\ At(Main, "evaluate")
    /\ status' = "returned"
    /\ Then(Main, << >>)
    /\ UNCHANGED <<given, failed, answers, findings, retried, open, attempts,
                   round, defined, gaps, outcomes>>

RoundsLeft == round < MaxRounds

\* Mutant: the rounds are not counted.
SameRound == UNCHANGED round

NextRound == round' = round + 1

EvaluateAgain ==
    /\ At(Main, "evaluate")
    /\ Evaluating /\ ~HumanReview /\ RoundsLeft
    /\ \E p \in Plans : ~Empty(p) /\ todo' = Round(p)
    /\ NextRound
    /\ UNCHANGED <<status, given, failed, answers, findings, retried, open,
                   attempts, defined, gaps, outcomes>>

\* An agent raises, the run is cancelled or its deadline passes, or the QA
\* check runs before its helper is bound.  An error in a thread of the pool
\* waits for the others.
Raise(s) ==
    /\ \/ \E d \in {"run", "retry", "review", "ask"} : At(s, d)
       \/ At(s, "evaluate") /\ Evaluating
       \/ At(s, "qa") /\ ~defined
    /\ todo' = [todo EXCEPT ![s] = << >>]
    /\ failed' = failed \cup {s}
    /\ status' = IF s = Main THEN "raised" ELSE status
    /\ UNCHANGED <<given, answers, findings, retried, open, attempts, round,
                   defined, gaps, outcomes>>

-----------------------------------------------------------------------------
PlanNames == {plan.work[i] : i \in 1 .. Len(plan.work)}
             \cup {plan.qa[i] : i \in 1 .. Len(plan.qa)}

Answer(n) == IF n \in Roles THEN answers[n] ELSE {}

\* The report misses whoever was planned or answered and has nothing but
\* placeholders to show, as compose_final_proposal recognises them.
Missing ==
    {n \in Names : /\ Answer(n) \subseteq {"fabricated"}
                   /\ Answer(n) # {} \/ n \in PlanNames}

Compose ==
    /\ status = "returned"
    /\ status' = "composed"
    /\ gaps' = Missing \cup open
    /\ UNCHANGED <<given, todo, failed, answers, findings, retried, open, attempts,
                   round, defined, outcomes>>

StrandStep(s) ==
    \/ RunUnanswered(s) \/ RunEmpty(s) \/ RunJudged(s) \/ Second(s)
    \/ RetryFlagged(s) \/ Flag(s) \/ CheckReview(s) \/ RetryReview(s) \/ Record(s) \/ Reflect(s) \/ Ask(s) \/ Follow(s) \/ Bump(s)
    \/ NoteGaps(s) \/ Raise(s)

MainStep == Start \/ Join \/ Finish \/ EvaluateAgain \/ Compose

Next == MainStep \/ \E s \in Strands : StrandStep(s)

Spec == Init /\ [][Next]_vars

\* Threads are scheduled, and an agent's call ends, by answer or by error.
FairSpec == /\ Spec
            /\ WF_vars(MainStep)
            /\ \A s \in Strands : WF_vars(StrandStep(s))

-----------------------------------------------------------------------------
\* Types of execute_plan's state.
TypeOK ==
    /\ status \in {"idle", "running", "returned", "raised", "composed"}
    /\ plan \in Plans /\ parallel \in BOOLEAN
    /\ todo \in [Strands -> Seq(Steps)]
    /\ failed \subseteq Strands
    /\ answers \in [Roles -> SUBSET Kinds]
    /\ findings \in [Roles -> Kinds \cup {"none"}]
    /\ retried \subseteq Names
    /\ open \subseteq Names
    /\ attempts \in Nat
    /\ round \in 0 .. MaxRounds
    /\ defined \in BOOLEAN
    /\ gaps \subseteq Names
    /\ outcomes \in [Roles -> SUBSET Kinds]

Asking == {s \in Strands : todo[s] # << >> /\ Head(todo[s]).do = "ask"}

\* However reflections nest and whichever threads ask at once, the reflection
\* agent is called at most REFLECTION_MAX_ATTEMPTS times, and once more for
\* each further thread that passed the check before the others counted.
ReflectionsBounded ==
    attempts + Cardinality(Asking)
        <= MaxReflections + (IF parallel /\ Pool # {} THEN Cardinality(Pool) - 1 ELSE 0)

\* Whatever reflections and retries come between, a placeholder fabricated by
\* the self-check for any task reaches the Gaps section of the report, even
\* when another task of the role was answered.
FabricatedInGaps ==
    status = "composed" => \A r \in Roles : "fabricated" \in outcomes[r] => r \in gaps

\* When execute_plan returns, every planned task has an answer under the role
\* it was routed to: a task of the pool is not forgotten.
PlanAnswered ==
    status \in {"returned", "composed"} => \A n \in PlanNames : answers[Route[n]] # {}

\* Every run ends: follow-ups, nested ones too, and evaluation rounds run out.
Terminates == status = "running" ~> status \in {"returned", "raised", "composed"}

\* "Tasks that failed or returned placeholders. They appear in the final
\* report under a 'Gaps and Unresolved Issues' section so gaps are explicit."
\* (docs/USER_GUIDE.md:81)
FailuresInGaps ==
    status = "composed" => \A r \in Roles : outcomes[r] \ {"good", "silent"} # {} => r \in gaps
=============================================================================
