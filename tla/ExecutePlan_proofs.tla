------------------------- MODULE ExecutePlan_proofs -------------------------
(***************************************************************************)
(* Type correctness of execute_plan, what a run owes to its report, and    *)
(* how each of its steps brings it nearer to its end, for every router,    *)
(* every set of plans and follow-ups, every pool and every setting.        *)
(***************************************************************************)
EXTENDS ExecutePlan, Induction, FiniteSetTheorems, TLAPS

-----------------------------------------------------------------------------
\* The steps that the handlers push are steps.
LEMMA StepsTyped ==
    /\ \A d \in {"run", "follow", "again", "bump"}, n \in Names \cup {NoName} :
            Step(d, n, "any") \in Steps
    /\ \A d \in {"second", "retry", "flag", "review"}, r \in Roles : Step(d, r, "any") \in Steps
    /\ \A r \in Roles, k \in {"good", "silent", "fabricated"} :
            Settle(r, k) \in Steps /\ Step("record", r, k) \in Steps
    /\ \A d \in {"reflect", "ask"}, k \in {"first", "review", "nested"} :
            Step(d, NoName, k) \in Steps
    /\ \A d \in {"gaps", "join", "evaluate"} : Step(d, NoName, "any") \in Steps
  BY DEF Steps, Step, Settle

\* The steps for a list of names are a sequence of steps.
LEMMA EachTyped ==
    ASSUME NEW d \in {"run", "follow", "again", "bump"},
           NEW names \in Seq(Names \cup {NoName})
    PROVE  Each(d, names) \in Seq(Steps)
<1>1. Each(d, names) = [i \in 1 .. Len(names) |-> Step(d, names[i], "any")]
  BY DEF Each
<1>2. Len(names) \in Nat /\ \A i \in 1 .. Len(names) : names[i] \in Names \cup {NoName}
  OBVIOUS
<1>3. \A i \in 1 .. Len(names) : Step(d, names[i], "any") \in Steps
  BY <1>2, StepsTyped
<1> QED BY <1>1, <1>2, <1>3

\* The names of a plan are names.
LEMMA PlanTyped ==
    ASSUME NEW p \in Plans
    PROVE  p.work \in Seq(Names \cup {NoName}) /\ p.qa \in Seq(Names \cup {NoName})
<1>1. p.work \in Seq(Names \ {QA}) /\ p.qa \in Seq({QA}) /\ QA \in Names
  BY PlanAssumption
<1> QED BY <1>1

LEMMA ReviewTyped ==
    ASSUME NEW p \in Plans
    PROVE  Review(p) \in Seq(Steps)
<1>1. Each("run", p.qa) \in Seq(Steps)
  BY PlanTyped, EachTyped
<1>2. <<Step("reflect", NoName, "first"), Step("gaps", NoName, "any")>> \in Seq(Steps)
  BY StepsTyped
<1>3. <<Step("reflect", NoName, "review"), Step("gaps", NoName, "any"),
        Step("evaluate", NoName, "any")>> \in Seq(Steps)
  BY StepsTyped
<1> QED BY <1>1, <1>2, <1>3 DEF Review

\* A round is a sequence of steps for every strand.
LEMMA RoundTyped ==
    ASSUME NEW p \in Plans
    PROVE  Round(p) \in [Strands -> Seq(Steps)]
<1>1. Each("run", p.work) \in Seq(Steps) /\ Review(p) \in Seq(Steps)
  BY PlanTyped, EachTyped, ReviewTyped
<1>2. <<Step("join", NoName, "any")>> \in Seq(Steps)
  BY StepsTyped
<1>3. (IF parallel THEN <<Step("join", NoName, "any")>> ELSE Each("run", p.work))
        \o Review(p) \in Seq(Steps)
  BY <1>1, <1>2
<1>4. ASSUME NEW s \in Strands, s # Main, s <= Len(p.work)
      PROVE  <<Step("run", p.work[s], "any")>> \in Seq(Steps)
  <2>1. s \in 1 .. Len(p.work)
    BY <1>4, PlanTyped, PlanAssumption DEF Strands, Main
  <2>2. p.work[s] \in Names \cup {NoName}
    BY <2>1, PlanTyped
  <2> QED BY <2>2, StepsTyped
<1>5. << >> \in Seq(Steps)
  OBVIOUS
<1> QED BY <1>3, <1>4, <1>5 DEF Round

\* Replacing the first step of a strand keeps the types.
LEMMA ThenTyped ==
    ASSUME TypeOK, NEW s \in Strands, todo[s] # << >>, NEW new \in Seq(Steps), Then(s, new)
    PROVE  todo' \in [Strands -> Seq(Steps)]
<1>1. Tail(todo[s]) \in Seq(Steps)
  BY DEF TypeOK
<1>2. new \o Tail(todo[s]) \in Seq(Steps)
  BY <1>1
<1> QED BY <1>2 DEF TypeOK, Then

\* What the first step of a strand says.
LEMMA TopTyped ==
    ASSUME TypeOK, NEW s \in Strands, todo[s] # << >>
    PROVE  /\ Top(s) \in Steps
           /\ Top(s).do \in {"run", "follow", "again", "bump"} =>
                 Top(s).on \in Names \cup {NoName} /\ Route[Top(s).on] \in Roles
           /\ Top(s).do \in {"second", "retry", "flag", "review", "qa", "record"} => Top(s).on \in Roles
           /\ Top(s).do \in {"qa", "record"} => Top(s).as \in {"good", "silent", "fabricated"}
           /\ Top(s).do \in {"reflect", "ask"} => Top(s).as \in {"first", "review", "nested"}
<1>1. Top(s) \in Steps
  BY DEF TypeOK, Top
<1> QED BY <1>1, PlanAssumption DEF Steps
-----------------------------------------------------------------------------
LEMMA InitTyped == Init => TypeOK
<1> SUFFICES ASSUME Init PROVE TypeOK
  OBVIOUS
<1>1. << >> \in Seq(Steps)
  OBVIOUS
<1>2. todo \in [Strands -> Seq(Steps)]
  BY <1>1 DEF Init
<1>3. parallel \in BOOLEAN /\ plan \in Plans
  BY PlanAssumption DEF Init
<1>4. /\ round \in 0 .. MaxRounds /\ attempts \in Nat
      /\ failed \subseteq Strands /\ retried \subseteq Names
      /\ open \subseteq Names /\ gaps \subseteq Names
  BY PlanAssumption DEF Init
<1>5. /\ answers \in [Roles -> SUBSET Kinds] /\ outcomes \in [Roles -> SUBSET Kinds]
      /\ findings \in [Roles -> Kinds \cup {"none"}]
  BY DEF Init
<1>6. status = "idle" /\ defined = FALSE
  BY DEF Init
<1> QED BY <1>2, <1>3, <1>4, <1>5, <1>6 DEF TypeOK

\* A step of a thread keeps the types.
LEMMA StrandTyped ==
    ASSUME TypeOK, NEW s \in Strands, StrandStep(s)
    PROVE  TypeOK'
<1> USE DEF TypeOK, At, given
<1>0. << >> \in Seq(Steps) /\ \A st \in Steps : <<st>> \in Seq(Steps)
  OBVIOUS
<1>1. CASE RunUnanswered(s)
  <2>1. Route[Top(s).on] \in Roles /\ todo' \in [Strands -> Seq(Steps)]
    BY <1>0, <1>1, TopTyped, ThenTyped DEF RunUnanswered, Top
  <2>2. outcomes' \in [Roles -> SUBSET Kinds]
    BY <1>1, <2>1 DEF RunUnanswered, Got, Kinds
  <2>3. answers' \in [Roles -> SUBSET Kinds] /\ findings' \in [Roles -> Kinds \cup {"none"}]
    BY <1>1, <2>1 DEF RunUnanswered, Kinds
  <2> QED BY <1>1, <2>1, <2>2, <2>3 DEF RunUnanswered
<1>2. CASE RunEmpty(s)
  <2>1. Route[Top(s).on] \in Roles /\ todo' \in [Strands -> Seq(Steps)]
    BY <1>0, <1>2, TopTyped, ThenTyped DEF RunEmpty, Top
  <2>2. PICK k \in EmptyOutput :
            /\ answers' = [answers EXCEPT ![Route[Top(s).on]] = {k}]
            /\ findings' = [findings EXCEPT ![Route[Top(s).on]] = k]
            /\ Got(Route[Top(s).on], k)
    BY <1>2 DEF RunEmpty
  <2>3. k \in Kinds
    BY DEF EmptyOutput, Kinds
  <2>4. outcomes' \in [Roles -> SUBSET Kinds]
    BY <2>1, <2>2, <2>3 DEF Got
  <2>5. answers' \in [Roles -> SUBSET Kinds] /\ findings' \in [Roles -> Kinds \cup {"none"}]
    BY <2>1, <2>2, <2>3
  <2> QED BY <1>2, <2>1, <2>4, <2>5 DEF RunEmpty
<1>3. CASE RunJudged(s)
  <2>1. Route[Top(s).on] \in Roles
    BY <1>3, TopTyped DEF RunJudged, Top
  <2>2. todo' \in [Strands -> Seq(Steps)]
    <3>1. CASE \E k \in {"good", "fabricated"} : Then(s, <<Settle(Route[Top(s).on], k)>>)
      BY <1>0, <1>3, <2>1, <3>1, StepsTyped, ThenTyped DEF RunJudged
    <3>2. CASE Then(s, <<Step("second", Route[Top(s).on], "any")>>)
      BY <1>0, <1>3, <2>1, <3>2, StepsTyped, ThenTyped DEF RunJudged
    <3> QED BY <1>3, <3>1, <3>2 DEF RunJudged
  <2> QED BY <1>3, <2>2 DEF RunJudged
<1>4. CASE Second(s)
  <2>1. Top(s).on \in Roles
    BY <1>4, TopTyped DEF Second, Top
  <2>2. todo' \in [Strands -> Seq(Steps)]
    <3>1. CASE Top(s).on \in retried
      BY <1>0, <1>4, <2>1, <3>1, StepsTyped, ThenTyped DEF Second
    <3>2. CASE Top(s).on \notin retried
      BY <1>0, <1>4, <2>1, <3>2, StepsTyped, ThenTyped DEF Second
    <3> QED BY <3>1, <3>2
  <2> QED BY <1>4, <2>2 DEF Second
<1>5. CASE Flag(s)
  <2>1. Top(s).on \in Roles /\ Top(s).on \in Names
    BY <1>5, TopTyped, PlanAssumption DEF Flag, Top
  <2>2. <<Step("reflect", NoName, "nested"), Settle(Top(s).on, "fabricated")>> \in Seq(Steps)
    BY <2>1, StepsTyped
  <2>3. todo' \in [Strands -> Seq(Steps)]
    BY <1>5, <2>2, ThenTyped DEF Flag
  <2>4. retried' \subseteq Names /\ open' \subseteq Names
    BY <1>5, <2>1 DEF Flag
  <2> QED BY <1>5, <2>3, <2>4 DEF Flag
<1>6. CASE CheckReview(s)
  <2>1. QA \in Roles /\ QA \in Names
    BY PlanAssumption
  <2>2. \/ \E k \in {"good", "silent", "fabricated"} : Then(s, <<Step("record", QA, k)>>)
        \/ Then(s, <<Step("review", QA, "any")>>)
    BY <1>6 DEF CheckReview
  <2>3. todo' \in [Strands -> Seq(Steps)]
    BY <1>0, <1>6, <2>1, <2>2, StepsTyped, ThenTyped DEF CheckReview
  <2> QED BY <1>6, <2>3 DEF CheckReview
<1>7. CASE Record(s)
  <2>1. Top(s).on \in Roles /\ Top(s).on \in Names /\ Top(s).as \in Kinds
    BY <1>7, TopTyped, PlanAssumption DEF Record, Top, Kinds
  <2>2. todo' \in [Strands -> Seq(Steps)]
    BY <1>0, <1>7, ThenTyped DEF Record
  <2>3. answers' \in [Roles -> SUBSET Kinds] /\ outcomes' \in [Roles -> SUBSET Kinds]
    BY <1>7, <2>1 DEF Record, Keep, Got
  <2>4. findings' \in [Roles -> Kinds \cup {"none"}] /\ open' \subseteq Names
    BY <1>7, <2>1 DEF Record, NoteIssue
  <2> QED BY <1>7, <2>2, <2>3, <2>4 DEF Record
<1>8. CASE Reflect(s)
  <2>1. Top(s).as \in {"first", "review", "nested"}
    BY <1>8, TopTyped DEF Reflect, Top
  <2>2. Step("ask", NoName, Top(s).as) \in Steps
    BY <2>1, StepsTyped
  <2>3. todo' \in [Strands -> Seq(Steps)]
    BY <1>0, <1>8, <2>2, ThenTyped DEF Reflect
  <2> QED BY <1>8, <2>3 DEF Reflect
<1>9. CASE Ask(s)
  <2>1. \A names \in FollowUps, d \in {"again", "follow"} : Each(d, names) \in Seq(Steps)
    BY EachTyped, PlanAssumption
  <2>2. todo' \in [Strands -> Seq(Steps)]
    BY <1>9, <2>1, ThenTyped DEF Ask
  <2> QED BY <1>9, <2>2 DEF Ask
<1>10. CASE Follow(s)
  <2>1. Top(s).on \in Names \cup {NoName}
    BY <1>10, TopTyped DEF Follow, Top
  <2>2. <<Step("run", Top(s).on, "any"), Step("bump", Top(s).on, "any")>> \in Seq(Steps)
    BY <2>1, StepsTyped
  <2>3. todo' \in [Strands -> Seq(Steps)]
    BY <1>0, <1>10, <2>2, ThenTyped DEF Follow
  <2> QED BY <1>10, <2>3 DEF Follow
<1>11. CASE Bump(s)
  <2>1. Top(s).on \in Names \cup {NoName}
    BY <1>11, TopTyped DEF Bump, Top
  <2>2. todo' \in [Strands -> Seq(Steps)]
    BY <1>0, <1>11, ThenTyped DEF Bump
  <2>3. retried' \subseteq Names
    BY <1>11, <2>1 DEF Bump
  <2> QED BY <1>11, <2>2, <2>3 DEF Bump
<1>12. CASE NoteGaps(s)
  <2>1. todo' \in [Strands -> Seq(Steps)]
    BY <1>0, <1>12, ThenTyped DEF NoteGaps
  <2>2. open' \subseteq Names
    BY <1>12 DEF NoteGaps
  <2> QED BY <1>12, <2>1, <2>2 DEF NoteGaps
<1>13. CASE Raise(s)
  <2>1. todo' \in [Strands -> Seq(Steps)]
    BY <1>0, <1>13 DEF Raise
  <2> QED BY <1>13, <2>1 DEF Raise
<1>14. CASE RetryFlagged(s)
  <2>1. Top(s).on \in Roles
    BY <1>14, TopTyped DEF RetryFlagged, Top
  <2>2. todo' \in [Strands -> Seq(Steps)]
    <3>1. CASE \E k \in {"good", "fabricated"} : Then(s, <<Settle(Top(s).on, k)>>)
      BY <1>0, <1>14, <2>1, <3>1, StepsTyped, ThenTyped DEF RetryFlagged
    <3>2. CASE Then(s, <<Step("flag", Top(s).on, "any")>>)
      BY <1>0, <1>14, <2>1, <3>2, StepsTyped, ThenTyped DEF RetryFlagged
    <3> QED BY <1>14, <3>1, <3>2 DEF RetryFlagged
  <2> QED BY <1>14, <2>2 DEF RetryFlagged
<1>15. CASE RetryReview(s)
  <2>1. QA \in Roles /\ QA \in Names
    BY PlanAssumption
  <2>2. todo' \in [Strands -> Seq(Steps)]
    BY <1>0, <1>15, <2>1, StepsTyped, ThenTyped DEF RetryReview
  <2>3. retried' \subseteq Names
    BY <1>15, <2>1 DEF RetryReview
  <2> QED BY <1>15, <2>2, <2>3 DEF RetryReview
<1> QED BY <1>1, <1>2, <1>3, <1>4, <1>5, <1>6, <1>7, <1>8, <1>9, <1>10, <1>11,
           <1>12, <1>13, <1>14, <1>15 DEF StrandStep

\* A step of the main loop keeps the types.
LEMMA MainTyped ==
    ASSUME TypeOK, MainStep
    PROVE  TypeOK'
<1> USE DEF TypeOK, At, given
<1>0. << >> \in Seq(Steps) /\ Main \in Strands
  BY DEF Strands
<1>1. CASE Start
  <2>1. Round(plan) \in [Strands -> Seq(Steps)]
    BY RoundTyped
  <2> QED BY <1>1, <2>1 DEF Start
<1>2. CASE Join
  <2>1. todo' \in [Strands -> Seq(Steps)]
    BY <1>0, <1>2, ThenTyped DEF Join
  <2> QED BY <1>0, <1>2, <2>1 DEF Join
<1>3. CASE Finish
  <2>1. todo' \in [Strands -> Seq(Steps)]
    BY <1>0, <1>3, ThenTyped DEF Finish
  <2> QED BY <1>3, <2>1 DEF Finish
<1>4. CASE EvaluateAgain
  <2>1. todo' \in [Strands -> Seq(Steps)]
    BY <1>4, RoundTyped DEF EvaluateAgain
  <2>2. round' \in 0 .. MaxRounds
    BY <1>4, PlanAssumption DEF EvaluateAgain, RoundsLeft, NextRound
  <2> QED BY <1>4, <2>1, <2>2 DEF EvaluateAgain
<1>5. CASE Compose
  <2>1. gaps' \subseteq Names
    BY <1>5 DEF Compose, Missing
  <2> QED BY <1>5, <2>1 DEF Compose
<1> QED BY <1>1, <1>2, <1>3, <1>4, <1>5 DEF MainStep

\* Every variable of execute_plan keeps its type: in particular every step
\* that a thread has left is one that some handler takes.
THEOREM TypeCorrect == Spec => []TypeOK
<1>1. TypeOK /\ [Next]_vars => TypeOK'
  <2>1. TypeOK /\ UNCHANGED vars => TypeOK'
    BY DEF TypeOK, vars, given
  <2> QED BY <2>1, StrandTyped, MainTyped DEF Next
<1> QED BY InitTyped, <1>1, PTL DEF Spec
-----------------------------------------------------------------------------
\* A fabricated placeholder is an open issue from the moment it is recorded,
\* and the report takes over every open issue.
IssuesReported ==
    /\ \A r \in Roles : "fabricated" \in outcomes[r] => r \in open
    /\ status = "composed" => open \subseteq gaps

LEMMA IssuesKept ==
    ASSUME TypeOK, IssuesReported, [Next]_vars
    PROVE  IssuesReported'
<1> USE DEF IssuesReported, given
<1>1. ASSUME NEW s \in Strands, StrandStep(s)
      PROVE  IssuesReported'
  <2>0. status = "running" /\ todo[s] # << >>
    BY <1>1 DEF StrandStep, RunUnanswered, RunEmpty, RunJudged, Second, RetryFlagged, Flag,
                CheckReview, RetryReview, Record, Reflect, Ask, Follow, Bump, NoteGaps, Raise, At
  <2>1. status' # "composed"
    BY <1>1, <2>0 DEF StrandStep, RunUnanswered, RunEmpty, RunJudged, Second, RetryFlagged, Flag,
                CheckReview, RetryReview, Record, Reflect, Ask, Follow, Bump, NoteGaps, Raise
  <2>2. CASE RunUnanswered(s)
    BY <2>1, <2>2 DEF RunUnanswered, Got, TypeOK
  <2>3. CASE RunEmpty(s)
    BY <2>1, <2>3 DEF RunEmpty, Got, TypeOK, EmptyOutput
  <2>4. CASE Flag(s)
    BY <2>1, <2>4 DEF Flag
  <2>5. CASE Record(s)
    <3>1. outcomes' = [outcomes EXCEPT ![Top(s).on] = @ \cup {Top(s).as}]
      BY <2>5 DEF Record, Got
    <3>2. open' = IF Top(s).as = "fabricated" THEN open \cup {Top(s).on} ELSE open
      BY <2>5 DEF Record, NoteIssue
    <3> QED BY <2>1, <3>1, <3>2 DEF TypeOK
  <2>6. CASE NoteGaps(s)
    BY <2>1, <2>6 DEF NoteGaps
  <2>7. CASE \/ RunJudged(s) \/ Second(s) \/ RetryFlagged(s) \/ CheckReview(s)
             \/ RetryReview(s) \/ Reflect(s) \/ Ask(s) \/ Follow(s) \/ Bump(s) \/ Raise(s)
    <3>1. UNCHANGED <<open, outcomes>>
      BY <2>7 DEF RunJudged, Second, RetryFlagged, CheckReview, RetryReview, Reflect, Ask, Follow, Bump, Raise
    <3> QED BY <2>1, <3>1
  <2> QED BY <1>1, <2>2, <2>3, <2>4, <2>5, <2>6, <2>7 DEF StrandStep
<1>2. ASSUME MainStep
      PROVE  IssuesReported'
  BY <1>2 DEF MainStep, Start, Join, Finish, EvaluateAgain, Compose, At
<1>3. CASE UNCHANGED vars
  BY <1>3 DEF vars
<1> QED BY <1>1, <1>2, <1>3 DEF Next

\* Every placeholder that the self-check fabricated for a role is named in the
\* report, whatever else the role answered (_run_task, compose_final_proposal).
THEOREM PlaceholdersReported == Spec => []FabricatedInGaps
<1>1. Init => IssuesReported
  BY DEF Init, IssuesReported
<1>2. IssuesReported => FabricatedInGaps
  BY DEF IssuesReported, FabricatedInGaps
<1> QED BY <1>1, <1>2, IssuesKept, TypeCorrect, PTL DEF Spec

-----------------------------------------------------------------------------
\* The pool runs only while the main strand waits for it, and a reflection
\* is asked for only by the step a strand is at.
PoolWaited ==
    \A s \in Pool : todo[s] # << >> =>
        parallel /\ todo[Main] # << >> /\ Head(todo[Main]).do = "join"

Awaiting == \A s \in Strands : \A i \in 2 .. Len(todo[s]) : todo[s][i].do # "ask"

AttemptsLeft == MaxReflections + (IF parallel /\ Pool # {} THEN Cardinality(Pool) - 1 ELSE 0)

ReflectionInv ==
    /\ PoolWaited
    /\ Awaiting
    /\ attempts + Cardinality(Asking) <= AttemptsLeft

\* The shape of a strand whose first step is replaced.
LEMMA ThenShape ==
    ASSUME TypeOK, NEW s \in Strands, todo[s] # << >>, NEW new \in Seq(Steps), Then(s, new)
    PROVE  /\ \A t \in Strands \ {s} : todo'[t] = todo[t]
           /\ todo'[s] \in Seq(Steps)
           /\ Len(todo'[s]) = Len(new) + Len(todo[s]) - 1
           /\ \A i \in 1 .. Len(new) : todo'[s][i] = new[i]
           /\ \A i \in 1 .. Len(todo[s]) - 1 : todo'[s][Len(new) + i] = todo[s][i + 1]
<1>1. todo[s] \in Seq(Steps) /\ Len(todo[s]) \in Nat \ {0}
  BY DEF TypeOK
<1>2. /\ Tail(todo[s]) \in Seq(Steps)
      /\ Len(Tail(todo[s])) = Len(todo[s]) - 1
      /\ \A i \in 1 .. Len(todo[s]) - 1 : Tail(todo[s])[i] = todo[s][i + 1]
  BY <1>1
<1>3. todo'[s] = new \o Tail(todo[s]) /\ \A t \in Strands \ {s} : todo'[t] = todo[t]
  BY DEF TypeOK, Then
<1> DEFINE rest == Tail(todo[s])
<1>4. /\ new \o rest \in Seq(Steps)
      /\ Len(new \o rest) = Len(new) + Len(rest)
      /\ \A i \in 1 .. Len(new) : (new \o rest)[i] = new[i]
      /\ \A i \in 1 .. Len(rest) : (new \o rest)[Len(new) + i] = rest[i]
  BY <1>2
<1> QED BY <1>2, <1>3, <1>4

NoAsk(steps) == \A i \in 1 .. Len(steps) : steps[i].do # "ask"

LEMMA NoAskConcat ==
    ASSUME NEW a \in Seq(Steps), NEW b \in Seq(Steps), NoAsk(a), NoAsk(b)
    PROVE  NoAsk(a \o b)
  BY DEF NoAsk

LEMMA NoAskEach ==
    ASSUME NEW names \in Seq(Names \cup {NoName}), NEW d \in {"run", "follow", "again"}
    PROVE  NoAsk(Each(d, names))
  BY DEF NoAsk, Each, Step

LEMMA NoAskRound ==
    ASSUME NEW p \in Plans, NEW s \in Strands
    PROVE  NoAsk(Round(p)[s])
<1> DEFINE first == <<Step("reflect", NoName, "first"), Step("gaps", NoName, "any")>>
           last  == <<Step("reflect", NoName, "review"), Step("gaps", NoName, "any"),
                      Step("evaluate", NoName, "any")>>
           join  == <<Step("join", NoName, "any")>>
<1>1. /\ first \in Seq(Steps) /\ last \in Seq(Steps) /\ join \in Seq(Steps)
      /\ Each("run", p.qa) \in Seq(Steps) /\ Each("run", p.work) \in Seq(Steps)
  BY StepsTyped, EachTyped, PlanTyped
<1>2. NoAsk(first) /\ NoAsk(last) /\ NoAsk(join)
  BY DEF NoAsk, Step
<1> HIDE DEF first, last, join
<1>3. NoAsk(Each("run", p.qa)) /\ NoAsk(Each("run", p.work))
  BY NoAskEach, PlanTyped
<1>4. /\ first \o Each("run", p.qa) \in Seq(Steps)
      /\ NoAsk(first \o Each("run", p.qa))
  BY <1>1, <1>2, <1>3, NoAskConcat
<1>5. Review(p) = (first \o Each("run", p.qa)) \o last
  BY DEF Review, first, last
<1>6. NoAsk(Review(p)) /\ Review(p) \in Seq(Steps)
  BY <1>1, <1>2, <1>4, <1>5, NoAskConcat, ReviewTyped
<1>7. NoAsk(join \o Review(p)) /\ NoAsk(Each("run", p.work) \o Review(p))
  BY <1>1, <1>2, <1>3, <1>6, NoAskConcat
<1>8. NoAsk(<< >>) /\ \A n : NoAsk(<<Step("run", n, "any")>>)
  BY DEF NoAsk, Step
<1> QED BY <1>7, <1>8 DEF Round, join

\* The pool waits for the main strand's first step in a new round.
LEMMA RoundWaited ==
    ASSUME NEW p \in Plans, todo' = Round(p), UNCHANGED given
    PROVE  PoolWaited'
<1>1. Review(p) \in Seq(Steps) /\ Main \in Strands /\ Pool \subseteq Strands /\ Main \notin Pool
  BY ReviewTyped, PlanAssumption DEF Strands, Main
<1>2. parallel => todo'[Main] = <<Step("join", NoName, "any")>> \o Review(p)
  BY <1>1 DEF Round
<1>3. parallel => todo'[Main] # << >> /\ Head(todo'[Main]) = Step("join", NoName, "any")
  BY <1>1, <1>2
<1>4. \A s \in Pool : todo'[s] # << >> => parallel
  BY <1>1 DEF Round
<1>5. Step("join", NoName, "any").do = "join" /\ parallel' = parallel
  BY DEF Step, given
<1>6. parallel => Head(todo'[Main]).do = "join"
  BY <1>3, <1>5
<1>7. ASSUME NEW s \in Pool, todo'[s] # << >>
      PROVE  parallel' /\ todo'[Main] # << >> /\ Head(todo'[Main]).do = "join"
  BY <1>3, <1>4, <1>5, <1>6, <1>7
<1> QED BY <1>7 DEF PoolWaited

\* What strand s does keeps its remaining steps apart from reflections.
LEMMA AwaitingKept ==
    ASSUME TypeOK, Awaiting, NEW s \in Strands, todo[s] # << >>,
           NEW new \in Seq(Steps), Then(s, new),
           \A i \in 2 .. Len(new) : new[i].do # "ask"
    PROVE  /\ Awaiting'
           /\ \A t \in Asking' \ {s} : t \in Asking
           /\ s \in Asking' => new # << >> /\ new[1].do = "ask"
<1>1. /\ \A t \in Strands \ {s} : todo'[t] = todo[t]
      /\ todo'[s] \in Seq(Steps)
      /\ Len(todo'[s]) = Len(new) + Len(todo[s]) - 1
      /\ \A i \in 1 .. Len(new) : todo'[s][i] = new[i]
      /\ \A i \in 1 .. Len(todo[s]) - 1 : todo'[s][Len(new) + i] = todo[s][i + 1]
  BY ThenShape
<1>2. Len(new) \in Nat /\ Len(todo[s]) \in Nat
  BY DEF TypeOK
<1>3. ASSUME NEW i \in 2 .. Len(todo'[s])
      PROVE  todo'[s][i].do # "ask"
  <2>1. CASE i <= Len(new)
    BY <1>1, <1>2, <2>1
  <2>2. CASE i > Len(new)
    <3>1. i - Len(new) \in 1 .. Len(todo[s]) - 1 /\ i = Len(new) + (i - Len(new))
      BY <1>1, <1>2, <2>2
    <3>2. todo'[s][i] = todo[s][(i - Len(new)) + 1]
      BY <1>1, <3>1
    <3>3. (i - Len(new)) + 1 \in 2 .. Len(todo[s])
      BY <1>2, <3>1
    <3> QED BY <3>2, <3>3 DEF Awaiting
  <2> QED BY <1>2, <2>1, <2>2
<1>4. Awaiting'
  BY <1>1, <1>3 DEF Awaiting
<1>5. \A t \in Asking' \ {s} : t \in Asking
  BY <1>1 DEF Asking
<1>6. ASSUME s \in Asking'
      PROVE  new # << >> /\ new[1].do = "ask"
  <2>1. todo'[s] # << >> /\ todo'[s][1].do = "ask" /\ Len(todo'[s]) >= 1
    BY <1>1, <1>6 DEF Asking
  <2>2. CASE new = << >>
    <3>1. todo'[s][1] = todo[s][2] /\ 2 \in 2 .. Len(todo[s])
      BY <1>1, <1>2, <2>1, <2>2
    <3> QED BY <2>1, <3>1 DEF Awaiting
  <2>3. CASE new # << >>
    BY <1>1, <1>2, <2>1, <2>3
  <2> QED BY <2>2, <2>3
<1> QED BY <1>4, <1>5, <1>6

\* How a strand's first step may be replaced: by steps that ask for nothing,
\* or by the request itself while attempts are left.
Replaced(s) ==
    \/ \E new \in Seq(Steps) : Then(s, new) /\ NoAsk(new)
    \/ /\ Then(s, <<Step("ask", NoName, Top(s).as)>>)
       /\ Step("ask", NoName, Top(s).as) \in Steps
       /\ ReflectionAllowed

LEMMA StrandReplaces ==
    ASSUME TypeOK, NEW s \in Strands, StrandStep(s)
    PROVE  /\ status = "running" /\ todo[s] # << >> /\ Head(todo[s]).do # "join"
           /\ Raise(s) \/ Replaced(s)
           /\ IF Ask(s) THEN s \in Asking /\ attempts' = attempts + 1
              ELSE attempts' = attempts
           /\ Ask(s) => \E new \in Seq(Steps) : Then(s, new) /\ NoAsk(new)
           /\ UNCHANGED given
<1> USE DEF At
<1>0. /\ << >> \in Seq(Steps) /\ NoAsk(<< >>)
      /\ \A st \in Steps : st.do # "ask" => <<st>> \in Seq(Steps) /\ NoAsk(<<st>>)
  BY DEF NoAsk
<1>1. CASE RunUnanswered(s)
  BY <1>0, <1>1 DEF RunUnanswered, Replaced, Ask
<1>2. CASE RunEmpty(s)
  BY <1>0, <1>2 DEF RunEmpty, Replaced, Ask
<1>3. CASE RunJudged(s)
  <2>1. Route[Top(s).on] \in Roles
    BY <1>3, TopTyped DEF RunJudged, Top
  <2>2. \E st \in Steps : Then(s, <<st>>) /\ st.do # "ask"
    BY <1>3, <2>1, StepsTyped DEF RunJudged, Settle, Step
  <2> QED BY <1>0, <1>3, <2>2 DEF RunJudged, Replaced, Ask
<1>4. CASE Second(s)
  <2>1. Top(s).on \in Roles
    BY <1>4, TopTyped DEF Second, Top
  <2>2. \E st \in Steps : Then(s, <<st>>) /\ st.do # "ask"
    BY <1>4, <2>1, StepsTyped DEF Second, Settle, Step
  <2> QED BY <1>0, <1>4, <2>2 DEF Second, Replaced, Ask
<1>5. CASE Flag(s)
  <2>1. Top(s).on \in Roles
    BY <1>5, TopTyped DEF Flag, Top
  <2> DEFINE new == <<Step("reflect", NoName, "nested"), Settle(Top(s).on, "fabricated")>>
  <2>2. new \in Seq(Steps)
    BY <2>1, StepsTyped
  <2>3. NoAsk(new)
    BY DEF NoAsk, Step, Settle
  <2> QED BY <1>5, <2>2, <2>3 DEF Flag, Replaced, Ask
<1>6. CASE CheckReview(s)
  <2>1. QA \in Roles
    BY PlanAssumption
  <2>2. \E st \in Steps : Then(s, <<st>>) /\ st.do # "ask"
    BY <1>6, <2>1, StepsTyped DEF CheckReview, Step
  <2> QED BY <1>0, <1>6, <2>2 DEF CheckReview, Replaced, Ask
<1>7. CASE Record(s)
  BY <1>0, <1>7 DEF Record, Replaced, Ask
<1>8. CASE Reflect(s)
  <2>1. Top(s).as \in {"first", "review", "nested"}
    BY <1>8, TopTyped DEF Reflect, Top
  <2>2. Step("ask", NoName, Top(s).as) \in Steps
    BY <2>1, StepsTyped
  <2> QED BY <1>0, <1>8, <2>2 DEF Reflect, Replaced, Ask
<1>9. CASE Ask(s)
  <2>1. \E names \in FollowUps, d \in {"again", "follow"} : Then(s, Each(d, names))
    BY <1>9 DEF Ask
  <2>2. \A names \in FollowUps, d \in {"again", "follow"} :
            Each(d, names) \in Seq(Steps) /\ NoAsk(Each(d, names))
    BY EachTyped, NoAskEach, PlanAssumption
  <2>3. \E new \in Seq(Steps) : Then(s, new) /\ NoAsk(new)
    BY <2>1, <2>2
  <2> QED BY <1>9, <2>3 DEF Ask, Replaced, Asking
<1>10. CASE Follow(s)
  <2>1. Top(s).on \in Names \cup {NoName}
    BY <1>10, TopTyped DEF Follow, Top
  <2> DEFINE new == <<Step("run", Top(s).on, "any"), Step("bump", Top(s).on, "any")>>
  <2>2. new \in Seq(Steps)
    BY <2>1, StepsTyped
  <2>3. NoAsk(new)
    BY DEF NoAsk, Step
  <2>4. Then(s, << >>) \/ Then(s, new)
    BY <1>10 DEF Follow
  <2> QED BY <1>0, <1>10, <2>2, <2>3, <2>4 DEF Follow, Replaced, Ask
<1>11. CASE Bump(s)
  BY <1>0, <1>11 DEF Bump, Replaced, Ask
<1>12. CASE NoteGaps(s)
  BY <1>0, <1>12 DEF NoteGaps, Replaced, Ask
<1>13. CASE Raise(s)
  <2>1. attempts' = attempts /\ attempts \in Nat /\ UNCHANGED given
    BY <1>13 DEF Raise, TypeOK
  <2>2. ~Ask(s)
    BY <2>1 DEF Ask
  <2> QED BY <1>13, <2>1, <2>2 DEF Raise
<1>14. CASE RetryFlagged(s)
  <2>1. Top(s).on \in Roles
    BY <1>14, TopTyped DEF RetryFlagged, Top
  <2>2. \E st \in Steps : Then(s, <<st>>) /\ st.do # "ask"
    BY <1>14, <2>1, StepsTyped DEF RetryFlagged, Settle, Step
  <2> QED BY <1>0, <1>14, <2>2 DEF RetryFlagged, Replaced, Ask
<1>15. CASE RetryReview(s)
  <2>1. QA \in Roles
    BY PlanAssumption
  <2>2. \E st \in Steps : Then(s, <<st>>) /\ st.do # "ask"
    BY <1>15, <2>1, StepsTyped DEF RetryReview, Step
  <2> QED BY <1>0, <1>15, <2>2 DEF RetryReview, Replaced, Ask
<1> QED BY <1>1, <1>2, <1>3, <1>4, <1>5, <1>6, <1>7, <1>8, <1>9, <1>10, <1>11,
           <1>12, <1>13, <1>14, <1>15 DEF StrandStep

LEMMA StrandsFinite ==
    /\ IsFiniteSet(Strands) /\ Main \in Strands /\ Pool \subseteq Strands /\ Main \notin Pool
    /\ \A S : S \subseteq Strands => IsFiniteSet(S) /\ Cardinality(S) \in Nat
    /\ Cardinality(Pool) \in Nat
    /\ Pool # {} => Cardinality(Pool) >= 1
<1>1. IsFiniteSet({Main}) /\ IsFiniteSet(Pool)
  BY FS_Singleton, PlanAssumption
<1>2. IsFiniteSet(Strands)
  BY <1>1, FS_Union DEF Strands
<1>3. \A S : S \subseteq Strands => IsFiniteSet(S) /\ Cardinality(S) \in Nat
  BY <1>2, FS_Subset, FS_CardinalityType
<1>4. Cardinality(Pool) \in Nat /\ (Pool # {} => Cardinality(Pool) # 0)
  BY <1>1, FS_CardinalityType, FS_EmptySet
<1>5. Main \notin Pool
  BY PlanAssumption DEF Main
<1> QED BY <1>2, <1>3, <1>4, <1>5 DEF Strands

\* While a pool thread runs, or the main strand is not at a join, one side rests.
LEMMA WaitKept ==
    ASSUME TypeOK, PoolWaited, NEW s \in Strands, todo[s] # << >>, UNCHANGED given,
           s = Main => \A t \in Pool : todo[t] = << >>,
           \A t \in Strands \ {s} : todo'[t] = todo[t]
    PROVE  PoolWaited'
<1>1. parallel' = parallel
  BY DEF given
<1>2. CASE s = Main
  <2>1. \A t \in Pool : todo'[t] = << >>
    BY <1>2, StrandsFinite
  <2> QED BY <2>1 DEF PoolWaited
<1>3. CASE s # Main
  <2>1. s \in Pool
    BY <1>3 DEF Strands
  <2>2. todo'[Main] = todo[Main]
    BY <1>3, StrandsFinite
  <2>3. parallel /\ todo[Main] # << >> /\ Head(todo[Main]).do = "join"
    BY <2>1 DEF PoolWaited
  <2> QED BY <1>1, <2>2, <2>3 DEF PoolWaited
<1> QED BY <1>2, <1>3

LEMMA StrandReflects ==
    ASSUME TypeOK, ReflectionInv, NEW s \in Strands, StrandStep(s)
    PROVE  ReflectionInv'
<1>1. /\ status = "running" /\ todo[s] # << >> /\ Head(todo[s]).do # "join"
      /\ Raise(s) \/ Replaced(s)
      /\ IF Ask(s) THEN s \in Asking /\ attempts' = attempts + 1
         ELSE attempts' = attempts
      /\ Ask(s) => \E new \in Seq(Steps) : Then(s, new) /\ NoAsk(new)
      /\ UNCHANGED given
  BY StrandReplaces
<1>2. AttemptsLeft' = AttemptsLeft /\ attempts \in Nat /\ AttemptsLeft \in Nat
  BY <1>1, StrandsFinite, PlanAssumption DEF AttemptsLeft, given, TypeOK
<1>3. s = Main => \A t \in Pool : todo[t] = << >>
  BY <1>1 DEF ReflectionInv, PoolWaited
<1>4. /\ Asking \subseteq Strands /\ Asking' \subseteq Strands
      /\ Cardinality(Asking) \in Nat /\ Cardinality(Asking') \in Nat
      /\ IsFiniteSet(Asking) /\ IsFiniteSet(Asking')
  <2>1. Asking \subseteq Strands /\ Asking' \subseteq Strands
    BY DEF Asking
  <2> QED BY <2>1, StrandsFinite
<1>5. attempts + Cardinality(Asking) <= AttemptsLeft
  BY DEF ReflectionInv
\* The strand asks, or goes on to steps that ask for nothing.
<1>6. ASSUME NEW new \in Seq(Steps), Then(s, new), NoAsk(new)
      PROVE  ReflectionInv'
  <2>1. /\ Awaiting'
        /\ \A t \in Asking' \ {s} : t \in Asking
        /\ s \notin Asking'
    <3>1. \A i \in 2 .. Len(new) : new[i].do # "ask"
      BY <1>6 DEF NoAsk
    <3>2. new # << >> => new[1].do # "ask"
      BY <1>6 DEF NoAsk
    <3> QED BY <1>1, <1>6, <3>1, <3>2, AwaitingKept DEF ReflectionInv
  <2>2. PoolWaited'
    <3>1. \A t \in Strands \ {s} : todo'[t] = todo[t]
      BY <1>1, <1>6, ThenShape
    <3> QED BY <1>1, <1>3, <3>1, WaitKept DEF ReflectionInv
  <2>3. attempts' + Cardinality(Asking') <= AttemptsLeft
    <3>1. CASE Ask(s)
      <4>1. Asking' \subseteq Asking \ {s} /\ s \in Asking
        BY <1>1, <2>1, <3>1
      <4>2. /\ IsFiniteSet(Asking \ {s})
            /\ Cardinality(Asking \ {s}) = Cardinality(Asking) - 1
        BY <1>4, <4>1, FS_RemoveElement
      <4>3. Cardinality(Asking') <= Cardinality(Asking) - 1
        BY <4>1, <4>2, FS_Subset
      <4> QED BY <1>1, <1>2, <1>4, <1>5, <3>1, <4>3
    <3>2. CASE ~Ask(s)
      <4>1. Asking' \subseteq Asking
        BY <2>1
      <4>2. Cardinality(Asking') <= Cardinality(Asking)
        BY <1>4, <4>1, FS_Subset
      <4>3. attempts' = attempts
        BY <1>1, <3>2
      <4> QED BY <1>2, <1>4, <1>5, <4>2, <4>3
    <3> QED BY <3>1, <3>2
  <2> QED BY <1>2, <2>1, <2>2, <2>3 DEF ReflectionInv
\* The strand is about to ask: attempts are left.
<1>7. ASSUME ~Ask(s), Then(s, <<Step("ask", NoName, Top(s).as)>>), ReflectionAllowed,
             Step("ask", NoName, Top(s).as) \in Steps
      PROVE  ReflectionInv'
  <2> DEFINE new == <<Step("ask", NoName, Top(s).as)>>
  <2>0. new \in Seq(Steps) /\ \A i \in 2 .. Len(new) : new[i].do # "ask"
    BY <1>7
  <2>1. Awaiting' /\ \A t \in Asking' \ {s} : t \in Asking
    BY <1>1, <1>7, <2>0, AwaitingKept DEF ReflectionInv
  <2>2. \A t \in Strands \ {s} : todo'[t] = todo[t]
    BY <1>1, <1>7, <2>0, ThenShape
  <2>3. PoolWaited'
    BY <1>1, <1>3, <2>2, WaitKept DEF ReflectionInv
  <2>4. attempts' = attempts /\ attempts + 1 <= MaxReflections /\ MaxReflections \in Nat
    BY <1>1, <1>2, <1>7, PlanAssumption DEF ReflectionAllowed
  <2>5. attempts' + Cardinality(Asking') <= AttemptsLeft
    <3>1. CASE s = Main
      <4>1. Asking' \subseteq {Main}
        BY <1>3, <2>2, <3>1, StrandsFinite DEF Asking, Strands
      <4>2. IsFiniteSet({Main}) /\ Cardinality({Main}) = 1
        BY FS_Singleton
      <4>3. Cardinality(Asking') <= 1
        BY <4>1, <4>2, FS_Subset
      <4> QED BY <1>2, <1>4, <2>4, <4>3, StrandsFinite DEF AttemptsLeft
    <3>2. CASE s # Main
      <4>1. s \in Pool /\ todo'[Main] = todo[Main]
        BY <2>2, <3>2, StrandsFinite DEF Strands
      <4>2. parallel /\ todo[Main] # << >> /\ Head(todo[Main]).do = "join"
        BY <1>1, <4>1 DEF ReflectionInv, PoolWaited
      <4>3. Asking' \subseteq Pool
        BY <4>1, <4>2 DEF Asking, Strands
      <4>4. Cardinality(Asking') <= Cardinality(Pool)
        BY <4>3, FS_Subset, PlanAssumption
      <4>5. AttemptsLeft = MaxReflections + (Cardinality(Pool) - 1)
        BY <4>1, <4>2 DEF AttemptsLeft
      <4> QED BY <1>2, <1>4, <2>4, <4>4, <4>5, StrandsFinite
    <3> QED BY <3>1, <3>2
  <2> QED BY <1>2, <2>1, <2>3, <2>5 DEF ReflectionInv
\* The strand ends.
<1>8. ASSUME Raise(s)
      PROVE  ReflectionInv'
  <2>1. /\ todo'[s] = << >> /\ \A t \in Strands \ {s} : todo'[t] = todo[t]
        /\ attempts' = attempts
    BY <1>8 DEF Raise, TypeOK
  <2>2. PoolWaited'
    BY <1>1, <1>3, <2>1, WaitKept DEF ReflectionInv
  <2>3. Awaiting'
    BY <2>1 DEF ReflectionInv, Awaiting
  <2>4. Asking' \subseteq Asking
    BY <2>1 DEF Asking
  <2>5. Cardinality(Asking') <= Cardinality(Asking)
    BY <1>4, <2>4, FS_Subset
  <2> QED BY <1>2, <1>4, <1>5, <2>1, <2>2, <2>3, <2>5 DEF ReflectionInv
<1> QED BY <1>1, <1>6, <1>7, <1>8 DEF Replaced

LEMMA MainReflects ==
    ASSUME TypeOK, ReflectionInv, MainStep
    PROVE  ReflectionInv'
<1>1. UNCHANGED <<given, attempts>> /\ attempts \in Nat /\ AttemptsLeft' = AttemptsLeft
  BY DEF MainStep, Start, Join, Finish, EvaluateAgain, Compose, AttemptsLeft, given, TypeOK
<1>2. /\ Asking \subseteq Strands /\ IsFiniteSet(Asking) /\ Cardinality(Asking) \in Nat
      /\ attempts + Cardinality(Asking) <= AttemptsLeft
      /\ AttemptsLeft \in Nat
  <2>1. Asking \subseteq Strands
    BY DEF Asking
  <2>2. AttemptsLeft \in Nat
    BY StrandsFinite, PlanAssumption DEF AttemptsLeft
  <2> QED BY <2>1, <2>2, StrandsFinite DEF ReflectionInv
<1>3. ASSUME NEW p \in Plans, todo' = Round(p)
      PROVE  ReflectionInv'
  <2>1. \A s \in Strands : NoAsk(todo'[s]) /\ todo'[s] \in Seq(Steps)
    <3>1. Round(p) \in [Strands -> Seq(Steps)]
      BY RoundTyped
    <3> QED BY <1>3, <3>1, NoAskRound
  <2>2. Awaiting'
    BY <2>1 DEF Awaiting, NoAsk
  <2>3. Asking' = {}
    BY <2>1 DEF Asking, NoAsk
  <2>4. PoolWaited'
    BY <1>1, <1>3, RoundWaited
  <2> QED BY <1>1, <1>2, <2>2, <2>3, <2>4, FS_EmptySet DEF ReflectionInv
<1>4. ASSUME todo[Main] # << >>, \A t \in Pool : todo[t] = << >>,
             \/ Then(Main, << >>) \/ todo' = [todo EXCEPT ![Main] = << >>]
      PROVE  ReflectionInv'
  <2>1. \A t \in Strands \ {Main} : todo'[t] = todo[t]
    BY <1>4 DEF Then, TypeOK
  <2>2. PoolWaited'
    BY <1>1, <1>4, <2>1, WaitKept, StrandsFinite DEF ReflectionInv
  <2>3. Awaiting' /\ Asking' \subseteq Asking
    <3>1. CASE Then(Main, << >>)
      <4>1. /\ << >> \in Seq(Steps) /\ \A i \in 2 .. Len(<< >>) : << >>[i].do # "ask"
        OBVIOUS
      <4>2. /\ Awaiting' /\ \A t \in Asking' \ {Main} : t \in Asking
            /\ Main \notin Asking'
        BY <1>4, <3>1, <4>1, AwaitingKept, StrandsFinite DEF ReflectionInv
      <4> QED BY <4>2
    <3>2. CASE todo' = [todo EXCEPT ![Main] = << >>]
      <4>1. todo'[Main] = << >>
        BY <3>2, StrandsFinite DEF TypeOK
      <4> QED BY <2>1, <4>1 DEF Asking, Awaiting, ReflectionInv
    <3> QED BY <1>4, <3>1, <3>2
  <2>4. Cardinality(Asking') <= Cardinality(Asking) /\ Cardinality(Asking') \in Nat
    <3>1. Asking' \subseteq Strands
      BY DEF Asking
    <3> QED BY <1>2, <2>3, <3>1, FS_Subset, StrandsFinite
  <2> QED BY <1>1, <1>2, <2>2, <2>3, <2>4 DEF ReflectionInv
<1>5. ASSUME UNCHANGED todo
      PROVE  ReflectionInv'
  BY <1>1, <1>2, <1>5 DEF ReflectionInv, PoolWaited, Awaiting, Asking, given
<1>6. CASE Start
  <2>1. plan \in Plans
    BY DEF TypeOK
  <2> QED BY <1>3, <1>5, <1>6, <2>1 DEF Start
<1>7. CASE Join
  BY <1>4, <1>7 DEF Join, At, PoolDone
<1>8. CASE Finish
  <2>1. todo[Main] # << >> /\ Head(todo[Main]).do = "evaluate" /\ Then(Main, << >>)
    BY <1>8 DEF Finish, At
  <2>2. \A t \in Pool : todo[t] = << >>
    BY <2>1 DEF ReflectionInv, PoolWaited
  <2> QED BY <1>4, <2>1, <2>2
<1>9. CASE EvaluateAgain
  BY <1>3, <1>9 DEF EvaluateAgain
<1>10. CASE Compose
  BY <1>5, <1>10 DEF Compose
<1> QED BY <1>6, <1>7, <1>8, <1>9, <1>10 DEF MainStep

LEMMA ReflectionKept == Spec => []ReflectionInv
<1>1. Init => ReflectionInv
  <2> SUFFICES ASSUME Init PROVE ReflectionInv
    OBVIOUS
  <2>1. \A s \in Strands : todo[s] = << >>
    BY DEF Init
  <2>2. Asking = {} /\ Awaiting /\ PoolWaited
    BY <2>1, StrandsFinite DEF Asking, Awaiting, PoolWaited
  <2>3. attempts = 0 /\ AttemptsLeft \in Nat
    BY StrandsFinite, PlanAssumption DEF Init, AttemptsLeft
  <2> QED BY <2>2, <2>3, FS_EmptySet DEF ReflectionInv
<1>2. TypeOK /\ ReflectionInv /\ [Next]_vars => ReflectionInv'
  <2>1. ReflectionInv /\ UNCHANGED vars => ReflectionInv'
    BY DEF vars, given, ReflectionInv, PoolWaited, Awaiting, Asking, AttemptsLeft
  <2> QED BY <2>1, StrandReflects, MainReflects DEF Next
<1> QED BY <1>1, <1>2, TypeCorrect, PTL DEF Spec

\* The reflection agent is called at most REFLECTION_MAX_ATTEMPTS times plus
\* once for each further pool thread that passed the check before the first
\* calls were counted (_run_task's nested reflection, the two in the loop).
THEOREM ReflectionBound == Spec => []ReflectionsBounded
<1>1. ReflectionInv => ReflectionsBounded
  BY DEF ReflectionInv, ReflectionsBounded, AttemptsLeft
<1> QED BY <1>1, ReflectionKept, PTL

-----------------------------------------------------------------------------
\* The steps that end with an answer under role r.
Owes(step, r) ==
    \/ step.do = "run" /\ Route[step.on] = r
    \/ step.do \in {"second", "retry", "flag", "record"} /\ step.on = r
    \/ step.do \in {"qa", "review"} /\ r = QA

Pending(s, r) == \E i \in 1 .. Len(todo[s]) : Owes(todo[s][i], r)

Planned == {Route[n] : n \in PlanNames}

\* A planned role has its answer, or a strand still owes it, or a thread of
\* the pool raised and the main strand is about to find out.
AnswerInv ==
    /\ status = "idle" => failed = {}
    /\ status = "running" /\ failed # {} =>
            todo[Main] # << >> /\ Head(todo[Main]).do = "join"
    /\ \A i \in 1 .. Len(todo[Main]) :
            todo[Main][i].do = "evaluate" => i = Len(todo[Main])
    /\ status = "running" => \A r \in Planned :
            answers[r] # {} \/ failed # {} \/ \E s \in Strands : Pending(s, r)
    /\ status \in {"returned", "composed"} => \A r \in Planned : answers[r] # {}

\* Whatever a step owed is delivered or still owed after it.
Delivers(s, new) ==
    /\ Then(s, new)
    /\ \A i \in 1 .. Len(new) : new[i].do # "evaluate"
    /\ \A r \in Roles : Owes(Top(s), r) =>
            answers'[r] # {} \/ \E i \in 1 .. Len(new) : Owes(new[i], r)

AnswersKept == \A r \in Roles : answers[r] # {} => answers'[r] # {}

LEMMA PlannedTyped == TypeOK => Planned \subseteq Roles
<1> SUFFICES ASSUME TypeOK PROVE Planned \subseteq Roles
  OBVIOUS
<1>1. plan.work \in Seq(Names \cup {NoName}) /\ plan.qa \in Seq(Names \cup {NoName})
  BY PlanTyped DEF TypeOK
<1>2. PlanNames \subseteq Names \cup {NoName}
  BY <1>1 DEF PlanNames
<1> QED BY <1>2, PlanAssumption DEF Planned

\* What a thread was to do for a role it still owes, unless it delivered.
LEMMA PendingKept ==
    ASSUME TypeOK, NEW s \in Strands, todo[s] # << >>,
           NEW new \in Seq(Steps), Delivers(s, new),
           NEW t \in Strands, NEW r \in Roles, Pending(t, r)
    PROVE  answers'[r] # {} \/ Pending(t, r)'
<1>1. /\ \A u \in Strands \ {s} : todo'[u] = todo[u]
      /\ todo'[s] \in Seq(Steps)
      /\ Len(todo'[s]) = Len(new) + Len(todo[s]) - 1
      /\ \A i \in 1 .. Len(new) : todo'[s][i] = new[i]
      /\ \A i \in 1 .. Len(todo[s]) - 1 : todo'[s][Len(new) + i] = todo[s][i + 1]
  BY ThenShape DEF Delivers
<1>2. Len(new) \in Nat /\ Len(todo[s]) \in Nat \ {0} /\ Top(s) = todo[s][1]
  BY DEF TypeOK, Top
<1>3. CASE t # s
  BY <1>1, <1>3 DEF Pending, Owes
<1>4. CASE t = s
  <2>1. PICK i \in 1 .. Len(todo[s]) : Owes(todo[s][i], r)
    BY <1>4 DEF Pending
  <2>2. CASE i = 1
    <3>1. answers'[r] # {} \/ \E j \in 1 .. Len(new) : Owes(new[j], r)
      BY <1>2, <2>1, <2>2 DEF Delivers
    <3>2. ASSUME NEW j \in 1 .. Len(new), Owes(new[j], r)
          PROVE  Pending(s, r)'
      <4>1. j \in 1 .. Len(todo'[s]) /\ todo'[s][j] = new[j]
        BY <1>1, <1>2
      <4> QED BY <3>2, <4>1 DEF Pending, Owes
    <3> QED BY <1>4, <3>1, <3>2
  <2>3. CASE i # 1
    <3>1. PICK k \in 1 .. Len(todo[s]) - 1 : i = k + 1
      <4>1. i - 1 \in 1 .. Len(todo[s]) - 1 /\ i = (i - 1) + 1
        BY <1>2, <2>3
      <4> QED BY <4>1
    <3>2. todo'[s][Len(new) + k] = todo[s][i] /\ Len(new) + k \in 1 .. Len(todo'[s])
      <4>1. todo'[s][Len(new) + k] = todo[s][k + 1]
        BY <1>1
      <4>2. Len(new) + k \in 1 .. Len(todo'[s])
        BY <1>1, <1>2
      <4> QED BY <3>1, <4>1, <4>2
    <3>3. Pending(s, r)'
      BY <2>1, <3>2 DEF Pending, Owes
    <3> QED BY <1>4, <3>3
  <2> QED BY <2>2, <2>3
<1> QED BY <1>3, <1>4

\* The evaluation stays the last step of a round.
LEMMA EvaluateKept ==
    ASSUME TypeOK, NEW s \in Strands, todo[s] # << >>, NEW new \in Seq(Steps), Then(s, new),
           \A i \in 1 .. Len(new) : new[i].do # "evaluate",
           \A i \in 1 .. Len(todo[Main]) :
              todo[Main][i].do = "evaluate" => i = Len(todo[Main])
    PROVE  \A i \in 1 .. Len(todo'[Main]) :
              todo'[Main][i].do = "evaluate" => i = Len(todo'[Main])
<1>1. /\ \A u \in Strands \ {s} : todo'[u] = todo[u]
      /\ todo'[s] \in Seq(Steps)
      /\ Len(todo'[s]) = Len(new) + Len(todo[s]) - 1
      /\ \A i \in 1 .. Len(new) : todo'[s][i] = new[i]
      /\ \A i \in 1 .. Len(todo[s]) - 1 : todo'[s][Len(new) + i] = todo[s][i + 1]
  BY ThenShape
<1>2. Len(new) \in Nat /\ Len(todo[s]) \in Nat \ {0} /\ Main \in Strands
  BY StrandsFinite DEF TypeOK
<1>3. CASE s # Main
  BY <1>1, <1>2, <1>3
<1>4. CASE s = Main
  <2> SUFFICES ASSUME NEW i \in 1 .. Len(todo'[s]), todo'[s][i].do = "evaluate"
               PROVE  i = Len(todo'[s])
    BY <1>4
  <2>1. i > Len(new)
    BY <1>1, <1>2
  <2>2. PICK k \in 1 .. Len(todo[s]) - 1 : i = Len(new) + k
    <3>1. i - Len(new) \in 1 .. Len(todo[s]) - 1 /\ i = Len(new) + (i - Len(new))
      BY <1>1, <1>2, <2>1
    <3> QED BY <3>1
  <2>3. todo'[s][i] = todo[s][k + 1] /\ k + 1 \in 1 .. Len(todo[s])
    BY <1>1, <1>2, <2>2
  <2>4. k + 1 = Len(todo[s])
    BY <1>4, <2>3
  <2>5. Len(todo'[s]) = Len(new) + Len(todo[s]) - 1
    BY <1>1
  <2> QED BY <1>2, <2>2, <2>4, <2>5
<1> QED BY <1>3, <1>4

\* Every step of a thread delivers what it was to do, hands it on, or raises.
LEMMA StrandDelivers ==
    ASSUME TypeOK, NEW s \in Strands, StrandStep(s)
    PROVE  /\ AnswersKept
           /\ \/ Raise(s)
              \/ /\ UNCHANGED <<status, failed>>
                 /\ \E new \in Seq(Steps) : Delivers(s, new)
<1> USE DEF At, AnswersKept
<1>0. << >> \in Seq(Steps) /\ Len(<< >>) = 0
      /\ \A st \in Steps : <<st>> \in Seq(Steps) /\ Len(<<st>>) = 1 /\ <<st>>[1] = st
  OBVIOUS
\* One step owes what the step it replaces owed.
<1>a. ASSUME NEW st \in Steps, Then(s, <<st>>), st.do # "evaluate",
             \A r \in Roles : Owes(Top(s), r) => Owes(st, r)
      PROVE  \E new \in Seq(Steps) : Delivers(s, new)
  <2> DEFINE new == <<st>>
  <2>1. new \in Seq(Steps) /\ Len(new) = 1 /\ new[1] = st
    BY <1>0
  <2>2. Then(s, new)
    BY <1>a
  <2> HIDE DEF new
  <2>3. /\ \A i \in 1 .. Len(new) : new[i].do # "evaluate"
        /\ \A r \in Roles : Owes(Top(s), r) => \E i \in 1 .. Len(new) : Owes(new[i], r)
    BY <1>a, <2>1
  <2>4. Delivers(s, new)
    BY <2>2, <2>3 DEF Delivers
  <2> QED BY <2>1, <2>4
\* Nothing was owed, or it is delivered.
<1>b. ASSUME Then(s, << >>), \A r \in Roles : Owes(Top(s), r) => answers'[r] # {}
      PROVE  \E new \in Seq(Steps) : Delivers(s, new)
  <2>1. \A i \in 1 .. Len(<< >>) : << >>[i].do # "evaluate"
    OBVIOUS
  <2>2. Delivers(s, << >>)
    BY <1>b, <2>1 DEF Delivers
  <2> QED BY <1>0, <2>2
<1>1. CASE RunUnanswered(s)
  <2>1. /\ Top(s).do = "run" /\ Route[Top(s).on] \in Roles
        /\ answers' = [answers EXCEPT ![Route[Top(s).on]] = @ \cup {"unanswered"}]
    BY <1>1, TopTyped DEF RunUnanswered, Top
  <2>2. answers'[Route[Top(s).on]] # {} /\ AnswersKept
    BY <2>1 DEF TypeOK
  <2> QED BY <1>1, <1>b, <2>1, <2>2 DEF RunUnanswered, Owes
<1>2. CASE RunEmpty(s)
  <2>1. PICK k \in EmptyOutput :
            /\ Top(s).do = "run" /\ Route[Top(s).on] \in Roles
            /\ answers' = [answers EXCEPT ![Route[Top(s).on]] = {k}]
    BY <1>2, TopTyped DEF RunEmpty, Top
  <2>2. answers'[Route[Top(s).on]] # {} /\ AnswersKept
    BY <2>1 DEF TypeOK
  <2> QED BY <1>2, <1>b, <2>1, <2>2 DEF RunEmpty, Owes
<1>3. CASE RunJudged(s)
  <2>1. Top(s).do = "run" /\ Route[Top(s).on] \in Roles
    BY <1>3, TopTyped DEF RunJudged, Top
  <2>2. \E st \in Steps : /\ Then(s, <<st>>) /\ st.do # "evaluate"
                          /\ Owes(st, Route[Top(s).on])
    BY <1>3, <2>1, StepsTyped DEF RunJudged, Settle, Step, Owes
  <2> QED BY <1>3, <1>a, <2>1, <2>2 DEF RunJudged, Owes
<1>4. CASE Second(s)
  <2>1. Top(s).do = "second" /\ Top(s).on \in Roles
    BY <1>4, TopTyped DEF Second, Top
  <2>2. \E st \in Steps : Then(s, <<st>>) /\ st.do # "evaluate" /\ Owes(st, Top(s).on)
    BY <1>4, <2>1, StepsTyped DEF Second, Settle, Step, Owes
  <2> QED BY <1>4, <1>a, <2>1, <2>2 DEF Second, Owes
<1>5. CASE Flag(s)
  <2>1. Top(s).do = "flag" /\ Top(s).on \in Roles
    BY <1>5, TopTyped DEF Flag, Top
  <2> DEFINE new == <<Step("reflect", NoName, "nested"), Settle(Top(s).on, "fabricated")>>
  <2>2. new \in Seq(Steps) /\ Then(s, new)
    BY <1>5, <2>1, StepsTyped DEF Flag
  <2>3. Len(new) = 2 /\ Owes(new[2], Top(s).on) /\ new[1].do = "reflect"
        /\ new[2].do # "evaluate"
    BY DEF Step, Settle, Owes
  <2>4. /\ \A i \in 1 .. Len(new) : new[i].do # "evaluate"
        /\ \A r \in Roles : Owes(Top(s), r) => \E i \in 1 .. Len(new) : Owes(new[i], r)
    BY <2>1, <2>3 DEF Owes
  <2>5. Delivers(s, new)
    BY <2>2, <2>4 DEF Delivers
  <2> QED BY <1>5, <2>2, <2>5 DEF Flag
<1>6. CASE CheckReview(s)
  <2>1. Top(s).do = "qa" /\ QA \in Roles
    BY <1>6, PlanAssumption DEF CheckReview, Top
  <2>2. \E st \in Steps : Then(s, <<st>>) /\ st.do # "evaluate" /\ Owes(st, QA)
    BY <1>6, <2>1, StepsTyped DEF CheckReview, Step, Owes
  <2> QED BY <1>6, <1>a, <2>1, <2>2 DEF CheckReview, Owes
<1>7. CASE Record(s)
  <2>1. /\ Top(s).do = "record" /\ Top(s).on \in Roles
        /\ answers' = [answers EXCEPT ![Top(s).on] = @ \cup {Top(s).as}]
    BY <1>7, TopTyped DEF Record, Keep, Top
  <2>2. answers'[Top(s).on] # {} /\ AnswersKept
    BY <2>1 DEF TypeOK
  <2> QED BY <1>7, <1>b, <2>1, <2>2 DEF Record, Owes
<1>8. CASE Reflect(s)
  <2>1. Top(s).do = "reflect" /\ Top(s).as \in {"first", "review", "nested"}
    BY <1>8, TopTyped DEF Reflect, Top
  <2>2. Step("ask", NoName, Top(s).as) \in Steps /\ Step("ask", NoName, Top(s).as).do = "ask"
    BY <2>1, StepsTyped DEF Step
  <2>3. \A r \in Roles : ~Owes(Top(s), r)
    BY <2>1 DEF Owes
  <2> QED BY <1>8, <1>a, <1>b, <2>2, <2>3 DEF Reflect
<1>9. CASE Ask(s)
  <2>1. PICK names \in FollowUps, d \in {"again", "follow"} : Then(s, Each(d, names))
    BY <1>9 DEF Ask
  <2>2. Each(d, names) \in Seq(Steps)
    BY EachTyped, PlanAssumption
  <2>3. \A i \in 1 .. Len(Each(d, names)) : Each(d, names)[i].do # "evaluate"
    <3>1. names \in Seq(Names \cup {NoName})
      BY PlanAssumption
    <3> QED BY <3>1 DEF Each, Step
  <2>4. Top(s).do = "ask"
    BY <1>9 DEF Ask, Top
  <2>5. Delivers(s, Each(d, names))
    BY <2>1, <2>3, <2>4 DEF Delivers, Owes
  <2> QED BY <1>9, <2>2, <2>5 DEF Ask
<1>10. CASE Follow(s)
  <2>1. Top(s).do \in {"follow", "again"} /\ Top(s).on \in Names \cup {NoName}
    BY <1>10, TopTyped DEF Follow, Top
  <2> DEFINE new == <<Step("run", Top(s).on, "any"), Step("bump", Top(s).on, "any")>>
  <2>2. new \in Seq(Steps)
    BY <2>1, StepsTyped
  <2>3. \A i \in 1 .. Len(new) : new[i].do # "evaluate"
    BY DEF Step
  <2>4. \A r \in Roles : ~Owes(Top(s), r)
    BY <2>1 DEF Owes
  <2>5. CASE Then(s, << >>)
    BY <1>10, <1>b, <2>4, <2>5 DEF Follow
  <2>6. CASE Then(s, new)
    <3>1. Delivers(s, new)
      BY <2>3, <2>4, <2>6 DEF Delivers
    <3> QED BY <1>10, <2>2, <3>1 DEF Follow
  <2> QED BY <1>10, <2>5, <2>6 DEF Follow
<1>11. CASE Bump(s)
  <2>1. \A r \in Roles : ~Owes(Top(s), r)
    BY <1>11 DEF Bump, Top, Owes
  <2> QED BY <1>11, <1>b, <2>1 DEF Bump
<1>12. CASE NoteGaps(s)
  <2>1. \A r \in Roles : ~Owes(Top(s), r)
    BY <1>12 DEF NoteGaps, Top, Owes
  <2> QED BY <1>12, <1>b, <2>1 DEF NoteGaps
<1>13. CASE Raise(s)
  BY <1>13 DEF Raise
<1>14. CASE RetryFlagged(s)
  <2>1. Top(s).do = "retry" /\ Top(s).on \in Roles
    BY <1>14, TopTyped DEF RetryFlagged, Top
  <2>2. \E st \in Steps : Then(s, <<st>>) /\ st.do # "evaluate" /\ Owes(st, Top(s).on)
    BY <1>14, <2>1, StepsTyped DEF RetryFlagged, Settle, Step, Owes
  <2> QED BY <1>14, <1>a, <2>1, <2>2 DEF RetryFlagged, Owes
<1>15. CASE RetryReview(s)
  <2>1. Top(s).do = "review" /\ Top(s).on \in Roles /\ QA \in Roles
    BY <1>15, TopTyped, PlanAssumption DEF RetryReview, Top
  <2>2. \E st \in Steps : Then(s, <<st>>) /\ st.do # "evaluate" /\ Owes(st, QA)
    BY <1>15, <2>1, StepsTyped DEF RetryReview, Step, Owes
  <2> QED BY <1>15, <1>a, <2>1, <2>2 DEF RetryReview, Owes
<1> QED BY <1>1, <1>2, <1>3, <1>4, <1>5, <1>6, <1>7, <1>8, <1>9, <1>10, <1>11,
           <1>12, <1>13, <1>14, <1>15 DEF StrandStep

LEMMA StrandAnswers ==
    ASSUME TypeOK, PoolWaited, AnswerInv, NEW s \in Strands, StrandStep(s)
    PROVE  AnswerInv'
<1>1. /\ status = "running" /\ todo[s] # << >> /\ Head(todo[s]).do # "join"
      /\ UNCHANGED given
  BY StrandReplaces
<1>2. Planned' = Planned /\ Planned \subseteq Roles
  BY <1>1, PlannedTyped DEF Planned, PlanNames, given
<1>3. AnswersKept
  BY StrandDelivers
<1>4. ASSUME UNCHANGED <<status, failed>>, NEW new \in Seq(Steps), Delivers(s, new)
      PROVE  AnswerInv'
  <2>1. Then(s, new) /\ \A i \in 1 .. Len(new) : new[i].do # "evaluate"
    BY <1>4 DEF Delivers
  <2>2. \A i \in 1 .. Len(todo'[Main]) :
            todo'[Main][i].do = "evaluate" => i = Len(todo'[Main])
    BY <1>1, <2>1, EvaluateKept DEF AnswerInv
  <2>3. failed # {} => todo'[Main] # << >> /\ Head(todo'[Main]).do = "join"
    <3>1. SUFFICES ASSUME failed # {}
                   PROVE  todo'[Main] # << >> /\ Head(todo'[Main]).do = "join"
      OBVIOUS
    <3>2. todo[Main] # << >> /\ Head(todo[Main]).do = "join"
      BY <1>1, <3>1 DEF AnswerInv
    <3>3. todo'[Main] = todo[Main]
      BY <1>1, <2>1, <3>2, ThenShape, StrandsFinite
    <3> QED BY <3>2, <3>3
  <2>4. ASSUME NEW r \in Planned
        PROVE  answers'[r] # {} \/ failed' # {} \/ \E t \in Strands : Pending(t, r)'
    <3>1. r \in Roles
      BY <1>2
    <3>2. CASE answers[r] # {} \/ failed # {}
      BY <1>3, <1>4, <3>1, <3>2 DEF AnswersKept
    <3>3. ASSUME NEW t \in Strands, Pending(t, r)
          PROVE  answers'[r] # {} \/ Pending(t, r)'
      BY <1>1, <1>4, <3>1, <3>3, PendingKept
    <3> QED BY <1>1, <3>2, <3>3 DEF AnswerInv
  <2> QED BY <1>1, <1>2, <1>4, <2>2, <2>3, <2>4 DEF AnswerInv
<1>5. ASSUME Raise(s)
      PROVE  AnswerInv'
  <2>1. /\ todo'[s] = << >> /\ \A t \in Strands \ {s} : todo'[t] = todo[t]
        /\ failed' = failed \cup {s}
        /\ status' = IF s = Main THEN "raised" ELSE status
    BY <1>5 DEF Raise, TypeOK
  <2>2. CASE s = Main
    BY <2>1, <2>2 DEF AnswerInv
  <2>3. CASE s # Main
    <3>1. todo'[Main] = todo[Main] /\ s \in Pool
      BY <2>1, <2>3, StrandsFinite DEF Strands
    <3>2. todo[Main] # << >> /\ Head(todo[Main]).do = "join"
      BY <1>1, <3>1 DEF PoolWaited
    <3> QED BY <1>1, <2>1, <2>3, <3>1, <3>2 DEF AnswerInv
  <2> QED BY <2>2, <2>3
<1> QED BY <1>4, <1>5, StrandDelivers

Has(steps, st) == \E i \in 1 .. Len(steps) : steps[i] = st

\* What is in one of two sequences is in the two put together.
LEMMA HasConcat ==
    ASSUME NEW a \in Seq(Steps), NEW b \in Seq(Steps), NEW st, Has(a, st) \/ Has(b, st)
    PROVE  Has(a \o b, st)
<1>1. \A i \in 1 .. Len(a) : i \in 1 .. Len(a \o b) /\ (a \o b)[i] = a[i]
  OBVIOUS
<1>2. \A i \in 1 .. Len(b) :
        Len(a) + i \in 1 .. Len(a \o b) /\ (a \o b)[Len(a) + i] = b[i]
  OBVIOUS
<1>3. CASE Has(a, st)
  BY <1>1, <1>3 DEF Has
<1>4. CASE Has(b, st)
  <2>1. PICK i \in 1 .. Len(b) : b[i] = st
    BY <1>4 DEF Has
  <2>2. Len(a) + i \in 1 .. Len(a \o b) /\ (a \o b)[Len(a) + i] = st
    BY <1>2, <2>1
  <2> QED BY <2>2 DEF Has
<1> QED BY <1>3, <1>4

\* A round has a step for every task of its plan, and ends with the evaluation.
LEMMA RoundPlanned ==
    ASSUME NEW p \in Plans, NEW n \in Names,
           \/ \E i \in 1 .. Len(p.work) : n = p.work[i]
           \/ \E i \in 1 .. Len(p.qa) : n = p.qa[i]
    PROVE  \E s \in Strands : Has(Round(p)[s], Step("run", n, "any"))
<1> DEFINE first == <<Step("reflect", NoName, "first"), Step("gaps", NoName, "any")>>
           last  == <<Step("reflect", NoName, "review"), Step("gaps", NoName, "any"),
                      Step("evaluate", NoName, "any")>>
           front == IF parallel THEN <<Step("join", NoName, "any")>> ELSE Each("run", p.work)
<1>1. /\ first \in Seq(Steps) /\ last \in Seq(Steps) /\ front \in Seq(Steps)
      /\ Each("run", p.qa) \in Seq(Steps) /\ Review(p) \in Seq(Steps)
  BY StepsTyped, EachTyped, PlanTyped, ReviewTyped
<1>2. /\ Review(p) = first \o Each("run", p.qa) \o last
      /\ Round(p)[Main] = front \o Review(p)
  BY StrandsFinite DEF Review, Round
<1> HIDE DEF first, last, front
<1>3. CASE \E i \in 1 .. Len(p.qa) : n = p.qa[i]
  <2>1. PICK i \in 1 .. Len(p.qa) : n = p.qa[i]
    BY <1>3
  <2> DEFINE tasks == Each("run", p.qa)
  <2>2. Has(tasks, Step("run", n, "any"))
    BY <2>1, PlanTyped DEF Each, Has
  <2>3. Review(p) = (first \o tasks) \o last /\ tasks \in Seq(Steps)
    BY <1>1, <1>2
  <2> HIDE DEF tasks
  <2>4. first \o tasks \in Seq(Steps) /\ Has(first \o tasks, Step("run", n, "any"))
    BY <1>1, <2>2, <2>3, HasConcat
  <2>5. Has(Review(p), Step("run", n, "any"))
    BY <1>1, <2>3, <2>4, HasConcat
  <2>6. Has(front \o Review(p), Step("run", n, "any"))
    BY <1>1, <2>5, HasConcat
  <2> QED BY <1>2, <2>6, StrandsFinite
<1>4. CASE ~parallel /\ \E i \in 1 .. Len(p.work) : n = p.work[i]
  <2>1. PICK i \in 1 .. Len(p.work) : n = p.work[i]
    BY <1>4
  <2>2. Has(front, Step("run", n, "any"))
    BY <1>4, <2>1, PlanTyped DEF Each, front, Has
  <2>3. Has(front \o Review(p), Step("run", n, "any"))
    BY <1>1, <2>2, HasConcat
  <2> QED BY <1>2, <2>3, StrandsFinite
<1>5. CASE parallel /\ \E i \in 1 .. Len(p.work) : n = p.work[i]
  <2>1. PICK i \in 1 .. Len(p.work) : n = p.work[i]
    BY <1>5
  <2>2. i \in Strands /\ i # Main /\ i <= Len(p.work)
    BY <2>1, PlanAssumption, StrandsFinite, PlanTyped
  <2>3. Round(p)[i] = <<Step("run", n, "any")>>
    BY <1>5, <2>1, <2>2 DEF Round
  <2>4. Has(Round(p)[i], Step("run", n, "any"))
    BY <2>3 DEF Has
  <2> QED BY <2>2, <2>4
<1> QED BY <1>3, <1>4, <1>5

NoEvaluate(steps) == \A i \in 1 .. Len(steps) : steps[i].do # "evaluate"

LEMMA NoEvaluateConcat ==
    ASSUME NEW a \in Seq(Steps), NEW b \in Seq(Steps), NoEvaluate(a), NoEvaluate(b)
    PROVE  NoEvaluate(a \o b)
  BY DEF NoEvaluate

EvaluateLast(steps) ==
    \A i \in 1 .. Len(steps) : steps[i].do = "evaluate" => i = Len(steps)

LEMMA EvaluateLastConcat ==
    ASSUME NEW a \in Seq(Steps), NEW b \in Seq(Steps), NoEvaluate(a), EvaluateLast(b)
    PROVE  EvaluateLast(a \o b)
<1>1. /\ Len(a) \in Nat /\ Len(b) \in Nat /\ Len(a \o b) = Len(a) + Len(b)
      /\ \A i \in 1 .. Len(a) : (a \o b)[i] = a[i]
      /\ \A i \in 1 .. Len(b) : (a \o b)[Len(a) + i] = b[i]
  OBVIOUS
<1> SUFFICES ASSUME NEW i \in 1 .. Len(a \o b), (a \o b)[i].do = "evaluate"
             PROVE  i = Len(a \o b)
  BY DEF EvaluateLast
<1>2. i > Len(a)
  BY <1>1 DEF NoEvaluate
<1>3. PICK k \in 1 .. Len(b) : i = Len(a) + k
  <2>1. i - Len(a) \in 1 .. Len(b) /\ i = Len(a) + (i - Len(a))
    BY <1>1, <1>2
  <2> QED BY <2>1
<1>4. k = Len(b)
  BY <1>1, <1>3 DEF EvaluateLast
<1> QED BY <1>1, <1>3, <1>4

\* In a round only the last step of the main strand evaluates.
LEMMA RoundEvaluates ==
    ASSUME NEW p \in Plans
    PROVE  EvaluateLast(Round(p)[Main])
<1> DEFINE first == <<Step("reflect", NoName, "first"), Step("gaps", NoName, "any")>>
           last  == <<Step("reflect", NoName, "review"), Step("gaps", NoName, "any"),
                      Step("evaluate", NoName, "any")>>
           tasks == Each("run", p.qa)
           front == IF parallel THEN <<Step("join", NoName, "any")>> ELSE Each("run", p.work)
<1>1. /\ first \in Seq(Steps) /\ last \in Seq(Steps)
      /\ front \in Seq(Steps) /\ tasks \in Seq(Steps) /\ Review(p) \in Seq(Steps)
  BY StepsTyped, EachTyped, PlanTyped, ReviewTyped
<1>2. NoEvaluate(first) /\ NoEvaluate(tasks) /\ NoEvaluate(front)
  <2>1. NoEvaluate(first) /\ NoEvaluate(<<Step("join", NoName, "any")>>)
    BY DEF NoEvaluate, Step
  <2>2. NoEvaluate(tasks) /\ NoEvaluate(Each("run", p.work))
    BY PlanTyped DEF NoEvaluate, Each, Step
  <2> QED BY <2>1, <2>2
<1>3. EvaluateLast(last)
  BY DEF EvaluateLast, Step
<1>4. Review(p) = (first \o tasks) \o last
  BY DEF Review
<1>5. Round(p)[Main] = front \o Review(p)
  BY StrandsFinite DEF Round
<1> HIDE DEF first, last, tasks, front
<1>6. first \o tasks \in Seq(Steps)
  BY <1>1
<1>7. NoEvaluate(first \o tasks)
  BY <1>1, <1>2, NoEvaluateConcat
<1>8. EvaluateLast(Review(p))
  BY <1>1, <1>3, <1>4, <1>6, <1>7, EvaluateLastConcat
<1> QED BY <1>1, <1>2, <1>5, <1>8, EvaluateLastConcat

\* A new round owes every planned role its answer.
LEMMA RoundOwes ==
    ASSUME TypeOK, todo' = Round(plan), UNCHANGED plan, NEW r \in Planned
    PROVE  \E s \in Strands : Pending(s, r)'
<1>1. plan \in Plans
  BY DEF TypeOK
<1>2. PICK n \in PlanNames : r = Route[n]
  BY DEF Planned
<1>3. /\ n \in Names
      /\ \/ \E i \in 1 .. Len(plan.work) : n = plan.work[i]
         \/ \E i \in 1 .. Len(plan.qa) : n = plan.qa[i]
  <2>1. plan.work \in Seq(Names \ {QA}) /\ plan.qa \in Seq({QA}) /\ QA \in Names
    BY <1>1, PlanAssumption
  <2> QED BY <1>2, <2>1 DEF PlanNames
<1>4. PICK s \in Strands : Has(Round(plan)[s], Step("run", n, "any"))
  BY <1>1, <1>3, RoundPlanned
<1>5. PICK i \in 1 .. Len(todo'[s]) : todo'[s][i] = Step("run", n, "any")
  BY <1>4 DEF Has
<1>6. Owes(Step("run", n, "any"), r)
  BY <1>2 DEF Owes, Step
<1>7. Pending(s, r)'
  BY <1>5, <1>6 DEF Pending, Owes
<1> QED BY <1>7

LEMMA MainAnswers ==
    ASSUME TypeOK, PoolWaited, AnswerInv, MainStep
    PROVE  AnswerInv'
<1>1. UNCHANGED given /\ UNCHANGED answers /\ Planned' = Planned
  BY DEF MainStep, Start, Join, Finish, EvaluateAgain, Compose, given, Planned, PlanNames
<1>2. Main \in Strands
  BY StrandsFinite
\* At the evaluation nothing is owed any more.
<1>3. ASSUME At(Main, "evaluate")
      PROVE  failed = {} /\ \A r \in Planned : answers[r] # {}
  <2>1. status = "running" /\ todo[Main] # << >> /\ Head(todo[Main]).do = "evaluate"
    BY <1>3 DEF At
  <2>2. failed = {}
    BY <2>1 DEF AnswerInv
  <2>3. todo[Main] \in Seq(Steps) /\ todo[Main][1].do = "evaluate" /\ 1 \in 1 .. Len(todo[Main])
    BY <1>2, <2>1 DEF TypeOK
  <2>4. Len(todo[Main]) = 1
    BY <2>3 DEF AnswerInv
  <2>5. \A s \in Pool : todo[s] = << >>
    BY <2>1 DEF PoolWaited
  <2>6. ASSUME NEW s \in Strands, NEW r, Pending(s, r)
        PROVE  FALSE
    <3>1. CASE s = Main
      BY <2>3, <2>4, <2>6, <3>1 DEF Pending, Owes
    <3>2. CASE s # Main
      <4>1. todo[s] = << >> /\ Len(<< >>) = 0
        BY <2>5, <3>2 DEF Strands
      <4> QED BY <2>6, <4>1 DEF Pending
    <3> QED BY <3>1, <3>2
  <2> QED BY <2>1, <2>2, <2>6 DEF AnswerInv
<1>4. CASE Start
  <2>1. CASE status' = "raised" /\ UNCHANGED <<todo, failed>>
    BY <1>1, <2>1 DEF AnswerInv
  <2>2. CASE status' = "running" /\ todo' = Round(plan)
    <3>1. failed' = {}
      BY <1>4 DEF Start, AnswerInv
    <3>2. EvaluateLast(Round(plan)[Main])
      BY RoundEvaluates DEF TypeOK
    <3>3. \A r \in Planned : \E s \in Strands : Pending(s, r)'
      BY <1>1, <2>2, RoundOwes DEF given
    <3> QED BY <1>1, <2>2, <3>1, <3>2, <3>3 DEF AnswerInv, EvaluateLast
  <2> QED BY <1>4, <2>1, <2>2 DEF Start
<1>5. CASE Join
  <2>1. status = "running" /\ todo[Main] # << >> /\ Top(Main).do = "join"
    BY <1>5 DEF Join, At, Top
  <2>2. CASE failed = {} /\ Then(Main, << >>) /\ UNCHANGED <<status, failed>>
    <3>1. << >> \in Seq(Steps) /\ \A i \in 1 .. Len(<< >>) : << >>[i].do # "evaluate"
      OBVIOUS
    <3>2. Delivers(Main, << >>)
      BY <2>1, <2>2, <3>1 DEF Delivers, Owes
    <3>3. \A i \in 1 .. Len(todo'[Main]) :
              todo'[Main][i].do = "evaluate" => i = Len(todo'[Main])
      BY <1>2, <2>1, <2>2, <3>1, EvaluateKept DEF AnswerInv
    <3>4. ASSUME NEW r \in Planned
          PROVE  answers'[r] # {} \/ \E t \in Strands : Pending(t, r)'
      <4>1. r \in Roles
        BY PlannedTyped
      <4>2. ASSUME NEW t \in Strands, Pending(t, r)
            PROVE  answers'[r] # {} \/ Pending(t, r)'
        BY <1>2, <2>1, <3>1, <3>2, <4>1, <4>2, PendingKept
      <4>3. answers[r] # {} \/ \E t \in Strands : Pending(t, r)
        BY <2>1, <2>2 DEF AnswerInv
      <4> QED BY <1>1, <4>2, <4>3
    <3> QED BY <1>1, <2>1, <2>2, <3>3, <3>4 DEF AnswerInv
  <2>3. CASE status' = "raised" /\ todo' = [todo EXCEPT ![Main] = << >>]
    <3>1. todo'[Main] = << >> /\ Len(<< >>) = 0
      BY <1>2, <2>3 DEF TypeOK
    <3> QED BY <2>3, <3>1 DEF AnswerInv
  <2> QED BY <1>5, <2>2, <2>3 DEF Join
<1>6. CASE Finish
  <2>1. failed = {} /\ \A r \in Planned : answers[r] # {}
    BY <1>3, <1>6 DEF Finish
  <2>2. todo[Main] # << >> /\ Then(Main, << >>) /\ status' = "returned"
    BY <1>6 DEF Finish, At
  <2>3. << >> \in Seq(Steps) /\ \A i \in 1 .. Len(<< >>) : << >>[i].do # "evaluate"
    OBVIOUS
  <2>4. \A i \in 1 .. Len(todo'[Main]) :
            todo'[Main][i].do = "evaluate" => i = Len(todo'[Main])
    BY <1>2, <2>2, <2>3, EvaluateKept DEF AnswerInv
  <2> QED BY <1>1, <2>1, <2>2, <2>4 DEF AnswerInv
<1>7. CASE EvaluateAgain
  <2>1. failed = {} /\ \A r \in Planned : answers[r] # {}
    BY <1>3, <1>7 DEF EvaluateAgain
  <2>2. status' = "running" /\ failed' = {}
    BY <1>7, <2>1 DEF EvaluateAgain, At
  <2>3. \E p \in Plans : todo' = Round(p)
    BY <1>7 DEF EvaluateAgain
  <2>4. EvaluateLast(todo'[Main])
    BY <2>3, RoundEvaluates
  <2> QED BY <1>1, <2>1, <2>2, <2>4 DEF AnswerInv, EvaluateLast
<1>8. CASE Compose
  BY <1>1, <1>8 DEF Compose, AnswerInv
<1> QED BY <1>4, <1>5, <1>6, <1>7, <1>8 DEF MainStep

\* When execute_plan returns, every planned task has an answer under the role
\* it was routed to: no thread of the pool is forgotten, and neither nested
\* reflections nor evaluation rounds drop a task (_run_task, execute_plan).
THEOREM PlanIsAnswered == Spec => []PlanAnswered
<1>1. Init => AnswerInv
  <2> SUFFICES ASSUME Init PROVE AnswerInv
    OBVIOUS
  <2>1. todo[Main] = << >> /\ Len(<< >>) = 0
    BY StrandsFinite DEF Init
  <2> QED BY <2>1 DEF Init, AnswerInv
<1>2. TypeOK /\ ReflectionInv /\ AnswerInv /\ [Next]_vars => AnswerInv'
  <2>1. ASSUME AnswerInv, UNCHANGED vars
        PROVE  AnswerInv'
    <3>1. UNCHANGED <<status, plan, failed, todo, answers>>
      BY <2>1 DEF vars, given
    <3>2. Planned' = Planned
      BY <3>1 DEF Planned, PlanNames
    <3>3. \A s \in Strands, r \in Planned : Pending(s, r) => Pending(s, r)'
      BY <3>1 DEF Pending, Owes
    <3> QED BY <2>1, <3>1, <3>2, <3>3 DEF AnswerInv
  <2> QED BY <2>1, StrandAnswers, MainAnswers DEF Next, ReflectionInv
<1>3. AnswerInv => PlanAnswered
  BY DEF AnswerInv, PlanAnswered, Planned
<1> QED BY <1>1, <1>2, <1>3, TypeCorrect, ReflectionKept, PTL DEF Spec

-----------------------------------------------------------------------------
\* How far a run has come, and what a step may still cost: more than all the steps
\* it may be replaced by, but for a reflection's follow-ups.
Stage == [idle |-> 3, running |-> 2, returned |-> 1, raised |-> 0, composed |-> 0]

Weight == [run |-> 9, second |-> 8, retry |-> 7, flag |-> 6, qa |-> 3, review |-> 2,
           record |-> 1, reflect |-> 2, ask |-> 1, follow |-> 11, again |-> 11,
           bump |-> 1, gaps |-> 1, join |-> 1, evaluate |-> 1]

\* The steps of a strand, each as often as it weighs.
units == [st \in Steps |-> [i \in 1 .. Weight[st.do] |-> st.do]]
Effort(s) == Len(MapFlat(units, todo[s]))

\* A strand has come further, and no other has changed.
Lighter(s) ==
    /\ Effort(s)' \in 0 .. Effort(s) - 1
    /\ \A u \in Strands \ {s} : Effort(u)' = Effort(u)

\* What a step may do.
Doings == DOMAIN Weight

\* Every step weighs something.
LEMMA WeightIs ==
    /\ \A st \in Steps : st.do \in Doings
    /\ \A d \in Doings : Weight[d] \in Nat /\ Weight[d] >= 1
<1>1. \A st \in Steps : st.do \in Doings
  BY DEF Steps, Doings, Weight
<1>2. \A d \in Doings : Weight[d] \in Nat /\ Weight[d] >= 1
  BY DEF Doings, Weight
<1> QED
  BY <1>1, <1>2

\* A step has as many units as it weighs.
LEMMA UnitsAre ==
    /\ units \in Maps(Steps, Doings)
    /\ \A st \in Steps : Len(units[st]) = Weight[st.do]
<1>1. ASSUME NEW st \in Steps
      PROVE  units[st] \in Seq(Doings) /\ Len(units[st]) = Weight[st.do]
  <2>1. st.do \in Doings /\ Weight[st.do] \in Nat
    BY WeightIs
  <2> DEFINE d == st.do
             n == Weight[d]
             u == [i \in 1 .. n |-> d]
  <2>2. units[st] = u
    BY DEF units
  <2>3. n \in Nat /\ d \in Doings
    BY <2>1
  <2> HIDE DEF n, d
  <2>4. u \in Seq(Doings) /\ Len(u) = n
    BY <2>3
  <2> QED
    BY <2>2, <2>4 DEF n, d
<1> QED
  BY <1>1 DEF units, Maps

\* What a sequence of steps may still cost.
Cost(q) == Len(MapFlat(units, q))

\* What steps cost together is what each of them does.
LEMMA CostIs ==
    /\ Cost(<< >>) = 0
    /\ \A q \in Seq(Steps) : Cost(q) \in Nat
    /\ \A st \in Steps : Cost(<<st>>) = Weight[st.do]
    /\ \A p, q \in Seq(Steps) : Cost(p \o q) = Cost(p) + Cost(q)
    /\ \A a, b \in Steps : Cost(<<a, b>>) = Weight[a.do] + Weight[b.do]
<1>0. units \in Maps(Steps, Doings) /\ \A st \in Steps : Len(units[st]) = Weight[st.do]
  BY UnitsAre
<1>1. Cost(<< >>) = 0
  BY MapFlatEmpty, EmptySeq DEF Cost
<1>2. \A q \in Seq(Steps) : MapFlat(units, q) \in Seq(Doings)
  BY <1>0, MapFlatType
<1>3. \A q \in Seq(Steps) : Cost(q) \in Nat
  BY <1>2, LenProperties DEF Cost
<1>4. ASSUME NEW st \in Steps PROVE Cost(<<st>>) = Weight[st.do]
  <2>1. MapFlat(units, <<st>>) = units[st]
    BY <1>0, MapFlatSingle
  <2> QED
    BY <1>0, <2>1 DEF Cost
<1>5. ASSUME NEW p \in Seq(Steps), NEW q \in Seq(Steps) PROVE Cost(p \o q) = Cost(p) + Cost(q)
  <2>1. MapFlat(units, p \o q) = MapFlat(units, p) \o MapFlat(units, q)
    BY <1>0, MapFlatConcat
  <2> QED
    BY <1>2, <2>1, ConcatProperties DEF Cost
<1>6. ASSUME NEW a \in Steps, NEW b \in Steps PROVE Cost(<<a, b>>) = Weight[a.do] + Weight[b.do]
  <2>1. <<a, b>> = Append(<<a>>, b) /\ <<a>> \in Seq(Steps)
    OBVIOUS
  <2>2. MapFlat(units, Append(<<a>>, b)) = MapFlat(units, <<a>>) \o units[b]
    BY <1>0, <2>1, MapFlatAppend
  <2>3. units[b] \in Seq(Doings) /\ MapFlat(units, <<a>>) \in Seq(Doings)
    BY <1>0, <1>2, <2>1 DEF Maps
  <2>4. Cost(<<a, b>>) = Cost(<<a>>) + Len(units[b])
    <3> DEFINE x == MapFlat(units, <<a>>)
               y == units[b]
    <3>1. x \in Seq(Doings) /\ y \in Seq(Doings) /\ MapFlat(units, <<a, b>>) = x \o y
      BY <2>1, <2>2, <2>3
    <3> HIDE DEF x, y
    <3>2. Len(x \o y) = Len(x) + Len(y)
      BY <3>1, ConcatProperties
    <3> QED
      BY <3>1, <3>2 DEF Cost, x, y
  <2> QED
    BY <1>0, <1>4, <2>4
<1> QED
  BY <1>1, <1>3, <1>4, <1>5, <1>6

\* Replacing a step by others that cost less is progress.
LEMMA ThenLighter ==
  ASSUME TypeOK, NEW s \in Strands, todo[s] # << >>, NEW new \in Seq(Steps), Then(s, new),
         Cost(new) < Weight[Top(s).do]
  PROVE  Lighter(s)
<1>1. todo[s] \in Seq(Steps) /\ \A u \in Strands : Effort(u) = Cost(todo[u])
  BY DEF TypeOK, Effort, Cost
<1>2. todo[s] = <<Top(s)>> \o Tail(todo[s]) /\ Top(s) \in Steps /\ Tail(todo[s]) \in Seq(Steps)
  BY <1>1, HeadTailProperties DEF Top
<1>3. todo'[s] = new \o Tail(todo[s]) /\ \A u \in Strands \ {s} : todo'[u] = todo[u]
  BY DEF TypeOK, Then
<1>4. <<Top(s)>> \in Seq(Steps)
  BY <1>2
<1>5. Cost(todo[s]) = Weight[Top(s).do] + Cost(Tail(todo[s]))
  <2> DEFINE t == Tail(todo[s])
             h == Top(s)
  <2>1. h \in Steps /\ t \in Seq(Steps) /\ <<h>> \in Seq(Steps) /\ todo[s] = <<h>> \o t
    BY <1>2, <1>4
  <2> HIDE DEF t, h
  <2>2. Cost(<<h>> \o t) = Cost(<<h>>) + Cost(t) /\ Cost(<<h>>) = Weight[h.do]
    BY <2>1, CostIs
  <2> QED
    BY <2>1, <2>2 DEF t, h
<1>6. Cost(todo'[s]) = Cost(new) + Cost(Tail(todo[s]))
  BY <1>2, <1>3, CostIs
<1>7. /\ Cost(new) \in Nat /\ Cost(Tail(todo[s])) \in Nat
      /\ Weight[Top(s).do] \in Nat
  BY <1>2, CostIs, WeightIs
<1>8. \A u \in Strands : Effort(u)' = Cost(todo'[u])
  BY DEF Effort, Cost
<1>9. Effort(s)' = Cost(new) + Cost(Tail(todo[s]))
  BY <1>6, <1>8
<1>10. Effort(s) = Weight[Top(s).do] + Cost(Tail(todo[s]))
  BY <1>1, <1>5
<1>11. \A u \in Strands \ {s} : Effort(u)' = Effort(u)
  BY <1>1, <1>3, <1>8
<1> HIDE DEF Effort
<1>12. Effort(s)' \in 0 .. Effort(s) - 1
  <2> DEFINE c == Cost(new)
             d == Cost(Tail(todo[s]))
             w == Weight[Top(s).do]
  <2>1. c \in Nat /\ d \in Nat /\ w \in Nat /\ c < w
    BY <1>7
  <2>2. Effort(s)' = c + d /\ Effort(s) = w + d
    BY <1>9, <1>10
  <2> HIDE DEF c, d, w
  <2> QED
    BY <2>1, <2>2
<1> QED
  BY <1>11, <1>12 DEF Lighter

\* Every handler replaces its step by lighter ones, but for a reflection's call.
LEMMA StrandDescends ==
  ASSUME TypeOK, NEW s \in Strands, StrandStep(s)
  PROVE  /\ round' = round
         /\ \/ Stage[status'] < Stage[status]
            \/ status' = status /\ attempts' = attempts + 1
            \/ status' = status /\ attempts' = attempts /\ Lighter(s)
<1> USE DEF At
<1>0. /\ << >> \in Seq(Steps) /\ Cost(<< >>) = 0
      /\ \A st \in Steps : <<st>> \in Seq(Steps) /\ Cost(<<st>>) = Weight[st.do]
  BY CostIs
<1> DEFINE Shrinks == \E new \in Seq(Steps) : Then(s, new) /\ Cost(new) < Weight[Top(s).do]
           Same == status' = status /\ attempts' = attempts /\ round' = round
<1>1. ASSUME Same, Shrinks, todo[s] # << >> PROVE Same /\ Lighter(s)
  BY <1>1, ThenLighter
<1>2. ASSUME todo[s] # << >>, Then(s, << >>) PROVE Shrinks
  <2>1. Top(s) \in Steps
    BY <1>2, TopTyped
  <2>2. Weight[Top(s).do] \in Nat /\ Weight[Top(s).do] >= 1
    BY <2>1, WeightIs
  <2>3. << >> \in Seq(Steps) /\ Cost(<< >>) < Weight[Top(s).do]
    BY <1>0, <2>2
  <2> QED
    BY <1>2, <2>3, Zenon
<1>3. ASSUME NEW st \in Steps, Then(s, <<st>>), Weight[st.do] < Weight[Top(s).do] PROVE Shrinks
  BY <1>0, <1>3
<1>4. ASSUME NEW r \in Roles, NEW k \in {"good", "silent", "fabricated"}
      PROVE  Settle(r, k) \in Steps /\ Weight[Settle(r, k).do] <= 3 /\ Weight[Settle(r, k).do] \in Nat
  <2>1. Settle(r, k) \in Steps /\ Settle(r, k).do \in {"qa", "record"}
    BY <1>4, StepsTyped DEF Settle, Step
  <2>2. Weight["qa"] = 3 /\ Weight["record"] = 1
    BY DEF Weight
  <2> QED
    BY <2>1, <2>2
<1> HIDE DEF Shrinks, Same
<1>5. CASE RunUnanswered(s) \/ RunEmpty(s) \/ Record(s) \/ Bump(s) \/ NoteGaps(s)
  <2>1. Then(s, << >>) /\ todo[s] # << >> /\ Same
    BY <1>5 DEF RunUnanswered, RunEmpty, Record, Bump, NoteGaps, Same
  <2> QED
    BY <1>1, <1>2, <2>1 DEF Same
<1>6. CASE RunJudged(s)
  <2>1. todo[s] # << >> /\ Top(s).do = "run" /\ Same
    BY <1>6 DEF RunJudged, Top, Same
  <2>2. Route[Top(s).on] \in Roles
    BY <1>6, TopTyped DEF RunJudged, Top
  <2>3. Weight["run"] = 9 /\ Weight["second"] = 8
    BY DEF Weight
  <2>4. CASE \E k \in {"good", "fabricated"} : Then(s, <<Settle(Route[Top(s).on], k)>>)
    <3>1. PICK k \in {"good", "fabricated"} : Then(s, <<Settle(Route[Top(s).on], k)>>)
      BY <2>4
    <3>2. Weight[Settle(Route[Top(s).on], k).do] < Weight[Top(s).do]
      BY <1>4, <2>1, <2>2, <2>3
    <3>3. Shrinks
      BY <1>3, <1>4, <2>2, <3>1, <3>2
    <3> QED
      BY <1>1, <2>1, <3>3 DEF Same
  <2>5. CASE Then(s, <<Step("second", Route[Top(s).on], "any")>>)
    <3>1. Step("second", Route[Top(s).on], "any") \in Steps
      BY <2>2, StepsTyped
    <3>2. Step("second", Route[Top(s).on], "any").do = "second"
      BY DEF Step
    <3>3. Shrinks
      BY <1>3, <2>1, <2>3, <2>5, <3>1, <3>2
    <3> QED
      BY <1>1, <2>1, <3>3 DEF Same
  <2> QED
    BY <1>6, <2>4, <2>5 DEF RunJudged
<1>7. CASE Second(s)
  <2>1. todo[s] # << >> /\ Top(s).do = "second" /\ Same
    BY <1>7 DEF Second, Top, Same
  <2>2. Top(s).on \in Roles
    BY <1>7, TopTyped DEF Second, Top
  <2>3. PICK d \in {"flag", "retry"} : Then(s, <<Step(d, Top(s).on, "any")>>)
    BY <1>7 DEF Second
  <2>4. Step(d, Top(s).on, "any") \in Steps /\ Step(d, Top(s).on, "any").do = d
    BY <2>2, StepsTyped DEF Step
  <2>5. Weight[d] < Weight["second"]
    BY DEF Weight
  <2>6. Shrinks
    BY <1>3, <2>1, <2>3, <2>4, <2>5
  <2> QED
    BY <1>1, <2>1, <2>6 DEF Same
<1>8. CASE RetryFlagged(s)
  <2>1. todo[s] # << >> /\ Top(s).do = "retry" /\ Same
    BY <1>8 DEF RetryFlagged, Top, Same
  <2>2. Top(s).on \in Roles
    BY <1>8, TopTyped DEF RetryFlagged, Top
  <2>3. Weight["retry"] = 7 /\ Weight["flag"] = 6
    BY DEF Weight
  <2>4. CASE \E k \in {"good", "fabricated"} : Then(s, <<Settle(Top(s).on, k)>>)
    <3>1. PICK k \in {"good", "fabricated"} : Then(s, <<Settle(Top(s).on, k)>>)
      BY <2>4
    <3>2. Weight[Settle(Top(s).on, k).do] < Weight[Top(s).do]
      BY <1>4, <2>1, <2>2, <2>3
    <3>3. Shrinks
      BY <1>3, <1>4, <2>2, <3>1, <3>2
    <3> QED
      BY <1>1, <2>1, <3>3 DEF Same
  <2>5. CASE Then(s, <<Step("flag", Top(s).on, "any")>>)
    <3>1. Step("flag", Top(s).on, "any") \in Steps
      BY <2>2, StepsTyped
    <3>2. Step("flag", Top(s).on, "any").do = "flag"
      BY DEF Step
    <3>3. Shrinks
      BY <1>3, <2>1, <2>3, <2>5, <3>1, <3>2
    <3> QED
      BY <1>1, <2>1, <3>3 DEF Same
  <2> QED
    BY <1>8, <2>4, <2>5 DEF RetryFlagged
<1>9. CASE Flag(s)
  <2>1. todo[s] # << >> /\ Top(s).do = "flag" /\ Same
    BY <1>9 DEF Flag, Top, Same
  <2>2. Top(s).on \in Roles
    BY <1>9, TopTyped DEF Flag, Top
  <2> DEFINE a == Step("reflect", NoName, "nested")
             b == Settle(Top(s).on, "fabricated")
  <2>3. a \in Steps /\ a.do = "reflect"
    BY StepsTyped DEF Step
  <2>4. b \in Steps /\ Weight[b.do] <= 3 /\ Weight[b.do] \in Nat
    BY <1>4, <2>2
  <2>5. Then(s, <<a, b>>)
    BY <1>9 DEF Flag
  <2> HIDE DEF a, b
  <2>6. Cost(<<a, b>>) = Weight[a.do] + Weight[b.do] /\ <<a, b>> \in Seq(Steps)
    BY <2>3, <2>4, CostIs
  <2>7. Weight["reflect"] = 2 /\ Weight["flag"] = 6
    BY DEF Weight
  <2>9. Cost(<<a, b>>) < Weight[Top(s).do]
    BY <2>1, <2>3, <2>4, <2>6, <2>7
  <2>8. Shrinks
    BY <2>5, <2>6, <2>9, Zenon DEF Shrinks
  <2> QED
    BY <1>1, <2>1, <2>8 DEF Same
<1>10. CASE CheckReview(s)
  <2>1. todo[s] # << >> /\ Top(s).do = "qa" /\ Same
    BY <1>10 DEF CheckReview, Top, Same
  <2>2. QA \in Roles
    BY PlanAssumption
  <2>3. \/ \E k \in {"good", "silent", "fabricated"} : Then(s, <<Step("record", QA, k)>>)
        \/ Then(s, <<Step("review", QA, "any")>>)
    BY <1>10 DEF CheckReview
  <2>4. PICK st \in Steps : Then(s, <<st>>) /\ st.do \in {"record", "review"}
    BY <2>2, <2>3, StepsTyped DEF Step
  <2>5. Weight[st.do] < Weight["qa"]
    BY <2>4 DEF Weight
  <2>6. Shrinks
    BY <1>3, <2>1, <2>4, <2>5
  <2> QED
    BY <1>1, <2>1, <2>6 DEF Same
<1>11. CASE RetryReview(s)
  <2>1. todo[s] # << >> /\ Top(s).do = "review" /\ Same
    BY <1>11 DEF RetryReview, Top, Same
  <2>2. QA \in Roles
    BY PlanAssumption
  <2>3. PICK st \in Steps : Then(s, <<st>>) /\ st.do = "record"
    BY <1>11, <2>2, StepsTyped DEF RetryReview, Step
  <2>4. Weight["record"] < Weight["review"]
    BY DEF Weight
  <2>5. Shrinks
    BY <1>3, <2>1, <2>3, <2>4
  <2> QED
    BY <1>1, <2>1, <2>5 DEF Same
<1>12. CASE Reflect(s)
  <2>1. todo[s] # << >> /\ Top(s).do = "reflect" /\ Same
    BY <1>12 DEF Reflect, Top, Same
  <2>2. Top(s).as \in {"first", "review", "nested"}
    BY <1>12, TopTyped DEF Reflect, Top
  <2>3. Step("ask", NoName, Top(s).as) \in Steps /\ Step("ask", NoName, Top(s).as).do = "ask"
    BY <2>2, StepsTyped DEF Step
  <2>4. Then(s, << >>) \/ Then(s, <<Step("ask", NoName, Top(s).as)>>)
    BY <1>12 DEF Reflect
  <2>5. Weight["ask"] < Weight["reflect"]
    BY DEF Weight
  <2>6. Shrinks
    BY <1>2, <1>3, <2>1, <2>3, <2>4, <2>5
  <2> QED
    BY <1>1, <2>1, <2>6 DEF Same
<1>13. CASE Ask(s)
  BY <1>13 DEF Ask
<1>14. CASE Follow(s)
  <2>1. todo[s] # << >> /\ Top(s).do \in {"follow", "again"} /\ Same
    BY <1>14 DEF Follow, Top, Same
  <2>2. Top(s).on \in Names \cup {NoName}
    BY <1>14, TopTyped DEF Follow, Top
  <2> DEFINE a == Step("run", Top(s).on, "any")
             b == Step("bump", Top(s).on, "any")
  <2>3. a \in Steps /\ b \in Steps /\ a.do = "run" /\ b.do = "bump"
    BY <2>2, StepsTyped DEF Step
  <2>4. Then(s, << >>) \/ Then(s, <<a, b>>)
    BY <1>14 DEF Follow
  <2> HIDE DEF a, b
  <2>5. Cost(<<a, b>>) = Weight[a.do] + Weight[b.do] /\ <<a, b>> \in Seq(Steps)
    BY <2>3, CostIs
  <2>6. Weight["run"] = 9 /\ Weight["bump"] = 1 /\ Weight["follow"] = 11 /\ Weight["again"] = 11
    BY DEF Weight
  <2>7. Then(s, <<a, b>>) => Shrinks
    <3>1. Cost(<<a, b>>) < Weight[Top(s).do]
      BY <2>1, <2>3, <2>5, <2>6
    <3> QED
      BY <2>5, <3>1, Zenon DEF Shrinks
  <2>8. Shrinks
    BY <1>2, <2>1, <2>4, <2>7
  <2> QED
    BY <1>1, <2>1, <2>8 DEF Same
<1>15. CASE Raise(s)
  <2>1. todo[s] # << >> /\ status = "running" /\ attempts' = attempts /\ round' = round
    BY <1>15 DEF Raise
  <2>2. CASE s = Main
    <3>1. status' = "raised"
      BY <1>15, <2>2 DEF Raise
    <3> QED
      BY <2>1, <3>1 DEF Stage
  <2>3. CASE s # Main
    <3>1. status' = status
      BY <1>15, <2>3 DEF Raise
    <3>2. todo'[s] = << >> /\ \A u \in Strands \ {s} : todo'[u] = todo[u]
      BY <1>15 DEF Raise, TypeOK
    <3>3. /\ \A u \in Strands : Effort(u) = Cost(todo[u])
          /\ \A u \in Strands : Effort(u)' = Cost(todo'[u])
      BY DEF Effort, Cost
    <3>4. Cost(todo[s]) \in Nat /\ Cost(todo[s]) >= 1
      <4> DEFINE t == Tail(todo[s])
                 h == Top(s)
      <4>1. todo[s] \in Seq(Steps) /\ todo[s] # << >>
        BY <2>1 DEF TypeOK
      <4>2. h \in Steps /\ t \in Seq(Steps) /\ todo[s] = <<h>> \o t
        BY <4>1, HeadTailProperties DEF Top
      <4> HIDE DEF t, h
      <4>3. Cost(<<h>> \o t) = Cost(<<h>>) + Cost(t) /\ Cost(<<h>>) = Weight[h.do]
        BY <1>0, <4>2, CostIs
      <4>4. Cost(t) \in Nat /\ Weight[h.do] \in Nat /\ Weight[h.do] >= 1
        BY <4>2, CostIs, WeightIs
      <4> QED
        BY <4>2, <4>3, <4>4
    <3>5. Lighter(s)
      BY <1>0, <3>2, <3>3, <3>4 DEF Lighter
    <3> QED
      BY <2>1, <3>1, <3>5
  <2> QED
    BY <2>2, <2>3
<1> QED
  BY <1>5, <1>6, <1>7, <1>8, <1>9, <1>10, <1>11, <1>12, <1>13, <1>14, <1>15 DEF StrandStep

\* The main strand goes on to a later stage, or a further round, or past the pool.
LEMMA MainDescends ==
  ASSUME TypeOK, MainStep
  PROVE  \/ Stage[status'] < Stage[status]
         \/ status' = status /\ round' = round + 1
         \/ status' = status /\ round' = round /\ attempts' = attempts /\ Lighter(Main)
<1> USE DEF At
<1>1. CASE Start
  BY <1>1 DEF Start, Stage
<1>2. CASE Join
  <2>1. /\ status = "running" /\ todo[Main] # << >> /\ Main \in Strands
        /\ Top(Main).do = "join" /\ round' = round /\ attempts' = attempts
    BY <1>2 DEF Join, Top, Strands
  <2>2. CASE failed = {}
    <3>1. Then(Main, << >>) /\ status' = status
      BY <1>2, <2>2 DEF Join
    <3>2. << >> \in Seq(Steps) /\ Cost(<< >>) < Weight[Top(Main).do]
      BY <2>1, CostIs DEF Weight
    <3> QED
      BY <2>1, <3>1, <3>2, ThenLighter
  <2>3. CASE failed # {}
    BY <1>2, <2>1, <2>3 DEF Join, Stage
  <2> QED
    BY <2>2, <2>3
<1>3. CASE Finish
  BY <1>3 DEF Finish, Stage
<1>4. CASE EvaluateAgain
  BY <1>4 DEF EvaluateAgain, NextRound
<1>5. CASE Compose
  BY <1>5 DEF Compose, Stage
<1> QED
  BY <1>1, <1>2, <1>3, <1>4, <1>5 DEF MainStep

\* Whatever the plans, the follow-ups and the settings: a step brings execute_plan to a
\* later stage, or starts one of its EVALUATION_MAX_ROUNDS rounds, or makes one of the
\* calls of the reflection agent that ReflectionBound allows, or takes from one strand
\* some of what its steps may still cost and leaves the others alone.
THEOREM PlanDescends ==
  Spec => [][ /\ round \in 0 .. MaxRounds /\ attempts \in 0 .. AttemptsLeft
              /\ \A s \in Strands : Effort(s) \in Nat
              /\ AttemptsLeft' = AttemptsLeft
              /\ \/ Stage[status'] < Stage[status]
                 \/ status' = status /\ round' = round + 1
                 \/ status' = status /\ round' = round /\ attempts' = attempts + 1
                 \/ /\ status' = status /\ round' = round /\ attempts' = attempts
                    /\ \E s \in Strands : Lighter(s) ]_vars
<1>1. ASSUME TypeOK, ReflectionInv, Next
      PROVE  /\ round \in 0 .. MaxRounds /\ attempts \in 0 .. AttemptsLeft
             /\ \A s \in Strands : Effort(s) \in Nat
             /\ AttemptsLeft' = AttemptsLeft
             /\ \/ Stage[status'] < Stage[status]
                \/ status' = status /\ round' = round + 1
                \/ status' = status /\ round' = round /\ attempts' = attempts + 1
                \/ /\ status' = status /\ round' = round /\ attempts' = attempts
                   /\ \E s \in Strands : Lighter(s)
  <2>1. round \in 0 .. MaxRounds
    BY <1>1 DEF TypeOK
  <2>2. attempts \in 0 .. AttemptsLeft
    <3>1. attempts + Cardinality(Asking) <= AttemptsLeft /\ attempts \in Nat
      BY <1>1 DEF ReflectionInv, TypeOK
    <3>2. Cardinality(Asking) \in Nat
      BY StrandsFinite DEF Asking
    <3>3. AttemptsLeft \in Nat
      BY StrandsFinite, PlanAssumption DEF AttemptsLeft
    <3> QED
      BY <3>1, <3>2, <3>3
  <2>3. ASSUME NEW s \in Strands PROVE Effort(s) \in Nat
    <3>1. todo[s] \in Seq(Steps)
      BY <1>1 DEF TypeOK
    <3> QED
      BY <3>1, CostIs DEF Effort, Cost
  <2>4. AttemptsLeft' = AttemptsLeft
    <3>1. parallel' = parallel
      BY <1>1
      DEF Next, MainStep, StrandStep, Start, Join, Finish, EvaluateAgain, Compose, RunUnanswered,
          RunEmpty, RunJudged, Second, RetryFlagged, Flag, CheckReview, RetryReview, Record,
          Reflect, Ask, Follow, Bump, NoteGaps, Raise, given
    <3> QED
      BY <3>1 DEF AttemptsLeft
  <2>5. CASE MainStep
    BY <1>1, <2>1, <2>2, <2>3, <2>4, <2>5, MainDescends DEF Strands
  <2>6. ASSUME NEW s \in Strands, StrandStep(s)
        PROVE  \/ Stage[status'] < Stage[status]
               \/ status' = status /\ round' = round /\ attempts' = attempts + 1
               \/ /\ status' = status /\ round' = round /\ attempts' = attempts
                  /\ \E u \in Strands : Lighter(u)
    BY <1>1, <2>6, StrandDescends
  <2> QED
    BY <1>1, <2>1, <2>2, <2>3, <2>4, <2>5, <2>6 DEF Next
<1> QED
  BY <1>1, TypeCorrect, ReflectionKept, PTL DEF Spec
=============================================================================
