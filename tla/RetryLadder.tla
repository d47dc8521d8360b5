---------------------------- MODULE RetryLadder ----------------------------
(***************************************************************************)
(* How one task of execute_plan comes by an output (_run_task in           *)
(* core/orchestrator.py and validate_and_retry in                          *)
(* core/evaluation/self_check.py): the agent is called, its text is        *)
(* checked, and reminders, retries and placeholders follow.  TaskOfPlan    *)
(* relates the ladder to the task that ExecutePlan runs.                   *)
(*                                                                         *)
(* A text is what the check makes of it.  The other tasks of the role that *)
(* run in between appear as the retry that they may count for the role.    *)
(***************************************************************************)
EXTENDS Naturals

CONSTANTS Reviews     \* whether the role is QA: BOOLEAN values to explore

ASSUME LadderAssumption == Reviews \subseteq BOOLEAN

\* valid: passes every check; blank: passes, but a review that says nothing;
\* malformed: no JSON, a key missing or against the schema; placeholder: made
\* of placeholder content; scalar: JSON that is neither object nor array.
Texts == {"valid", "blank", "malformed", "placeholder", "scalar"}
Passing == {"valid", "blank"}

VARIABLES
    review,   \* role = "QA"
    at,       \* where the task is
    refused,  \* the agent raised ValueError once
    text,     \* raw_text
    rung,     \* what the text answers: first prompt, placeholder retry, reminder, final
    ladder,   \* which call of validate_and_retry: task, flagged, review
    valid,    \* meta["valid_json"]
    flagged,  \* meta["placeholder_failure"]
    escalated,\* meta["escalated"]
    retried,  \* role_retries[role] >= 1
    open,     \* an open issue of the task
    calls,    \* history: calls of the agent
    heard     \* history: kind of the agent's last text

meta == <<valid, flagged, escalated>>
vars == <<review, at, refused, text, rung, ladder, meta, retried, open, calls, heard>>

Init ==
    /\ review \in Reviews
    /\ at = "ask"
    /\ refused = FALSE
    /\ text = "none" /\ heard = "none"
    /\ rung = "first" /\ ladder = "task"
    /\ valid = FALSE /\ flagged = FALSE /\ escalated = FALSE
    /\ retried \in BOOLEAN
    /\ open = FALSE
    /\ calls = 0

-----------------------------------------------------------------------------
\* The most calls of the agent; the count stops one beyond.
MaxCalls == 13
Counted == IF calls > MaxCalls THEN calls ELSE calls + 1

\* The agent is called and answers with some text.
Hears ==
    /\ \E k \in Texts : text' = k /\ heard' = k
    /\ calls' = Counted

Answer ==
    /\ at = "ask"
    /\ Hears
    /\ at' = "check"
    /\ UNCHANGED <<review, refused, rung, ladder, meta, retried, open>>

\* A ValueError: the input is completed and the agent called once more.
Refuse ==
    /\ at = "ask"
    /\ calls' = Counted
    /\ refused' = TRUE
    /\ at' = IF refused THEN "unanswered" ELSE "ask"
    /\ UNCHANGED <<review, text, rung, ladder, meta, retried, open, heard>>

\* EmptyModelOutput is recorded, except in the second call.
Empty ==
    /\ at = "ask"
    /\ calls' = Counted
    /\ at' = IF refused THEN "raised" ELSE "empty"
    /\ UNCHANGED <<review, refused, text, rung, ladder, meta, retried, open, heard>>

-----------------------------------------------------------------------------
\* _check of a text that is no container raises a TypeError.
CheckScalar ==
    /\ at = "check" /\ text = "scalar"
    /\ at' = "raised"
    /\ UNCHANGED <<review, refused, text, rung, ladder, meta, retried, open, calls, heard>>

Judge(v, f, e) ==
    /\ at' = "judged"
    /\ valid' = v /\ flagged' = f /\ escalated' = e
    /\ UNCHANGED <<review, refused, text, rung, ladder, retried, open, calls, heard>>

\* A text that passes is taken, on whatever rung.
Pass == at = "check" /\ text \in Passing /\ Judge(TRUE, FALSE, FALSE)

\* retry_fn: an error counts as the same text again.
Retry(r) ==
    /\ \/ Hears
       \/ calls' = Counted /\ UNCHANGED <<text, heard>>
    /\ rung' = r
    /\ UNCHANGED <<review, at, refused, ladder, meta, retried, open>>

\* Mutant: placeholder content is asked for again on every rung but the last.
PlaceholderRetriesLeft == rung # "final"

PlaceholderRetry == rung = "first"

RetryPlaceholder == at = "check" /\ text = "placeholder" /\ PlaceholderRetry /\ Retry("again")

GiveUpPlaceholder ==
    /\ at = "check" /\ text = "placeholder" /\ rung # "first"
    /\ Judge(FALSE, TRUE, rung = "final")

Remind == at = "check" /\ text = "malformed" /\ rung \in {"first", "again"} /\ Retry("reminded")

LastReminder == at = "check" /\ text = "malformed" /\ rung = "reminded" /\ Retry("final")

\* Mutant: the last text is not read.
GiveUpUnread == at = "check" /\ rung = "final" /\ Judge(FALSE, FALSE, TRUE)

GiveUp == at = "check" /\ text = "malformed" /\ rung = "final" /\ Judge(FALSE, FALSE, TRUE)

-----------------------------------------------------------------------------
\* A flagged output is asked for once more, unless the role had its retry.
AskFlagged == at = "judged" /\ ladder = "task" /\ flagged /\ ~retried

\* _qa_all_placeholder, of what the self-check fabricates too.
SaysNothing == text = "blank" \/ ~valid

\* Mutant: a review is asked for until it says something.
AskReviewOften == at = "settled" /\ review /\ SaysNothing

\* So is a review that says nothing.
AskReview == at = "settled" /\ review /\ SaysNothing /\ ~retried /\ ladder # "review"

\* The agent is to be called again, for another call of validate_and_retry.
Again(l) ==
    /\ at' = "again" /\ ladder' = l
    /\ UNCHANGED <<review, refused, text, rung, meta, retried, open, calls, heard>>

RetryFlagged == AskFlagged /\ Again("flagged")

RetryReview == AskReview /\ Again("review")

AnswerAgain ==
    /\ at = "again"
    /\ Hears
    /\ at' = "check" /\ rung' = "first"
    /\ UNCHANGED <<review, refused, ladder, meta, retried, open>>

\* Any other error of a call outside validate_and_retry ends the task.
Fail ==
    /\ at \in {"ask", "again"}
    /\ calls' = Counted
    /\ at' = "raised"
    /\ UNCHANGED <<review, refused, text, rung, ladder, meta, retried, open, heard>>

Leave(a, b) ==
    /\ at = a /\ at' = b
    /\ UNCHANGED <<review, refused, text, rung, ladder, meta, calls, heard>>

\* Still flagged, the output counts as the role's retry and as an open issue;
\* a reflection follows, whose tasks appear as OtherTask.
GiveIn ==
    /\ ladder # "review" /\ flagged /\ ~AskFlagged
    /\ Leave("judged", "flagging") /\ UNCHANGED <<retried, open>>

Flag == Leave("flagging", "reflecting") /\ retried' = TRUE /\ open' = TRUE

Reflect == Leave("reflecting", "settled") /\ UNCHANGED <<retried, open>>

Settle ==
    /\ ladder = "review" \/ ~flagged
    /\ Leave("judged", "settled") /\ UNCHANGED <<retried, open>>

\* A review that still says nothing counts as the retry of its role.
Review ==
    /\ ~AskReview
    /\ Leave("settled", "reviewed")
    /\ retried' = (retried \/ (review /\ SaysNothing))
    /\ UNCHANGED open

\* The task's output is kept; a placeholder is an open issue.
Record ==
    /\ Leave("reviewed", "recorded")
    /\ open' = (open \/ ~valid)
    /\ UNCHANGED retried

\* Another task of the role counts a retry.
OtherTask ==
    /\ ~retried
    /\ retried' = TRUE
    /\ UNCHANGED <<review, at, refused, text, rung, ladder, meta, open, calls, heard>>

TaskStep ==
    \/ Answer \/ Refuse \/ Empty \/ Fail
    \/ CheckScalar \/ Pass \/ RetryPlaceholder \/ GiveUpPlaceholder
    \/ Remind \/ LastReminder \/ GiveUp
    \/ RetryFlagged \/ GiveIn \/ Flag \/ Reflect \/ Settle
    \/ RetryReview \/ AnswerAgain \/ Review \/ Record

Next == TaskStep \/ OtherTask

Spec == Init /\ [][Next]_vars

\* The task's thread goes on, and an agent's call ends, by text or by error.
FairSpec == Spec /\ WF_vars(TaskStep)

-----------------------------------------------------------------------------
\* Types of the ladder's state.
TypeOK ==
    /\ review \in BOOLEAN
    /\ at \in {"ask", "again", "check", "judged", "flagging", "reflecting", "settled",
               "reviewed", "recorded", "unanswered", "empty", "raised"}
    /\ refused \in BOOLEAN
    /\ text \in Texts \cup {"none"} /\ heard \in Texts \cup {"none"}
    /\ rung \in {"first", "again", "reminded", "final"}
    /\ ladder \in {"task", "flagged", "review"}
    /\ valid \in BOOLEAN /\ flagged \in BOOLEAN /\ escalated \in BOOLEAN
    /\ retried \in BOOLEAN /\ open \in BOOLEAN
    /\ calls \in 0 .. MaxCalls

Ended == at \in {"recorded", "unanswered", "empty", "raised"}

\* However placeholders and malformed texts alternate, a task calls its agent
\* at most 13 times: twice for its input, three times in each of the three
\* calls of validate_and_retry, and once before each further one.
CallsBounded ==
    calls <= (IF ladder = "task" THEN 6 ELSE IF ladder = "flagged" THEN 10 ELSE MaxCalls)

\* The verdict that _run_task acts on is that of the agent's last text: a text
\* that passes is never replaced by a placeholder, errors of retries or not.
LastTextJudged ==
    at \in {"settled", "reviewed", "recorded"} =>
        /\ valid <=> heard \in Passing
        /\ flagged <=> heard = "placeholder"

\* A recorded task has an open issue exactly when its output is a placeholder,
\* whichever of the retries produced it.
IssueIffPlaceholder == at = "recorded" => (open <=> ~valid)

\* The ladder runs out of rungs: every task ends.
Settles == <>Ended
=============================================================================
