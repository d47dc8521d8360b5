------------------------------- MODULE Aliases ------------------------------
(***************************************************************************)
(* The aliases that stand for names and addresses in what agents are given *)
(* (core/redaction.py, core/privacy.py) and their way back into the        *)
(* answers (core/orchestrator.py).  A task is first put with aliases of a  *)
(* redactor of its own.  Retries and reflections go through                *)
(* pseudonymize_for_model, whose redactor is one for the process and is    *)
(* reset by every call, while other threads may be in it.                  *)
(*                                                                         *)
(* An alias is its number, as in [EMAIL_1]; an agent's text is the aliases *)
(* it quotes, each with the name it was given for.                         *)
(***************************************************************************)
EXTENDS Naturals, Sequences, FiniteSets

CONSTANTS
    Briefs,       \* what a task may mention: sequences of [name, nested]
    TaskRole,     \* TaskRole[t]: the role task t is routed to
    OwnRetries,   \* tasks of the roles QA and Dynamic Specialist
    MaxWalks      \* bound: retries and reflections of a task

AliasTasks == DOMAIN TaskRole

ASSUME AliasAssumption ==
    /\ OwnRetries \subseteq AliasTasks /\ 0 \notin AliasTasks
    /\ \A b \in Briefs : b \in Seq({b[i] : i \in DOMAIN b})
    /\ MaxWalks \in Nat

VARIABLES
    shared,     \* alias_map of _MODEL_REDACTOR: name to number
    numbered,   \* its counter
    brief,      \* brief[t]: what the task mentions
    desk,       \* desk[t]: where its thread is
    purpose,    \* of the walk: retry or reflect
    walked,     \* mentions the walk has passed
    shown,      \* the aliases of the walk, as <<name, number>>
    copied,     \* alias_map2
    quoted,     \* the aliases in the task's text, as <<name, number>>
    kept,       \* routed["alias_map"]
    walks,      \* history: walks begun
    disturbed,  \* history: tasks whose walk overlapped another's
    mapOf       \* alias_maps[role], with the task it is of

aliasVars == <<shared, numbered, brief, desk, purpose, walked, shown, copied,
               quoted, kept, walks, disturbed, mapOf>>

NoMap == [x \in {} |-> 0]
Walking == {"clearing", "walking", "found", "missed"}

-----------------------------------------------------------------------------
\* The task's own redactor numbers names as they first appear in its fields;
\* what is nested in them it does not see.
Seen(t) == {i \in DOMAIN brief[t] : ~brief[t][i].nested}
NamesTo(t, i) == {brief[t][j].name : j \in {k \in Seen(t) : k <= i}}
First(t, x) == CHOOSE i \in Seen(t) :
    brief[t][i].name = x /\ \A j \in Seen(t) : brief[t][j].name = x => i <= j
OwnMap(t) == [x \in NamesTo(t, Len(brief[t])) |-> Cardinality(NamesTo(t, First(t, x)))]

Pairs(map) == {<<x, map[x]>> : x \in DOMAIN map}

AliasInit ==
    /\ shared = NoMap /\ numbered = 0
    /\ brief \in [AliasTasks -> Briefs]
    /\ desk = [t \in AliasTasks |-> "new"]
    /\ purpose = [t \in AliasTasks |-> "retry"]
    /\ walked = [t \in AliasTasks |-> 0]
    /\ shown = [t \in AliasTasks |-> {}] /\ copied = [t \in AliasTasks |-> NoMap]
    /\ quoted = [t \in AliasTasks |-> {}] /\ kept = [t \in AliasTasks |-> NoMap]
    /\ walks = [t \in AliasTasks |-> 0]
    /\ disturbed = {}
    /\ mapOf = [r \in {TaskRole[t] : t \in AliasTasks} |-> [task |-> 0, map |-> NoMap]]

DeskTo(t, d) == desk' = [desk EXCEPT ![t] = d]

-----------------------------------------------------------------------------
PutFirst(t) ==
    /\ desk[t] = "new"
    /\ kept' = [kept EXCEPT ![t] = OwnMap(t)]
    /\ quoted' = [quoted EXCEPT ![t] = Pairs(OwnMap(t))]
    /\ DeskTo(t, "answered")
    /\ UNCHANGED <<shared, numbered, brief, purpose, walked, shown, copied,
                   walks, disturbed, mapOf>>

\* Mutant: only the counters are reset.
ClearedNever == shared

Cleared == NoMap

\* The retries of QA and Dynamic Specialist keep to the task's own redactor: the
\* text and the map stay what they are.
Purposes(t) == IF t \in OwnRetries THEN {"reflect"} ELSE {"retry", "reflect"}

\* _reset clears the map and then the counters, which other walks may be using.
BeginWalk(t) ==
    /\ desk[t] = "answered" /\ walks[t] < MaxWalks
    /\ \E p \in Purposes(t) : purpose' = [purpose EXCEPT ![t] = p]
    /\ shared' = Cleared
    /\ walks' = [walks EXCEPT ![t] = @ + 1]
    /\ LET others == {u \in AliasTasks : desk[u] \in Walking}
       IN  disturbed' = IF others = {} THEN disturbed ELSE disturbed \cup others \cup {t}
    /\ DeskTo(t, "clearing")
    /\ UNCHANGED <<numbered, brief, walked, shown, copied, quoted, kept, mapOf>>

ResetNumbers(t) ==
    /\ desk[t] = "clearing"
    /\ numbered' = 0
    /\ DeskTo(t, "walking")
    /\ UNCHANGED <<shared, brief, purpose, walked, shown, copied, quoted, kept,
                   walks, disturbed, mapOf>>

Mention(t) == brief[t][walked[t] + 1].name

FindAlias(t) ==
    /\ desk[t] = "walking" /\ walked[t] < Len(brief[t])
    /\ DeskTo(t, IF Mention(t) \in DOMAIN shared THEN "found" ELSE "missed")
    /\ UNCHANGED <<shared, numbered, brief, purpose, walked, shown, copied, quoted, kept,
                   walks, disturbed, mapOf>>

Shows(t, n) ==
    /\ shown' = [shown EXCEPT ![t] = @ \cup {<<Mention(t), n>>}]
    /\ walked' = [walked EXCEPT ![t] = @ + 1]
    /\ DeskTo(t, "walking")

EndWalk(t) == walked' = [walked EXCEPT ![t] = 0] /\ shown' = [shown EXCEPT ![t] = {}]

\* An error ends the run, but a retry's for which validate_and_retry asked.
Fails(t) ==
    /\ DeskTo(t, "raised") \/ (purpose[t] = "retry" /\ DeskTo(t, "answered"))
    /\ EndWalk(t)

\* A name that was found and has been cleared since is a KeyError.
TakeAlias(t) ==
    /\ desk[t] = "found"
    /\ IF Mention(t) \in DOMAIN shared
       THEN Shows(t, shared[Mention(t)])
       ELSE Fails(t)
    /\ UNCHANGED <<shared, numbered, brief, purpose, copied, quoted, kept,
                   walks, disturbed, mapOf>>

MakeAlias(t) ==
    /\ desk[t] = "missed"
    /\ numbered' = numbered + 1
    /\ shared' = [x \in DOMAIN shared \cup {Mention(t)} |->
                     IF x = Mention(t) THEN numbered + 1 ELSE shared[x]]
    /\ Shows(t, numbered + 1)
    /\ UNCHANGED <<brief, purpose, copied, quoted, kept, walks, disturbed, mapOf>>

CopyMap(t) ==
    /\ desk[t] = "walking" /\ walked[t] = Len(brief[t])
    /\ copied' = [copied EXCEPT ![t] = shared]
    /\ DeskTo(t, "asked")
    /\ UNCHANGED <<shared, numbered, brief, purpose, walked, shown, quoted, kept,
                   walks, disturbed, mapOf>>

\* The retry's text and map replace the task's together; of a reflection neither
\* is kept.
TakeReply(t) ==
    /\ desk[t] = "asked"
    /\ IF purpose[t] = "retry"
       THEN /\ quoted' = [quoted EXCEPT ![t] = shown[t]]
            /\ kept' = [kept EXCEPT ![t] = copied[t]]
       ELSE UNCHANGED <<quoted, kept>>
    /\ DeskTo(t, "answered") /\ EndWalk(t)
    /\ copied' = [copied EXCEPT ![t] = NoMap]
    /\ UNCHANGED <<shared, numbered, brief, purpose, walks, disturbed, mapOf>>

AgentFails(t) ==
    /\ desk[t] = "asked"
    /\ Fails(t)
    /\ copied' = [copied EXCEPT ![t] = NoMap]
    /\ UNCHANGED <<shared, numbered, brief, purpose, quoted, kept, walks, disturbed, mapOf>>

\* The text joins those of the role, whose one map is the last task's.
RecordAnswer(t) ==
    /\ desk[t] = "answered"
    /\ mapOf' = [mapOf EXCEPT ![TaskRole[t]] = [task |-> t, map |-> kept[t]]]
    /\ DeskTo(t, "done")
    /\ UNCHANGED <<shared, numbered, brief, purpose, walked, shown, copied,
                   quoted, kept, walks, disturbed>>

AliasNext == \E t \in AliasTasks :
    \/ PutFirst(t) \/ BeginWalk(t) \/ ResetNumbers(t) \/ FindAlias(t) \/ TakeAlias(t)
    \/ MakeAlias(t) \/ CopyMap(t) \/ TakeReply(t) \/ AgentFails(t) \/ RecordAnswer(t)

AliasSpec == AliasInit /\ [][AliasNext]_aliasVars

-----------------------------------------------------------------------------
\* rehydrate_output puts back the names whose alias it is.
Restored(r, n) == {x \in DOMAIN mapOf[r].map : mapOf[r].map[x] = n}

AliasTypeOK ==
    /\ numbered \in Nat
    /\ brief \in [AliasTasks -> Briefs]
    /\ desk \in [AliasTasks -> Walking \cup {"new", "asked", "answered", "raised", "done"}]
    /\ purpose \in [AliasTasks -> {"retry", "reflect"}]
    /\ \A t \in AliasTasks : walked[t] \in 0 .. Len(brief[t]) /\ walks[t] \in 0 .. MaxWalks
    /\ disturbed \subseteq AliasTasks

\* In a role's answers every alias in the last task's text gives its own name
\* back, whatever was retried, reflected on or failed in between, unless another
\* thread reset the redactor during a walk of the task.
NamesRestored ==
    \A r \in DOMAIN mapOf :
        LET t == mapOf[r].task
        IN  t \in AliasTasks \ disturbed =>
                \A q \in quoted[t] : Restored(r, q[2]) = {q[1]}
=============================================================================
