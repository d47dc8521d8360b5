----------------------------- MODULE Artifacts ------------------------------
(***************************************************************************)
(* The files of a project beside its runs: what execute_plan leaves under  *)
(* audits/<slug> and memory/decision_log when its tasks are done, and the  *)
(* bundle that compose_final_proposal packs from them                      *)
(* (core/orchestrator.py, core/final).  The slug is made from the idea, so *)
(* that all runs of one idea write the same names, and a bundle takes      *)
(* whatever files it finds.                                                *)
(*                                                                         *)
(* A file is whose it is: the run that wrote it last.  save_evidence and   *)
(* save_decision_log are on, as every caller leaves them.                  *)
(***************************************************************************)
EXTENDS Naturals, Sequences

CONSTANTS
    Repeats,    \* runs with one slug
    Nobody

ASSUME ArtifactAssumption == Nobody \notin Repeats

Build == {"sdd", "impl_plan", "bom", "budget"}

\* In the order in which they are packed.
Listing == <<"evidence", "coverage", "decision_log", "poc_report",
             "sdd", "impl_plan", "bom", "budget">>
Appendices == {Listing[i] : i \in DOMAIN Listing}

VARIABLES
    disk,      \* whose each file is
    emitting,   \* where each run is
    made,       \* the files it has written
    appendices, \* those that its bundle is to hold
    bundle,     \* whose they were when they were packed
    crossed     \* history: runs that were not alone from their first task on

artifactVars == <<disk, emitting, made, appendices, bundle, crossed>>

ArtifactInit ==
    /\ disk = [a \in Appendices |-> Nobody]
    /\ emitting = [r \in Repeats |-> "new"]
    /\ made = [r \in Repeats |-> {}]
    /\ appendices = [r \in Repeats |-> {}]
    /\ bundle = [r \in Repeats |-> [a \in Appendices |-> Nobody]]
    /\ crossed = {}

Ended == {"new", "bundled", "failed"}
Present == {a \in Appendices : disk[a] # Nobody}

\* A run begins at a place while others are under way.
Enters(r, place) ==
    LET others == {o \in Repeats \ {r} : emitting[o] \notin Ended}
    IN  /\ emitting[r] = "new" /\ emitting' = [emitting EXCEPT ![r] = place]
        /\ crossed' = IF others = {} THEN crossed ELSE crossed \cup others \cup {r}

Goes(r, from, to) ==
    /\ emitting[r] = from /\ emitting' = [emitting EXCEPT ![r] = to]
    /\ UNCHANGED crossed

Writes(r, names) ==
    /\ disk' = [a \in Appendices |-> IF a \in names THEN r ELSE disk[a]]
    /\ made' = [made EXCEPT ![r] = @ \cup names]

keptFiles == <<disk, made>>
bundleVars == <<appendices, bundle>>

-----------------------------------------------------------------------------
(* The end of execute_plan. *)

\* The first task is routed, and logs that.
FirstTask(r) ==
    /\ Enters(r, "tasks") /\ Writes(r, {"decision_log"})
    /\ UNCHANGED bundleVars

\* A task's error, a cancellation or the deadline ends the run.
TasksRaise(r) ==
    /\ Goes(r, "tasks", "failed") /\ UNCHANGED <<keptFiles, bundleVars>>

\* Without a role that left findings there are no rows, and no file.
WriteCoverage(r) ==
    /\ Goes(r, "tasks", "covered")
    /\ Writes(r, {"coverage"}) \/ UNCHANGED keptFiles
    /\ UNCHANGED bundleVars

WriteEvidence(r) ==
    /\ Goes(r, "covered", "poc") /\ Writes(r, {"evidence", "decision_log"})
    /\ UNCHANGED bundleVars

\* The tests that the session planned, if it did: the first that names no
\* registered simulation raises, those that fail do not.
RunPoc(r) ==
    /\ \/ Goes(r, "poc", "assemble") /\ UNCHANGED keptFiles
       \/ Goes(r, "poc", "assemble") /\ Writes(r, {"poc_report"})
       \/ Goes(r, "poc", "failed") /\ UNCHANGED keptFiles
    /\ UNCHANGED bundleVars

\* Mutant: the build is made where it can be, as the other files are.
MalformedSkipped(r) == Goes(r, "assemble", "executed")

\* An interface, a data flow or an item of the agents' answers that lacks a field
\* fails its model's validation, which nothing catches.
Malformed(r) == Goes(r, "assemble", "failed")

Assemble(r) ==
    /\ Goes(r, "assemble", "sdd") \/ Malformed(r)
    /\ UNCHANGED <<keptFiles, bundleVars>>

Following(name) ==
    CASE name = "sdd" -> "impl_plan" [] name = "impl_plan" -> "bom"
      [] name = "bom" -> "budget" [] name = "budget" -> "contracts"

WriteBuild(r, name) ==
    /\ Goes(r, name, Following(name)) /\ Writes(r, {name})
    /\ UNCHANGED bundleVars

\* One more file for each interface, under a name that an agent gave: one that no
\* file can have ends the run.
WriteContracts(r) ==
    /\ Goes(r, "contracts", "executed") \/ Goes(r, "contracts", "failed")
    /\ UNCHANGED <<keptFiles, bundleVars>>

-----------------------------------------------------------------------------
(* compose_final_proposal. *)

\* A run that resumes an executed one composes without executing.
ResumeComposing(r) ==
    /\ Enters(r, "executed") /\ UNCHANGED <<keptFiles, bundleVars>>

\* The files are looked for when the Synthesizer has answered, if it does.
FindAppendices(r) ==
    /\ \/ /\ Goes(r, "executed", "packing")
          /\ appendices' = [appendices EXCEPT ![r] = Present]
       \/ Goes(r, "executed", "failed") /\ UNCHANGED appendices
    /\ UNCHANGED <<keptFiles, bundle>>

Pack(r, i) ==
    /\ Goes(r, "packing", "packing")
    /\ Listing[i] \in appendices[r]
    /\ \A j \in 1 .. i - 1 : Listing[j] \notin appendices[r]
    /\ bundle' = [bundle EXCEPT ![r][Listing[i]] = disk[Listing[i]]]
    /\ appendices' = [appendices EXCEPT ![r] = @ \ {Listing[i]}]
    /\ UNCHANGED keptFiles

CloseBundle(r) ==
    /\ appendices[r] = {} /\ Goes(r, "packing", "bundled")
    /\ UNCHANGED <<keptFiles, bundleVars>>

ArtifactNext ==
    \E r \in Repeats :
        \/ FirstTask(r) \/ TasksRaise(r) \/ WriteCoverage(r) \/ WriteEvidence(r)
        \/ RunPoc(r) \/ Assemble(r)
        \/ WriteContracts(r)
        \/ \E name \in Build : WriteBuild(r, name)
        \/ ResumeComposing(r) \/ FindAppendices(r)
        \/ \E i \in DOMAIN Listing : Pack(r, i)
        \/ CloseBundle(r)

ArtifactSpec == ArtifactInit /\ [][ArtifactNext]_artifactVars

-----------------------------------------------------------------------------
ArtifactTypeOK ==
    /\ disk \in [Appendices -> Repeats \cup {Nobody}]
    /\ emitting \in [Repeats -> Ended \cup Build \cup
           {"tasks", "covered", "poc", "assemble", "contracts", "executed", "packing"}]
    /\ made \in [Repeats -> SUBSET Appendices]
    /\ appendices \in [Repeats -> SUBSET Appendices]
    /\ bundle \in [Repeats -> [Appendices -> Repeats \cup {Nobody}]]
    /\ crossed \subseteq Repeats

Executed(r) == "decision_log" \in made[r]

\* What an earlier run of the project may have left and this one not replaced:
\* the coverage of a run with findings, and the results of tests it had planned.
Leavings == {"coverage", "poc_report"}

\* The bundle of a run that executed while no other run of its project did holds
\* everything the run made, the whole build among it, and nothing of others but
\* the leavings it did not make itself.
BundleIsOwn ==
    \A r \in Repeats :
        emitting[r] = "bundled" /\ r \notin crossed /\ Executed(r) =>
            /\ Build \subseteq made[r]
            /\ \A a \in made[r] \cup (Appendices \ Leavings) : bundle[r][a] = r
=============================================================================
