------------------------------ MODULE DocStore ------------------------------
(***************************************************************************)
(* The JSON documents the application keeps beside its runs: each is read  *)
(* whole, changed, and written whole.  Some are written under a temporary  *)
(* name, always the same, which then replaces the document; others in      *)
(* place.  Nothing orders the sessions that do so, and the server may die  *)
(* at any point.                                                           *)
(*                                                                         *)
(* A document's content is the set of its entries; Broken is a file that   *)
(* was opened for writing and not yet written, or holds the end of a       *)
(* longer text.                                                            *)
(***************************************************************************)
EXTENDS Naturals, FiniteSets

CONSTANTS
    Writers,   \* sessions
    Entries,
    Broken, Absent

ASSUME DocAssumption == Broken # Absent /\ \A S \in SUBSET Entries : S \notin {Broken, Absent}

VARIABLES
    store,      \* how the document is kept
    doc, tmp,   \* the document and the file beside it
    hand,       \* where each writer is
    copied,     \* the entries it goes by
    change,     \* what it is about
    handle,     \* the file it has open: doc, tmp, or one that was replaced
    saved,      \* history: the entries whose saving has returned
    overlapped, \* history: a writer read while another was between read and write
    died        \* history: the server died

docVars == <<store, doc, tmp, hand, copied, change, handle, saved, overlapped, died>>

\* How each document is written: under a temporary name; with a lock that is
\* held while it is read or written, but not in between; with the temporary file
\* removed that is there when a save has ended.
Kept == [staged |-> FALSE, locked |-> FALSE, tidied |-> FALSE]
KnowledgeMeta == [Kept EXCEPT !.staged = TRUE, !.tidied = TRUE]
Preferences == [Kept EXCEPT !.staged = TRUE]
RunNotes == [Kept EXCEPT !.staged = TRUE]
RunMeta == Kept
ProjectMemory == [Kept EXCEPT !.locked = TRUE]

Documents == {KnowledgeMeta, Preferences, RunNotes, RunMeta, ProjectMemory}

DocInit ==
    /\ store \in Documents
    /\ doc = Absent /\ tmp = Absent
    /\ hand = [w \in Writers |-> "idle"]
    /\ copied = [w \in Writers |-> {}]
    /\ change \in [Writers -> {"add", "remove"} \X Entries]
    /\ handle = [w \in Writers |-> "none"]
    /\ saved = {} /\ overlapped = FALSE /\ died = FALSE

-----------------------------------------------------------------------------
\* A document that is missing or cannot be read counts as empty.
Content(file) == IF file \in {Absent, Broken} THEN {} ELSE file

Unlocked == store.locked => \A v \in Writers : hand[v] # "opened"

LoadDoc(w) ==
    /\ hand[w] = "idle"
    /\ Unlocked
    /\ copied' = [copied EXCEPT ![w] = Content(doc)]
    /\ hand' = [hand EXCEPT ![w] = "loaded"]
    /\ overlapped' = (overlapped \/ \E v \in Writers : hand[v] # "idle")
    /\ UNCHANGED <<store, doc, tmp, change, handle, saved, died>>

\* What is to be written: the entry put in, or taken out.
Changed(w) ==
    LET e == change[w][2]
    IN  IF change[w][1] = "add" THEN copied[w] \cup {e} ELSE copied[w] \ {e}

\* Mutant: the document itself is written.
StagedNever == FALSE

Staged == store.staged

Opens == IF Staged THEN "tmp" ELSE "doc"

\* open("w") empties the file.
OpenDoc(w) ==
    /\ hand[w] = "loaded"
    /\ Unlocked
    /\ copied' = [copied EXCEPT ![w] = Changed(w)]
    /\ IF Opens = "tmp"
       THEN tmp' = Broken /\ UNCHANGED doc
       ELSE doc' = Broken /\ UNCHANGED tmp
    /\ handle' = [handle EXCEPT ![w] = Opens]
    /\ saved' = saved \ {change[w][2]}
    /\ hand' = [hand EXCEPT ![w] = "opened"]
    /\ UNCHANGED <<store, change, overlapped, died>>

\* Over what another wrote to the same file, a shorter text leaves its end.
Written(file, w) ==
    {copied[w]} \cup (IF file \in {Absent, Broken} THEN {} ELSE {Broken})

NextChange(w) == \E c \in {"add", "remove"} \X Entries : change' = [change EXCEPT ![w] = c]

\* The save returns.
Returns(w) ==
    /\ saved' = IF change[w][1] = "add" THEN saved \cup {change[w][2]} ELSE saved
    /\ hand' = [hand EXCEPT ![w] = "idle"]
    /\ NextChange(w)

\* A file that was replaced meanwhile is not seen by anyone.
FillDoc(w) ==
    /\ hand[w] = "opened"
    /\ CASE handle[w] = "tmp" -> (\E c \in Written(tmp, w) : tmp' = c) /\ UNCHANGED doc
         [] handle[w] = "doc" -> (\E c \in Written(doc, w) : doc' = c) /\ UNCHANGED tmp
         [] OTHER -> UNCHANGED <<doc, tmp>>
    /\ handle' = [handle EXCEPT ![w] = "none"]
    /\ IF Staged
       THEN hand' = [hand EXCEPT ![w] = "filled"] /\ UNCHANGED <<saved, change>>
       ELSE Returns(w)
    /\ UNCHANGED <<store, copied, overlapped, died>>

\* A file that is renamed or removed takes along the writers that have it open.
Moved(file, place) == [v \in Writers |-> IF handle[v] = file THEN place ELSE handle[v]]

\* tmp.replace(path) raises when another has taken the file away.
ReplaceDoc(w) ==
    /\ hand[w] = "filled"
    /\ IF tmp = Absent
       THEN /\ hand' = [hand EXCEPT ![w] = "idle"]
            /\ NextChange(w)
            /\ UNCHANGED <<doc, tmp, handle, saved>>
       ELSE /\ doc' = tmp /\ tmp' = Absent
            /\ handle' = [v \in Writers |->
                  IF handle[v] = "doc" THEN "gone" ELSE Moved("tmp", "doc")[v]]
            /\ IF store.tidied
               THEN hand' = [hand EXCEPT ![w] = "replaced"] /\ UNCHANGED <<saved, change>>
               ELSE Returns(w)
    /\ UNCHANGED <<store, copied, overlapped, died>>

\* The finally clause of _write_meta: a temporary file is another writer's.
TidyDoc(w) ==
    /\ hand[w] = "replaced"
    /\ tmp' = Absent /\ handle' = Moved("tmp", "gone")
    /\ Returns(w)
    /\ UNCHANGED <<store, doc, copied, overlapped, died>>

\* The server dies, and every session starts again from the files.
DieStore ==
    /\ \E w \in Writers : hand[w] # "idle"
    /\ hand' = [w \in Writers |-> "idle"]
    /\ handle' = [w \in Writers |-> "none"]
    /\ copied' = [w \in Writers |-> {}]
    /\ died' = TRUE
    /\ UNCHANGED <<store, doc, tmp, change, saved, overlapped>>

DocNext ==
    \/ \E w \in Writers : LoadDoc(w) \/ OpenDoc(w) \/ FillDoc(w) \/ ReplaceDoc(w) \/ TidyDoc(w)
    \/ DieStore

DocSpec == DocInit /\ [][DocNext]_docVars

-----------------------------------------------------------------------------
Files == (SUBSET Entries) \cup {Broken, Absent}

DocTypeOK ==
    /\ store \in Documents
    /\ doc \in Files /\ tmp \in Files
    /\ hand \in [Writers -> {"idle", "loaded", "opened", "filled", "replaced"}]
    /\ copied \in [Writers -> SUBSET Entries]
    /\ change \in [Writers -> {"add", "remove"} \X Entries]
    /\ handle \in [Writers -> {"none", "doc", "tmp", "gone"}]
    /\ saved \subseteq Entries
    /\ overlapped \in BOOLEAN /\ died \in BOOLEAN

\* As long as no two writers overlapped, every entry whose saving has returned is
\* read back: from a document written under a temporary name at any moment and
\* after any crash, from one written in place when no writer has it open and the
\* server has not died.
SavesSurvive ==
    \/ overlapped
    \/ ~store.staged /\ (died \/ \E w \in Writers : hand[w] = "opened")
    \/ saved \subseteq Content(doc)
=============================================================================
