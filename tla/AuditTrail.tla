----------------------------- MODULE AuditTrail -----------------------------
(***************************************************************************)
(* The audit log of a tenant (core/audit_log.py), a file of records each   *)
(* carrying the hash of the one before, and what rewrites or removes the   *)
(* tenant's files behind it: the erasure of a subject                      *)
(* (dr_rd/privacy/erasure.py) and the retention sweep (retention.py).      *)
(* Appenders read the last line, close the file, then open it to append;   *)
(* nothing holds the file meanwhile.                                       *)
(*                                                                         *)
(* A hash is the record's id: records are never equal.  A record whose     *)
(* text was replaced keeps its hash, which no longer fits it.              *)
(***************************************************************************)
EXTENDS Naturals, Sequences

CONSTANTS
    Appenders,   \* threads that append events
    Naming,      \* those whose event names the subject
    MaxRecords   \* bound: records ever written

VARIABLES
    trail,     \* the records of audit.jsonl
    exists,    \* whether the file exists
    pen,       \* where each appender is
    prev,      \* the prev_hash it has read, 0 for ""
    written,   \* history: records ever written, the last one's id
    eraser,    \* where execute_erasure is
    copy,      \* the text of audit.jsonl it has read
    others,    \* other files with the subject that it has still to visit
    mixed      \* history: an append overlapped another writer of the log, or a
               \* record was rewritten

auditVars == <<trail, exists, pen, prev, written, eraser, copy, others, mixed>>

AuditInit ==
    /\ trail = <<>> /\ exists = FALSE
    /\ pen = [a \in Appenders |-> "idle"]
    /\ prev = [a \in Appenders |-> 0]
    /\ written = 0
    /\ eraser = "idle" /\ copy = <<>> /\ others \in 0 .. 1
    /\ mixed = FALSE

\* An append is between its read and its write.
Underway == {a \in Appenders : pen[a] \in {"read", "opened"}}

Mixes(overlap) == mixed' = (mixed \/ overlap)

-----------------------------------------------------------------------------
\* Reading the last line of a file that exists and is empty raises: the loop
\* variable it looks at was never bound.
Readable == exists => trail # <<>>

\* Mutant: the hash of the first line, not the last, is read.
FirstRead == IF exists THEN trail[1].id ELSE 0

PrevRead == IF exists THEN trail[Len(trail)].id ELSE 0

ReadLast(a) ==
    /\ pen[a] = "idle" /\ written < MaxRecords
    /\ IF Readable
       THEN /\ prev' = [prev EXCEPT ![a] = PrevRead]
            /\ pen' = [pen EXCEPT ![a] = "read"]
       ELSE /\ pen' = [pen EXCEPT ![a] = "failed"]
            /\ UNCHANGED prev
    /\ Mixes(Underway # {})
    /\ UNCHANGED <<trail, exists, written, eraser, copy, others>>

\* open("a") creates the file; the line is written when it is closed.
Open(a) ==
    /\ pen[a] = "read"
    /\ exists' = TRUE
    /\ pen' = [pen EXCEPT ![a] = "opened"]
    /\ UNCHANGED <<trail, prev, written, eraser, copy, others, mixed>>

Entry(a) == [id |-> written + 1, prev |-> prev[a], names |-> a \in Naming, fits |-> TRUE]

\* What is written to a file that was unlinked since it was opened is lost.
Write(a) ==
    /\ pen[a] = "opened"
    /\ trail' = IF exists THEN Append(trail, Entry(a)) ELSE trail
    /\ written' = written + 1
    /\ pen' = [pen EXCEPT ![a] = "idle"]
    /\ UNCHANGED <<exists, prev, eraser, copy, others, mixed>>

\* The process dies with the file open.
Die(a) ==
    /\ pen[a] = "opened"
    /\ pen' = [pen EXCEPT ![a] = "dead"]
    /\ UNCHANGED <<trail, exists, prev, written, eraser, copy, others, mixed>>

-----------------------------------------------------------------------------
\* sweep_ttl removes the whole file when it was not written for audit_days.
Sweep ==
    /\ exists
    /\ exists' = FALSE /\ trail' = <<>>
    /\ Mixes(Underway # {})
    /\ UNCHANGED <<pen, prev, written, eraser, copy, others>>

\* execute_erasure visits the files of the tenant, in any order: the log ...
VisitLog ==
    /\ eraser = "idle" /\ exists
    /\ copy' = trail
    /\ eraser' = IF \E i \in DOMAIN trail : trail[i].names THEN "holding" ELSE "visited"
    /\ UNCHANGED <<trail, exists, pen, prev, written, others, mixed>>

Erased(r) == IF r.names THEN [r EXCEPT !.names = FALSE, !.fits = FALSE] ELSE r

\* ... which is replaced by what was read of it with the subject's key erased,
RewriteLog ==
    /\ eraser = "holding"
    /\ trail' = [i \in DOMAIN copy |-> Erased(copy[i])]
    /\ exists' = TRUE
    /\ eraser' = "noting"
    /\ mixed' = TRUE
    /\ UNCHANGED <<pen, prev, written, copy, others>>

\* ... and others, for each of which, too, a redaction is appended.
VisitOther ==
    /\ eraser \in {"idle", "visited"} /\ others > 0
    /\ others' = others - 1
    /\ eraser' = IF eraser = "idle" THEN "notingFirst" ELSE "noting"
    /\ UNCHANGED <<trail, exists, pen, prev, written, copy, mixed>>

\* append_redaction, like the appenders above but taken as one step.
NoteRedaction ==
    /\ eraser \in {"noting", "notingFirst"} /\ written < MaxRecords
    /\ IF Readable
       THEN /\ trail' = Append(trail, [id |-> written + 1, prev |-> PrevRead,
                                       names |-> FALSE, fits |-> TRUE])
            /\ exists' = TRUE /\ written' = written + 1
            /\ eraser' = IF eraser = "noting" THEN "visited" ELSE "idle"
       ELSE /\ eraser' = "failed"
            /\ UNCHANGED <<trail, exists, written>>
    /\ Mixes(Underway # {})
    /\ UNCHANGED <<pen, prev, copy, others>>

AuditNext ==
    \/ \E a \in Appenders : ReadLast(a) \/ Open(a) \/ Write(a) \/ Die(a)
    \/ Sweep \/ VisitLog \/ RewriteLog \/ VisitOther \/ NoteRedaction

AuditSpec == AuditInit /\ [][AuditNext]_auditVars

-----------------------------------------------------------------------------
\* verify_chain.
Verifies ==
    \A i \in DOMAIN trail :
        /\ trail[i].fits
        /\ trail[i].prev = IF i = 1 THEN 0 ELSE trail[i - 1].id

Records == [id : Nat, prev : Nat, names : BOOLEAN, fits : BOOLEAN]

AuditTypeOK ==
    /\ trail \in Seq(Records) /\ copy \in Seq(Records)
    /\ exists \in BOOLEAN
    /\ pen \in [Appenders -> {"idle", "read", "opened", "failed", "dead"}]
    /\ prev \in [Appenders -> Nat]
    /\ written \in Nat
    /\ eraser \in {"idle", "holding", "noting", "notingFirst", "visited", "failed"}
    /\ others \in 0 .. 1
    /\ mixed \in BOOLEAN

\* verify_chain accepts every log on which no append overlapped another writer
\* and no erasure rewrote a record, also when a sweep removed it in between, an
\* appender died with it open, or redactions were noted in it.
UnmixedVerifies == mixed \/ Verifies
=============================================================================
