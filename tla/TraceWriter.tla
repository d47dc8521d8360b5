---------------------------- MODULE TraceWriter ----------------------------
(***************************************************************************)
(* The trace of one run (utils/trace_writer.py): threads append entries to *)
(* trace.json by reading the whole file, adding the entry and replacing    *)
(* the file.  append_step does so under a lock of the process, looked up   *)
(* or created in an unprotected table; append_event takes no lock.         *)
(*                                                                         *)
(* An entry is identified with the call that appends it, and a lock with   *)
(* the call that created it.  A missing file and an empty trace read alike.*)
(***************************************************************************)
EXTENDS Sequences, Naturals

CONSTANTS Calls,      \* the calls of append_step and append_event for the run
          Events,     \* those of append_event
          NoLock,     \* absence of a lock
          MainFirst,  \* the first append of a process runs alone, as the
                      \* main thread's does before it starts the pool
          CanMisread, \* whether reading an existing trace may fail
          CanCrash    \* whether the process may die

ASSUME WriterAssumption ==
    /\ Events \subseteq Calls
    /\ NoLock \notin Calls
    /\ MainFirst \in BOOLEAN /\ CanMisread \in BOOLEAN /\ CanCrash \in BOOLEAN

VARIABLES
    trace,    \* content of trace.json
    tmp,      \* calls whose temporary file exists
    cleaned,  \* _CLEANED
    table,    \* _LOCKS[run_id]
    holder,   \* holder[l]: the call inside lock l
    at,       \* at[c]: where call c is
    mine,     \* mine[c]: the lock c got from _lock_for
    snap,     \* snap[c]: the data c read
    tries     \* tries[c]: failed os.replace attempts of c

vars == <<trace, tmp, cleaned, table, holder, at, mine, snap, tries>>

Critical == {"read", "write", "replace", "leave"}
Running == Critical \cup {"lookup", "make", "enter"}
Ended == {"returned", "raised", "dead"}

InTrace(c) == \E i \in 1 .. Len(trace) : trace[i] = c
Active == {c \in Calls : at[c] \in Running}

Init ==
    /\ trace = << >>
    /\ tmp = {}
    /\ cleaned = FALSE
    /\ table = NoLock
    /\ holder = [l \in Calls |-> NoLock]
    /\ at = [c \in Calls |-> "idle"]
    /\ mine = [c \in Calls |-> NoLock]
    /\ snap = [c \in Calls |-> << >>]
    /\ tries = [c \in Calls |-> 0]

-----------------------------------------------------------------------------
\* The first append_step of a process removes temporary files that are over
\* an hour old; only those of calls that died can be.
CleanupStaleTmp ==
    /\ cleaned' = TRUE
    /\ IF cleaned THEN UNCHANGED tmp
       ELSE \E old \in SUBSET {d \in tmp : at[d] = "dead"} : tmp' = tmp \ old

StartStep(c) ==
    /\ at[c] = "idle" /\ c \notin Events
    /\ MainFirst => (table # NoLock \/ Active = {})
    /\ CleanupStaleTmp
    /\ at' = [at EXCEPT ![c] = "lookup"]
    /\ UNCHANGED <<trace, table, holder, mine, snap, tries>>

StartEvent(c) ==
    /\ at[c] = "idle" /\ c \in Events
    /\ MainFirst => (table # NoLock \/ Active = {})
    /\ at' = [at EXCEPT ![c] = "read"]
    /\ UNCHANGED <<trace, tmp, cleaned, table, holder, mine, snap, tries>>

\* _LOCKS.get, then, in a step of its own, the assignment to the table.
LookupLock(c) ==
    /\ at[c] = "lookup"
    /\ mine' = [mine EXCEPT ![c] = table]
    /\ at' = [at EXCEPT ![c] = IF table = NoLock THEN "make" ELSE "enter"]
    /\ UNCHANGED <<trace, tmp, cleaned, table, holder, snap, tries>>

MakeLock(c) ==
    /\ at[c] = "make"
    /\ table' = c
    /\ mine' = [mine EXCEPT ![c] = c]
    /\ at' = [at EXCEPT ![c] = "enter"]
    /\ UNCHANGED <<trace, tmp, cleaned, holder, snap, tries>>

\* Mutant: a lock that does not exclude.
EnterAnyway(c) ==
    /\ at[c] = "enter"
    /\ holder' = [holder EXCEPT ![mine[c]] = c]
    /\ at' = [at EXCEPT ![c] = "read"]
    /\ UNCHANGED <<trace, tmp, cleaned, table, mine, snap, tries>>

EnterLock(c) ==
    /\ at[c] = "enter"
    /\ holder[mine[c]] = NoLock
    /\ holder' = [holder EXCEPT ![mine[c]] = c]
    /\ at' = [at EXCEPT ![c] = "read"]
    /\ UNCHANGED <<trace, tmp, cleaned, table, mine, snap, tries>>

\* A file that cannot be read or parsed counts as an empty trace.
ReadTrace(c) ==
    /\ at[c] = "read"
    /\ \/ snap' = [snap EXCEPT ![c] = trace]
       \/ CanMisread /\ snap' = [snap EXCEPT ![c] = << >>]
    /\ at' = [at EXCEPT ![c] = "write"]
    /\ UNCHANGED <<trace, tmp, cleaned, table, holder, mine, tries>>

\* Mutant: an exception that skips the release.
KeepLock(c) == UNCHANGED holder

\* Leaving the with block, by return or by an exception.
Unlock(c) == holder' = [l \in Calls |-> IF holder[l] = c THEN NoLock ELSE holder[l]]

WriteTmp(c) ==
    /\ at[c] = "write"
    /\ tmp' = tmp \cup {c}
    /\ at' = [at EXCEPT ![c] = "replace"]
    /\ UNCHANGED <<trace, cleaned, table, holder, mine, snap, tries>>

WriteTmpFails(c) ==
    /\ at[c] = "write"
    /\ at' = [at EXCEPT ![c] = "raised"]
    /\ Unlock(c)
    /\ UNCHANGED <<trace, tmp, cleaned, table, mine, snap, tries>>

\* Mutant: a replace that drops what was read.
EntryAlone(s, c) == <<c>>

WithEntry(s, c) == Append(s, c)

Replace(c) ==
    /\ at[c] = "replace"
    /\ trace' = WithEntry(snap[c], c)
    /\ tmp' = tmp \ {c}
    /\ at' = [at EXCEPT ![c] = "leave"]
    /\ UNCHANGED <<cleaned, table, holder, mine, snap, tries>>

\* os.replace is tried three times, and a failure unlinks the file.
RetryReplace(c) ==
    /\ at[c] = "replace" /\ tries[c] < 2
    /\ tries' = [tries EXCEPT ![c] = @ + 1]
    /\ UNCHANGED <<trace, tmp, cleaned, table, holder, at, mine, snap>>

\* Mutant: the temporary file stays when the last attempt fails.
LeaveTmp(c) == UNCHANGED tmp

UnlinkTmp(c) == tmp' = tmp \ {c}

ReplaceFails(c) ==
    /\ at[c] = "replace" /\ tries[c] = 2
    /\ UnlinkTmp(c)
    /\ at' = [at EXCEPT ![c] = "raised"]
    /\ Unlock(c)
    /\ UNCHANGED <<trace, cleaned, table, mine, snap, tries>>

Leave(c) ==
    /\ at[c] = "leave"
    /\ at' = [at EXCEPT ![c] = "returned"]
    /\ Unlock(c)
    /\ UNCHANGED <<trace, tmp, cleaned, table, mine, snap, tries>>

\* The process dies: its threads, its locks and its table are gone, and the
\* files stay.
Crash ==
    /\ CanCrash
    /\ at' = [c \in Calls |-> IF c \in Active THEN "dead" ELSE at[c]]
    /\ table' = NoLock
    /\ holder' = [l \in Calls |-> NoLock]
    /\ cleaned' = FALSE
    /\ UNCHANGED <<trace, tmp, mine, snap, tries>>

Progress(c) ==
    \/ LookupLock(c) \/ MakeLock(c) \/ EnterLock(c) \/ ReadTrace(c)
    \/ WriteTmp(c) \/ Replace(c) \/ Leave(c)

Next ==
    \/ \E c \in Calls : \/ StartStep(c) \/ StartEvent(c) \/ Progress(c)
                        \/ WriteTmpFails(c) \/ RetryReplace(c) \/ ReplaceFails(c)
    \/ Crash

Spec == Init /\ [][Next]_vars

\* A thread that can go on does.
FairSpec == Spec /\ \A c \in Calls : WF_vars(Progress(c))

-----------------------------------------------------------------------------
\* Types of the variables of utils/trace_writer.py's model.
TypeOK ==
    /\ trace \in Seq(Calls)
    /\ tmp \subseteq Calls
    /\ cleaned \in BOOLEAN
    /\ table \in Calls \cup {NoLock}
    /\ holder \in [Calls -> Calls \cup {NoLock}]
    /\ at \in [Calls -> Running \cup Ended \cup {"idle"}]
    /\ mine \in [Calls -> Calls \cup {NoLock}]
    /\ snap \in [Calls -> Seq(Calls)]
    /\ tries \in [Calls -> 0 .. 2]

\* What a call read is still what the file holds when the call replaces it:
\* nobody else's append fits between the read and the replace.
NoStaleSnapshot == \A c \in Calls : at[c] \in {"write", "replace"} => snap[c] = trace

\* Temporary files are of calls about to replace the file or of calls that
\* died: success, retries and failure all unlink theirs.
TmpAccounted == \A c \in tmp : at[c] \in {"replace", "dead"}

Lost(c) == at[c] = "returned" /\ ~InTrace(c)

\* Every append that entered ends, although others raise inside the lock.
EveryAppendEnds == \A c \in Calls : at[c] \in Running ~> at[c] \in Ended

\* "assert len(data) == 20" after twenty concurrent append_step calls: every
\* append that returned is in the file.
NoAppendLost == \A c \in Calls : ~Lost(c)

\* The calls as AppendLog sees them.
CallState(c) ==
    CASE at[c] = "idle" -> "new"
      [] at[c] \in Running -> "running"
      [] OTHER -> at[c]

Promise == INSTANCE AppendLog WITH log <- trace, state <- [c \in Calls |-> CallState(c)]

\* append_step implements an atomic append: its entry takes effect once,
\* between its call and its return, at the end of the trace.
ImplementsAppendLog == Promise!Spec
=============================================================================
