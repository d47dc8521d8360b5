------------------------- MODULE TraceWriter_proofs -------------------------
(***************************************************************************)
(* Proofs about TraceWriter: its types, and, where the first append of a   *)
(* process runs alone and traces can be read, that append_step implements  *)
(* AppendLog for any number of calls, replace failures and process deaths. *)
(***************************************************************************)
EXTENDS TraceWriter, TLAPS

LEMMA InTraceAppend ==
    ASSUME trace \in Seq(Calls), NEW c \in Calls, trace' = Append(trace, c), NEW d \in Calls
    PROVE  InTrace(d)' <=> (InTrace(d) \/ d = c)
<1>1. /\ trace' \in Seq(Calls) /\ Len(trace') = Len(trace) + 1
      /\ \A i \in 1 .. Len(trace) : trace'[i] = trace[i]
      /\ trace'[Len(trace) + 1] = c
  OBVIOUS
<1>2. Len(trace) \in Nat
  OBVIOUS
<1>3. ASSUME InTrace(d) PROVE InTrace(d)'
  <2>1. PICK i \in 1 .. Len(trace) : trace[i] = d
    BY <1>3 DEF InTrace
  <2>2. i \in 1 .. Len(trace') /\ trace'[i] = d
    BY <1>1, <1>2, <2>1
  <2> QED
    BY <2>2 DEF InTrace
<1>4. ASSUME d = c PROVE InTrace(d)'
  <2>1. Len(trace) + 1 \in 1 .. Len(trace') /\ trace'[Len(trace) + 1] = d
    BY <1>1, <1>2, <1>4
  <2> QED
    BY <2>1 DEF InTrace
<1>5. ASSUME InTrace(d)', d # c PROVE InTrace(d)
  <2>1. PICK i \in 1 .. Len(trace') : trace'[i] = d
    BY <1>5 DEF InTrace
  <2>2. i \in 1 .. Len(trace)
    BY <1>1, <1>2, <1>5, <2>1
  <2> QED
    BY <1>1, <2>1, <2>2 DEF InTrace
<1> QED
  BY <1>3, <1>4, <1>5

LEMMA EmptyTrace == << >> \in Seq(Calls)
  OBVIOUS

LEMMA InitTypes == Init => TypeOK
<1> SUFFICES ASSUME Init PROVE TypeOK
  OBVIOUS
<1>1. snap \in [Calls -> Seq(Calls)] /\ trace \in Seq(Calls)
  BY EmptyTrace, Zenon DEF Init
<1>2. mine \in [Calls -> Calls \cup {NoLock}] /\ holder \in [Calls -> Calls \cup {NoLock}]
  BY DEF Init
<1>3. at \in [Calls -> Running \cup Ended \cup {"idle"}] /\ tries \in [Calls -> 0 .. 2]
  BY DEF Init
<1> QED
  BY <1>1, <1>2, <1>3 DEF Init, TypeOK

-----------------------------------------------------------------------------
LEMMA TypeKept == TypeOK /\ [Next]_vars => TypeOK'
<1> SUFFICES ASSUME TypeOK, [Next]_vars PROVE TypeOK'
  OBVIOUS
<1> USE WriterAssumption DEF TypeOK, Running, Critical, Ended
<1>1. ASSUME NEW c \in Calls, StartStep(c) PROVE TypeOK'
  BY <1>1 DEF StartStep, CleanupStaleTmp
<1>2. ASSUME NEW c \in Calls, StartEvent(c) PROVE TypeOK'
  BY <1>2 DEF StartEvent
<1>3. ASSUME NEW c \in Calls, LookupLock(c) PROVE TypeOK'
  BY <1>3 DEF LookupLock
<1>4. ASSUME NEW c \in Calls, MakeLock(c) PROVE TypeOK'
  BY <1>4 DEF MakeLock
<1>5. ASSUME NEW c \in Calls, EnterLock(c) PROVE TypeOK'
  BY <1>5 DEF EnterLock
<1>6. ASSUME NEW c \in Calls, ReadTrace(c) PROVE TypeOK'
  <2>1. snap' \in [Calls -> Seq(Calls)]
    BY <1>6, EmptyTrace DEF ReadTrace
  <2> QED
    BY <1>6, <2>1 DEF ReadTrace
<1>7. ASSUME NEW c \in Calls, WriteTmp(c) PROVE TypeOK'
  BY <1>7 DEF WriteTmp
<1>8. ASSUME NEW c \in Calls, WriteTmpFails(c) PROVE TypeOK'
  BY <1>8 DEF WriteTmpFails, Unlock
<1>9. ASSUME NEW c \in Calls, Replace(c) PROVE TypeOK'
  <2>1. snap[c] \in Seq(Calls)
    OBVIOUS
  <2>2. trace' \in Seq(Calls)
    BY <1>9, <2>1 DEF Replace, WithEntry
  <2> QED
    BY <1>9, <2>2 DEF Replace
<1>10. ASSUME NEW c \in Calls, RetryReplace(c) PROVE TypeOK'
  <2>1. tries[c] \in 0 .. 2 /\ tries[c] + 1 \in 0 .. 2
    BY <1>10 DEF RetryReplace
  <2>2. tries' \in [Calls -> 0 .. 2]
    BY <1>10, <2>1 DEF RetryReplace
  <2> QED
    BY <1>10, <2>2 DEF RetryReplace
<1>11. ASSUME NEW c \in Calls, ReplaceFails(c) PROVE TypeOK'
  BY <1>11 DEF ReplaceFails, UnlinkTmp, Unlock
<1>12. ASSUME NEW c \in Calls, Leave(c) PROVE TypeOK'
  BY <1>12 DEF Leave, Unlock
<1>13. CASE Crash
  BY <1>13 DEF Crash, Active
<1>14. CASE UNCHANGED vars
  BY <1>14 DEF vars
<1> QED
  BY <1>1, <1>2, <1>3, <1>4, <1>5, <1>6, <1>7, <1>8, <1>9, <1>10, <1>11,
     <1>12, <1>13, <1>14 DEF Next, Progress

\* Every variable keeps its type, whatever the constants.
THEOREM TypeCorrect == Spec => []TypeOK
  BY InitTypes, TypeKept, PTL DEF Spec

-----------------------------------------------------------------------------
\* Every action keeps a temporary file with an append that replaces or has died.
LEMMA TmpStep == TypeOK /\ TmpAccounted /\ [Next]_vars => TmpAccounted'
<1> SUFFICES ASSUME TypeOK, TmpAccounted, [Next]_vars PROVE TmpAccounted'
  OBVIOUS
<1> USE DEF TypeOK, TmpAccounted
<1>1. ASSUME NEW c \in Calls, StartStep(c) PROVE TmpAccounted'
  BY <1>1 DEF StartStep, CleanupStaleTmp
<1>2. ASSUME NEW c \in Calls, StartEvent(c) PROVE TmpAccounted'
  BY <1>2 DEF StartEvent
<1>3. ASSUME NEW c \in Calls, LookupLock(c) \/ MakeLock(c) \/ EnterLock(c) \/ ReadTrace(c)
      PROVE  TmpAccounted'
  BY <1>3 DEF LookupLock, MakeLock, EnterLock, ReadTrace
<1>4. ASSUME NEW c \in Calls, WriteTmp(c) \/ WriteTmpFails(c) PROVE TmpAccounted'
  BY <1>4 DEF WriteTmp, WriteTmpFails
<1>5. ASSUME NEW c \in Calls, Replace(c) \/ RetryReplace(c) \/ ReplaceFails(c) \/ Leave(c)
      PROVE  TmpAccounted'
  BY <1>5 DEF Replace, RetryReplace, ReplaceFails, UnlinkTmp, Leave
<1>6. CASE Crash
  BY <1>6 DEF Crash, Active, Running, Critical
<1>7. CASE UNCHANGED vars
  BY <1>7 DEF vars
<1> QED
  BY <1>1, <1>2, <1>3, <1>4, <1>5, <1>6, <1>7 DEF Next, Progress

\* With every fault, in any number of appends and deaths, no temporary file outlives
\* its append but that of a process that died (trace_writer.py:40-66).
THEOREM TmpFilesAccounted == Spec => []TmpAccounted
<1>1. Init => TmpAccounted
  BY DEF Init, TmpAccounted
<1> QED
  BY <1>1, InitTypes, TypeKept, TmpStep, PTL DEF Spec

-----------------------------------------------------------------------------
\* Who waits at a lock waits for a call that is inside and does not wait.
HeldByRunning ==
    /\ \A l \in Calls, c \in Calls : holder[l] = c => at[c] \in Critical
    /\ \A c \in Calls : at[c] = "enter" => mine[c] \in Calls

LEMMA HeldStep == TypeOK /\ HeldByRunning /\ [Next]_vars => HeldByRunning'
<1> SUFFICES ASSUME TypeOK, HeldByRunning, [Next]_vars, NEW l \in Calls, NEW d \in Calls
             PROVE  /\ holder'[l] = d => at'[d] \in Critical
                    /\ at'[d] = "enter" => mine'[d] \in Calls
  BY DEF HeldByRunning
<1>0. /\ holder[l] = d => at[d] \in Critical
      /\ at[d] = "enter" => mine[d] \in Calls
      /\ NoLock \notin Calls
      /\ at[d] \in Running \cup Ended \cup {"idle"}
  BY WriterAssumption DEF HeldByRunning, TypeOK
<1> USE <1>0 DEF TypeOK, Critical
<1>1. ASSUME NEW c \in Calls, StartStep(c) \/ StartEvent(c)
      PROVE  /\ holder'[l] = d => at'[d] \in Critical
             /\ at'[d] = "enter" => mine'[d] \in Calls
  BY <1>1 DEF StartStep, StartEvent
<1>2. ASSUME NEW c \in Calls, LookupLock(c) \/ MakeLock(c)
      PROVE  /\ holder'[l] = d => at'[d] \in Critical
             /\ at'[d] = "enter" => mine'[d] \in Calls
  BY <1>2 DEF LookupLock, MakeLock
<1>3. ASSUME NEW c \in Calls, EnterLock(c)
      PROVE  /\ holder'[l] = d => at'[d] \in Critical
             /\ at'[d] = "enter" => mine'[d] \in Calls
  BY <1>3 DEF EnterLock
<1>4. ASSUME NEW c \in Calls, ReadTrace(c) \/ WriteTmp(c) \/ Replace(c) \/ RetryReplace(c)
      PROVE  /\ holder'[l] = d => at'[d] \in Critical
             /\ at'[d] = "enter" => mine'[d] \in Calls
  BY <1>4 DEF ReadTrace, WriteTmp, Replace, RetryReplace
<1>5. ASSUME NEW c \in Calls, WriteTmpFails(c) \/ ReplaceFails(c) \/ Leave(c)
      PROVE  /\ holder'[l] = d => at'[d] \in Critical
             /\ at'[d] = "enter" => mine'[d] \in Calls
  BY <1>5 DEF WriteTmpFails, ReplaceFails, Leave, Unlock
<1>6. CASE Crash
  BY <1>6 DEF Crash
<1>7. CASE UNCHANGED vars
  BY <1>7 DEF vars
<1> QED
  BY <1>1, <1>2, <1>3, <1>4, <1>5, <1>6, <1>7 DEF Next, Progress

\* No lock outlives the with block of its call, by return, error or death, and no call waits
\* at a lock whose holder waits too: appends never wait for one another in a circle
\* (trace_writer.py:106-115).
THEOREM LocksGiveWay == Spec => []HeldByRunning
<1>1. Init => HeldByRunning
  BY WriterAssumption DEF Init, HeldByRunning
<1> QED
  BY <1>1, InitTypes, TypeKept, HeldStep, PTL DEF Spec

\* The steps that an append may still take, the two repetitions of os.replace included.
StepsLeft(c) ==
    CASE at[c] = "lookup" -> 9
      [] at[c] = "make" -> 8
      [] at[c] = "enter" -> 7
      [] at[c] = "read" -> 6
      [] at[c] = "write" -> 5
      [] at[c] = "replace" -> 4 - tries[c]
      [] at[c] = "leave" -> 1
      [] OTHER -> 0

GoesOn(c) == Progress(c) \/ WriteTmpFails(c) \/ RetryReplace(c) \/ ReplaceFails(c)
Starts(c) == StartStep(c) \/ StartEvent(c)

Counting(c) ==
    /\ at[c] \notin Running => StepsLeft(c) = 0
    /\ at[c] = "lookup" => StepsLeft(c) = 9
    /\ at[c] = "make" => StepsLeft(c) = 8
    /\ at[c] = "enter" => StepsLeft(c) = 7
    /\ at[c] = "read" => StepsLeft(c) = 6
    /\ at[c] = "write" => StepsLeft(c) = 5
    /\ at[c] = "replace" => StepsLeft(c) = 4 - tries[c]
    /\ at[c] = "leave" => StepsLeft(c) = 1

AllCounting == \A c \in Calls : Counting(c)

LEMMA StepsAt == AllCounting
  BY DEF AllCounting, Counting, StepsLeft, Running, Critical

LEMMA AppendCounts ==
    ASSUME TypeOK, NEW c \in Calls
    PROVE  /\ StepsLeft(c) \in 0 .. 9
           /\ GoesOn(c) => StepsLeft(c)' \in 0 .. StepsLeft(c) - 1
           /\ \A d \in Calls \ {c} : Starts(d) \/ GoesOn(d) => StepsLeft(c)' = StepsLeft(c)
<1> USE DEF TypeOK, Running, Critical, Ended
<1>0. Counting(c) /\ Counting(c)' /\ tries[c] \in 0 .. 2
  <2>1. AllCounting'
    BY StepsAt, PTL
  <2> QED
    BY <2>1, StepsAt DEF AllCounting
<1>1. StepsLeft(c) \in 0 .. 9
  BY <1>0 DEF Counting
<1>2. ASSUME GoesOn(c) PROVE StepsLeft(c)' \in 0 .. StepsLeft(c) - 1
  <2> USE <1>0 DEF Counting
  <2>1. CASE LookupLock(c) \/ MakeLock(c) \/ EnterLock(c) \/ ReadTrace(c)
    BY <2>1 DEF LookupLock, MakeLock, EnterLock, ReadTrace
  <2>2. CASE WriteTmp(c) \/ Replace(c) \/ Leave(c)
    BY <2>2 DEF WriteTmp, Replace, Leave
  <2>3. CASE WriteTmpFails(c) \/ RetryReplace(c) \/ ReplaceFails(c)
    BY <2>3 DEF WriteTmpFails, RetryReplace, ReplaceFails
  <2> QED
    BY <1>2, <2>1, <2>2, <2>3 DEF GoesOn, Progress
<1>3. ASSUME NEW d \in Calls \ {c}, Starts(d) \/ GoesOn(d)
      PROVE  at'[c] = at[c] /\ tries'[c] = tries[c]
  BY <1>3 DEF Starts, GoesOn, Progress, StartStep, StartEvent, LookupLock, MakeLock, EnterLock,
     ReadTrace, WriteTmp, Replace, Leave, WriteTmpFails, RetryReplace, ReplaceFails
<1> QED
  BY <1>1, <1>2, <1>3 DEF StepsLeft

\* An append that entered is over after at most nine steps of its own, whatever fails inside
\* the lock, and no other append takes it back.  That it goes on is left to fairness, and to
\* EveryAppendEnds.
THEOREM AppendDescends ==
  Spec => [][\A c \in Calls :
                /\ StepsLeft(c) \in 0 .. 9
                /\ GoesOn(c) => StepsLeft(c)' \in 0 .. StepsLeft(c) - 1
                /\ \A d \in Calls \ {c} : Starts(d) \/ GoesOn(d) => StepsLeft(c)' = StepsLeft(c)]_vars
<1>1. TypeOK => \A c \in Calls :
                  /\ StepsLeft(c) \in 0 .. 9
                  /\ GoesOn(c) => StepsLeft(c)' \in 0 .. StepsLeft(c) - 1
                  /\ \A d \in Calls \ {c} : Starts(d) \/ GoesOn(d) => StepsLeft(c)' = StepsLeft(c)
  BY AppendCounts
<1> QED
  BY TypeCorrect, <1>1, PTL

-----------------------------------------------------------------------------
\* append_step alone, the first of a process on its own, on readable traces.
MainThenPool == MainFirst /\ ~CanMisread /\ Events = {}

\* One lock per process, held by whoever is between read and leave.
OneLock ==
    \A c \in Calls :
        /\ at[c] \in {"lookup", "make"} /\ table = NoLock => Active = {c}
        /\ at[c] = "make" => table = NoLock
        /\ at[c] \in Critical \cup {"enter"} => table # NoLock /\ mine[c] = table
        /\ at[c] \in Critical => holder[table] = c

\* An entry is in the trace from its replace on and not before.
EntryWhenReplaced ==
    \A c \in Calls :
        /\ at[c] \in {"idle", "lookup", "make", "enter", "read", "write", "replace", "raised"}
              => ~InTrace(c)
        /\ at[c] \in {"leave", "returned"} => InTrace(c)

IInv == TypeOK /\ OneLock /\ NoStaleSnapshot /\ EntryWhenReplaced

LEMMA InitInv == Init => IInv
<1> SUFFICES ASSUME Init PROVE IInv
  OBVIOUS
<1>1. ~ \E i \in 1 .. Len(trace) : TRUE
  BY DEF Init
<1>2. \A c \in Calls : at[c] = "idle"
  BY DEF Init
<1> QED
  BY <1>1, <1>2, InitTypes DEF IInv, OneLock, NoStaleSnapshot, EntryWhenReplaced, InTrace, Critical

\* While one call is inside the lock no other one is.
LEMMA OneInside ==
    ASSUME IInv, NEW c \in Calls, at[c] \in Critical, NEW d \in Calls, at[d] \in Critical
    PROVE  c = d
  BY DEF IInv, OneLock

LEMMA OneLockKept ==
    ASSUME MainThenPool, IInv, Next PROVE OneLock'
<1> USE WriterAssumption DEF IInv, TypeOK, OneLock, Active, Running, Critical, Ended, MainThenPool
<1>1. ASSUME NEW c \in Calls, StartStep(c) PROVE OneLock'
  BY <1>1 DEF StartStep
<1>2. ASSUME NEW c \in Calls, StartEvent(c) PROVE OneLock'
  BY <1>2 DEF StartEvent
<1>3. ASSUME NEW c \in Calls, LookupLock(c) PROVE OneLock'
  BY <1>3 DEF LookupLock
<1>4. ASSUME NEW c \in Calls, MakeLock(c) PROVE OneLock'
  BY <1>4 DEF MakeLock
<1>5. ASSUME NEW c \in Calls, EnterLock(c) PROVE OneLock'
  BY <1>5 DEF EnterLock
<1>6. ASSUME NEW c \in Calls, ReadTrace(c) PROVE OneLock'
  BY <1>6 DEF ReadTrace
<1>7. ASSUME NEW c \in Calls, WriteTmp(c) PROVE OneLock'
  BY <1>7 DEF WriteTmp
<1>8. ASSUME NEW c \in Calls, WriteTmpFails(c) PROVE OneLock'
  BY <1>8 DEF WriteTmpFails, Unlock
<1>9. ASSUME NEW c \in Calls, Replace(c) PROVE OneLock'
  BY <1>9 DEF Replace
<1>10. ASSUME NEW c \in Calls, RetryReplace(c) PROVE OneLock'
  BY <1>10 DEF RetryReplace
<1>11. ASSUME NEW c \in Calls, ReplaceFails(c) PROVE OneLock'
  BY <1>11 DEF ReplaceFails, Unlock
<1>12. ASSUME NEW c \in Calls, Leave(c) PROVE OneLock'
  BY <1>12 DEF Leave, Unlock
<1>13. CASE Crash
  BY <1>13 DEF Crash
<1> QED
  BY <1>1, <1>2, <1>3, <1>4, <1>5, <1>6, <1>7, <1>8, <1>9, <1>10, <1>11, <1>12, <1>13
  DEF Next, Progress

\* Only a replace changes the trace, and it appends to it.
LEMMA TraceStep ==
    ASSUME MainThenPool, IInv, Next
    PROVE  \/ trace' = trace
           \/ \E c \in Calls : Replace(c) /\ trace' = Append(trace, c)
<1>1. ASSUME NEW c \in Calls, Replace(c) PROVE trace' = Append(trace, c)
  BY <1>1 DEF Replace, WithEntry, IInv, NoStaleSnapshot
<1> QED
  BY <1>1 DEF Next, Progress, StartStep, StartEvent, LookupLock, MakeLock, EnterLock, ReadTrace,
     WriteTmp, WriteTmpFails, RetryReplace, ReplaceFails, Leave, Crash

LEMMA SnapshotKept ==
    ASSUME MainThenPool, IInv, Next PROVE NoStaleSnapshot'
<1> USE WriterAssumption DEF IInv, TypeOK, NoStaleSnapshot, Running, Critical, Ended, MainThenPool
<1>1. ASSUME NEW c \in Calls, Replace(c) PROVE NoStaleSnapshot'
  <2>1. \A d \in Calls \ {c} : at[d] \notin {"write", "replace"}
    BY <1>1, OneInside DEF Replace
  <2> QED
    BY <1>1, <2>1 DEF Replace
<1>2. ASSUME NEW c \in Calls, ReadTrace(c) PROVE NoStaleSnapshot'
  BY <1>2 DEF ReadTrace
<1> QED
  BY <1>1, <1>2 DEF Next, Progress, StartStep, StartEvent, LookupLock, MakeLock, EnterLock,
     WriteTmp, WriteTmpFails, RetryReplace, ReplaceFails, Leave, Crash, Active

LEMMA EntryKept ==
    ASSUME MainThenPool, IInv, Next PROVE EntryWhenReplaced'
<1> USE WriterAssumption DEF IInv, TypeOK, EntryWhenReplaced, Running, Critical, Ended
<1>1. ASSUME NEW c \in Calls, Replace(c), trace' = Append(trace, c) PROVE EntryWhenReplaced'
  <2>1. \A d \in Calls : InTrace(d)' <=> (InTrace(d) \/ d = c)
    BY <1>1, InTraceAppend
  <2> QED
    BY <1>1, <2>1 DEF Replace
<1>2. ASSUME trace' = trace, ~ \E c \in Calls : Replace(c) PROVE EntryWhenReplaced'
  <2>1. \A d \in Calls : InTrace(d)' <=> InTrace(d)
    BY <1>2 DEF InTrace
  <2> QED
    BY <1>2, <2>1 DEF Next, Progress, StartStep, StartEvent, LookupLock, MakeLock, EnterLock,
       ReadTrace, WriteTmp, WriteTmpFails, RetryReplace, ReplaceFails, Leave, Crash, Active
<1>3. \A c \in Calls : Replace(c) => trace' = Append(trace, c)
  BY DEF Replace, WithEntry, NoStaleSnapshot
<1> QED
  BY <1>1, <1>2, <1>3, TraceStep

LEMMA InvKept == ASSUME MainThenPool PROVE IInv /\ [Next]_vars => IInv'
<1>1. TypeOK /\ [Next]_vars => TypeOK'
  BY TypeKept
<1>2. ASSUME IInv, UNCHANGED vars PROVE IInv'
  BY <1>2 DEF vars, IInv, TypeOK, OneLock, Active, NoStaleSnapshot, EntryWhenReplaced, InTrace
<1> QED
  BY <1>1, <1>2, OneLockKept, SnapshotKept, EntryKept DEF IInv

\* Between the read and the replace of an append nobody else changes the
\* trace.
THEOREM SnapshotNeverStale == ASSUME MainThenPool PROVE Spec => []NoStaleSnapshot
<1>1. IInv => NoStaleSnapshot
  BY DEF IInv
<1> QED
  BY <1>1, InitInv, InvKept, PTL DEF Spec

\* Every append that returned is in the trace, whatever other appends failed.
THEOREM ReturnedIsKept == ASSUME MainThenPool PROVE Spec => []NoAppendLost
<1>1. IInv => NoAppendLost
  BY DEF IInv, EntryWhenReplaced, NoAppendLost, Lost
<1> QED
  BY <1>1, InitInv, InvKept, PTL DEF Spec

-----------------------------------------------------------------------------
\* Each step of append_step is a step of AppendLog or changes nothing there.
Calling == [c \in Calls |-> CallState(c)]

LEMMA CallMoves ==
    ASSUME NEW c \in Calls, at \in [Calls -> Running \cup Ended \cup {"idle"}],
           NEW p, at' = [at EXCEPT ![c] = p], p \in Running \cup Ended
    PROVE  Calling' = [Calling EXCEPT ![c] = IF p \in Running THEN "running" ELSE p]
  BY DEF Calling, CallState, Running, Critical, Ended

LEMMA StepImplements ==
    ASSUME MainThenPool, IInv, Next
    PROVE  Promise!Next \/ (trace' = trace /\ Calling' = Calling)
<1> USE DEF IInv, TypeOK, MainThenPool
<1> DEFINE Quiet == trace' = trace /\ Calling' = Calling
<1>1. ASSUME NEW c \in Calls, StartStep(c) PROVE Promise!Next
  <2>1. Calling[c] = "new" /\ Calling' = [Calling EXCEPT ![c] = "running"] /\ trace' = trace
    <3>1. "lookup" \in Running
      BY DEF Running
    <3>2. Calling' = [Calling EXCEPT ![c] = IF "lookup" \in Running THEN "running" ELSE "lookup"]
      <4>1. at' = [at EXCEPT ![c] = "lookup"]
        BY <1>1 DEF StartStep
      <4>2. "lookup" \in Running \cup Ended
        BY <3>1
      <4> QED
        BY <4>1, <4>2, CallMoves
    <3>3. Calling[c] = "new" /\ trace' = trace
      BY <1>1 DEF StartStep, Calling, CallState, Running, Critical
    <3> QED
      BY <3>1, <3>2, <3>3
  <2> QED
    BY <2>1 DEF Promise!Next, Promise!Begin, Calling
<1>2. ASSUME NEW c \in Calls, StartEvent(c) PROVE Promise!Next
  BY <1>2 DEF StartEvent
<1>3. ASSUME NEW c \in Calls,
             \/ LookupLock(c) \/ MakeLock(c) \/ EnterLock(c)
             \/ ReadTrace(c) \/ WriteTmp(c) \/ RetryReplace(c)
      PROVE  Quiet
  BY <1>3 DEF LookupLock, MakeLock, EnterLock, ReadTrace, WriteTmp, RetryReplace,
     Calling, CallState, Running, Critical, Ended
<1>4. ASSUME NEW c \in Calls, Replace(c) PROVE Promise!Next
  <2>1. ~InTrace(c) /\ trace' = Append(trace, c)
    BY <1>4 DEF Replace, WithEntry, NoStaleSnapshot, EntryWhenReplaced
  <2>2. Calling[c] = "running" /\ Calling' = Calling
    BY <1>4 DEF Replace, Calling, CallState, Running, Critical, Ended
  <2> QED
    BY <2>1, <2>2 DEF Promise!Next, Promise!TakeEffect, Promise!Logged, InTrace, Calling
<1>5. ASSUME NEW c \in Calls, WriteTmpFails(c) \/ ReplaceFails(c) PROVE Promise!Next
  <2>1. ~InTrace(c) /\ trace' = trace
    BY <1>5 DEF WriteTmpFails, ReplaceFails, EntryWhenReplaced
  <2>2. Calling[c] = "running" /\ Calling' = [Calling EXCEPT ![c] = "raised"]
    BY <1>5, CallMoves DEF WriteTmpFails, ReplaceFails, Calling, CallState, Running, Critical, Ended
  <2> QED
    BY <2>1, <2>2 DEF Promise!Next, Promise!Raise, Promise!Logged, InTrace, Calling
<1>6. ASSUME NEW c \in Calls, Leave(c) PROVE Promise!Next
  <2>1. InTrace(c) /\ trace' = trace
    BY <1>6 DEF Leave, EntryWhenReplaced
  <2>2. Calling[c] = "running" /\ Calling' = [Calling EXCEPT ![c] = "returned"]
    BY <1>6, CallMoves DEF Leave, Calling, CallState, Running, Critical, Ended
  <2> QED
    BY <2>1, <2>2 DEF Promise!Next, Promise!Return, Promise!Logged, InTrace, Calling
<1>7. CASE Crash
  <2>1. Calling' = [c \in Calls |-> IF Calling[c] = "running" THEN "dead" ELSE Calling[c]]
    BY <1>7 DEF Crash, Active, Calling, CallState, Running, Critical, Ended
  <2> QED
    BY <1>7, <2>1 DEF Crash, Promise!Next, Promise!Die, Calling
<1> QED
  BY <1>1, <1>2, <1>3, <1>4, <1>5, <1>6, <1>7 DEF Next, Progress

\* Where the first append of a process runs alone and traces can be read,
\* append_step is an atomic append, whatever fails or dies.
THEOREM AppendIsAtomic == ASSUME MainThenPool PROVE Spec => ImplementsAppendLog
<1>1. Init => Promise!Init
  <2> SUFFICES ASSUME Init PROVE Promise!Init
    OBVIOUS
  <2>1. \A c \in Calls : CallState(c) = "new"
    BY DEF Init, CallState, Running, Critical
  <2>2. [c \in Calls |-> CallState(c)] = [c \in Calls |-> "new"]
    BY <2>1
  <2> QED
    BY <2>2 DEF Init, Promise!Init
<1>2. IInv /\ [Next]_vars => [Promise!Next]_(Promise!vars)
  <2>1. ASSUME UNCHANGED vars PROVE trace' = trace /\ Calling' = Calling
    BY <2>1 DEF vars, Calling, CallState
  <2> QED
    BY <2>1, StepImplements DEF Promise!vars, Calling
<1> QED
  BY <1>1, <1>2, InitInv, InvKept, PTL DEF Spec, ImplementsAppendLog, Promise!Spec
=============================================================================
