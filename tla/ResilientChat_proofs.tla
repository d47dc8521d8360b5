------------------------ MODULE ResilientChat_proofs -----------------------
(***************************************************************************)
(* What the shared circuit file may say, and what a chat returns, for      *)
(* every set of callers, chain of models, and threshold.                   *)
(***************************************************************************)
EXTENDS ResilientChat, TLAPS

\* Where a model is used, the chain is not exhausted, and a write goes on.
PathInv ==
    \A c \in Callers :
        /\ at[c] \in {"status", "half", "call", "keep"} => index[c] <= Len(Chain)
        /\ at[c] \in {"save", "write"} =>
             /\ then[c] # "idle"
             /\ then[c] \in {"call", "keep"} => index[c] <= Len(Chain)

\* What circuits say was recorded, in the file and in every copy of it: a copy
\* may be stale, but failures are only ever added.
Backed(circuits) ==
    \A m \in Models :
        /\ circuits[m].fails <= failures[m]
        /\ circuits[m].open => failures[m] >= Threshold

FailureInv == Backed(file) /\ \A c \in Callers : Backed(copy[c])

\* An answer that can be kept is on its way to Keep, or was returned.
CanKeep(c) == shape[c] \in (IF c \in Streaming THEN Shapes ELSE Shapes \ {"object"})

AnswerInv ==
    \A c \in Callers : CanKeep(c) =>
        \/ at[c] \in {"keep", "dead"}
        \/ at[c] \in {"save", "write"} /\ then[c] = "keep"
        \/ at[c] = "idle" /\ result[c] = "answer"

TypeInv == TypeOK /\ PathInv

-----------------------------------------------------------------------------
\* The constants, and where the chain leads.
LEMMA Constants ==
    /\ Len(Chain) \in Nat
    /\ \A i \in 1 .. Len(Chain) : Chain[i] \in Models
    /\ Shapes \subseteq {"mapping", "object"}
    /\ Attempts \in Nat \ {0} /\ Threshold \in Nat \ {0} /\ MaxChats \in Nat
  BY ChatAssumption

LEMMA ModelOnPath ==
    ASSUME TypeOK, NEW c \in Callers, index[c] <= Len(Chain)
    PROVE  Model(c) \in Models
  BY Constants DEF TypeOK, Model

\* Tables of circuits with an entry replaced.
LEMMA CircuitsTyped ==
    /\ NoEntry \in Entry
    /\ Empty \in Circuits
    /\ TypeOK => Loaded \in Circuits
    /\ \A circuits \in Circuits, m \in Models, e \in Entry :
         [circuits EXCEPT ![m] = e] \in Circuits
    /\ \A circuits \in Circuits, m \in Models : circuits[m] \in Entry
<1>1. NoEntry \in Entry
  BY Constants DEF NoEntry, Entry
<1> QED
  BY <1>1 DEF Circuits, Empty, TypeOK, Loaded

LEMMA EntriesTyped ==
    ASSUME NEW e \in Entry
    PROVE  /\ [e EXCEPT !.half = TRUE] \in Entry
           /\ [e EXCEPT !.open = FALSE] \in Entry
           /\ Cap(e.fails + 1) \in 0 .. Threshold
           /\ \A n \in 0 .. Threshold :
                /\ [fails |-> n, open |-> TRUE, half |-> FALSE] \in Entry
                /\ [e EXCEPT !.fails = n] \in Entry
<1>1. e.fails \in 0 .. Threshold
  BY DEF Entry
<1>2. Cap(e.fails + 1) \in 0 .. Threshold
  BY <1>1, Constants DEF Cap
<1> QED
  BY <1>2 DEF Entry

LEMMA RewriteTyped ==
    ASSUME TypeOK, NEW c \in Callers, Model(c) \in Models, NEW e \in Entry,
           NEW place \in {"model", "call", "keep"}, Rewrite(c, e, place)
    PROVE  /\ copy' \in [Callers -> Circuits]
           /\ then' = [then EXCEPT ![c] = place]
           /\ at' = [at EXCEPT ![c] = "save"]
           /\ \A d \in Callers : d # c => copy'[d] = copy[d]
           /\ copy'[c] = [Loaded EXCEPT ![Model(c)] = e]
<1>1. [Loaded EXCEPT ![Model(c)] = e] \in Circuits
  BY CircuitsTyped
<1> QED
  BY <1>1 DEF Rewrite, Goto, TypeOK

\* What is loaded is a table of circuits, and as well backed as the file.
LEMMA LoadedIsBacked ==
    TypeOK /\ FailureInv => Loaded \in Circuits /\ Backed(Loaded)
<1>1. TypeOK => Backed(Empty)
  BY Constants DEF TypeOK, Backed, Empty, NoEntry
<1> QED
  BY <1>1, CircuitsTyped DEF FailureInv, Loaded

LEMMA ClosedTyped ==
    ASSUME NEW circuits \in Circuits, NEW m \in Models
    PROVE  /\ [circuits EXCEPT ![m].open = FALSE] \in Circuits
           /\ Backed(circuits) => Backed([circuits EXCEPT ![m].open = FALSE])
<1>1. circuits[m] \in Entry
  BY CircuitsTyped
<1>2. [circuits EXCEPT ![m].open = FALSE] = [circuits EXCEPT ![m] = [circuits[m] EXCEPT !.open = FALSE]]
  BY <1>1 DEF Circuits
<1>3. [circuits[m] EXCEPT !.open = FALSE] \in Entry
  BY <1>1, EntriesTyped
<1>4. /\ [circuits[m] EXCEPT !.open = FALSE].fails = circuits[m].fails
      /\ [circuits[m] EXCEPT !.open = FALSE].open = FALSE
  BY <1>1 DEF Entry
<1>5. [circuits EXCEPT ![m] = [circuits[m] EXCEPT !.open = FALSE]] \in Circuits
  BY <1>3, CircuitsTyped
<1>6. ASSUME Backed(circuits), NEW n \in Models
      PROVE  LET closed == [circuits EXCEPT ![m] = [circuits[m] EXCEPT !.open = FALSE]]
             IN  /\ closed[n].fails <= failures[n]
                 /\ closed[n].open => failures[n] >= Threshold
  <2>1. CASE n = m
    BY <1>4, <1>6, <2>1 DEF Backed, Circuits
  <2>2. CASE n # m
    BY <1>6, <2>2 DEF Backed, Circuits
  <2> QED
    BY <2>1, <2>2
<1> QED
  BY <1>2, <1>5, <1>6 DEF Backed

\* Types are kept, and the chain's end is respected.
LEMMA TypeKept == TypeInv /\ [Next]_vars => TypeInv'
<1> SUFFICES ASSUME TypeInv, [Next]_vars PROVE TypeInv'
  OBVIOUS
<1> USE Constants DEF TypeInv, TypeOK, PathInv
<1>1. CASE UNCHANGED vars
  BY <1>1 DEF vars, circuit
<1>2. ASSUME NEW c \in Callers, Chat(c) PROVE TypeInv'
  BY <1>2 DEF Chat, Goto, circuit
<1>3. ASSUME NEW c \in Callers, ReturnNothing(c) PROVE TypeInv'
  BY <1>3 DEF ReturnNothing, Return, Goto, circuit
<1>4. ASSUME NEW c \in Callers, CacheHit(c) PROVE TypeInv'
  BY <1>4 DEF CacheHit, Return, Goto, circuit
<1>5. ASSUME NEW c \in Callers, CacheMiss(c) PROVE TypeInv'
  BY <1>5 DEF CacheMiss, Goto, circuit
<1>6. ASSUME NEW c \in Callers, Status(c) PROVE TypeInv'
  BY <1>6 DEF Status, Goto, circuit
<1>7. ASSUME NEW c \in Callers, Skip(c) PROVE TypeInv'
  BY <1>7 DEF Skip, AskNext, Goto, circuit
<1>8. ASSUME NEW c \in Callers, AllowHalfOpen(c) PROVE TypeInv'
  <2> DEFINE e == [Loaded[Model(c)] EXCEPT !.half = TRUE]
  <2>1. index[c] <= Len(Chain) /\ Model(c) \in Models
    BY <1>8, ModelOnPath DEF AllowHalfOpen
  <2>2. e \in Entry
    BY <2>1, CircuitsTyped, EntriesTyped
  <2>3. Rewrite(c, e, "call")
    BY <1>8 DEF AllowHalfOpen
  <2> HIDE DEF e
  <2>4. /\ copy' \in [Callers -> Circuits]
        /\ then' = [then EXCEPT ![c] = "call"]
        /\ at' = [at EXCEPT ![c] = "save"]
    BY <2>1, <2>2, <2>3, RewriteTyped
  <2> QED
    BY <1>8, <2>1, <2>4 DEF AllowHalfOpen, circuit
<1>9. ASSUME NEW c \in Callers, CallAnswers(c) PROVE TypeInv'
  <2> DEFINE e == NoEntry
  <2>1. index[c] <= Len(Chain) /\ Model(c) \in Models
    BY <1>9, ModelOnPath DEF CallAnswers
  <2>2. e \in Entry
    BY <2>1, CircuitsTyped, EntriesTyped
  <2>3. Rewrite(c, e, "keep")
    BY <1>9 DEF CallAnswers
  <2> HIDE DEF e
  <2>4. /\ copy' \in [Callers -> Circuits]
        /\ then' = [then EXCEPT ![c] = "keep"]
        /\ at' = [at EXCEPT ![c] = "save"]
    BY <2>1, <2>2, <2>3, RewriteTyped
  <2> QED
    BY <1>9, <2>1, <2>4 DEF CallAnswers, circuit
<1>10. ASSUME NEW c \in Callers, CallRetried(c) PROVE TypeInv'
  BY <1>10 DEF CallRetried, Exhausted, circuit
<1>11. ASSUME NEW c \in Callers, CallExhausted(c) PROVE TypeInv'
  <2> DEFINE e == IF Opens(Cap(Loaded[Model(c)].fails + 1))
                    THEN [fails |-> Cap(Loaded[Model(c)].fails + 1), open |-> TRUE, half |-> FALSE]
                    ELSE [Loaded[Model(c)] EXCEPT !.fails = Cap(Loaded[Model(c)].fails + 1)]
  <2>1. index[c] <= Len(Chain) /\ Model(c) \in Models
    BY <1>11, ModelOnPath DEF CallExhausted
  <2>2. e \in Entry
    BY <2>1, CircuitsTyped, EntriesTyped
  <2>3. Rewrite(c, e, "model")
    BY <1>11 DEF CallExhausted
  <2> HIDE DEF e
  <2>4. /\ copy' \in [Callers -> Circuits]
        /\ then' = [then EXCEPT ![c] = "model"]
        /\ at' = [at EXCEPT ![c] = "save"]
    BY <2>1, <2>2, <2>3, RewriteTyped
  <2>5. failures' \in [Models -> 0 .. Threshold]
    BY <1>11, <2>1 DEF CallExhausted, Cap
  <2>6. index' \in [Callers -> 1 .. Len(Chain) + 1] /\ attempt' \in [Callers -> 0 .. Attempts]
    BY <1>11, <2>1 DEF CallExhausted
  <2>7. /\ UNCHANGED <<file, torn, overlap, cached, result, chats, shape>>
        /\ \A d \in Callers : d # c => index'[d] = index[d]
    BY <1>11 DEF CallExhausted, circuit
  <2> QED
    BY <2>1, <2>4, <2>5, <2>6, <2>7
<1>12. ASSUME NEW c \in Callers, CallRefused(c) PROVE TypeInv'
  BY <1>12 DEF CallRefused, AskNext, Goto, circuit
<1>13. ASSUME NEW c \in Callers, Truncate(c) PROVE TypeInv'
  BY <1>13 DEF Truncate, Goto, circuit
<1>14. ASSUME NEW c \in Callers, Write(c) PROVE TypeInv'
  BY <1>14, CircuitsTyped DEF Write, Goto
<1>15. ASSUME NEW c \in Callers, Keep(c) PROVE TypeInv'
  <2>1. index[c] <= Len(Chain) /\ Model(c) \in Models
    BY <1>15, ModelOnPath DEF Keep
  <2>2. UNCHANGED <<file, torn, overlap, copy, then, chats, shape, failures>>
    BY <1>15 DEF Keep, circuit
  <2>3. CASE AskNext(c) /\ UNCHANGED <<cached, result>>
    BY <2>1, <2>2, <2>3 DEF AskNext, Goto
  <2>4. CASE Return(c, "answer") /\ UNCHANGED cached
    BY <2>1, <2>2, <2>4 DEF Return, Goto
  <2>5. CASE KeepAndReturn(c)
    BY <2>1, <2>2, <2>5 DEF KeepAndReturn, Return, Goto
  <2> QED
    BY <1>15, <2>3, <2>4, <2>5 DEF Keep
<1>16. ASSUME NEW c \in Callers, Crash(c) PROVE TypeInv'
  BY <1>16, CircuitsTyped DEF Crash, Goto
<1>17. ASSUME NEW m \in Models, WindowPasses(m) PROVE TypeInv'
  <2>1. file' \in Circuits /\ copy' \in [Callers -> Circuits]
    BY <1>17, ClosedTyped DEF WindowPasses
  <2> QED
    BY <1>17, <2>1 DEF WindowPasses
<1>18. ASSUME NEW m \in Models, CacheExpires(m) PROVE TypeInv'
  BY <1>18 DEF CacheExpires, circuit
<1> QED
  BY <1>1, <1>2, <1>3, <1>4, <1>5, <1>6, <1>7, <1>8,
     <1>9, <1>10, <1>11, <1>12, <1>13, <1>14, <1>15, <1>16, <1>17, <1>18 DEF Next, ChatStep

\* A rewrite is as well backed as the entry it puts in.
LEMMA RewriteBacked ==
    ASSUME TypeOK, FailureInv, NEW c \in Callers, Model(c) \in Models, NEW e \in Entry,
           NEW place \in {"model", "call", "keep"}, Rewrite(c, e, place), UNCHANGED file,
           failures' \in [Models -> Nat], \A m \in Models : failures[m] <= failures'[m],
           e.fails <= failures'[Model(c)], e.open => failures'[Model(c)] >= Threshold
    PROVE  FailureInv'
<1> USE Constants
<1>1. /\ \A d \in Callers : d # c => copy'[d] = copy[d]
      /\ copy'[c] = [Loaded EXCEPT ![Model(c)] = e]
  BY RewriteTyped
<1>2. ASSUME NEW circuits \in Circuits, Backed(circuits), NEW m \in Models
      PROVE  /\ circuits[m].fails <= failures'[m]
             /\ circuits[m].open => failures'[m] >= Threshold
  <2>1. circuits[m].fails \in Nat /\ failures[m] \in Nat /\ failures'[m] \in Nat
    BY CircuitsTyped DEF Entry, TypeOK
  <2> QED
    BY <1>2, <2>1 DEF Backed
<1>3. file \in Circuits /\ \A d \in Callers : copy[d] \in Circuits
  BY DEF TypeOK
<1>4. ASSUME NEW m \in Models
      PROVE  /\ copy'[c][m].fails <= failures'[m]
             /\ copy'[c][m].open => failures'[m] >= Threshold
  <2>1. CASE m = Model(c)
    BY <1>1, <2>1, LoadedIsBacked DEF Circuits
  <2>2. CASE m # Model(c)
    BY <1>1, <1>2, <2>2, LoadedIsBacked DEF Circuits
  <2> QED
    BY <2>1, <2>2
<1> QED
  BY <1>1, <1>2, <1>3, <1>4 DEF FailureInv, Backed

\* Circuits remain backed: a recorded failure is counted when it is copied.
LEMMA FailureKept == TypeInv /\ FailureInv /\ [Next]_vars => FailureInv'
<1> SUFFICES ASSUME TypeInv /\ FailureInv, [Next]_vars PROVE FailureInv'
  OBVIOUS
<1> USE Constants DEF TypeInv, TypeOK, FailureInv, Backed
<1>1. CASE UNCHANGED vars
  BY <1>1 DEF vars, circuit
<1>2. ASSUME NEW c \in Callers, Chat(c) PROVE FailureInv'
  BY <1>2 DEF Chat, circuit
<1>3. ASSUME NEW c \in Callers, ReturnNothing(c) PROVE FailureInv'
  BY <1>3 DEF ReturnNothing, circuit
<1>4. ASSUME NEW c \in Callers, CacheHit(c) PROVE FailureInv'
  BY <1>4 DEF CacheHit, circuit
<1>5. ASSUME NEW c \in Callers, CacheMiss(c) PROVE FailureInv'
  BY <1>5 DEF CacheMiss, circuit
<1>6. ASSUME NEW c \in Callers, Status(c) PROVE FailureInv'
  BY <1>6 DEF Status, circuit
<1>7. ASSUME NEW c \in Callers, Skip(c) PROVE FailureInv'
  BY <1>7 DEF Skip, circuit
<1>8. ASSUME NEW c \in Callers, AllowHalfOpen(c) PROVE FailureInv'
  <2> DEFINE e == [Loaded[Model(c)] EXCEPT !.half = TRUE]
  <2>1. Model(c) \in Models
    BY <1>8, ModelOnPath DEF AllowHalfOpen, PathInv
  <2>2. Loaded[Model(c)] \in Entry /\ Backed(Loaded)
    BY <2>1, CircuitsTyped, LoadedIsBacked
  <2>3. e \in Entry
    BY <2>2, CircuitsTyped, EntriesTyped
  <2>4. /\ failures' \in [Models -> Nat] /\ UNCHANGED <<file, failures>>
        /\ \A m \in Models : failures[m] <= failures'[m]
    BY <1>8 DEF AllowHalfOpen, circuit
  <2>5. e.fails <= failures'[Model(c)] /\ (e.open => failures'[Model(c)] >= Threshold)
    <3>1. e.fails = Loaded[Model(c)].fails /\ e.open = Loaded[Model(c)].open
      BY <2>2 DEF Entry
    <3> QED
      BY <2>1, <2>2, <2>4, <3>1
  <2>6. Rewrite(c, e, "call")
    BY <1>8 DEF AllowHalfOpen
  <2> HIDE DEF e
  <2> QED
    BY <2>1, <2>3, <2>4, <2>5, <2>6, RewriteBacked
<1>9. ASSUME NEW c \in Callers, CallAnswers(c) PROVE FailureInv'
  <2> DEFINE e == NoEntry
  <2>1. Model(c) \in Models
    BY <1>9, ModelOnPath DEF CallAnswers, PathInv
  <2>2. Loaded[Model(c)] \in Entry /\ Backed(Loaded)
    BY <2>1, CircuitsTyped, LoadedIsBacked
  <2>3. e \in Entry
    BY <2>2, CircuitsTyped, EntriesTyped
  <2>4. /\ failures' \in [Models -> Nat] /\ UNCHANGED <<file, failures>>
        /\ \A m \in Models : failures[m] <= failures'[m]
    BY <1>9 DEF CallAnswers, circuit
  <2>5. e.fails <= failures'[Model(c)] /\ (e.open => failures'[Model(c)] >= Threshold)
    BY <2>1, <2>4 DEF NoEntry
  <2>6. Rewrite(c, e, "keep")
    BY <1>9 DEF CallAnswers
  <2> HIDE DEF e
  <2> QED
    BY <2>1, <2>3, <2>4, <2>5, <2>6, RewriteBacked
<1>10. ASSUME NEW c \in Callers, CallRetried(c) PROVE FailureInv'
  BY <1>10 DEF CallRetried, circuit
<1>11. ASSUME NEW c \in Callers, CallExhausted(c) PROVE FailureInv'
  <2> DEFINE e == IF Opens(Cap(Loaded[Model(c)].fails + 1))
                    THEN [fails |-> Cap(Loaded[Model(c)].fails + 1), open |-> TRUE, half |-> FALSE]
                    ELSE [Loaded[Model(c)] EXCEPT !.fails = Cap(Loaded[Model(c)].fails + 1)]
  <2>1. Model(c) \in Models
    BY <1>11, ModelOnPath DEF CallExhausted, PathInv
  <2>2. Loaded[Model(c)] \in Entry /\ Backed(Loaded)
    BY <2>1, CircuitsTyped, LoadedIsBacked
  <2>3. e \in Entry
    BY <2>2, CircuitsTyped, EntriesTyped
  <2>4. /\ failures' = [failures EXCEPT ![Model(c)] = Cap(@ + 1)]
        /\ UNCHANGED file
    BY <1>11 DEF CallExhausted, circuit
  <2>5. /\ failures' \in [Models -> Nat]
        /\ \A m \in Models : failures[m] <= failures'[m]
        /\ Cap(Loaded[Model(c)].fails + 1) <= failures'[Model(c)]
    <3>1. failures[Model(c)] \in 0 .. Threshold /\ Loaded[Model(c)].fails \in 0 .. Threshold
      BY <2>1, <2>2 DEF Entry
    <3>2. Loaded[Model(c)].fails <= failures[Model(c)]
      BY <2>1, <2>2
    <3>3. \A k \in 0 .. Threshold : Cap(k + 1) \in Nat /\ k <= Cap(k + 1)
      BY DEF Cap
    <3>4. failures'[Model(c)] = Cap(failures[Model(c)] + 1)
      BY <2>1, <2>4
    <3>5. ASSUME NEW m \in Models PROVE failures'[m] \in Nat /\ failures[m] <= failures'[m]
      <4>1. CASE m = Model(c)
        BY <3>1, <3>3, <3>4, <4>1
      <4>2. CASE m # Model(c)
        BY <2>4, <4>2
      <4> QED
        BY <4>1, <4>2
    <3>6. failures' \in [Models -> Nat]
      BY <2>4, <3>5
    <3>7. Cap(Loaded[Model(c)].fails + 1) <= failures'[Model(c)]
      <4>1. Cap(Loaded[Model(c)].fails + 1) <= Cap(failures[Model(c)] + 1)
        BY <3>1, <3>2 DEF Cap
      <4> QED
        BY <3>4, <4>1, Zenon
    <3> QED
      BY <3>5, <3>6, <3>7
  <2>6. e.fails <= failures'[Model(c)] /\ (e.open => failures'[Model(c)] >= Threshold)
    <3>1. CASE Opens(Cap(Loaded[Model(c)].fails + 1))
      <4>1. Cap(Loaded[Model(c)].fails + 1) >= Threshold
        BY <3>1 DEF Opens
      <4>2. Cap(Loaded[Model(c)].fails + 1) \in Nat /\ failures'[Model(c)] \in Nat
        <5>1. Cap(Loaded[Model(c)].fails + 1) \in 0 .. Threshold
          BY <2>2, EntriesTyped
        <5> QED
          BY <2>1, <2>5, <5>1
      <4> QED
        BY <2>5, <3>1, <4>1, <4>2
    <3>2. CASE ~Opens(Cap(Loaded[Model(c)].fails + 1))
      <4>1. e.fails = Cap(Loaded[Model(c)].fails + 1) /\ e.open = Loaded[Model(c)].open
        BY <2>2, <3>2 DEF Entry
      <4>2. Loaded[Model(c)].open => failures[Model(c)] >= Threshold
        BY <2>1, <2>2
      <4>3. /\ failures[Model(c)] \in Nat /\ failures'[Model(c)] \in Nat
            /\ failures[Model(c)] <= failures'[Model(c)]
        BY <2>1, <2>5
      <4>4. e.fails <= failures'[Model(c)]
        BY <2>5, <4>1
      <4>5. e.open => failures'[Model(c)] >= Threshold
        <5>1. ASSUME Loaded[Model(c)].open PROVE failures'[Model(c)] >= Threshold
          BY <4>2, <4>3, <5>1
        <5>2. e.open => Loaded[Model(c)].open
          BY <4>1, Zenon
        <5> QED
          BY <5>1, <5>2, Zenon
      <4> QED
        BY <4>4, <4>5
    <3> QED
      BY <3>1, <3>2
  <2>7. Rewrite(c, e, "model")
    BY <1>11 DEF CallExhausted
  <2> HIDE DEF e
  <2> QED
    BY <2>1, <2>3, <2>4, <2>5, <2>6, <2>7, RewriteBacked
<1>12. ASSUME NEW c \in Callers, CallRefused(c) PROVE FailureInv'
  BY <1>12 DEF CallRefused, circuit
<1>13. ASSUME NEW c \in Callers, Truncate(c) PROVE FailureInv'
  BY <1>13 DEF Truncate, circuit
<1>14. ASSUME NEW c \in Callers, Write(c) PROVE FailureInv'
  BY <1>14 DEF Write, Empty, NoEntry
<1>15. ASSUME NEW c \in Callers, Keep(c) PROVE FailureInv'
  BY <1>15 DEF Keep, circuit
<1>16. ASSUME NEW c \in Callers, Crash(c) PROVE FailureInv'
  BY <1>16 DEF Crash, Empty, NoEntry
<1>17. ASSUME NEW m \in Models, WindowPasses(m) PROVE FailureInv'
  <2>1. UNCHANGED failures
    BY <1>17 DEF WindowPasses
  <2>2. Backed(file)' /\ \A c \in Callers : Backed(copy[c])'
    <3>1. Backed(file')
      BY <1>17, ClosedTyped DEF WindowPasses
    <3>2. \A c \in Callers : Backed(copy'[c])
      BY <1>17, ClosedTyped DEF WindowPasses
    <3> QED
      BY <2>1, <3>1, <3>2
  <2> QED
    BY <2>2
<1>18. ASSUME NEW m \in Models, CacheExpires(m) PROVE FailureInv'
  BY <1>18 DEF CacheExpires, circuit
<1> QED
  BY <1>1, <1>2, <1>3, <1>4, <1>5, <1>6, <1>7, <1>8,
     <1>9, <1>10, <1>11, <1>12, <1>13, <1>14, <1>15, <1>16, <1>17, <1>18 DEF Next, ChatStep

\* No step but Keep ends a chat that has an answer to keep.
LEMMA AnswerKept == TypeInv /\ AnswerInv /\ [Next]_vars => AnswerInv'
<1> SUFFICES ASSUME TypeInv /\ AnswerInv, [Next]_vars PROVE AnswerInv'
  OBVIOUS
<1> USE Constants DEF TypeInv, TypeOK, PathInv, AnswerInv, CanKeep
<1>1. CASE UNCHANGED vars
  BY <1>1 DEF vars, circuit
<1>2. ASSUME NEW c \in Callers, Chat(c) PROVE AnswerInv'
  BY <1>2 DEF Chat, Goto, circuit
<1>3. ASSUME NEW c \in Callers, ReturnNothing(c) PROVE AnswerInv'
  BY <1>3 DEF ReturnNothing, Return, Goto, circuit
<1>4. ASSUME NEW c \in Callers, CacheHit(c) PROVE AnswerInv'
  BY <1>4 DEF CacheHit, Return, Goto, Model, circuit
<1>5. ASSUME NEW c \in Callers, CacheMiss(c) PROVE AnswerInv'
  BY <1>5 DEF CacheMiss, Goto, Model, circuit
<1>6. ASSUME NEW c \in Callers, Status(c) PROVE AnswerInv'
  BY <1>6 DEF Status, Goto, Model, Loaded, circuit
<1>7. ASSUME NEW c \in Callers, Skip(c) PROVE AnswerInv'
  BY <1>7 DEF Skip, AskNext, Goto, Model, Loaded, circuit
<1>8. ASSUME NEW c \in Callers, AllowHalfOpen(c) PROVE AnswerInv'
  BY <1>8 DEF AllowHalfOpen, Rewrite, Goto, Model, Loaded, circuit
<1>9. ASSUME NEW c \in Callers, CallAnswers(c) PROVE AnswerInv'
  BY <1>9 DEF CallAnswers, Rewrite, Goto, Model, Loaded, NoEntry, circuit
<1>10. ASSUME NEW c \in Callers, CallRetried(c) PROVE AnswerInv'
  BY <1>10 DEF CallRetried, Exhausted, circuit
<1>11. ASSUME NEW c \in Callers, CallExhausted(c) PROVE AnswerInv'
  BY <1>11 DEF CallExhausted, Rewrite, Goto, Model, Loaded, Exhausted, Opens, Cap, circuit
<1>12. ASSUME NEW c \in Callers, CallRefused(c) PROVE AnswerInv'
  BY <1>12 DEF CallRefused, AskNext, Goto, circuit
<1>13. ASSUME NEW c \in Callers, Truncate(c) PROVE AnswerInv'
  BY <1>13 DEF Truncate, Goto, circuit
<1>14. ASSUME NEW c \in Callers, Write(c) PROVE AnswerInv'
  BY <1>14 DEF Write, Goto, circuit
<1>15. ASSUME NEW c \in Callers, Keep(c) PROVE AnswerInv'
  <2>1. UNCHANGED <<then, shape>> /\ at[c] = "keep"
    BY <1>15 DEF Keep
  <2>2. \A d \in Callers : CanKeep(d)' <=> CanKeep(d)
    BY <2>1, Zenon DEF CanKeep
  <2>3. CASE Return(c, "answer")
    BY <2>1, <2>2, <2>3 DEF Return, Goto
  <2>4. CASE ~CanKeep(c) /\ AskNext(c) /\ UNCHANGED result
    BY <2>1, <2>2, <2>4 DEF AskNext, Goto
  <2> QED
    BY <1>15, <2>3, <2>4 DEF Keep, KeepAndReturn
<1>16. ASSUME NEW c \in Callers, Crash(c) PROVE AnswerInv'
  BY <1>16 DEF Crash, Goto, circuit
<1>17. ASSUME NEW m \in Models, WindowPasses(m) PROVE AnswerInv'
  BY <1>17 DEF WindowPasses
<1>18. ASSUME NEW m \in Models, CacheExpires(m) PROVE AnswerInv'
  BY <1>18 DEF CacheExpires, circuit
<1> QED
  BY <1>1, <1>2, <1>3, <1>4, <1>5, <1>6, <1>7, <1>8,
     <1>9, <1>10, <1>11, <1>12, <1>13, <1>14, <1>15, <1>16, <1>17, <1>18 DEF Next, ChatStep

-----------------------------------------------------------------------------
IInv == TypeInv /\ FailureInv /\ AnswerInv

LEMMA InitIInv == Init => IInv
<1> SUFFICES ASSUME Init PROVE IInv
  OBVIOUS
<1> USE Constants DEF Init
<1>1. TypeInv
  <2>1. /\ file \in Circuits /\ copy \in [Callers -> Circuits]
        /\ torn \in BOOLEAN /\ cached \subseteq Models /\ overlap \subseteq Callers
    BY CircuitsTyped
  <2>2. /\ index \in [Callers -> 1 .. Len(Chain) + 1] /\ attempt \in [Callers -> 0 .. Attempts]
        /\ failures \in [Models -> 0 .. Threshold] /\ chats \in 0 .. MaxChats
    OBVIOUS
  <2>3. /\ at = [c \in Callers |-> "idle"] /\ then = [c \in Callers |-> "idle"]
        /\ result = [c \in Callers |-> "none"] /\ shape = [c \in Callers |-> "none"]
    OBVIOUS
  <2> QED
    BY <2>1, <2>2, <2>3 DEF TypeInv, TypeOK, PathInv
<1>2. FailureInv
  BY DEF FailureInv, Backed, Empty, NoEntry
<1>3. AnswerInv
  BY DEF AnswerInv, CanKeep
<1> QED
  BY <1>1, <1>2, <1>3 DEF IInv

LEMMA Invariance == Spec => []IInv
<1>1. IInv /\ [Next]_vars => IInv'
  BY TypeKept, FailureKept, AnswerKept DEF IInv
<1> QED
  BY InitIInv, <1>1, PTL DEF Spec

\* The callers' variables and the circuit file keep their types.
THEOREM TypeCorrect == Spec => []TypeOK
<1>1. IInv => TypeOK
  BY DEF IInv, TypeInv
<1> QED
  BY Invariance, <1>1, PTL

\* record_failure opens a circuit only after THRESH_FAILS failures, although
\* _load and _save of all callers interleave.
THEOREM OpeningIsEarned == Spec => []OpenEarned
<1>1. IInv => OpenEarned
  BY DEF IInv, FailureInv, Backed, OpenEarned
<1> QED
  BY Invariance, <1>1, PTL

\* chat returns the answer that a provider gave and the cache can hold.
THEOREM AnswerIsReturned == Spec => []KeptDelivered
<1>1. IInv => KeptDelivered
  BY DEF IInv, AnswerInv, CanKeep, KeptDelivered
<1> QED
  BY Invariance, <1>1, PTL

-----------------------------------------------------------------------------
\* How many steps of its own a chat may still take: those with the present model, and a
\* full round of retries for every model after it.
RoundSteps == Attempts + 12

\* From the place where a write of the circuits leads.
StepsFrom(place) ==
    CASE place = "keep" -> 1
      [] place = "call" -> Attempts + 4
      [] place = "model" -> Attempts + 9

StepsWithModel(c) ==
    CASE at[c] = "keep" -> 1
      [] at[c] = "call" -> Attempts + 4 - attempt[c]
      [] at[c] = "half" -> Attempts + 7
      [] at[c] = "status" -> Attempts + 8
      [] at[c] = "model" -> Attempts + 9
      [] at[c] = "write" -> StepsFrom(then[c]) + 1
      [] at[c] = "save" -> StepsFrom(then[c]) + 2

Over(c) == at[c] \in {"idle", "dead"}

StepsLeft(c) ==
    IF Over(c) THEN 0 ELSE (Len(Chain) + 1 - index[c]) * RoundSteps + StepsWithModel(c)

Counting(c) ==
    /\ at[c] = "keep" => StepsWithModel(c) = 1
    /\ at[c] = "call" => StepsWithModel(c) = Attempts + 4 - attempt[c]
    /\ at[c] = "half" => StepsWithModel(c) = Attempts + 7
    /\ at[c] = "status" => StepsWithModel(c) = Attempts + 8
    /\ at[c] = "model" => StepsWithModel(c) = Attempts + 9
    /\ at[c] = "write" => StepsWithModel(c) = StepsFrom(then[c]) + 1
    /\ at[c] = "save" => StepsWithModel(c) = StepsFrom(then[c]) + 2

AllCounting == \A c \in Callers : Counting(c)

LEMMA StepsAt == AllCounting
  BY DEF AllCounting, Counting, StepsWithModel

LEMMA FromAt ==
    /\ StepsFrom("keep") = 1
    /\ StepsFrom("call") = Attempts + 4
    /\ StepsFrom("model") = Attempts + 9
  BY DEF StepsFrom

InRound(c) == ~Over(c) => StepsWithModel(c) \in 1 .. RoundSteps - 1

AllInRound == \A c \in Callers : InRound(c)

LEMMA WithModelBounded == TypeInv => AllInRound
<1> SUFFICES ASSUME TypeInv, NEW c \in Callers, ~Over(c)
             PROVE  StepsWithModel(c) \in 1 .. RoundSteps - 1
  BY DEF AllInRound, InRound
<1> USE StepsAt, FromAt DEF AllCounting, Counting, RoundSteps
<1>1. Attempts \in Nat \ {0} /\ attempt[c] \in 0 .. Attempts
  BY Constants DEF TypeInv, TypeOK
<1>2. CASE at[c] \in {"keep", "half", "status", "model"}
  BY <1>1, <1>2
<1>3. CASE at[c] = "call"
  BY <1>1, <1>3
<1>4. CASE at[c] \in {"save", "write"}
  <2>1. then[c] \in {"keep", "call", "model"}
    BY <1>4 DEF TypeInv, TypeOK, PathInv
  <2> QED
    BY <1>1, <1>4, <2>1
<1> QED
  BY <1>2, <1>3, <1>4 DEF TypeInv, TypeOK, Over

\* What is left of the chain outweighs the round with a model.
LEMMA RoundsOrdered ==
    ASSUME NEW round \in Nat, NEW rounds \in Nat, NEW more \in 0 .. round - 1, NEW last \in Nat
    PROVE  /\ rounds * round \in Nat
           /\ rounds * round + more < (rounds + 1) * round + last
<1>1. rounds * round \in Nat /\ (rounds + 1) * round = rounds * round + round
  OBVIOUS
<1> DEFINE product == rounds * round
<1>2. product \in Nat /\ (rounds + 1) * round = product + round
  BY <1>1
<1> HIDE DEF product
<1>3. product + more < product + round + last
  BY <1>2
<1> QED
  BY <1>2, <1>3 DEF product

LEMMA StepsCounted ==
    ASSUME TypeInv, NEW c \in Callers
    PROVE  StepsLeft(c) \in 0 .. (Len(Chain) + 1) * RoundSteps
<1> DEFINE rounds == Len(Chain) + 1 - index[c]
<1>1. rounds \in 0 .. Len(Chain) /\ RoundSteps \in Nat /\ Len(Chain) \in Nat
  BY Constants DEF TypeInv, TypeOK, RoundSteps
<1> DEFINE all == (Len(Chain) + 1) * RoundSteps
<1>2. all \in Nat
  BY <1>1
<1>3. CASE Over(c)
  BY <1>2, <1>3 DEF StepsLeft
<1>4. CASE ~Over(c)
  <2> DEFINE mine == rounds * RoundSteps
             further == (Len(Chain) - rounds) * RoundSteps
  <2>1. StepsLeft(c) = mine + StepsWithModel(c)
    BY <1>4 DEF StepsLeft
  <2>2. StepsWithModel(c) \in 1 .. RoundSteps - 1
    BY <1>4, WithModelBounded DEF AllInRound, InRound
  <2>3. mine \in Nat /\ further \in Nat /\ all = mine + further + RoundSteps
    BY <1>1
  <2> HIDE DEF all, mine, further
  <2> QED
    BY <1>1, <2>1, <2>2, <2>3 DEF all
<1> QED
  BY <1>3, <1>4

\* Every step of a chat is with its model and closer to the end of its round, or turns to
\* the next model, or returns.
Closer(c) == index'[c] = index[c] /\ ~Over(c)' /\ StepsWithModel(c)' < StepsWithModel(c)
Turns(c) == index[c] <= Len(Chain) /\ index'[c] = index[c] + 1 /\ ~Over(c)'

LEMMA Counted ==
    ASSUME TypeInv, TypeInv', NEW c \in Callers, ~Over(c), Closer(c) \/ Turns(c) \/ Over(c)'
    PROVE  StepsLeft(c)' \in 0 .. StepsLeft(c) - 1
<1>1. StepsWithModel(c) \in 1 .. RoundSteps - 1
  BY WithModelBounded DEF AllInRound, InRound
<1>2. ~Over(c)' => StepsWithModel(c)' \in 1 .. RoundSteps - 1
  <2>1. InRound(c)'
    <3>1. AllInRound'
      BY WithModelBounded, PTL
    <3> QED
      BY <3>1 DEF AllInRound
  <2> QED
    BY <2>1 DEF InRound, RoundSteps
<1> DEFINE rounds == Len(Chain) + 1 - index[c]
<1>3. rounds \in Nat /\ RoundSteps \in Nat /\ index[c] \in Nat /\ Len(Chain) \in Nat
  BY Constants DEF TypeInv, TypeOK, RoundSteps
<1> DEFINE product == rounds * RoundSteps
<1>4. product \in Nat
  BY <1>3
<1>5. StepsLeft(c) = product + StepsWithModel(c)
  BY DEF StepsLeft
<1>6. CASE Closer(c)
  <2>1. StepsLeft(c)' = product + StepsWithModel(c)'
    BY <1>6 DEF Closer, StepsLeft, RoundSteps
  <2> HIDE DEF product
  <2> QED
    BY <1>1, <1>2, <1>3, <1>4, <1>5, <1>6, <2>1 DEF Closer
<1>7. CASE Turns(c)
  <2> DEFINE after == rounds - 1
  <2>1. StepsLeft(c)' = (Len(Chain) + 1 - (index[c] + 1)) * RoundSteps + StepsWithModel(c)'
    BY <1>7 DEF Turns, StepsLeft, RoundSteps
  <2>2. Len(Chain) + 1 - (index[c] + 1) = after /\ after \in Nat /\ rounds = after + 1
    BY <1>3, <1>7 DEF Turns
  <2>3. StepsWithModel(c)' \in 0 .. RoundSteps - 1 /\ StepsWithModel(c) \in Nat
    BY <1>1, <1>2, <1>7 DEF Turns
  <2> HIDE DEF after, rounds
  <2>4. /\ after * RoundSteps \in Nat
        /\ after * RoundSteps + StepsWithModel(c)' < (after + 1) * RoundSteps + StepsWithModel(c)
    BY <1>3, <2>2, <2>3, RoundsOrdered
  <2>5. /\ StepsLeft(c)' = after * RoundSteps + StepsWithModel(c)'
        /\ StepsLeft(c) = (after + 1) * RoundSteps + StepsWithModel(c)
    BY <1>5, <2>1, <2>2
  <2> HIDE DEF product
  <2> QED
    BY <1>1, <1>4, <1>5, <2>3, <2>4, <2>5
<1>8. CASE Over(c)'
  <2>1. StepsLeft(c)' = 0
    BY <1>8 DEF StepsLeft
  <2> HIDE DEF product
  <2> QED
    BY <1>1, <1>3, <1>4, <1>5, <2>1
<1> QED
  BY <1>6, <1>7, <1>8

LEMMA ChatCounts ==
    ASSUME TypeInv, TypeInv', NEW c \in Callers, ChatStep(c)
    PROVE  StepsLeft(c)' \in 0 .. StepsLeft(c) - 1
<1> SUFFICES ~Over(c) /\ (Closer(c) \/ Turns(c) \/ Over(c)')
  BY Counted
<1>1. Counting(c) /\ Counting(c)'
  <2>1. AllCounting'
    BY StepsAt, PTL
  <2> QED
    BY <2>1, StepsAt DEF AllCounting
<1>2. /\ Attempts \in Nat \ {0} /\ attempt[c] \in 0 .. Attempts /\ attempt'[c] \in 0 .. Attempts
      /\ Len(Chain) \in Nat /\ index[c] \in 1 .. Len(Chain) + 1
  BY Constants DEF TypeInv, TypeOK
<1> USE <1>1, <1>2, FromAt DEF Counting, Over, Closer, Turns
<1>3. CASE ReturnNothing(c) \/ CacheHit(c)
  BY <1>3 DEF ReturnNothing, CacheHit, Return, Goto, TypeInv, TypeOK
<1>4. CASE CacheMiss(c)
  BY <1>4 DEF CacheMiss, Goto, TypeInv, TypeOK
<1>5. CASE Status(c)
  BY <1>5 DEF Status, Goto, TypeInv, TypeOK
<1>6. CASE Skip(c) \/ CallRefused(c)
  BY <1>6 DEF Skip, CallRefused, AskNext, Goto, TypeInv, TypeOK, PathInv
<1>7. CASE AllowHalfOpen(c)
  BY <1>7 DEF AllowHalfOpen, Rewrite, Goto, TypeInv, TypeOK
<1>8. CASE CallAnswers(c)
  BY <1>8 DEF CallAnswers, Rewrite, Goto, TypeInv, TypeOK
<1>9. CASE CallRetried(c)
  BY <1>9 DEF CallRetried, Exhausted, TypeInv, TypeOK
<1>10. CASE CallExhausted(c)
  BY <1>10 DEF CallExhausted, Rewrite, Goto, TypeInv, TypeOK, PathInv
<1>11. CASE Truncate(c)
  BY <1>11 DEF Truncate, Goto, TypeInv, TypeOK, PathInv
<1>12. CASE Write(c)
  BY <1>12 DEF Write, Goto, TypeInv, TypeOK, PathInv
<1>13. CASE Keep(c)
  BY <1>13 DEF Keep, KeepAndReturn, Return, AskNext, Goto, TypeInv, TypeOK, PathInv
<1> QED
  BY <1>3, <1>4, <1>5, <1>6, <1>7, <1>8, <1>9, <1>10, <1>11, <1>12, <1>13 DEF ChatStep

\* What anybody else does, and the passing of time.
Others(c) ==
    \/ \E d \in Callers \ {c} : Chat(d) \/ ChatStep(d) \/ Crash(d)
    \/ \E m \in Models : WindowPasses(m) \/ CacheExpires(m)

LEMMA OthersKeep ==
    ASSUME TypeInv, NEW c \in Callers, Others(c)
    PROVE  UNCHANGED <<at[c], index[c], attempt[c], then[c]>>
<1> USE DEF TypeInv, TypeOK
<1>1. ASSUME NEW d \in Callers \ {c}, Chat(d) \/ Crash(d)
      PROVE  UNCHANGED <<at[c], index[c], attempt[c], then[c]>>
  BY <1>1 DEF Chat, Crash, Goto
<1>2. ASSUME NEW d \in Callers \ {c}, ChatStep(d)
      PROVE  UNCHANGED <<at[c], index[c], attempt[c], then[c]>>
  <2> USE DEF Return, AskNext, Rewrite, Goto
  <2>1. CASE ReturnNothing(d) \/ CacheHit(d) \/ CacheMiss(d) \/ Status(d) \/ Skip(d)
    BY <2>1 DEF ReturnNothing, CacheHit, CacheMiss, Status, Skip
  <2>2. CASE AllowHalfOpen(d) \/ CallAnswers(d) \/ CallRetried(d)
    BY <2>2 DEF AllowHalfOpen, CallAnswers, CallRetried
  <2>3. CASE CallExhausted(d) \/ CallRefused(d)
    BY <2>3 DEF CallExhausted, CallRefused
  <2>4. CASE Truncate(d) \/ Write(d) \/ Keep(d)
    BY <2>4 DEF Truncate, Write, Keep, KeepAndReturn
  <2> QED
    BY <1>2, <2>1, <2>2, <2>3, <2>4 DEF ChatStep
<1>3. ASSUME NEW m \in Models, WindowPasses(m) \/ CacheExpires(m)
      PROVE  UNCHANGED <<at[c], index[c], attempt[c], then[c]>>
  BY <1>3 DEF WindowPasses, CacheExpires
<1> QED
  BY <1>1, <1>2, <1>3 DEF Others

\* A chat ends after as many steps of its own as its chain and the attempts allow, whatever
\* the providers answer: each of them counts down (utils/llm_client.py), and neither other
\* callers, who rewrite the circuits that decide its way, nor the end of a window or of a
\* cached response take it back.  That it goes on is left to fairness, and to ChatReturns.
THEOREM ChatDescends ==
  Spec => [][\A c \in Callers :
                /\ StepsLeft(c) \in 0 .. (Len(Chain) + 1) * RoundSteps
                /\ ChatStep(c) => StepsLeft(c)' \in 0 .. StepsLeft(c) - 1
                /\ Others(c) => StepsLeft(c)' = StepsLeft(c)]_vars
<1>1. ASSUME NEW c \in Callers, UNCHANGED <<at[c], index[c], attempt[c], then[c]>>
      PROVE  StepsLeft(c)' = StepsLeft(c)
  BY <1>1 DEF StepsLeft, StepsWithModel, StepsFrom, RoundSteps, Over
<1>2. ASSUME IInv, IInv'
      PROVE  \A c \in Callers :
                /\ StepsLeft(c) \in 0 .. (Len(Chain) + 1) * RoundSteps
                /\ ChatStep(c) => StepsLeft(c)' \in 0 .. StepsLeft(c) - 1
                /\ Others(c) => StepsLeft(c)' = StepsLeft(c)
  BY <1>1, <1>2, StepsCounted, ChatCounts, OthersKeep DEF IInv
<1> QED
  BY Invariance, <1>2, PTL
=============================================================================
