------------------------------ MODULE Connector -----------------------------
(***************************************************************************)
(* A search that a connector makes (dr_rd/connectors): answered from the   *)
(* files of the cache (dr_rd/cache/file_cache.py), from fixtures, or by    *)
(* the service, behind a limit on the searches of a period and with three  *)
(* attempts (commons.py).  The list of recent searches is one for the      *)
(* process and has no lock: a thread reads it, and replaces it by what it  *)
(* read with its own search added.  Its order is never looked at; it is    *)
(* modelled as the set of its searches, each with its time.                *)
(*                                                                         *)
(* One connector and one query are modelled, at times 0 .. MaxTime.        *)
(***************************************************************************)
EXTENDS Naturals, FiniteSets

CONSTANTS
    Searchers,      \* threads
    SearchLimit,    \* searches that a period admits
    Period,
    MaxTime,        \* bound: the time
    MaxSearches     \* bound: the searches of a thread

ASSUME ConnectorAssumption ==
    {SearchLimit, Period, MaxTime, MaxSearches} \subseteq Nat

VARIABLES
    now,
    recent,     \* _RATE_LIMITS[key], the searches whose times it holds
    cacheFile,  \* the cache's file: "none" (or too old), "torn" or "whole"
    offline,    \* whether fixtures are used
    searching,  \* where each thread is
    seen,       \* what it has read of recent
    readAt,     \* and when
    attempts,   \* its requests that failed
    searched,   \* its searches
    alone,      \* history: no other thread was in the guard with it
    admitted    \* history: the searches admitted alone

connectorVars == <<now, recent, cacheFile, offline, searching, seen, readAt,
                   attempts, searched, alone, admitted>>

ConnectorInit ==
    /\ now = 0 /\ recent = {} /\ cacheFile = "none" /\ offline \in BOOLEAN
    /\ searching = [t \in Searchers |-> "idle"]
    /\ seen = [t \in Searchers |-> {}]
    /\ readAt = [t \in Searchers |-> 0]
    /\ attempts = [t \in Searchers |-> 0]
    /\ searched = [t \in Searchers |-> 0]
    /\ alone = [t \in Searchers |-> TRUE]
    /\ admitted = {}

Goto(t, s) == searching' = [searching EXCEPT ![t] = s]
guardVars == <<recent, seen, readAt, alone, admitted>>

-----------------------------------------------------------------------------
\* A file that is missing, too old or does not parse is no answer.
LookUp(t) ==
    /\ searching[t] = "idle" /\ searched[t] < MaxSearches
    /\ searched' = [searched EXCEPT ![t] = @ + 1]
    /\ attempts' = [attempts EXCEPT ![t] = 0]
    /\ Goto(t, IF cacheFile = "whole" THEN "idle" ELSE "search")
    /\ UNCHANGED <<now, cacheFile, offline, guardVars>>

LoadFixture(t) ==
    /\ searching[t] = "search" /\ offline
    /\ Goto(t, "keep")
    /\ UNCHANGED <<now, cacheFile, offline, attempts, searched, guardVars>>

InGuard == {t \in Searchers : searching[t] = "admit"}

\* Mutant: one search more than the limit.
ExhaustedAbove(w) == Cardinality(w) > SearchLimit

Exhausted(w) == Cardinality(w) >= SearchLimit

InPeriod(w) == {x \in w : now - x.at < Period}

ReadWindow(t) ==
    /\ searching[t] = "search" /\ ~offline
    /\ IF Exhausted(InPeriod(recent))
       THEN Goto(t, "idle") /\ UNCHANGED <<seen, readAt, alone>>
       ELSE /\ Goto(t, "admit")
            /\ seen' = [seen EXCEPT ![t] = InPeriod(recent)]
            /\ readAt' = [readAt EXCEPT ![t] = now]
            /\ alone' = [u \in Searchers |->
                            IF u = t THEN InGuard = {} ELSE alone[u] /\ u \notin InGuard]
    /\ UNCHANGED <<now, recent, cacheFile, offline, attempts, searched, admitted>>

\* A thread's search, told from its others by their number.
SearchOf(t) == [by |-> t, nth |-> searched[t], at |-> readAt[t]]

WriteWindow(t) ==
    /\ searching[t] = "admit"
    /\ recent' = seen[t] \cup {SearchOf(t)}
    /\ admitted' = IF alone[t] THEN admitted \cup {SearchOf(t)} ELSE admitted
    /\ Goto(t, "request")
    /\ UNCHANGED <<now, cacheFile, offline, seen, readAt, attempts, searched, alone>>

\* Two failures are followed by a wait and another request, the third is raised;
\* so is an answer that is not JSON.
RequestFails(t) ==
    /\ searching[t] = "request" /\ attempts[t] < 2
    /\ attempts' = [attempts EXCEPT ![t] = @ + 1]
    /\ UNCHANGED <<now, cacheFile, offline, searching, searched, guardVars>>

SearchFails(t) ==
    /\ searching[t] = "request"
    /\ Goto(t, "idle")
    /\ UNCHANGED <<now, cacheFile, offline, attempts, searched, guardVars>>

Answered(t) ==
    /\ searching[t] = "request"
    /\ Goto(t, "keep")
    /\ UNCHANGED <<now, cacheFile, offline, attempts, searched, guardVars>>

\* write_text truncates and then writes.
OpenCacheFile(t) ==
    /\ searching[t] = "keep"
    /\ cacheFile' = "torn"
    /\ Goto(t, "write")
    /\ UNCHANGED <<now, offline, attempts, searched, guardVars>>

WriteCacheFile(t) ==
    /\ searching[t] = "write"
    /\ cacheFile' = "whole"
    /\ Goto(t, "idle")
    /\ UNCHANGED <<now, offline, attempts, searched, guardVars>>

Tick ==
    /\ now < MaxTime /\ now' = now + 1
    /\ UNCHANGED <<recent, cacheFile, offline, searching, seen, readAt, attempts,
                   searched, alone, admitted>>

\* A day is longer than a period: what was searched is out of the window too.
Expire ==
    /\ cacheFile = "whole" /\ InPeriod(recent) = {}
    /\ cacheFile' = "none"
    /\ UNCHANGED <<now, offline, searching, attempts, searched, guardVars>>

ConnectorNext ==
    \/ \E t \in Searchers :
          \/ LookUp(t) \/ LoadFixture(t) \/ ReadWindow(t) \/ WriteWindow(t)
          \/ RequestFails(t) \/ SearchFails(t) \/ Answered(t) \/ OpenCacheFile(t) \/ WriteCacheFile(t)
    \/ Tick \/ Expire

ConnectorSpec == ConnectorInit /\ [][ConnectorNext]_connectorVars

-----------------------------------------------------------------------------
Search == [by : Searchers, nth : 0 .. MaxSearches, at : 0 .. MaxTime]

ConnectorTypeOK ==
    /\ now \in 0 .. MaxTime
    /\ recent \subseteq Search
    /\ cacheFile \in {"none", "torn", "whole"} /\ offline \in BOOLEAN
    /\ searching \in [Searchers -> {"idle", "search", "admit", "request", "keep", "write"}]
    /\ seen \in [Searchers -> SUBSET Search]
    /\ readAt \in [Searchers -> 0 .. MaxTime]
    /\ attempts \in [Searchers -> 0 .. 2]
    /\ searched \in [Searchers -> 0 .. MaxSearches]
    /\ alone \in [Searchers -> BOOLEAN]
    /\ admitted \subseteq Search

\* In any period the service is searched no more often than the limit says, but for
\* searches whose passage through the guard overlapped another's: these may both
\* take the last place, and the list that one writes undoes the other's entry.
RateKept ==
    \A from \in 0 .. MaxTime :
       Cardinality({x \in admitted : x.at \in from .. from + Period - 1}) <= SearchLimit
=============================================================================
