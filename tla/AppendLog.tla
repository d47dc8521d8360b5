----------------------------- MODULE AppendLog -----------------------------
(***************************************************************************)
(* What a caller of trace_writer.append_step is promised: while the call   *)
(* runs its entry joins the end of the log once, and a call that raises    *)
(* leaves no entry.  A process that dies ends its running calls, with or   *)
(* without their entry.                                                    *)
(***************************************************************************)
EXTENDS Sequences, Naturals

CONSTANT Calls

VARIABLES log, state

vars == <<log, state>>

Logged(c) == \E i \in 1 .. Len(log) : log[i] = c

Init == log = << >> /\ state = [c \in Calls |-> "new"]

Begin(c) ==
    /\ state[c] = "new"
    /\ state' = [state EXCEPT ![c] = "running"]
    /\ UNCHANGED log

TakeEffect(c) ==
    /\ state[c] = "running" /\ ~Logged(c)
    /\ log' = Append(log, c)
    /\ UNCHANGED state

Return(c) ==
    /\ state[c] = "running" /\ Logged(c)
    /\ state' = [state EXCEPT ![c] = "returned"]
    /\ UNCHANGED log

Raise(c) ==
    /\ state[c] = "running" /\ ~Logged(c)
    /\ state' = [state EXCEPT ![c] = "raised"]
    /\ UNCHANGED log

Die ==
    /\ state' = [c \in Calls |-> IF state[c] = "running" THEN "dead" ELSE state[c]]
    /\ UNCHANGED log

Next == Die \/ \E c \in Calls : Begin(c) \/ TakeEffect(c) \/ Return(c) \/ Raise(c)

Spec == Init /\ [][Next]_vars
=============================================================================
