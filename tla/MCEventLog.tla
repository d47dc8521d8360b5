----------------------------- MODULE MCEventLog -----------------------------
(* EventLog with one process; a line of one character and one of two, three  *)
(* bytes long.                                                               *)
EXTENDS EventLog

MCLines == {[chars |-> 1, bytes |-> 1], [chars |-> 2, bytes |-> 3]}
=============================================================================
