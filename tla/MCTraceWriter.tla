---------------------------- MODULE MCTraceWriter ---------------------------
(* TraceWriter with three calls of append_step.                              *)
EXTENDS TraceWriter

CONSTANTS c1, c2, c3, noLock

MCCalls == {c1, c2, c3}
=============================================================================
