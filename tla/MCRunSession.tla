---------------------------- MODULE MCRunSession ----------------------------
(* RunSession with two sessions and two runs: one session drives a run, the  *)
(* other opens its page, takes it over, or drives the second run.            *)
EXTENDS RunSession, TLC

CONSTANTS t1, t2, r1, r2, noRun, noToken

MCSessions == {t1, t2}
MCRuns == {r1, r2}
Symmetry == Permutations(MCSessions) \cup Permutations(MCRuns)
=============================================================================
