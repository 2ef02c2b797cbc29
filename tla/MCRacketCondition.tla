-------------------------- MODULE MCRacketCondition --------------------------
(***************************************************************************)
(* Three threads share one condition variable of the Racket runtime.       *)
(***************************************************************************)
EXTENDS RacketCondition, TLC

CONSTANTS t1, t2, t3

MCThreads == {t1, t2, t3}
Symmetry == Permutations(MCThreads)
=============================================================================
