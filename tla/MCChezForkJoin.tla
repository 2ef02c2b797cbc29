--------------------------- MODULE MCChezForkJoin ---------------------------
(***************************************************************************)
(* ChezForkJoin with three workers, a parent and the thread of the future. *)
(***************************************************************************)
EXTENDS ChezForkJoin, TLC

CONSTANTS w1, w2, w3

MCWorkers == {w1, w2, w3}
=============================================================================
