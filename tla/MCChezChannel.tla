--------------------------- MODULE MCChezChannel ---------------------------
(***************************************************************************)
(* A small instance of ChezChannel: four threads, any of which puts and    *)
(* gets, so that two can sleep on the same condition while two others run. *)
(***************************************************************************)
EXTENDS ChezChannel, TLC

CONSTANTS t1, t2, t3, t4, v1, v2

MCThreads == {t1, t2, t3, t4}
MCValues == {v1, v2}
=============================================================================
