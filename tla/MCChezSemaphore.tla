-------------------------- MODULE MCChezSemaphore --------------------------
(***************************************************************************)
(* Small instances of ChezSemaphore.  Any thread posts and waits.          *)
(***************************************************************************)
EXTENDS ChezSemaphore, TLC

CONSTANTS t1, t2, t3, t4

MCThreads == {t1, t2, t3, t4}
=============================================================================
