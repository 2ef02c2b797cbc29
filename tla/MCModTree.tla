----------------------------- MODULE MCModTree -----------------------------
(***************************************************************************)
(* ModTree over every import graph of three modules with at most two       *)
(* imports each, any of them missing, unreadable or unparsable, and every  *)
(* package that names one or two of them.                                  *)
(***************************************************************************)
EXTENDS ModTree

CONSTANTS A, B, C

MCModules == {A, B, C}
=============================================================================
