---------------------------- MODULE MCRefCMemory ----------------------------
(***************************************************************************)
(* Every program of a few statements, from the start of main and from two  *)
(* later points that a few statements do not reach.                        *)
(***************************************************************************)
EXTENDS RefCMemory, TLC

(* After newArray, makePointer, UnderApplied of the array with two missing *)
(* arguments, onCollect, a WriteSlot of the GC pointer to the array and    *)
(* the EndOfBlock of everything since newArray: the array holds a GC       *)
(* pointer whose finaliser knows the array.                                *)
ArrayWithFinaliser ==
  /\ heap = (1 :> [Value("WORLD", <<>>) EXCEPT !.rc = 2])
         @@ (2 :> [Value("ARRAY", <<6>>) EXCEPT !.rc = 2])
         @@ (3 :> Value("POINTER", <<>>))
         @@ (4 :> Arglist(<<2>>, 3))
         @@ (5 :> Value("CLOSURE", <<4>>))
         @@ (6 :> GCPointer(3, 5))
  /\ stack = <<Run("code", NULL, <<1, 2, 1>>)>>
  /\ leaked = <<>> /\ broken = FALSE
  /\ ops = MaxOps - 2

(* After makePointer, UnderApplied without an argument and with one        *)
(* missing, onCollect, and the EndOfBlock of these: the finaliser of the   *)
(* GC pointer runs before there is a closure1, which it has to make.       *)
FinaliserOfOneArgument ==
  /\ heap = (1 :> Value("WORLD", <<>>))
         @@ (2 :> Value("POINTER", <<>>))
         @@ (3 :> Arglist(<<>>, 1))
         @@ (4 :> Value("CLOSURE", <<3>>))
         @@ (5 :> GCPointer(2, 4))
  /\ stack = <<Run("code", NULL, <<1, 5>>)>>
  /\ leaked = <<>> /\ broken = FALSE
  /\ ops = MaxOps - 2

MCSpec == (Init \/ ArrayWithFinaliser \/ FinaliserOfOneArgument) /\ [][Next]_vars
=============================================================================
