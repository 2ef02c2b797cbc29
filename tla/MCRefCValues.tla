---------------------------- MODULE MCRefCValues ----------------------------
(***************************************************************************)
(* Small widths for RefCValues, in the order of the real ones: every value *)
(* of every fixed-width type is an operand.                                *)
(***************************************************************************)
EXTENDS RefCValues

MCSmallIntegers == -20 .. 20

(* Beyond the values of the widest type on both sides. *)
MCCastIntegers == -70 .. 70

MCCastHalves == -45 .. 45 \union {100, 120, 127, 128, 129, 150, -128, -131}

MCStrings == {s \in UNION {[1 .. n -> 1 .. 3] : n \in 0 .. 3} :
                Len(s) = 3 => s[1] # s[2]}

(* An integer of three different bytes, a byte that does not fit. *)
MCBufferInts    == {-7, 27}
MCBufferBytes   == {5}
MCBufferStrings == {<<3, 1>>}
=============================================================================
