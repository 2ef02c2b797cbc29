----------------------------- MODULE RefCCasts -----------------------------
(***************************************************************************)
(* The casts of the RefC runtime (support/refc/casts.c): one C function    *)
(* for each pair of types.  cast_T(n)[U] is cast_T_to_U; the domain of     *)
(* cast_T is the set of types it is declared for.                          *)
(*                                                                         *)
(* A double is the integer h that stands for h / 2, so that a fraction     *)
(* exists.  A string is a text a cast can produce or read: an integer, a   *)
(* number with a fraction, or a text that starts with no number.           *)
(***************************************************************************)
EXTENDS RefCNumbers

CONSTANT Mantissa \* the bits of the significand of a double: 53

ASSUME MantissaAssumption == Mantissa \in W32 + 1 .. W64 - 1

FixedOrInteger == ArithmeticTypes
Targets == ArithmeticTypes \union {"double", "char", "string"}

-----------------------------------------------------------------------------
(* Doubles.  A significand of Mantissa bits: beyond 2^Mantissa halves the  *)
(* doubles are 2, 4, ... halves apart.                                     *)

Spacing(h) ==
  2^(CHOOSE e \in 0 .. WInteger + 1 :
       /\ Abs(h) < 2^(Mantissa + e)
       /\ e = 0 \/ Abs(h) >= 2^(Mantissa + e - 1))

TowardsZero(h) == CQuotient(h, Spacing(h)) * Spacing(h)

(* Round to nearest, a tie to the even significand. *)
Nearest(h) ==
  LET s  == Spacing(h)
      lo == (h \div s) * s
      up == lo + s
  IN  CASE h - lo < up - h -> lo
        [] h - lo > up - h -> up
        [] OTHER           -> IF (lo \div s) % 2 = 0 THEN lo ELSE up

DoubleOf(n)   == Nearest(2 * n)  \* the conversion of C
mpz_get_d(n)  == TowardsZero(2 * n)
IntegerPart(h) == CQuotient(h, 2)

-----------------------------------------------------------------------------
(* Texts: [form, halves].  "%f" always prints a point. *)

Numeral(n) == [form |-> "integer", halves |-> 2 * n]
Decimal(h) == [form |-> "decimal", halves |-> h]
Word       == [form |-> "word", halves |-> 0]

(* atoi is strtol, which stops at the first character that continues no    *)
(* integer and keeps to the range of long, converted to int.               *)
strtol(s) ==
  LET n == IntegerPart(s.halves)
  IN  IF n < Smallest("Int64") THEN Smallest("Int64")
      ELSE IF n >= 2^(W64 - 1) THEN 2^(W64 - 1) - 1 ELSE n

atoi(s) == Wrap("Int32", strtol(s))

\* Mutant: mpz_set_str knows no sign.
setStrUnsigned(s) ==
  IF s.form = "integer" /\ s.halves >= 0 THEN IntegerPart(s.halves) ELSE 0

(* mpz_set_str refuses a text that is not an integer from end to end and   *)
(* leaves the new Integer at 0.                                            *)
mpz_set_str(s) == IF s.form = "integer" THEN IntegerPart(s.halves) ELSE 0

atof(s) == Nearest(s.halves)

\* Mutant: the residue of mpz_tdiv_r_2exp, with the sign dropped.
lsbOfAbs(n, b) == Abs(n) % 2^b

(* The residue mpz_fdiv_r_2exp leaves is never negative. *)
mpz_get_lsb(n, b) == n % 2^b

-----------------------------------------------------------------------------
(* The conversion of an integer of C to each type. *)

FromC(u, n) ==
  CASE u \in FixedTypes \union {"char"} -> Wrap(u, n)
    [] u = "Integer"                    -> n
    [] u = "double"                     -> DoubleOf(n)
    [] u = "string"                     -> Numeral(n)

cast_Int8(n)  == [u \in Targets \ {"Int8"} |-> FromC(u, n)]
cast_Int16(n) == [u \in Targets \ {"Int16"} |-> FromC(u, n)]
cast_Int32(n) == [u \in Targets \ {"Int32"} |-> FromC(u, n)]

(* Int and Int64 are both a Value_Int64: the cast between them returns the *)
(* value it is given.                                                      *)
cast_Int64(n) == [u \in Targets |-> IF u = "Int64" THEN n ELSE FromC(u, n)]

cast_Bits8(n)  == [u \in Targets \ {"Bits8"} |-> FromC(u, n)]
cast_Bits16(n) == [u \in Targets \ {"Bits16"} |-> FromC(u, n)]
cast_Bits32(n) == [u \in Targets \ {"Bits32"} |-> FromC(u, n)]
cast_Bits64(n) == [u \in Targets \ {"Bits64"} |-> FromC(u, n)]

(* A char prints as itself, not as its number. *)
cast_char(c) == [u \in Targets \ {"char", "string"} |-> FromC(u, c)]

(* Integer hands over its low bits, of which the C type takes what it      *)
(* holds.                                                                  *)
cast_Integer(n) ==
  [u \in Targets \ {"Integer"} |->
     CASE u \in FixedTypes \union {"char"} -> Wrap(u, mpz_get_lsb(n, Width[u]))
       [] u = "double"                     -> mpz_get_d(n)
       [] u = "string"                     -> Numeral(n)]

(* Outside the range of the type the conversion is undefined in C and the  *)
(* machine chooses: the set holds every value the cast may return.         *)
cast_double(h) ==
  [u \in Targets \ {"double"} |->
     CASE u \in FixedTypes \union {"char"} ->
            IF IntegerPart(h) \in ValuesOf(u) THEN {IntegerPart(h)}
                                              ELSE ValuesOf(u)
       [] u = "Integer" -> {IntegerPart(h)}
       [] u = "string"  -> {Decimal(h)}]

cast_string(s) ==
  [u \in Targets \ {"string", "char"} |->
     CASE u \in FixedTypes -> Wrap(u, atoi(s))
       [] u = "Integer"    -> mpz_set_str(s)
       [] u = "double"     -> atof(s)]

(* What the cast from t to u can return for x. *)
CastsOf(t, x) ==
  LET only(f) == [u \in DOMAIN f |-> {f[u]}]
  IN  CASE t = "Int8"    -> only(cast_Int8(x))
        [] t = "Int16"   -> only(cast_Int16(x))
        [] t = "Int32"   -> only(cast_Int32(x))
        [] t = "Int64"   -> only(cast_Int64(x))
        [] t = "Bits8"   -> only(cast_Bits8(x))
        [] t = "Bits16"  -> only(cast_Bits16(x))
        [] t = "Bits32"  -> only(cast_Bits32(x))
        [] t = "Bits64"  -> only(cast_Bits64(x))
        [] t = "Integer" -> only(cast_Integer(x))
        [] t = "char"    -> only(cast_char(x))
        [] t = "string"  -> only(cast_string(x))
        [] t = "double"  -> cast_double(x)
=============================================================================
