---------------------------- MODULE RefCNumbers ----------------------------
(***************************************************************************)
(* The numbers of the RefC runtime (support/refc/mathFunctions.c): eight   *)
(* fixed-width types computed by C, and Integer computed by GMP.           *)
(*                                                                         *)
(* A number is its mathematical value.  C computes with the operands       *)
(* promoted to int or wider and converts the result to the type of the     *)
(* field it is stored in: `Wrap'.  An overflow of int32_t or int64_t is    *)
(* undefined in C; the builds in use wrap, which is what the tests of the  *)
(* repository expect.                                                      *)
(***************************************************************************)
EXTENDS Integers, Sequences, FiniteSetsExt

CONSTANTS
  W8, W16, W32, W64, \* the widths of the types, in bits: 8, 16, 32 and 64
  WInteger           \* bits enough for the Integers of an instance

ASSUME WidthsAssumption ==
  /\ {W8, W16, W32, W64, WInteger} \subseteq Nat
  /\ 1 < W8 /\ W8 < W16 /\ W16 < W32 /\ W32 < W64 /\ W64 <= WInteger

SignedTypes   == {"Int8", "Int16", "Int32", "Int64"}
UnsignedTypes == {"Bits8", "Bits16", "Bits32", "Bits64"}
FixedTypes    == SignedTypes \union UnsignedTypes

(* The types each family of operations is declared for.  Arithmetic on     *)
(* double is that of the machine and is left out.                          *)
ArithmeticTypes == FixedTypes \union {"Integer"}
ComparableTypes == ArithmeticTypes \union {"double", "char", "string"}

(* char is an unsigned char. *)
Width == [t \in ArithmeticTypes \union {"char"} |->
            CASE t \in {"Int8", "Bits8", "char"} -> W8
              [] t \in {"Int16", "Bits16"}       -> W16
              [] t \in {"Int32", "Bits32"}       -> W32
              [] t \in {"Int64", "Bits64"}       -> W64
              [] t = "Integer"                   -> WInteger]

-----------------------------------------------------------------------------
(* The conversion of an integer to a C type, and the values of a type. *)

Unsigned(w, n) == n % 2^w

Signed(w, n) == ((n + 2^(w - 1)) % 2^w) - 2^(w - 1)

Wrap(t, n) ==
  CASE t = "Integer"                      -> n
    [] t \in SignedTypes                  -> Signed(Width[t], n)
    [] t \in UnsignedTypes \union {"char"} -> Unsigned(Width[t], n)

ValuesOf(t) ==
  IF t \in SignedTypes THEN -(2^(Width[t] - 1)) .. 2^(Width[t] - 1) - 1
                       ELSE 0 .. 2^Width[t] - 1

Smallest(t) == -(2^(Width[t] - 1))

Abs(n) == IF n < 0 THEN -n ELSE n

(* The division of C rounds towards zero, its remainder has the sign of    *)
(* the dividend.                                                           *)
CQuotient(n, d) ==
  IF (n < 0) = (d < 0) THEN Abs(n) \div Abs(d) ELSE -(Abs(n) \div Abs(d))

CRemainder(n, d) == n - d * CQuotient(n, d)

-----------------------------------------------------------------------------
(* The operations: `t' is the type in the name of the C function.  No      *)
(* function tests its divisor: the prelude does, before it calls them.     *)

add(t, x, y)  == Wrap(t, x + y)
sub(t, x, y)  == Wrap(t, x - y)
negate(t, x)  == Wrap(t, -x)
mul(t, x, y)  == Wrap(t, x * y)

\* Mutant: the quotient of a signed type is that of C.
divOfC(t, x, y) ==
  CASE t = "Integer" -> CQuotient(x - (x % Abs(y)), y)
    [] OTHER         -> Wrap(t, CQuotient(x, y))

(* A signed type corrects the quotient of C where the remainder is         *)
(* negative; Integer takes the Euclidean remainder away and then divides   *)
(* exactly.                                                                *)
div(t, x, y) ==
  CASE t = "Integer"        -> CQuotient(x - (x % Abs(y)), y)
    [] t \in UnsignedTypes  -> x \div y
    [] t \in SignedTypes    ->
         LET rem == CRemainder(x, y)
             correction == IF rem >= 0 THEN 0 ELSE IF y < 0 THEN 1 ELSE -1
         IN  Wrap(t, CQuotient(x, y) + correction)

(* The remainder of a negative dividend is moved up by the divisor, also   *)
(* when it is 0.                                                           *)
mod(t, x, y) ==
  CASE t = "Integer"        -> x % Abs(y)
    [] t \in UnsignedTypes  -> x % y
    [] t \in SignedTypes    ->
         LET denom == IF y < 0 THEN Wrap(t, -y) ELSE y
         IN  Wrap(t, CRemainder(x, denom) + (IF x < 0 THEN denom ELSE 0))

(* The smallest int32_t and int64_t have no quotient by -1: the division   *)
(* instruction traps.                                                      *)
Traps(t, x, y) == t \in {"Int32", "Int64"} /\ x = Smallest(t) /\ y = -1

shiftl(t, x, y) == Wrap(t, x * 2^y)
shiftr(t, x, y) == x \div 2^y

(* Bits of the two's complement form of x. *)
BitsOf(t, x) == {i \in 0 .. Width[t] - 1 : (x \div 2^i) % 2 = 1}

(* The number whose bits below w are those of S. *)
BitSum(w, S) ==
  LET sum[i \in 0 .. w] ==
        IF i = 0 THEN 0 ELSE sum[i - 1] + (IF i - 1 \in S THEN 2^(i - 1) ELSE 0)
  IN  sum[w]

FromBits(t, S) ==
  LET n == BitSum(Width[t], S)
  IN  IF t = "Integer" THEN Signed(Width[t], n) ELSE Wrap(t, n)

and(t, x, y) == FromBits(t, BitsOf(t, x) \intersect BitsOf(t, y))
or(t, x, y)  == FromBits(t, BitsOf(t, x) \union BitsOf(t, y))
xor(t, x, y) ==
  FromBits(t, (BitsOf(t, x) \union BitsOf(t, y))
                \ (BitsOf(t, x) \intersect BitsOf(t, y)))

-----------------------------------------------------------------------------
(* Comparisons.  A double that is compared is a finite one, given by its   *)
(* halves (the two zeros are one number), an infinity with its sign, or    *)
(* not a number: div_double makes them, and atof from a text.  strcmp      *)
(* orders strings by their first difference.                               *)

Finite(h)   == [nan |-> FALSE, infinity |-> 0, halves |-> h]
Infinity(s) == [nan |-> FALSE, infinity |-> s, halves |-> 0]
NaN         == [nan |-> TRUE, infinity |-> 0, halves |-> 0]

doubleLess(x, y) ==
  /\ ~x.nan /\ ~y.nan
  /\ \/ x.infinity < y.infinity
     \/ x.infinity = y.infinity /\ x.halves < y.halves

strcmpLess(a, b) ==
  \E k \in 0 .. Len(a) :
    /\ k < Len(b)
    /\ \A i \in 1 .. k : a[i] = b[i]
    /\ k = Len(a) \/ a[k + 1] < b[k + 1]

Less(t, x, y) ==
  CASE t = "string" -> strcmpLess(x, y)
    [] t = "double" -> doubleLess(x, y)
    [] OTHER        -> x < y

(* Two doubles one of which is not a number: the fourth outcome of a       *)
(* comparison, in which every operator of C gives 0.                       *)
Unordered(t, x, y) == t = "double" /\ (x.nan \/ y.nan)

lt(t, x, y)  == Less(t, x, y)
gt(t, x, y)  == Less(t, y, x)
eq(t, x, y)  == ~Unordered(t, x, y) /\ ~Less(t, x, y) /\ ~Less(t, y, x)

\* Mutant: less or equal is the negation of greater.
lteNotGreater(t, x, y) == ~Less(t, y, x)

lte(t, x, y) == ~Unordered(t, x, y) /\ ~Less(t, y, x)
gte(t, x, y) == ~Unordered(t, x, y) /\ ~Less(t, x, y)
=============================================================================
