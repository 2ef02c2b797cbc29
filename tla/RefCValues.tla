----------------------------- MODULE RefCValues -----------------------------
(***************************************************************************)
(* The primitive operations of the RefC runtime as a program calls them:   *)
(* a call takes its operands from the values of its types and leaves its   *)
(* result to be looked at, then Return gives it back.  The calls that      *)
(* change a buffer keep it between them.                                   *)
(*                                                                         *)
(* The properties compare what C computes with what Idris means: the       *)
(* arithmetic of Integer, the lists a string stands for, the values a      *)
(* buffer was given.                                                       *)
(***************************************************************************)
EXTENDS RefCCasts, RefCStrings

CONSTANTS
  SmallIntegers, \* the Integers that are operands of arithmetic
  CastIntegers,  \* the Integers that are cast, wider than any fixed type
  CastHalves,    \* the doubles that are cast, in halves
  Strings,       \* the strings
  BufferSize,    \* the bytes of the buffer
  BufferInts,    \* the integers written to it
  BufferBytes,   \* the bytes
  BufferStrings, \* the strings
  MaxWrites      \* bound on the writes

(* The Integers fit their bits, a double is given by its halves, a string  *)
(* by its characters, none of which is NUL.                                *)
ASSUME OperandsAssumption ==
  /\ SmallIntegers \subseteq -(2^(WInteger - 1)) .. 2^(WInteger - 1) - 1
  /\ CastHalves \subseteq Int /\ CastIntegers \subseteq Int
  /\ Strings \union BufferStrings \subseteq Seq(ValuesOf("char") \ {NUL})
  /\ BufferSize \in Nat
  /\ BufferInts \subseteq ValuesOf("Int64") /\ BufferBytes \subseteq Int

VARIABLES
  call,   \* the operation in progress with its operands, or Idle
  result, \* what it returned
  buffer, \* the bytes of a buffer
  intact, \* what was written to it and no later write touched
  writes  \* the number of writes

vars == <<call, result, buffer, intact, writes>>

Idle == [op |-> "idle"]

Chars == ValuesOf("char")

(* The doubles that are cast: of the finite ones those a significand holds. *)
(* Of the others mpz_set_d makes no Integer but ends the program, a fixed   *)
(* type gets what the machine chooses, and "%f" prints a word.              *)
FiniteHalves == {h \in CastHalves : Nearest(h) = h}

(* The doubles that are compared: all there are. *)
Doubles == {Finite(h) : h \in FiniteHalves} \union {Infinity(-1), Infinity(1), NaN}

(* The operands a type offers. *)

Operands(t) ==
  CASE t = "Integer" -> SmallIntegers
    [] t = "double"  -> Doubles
    [] t = "string"  -> Strings
    [] OTHER         -> ValuesOf(t)

Texts == {Numeral(n) : n \in CastIntegers}
           \union {Decimal(h) : h \in CastHalves} \union {Word}

CastOperands(t) ==
  CASE t = "Integer" -> CastIntegers
    [] t = "double"  -> FiniteHalves
    [] t = "string"  -> Texts
    [] OTHER         -> Operands(t)

Init ==
  /\ call = Idle /\ result = <<>>
  /\ buffer = newBuffer(BufferSize) /\ intact = {} /\ writes = 0

(* A call can start.  The calls that do not look at the buffer are explored *)
(* while nothing was written to it.                                        *)
Ready == call = Idle /\ writes = 0

(* A call with the operands of the record c returns r. *)
Returns(c, r) ==
  /\ call' = c /\ result' = r
  /\ UNCHANGED <<buffer, intact, writes>>

-----------------------------------------------------------------------------
Arithmetic ==
  /\ Ready
  /\ \E t \in ArithmeticTypes : \E x, y \in Operands(t) :
       \/ Returns([op |-> "add", t |-> t, x |-> x, y |-> y], add(t, x, y))
       \/ Returns([op |-> "sub", t |-> t, x |-> x, y |-> y], sub(t, x, y))
       \/ Returns([op |-> "mul", t |-> t, x |-> x, y |-> y], mul(t, x, y))
       \/ Returns([op |-> "negate", t |-> t, x |-> x, y |-> 0], negate(t, x))

(* The prelude calls neither with 0.  A quotient that traps is the end of  *)
(* the program and no call.                                                *)
Division ==
  /\ Ready
  /\ \E t \in ArithmeticTypes : \E x \in Operands(t), y \in Operands(t) \ {0} :
       \/ /\ ~Traps(t, x, y)
          /\ Returns([op |-> "div", t |-> t, x |-> x, y |-> y], div(t, x, y))
       \/ Returns([op |-> "mod", t |-> t, x |-> x, y |-> y], mod(t, x, y))

(* Data.Bits shifts by an index below the width of the type. *)
Shift ==
  /\ Ready
  /\ \E t \in ArithmeticTypes : \E x \in Operands(t), y \in Operands(t) \intersect 0 .. Width[t] - 1 :
       \/ Returns([op |-> "shiftl", t |-> t, x |-> x, y |-> y], shiftl(t, x, y))
       \/ Returns([op |-> "shiftr", t |-> t, x |-> x, y |-> y], shiftr(t, x, y))

Logic ==
  /\ Ready
  /\ \E t \in ArithmeticTypes : \E x, y \in Operands(t) :
       \/ Returns([op |-> "and", t |-> t, x |-> x, y |-> y], and(t, x, y))
       \/ Returns([op |-> "or", t |-> t, x |-> x, y |-> y], or(t, x, y))
       \/ Returns([op |-> "xor", t |-> t, x |-> x, y |-> y], xor(t, x, y))

(* makeBool is an Int8 of 1 or 0. *)
makeBool(p) == IF p THEN 1 ELSE 0

Comparison ==
  /\ Ready
  /\ \E t \in ComparableTypes : \E x, y \in Operands(t) :
       Returns([op |-> "compare", t |-> t, x |-> x, y |-> y],
               [lt |-> makeBool(lt(t, x, y)), lte |-> makeBool(lte(t, x, y)),
                eq |-> makeBool(eq(t, x, y)), gte |-> makeBool(gte(t, x, y)),
                gt |-> makeBool(gt(t, x, y))])

Cast ==
  /\ Ready
  /\ \E t \in Targets : \E x \in CastOperands(t) :
       \E u \in DOMAIN CastsOf(t, x) : \E r \in CastsOf(t, x)[u] :
         Returns([op |-> "cast", t |-> t, x |-> x, y |-> u], r)

-----------------------------------------------------------------------------
(* Calls on strings.  The prelude asks for the head, the tail and a        *)
(* character only where the string has one, and for a substring that       *)
(* starts in the string.                                                   *)
OneString ==
  /\ Ready
  /\ \E s \in Strings :
       \/ Returns([op |-> "reverse", x |-> s], reverse(s))
       \/ Returns([op |-> "unpack", x |-> s], fastUnpack(s))
       \/ Returns([op |-> "iterate", x |-> s], Iterated(s))
       \/ s # <<>> /\ Returns([op |-> "uncons", x |-> s], <<head(s), tail(s)>>)

Substring ==
  /\ Ready
  /\ \E s \in Strings, beyond \in Chars : \E start \in 0 .. stringLength(s) - 1 :
       \E len \in 0 .. stringLength(s) + 1 :
         Returns([op |-> "substr", x |-> s, start |-> start, len |-> len],
                 strSubstr(start, len, s, beyond))

BuildString ==
  /\ Ready
  /\ \E s, t \in Strings : \E c \in Chars :
       \/ Returns([op |-> "cons", x |-> c, y |-> s], strCons(c, s))
       \/ Returns([op |-> "append", x |-> s, y |-> t],
                  <<strAppend(s, t), fastConcat(<<s, t>>)>>)
       \/ Returns([op |-> "pack", x |-> s, y |-> c, z |-> t],
                  fastPack(s \o <<c>> \o t))
       \/ Returns([op |-> "show", x |-> c],
                  <<cast_char_to_string(c), cast_string_to_char(cast_char_to_string(c))>>)

-----------------------------------------------------------------------------
(* Calls on the buffer.  A call outside its range aborts the program, so   *)
(* only the others leave a state behind.                                   *)

(* v was written as `kind' to the len bytes from loc. *)
Item(loc, len, kind, v) == [loc |-> loc, len |-> len, kind |-> kind, v |-> v]

Untouched(loc, len) ==
  {w \in intact : w.loc + w.len <= loc \/ loc + len <= w.loc}

Set(b, item) ==
  /\ b # Abort
  /\ writes' = writes + 1
  /\ buffer' = b
  /\ intact' = Untouched(item.loc, item.len) \union {item}
  /\ UNCHANGED <<call, result>>

SetInt ==
  /\ call = Idle /\ writes < MaxWrites
  /\ \E loc \in 0 .. BufferSize, n \in BufferInts :
       Set(setBufferInt(buffer, loc, n), Item(loc, IntBytes, "int", n))

SetByte ==
  /\ call = Idle /\ writes < MaxWrites
  /\ \E loc \in 0 .. BufferSize, n \in BufferBytes :
       Set(setBufferByte(buffer, loc, n), Item(loc, 1, "byte", n))

SetString ==
  /\ call = Idle /\ writes < MaxWrites
  /\ \E loc \in 0 .. BufferSize, s \in BufferStrings :
       Set(setBufferString(buffer, loc, s), Item(loc, Len(s), "string", s))

(* A copy to another place takes the items in the bytes it copies along. *)
Copy ==
  /\ call = Idle /\ writes < MaxWrites
  /\ \E from, to \in 0 .. BufferSize, len \in {1, IntBytes} :
       /\ from + len <= to \/ to + len <= from  \* memcpy
       /\ copyBuffer(buffer, from, len, buffer, to) # Abort
       /\ writes' = writes + 1
       /\ buffer' = copyBuffer(buffer, from, len, buffer, to)
       /\ intact' = Untouched(to, len)
            \union {[w EXCEPT !.loc = @ - from + to] :
                      w \in {v \in intact : v.loc >= from /\ v.loc + v.len <= from + len}}
       /\ UNCHANGED <<call, result>>

Return ==
  /\ call # Idle
  /\ call' = Idle /\ result' = <<>>
  /\ UNCHANGED <<buffer, intact, writes>>

Next ==
  \/ Arithmetic \/ Division \/ Shift \/ Logic \/ Comparison \/ Cast
  \/ OneString \/ Substring \/ BuildString
  \/ SetInt \/ SetByte \/ SetString \/ Copy
  \/ Return

Spec == Init /\ [][Next]_vars

-----------------------------------------------------------------------------
Called(ops) == call.op \in ops

ArithmeticOps == {"add", "sub", "mul", "negate", "div", "mod", "shiftl",
                  "shiftr", "and", "or", "xor"}

(* What the operation means: the same operation of Integer. *)
ByInteger(op, x, y) ==
  LET I == "Integer"
  IN  CASE op = "add"    -> add(I, x, y)
        [] op = "sub"    -> sub(I, x, y)
        [] op = "mul"    -> mul(I, x, y)
        [] op = "negate" -> negate(I, x)
        [] op = "div"    -> div(I, x, y)
        [] op = "mod"    -> mod(I, x, y)
        [] op = "shiftl" -> shiftl(I, x, y)
        [] op = "shiftr" -> shiftr(I, x, y)
        [] op = "and"    -> and(I, x, y)
        [] op = "or"     -> or(I, x, y)
        [] op = "xor"    -> xor(I, x, y)

(* The dividends whose modulus the signed types get wrong. *)
NegativeMultiple(t, x, y) == t \in SignedTypes /\ x < 0 /\ x % Abs(y) = 0

(* Every operation of a fixed-width type is the operation of Integer       *)
(* converted to the type, whatever the promotions, the corrections of the  *)
(* division and the signs do on the way; except that a negative multiple   *)
(* of the divisor has the divisor, not 0, for its modulus.                 *)
FixedAgreesWithInteger ==
  Called(ArithmeticOps) /\ call.t \in FixedTypes =>
    IF call.op = "mod" /\ NegativeMultiple(call.t, call.x, call.y)
    THEN result = Wrap(call.t, Abs(call.y))
    ELSE result = Wrap(call.t, ByInteger(call.op, call.x, call.y))

(* Exactly one of less, equal, greater and, for doubles only, unordered     *)
(* holds, and the other two comparisons follow from it: with a NaN all five *)
(* are false, so that less or equal is not the negation of greater.  On     *)
(* numbers less is the order of their values.                               *)
ComparisonsAgree ==
  Called({"compare"}) =>
    LET t == call.t  x == call.x  y == call.y
        unordered == t = "double" /\ NaN \in {x, y}
    IN  /\ result.lt + result.eq + result.gt = IF unordered THEN 0 ELSE 1
        /\ result.lte = result.lt + result.eq
        /\ result.gte = result.gt + result.eq
        /\ result.eq = 1 <=> x = y /\ ~unordered
        /\ t \notin {"string", "double"} => (result.lt = 1 <=> x < y)
        /\ t = "double" => \A h, k \in FiniteHalves :
             x = Finite(h) /\ y = Finite(k) => (result.lt = 1 <=> h < k)

(* The operations of Integer themselves: the quotient and the modulus of   *)
(* a number make it up again and the modulus is below the divisor; and, or *)
(* and xor satisfy the equations that tie them to the sum.  Comparisons,   *)
(* of Integers and of every other type, agree with each other, doubles     *)
(* that are infinite or not a number included.                             *)
IntegerLaws ==
  LET t == "Integer" x == call.x y == call.y
  IN  /\ Called(ArithmeticOps) /\ call.t = t =>
           CASE call.op = "div" -> result * y + mod(t, x, y) = x
             [] call.op = "mod" -> result \in 0 .. Abs(y) - 1
             [] call.op = "shiftr" -> result = div(t, x, 2^y)
             [] call.op = "or"  -> result + and(t, x, y) = x + y
             [] call.op = "and" -> result + xor(t, x, y) = or(t, x, y)
             [] OTHER -> TRUE
      /\ ComparisonsAgree

(* The cast from one type of numbers to another is the cast to Integer     *)
(* followed by the cast from Integer.  Two cases differ: a fixed-width     *)
(* number too long for a double is rounded, an Integer truncated; and a    *)
(* double outside the range of a fixed-width type gives whatever the       *)
(* machine does.                                                           *)
CastsFactorThroughInteger ==
  LET t == call.t  x == call.x  u == call.y
      integer == CHOOSE n \in CastsOf(t, x)["Integer"] : TRUE
  IN  Called({"cast"}) /\ {t, u} \subseteq Targets \ {"string", "Integer"} =>
        \/ t # "double" /\ u = "double" /\ Nearest(2 * x) # 2 * x
        \/ t = "double" /\ u \in FixedTypes \union {"char"}
             /\ integer \notin ValuesOf(u)
        \/ result \in CastsOf("Integer", integer)[u]

(* Casting a number to String and back gives the number, except where      *)
(* atoi cuts what it reads to an int: of an Int64 or Bits64 that is wider, *)
(* the low bits come back, with their sign.                                *)
TextRoundTrip ==
  Called({"cast"}) /\ call.y = "string" /\ call.t \in ArithmeticTypes =>
    LET back == CHOOSE n \in CastsOf("string", result)[call.t] : TRUE
    IN  IF Width[call.t] <= W32 \/ call.t = "Integer" THEN back = call.x
        ELSE call.x \in ValuesOf("Int64") =>
               back = Wrap(call.t, Wrap("Int32", call.x))

(* The operations on strings are those of the lists of their characters.   *)
(* A NUL among the characters ends the string.                             *)
StringsAreLists ==
  LET upToNul(l) ==
        CHOOSE p \in {SubSeq(l, 1, k) : k \in 0 .. Len(l)} :
          /\ \A i \in DOMAIN p : p[i] # NUL
          /\ Len(p) < Len(l) => l[Len(p) + 1] = NUL
  IN  /\ Called({"iterate"}) => result = fastUnpack(call.x) \o <<EOF>>
      /\ Called({"unpack"})  => fastPack(result) = call.x
      /\ Called({"uncons"})  => strCons(result[1], result[2]) = call.x
      /\ Called({"reverse"}) =>
           /\ Len(result) = Len(call.x)
           /\ \A i \in DOMAIN result : result[i] = strIndex(call.x, Len(result) - i)
      /\ Called({"append"}) =>
           result[1] = result[2] /\ fastUnpack(result[1]) = fastUnpack(call.x) \o call.y
      /\ Called({"pack"}) => result = upToNul(call.x \o <<call.y>> \o call.z)
      /\ Called({"cons"}) => result = upToNul(<<call.x>> \o call.y)
      /\ Called({"show"}) => result[2] = call.x
      /\ Called({"substr"}) =>
           result = SubSeq(call.x, call.start + 1,
                           Min({call.start + call.len, Len(call.x)}))

(* What was written to a buffer is read from it again, at its place and at *)
(* the places it was copied to, until a write touches its bytes.           *)
BufferReadsBack ==
  \A w \in intact :
    CASE w.kind = "int"    -> getBufferInt(buffer, w.loc) = w.v
      [] w.kind = "byte"   -> getBufferByte(buffer, w.loc) = Unsigned(W8, w.v)
      [] w.kind = "string" -> getBufferString(buffer, w.loc, w.len) = w.v
=============================================================================
