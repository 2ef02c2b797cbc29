------------------------- MODULE RefCValuesProofs --------------------------
(***************************************************************************)
(* Proofs about RefCValues for every width of the integer types, every     *)
(* precision of a double and any operands: the arithmetic of fixed width   *)
(* is the arithmetic of Integer modulo a power of two, that of Integer     *)
(* obeys the laws a program relies on, a cast to a number type is a cast   *)
(* to Integer first, what is printed reads back, a buffer gives back what  *)
(* was written to it, and strings are the lists of their characters.       *)
(***************************************************************************)
EXTENDS RefCValues, FiniteSetTheorems, FunctionTheorems, SequenceTheorems,
        WellFoundedInduction, TLAPS

-----------------------------------------------------------------------------
(* Division by a positive number. *)

LEMMA DivMod ==
  \A a \in Int, b \in Nat \ {0} :
    a \div b \in Int /\ a % b \in 0 .. b - 1 /\ a = (b * (a \div b)) + (a % b)
OBVIOUS

LEMMA OnlyMultiple ==
  ASSUME NEW b \in Nat \ {0}, NEW k \in Int, NEW d \in Int, d = b * k, d < b, -b < d
  PROVE  k = 0
<1>1. k >= 1 => b * k >= b
  OBVIOUS
<1>2. k <= -1 => b * k <= -b
  OBVIOUS
<1>3. QED
  BY <1>1, <1>2

LEMMA DivModUnique ==
  ASSUME NEW a \in Int, NEW b \in Nat \ {0}, NEW q \in Int, NEW r \in 0 .. b - 1,
         a = (b * q) + r
  PROVE  a \div b = q /\ a % b = r
<1>1. PICK p \in Int, s \in 0 .. b - 1 : p = a \div b /\ s = a % b /\ a = (b * p) + s
  BY DivMod
<1>2. b * (p - q) = (b * p) - (b * q)
  OBVIOUS
<1>3. PICK d \in Int : d = r - s /\ d < b /\ -b < d
  OBVIOUS
<1>4. PICK k \in Int : k = p - q
  OBVIOUS
<1>5. PICK x \in Int, y \in Int : x = b * p /\ y = b * q
  OBVIOUS
<1>6. d = b * k
  BY <1>1, <1>2, <1>3, <1>4, <1>5
<1>7. k = 0
  BY <1>3, <1>6, OnlyMultiple
<1>8. p = q
  BY <1>4, <1>7
<1>9. r = s
  BY <1>1, <1>5, <1>8
<1>10. QED
  BY <1>1, <1>8, <1>9

(* a and b differ by a multiple of m. *)
Congruent(a, b, m) == \E k \in Int : a = b + (m * k)

LEMMA SameRemainder ==
  ASSUME NEW a \in Int, NEW b \in Int, NEW m \in Nat \ {0}, Congruent(a, b, m)
  PROVE  a % m = b % m
<1>1. PICK k \in Int : a = b + (m * k)
  BY DEF Congruent
<1>2. PICK q \in Int, r \in 0 .. m - 1 : r = b % m /\ b = (m * q) + r
  BY DivMod
<1>3. m * (q + k) = (m * q) + (m * k)
  OBVIOUS
<1>4. q + k \in Int /\ a = (m * (q + k)) + r
  BY <1>1, <1>2, <1>3
<1>5. QED
  BY <1>2, <1>4, DivModUnique

LEMMA RemainderCongruent ==
  ASSUME NEW a \in Int, NEW m \in Nat \ {0}
  PROVE  a % m \in Int /\ Congruent(a % m, a, m) /\ Congruent(a, a % m, m)
<1>1. PICK q \in Int, r \in 0 .. m - 1 : r = a % m /\ a = (m * q) + r
  BY DivMod
<1>2. PICK p \in Int : p = -q /\ r = a + (m * p)
  <2>1. m * (-q) = -(m * q)
    OBVIOUS
  <2>2. QED
    BY <1>1, <2>1
<1>3. a = r + (m * q)
  BY <1>1
<1>4. Congruent(r, a, m) /\ Congruent(a, r, m)
  BY <1>2, <1>3 DEF Congruent
<1>5. QED
  BY <1>1, <1>4

LEMMA CongruentSum ==
  ASSUME NEW m \in Int, NEW a \in Int, NEW b \in Int, NEW c \in Int, NEW d \in Int,
         Congruent(a, b, m), Congruent(c, d, m)
  PROVE  /\ Congruent(b, a, m) /\ Congruent(a + c, b + d, m)
         /\ Congruent(b, c, m) => Congruent(a, c, m)
<1>1. PICK k \in Int, l \in Int : a = b + (m * k) /\ c = d + (m * l)
  BY DEF Congruent
<1>2. m * (-k) = -(m * k) /\ m * (k + l) = (m * k) + (m * l)
  OBVIOUS
<1>3. PICK x \in Int, y \in Int, kl \in Int, minus \in Int :
        x = m * k /\ y = m * l /\ kl = k + l /\ minus = -k /\ m * kl = x + y /\ m * minus = -x
  BY <1>2
<1>4. b = a + (m * minus) /\ a + c = (b + d) + (m * kl)
  BY <1>1, <1>3
<1>5. ASSUME Congruent(b, c, m) PROVE Congruent(a, c, m)
  <2>1. PICK j \in Int : b = c + (m * j)
    BY <1>5 DEF Congruent
  <2>2. m * (j + k) = (m * j) + (m * k)
    OBVIOUS
  <2>3. j + k \in Int /\ a = c + (m * (j + k))
    BY <1>1, <2>1, <2>2
  <2>4. QED
    BY <2>3 DEF Congruent
<1>6. QED
  BY <1>4, <1>5 DEF Congruent

-----------------------------------------------------------------------------
(* Powers of two: the number of subsets. *)

LEMMA TwoPowers == 2^0 = 1 /\ \A n \in Int : 2^n \in Int
OBVIOUS

LEMMA DisjointUnion ==
  ASSUME NEW A, NEW B, IsFiniteSet(A), IsFiniteSet(B), A \cap B = {},
         NEW n \in Int, Cardinality(A) = n, Cardinality(B) = n
  PROVE  Cardinality(A \cup B) = n + n
<1>1. Cardinality(A \cup B) = Cardinality(A) + Cardinality(B) - Cardinality(A \cap B)
  BY FS_Union
<1>2. Cardinality(A \cap B) = 0
  BY FS_EmptySet
<1>3. QED
  BY <1>1, <1>2

LEMMA TwoDoubles ==
  ASSUME NEW n \in Nat
  PROVE  2^(n + 1) = 2^n + 2^n
<1> DEFINE S == 1 .. n
           x == n + 1
           T == {A \cup {x} : A \in SUBSET S}
           f == [A \in SUBSET S |-> A \cup {x}]
<1>1. /\ IsFiniteSet(S) /\ Cardinality(S) = n
      /\ IsFiniteSet(1 .. n + 1) /\ Cardinality(1 .. n + 1) = n + 1
  BY FS_Interval
<1>2. /\ IsFiniteSet(SUBSET S) /\ Cardinality(SUBSET S) = 2^n
      /\ IsFiniteSet(SUBSET (1 .. n + 1)) /\ Cardinality(SUBSET (1 .. n + 1)) = 2^(n + 1)
  BY <1>1, FS_SUBSET
<1>3. x \notin S /\ 1 .. n + 1 = S \cup {x}
  OBVIOUS
<1> HIDE DEF S, x
<1>4. f \in Bijection(SUBSET S, T)
  <2>1. \A A, B \in SUBSET S : A \cup {x} = B \cup {x} => A = B
    BY <1>3
  <2>2. f \in [SUBSET S -> T] /\ \A y \in T : \E A \in SUBSET S : f[A] = y
    OBVIOUS
  <2>3. \A A, B \in SUBSET S : f[A] = f[B] => A = B
    BY <2>1
  <2> HIDE DEF f, T
  <2>4. QED
    BY <2>2, <2>3 DEF Bijection, Injection, IsInjective, Surjection
<1> HIDE DEF f
<1>5. IsFiniteSet(T) /\ Cardinality(T) = 2^n
  BY <1>2, <1>4, FS_Bijection DEF ExistsBijection
<1>6. SUBSET (1 .. n + 1) = (SUBSET S) \cup T
  <2>1. ASSUME NEW B \in SUBSET (S \cup {x}), x \in B PROVE B \in T
    <3>1. B \ {x} \in SUBSET S /\ B = (B \ {x}) \cup {x}
      BY <2>1
    <3>2. QED
      BY <3>1
  <2>2. QED
    BY <1>3, <2>1
<1>7. (SUBSET S) \cap T = {}
  BY <1>3
<1> HIDE DEF T
<1>8. PICK p \in Int : p = 2^n
  BY TwoPowers
<1>9. PICK A : A = SUBSET S
  OBVIOUS
<1>10. Cardinality(A \cup T) = p + p
  BY <1>2, <1>5, <1>7, <1>8, <1>9, DisjointUnion
<1>11. QED
  BY <1>2, <1>6, <1>8, <1>9, <1>10

(* A set of numbers that is not empty has a least element. *)
LEMMA LeastNumber ==
  ASSUME NEW S \in SUBSET Nat, S # {}
  PROVE  \E x \in S : \A y \in S : x <= y
<1> DEFINE R == {ss \in Nat \X Nat : ss[1] < ss[2]}
<1>1. IsWellFoundedOn(R, Nat)
  BY NatLessThanWellFounded DEF OpToRel
<1>2. PICK x \in S : \A y \in S : <<y, x>> \notin R
  <2> HIDE DEF R
  <2> QED  BY <1>1, WFMin
<1>3. \A y \in S : x <= y
  <2> SUFFICES ASSUME NEW y \in S PROVE x <= y
    OBVIOUS
  <2>1. x \in Nat /\ y \in Nat /\ <<y, x>> \notin R
    BY <1>2
  <2>2. ~(y < x)
    BY <2>1
  <2>3. QED
    BY <2>1, <2>2
<1>4. QED
  BY <1>3


LEMMA Induction ==
  ASSUME NEW S, NEW m \in Nat, 0 \in S, \A n \in 0 .. m - 1 : n \in S => n + 1 \in S
  PROVE  \A n \in 0 .. m : n \in S
<1> DEFINE B == {n \in 0 .. m : n \notin S}
<1>1. SUFFICES ASSUME B # {} PROVE FALSE
  OBVIOUS
<1>2. B \in SUBSET Nat
  OBVIOUS
<1>3. PICK x \in B : \A y \in B : x <= y
  BY <1>1, <1>2, LeastNumber
<1>4. x \in 1 .. m
  BY <1>3
<1>5. x - 1 \in 0 .. m - 1 /\ x - 1 \notin B /\ (x - 1) + 1 = x
  BY <1>3, <1>4
<1>6. x - 1 \in S
  BY <1>5
<1>7. x \in S
  BY <1>5, <1>6
<1>8. QED
  BY <1>3, <1>7

(* f is what step does to a, m times; step is told which time it is. *)
Rounds(f, Dom, a, step, m) ==
  f \in [0 .. m -> Dom] /\ f[0] = a /\ \A n \in 1 .. m : f[n] = step[<<n, f[n - 1]>>]

LEMMA RoundsExist ==
  ASSUME NEW m \in Nat, NEW Dom, NEW a \in Dom, NEW step,
         \A n \in 1 .. m : \A x \in Dom : step[<<n, x>>] \in Dom
  PROVE  \E f : Rounds(f, Dom, a, step, m)
<1> DEFINE Ok(n) == \E f \in [0 .. n -> Dom] :
                      f[0] = a /\ \A i \in 1 .. n : f[i] = step[<<i, f[i - 1]>>]
           S == {n \in 0 .. m : Ok(n)}
<1>1. 0 \in S
  <2>1. PICK f : f = [i \in 0 .. 0 |-> a]
    OBVIOUS
  <2>2. f \in [0 .. 0 -> Dom] /\ f[0] = a /\ 1 .. 0 = {}
    BY <2>1
  <2>3. Ok(0)
    BY <2>2
  <2>4. QED
    BY <2>3
<1>2. ASSUME NEW n \in 0 .. m - 1, n \in S PROVE n + 1 \in S
  <2>1. PICK f \in [0 .. n -> Dom] : f[0] = a /\ \A i \in 1 .. n : f[i] = step[<<i, f[i - 1]>>]
    BY <1>2
  <2>2. PICK x \in Dom : x = step[<<n + 1, f[n]>>]
    <3>1. n + 1 \in 1 .. m /\ f[n] \in Dom
      BY <2>1
    <3>2. QED
      BY <3>1
  <2>3. PICK g : g = [i \in 0 .. n + 1 |-> IF i \in 0 .. n THEN f[i] ELSE x]
    OBVIOUS
  <2>4. (\A i \in 0 .. n : g[i] = f[i]) /\ g[n + 1] = x
    BY <2>3
  <2>5. g \in [0 .. n + 1 -> Dom]
    BY <2>1, <2>3
  <2>6. ASSUME NEW i \in 1 .. n + 1 PROVE g[i] = step[<<i, g[i - 1]>>]
    <3>1. CASE i = n + 1
      <4>1. i - 1 = n /\ g[n] = f[n] /\ g[i] = x
        BY <2>4, <3>1
      <4>2. QED
        BY <2>2, <3>1, <4>1
    <3>2. CASE i \in 1 .. n
      <4>1. g[i] = f[i] /\ g[i - 1] = f[i - 1]
        BY <2>4, <3>2
      <4>2. QED
        BY <2>1, <3>2, <4>1
    <3>3. QED
      BY <3>1, <3>2
  <2>7. g[0] = a
    BY <2>1, <2>4
  <2>8. Ok(n + 1)
    BY <2>5, <2>6, <2>7
  <2>9. QED
    BY <2>8
<1>3. \A n \in 0 .. m : n \in S
  <2> HIDE DEF S
  <2> QED BY <1>1, <1>2, Induction
<1>4. PICK f \in [0 .. m -> Dom] : f[0] = a /\ \A i \in 1 .. m : f[i] = step[<<i, f[i - 1]>>]
  BY <1>3
<1>5. QED
  BY <1>4 DEF Rounds

LEMMA PowerPositive == \A n \in Nat : 2^n \in Nat \ {0}
<1> SUFFICES ASSUME NEW n \in Nat PROVE 2^n \in Nat \ {0}
  OBVIOUS
<1> DEFINE S == {i \in 0 .. n : 2^i \in Nat \ {0}}
<1>1. 0 \in S
  BY TwoPowers
<1>2. ASSUME NEW i \in 0 .. n - 1, i \in S PROVE i + 1 \in S
  <2>1. PICK p \in Nat \ {0} : p = 2^i
    BY <1>2
  <2>2. 2^(i + 1) = p + p
    BY <2>1, TwoDoubles
  <2>3. QED
    BY <2>2
<1>3. \A i \in 0 .. n : i \in S
  <2> HIDE DEF S
  <2> QED  BY <1>1, <1>2, Induction
<1>4. QED
  BY <1>3

LEMMA PowerSum ==
  ASSUME NEW a \in Nat, NEW b \in Nat
  PROVE  2^(a + b) = 2^a * 2^b
<1>0. PICK p \in Nat \ {0} : p = 2^a
  BY PowerPositive
<1> DEFINE S == {i \in 0 .. b : 2^(a + i) = p * 2^i}
<1>1. 0 \in S
  <2>1. 2^(a + 0) = p /\ p * 1 = p /\ 2^0 = 1
    BY <1>0, TwoPowers
  <2>2. QED
    BY <2>1
<1>2. ASSUME NEW i \in 0 .. b - 1, i \in S PROVE i + 1 \in S
  <2>1. PICK q \in Nat \ {0} : q = 2^i
    BY PowerPositive
  <2>2. PICK j \in Nat : j = a + i /\ j + 1 = a + (i + 1)
    OBVIOUS
  <2>3. 2^(i + 1) = q + q /\ 2^(j + 1) = 2^j + 2^j
    BY <2>1, TwoDoubles
  <2>4. 2^j = p * q
    BY <1>2, <2>1, <2>2
  <2>5. p * (q + q) = (p * q) + (p * q)
    OBVIOUS
  <2>6. 2^(a + (i + 1)) = p * 2^(i + 1)
    BY <2>2, <2>3, <2>4, <2>5
  <2>7. QED
    BY <2>6
<1>3. \A i \in 0 .. b : i \in S
  <2> HIDE DEF S
  <2> QED  BY <1>1, <1>2, Induction
<1>4. QED
  BY <1>0, <1>3

(* A longer word holds a multiple of what a shorter one does. *)
LEMMA PowerDivides ==
  ASSUME NEW a \in Nat, NEW b \in Nat, a <= b
  PROVE  \E k \in Nat \ {0} : 2^b = 2^a * k
<1>1. PICK d \in Nat : d = b - a /\ a + d = b
  OBVIOUS
<1>2. PICK k \in Nat \ {0} : k = 2^d
  BY PowerPositive
<1>3. 2^(a + d) = 2^a * 2^d
  BY PowerSum
<1>4. QED
  BY <1>1, <1>2, <1>3

LEMMA CongruentLess ==
  ASSUME NEW a \in Nat, NEW b \in Nat, a <= b, NEW x \in Int, NEW y \in Int,
         Congruent(x, y, 2^b)
  PROVE  Congruent(x, y, 2^a)
<1>0. PICK p \in Nat \ {0} : p = 2^a
  BY PowerPositive
<1>1. PICK k \in Nat \ {0} : 2^b = p * k
  BY <1>0, PowerDivides
<1>2. PICK l \in Int : x = y + ((p * k) * l)
  BY <1>1 DEF Congruent
<1>3. (p * k) * l = p * (k * l) /\ k * l \in Int
  OBVIOUS
<1>4. PICK j \in Int : j = k * l
  BY <1>3
<1>5. x = y + (p * j)
  BY <1>2, <1>3, <1>4
<1>6. QED
  BY <1>0, <1>5 DEF Congruent

-----------------------------------------------------------------------------
(* The conversion to a type. *)

Machine == FixedTypes \union {"char"}

LEMMA WidthFacts ==
  /\ WInteger \in Nat \ {0}
  /\ \A t \in Machine : Width[t] \in Nat \ {0} /\ Width[t] - 1 \in Nat /\ Width[t] <= WInteger
  /\ Width["Integer"] = WInteger
BY WidthsAssumption DEF Machine, FixedTypes, SignedTypes, UnsignedTypes, Width, ArithmeticTypes

LEMMA Halves ==
  ASSUME NEW w \in Nat \ {0}
  PROVE  \E h \in Nat \ {0} : 2^(w - 1) = h /\ 2^w = h + h
<1>1. PICK v \in Nat : v = w - 1 /\ v + 1 = w
  OBVIOUS
<1>2. PICK h \in Nat \ {0} : 2^v = h
  BY PowerPositive
<1>3. QED
  BY <1>1, <1>2, TwoDoubles

LEMMA UnsignedFacts ==
  ASSUME NEW w \in Nat \ {0}, NEW n \in Int
  PROVE  /\ Unsigned(w, n) \in 0 .. 2^w - 1 /\ Congruent(Unsigned(w, n), n, 2^w)
         /\ n \in 0 .. 2^w - 1 => Unsigned(w, n) = n
         /\ \A m \in Int : Congruent(n, m, 2^w) => Unsigned(w, n) = Unsigned(w, m)
<1>1. PICK p \in Nat \ {0} : p = 2^w
  BY PowerPositive
<1>2. n % p \in 0 .. p - 1 /\ Congruent(n % p, n, p)
  BY DivMod, RemainderCongruent
<1>3. n \in 0 .. p - 1 => n % p = n
  OBVIOUS
<1>4. \A m \in Int : Congruent(n, m, p) => n % p = m % p
  BY SameRemainder
<1>5. QED
  BY <1>1, <1>2, <1>3, <1>4 DEF Unsigned

LEMMA SignedFacts ==
  ASSUME NEW w \in Nat \ {0}, NEW n \in Int
  PROVE  /\ Signed(w, n) \in -(2^(w - 1)) .. 2^(w - 1) - 1 /\ Congruent(Signed(w, n), n, 2^w)
         /\ n \in -(2^(w - 1)) .. 2^(w - 1) - 1 => Signed(w, n) = n
         /\ \A m \in Int : Congruent(n, m, 2^w) => Signed(w, n) = Signed(w, m)
<1>1. PICK h \in Nat \ {0} : 2^(w - 1) = h /\ 2^w = h + h
  BY Halves
<1>2. PICK p \in Nat \ {0} : p = h + h
  OBVIOUS
<1>3. \A m \in Int : Signed(w, m) = ((m + h) % p) - h
  BY <1>1, <1>2 DEF Signed
<1>4. PICK x \in Int : x = n + h
  OBVIOUS
<1>5. x % p \in 0 .. p - 1 /\ Congruent(x % p, x, p)
  BY DivMod, RemainderCongruent
<1>6. Signed(w, n) = (x % p) - h
  BY <1>3, <1>4
<1>7. Signed(w, n) \in -h .. h - 1
  BY <1>2, <1>5, <1>6
<1>8. Congruent(Signed(w, n), n, p)
  <2>1. PICK k \in Int : x % p = x + (p * k)
    BY <1>5 DEF Congruent
  <2>2. PICK y \in Int : y = p * k
    OBVIOUS
  <2>3. Signed(w, n) = n + y
    BY <1>4, <1>6, <2>1, <2>2
  <2>4. QED
    BY <2>2, <2>3 DEF Congruent
<1>9. n \in -h .. h - 1 => Signed(w, n) = n
  <2>1. ASSUME n \in -h .. h - 1 PROVE x % p = x
    <3>1. x \in 0 .. p - 1
      BY <1>2, <1>4, <2>1
    <3>2. QED
      BY <3>1
  <2>2. QED
    BY <1>4, <1>6, <2>1
<1>10. ASSUME NEW m \in Int, Congruent(n, m, p) PROVE Signed(w, n) = Signed(w, m)
  <2>1. PICK k \in Int : n = m + (p * k)
    BY <1>10 DEF Congruent
  <2>2. PICK y \in Int : y = p * k
    OBVIOUS
  <2>3. PICK z \in Int : z = m + h
    OBVIOUS
  <2>4. x = z + (p * k)
    BY <1>4, <2>1, <2>2, <2>3
  <2>5. Congruent(x, z, p)
    BY <2>4 DEF Congruent
  <2>6. x % p = z % p
    BY <2>5, SameRemainder
  <2>7. QED
    BY <1>3, <1>6, <2>3, <2>6
<1>11. QED
  BY <1>1, <1>2, <1>7, <1>8, <1>9, <1>10

(* The conversion chooses the number of the type that is congruent. *)
LEMMA WrapFacts ==
  ASSUME NEW t \in Machine, NEW n \in Int
  PROVE  /\ Wrap(t, n) \in ValuesOf(t) /\ Congruent(Wrap(t, n), n, 2^Width[t])
         /\ n \in ValuesOf(t) => Wrap(t, n) = n
         /\ \A m \in Int : Congruent(n, m, 2^Width[t]) => Wrap(t, n) = Wrap(t, m)
<1>1. PICK w \in Nat \ {0} : w = Width[t]
  BY WidthFacts
<1>2. CASE t \in SignedTypes
  <2>1. ASSUME NEW m \in Int PROVE Wrap(t, m) = Signed(w, m)
    <3>1. t # "Integer" /\ t \in SignedTypes /\ t \notin UnsignedTypes \union {"char"}
      BY <1>2 DEF SignedTypes, UnsignedTypes
    <3>2. QED
      BY <1>1, <3>1 DEF Wrap
  <2>2. ValuesOf(t) = -(2^(w - 1)) .. 2^(w - 1) - 1
    BY <1>1, <1>2 DEF ValuesOf
  <2>3. QED
    <3>1. /\ Signed(w, n) \in ValuesOf(t) /\ Congruent(Signed(w, n), n, 2^w)
          /\ n \in ValuesOf(t) => Signed(w, n) = n
          /\ \A m \in Int : Congruent(n, m, 2^w) => Signed(w, n) = Signed(w, m)
      BY <2>2, SignedFacts
    <3>2. QED
      BY <1>1, <2>1, <3>1
<1>3. CASE t \notin SignedTypes
  <2>1. \A m \in Int : Wrap(t, m) = Unsigned(w, m)
    BY <1>1, <1>3 DEF Wrap, UnsignedTypes, SignedTypes, Machine, FixedTypes
  <2>2. ValuesOf(t) = 0 .. 2^w - 1
    BY <1>1, <1>3 DEF ValuesOf
  <2>3. QED
    BY <1>1, <2>1, <2>2, UnsignedFacts
<1>4. QED
  BY <1>2, <1>3

LEMMA ValuesAreNumbers ==
  ASSUME NEW t \in Machine
  PROVE  ValuesOf(t) \in SUBSET Int
<1>1. PICK w \in Nat \ {0} : w = Width[t]
  BY WidthFacts
<1>2. PICK h \in Nat \ {0} : 2^(w - 1) = h /\ 2^w = h + h
  BY Halves
<1>3. QED
  BY <1>1, <1>2 DEF ValuesOf

-----------------------------------------------------------------------------
(* Quotients and remainders, from those of the absolute values. *)

LEMMA AbsFacts ==
  \A x \in Int : Abs(x) \in Nat /\ (Abs(x) = 0 <=> x = 0) /\ (x >= 0 => Abs(x) = x)
                 /\ (x < 0 => Abs(x) = -x)
BY DEF Abs

LEMMA CParts ==
  ASSUME NEW x \in Int, NEW y \in Int \ {0}
  PROVE  \E b \in Nat \ {0} : \E q \in Nat, r \in 0 .. b - 1 :
           /\ b = Abs(y) /\ Abs(x) = (b * q) + r
           /\ CQuotient(x, y) = IF (x < 0) = (y < 0) THEN q ELSE -q
           /\ CRemainder(x, y) = IF x < 0 THEN -r ELSE r
<1>1. PICK b \in Nat \ {0}, a \in Nat : b = Abs(y) /\ a = Abs(x)
  BY AbsFacts
<1>2. PICK q \in Int, r \in 0 .. b - 1 : q = a \div b /\ a = (b * q) + r
  BY DivMod
<1>3. q \in Nat
  <2>1. q <= -1 => b * q <= -b
    OBVIOUS
  <2>2. PICK p \in Int : p = b * q
    OBVIOUS
  <2>3. p > -b
    BY <1>2, <2>2
  <2>4. QED
    BY <2>1, <2>2, <2>3
<1>4. CQuotient(x, y) = IF (x < 0) = (y < 0) THEN q ELSE -q
  BY <1>1, <1>2 DEF CQuotient
<1>5. PICK p \in Int : p = b * q
  OBVIOUS
<1>6. y * CQuotient(x, y) = IF x < 0 THEN -p ELSE p
  <2>1. y = b \/ y = -b
    BY <1>1 DEF Abs
  <2>2. b * (-q) = -p /\ (-b) * q = -p /\ (-b) * (-q) = p
    BY <1>5
  <2>3. y > 0 <=> y = b
    BY <1>1 DEF Abs
  <2>4. CASE x < 0 /\ y < 0
    <3>1. y = -b /\ CQuotient(x, y) = q
      BY <1>4, <2>1, <2>3, <2>4
    <3>2. QED
      BY <2>2, <2>4, <3>1
  <2>5. CASE x < 0 /\ ~(y < 0)
    <3>1. y = b /\ CQuotient(x, y) = -q
      BY <1>4, <2>1, <2>3, <2>5
    <3>2. QED
      BY <2>2, <2>5, <3>1
  <2>6. CASE ~(x < 0) /\ y < 0
    <3>1. y = -b /\ CQuotient(x, y) = -q
      BY <1>4, <2>1, <2>3, <2>6
    <3>2. QED
      BY <2>2, <2>6, <3>1
  <2>7. CASE ~(x < 0) /\ ~(y < 0)
    <3>1. y = b /\ CQuotient(x, y) = q
      BY <1>4, <2>1, <2>3, <2>7
    <3>2. QED
      BY <1>5, <2>7, <3>1
  <2>8. QED
    BY <2>4, <2>5, <2>6, <2>7
<1>7. CRemainder(x, y) = IF x < 0 THEN -r ELSE r
  <2>1. a = p + r
    BY <1>2, <1>5
  <2>2. CRemainder(x, y) = x - (IF x < 0 THEN -p ELSE p)
    BY <1>6 DEF CRemainder
  <2>3. CASE x < 0
    <3>1. x = -a
      BY <1>1, <2>3 DEF Abs
    <3>2. CRemainder(x, y) = x + p
      BY <2>2, <2>3
    <3>3. QED
      BY <2>1, <2>3, <3>1, <3>2
  <2>4. CASE ~(x < 0)
    <3>1. x = a
      BY <1>1, <2>4 DEF Abs
    <3>2. CRemainder(x, y) = x - p
      BY <2>2, <2>4
    <3>3. QED
      BY <2>1, <2>4, <3>1, <3>2
  <2>5. QED
    BY <2>3, <2>4
<1>8. QED
  BY <1>1, <1>2, <1>3, <1>4, <1>7

LEMMA FloorParts ==
  ASSUME NEW x \in Int, NEW b \in Nat \ {0}, NEW q \in Nat, NEW r \in 0 .. b - 1,
         Abs(x) = (b * q) + r
  PROVE  /\ x >= 0 => x \div b = q /\ x % b = r
         /\ x < 0 /\ r = 0 => x \div b = -q /\ x % b = 0
         /\ x < 0 /\ r > 0 => x \div b = -q - 1 /\ x % b = b - r
<1>1. PICK p \in Int : p = b * q /\ b * (-q) = -p /\ b * (-q - 1) = -p - b
  <2>1. b * (-q) = -(b * q) /\ b * (-q - 1) = -(b * q) - b
    OBVIOUS
  <2>2. QED
    BY <2>1
<1>2. ASSUME x >= 0 PROVE x \div b = q /\ x % b = r
  <2>1. x = (b * q) + r
    BY <1>2 DEF Abs
  <2>2. QED
    BY <2>1, DivModUnique
<1>3. ASSUME x < 0, r = 0 PROVE x \div b = -q /\ x % b = 0
  <2>1. PICK k \in Int : k = -q
    OBVIOUS
  <2>2. x = (b * k) + 0 /\ 0 \in 0 .. b - 1
    BY <1>1, <1>3, <2>1 DEF Abs
  <2>3. x \div b = k /\ x % b = 0
    BY <2>2, DivModUnique
  <2>4. QED
    BY <2>1, <2>3
<1>4. ASSUME x < 0, r > 0 PROVE x \div b = -q - 1 /\ x % b = b - r
  <2>1. PICK k \in Int, s \in 0 .. b - 1 : k = -q - 1 /\ s = b - r
    BY <1>4
  <2>2. x = (b * k) + s
    BY <1>1, <1>4, <2>1 DEF Abs
  <2>3. x \div b = k /\ x % b = s
    BY <2>2, DivModUnique
  <2>4. QED
    BY <2>1, <2>3
<1>5. QED
  BY <1>2, <1>3, <1>4

LEMMA NotInteger ==
  "Integer" \notin SignedTypes /\ "Integer" \notin UnsignedTypes /\ "Integer" \notin Machine
BY DEF SignedTypes, UnsignedTypes, Machine, FixedTypes

Product(n, b, k) == n = b * k

LEMMA ExactQuotient ==
  ASSUME NEW y \in Int \ {0}, NEW k \in Int, NEW n \in Int, Product(n, Abs(y), k)
  PROVE  CQuotient(n, y) = IF y > 0 THEN k ELSE -k
<1>0. PICK b \in Nat \ {0} : b = Abs(y)
  BY AbsFacts
<1>1. \E c \in Nat \ {0} : \E q \in Nat, r \in 0 .. c - 1 :
           /\ c = Abs(y) /\ Abs(n) = (c * q) + r
           /\ CQuotient(n, y) = IF (n < 0) = (y < 0) THEN q ELSE -q
           /\ CRemainder(n, y) = IF n < 0 THEN -r ELSE r
  BY CParts
<1>2. PICK q \in Nat, r \in 0 .. b - 1 :
           /\ Abs(n) = (b * q) + r
           /\ CQuotient(n, y) = IF (n < 0) = (y < 0) THEN q ELSE -q
  BY <1>0, <1>1
<1>3. n \div b = k /\ n % b = 0
  <2>1. n = (b * k) + 0 /\ 0 \in 0 .. b - 1
    BY <1>0 DEF Product
  <2>2. QED
    BY <2>1, DivModUnique
<1>4. (n >= 0 => q = k) /\ (n < 0 => q = -k)
  <2>0. Abs(n) = (b * q) + r
    BY <1>2
  <2>1. /\ n >= 0 => n \div b = q /\ n % b = r
        /\ n < 0 /\ r = 0 => n \div b = -q /\ n % b = 0
        /\ n < 0 /\ r > 0 => n \div b = -q - 1 /\ n % b = b - r
    BY <2>0, FloorParts, Zenon
  <2>2. n < 0 => r = 0
    BY <1>3, <2>1
  <2>3. QED
    BY <1>3, <2>1, <2>2
<1>5. CASE n < 0
  BY <1>0, <1>2, <1>4, <1>5
<1>6. CASE n >= 0
  BY <1>0, <1>2, <1>4, <1>6
<1>7. QED
  BY <1>5, <1>6

(* The quotient of Integer is the one whose remainder is not negative. *)
LEMMA IntegerQuotient ==
  ASSUME NEW x \in Int, NEW y \in Int \ {0}
  PROVE  div("Integer", x, y) = IF y > 0 THEN x \div Abs(y) ELSE -(x \div Abs(y))
<1>1. PICK b \in Nat \ {0} : b = Abs(y)
  BY AbsFacts
<1>2. PICK k \in Int, s \in 0 .. b - 1 : k = x \div b /\ s = x % b /\ x = (b * k) + s
  BY DivMod
<1>3. PICK n \in Int : n = x - s /\ n = b * k
  BY <1>2
<1>4. div("Integer", x, y) = CQuotient(n, y)
  <2>1. div("Integer", x, y) = CQuotient(x - (x % Abs(y)), y)
    BY NotInteger DEF div
  <2>2. QED
    BY <1>1, <1>2, <1>3, <2>1
<1>5. CQuotient(n, y) = IF y > 0 THEN k ELSE -k
  <2>1. Product(n, Abs(y), k)
    BY <1>1, <1>3 DEF Product
  <2>2. QED
    BY <1>1, <2>1, ExactQuotient
<1>6. QED
  BY <1>1, <1>2, <1>4, <1>5

(* What the signed types make of the quotient of C is that quotient. *)
LEMMA Corrected ==
  ASSUME NEW x \in Int, NEW y \in Int \ {0}
  PROVE  CQuotient(x, y) + (IF CRemainder(x, y) >= 0 THEN 0 ELSE IF y < 0 THEN 1 ELSE -1)
           = div("Integer", x, y)
<1>1. PICK b \in Nat \ {0} : \E q \in Nat, r \in 0 .. b - 1 :
           /\ b = Abs(y) /\ Abs(x) = (b * q) + r
           /\ CQuotient(x, y) = IF (x < 0) = (y < 0) THEN q ELSE -q
           /\ CRemainder(x, y) = IF x < 0 THEN -r ELSE r
  BY CParts
<1>2. PICK q \in Nat, r \in 0 .. b - 1 :
           /\ b = Abs(y) /\ Abs(x) = (b * q) + r
           /\ CQuotient(x, y) = IF (x < 0) = (y < 0) THEN q ELSE -q
           /\ CRemainder(x, y) = IF x < 0 THEN -r ELSE r
  BY <1>1
<1>3. PICK k \in Int : k = x \div b
  BY DivMod
<1>4. div("Integer", x, y) = IF y > 0 THEN k ELSE -k
  BY <1>2, <1>3, IntegerQuotient
<1>5. k = IF x >= 0 THEN q ELSE IF r = 0 THEN -q ELSE -q - 1
  <2>0. Abs(x) = (b * q) + r
    BY <1>2
  <2>1. /\ x >= 0 => x \div b = q /\ x % b = r
        /\ x < 0 /\ r = 0 => x \div b = -q /\ x % b = 0
        /\ x < 0 /\ r > 0 => x \div b = -q - 1 /\ x % b = b - r
    BY <2>0, FloorParts, Zenon
  <2>2. QED
    BY <1>3, <2>1
<1>6. CASE x >= 0
  BY <1>2, <1>4, <1>5, <1>6
<1>7. CASE x < 0 /\ r = 0
  BY <1>2, <1>4, <1>5, <1>7
<1>8. CASE x < 0 /\ r > 0
  BY <1>2, <1>4, <1>5, <1>8
<1>9. QED
  BY <1>6, <1>7, <1>8

-----------------------------------------------------------------------------
(* The operations of a fixed-width type. *)

LEMMA QuotientInRange ==
  ASSUME NEW x \in Int, NEW b \in Nat \ {0}
  PROVE  /\ x >= 0 => x \div b \in 0 .. x
         /\ x < 0 => x \div b \in x .. 0
<1>1. PICK q \in Int, r \in 0 .. b - 1 : q = x \div b /\ x = (b * q) + r
  BY DivMod
<1>2. PICK p \in Int : p = b * q
  OBVIOUS
<1>3. q >= 1 => p >= q
  BY <1>2
<1>4. q <= -1 => p <= -b /\ p <= q
  BY <1>2
<1>5. q = 0 => p = 0
  BY <1>2
<1>6. x >= 0 => q \in 0 .. x
  BY <1>1, <1>2, <1>3, <1>4, <1>5
<1>7. x < 0 => q \in x .. 0
  <2>1. SUFFICES ASSUME x < 0 PROVE q \in x .. 0
    OBVIOUS
  <2>2. q <= 0
    BY <1>1, <1>2, <1>3, <2>1
  <2>3. x <= q
    <3>1. q = 0 \/ q <= -1
      BY <2>2
    <3>2. PICK k \in Nat : k = -q
      BY <2>2
    <3>3. p = -(b * k)
      BY <1>2, <3>2
    <3>4. CASE k = 0
      BY <2>1, <3>2, <3>4
    <3>5. CASE k > 0
      <4>1. b * k = ((b - 1) * (k - 1)) + b + k - 1
        OBVIOUS
      <4>2. (b - 1) * (k - 1) \in Nat
        BY <3>5
      <4>3. b * k >= b + k - 1
        BY <4>1, <4>2
      <4>4. QED
        BY <1>1, <1>2, <3>2, <3>3, <4>3
    <3>6. QED
      BY <3>4, <3>5
  <2>4. QED
    BY <2>2, <2>3
<1>8. QED
  BY <1>1, <1>6, <1>7

LEMMA QuotientOfValue ==
  ASSUME NEW t \in Machine, NEW x \in ValuesOf(t), NEW b \in Nat \ {0}
  PROVE  x \in Int /\ x \div b \in ValuesOf(t)
<1>1. PICK w \in Nat \ {0} : w = Width[t]
  BY WidthFacts
<1>2. PICK h \in Nat \ {0}, p \in Nat \ {0} : h = 2^(w - 1) /\ p = 2^w /\ p = h + h
  <2>1. PICK h \in Nat \ {0} : 2^(w - 1) = h /\ 2^w = h + h
    BY Halves
  <2>2. QED
    BY <2>1
<1>3. ValuesOf(t) = IF t \in SignedTypes THEN -h .. h - 1 ELSE 0 .. p - 1
  BY <1>1, <1>2 DEF ValuesOf
<1>4. x \in Int
  BY <1>3
<1>5. PICK q \in Int : /\ q = x \div b
                       /\ x >= 0 => q \in 0 .. x
                       /\ x < 0 => q \in x .. 0
  BY <1>4, QuotientInRange
<1>6. CASE t \in SignedTypes
  BY <1>3, <1>4, <1>5, <1>6
<1>7. CASE t \notin SignedTypes
  BY <1>3, <1>4, <1>5, <1>7
<1>8. QED
  BY <1>6, <1>7

LEMMA UnsignedValues ==
  ASSUME NEW t \in UnsignedTypes
  PROVE  t \in Machine /\ t \notin SignedTypes /\ t # "Integer" /\ ValuesOf(t) \in SUBSET Nat
<1>1. t \in Machine /\ t \notin SignedTypes /\ t # "Integer"
  BY DEF UnsignedTypes, SignedTypes, Machine, FixedTypes
<1>2. PICK w \in Nat \ {0} : w = Width[t]
  BY <1>1, WidthFacts
<1>3. ValuesOf(t) = 0 .. 2^w - 1
  BY <1>1, <1>2 DEF ValuesOf
<1>4. PICK p \in Nat : p = 2^w
  BY PowerPositive
<1>5. QED
  BY <1>1, <1>3, <1>4

LEMMA SignedValues ==
  ASSUME NEW t \in SignedTypes
  PROVE  /\ t \in Machine /\ t \notin UnsignedTypes /\ t # "Integer"
         /\ \E h \in Nat \ {0} : 2^Width[t] = h + h /\ ValuesOf(t) = -h .. h - 1
<1>1. t \in Machine /\ t \notin UnsignedTypes /\ t # "Integer"
  BY DEF UnsignedTypes, SignedTypes, Machine, FixedTypes
<1>2. PICK w \in Nat \ {0} : w = Width[t]
  BY <1>1, WidthFacts
<1>3. PICK h \in Nat \ {0} : 2^(w - 1) = h /\ 2^w = h + h
  BY Halves
<1>4. ValuesOf(t) = -h .. h - 1
  BY <1>2, <1>3 DEF ValuesOf
<1>5. QED
  BY <1>1, <1>2, <1>3, <1>4

LEMMA IntegerRemainder ==
  \A x, y : mod("Integer", x, y) = x % Abs(y)
BY NotInteger DEF mod

LEMMA DivAgrees ==
  ASSUME NEW t \in FixedTypes, NEW x \in ValuesOf(t), NEW y \in ValuesOf(t), y # 0
  PROVE  div(t, x, y) = Wrap(t, div("Integer", x, y))
<1>1. x \in Int /\ y \in Int
  BY ValuesAreNumbers DEF Machine
<1>2. CASE t \in UnsignedTypes
  <2>1. x \in Nat /\ y \in Nat \ {0}
    BY <1>2, UnsignedValues
  <2>2. div(t, x, y) = x \div y
    BY <1>2, UnsignedValues DEF div
  <2>3. div("Integer", x, y) = x \div y
    <3>1. Abs(y) = y /\ y > 0
      BY <2>1, AbsFacts
    <3>2. QED
      BY <1>1, <2>1, <3>1, IntegerQuotient
  <2>4. t \in Machine /\ x \div y \in ValuesOf(t)
    BY <1>2, <2>1, UnsignedValues, QuotientOfValue
  <2>5. PICK q \in Int : q = x \div y
    BY <1>1, <2>1, DivMod
  <2>6. Wrap(t, q) = q
    BY <2>4, <2>5, WrapFacts
  <2>7. QED
    BY <2>2, <2>3, <2>5, <2>6
<1>3. CASE t \in SignedTypes
  <2>1. div(t, x, y) =
          Wrap(t, CQuotient(x, y) + (IF CRemainder(x, y) >= 0 THEN 0 ELSE IF y < 0 THEN 1 ELSE -1))
    BY <1>3, SignedValues DEF div
  <2>2. QED
    BY <1>1, <2>1, Corrected
<1>4. QED
  BY <1>2, <1>3 DEF FixedTypes

(* The divisor made positive, where the type has its absolute value. *)
LEMMA Denominator ==
  ASSUME NEW t \in SignedTypes, NEW y \in ValuesOf(t), y # 0
  PROVE  \E d \in Int \ {0} :
           /\ d = IF y < 0 THEN Wrap(t, -y) ELSE y
           /\ Abs(d) = Abs(y) /\ Congruent(d, Abs(y), 2^Width[t])
<1>1. t \in Machine
  BY SignedValues
<1>2. PICK h \in Nat \ {0} : 2^Width[t] = h + h /\ ValuesOf(t) = -h .. h - 1
  BY SignedValues
<1>3. PICK m \in Nat \ {0} : m = h + h
  OBVIOUS
<1>4. y \in Int /\ y \in -h .. h - 1
  BY <1>2
<1>5. \A a \in Int : Congruent(a, a, m)
  <2>1. \A a \in Int : a = a + (m * 0)
    OBVIOUS
  <2>2. QED
    BY <2>1 DEF Congruent
<1>6. CASE y > 0
  <2>1. Abs(y) = y
    BY <1>4, <1>6, AbsFacts
  <2>2. QED
    BY <1>2, <1>3, <1>4, <1>5, <1>6, <2>1
<1>7. CASE y < 0 /\ y # -h
  <2>1. PICK d \in Int : d = -y
    BY <1>4
  <2>2. d \in ValuesOf(t) /\ Abs(y) = d /\ Abs(d) = d /\ d # 0
    BY <1>2, <1>4, <1>7, <2>1 DEF Abs
  <2>3. Wrap(t, d) = d
    BY <1>1, <2>2, WrapFacts
  <2>4. QED
    BY <1>2, <1>3, <1>5, <1>7, <2>1, <2>2, <2>3
<1>8. CASE y = -h
  <2>1. PICK d \in Int : d = -h
    OBVIOUS
  <2>2. Abs(y) = h /\ Abs(d) = h /\ d # 0 /\ -y = h /\ y < 0
    BY <1>8, <2>1 DEF Abs
  <2>3. d = h + (m * (-1)) /\ h = d + (m * 1)
    BY <1>3, <2>1
  <2>4. Congruent(d, h, m) /\ Congruent(h, d, m)
    BY <2>3 DEF Congruent
  <2>5. Wrap(t, h) = Wrap(t, d)
    BY <1>1, <1>2, <1>3, <2>4, WrapFacts
  <2>6. d \in ValuesOf(t)
    BY <1>2, <2>1
  <2>7. Wrap(t, d) = d
    BY <1>1, <2>6, WrapFacts
  <2>8. QED
    BY <1>2, <1>3, <2>2, <2>4, <2>5, <2>7
<1>9. QED
  BY <1>4, <1>6, <1>7, <1>8

LEMMA ModAgrees ==
  ASSUME NEW t \in FixedTypes, NEW x \in ValuesOf(t), NEW y \in ValuesOf(t), y # 0
  PROVE  mod(t, x, y) = IF NegativeMultiple(t, x, y) THEN Wrap(t, Abs(y))
                                                     ELSE Wrap(t, mod("Integer", x, y))
<1>1. x \in Int /\ y \in Int
  BY ValuesAreNumbers DEF Machine
<1>2. CASE t \in UnsignedTypes
  <2>1. x \in Nat /\ y \in Nat \ {0} /\ ~NegativeMultiple(t, x, y)
    BY <1>2, UnsignedValues DEF NegativeMultiple
  <2>2. mod(t, x, y) = x % y
    BY <1>2, UnsignedValues DEF mod
  <2>3. Abs(y) = y
    BY <2>1, AbsFacts
  <2>4. PICK r \in 0 .. y - 1 : r = x % y
    BY <1>1, <2>1, DivMod
  <2>5. r \in ValuesOf(t)
    <3>1. PICK w \in Nat \ {0} : w = Width[t]
      BY <1>2, UnsignedValues, WidthFacts
    <3>2. ValuesOf(t) = 0 .. 2^w - 1
      BY <1>2, <3>1, UnsignedValues DEF ValuesOf
    <3>3. PICK p \in Nat : p = 2^w
      BY PowerPositive
    <3>4. QED
      BY <2>1, <3>2, <3>3
  <2>6. Wrap(t, r) = r
    BY <1>2, <2>5, UnsignedValues, WrapFacts
  <2>7. QED
    BY <2>1, <2>2, <2>3, <2>4, <2>6, IntegerRemainder
<1>3. CASE t \in SignedTypes
  <2>1. t \in Machine
    BY <1>3, SignedValues
  <2>2. PICK d \in Int \ {0} :
           /\ d = IF y < 0 THEN Wrap(t, -y) ELSE y
           /\ Abs(d) = Abs(y) /\ Congruent(d, Abs(y), 2^Width[t])
    BY <1>3, Denominator
  <2>3. mod(t, x, y) = Wrap(t, CRemainder(x, d) + (IF x < 0 THEN d ELSE 0))
    BY <1>3, <2>2, SignedValues DEF mod
  <2>4. \E b \in Nat \ {0} : \E q \in Nat, r \in 0 .. b - 1 :
           /\ b = Abs(d) /\ Abs(x) = (b * q) + r
           /\ CQuotient(x, d) = IF (x < 0) = (d < 0) THEN q ELSE -q
           /\ CRemainder(x, d) = IF x < 0 THEN -r ELSE r
    BY <1>1, CParts
  <2>5. PICK b \in Nat \ {0} : \E q \in Nat, r \in 0 .. b - 1 :
           /\ b = Abs(y) /\ Abs(x) = (b * q) + r
           /\ CRemainder(x, d) = IF x < 0 THEN -r ELSE r
    BY <2>2, <2>4
  <2>6. PICK q \in Nat, r \in 0 .. b - 1 :
           /\ b = Abs(y) /\ Abs(x) = (b * q) + r
           /\ CRemainder(x, d) = IF x < 0 THEN -r ELSE r
    BY <2>5
  <2>7. Abs(x) = (b * q) + r
    BY <2>6
  <2>8. /\ x >= 0 => x \div b = q /\ x % b = r
        /\ x < 0 /\ r = 0 => x \div b = -q /\ x % b = 0
        /\ x < 0 /\ r > 0 => x \div b = -q - 1 /\ x % b = b - r
    BY <1>1, <2>7, FloorParts, Zenon
  <2>9. mod("Integer", x, y) = x % b
    BY <2>6, IntegerRemainder
  <2>10. NegativeMultiple(t, x, y) <=> x < 0 /\ x % b = 0
    BY <1>3, <2>6 DEF NegativeMultiple
  <2>11. CASE x >= 0
    <3>1. CRemainder(x, d) + (IF x < 0 THEN d ELSE 0) = r
      BY <1>1, <2>6, <2>11
    <3>2. ~NegativeMultiple(t, x, y) /\ x % b = r
      BY <1>1, <2>8, <2>10, <2>11
    <3>3. QED
      BY <2>3, <2>9, <3>1, <3>2
  <2>12. CASE x < 0
    <3>1. PICK n \in Int : n = d - r
      OBVIOUS
    <3>2. CRemainder(x, d) + (IF x < 0 THEN d ELSE 0) = n
      BY <2>6, <2>12, <3>1
    <3>3. PICK p \in Nat \ {0} : p = 2^Width[t]
      BY <2>1, WidthFacts, PowerPositive
    <3>4. PICK k \in Int : d = b + (p * k)
      BY <2>2, <2>6, <3>3 DEF Congruent
    <3>5. PICK m \in Int : m = b - r
      OBVIOUS
    <3>6. n = m + (p * k)
      <4>1. PICK z \in Int : z = p * k
        OBVIOUS
      <4>2. QED
        BY <3>1, <3>4, <3>5, <4>1
    <3>7. Congruent(n, m, p)
      BY <3>6 DEF Congruent
    <3>8. Wrap(t, n) = Wrap(t, m)
      BY <2>1, <3>3, <3>7, WrapFacts
    <3>9. CASE r = 0
      <4>1. NegativeMultiple(t, x, y) /\ m = Abs(y)
        BY <2>6, <2>8, <2>10, <2>12, <3>5, <3>9
      <4>2. QED
        BY <2>3, <3>2, <3>8, <4>1
    <3>10. CASE r > 0
      <4>1. x % b = m /\ m # 0
        BY <2>8, <2>12, <3>5, <3>10
      <4>2. QED
        BY <2>3, <2>9, <2>10, <3>2, <3>8, <4>1
    <3>11. QED
      BY <3>9, <3>10
  <2>13. QED
    BY <1>1, <2>11, <2>12
<1>4. QED
  BY <1>2, <1>3 DEF FixedTypes

-----------------------------------------------------------------------------
(* The number of a set of bits, as the result of so many rounds. *)

BitRounds(f, w, S) ==
  /\ f \in [0 .. w -> Int] /\ BitSum(w, S) = f[w] /\ f[0] = 0
  /\ \A i \in 0 .. w - 1 : f[i + 1] = f[i] + (IF i \in S THEN 2^i ELSE 0)

LEMMA BitSumRounds ==
  ASSUME NEW w \in Nat, NEW S
  PROVE  \E f : BitRounds(f, w, S)
<1> DEFINE Body(g) == [i \in 0 .. w |->
              IF i = 0 THEN 0 ELSE g[i - 1] + (IF i - 1 \in S THEN 2^(i - 1) ELSE 0)]
<1>1. PICK bit : bit = [i \in 1 .. w |-> IF i - 1 \in S THEN 2^(i - 1) ELSE 0]
  OBVIOUS
<1>2. bit \in [1 .. w -> Int]
  <2>1. \A i \in 1 .. w : bit[i] \in Int
    BY <1>1, TwoPowers
  <2>2. QED
    BY <1>1, <2>1
<1> DEFINE step == [x \in (1 .. w) \X Int |-> x[2] + bit[x[1]]]
<1>3. \A i \in 1 .. w : \A x \in Int : step[<<i, x>>] = x + bit[i] /\ step[<<i, x>>] \in Int
  BY <1>2
<1> HIDE DEF step
<1>4. 0 \in Int
  OBVIOUS
<1>5. PICK g : Rounds(g, Int, 0, step, w)
  BY <1>3, <1>4, RoundsExist
<1>6. /\ g \in [0 .. w -> Int] /\ g[0] = 0
      /\ \A i \in 1 .. w : g[i] = g[i - 1] + (IF i - 1 \in S THEN 2^(i - 1) ELSE 0)
  <2>1. g \in [0 .. w -> Int] /\ g[0] = 0 /\ \A i \in 1 .. w : g[i] = step[<<i, g[i - 1]>>]
    BY <1>5 DEF Rounds
  <2>2. \A i \in 1 .. w : g[i - 1] \in Int
    BY <2>1
  <2>3. QED
    BY <1>1, <1>3, <2>1, <2>2
<1>7. g = Body(g)
  <2>1. ASSUME NEW i \in 0 .. w
        PROVE  g[i] = IF i = 0 THEN 0 ELSE g[i - 1] + (IF i - 1 \in S THEN 2^(i - 1) ELSE 0)
    <3>1. CASE i = 0
      BY <1>6, <3>1
    <3>2. CASE i # 0
      <4>1. i \in 1 .. w
        BY <3>2
      <4>2. QED
        BY <1>6, <3>2, <4>1
    <3>3. QED
      BY <3>1, <3>2
  <2>2. QED
    BY <1>6, <2>1
<1>8. PICK f : f = Body(f) /\ BitSum(w, S) = f[w]
  <2>1. BitSum(w, S) = (CHOOSE f : f = Body(f))[w]
    BY DEF BitSum
  <2>2. QED
    BY <1>7, <2>1
<1>9. \A i \in 0 .. w :
        f[i] = IF i = 0 THEN 0 ELSE f[i - 1] + (IF i - 1 \in S THEN 2^(i - 1) ELSE 0)
  BY <1>8
<1> DEFINE T == {i \in 0 .. w : f[i] = g[i]}
<1>10. \A i \in 0 .. w : i \in T
  <2>1. 0 \in T
    BY <1>6, <1>9
  <2>2. ASSUME NEW i \in 0 .. w - 1, i \in T PROVE i + 1 \in T
    <3>1. i + 1 \in 1 .. w /\ (i + 1) - 1 = i /\ i + 1 # 0 /\ i + 1 \in 0 .. w
      OBVIOUS
    <3>2. f[i] = g[i]
      BY <2>2
    <3>3. f[i + 1] = g[i + 1]
      BY <1>6, <1>9, <3>1, <3>2
    <3>4. QED
      BY <3>1, <3>3
  <2> HIDE DEF T
  <2>3. QED
    BY <2>1, <2>2, Induction
<1>11. BitSum(w, S) = g[w]
  BY <1>8, <1>10
<1>12. \A i \in 0 .. w - 1 : g[i + 1] = g[i] + (IF i \in S THEN 2^i ELSE 0)
  <2>1. ASSUME NEW i \in 0 .. w - 1 PROVE g[i + 1] = g[i] + (IF i \in S THEN 2^i ELSE 0)
    <3>1. i + 1 \in 1 .. w /\ (i + 1) - 1 = i
      OBVIOUS
    <3>2. QED
      BY <1>6, <3>1
  <2>2. QED
    BY <2>1
<1>13. QED
  BY <1>6, <1>11, <1>12 DEF BitRounds

LEMMA BitSumGrows ==
  ASSUME NEW w \in Nat, NEW S
  PROVE  /\ BitSum(w, S) \in Int /\ BitSum(0, S) = 0
         /\ BitSum(w + 1, S) = BitSum(w, S) + (IF w \in S THEN 2^w ELSE 0)
<1>0. w + 1 \in Nat /\ 0 \in Nat
  OBVIOUS
<1>1. PICK f : BitRounds(f, w, S)
  BY BitSumRounds
<1>2. PICK g : BitRounds(g, w + 1, S)
  BY <1>0, BitSumRounds
<1>3. BitSum(0, S) = 0
  <2>1. PICK z : BitRounds(z, 0, S)
    BY <1>0, BitSumRounds
  <2>2. QED
    BY <2>1 DEF BitRounds
<1> DEFINE T == {i \in 0 .. w : f[i] = g[i]}
<1>4. \A i \in 0 .. w : i \in T
  <2>1. 0 \in T
    BY <1>1, <1>2 DEF BitRounds
  <2>2. ASSUME NEW i \in 0 .. w - 1, i \in T PROVE i + 1 \in T
    <3>1. i \in 0 .. (w + 1) - 1 /\ f[i] = g[i] /\ i + 1 \in 0 .. w
      BY <2>2
    <3>2. f[i + 1] = g[i + 1]
      BY <1>1, <1>2, <3>1 DEF BitRounds
    <3>3. QED
      BY <3>1, <3>2
  <2> HIDE DEF T
  <2>3. QED
    BY <2>1, <2>2, Induction
<1>5. f[w] = g[w] /\ w \in 0 .. (w + 1) - 1
  BY <1>4
<1>6. QED
  BY <1>1, <1>2, <1>3, <1>5 DEF BitRounds

(* The bits from v on count a multiple of 2^v. *)
LEMMA BitSumCongruent ==
  ASSUME NEW v \in Nat, NEW w \in Nat, v <= w, NEW R, NEW S,
         \A i \in 0 .. v - 1 : i \in R <=> i \in S
  PROVE  Congruent(BitSum(v, R), BitSum(w, S), 2^v)
<1>0. PICK p \in Nat \ {0} : p = 2^v
  BY PowerPositive
<1>1. BitSum(v, R) = BitSum(v, S)
  <2> DEFINE T == {i \in 0 .. v : BitSum(i, R) = BitSum(i, S)}
  <2>1. 0 \in T
    BY BitSumGrows
  <2>2. ASSUME NEW i \in 0 .. v - 1, i \in T PROVE i + 1 \in T
    <3>1. BitSum(i, R) = BitSum(i, S) /\ (i \in R <=> i \in S) /\ i \in Nat
      BY <2>2
    <3>2. /\ BitSum(i + 1, R) = BitSum(i, R) + (IF i \in R THEN 2^i ELSE 0)
          /\ BitSum(i + 1, S) = BitSum(i, S) + (IF i \in S THEN 2^i ELSE 0)
      BY <3>1, BitSumGrows
    <3>3. BitSum(i + 1, R) = BitSum(i + 1, S) /\ i + 1 \in 0 .. v
      BY <3>1, <3>2
    <3>4. QED
      BY <3>3
  <2>3. \A i \in 0 .. v : i \in T
    <3> HIDE DEF T
    <3> QED  BY <2>1, <2>2, Induction
  <2>4. QED
    BY <2>3
<1>2. PICK m \in Nat : m = w - v /\ v + m = w
  OBVIOUS
<1> DEFINE U == {i \in 0 .. m : Congruent(BitSum(v, S), BitSum(v + i, S), p)}
<1>3. 0 \in U
  <2>1. PICK n \in Int : n = BitSum(v, S)
    BY BitSumGrows
  <2>2. n = n + (p * 0)
    OBVIOUS
  <2>3. Congruent(n, n, p)
    BY <2>2 DEF Congruent
  <2>4. v + 0 = v
    OBVIOUS
  <2>5. QED
    BY <2>1, <2>3, <2>4
<1>4. ASSUME NEW i \in 0 .. m - 1, i \in U PROVE i + 1 \in U
  <2>1. PICK j \in Nat : j = v + i /\ j + 1 = v + (i + 1)
    OBVIOUS
  <2>2. BitSum(j + 1, S) = BitSum(j, S) + (IF j \in S THEN 2^j ELSE 0) /\ BitSum(j, S) \in Int
    BY BitSumGrows
  <2>3. PICK n \in Int : n = BitSum(v, S)
    BY BitSumGrows
  <2>4. PICK a \in Int, b \in Int : a = BitSum(j, S) /\ b = BitSum(j + 1, S)
    <3>1. j + 1 \in Nat
      OBVIOUS
    <3>2. QED
      BY <3>1, BitSumGrows
  <2>5. PICK k \in Int : n = a + (p * k)
    BY <1>4, <2>1, <2>3, <2>4 DEF Congruent
  <2>6. PICK l \in Int : b = a + (p * l)
    <3>1. CASE j \in S
      <4>1. v <= j
        BY <2>1
      <4>2. \E l \in Nat \ {0} : 2^j = 2^v * l
        BY <4>1, PowerDivides, Zenon
      <4>3. PICK l \in Nat \ {0} : 2^j = p * l
        BY <1>0, <4>2
      <4>4. b = a + 2^j
        BY <2>2, <2>4, <3>1
      <4>5. l \in Int /\ b = a + (p * l)
        BY <4>3, <4>4
      <4>6. QED
        BY <4>5
    <3>2. CASE j \notin S
      <4>1. b = a + (p * 0)
        BY <2>2, <2>4, <3>2
      <4>2. QED
        BY <4>1
    <3>3. QED
      BY <3>1, <3>2
  <2>7. p * (k - l) = (p * k) - (p * l)
    OBVIOUS
  <2>8. n = b + (p * (k - l)) /\ k - l \in Int
    BY <2>5, <2>6, <2>7
  <2>9. Congruent(n, b, p)
    BY <2>8 DEF Congruent
  <2>10. QED
    BY <2>1, <2>3, <2>4, <2>9
<1>5. \A i \in 0 .. m : i \in U
  <2> HIDE DEF U
  <2> QED  BY <1>3, <1>4, Induction
<1>6. Congruent(BitSum(v, S), BitSum(v + m, S), p)
  BY <1>5
<1>7. QED
  BY <1>0, <1>1, <1>2, <1>6

LEMMA FromBitsAgrees ==
  ASSUME NEW t \in FixedTypes, NEW R, NEW S,
         \A i \in 0 .. Width[t] - 1 : i \in R <=> i \in S
  PROVE  FromBits(t, R) = Wrap(t, FromBits("Integer", S))
<1>1. t \in Machine /\ t # "Integer"
  BY NotInteger DEF Machine
<1>2. PICK v \in Nat \ {0}, w \in Nat \ {0} : v = Width[t] /\ w = WInteger /\ v <= w
  BY <1>1, WidthFacts
<1>3. PICK p \in Nat \ {0} : p = 2^v
  BY PowerPositive
<1>4. Congruent(BitSum(v, R), BitSum(w, S), p)
  BY <1>2, <1>3, BitSumCongruent
<1>5. PICK a \in Int, b \in Int : a = BitSum(v, R) /\ b = BitSum(w, S)
  BY BitSumGrows
<1>6. FromBits(t, R) = Wrap(t, a)
  BY <1>1, <1>2, <1>5 DEF FromBits
<1>7. FromBits("Integer", S) = Signed(w, b)
  BY <1>2, <1>5, WidthFacts DEF FromBits
<1>8. PICK c \in Int : c = Signed(w, b) /\ Congruent(c, b, 2^w)
  <2>1. Signed(w, b) \in -(2^(w - 1)) .. 2^(w - 1) - 1 /\ Congruent(Signed(w, b), b, 2^w)
    BY SignedFacts
  <2>2. PICK h \in Nat \ {0} : 2^(w - 1) = h
    BY Halves
  <2>3. QED
    BY <2>1, <2>2
<1>9. Congruent(c, b, p)
  BY <1>2, <1>3, <1>8, CongruentLess
<1>10. Congruent(a, b, p)
  BY <1>4, <1>5
<1>11. Congruent(b, c, p)
  BY <1>9, <1>10, CongruentSum
<1>12. Congruent(a, c, p)
  BY <1>10, <1>11, CongruentSum
<1>13. Wrap(t, a) = Wrap(t, c)
  BY <1>1, <1>2, <1>3, <1>12, WrapFacts
<1>14. QED
  BY <1>6, <1>7, <1>8, <1>13

(* A bit of a number is the same in every type that has it. *)
LEMMA BitsAgree ==
  ASSUME NEW t \in FixedTypes, NEW x, NEW i \in 0 .. Width[t] - 1
  PROVE  i \in BitsOf(t, x) <=> i \in BitsOf("Integer", x)
<1>1. t \in Machine
  BY DEF Machine
<1>2. PICK v \in Nat \ {0}, w \in Nat \ {0} : v = Width[t] /\ w = WInteger /\ v <= w
  BY <1>1, WidthFacts
<1>3. Width["Integer"] = w
  BY <1>2, WidthFacts
<1>4. i \in 0 .. v - 1 /\ i \in 0 .. w - 1
  BY <1>2
<1>5. QED
  BY <1>2, <1>3, <1>4 DEF BitsOf

LEMMA LogicAgrees ==
  ASSUME NEW t \in FixedTypes, NEW x, NEW y
  PROVE  /\ and(t, x, y) = Wrap(t, and("Integer", x, y))
         /\ or(t, x, y) = Wrap(t, or("Integer", x, y))
         /\ xor(t, x, y) = Wrap(t, xor("Integer", x, y))
<1>1. ASSUME NEW i \in 0 .. Width[t] - 1
      PROVE  /\ i \in BitsOf(t, x) <=> i \in BitsOf("Integer", x)
             /\ i \in BitsOf(t, y) <=> i \in BitsOf("Integer", y)
  BY BitsAgree
<1>2. PICK a, b, c, d : /\ a = BitsOf(t, x) /\ b = BitsOf("Integer", x)
                        /\ c = BitsOf(t, y) /\ d = BitsOf("Integer", y)
  OBVIOUS
<1>3. ASSUME NEW i \in 0 .. Width[t] - 1
      PROVE  /\ i \in a \intersect c <=> i \in b \intersect d
             /\ i \in a \union c <=> i \in b \union d
             /\ i \in (a \union c) \ (a \intersect c) <=> i \in (b \union d) \ (b \intersect d)
  BY <1>1, <1>2
<1>4. FromBits(t, a \intersect c) = Wrap(t, FromBits("Integer", b \intersect d))
  BY <1>3, FromBitsAgrees
<1>5. FromBits(t, a \union c) = Wrap(t, FromBits("Integer", b \union d))
  BY <1>3, FromBitsAgrees
<1>6. FromBits(t, (a \union c) \ (a \intersect c))
        = Wrap(t, FromBits("Integer", (b \union d) \ (b \intersect d)))
  BY <1>3, FromBitsAgrees
<1>7. QED
  BY <1>2, <1>4, <1>5, <1>6 DEF and, or, xor

-----------------------------------------------------------------------------
(* FixedAgreesWithInteger of a call c that returned r. *)
FixedCall(c, r) ==
  c.op \in ArithmeticOps /\ c.t \in FixedTypes =>
    IF c.op = "mod" /\ NegativeMultiple(c.t, c.x, c.y)
    THEN r = Wrap(c.t, Abs(c.y))
    ELSE r = Wrap(c.t, ByInteger(c.op, c.x, c.y))

LEMMA FixedOperands ==
  ASSUME NEW t \in FixedTypes
  PROVE  Operands(t) = ValuesOf(t)
BY NotInteger DEF Operands, FixedTypes, SignedTypes, UnsignedTypes

(* The Integers are the same whatever they are converted to on the way. *)
LEMMA IntegerWrap == \A n : Wrap("Integer", n) = n
BY NotInteger DEF Wrap

LEMMA FixedArithmetic ==
  ASSUME NEW t, NEW x, NEW y
  PROVE  /\ FixedCall([op |-> "add", t |-> t, x |-> x, y |-> y], add(t, x, y))
         /\ FixedCall([op |-> "sub", t |-> t, x |-> x, y |-> y], sub(t, x, y))
         /\ FixedCall([op |-> "mul", t |-> t, x |-> x, y |-> y], mul(t, x, y))
         /\ FixedCall([op |-> "negate", t |-> t, x |-> x, y |-> 0], negate(t, x))
<1>1. /\ ByInteger("add", x, y) = x + y /\ ByInteger("sub", x, y) = x - y
      /\ ByInteger("mul", x, y) = x * y /\ ByInteger("negate", x, 0) = -x
  BY IntegerWrap DEF ByInteger, add, sub, mul, negate
<1>2. QED
  BY <1>1 DEF FixedCall, add, sub, mul, negate

LEMMA FixedDivision ==
  ASSUME NEW t, NEW x \in Operands(t), NEW y \in Operands(t), y # 0
  PROVE  /\ FixedCall([op |-> "div", t |-> t, x |-> x, y |-> y], div(t, x, y))
         /\ FixedCall([op |-> "mod", t |-> t, x |-> x, y |-> y], mod(t, x, y))
<1>1. /\ ByInteger("div", x, y) = div("Integer", x, y)
      /\ ByInteger("mod", x, y) = mod("Integer", x, y)
  BY DEF ByInteger
<1>2. SUFFICES ASSUME t \in FixedTypes
               PROVE  /\ div(t, x, y) = Wrap(t, div("Integer", x, y))
                      /\ mod(t, x, y) = IF NegativeMultiple(t, x, y) THEN Wrap(t, Abs(y))
                                        ELSE Wrap(t, mod("Integer", x, y))
  BY <1>1 DEF FixedCall
<1>3. x \in ValuesOf(t) /\ y \in ValuesOf(t)
  BY <1>2, FixedOperands
<1>4. QED
  BY <1>2, <1>3, DivAgrees, ModAgrees

LEMMA FixedShift ==
  ASSUME NEW t, NEW x \in Operands(t), NEW y \in Nat
  PROVE  /\ FixedCall([op |-> "shiftl", t |-> t, x |-> x, y |-> y], shiftl(t, x, y))
         /\ FixedCall([op |-> "shiftr", t |-> t, x |-> x, y |-> y], shiftr(t, x, y))
<1>1. ByInteger("shiftl", x, y) = x * 2^y /\ ByInteger("shiftr", x, y) = x \div 2^y
  BY IntegerWrap DEF ByInteger, shiftl, shiftr
<1>2. SUFFICES ASSUME t \in FixedTypes
               PROVE  x \div 2^y = Wrap(t, x \div 2^y)
  BY <1>1 DEF FixedCall, shiftl, shiftr
<1>3. t \in Machine /\ x \in ValuesOf(t)
  BY <1>2, FixedOperands DEF Machine
<1>4. PICK b \in Nat \ {0} : b = 2^y
  BY PowerPositive
<1>5. x \in Int /\ x \div b \in ValuesOf(t)
  BY <1>3, QuotientOfValue
<1>6. PICK q \in Int : q = x \div b
  BY <1>5, DivMod
<1>7. Wrap(t, q) = q
  BY <1>3, <1>5, <1>6, WrapFacts
<1>8. QED
  BY <1>4, <1>6, <1>7

LEMMA FixedLogic ==
  ASSUME NEW t, NEW x, NEW y
  PROVE  /\ FixedCall([op |-> "and", t |-> t, x |-> x, y |-> y], and(t, x, y))
         /\ FixedCall([op |-> "or", t |-> t, x |-> x, y |-> y], or(t, x, y))
         /\ FixedCall([op |-> "xor", t |-> t, x |-> x, y |-> y], xor(t, x, y))
<1>1. /\ ByInteger("and", x, y) = and("Integer", x, y)
      /\ ByInteger("or", x, y) = or("Integer", x, y)
      /\ ByInteger("xor", x, y) = xor("Integer", x, y)
  BY DEF ByInteger
<1>2. SUFFICES ASSUME t \in FixedTypes
               PROVE  /\ and(t, x, y) = Wrap(t, and("Integer", x, y))
                      /\ or(t, x, y) = Wrap(t, or("Integer", x, y))
                      /\ xor(t, x, y) = Wrap(t, xor("Integer", x, y))
  BY <1>1 DEF FixedCall
<1>3. QED
  BY <1>2, LogicAgrees

(* The kinds of calls. *)
StringOps == {"reverse", "unpack", "iterate", "uncons", "substr", "cons", "append", "pack", "show"}

ArithmeticStep == Arithmetic \/ Division \/ Shift \/ Logic
StringStep     == OneString \/ Substring \/ BuildString
QuietStep      == call'.op = "idle" \/ (call' = call /\ result' = result)

LEMMA OpsDisjoint ==
  /\ ArithmeticOps \cap StringOps = {}
  /\ \A op \in {"compare", "cast", "idle"} : op \notin ArithmeticOps /\ op \notin StringOps
BY DEF ArithmeticOps, StringOps

LEMMA StepKinds ==
  ASSUME [Next]_vars
  PROVE  ArithmeticStep \/ Comparison \/ Cast \/ StringStep \/ QuietStep
<1>1. CASE SetInt \/ SetByte \/ SetString \/ Copy
  BY <1>1 DEF SetInt, SetByte, SetString, Copy, Set, QuietStep
<1>2. CASE Return \/ UNCHANGED vars
  BY <1>2 DEF Return, Idle, vars, QuietStep
<1>3. QED
  BY <1>1, <1>2 DEF Next, ArithmeticStep, StringStep

LEMMA OneStringOp ==
  ASSUME OneString
  PROVE  call'.op \in StringOps
<1>1. PICK s : \/ call' = [op |-> "reverse", x |-> s]
               \/ call' = [op |-> "unpack", x |-> s]
               \/ call' = [op |-> "iterate", x |-> s]
               \/ call' = [op |-> "uncons", x |-> s]
  BY DEF OneString, Returns
<1>2. QED
  BY <1>1 DEF StringOps

LEMMA BuildStringOp ==
  ASSUME BuildString
  PROVE  call'.op \in StringOps
<1>1. PICK s, t, c : \/ call' = [op |-> "cons", x |-> c, y |-> s]
                     \/ call' = [op |-> "append", x |-> s, y |-> t]
                     \/ call' = [op |-> "pack", x |-> s, y |-> c, z |-> t]
                     \/ call' = [op |-> "show", x |-> c]
  BY DEF BuildString, Returns
<1>2. QED
  BY <1>1 DEF StringOps

LEMMA ArithmeticOp ==
  ASSUME ArithmeticStep
  PROVE  call'.op \in ArithmeticOps
<1>1. PICK t, x, y : \E o \in ArithmeticOps : call' = [op |-> o, t |-> t, x |-> x, y |-> y]
  <2>1. CASE Arithmetic \/ Division
    BY <2>1 DEF Arithmetic, Division, Returns, ArithmeticOps
  <2>2. CASE Shift \/ Logic
    BY <2>2 DEF Shift, Logic, Returns, ArithmeticOps
  <2>3. QED
    BY <2>1, <2>2 DEF ArithmeticStep
<1>2. QED
  BY <1>1

LEMMA StepOps ==
  /\ Comparison => call'.op = "compare"
  /\ Cast => call'.op = "cast"
  /\ StringStep => call'.op \in StringOps
<1>1. Comparison => call'.op = "compare"
  BY DEF Comparison, Returns
<1>2. Cast => call'.op = "cast"
  BY DEF Cast, Returns
<1>3. ASSUME Substring PROVE call'.op \in StringOps
  <2>1. PICK s, start, len : call' = [op |-> "substr", x |-> s, start |-> start, len |-> len]
    BY <1>3 DEF Substring, Returns
  <2>2. QED
    BY <2>1 DEF StringOps
<1>4. QED
  BY <1>1, <1>2, <1>3, OneStringOp, BuildStringOp DEF StringStep

(* Every operation of the eight fixed-width types computes the operation   *)
(* of Integer converted to the type, whatever the widths.                  *)
THEOREM FixedIsInteger == Spec => []FixedAgreesWithInteger
<1>1. FixedAgreesWithInteger <=> FixedCall(call, result)
  BY DEF FixedAgreesWithInteger, FixedCall, Called
<1>2. FixedAgreesWithInteger' <=> FixedCall(call', result')
  BY DEF FixedAgreesWithInteger, FixedCall, Called
<1>3. Init => FixedAgreesWithInteger
  BY DEF Init, Idle, FixedAgreesWithInteger, Called, ArithmeticOps
<1>4. FixedAgreesWithInteger /\ [Next]_vars => FixedAgreesWithInteger'
  <2>1. SUFFICES ASSUME FixedAgreesWithInteger, [Next]_vars PROVE FixedCall(call', result')
    BY <1>2
  <2>2. CASE Arithmetic
    <3>1. PICK t, x, y :
            \/ Returns([op |-> "add", t |-> t, x |-> x, y |-> y], add(t, x, y))
            \/ Returns([op |-> "sub", t |-> t, x |-> x, y |-> y], sub(t, x, y))
            \/ Returns([op |-> "mul", t |-> t, x |-> x, y |-> y], mul(t, x, y))
            \/ Returns([op |-> "negate", t |-> t, x |-> x, y |-> 0], negate(t, x))
      BY <2>2 DEF Arithmetic
    <3>2. QED
      BY <3>1, FixedArithmetic DEF Returns
  <2>3. CASE Division
    <3>1. PICK t, x, y :
            /\ x \in Operands(t) /\ y \in Operands(t) /\ y # 0
            /\ \/ Returns([op |-> "div", t |-> t, x |-> x, y |-> y], div(t, x, y))
               \/ Returns([op |-> "mod", t |-> t, x |-> x, y |-> y], mod(t, x, y))
      BY <2>3 DEF Division
    <3>2. QED
      BY <3>1, FixedDivision DEF Returns
  <2>4. CASE Shift
    <3>1. PICK t, x, y :
            /\ x \in Operands(t) /\ y \in 0 .. Width[t] - 1
            /\ \/ Returns([op |-> "shiftl", t |-> t, x |-> x, y |-> y], shiftl(t, x, y))
               \/ Returns([op |-> "shiftr", t |-> t, x |-> x, y |-> y], shiftr(t, x, y))
      BY <2>4 DEF Shift
    <3>2. y \in Nat
      BY <3>1
    <3>3. QED
      BY <3>1, <3>2, FixedShift DEF Returns
  <2>5. CASE Logic
    <3>1. PICK t, x, y :
            \/ Returns([op |-> "and", t |-> t, x |-> x, y |-> y], and(t, x, y))
            \/ Returns([op |-> "or", t |-> t, x |-> x, y |-> y], or(t, x, y))
            \/ Returns([op |-> "xor", t |-> t, x |-> x, y |-> y], xor(t, x, y))
      BY <2>5 DEF Logic
    <3>2. QED
      BY <3>1, FixedLogic DEF Returns
  <2>6. CASE Comparison \/ Cast \/ StringStep
    BY <2>6, StepOps, OpsDisjoint DEF FixedCall
  <2>7. CASE QuietStep
    BY <1>1, <2>1, <2>7, OpsDisjoint DEF QuietStep, FixedCall
  <2>8. QED
    BY <2>1, <2>2, <2>3, <2>4, <2>5, <2>6, <2>7, StepKinds DEF ArithmeticStep
<1>5. QED
  BY <1>3, <1>4, PTL DEF Spec

-----------------------------------------------------------------------------
(* The operations of Integer. *)

LEMMA BitSumRange ==
  ASSUME NEW w \in Nat, NEW S
  PROVE  BitSum(w, S) \in 0 .. 2^w - 1
<1> DEFINE T == {i \in 0 .. w : BitSum(i, S) \in 0 .. 2^i - 1}
<1>1. 0 \in T
  BY BitSumGrows, TwoPowers
<1>2. ASSUME NEW i \in 0 .. w - 1, i \in T PROVE i + 1 \in T
  <2>1. i \in Nat /\ i + 1 \in 0 .. w
    OBVIOUS
  <2>2. PICK p \in Nat \ {0} : p = 2^i
    BY <2>1, PowerPositive
  <2>3. 2^(i + 1) = p + p
    BY <2>1, <2>2, TwoDoubles
  <2>4. PICK n \in 0 .. p - 1 : n = BitSum(i, S)
    BY <1>2, <2>2
  <2>5. BitSum(i + 1, S) = n + (IF i \in S THEN p ELSE 0)
    BY <2>1, <2>2, <2>4, BitSumGrows
  <2>6. BitSum(i + 1, S) \in 0 .. (p + p) - 1
    BY <2>5
  <2>7. QED
    BY <2>1, <2>3, <2>6
<1>3. \A i \in 0 .. w : i \in T
  <2> HIDE DEF T
  <2> QED  BY <1>1, <1>2, Induction
<1>4. QED
  BY <1>3

(* The highest bit counts negatively. *)
SignedSum(v, S) == BitSum(v, S) - (IF v \in S THEN 2^v ELSE 0)

LEMMA SignedBits ==
  ASSUME NEW v \in Nat, NEW S
  PROVE  Signed(v + 1, BitSum(v + 1, S)) = SignedSum(v, S)
<1>1. PICK h \in Nat \ {0} : h = 2^v /\ 2^(v + 1) = h + h
  BY PowerPositive, TwoDoubles
<1>2. PICK n \in 0 .. h - 1 : n = BitSum(v, S)
  BY <1>1, BitSumRange
<1>3. PICK top \in {0, h} : top = IF v \in S THEN h ELSE 0
  OBVIOUS
<1>4. PICK m \in Int, k \in Int : m = n + top /\ k = n - top
  OBVIOUS
<1>5. BitSum(v + 1, S) = m /\ SignedSum(v, S) = k
  BY <1>1, <1>2, <1>3, <1>4, BitSumGrows DEF SignedSum
<1>6. k \in -h .. h - 1
  BY <1>3, <1>4
<1>7. PICK w \in Nat \ {0} : w = v + 1 /\ w - 1 = v
  OBVIOUS
<1>8. PICK p \in Nat : p = h + h
  OBVIOUS
<1>9. m = k + (p * 0) \/ m = k + (p * 1)
  BY <1>3, <1>4, <1>8
<1>10. Congruent(m, k, p)
  <2>1. 0 \in Int /\ 1 \in Int
    OBVIOUS
  <2>2. \E l \in Int : m = k + (p * l)
    BY <1>9, <2>1, Zenon
  <2>3. QED
    BY <2>2 DEF Congruent
<1>11. Congruent(m, k, 2^w)
  BY <1>1, <1>7, <1>8, <1>10
<1>12. Signed(w, m) = Signed(w, k)
  BY <1>11, SignedFacts
<1>13. Signed(w, k) = k
  BY <1>1, <1>6, <1>7, SignedFacts
<1>14. QED
  BY <1>5, <1>7, <1>12, <1>13

(* The bits of a number make it up again. *)
LEMMA BitsOfNumber ==
  ASSUME NEW x \in Int, NEW w \in Nat, NEW S, \A i \in 0 .. w - 1 : i \in S <=> (x \div 2^i) % 2 = 1
  PROVE  BitSum(w, S) = x % 2^w
<1> DEFINE T == {i \in 0 .. w : BitSum(i, S) = x % 2^i}
<1>1. 0 \in T
  <2>1. x % 1 = 0
    OBVIOUS
  <2>2. QED
    BY <2>1, BitSumGrows, TwoPowers
<1>2. ASSUME NEW i \in 0 .. w - 1, i \in T PROVE i + 1 \in T
  <2>1. i \in Nat /\ i + 1 \in 0 .. w
    OBVIOUS
  <2>2. PICK p \in Nat \ {0} : p = 2^i
    BY <2>1, PowerPositive
  <2>3. PICK p2 \in Nat \ {0} : p2 = p + p
    OBVIOUS
  <2>4. 2^(i + 1) = p2
    BY <2>1, <2>2, <2>3, TwoDoubles
  <2>5. PICK q \in Int, r \in 0 .. p - 1 : q = x \div p /\ r = x % p /\ x = (p * q) + r
    <3>1. x \div p \in Int /\ x % p \in 0 .. p - 1 /\ x = (p * (x \div p)) + (x % p)
      BY DivMod
    <3>2. QED
      BY <3>1
  <2>6. PICK b \in 0 .. 1, k \in Int : b = q % 2 /\ q = (2 * k) + b
    <3>1. q % 2 \in 0 .. 1 /\ q \div 2 \in Int /\ q = (2 * (q \div 2)) + (q % 2)
      OBVIOUS
    <3>2. QED
      BY <3>1
  <2>7. p * q = (p2 * k) + (p * b)
    <3>1. p * ((2 * k) + b) = (p * (2 * k)) + (p * b)
      OBVIOUS
    <3>2. p * (2 * k) = (p + p) * k
      OBVIOUS
    <3>3. QED
      BY <2>3, <2>6, <3>1, <3>2
  <2>8. PICK s \in Int : s = (p * b) + r
    OBVIOUS
  <2>9. p * b = IF b = 1 THEN p ELSE 0
    <3>1. p * 1 = p /\ p * 0 = 0
      OBVIOUS
    <3>2. QED
      BY <2>6, <3>1
  <2>10. s \in 0 .. p2 - 1 /\ s = r + (IF b = 1 THEN p ELSE 0)
    BY <2>3, <2>8, <2>9
  <2>11. x = (p2 * k) + s
    <3>1. PICK u \in Int, z \in Int, a \in Int : u = p2 * k /\ z = p * b /\ a = p * q
      OBVIOUS
    <3>2. QED
      BY <2>5, <2>7, <2>8, <3>1
  <2>12. x % p2 = s
    <3>1. s \in 0 .. p2 - 1
      BY <2>10
    <3>2. QED
      BY <2>11, <3>1, DivModUnique, Zenon
  <2>13. i \in S <=> b = 1
    BY <2>2, <2>5, <2>6
  <2>14. BitSum(i + 1, S) = r + (IF b = 1 THEN p ELSE 0)
    <3>1. BitSum(i, S) = r
      BY <1>2, <2>2, <2>5
    <3>2. BitSum(i + 1, S) = BitSum(i, S) + (IF i \in S THEN 2^i ELSE 0)
      BY <2>1, BitSumGrows
    <3>3. QED
      BY <2>2, <2>13, <3>1, <3>2
  <2>15. QED
    BY <2>1, <2>4, <2>10, <2>12, <2>14
<1>3. \A i \in 0 .. w : i \in T
  <2> HIDE DEF T
  <2> QED  BY <1>1, <1>2, Induction
<1>4. QED
  BY <1>3

(* What the bits of two sets, their union, meet and difference add up to. *)
Venn(A, B, C, D, E) ==
  C = A \union B /\ D = A \intersect B /\ E = (A \union B) \ (A \intersect B)

LEMMA BitLaws ==
  ASSUME NEW w \in Nat, NEW A, NEW B, NEW C, NEW D, NEW E,
         Venn(A, B, C, D, E)
  PROVE  /\ BitSum(w, C) + BitSum(w, D) = BitSum(w, A) + BitSum(w, B)
         /\ BitSum(w, D) + BitSum(w, E) = BitSum(w, C)
<1> DEFINE T == {i \in 0 .. w : /\ BitSum(i, C) + BitSum(i, D) = BitSum(i, A) + BitSum(i, B)
                                /\ BitSum(i, D) + BitSum(i, E) = BitSum(i, C)}
<1>1. 0 \in T
  BY BitSumGrows
<1>2. ASSUME NEW i \in 0 .. w - 1, i \in T PROVE i + 1 \in T
  <2>1. i \in Nat /\ i + 1 \in 0 .. w
    OBVIOUS
  <2>2. PICK p \in Int : p = 2^i
    BY TwoPowers
  <2>3. PICK a \in Int, b \in Int, c \in Int, d \in Int, e \in Int :
          /\ a = BitSum(i, A) /\ b = BitSum(i, B) /\ c = BitSum(i, C) /\ d = BitSum(i, D)
          /\ e = BitSum(i, E)
    BY <2>1, BitSumGrows
  <2>4. /\ BitSum(i + 1, A) = a + (IF i \in A THEN p ELSE 0)
        /\ BitSum(i + 1, B) = b + (IF i \in B THEN p ELSE 0)
        /\ BitSum(i + 1, C) = c + (IF i \in C THEN p ELSE 0)
        /\ BitSum(i + 1, D) = d + (IF i \in D THEN p ELSE 0)
        /\ BitSum(i + 1, E) = e + (IF i \in E THEN p ELSE 0)
    BY <2>1, <2>2, <2>3, BitSumGrows
  <2>5. c + d = a + b /\ d + e = c
    BY <1>2, <2>3
  <2>6. /\ i \in C <=> i \in A \/ i \in B
        /\ i \in D <=> i \in A /\ i \in B
        /\ i \in E <=> (i \in A \/ i \in B) /\ ~(i \in A /\ i \in B)
    BY DEF Venn
  <2>7. CASE i \in A
    BY <2>1, <2>4, <2>5, <2>6, <2>7
  <2>8. CASE i \notin A
    BY <2>1, <2>4, <2>5, <2>6, <2>8
  <2>9. QED
    BY <2>7, <2>8
<1>3. \A i \in 0 .. w : i \in T
  <2> HIDE DEF T
  <2> QED  BY <1>1, <1>2, Induction
<1>4. QED
  BY <1>3

LEMMA SignedLaws ==
  ASSUME NEW v \in Nat, NEW A, NEW B, NEW C, NEW D, NEW E,
         Venn(A, B, C, D, E)
  PROVE  /\ SignedSum(v, C) + SignedSum(v, D) = SignedSum(v, A) + SignedSum(v, B)
         /\ SignedSum(v, D) + SignedSum(v, E) = SignedSum(v, C)
<1>1. PICK p \in Int : p = 2^v
  BY TwoPowers
<1>2. PICK a \in Int, b \in Int, c \in Int, d \in Int, e \in Int :
        /\ a = BitSum(v, A) /\ b = BitSum(v, B) /\ c = BitSum(v, C) /\ d = BitSum(v, D)
        /\ e = BitSum(v, E)
  BY BitSumGrows
<1>3. c + d = a + b /\ d + e = c
  BY <1>2, BitLaws
<1>4. /\ SignedSum(v, A) = a - (IF v \in A THEN p ELSE 0)
      /\ SignedSum(v, B) = b - (IF v \in B THEN p ELSE 0)
      /\ SignedSum(v, C) = c - (IF v \in C THEN p ELSE 0)
      /\ SignedSum(v, D) = d - (IF v \in D THEN p ELSE 0)
      /\ SignedSum(v, E) = e - (IF v \in E THEN p ELSE 0)
  BY <1>1, <1>2 DEF SignedSum
<1>5. /\ v \in C <=> v \in A \/ v \in B
      /\ v \in D <=> v \in A /\ v \in B
      /\ v \in E <=> (v \in A \/ v \in B) /\ ~(v \in A /\ v \in B)
  BY DEF Venn
<1>6. /\ SignedSum(v, C) + SignedSum(v, D) = SignedSum(v, A) + SignedSum(v, B)
      /\ SignedSum(v, D) + SignedSum(v, E) = SignedSum(v, C)
  <2>1. CASE v \in A
    BY <1>3, <1>4, <1>5, <2>1
  <2>2. CASE v \notin A
    BY <1>3, <1>4, <1>5, <2>2
  <2>3. QED
    BY <2>1, <2>2
<1>7. QED
  BY <1>6

LEMMA IntegerLogic ==
  ASSUME NEW x \in SmallIntegers, NEW y \in SmallIntegers
  PROVE  /\ or("Integer", x, y) + and("Integer", x, y) = x + y
         /\ and("Integer", x, y) + xor("Integer", x, y) = or("Integer", x, y)
<1>1. PICK w \in Nat \ {0} : w = WInteger
  BY WidthFacts
<1>2. PICK v \in Nat : v = w - 1 /\ v + 1 = w
  OBVIOUS
<1>3. Width["Integer"] = w
  BY <1>1, WidthFacts
<1>4. ASSUME NEW S PROVE FromBits("Integer", S) = SignedSum(v, S)
  <2>1. FromBits("Integer", S) = Signed(w, BitSum(w, S))
    BY <1>3 DEF FromBits
  <2>2. QED
    BY <1>2, <2>1, SignedBits
<1>5. ASSUME NEW z \in SmallIntegers PROVE z \in Int /\ SignedSum(v, BitsOf("Integer", z)) = z
  <2>1. PICK h \in Nat \ {0} : 2^(w - 1) = h /\ 2^w = h + h
    BY Halves
  <2>2. z \in Int /\ z \in -(2^(w - 1)) .. 2^(w - 1) - 1
    BY <1>1, <2>1, OperandsAssumption
  <2>3. PICK S : S = BitsOf("Integer", z)
    OBVIOUS
  <2>4. \A i \in 0 .. w - 1 : i \in S <=> (z \div 2^i) % 2 = 1
    BY <1>3, <2>3 DEF BitsOf
  <2>5. BitSum(w, S) = z % 2^w
    BY <2>2, <2>4, BitsOfNumber
  <2>6. SignedSum(v, S) = Signed(w, BitSum(w, S))
    BY <1>2, SignedBits
  <2>7. PICK p \in Nat \ {0} : p = 2^w
    BY PowerPositive
  <2>8. PICK r \in Int : r = z % p /\ Congruent(z, r, p)
    BY <2>2, RemainderCongruent
  <2>9. Signed(w, z) = Signed(w, r)
    BY <2>2, <2>7, <2>8, SignedFacts
  <2>10. Signed(w, z) = z
    BY <2>2, SignedFacts
  <2>11. QED
    BY <2>2, <2>3, <2>5, <2>6, <2>7, <2>8, <2>9, <2>10
<1>6. PICK A, B : A = BitsOf("Integer", x) /\ B = BitsOf("Integer", y)
  OBVIOUS
<1>7. PICK C, D, E : /\ Venn(A, B, C, D, E) /\ C = A \union B /\ D = A \intersect B
                     /\ E = (A \union B) \ (A \intersect B)
  BY DEF Venn
<1>8. /\ SignedSum(v, C) + SignedSum(v, D) = SignedSum(v, A) + SignedSum(v, B)
      /\ SignedSum(v, D) + SignedSum(v, E) = SignedSum(v, C)
  BY <1>7, SignedLaws
<1>9. /\ or("Integer", x, y) = SignedSum(v, C) /\ and("Integer", x, y) = SignedSum(v, D)
      /\ xor("Integer", x, y) = SignedSum(v, E)
  BY <1>4, <1>6, <1>7 DEF or, and, xor
<1>10. SignedSum(v, A) = x /\ SignedSum(v, B) = y
  BY <1>5, <1>6
<1>11. QED
  BY <1>8, <1>9, <1>10

LEMMA IntegerDivision ==
  ASSUME NEW x \in Int, NEW y \in Int, y # 0
  PROVE  /\ (div("Integer", x, y) * y) + mod("Integer", x, y) = x
         /\ mod("Integer", x, y) \in 0 .. Abs(y) - 1
<1>1. PICK b \in Nat \ {0} : b = Abs(y) /\ (y > 0 => y = b) /\ (y < 0 => y = -b)
  BY AbsFacts
<1>2. PICK q \in Int, r \in 0 .. b - 1 : q = x \div b /\ r = x % b /\ x = (b * q) + r
  BY DivMod
<1>3. mod("Integer", x, y) = r
  BY <1>1, <1>2, IntegerRemainder
<1>4. div("Integer", x, y) = IF y > 0 THEN q ELSE -q
  BY <1>1, <1>2, IntegerQuotient
<1>5. q * b = b * q /\ (-q) * (-b) = b * q
  OBVIOUS
<1>6. div("Integer", x, y) * y = b * q
  <2>1. CASE y > 0
    BY <1>1, <1>4, <1>5, <2>1
  <2>2. CASE y < 0
    BY <1>1, <1>4, <1>5, <2>2
  <2>3. QED
    BY <2>1, <2>2
<1>7. QED
  BY <1>1, <1>2, <1>3, <1>6

LEMMA IntegerShift ==
  ASSUME NEW x \in Int, NEW y \in Nat
  PROVE  shiftr("Integer", x, y) = div("Integer", x, 2^y)
<1>1. PICK b \in Nat \ {0} : b = 2^y /\ Abs(b) = b /\ b > 0
  BY PowerPositive, AbsFacts
<1>2. div("Integer", x, b) = x \div b
  BY <1>1, IntegerQuotient
<1>3. QED
  BY <1>1, <1>2 DEF shiftr

-----------------------------------------------------------------------------
(* Comparisons. *)

LEMMA FirstDifference ==
  ASSUME NEW a \in Seq(Nat), NEW b \in Seq(Nat)
  PROVE  /\ ~(strcmpLess(a, b) /\ strcmpLess(b, a))
         /\ ~strcmpLess(a, b) /\ ~strcmpLess(b, a) <=> a = b
<1>0. PICK m \in Nat, n \in Nat :
        /\ m = Len(a) /\ n = Len(b)
        /\ \A i \in 1 .. m : a[i] \in Nat
        /\ \A i \in 1 .. n : b[i] \in Nat
  <2>1. /\ Len(a) \in Nat /\ Len(b) \in Nat
        /\ \A i \in 1 .. Len(a) : a[i] \in Nat
        /\ \A i \in 1 .. Len(b) : b[i] \in Nat
    BY LenProperties, ElementOfSeq
  <2>2. QED
    BY <2>1
<1>1. ~(strcmpLess(a, b) /\ strcmpLess(b, a))
  <2>1. SUFFICES ASSUME strcmpLess(a, b), strcmpLess(b, a) PROVE FALSE
    OBVIOUS
  <2>2. PICK k \in 0 .. m : /\ k < n /\ (\A i \in 1 .. k : a[i] = b[i])
                            /\ (k = m \/ a[k + 1] < b[k + 1])
    BY <1>0, <2>1 DEF strcmpLess
  <2>3. PICK l \in 0 .. n : /\ l < m /\ (\A i \in 1 .. l : b[i] = a[i])
                            /\ (l = n \/ b[l + 1] < a[l + 1])
    BY <1>0, <2>1 DEF strcmpLess
  <2>4. k \in Nat /\ l \in Nat
    BY <1>0
  <2>5. CASE k < l
    <3>1. k + 1 \in 1 .. l /\ k # m
      BY <1>0, <2>3, <2>4, <2>5
    <3>2. b[k + 1] = a[k + 1] /\ a[k + 1] < b[k + 1]
      BY <2>2, <2>3, <3>1
    <3>3. a[k + 1] \in Nat
      BY <1>0, <2>3, <3>1
    <3>4. QED
      BY <3>2, <3>3
  <2>6. CASE l < k
    <3>1. l + 1 \in 1 .. k /\ l # n
      BY <1>0, <2>2, <2>4, <2>6
    <3>2. b[l + 1] = a[l + 1] /\ b[l + 1] < a[l + 1]
      BY <2>2, <2>3, <3>1
    <3>3. b[l + 1] \in Nat
      BY <1>0, <2>2, <3>1
    <3>4. QED
      BY <3>2, <3>3
  <2>7. CASE k = l
    <3>1. k # m /\ l # n /\ k + 1 \in 1 .. m /\ k + 1 \in 1 .. n
      <4>1. k < n /\ l < m
        BY <2>2, <2>3
      <4>2. QED
        BY <2>4, <2>7, <4>1
    <3>2. a[k + 1] < b[k + 1] /\ b[k + 1] < a[k + 1]
      BY <2>2, <2>3, <2>7, <3>1
    <3>3. a[k + 1] \in Nat /\ b[k + 1] \in Nat
      BY <1>0, <3>1
    <3>4. QED
      BY <3>2, <3>3
  <2>8. QED
    BY <2>4, <2>5, <2>6, <2>7
<1>2. a = b => ~strcmpLess(a, b) /\ ~strcmpLess(b, a)
  BY <1>1
<1>3. ASSUME a # b PROVE strcmpLess(a, b) \/ strcmpLess(b, a)
  <2>1. CASE \E i \in 1 .. m : i <= n /\ a[i] # b[i]
    <3> DEFINE D == {i \in 1 .. m : i <= n /\ a[i] # b[i]}
    <3>1. D \in SUBSET Nat /\ D # {}
      BY <2>1
    <3>2. \E e \in D : \A i \in D : e <= i
      <4> HIDE DEF D
      <4> QED  BY <3>1, LeastNumber
    <3>3. PICK d \in Nat \ {0} : /\ d <= m /\ d <= n /\ a[d] # b[d]
                                 /\ \A i \in D : d <= i
      BY <3>2
    <3>4. PICK k \in Nat : k = d - 1 /\ k + 1 = d
      BY <3>3
    <3>5. k \in 0 .. m /\ k \in 0 .. n /\ k < m /\ k < n
      BY <1>0, <3>3, <3>4
    <3>6. ASSUME NEW i \in 1 .. k PROVE a[i] = b[i]
      <4>1. i \in 1 .. m /\ i <= n /\ ~(d <= i)
        BY <3>3, <3>4
      <4>2. QED
        BY <3>3, <4>1
    <3>7. a[k + 1] < b[k + 1] \/ b[k + 1] < a[k + 1]
      <4>1. a[d] \in Nat /\ b[d] \in Nat
        BY <1>0, <3>3
      <4>2. QED
        BY <3>3, <3>4, <4>1
    <3>8. QED
      BY <1>0, <3>5, <3>6, <3>7 DEF strcmpLess
  <2>2. CASE \A i \in 1 .. m : i <= n => a[i] = b[i]
    <3>1. m # n
      <4>1. SUFFICES ASSUME m = n PROVE a = b
        BY <1>3
      <4>2. \A i \in 1 .. m : a[i] = b[i]
        BY <1>0, <2>2, <4>1
      <4>3. QED
        BY <1>0, <4>1, <4>2, SeqEqual
    <3>2. CASE m < n
      <4>1. m \in 0 .. m /\ \A i \in 1 .. m : a[i] = b[i]
        BY <1>0, <2>2, <3>2
      <4>2. QED
        BY <1>0, <3>2, <4>1 DEF strcmpLess
    <3>3. CASE n < m
      <4>1. n \in 0 .. n /\ \A i \in 1 .. n : b[i] = a[i]
        BY <1>0, <2>2, <3>3
      <4>2. QED
        BY <1>0, <3>3, <4>1 DEF strcmpLess
    <3>4. QED
      BY <1>0, <3>1, <3>2, <3>3
  <2>3. QED
    BY <2>1, <2>2
<1>4. QED
  BY <1>1, <1>2, <1>3

LEMMA StringsAreSequences ==
  \A s \in Strings \union BufferStrings : s \in Seq(Nat) /\ s \in Seq(Nat \ {0})
<1>1. ValuesOf("char") \in SUBSET Nat
  <2>1. "char" \notin SignedTypes /\ "char" \in Machine
    BY DEF SignedTypes, Machine
  <2>2. QED
    BY <2>1, ValuesAreNumbers DEF ValuesOf
<1>2. ASSUME NEW s \in Strings \union BufferStrings PROVE s \in Seq(Nat) /\ s \in Seq(Nat \ {0})
  <2>1. s \in Seq(ValuesOf("char") \ {NUL})
    BY OperandsAssumption
  <2>2. PICK n \in Nat : n = Len(s) /\ DOMAIN s = 1 .. n /\ s \in [1 .. n -> ValuesOf("char") \ {NUL}]
    BY <2>1, LenProperties
  <2>3. s \in [1 .. n -> Nat \ {0}]
    BY <1>1, <2>2 DEF NUL
  <2>4. s \in Seq(Nat \ {0})
    BY <2>3
  <2>5. s \in [1 .. n -> Nat]
    BY <2>3
  <2>6. s \in Seq(Nat)
    BY <2>5
  <2>7. QED
    BY <2>4, <2>6
<1>3. QED
  BY <1>2

LEMMA FiniteAreIntegers == FiniteHalves \subseteq Int
BY OperandsAssumption DEF FiniteHalves

(* Of two doubles that are numbers exactly one relation holds. *)
LEMMA DoublesCompared ==
  ASSUME NEW x \in Doubles, NEW y \in Doubles
  PROVE  /\ x.nan \/ y.nan <=> NaN \in {x, y}
         /\ ~(doubleLess(x, y) /\ doubleLess(y, x))
         /\ NaN \in {x, y} => ~doubleLess(x, y) /\ ~doubleLess(y, x)
         /\ NaN \notin {x, y} => (~doubleLess(x, y) /\ ~doubleLess(y, x) <=> x = y)
         /\ \A h, k \in FiniteHalves :
              x = Finite(h) /\ y = Finite(k) => (doubleLess(x, y) <=> h < k)
<1>1. ASSUME NEW z \in Doubles
      PROVE  /\ z = [nan |-> z.nan, infinity |-> z.infinity, halves |-> z.halves]
             /\ z.nan \in BOOLEAN /\ z.infinity \in Int /\ z.halves \in Int
             /\ z.nan => z = NaN
  <2>1. CASE z \in {Infinity(-1), Infinity(1), NaN}
    <3>1. CASE z = NaN
      BY <3>1 DEF NaN
    <3>2. CASE z \in {Infinity(-1), Infinity(1)}
      <4>1. PICK s \in Int : z = Infinity(s)
        BY <3>2
      <4>2. QED
        BY <4>1 DEF Infinity
    <3>3. QED
      BY <2>1, <3>1, <3>2
  <2>2. CASE z \notin {Infinity(-1), Infinity(1), NaN}
    <3>1. PICK h \in FiniteHalves : z = Finite(h)
      BY <2>2 DEF Doubles
    <3>2. QED
      BY <3>1, FiniteAreIntegers DEF Finite
  <2>3. QED
    BY <2>1, <2>2
<1>2. /\ x = [nan |-> x.nan, infinity |-> x.infinity, halves |-> x.halves]
      /\ x.nan \in BOOLEAN /\ x.infinity \in Int /\ x.halves \in Int /\ (x.nan => x = NaN)
  BY <1>1
<1>3. /\ y = [nan |-> y.nan, infinity |-> y.infinity, halves |-> y.halves]
      /\ y.nan \in BOOLEAN /\ y.infinity \in Int /\ y.halves \in Int /\ (y.nan => y = NaN)
  BY <1>1
<1>4. NaN.nan
  BY DEF NaN
<1>5. x.nan \/ y.nan <=> NaN \in {x, y}
  BY <1>2, <1>3, <1>4
<1>6. ~(doubleLess(x, y) /\ doubleLess(y, x))
  BY <1>2, <1>3 DEF doubleLess
<1>7. NaN \in {x, y} => ~doubleLess(x, y) /\ ~doubleLess(y, x)
  BY <1>5 DEF doubleLess
<1>8. ASSUME NaN \notin {x, y} PROVE ~doubleLess(x, y) /\ ~doubleLess(y, x) <=> x = y
  <2>1. ~x.nan /\ ~y.nan
    BY <1>5, <1>8
  <2>2. ~doubleLess(x, y) /\ ~doubleLess(y, x)
          <=> x.infinity = y.infinity /\ x.halves = y.halves
    BY <1>2, <1>3, <2>1 DEF doubleLess
  <2>3. x.infinity = y.infinity /\ x.halves = y.halves => x = y
    BY <1>2, <1>3, <2>1
  <2>4. QED
    BY <2>2, <2>3
<1>9. ASSUME NEW h \in FiniteHalves, NEW k \in FiniteHalves, x = Finite(h), y = Finite(k)
      PROVE  doubleLess(x, y) <=> h < k
  <2>1. /\ ~x.nan /\ ~y.nan /\ x.infinity = 0 /\ y.infinity = 0
        /\ x.halves = h /\ y.halves = k
    BY <1>9 DEF Finite
  <2>2. QED
    BY <2>1 DEF doubleLess
<1>10. QED
  BY <1>5, <1>6, <1>7, <1>8, <1>9

(* Of two operands of a type exactly one relation holds, unless one is not *)
(* a number.                                                               *)
LEMMA FourOutcomes ==
  ASSUME NEW t \in ComparableTypes, NEW x \in Operands(t), NEW y \in Operands(t)
  PROVE  /\ Unordered(t, x, y) <=> t = "double" /\ NaN \in {x, y}
         /\ ~(Less(t, x, y) /\ Less(t, y, x))
         /\ Unordered(t, x, y) => ~Less(t, x, y) /\ ~Less(t, y, x)
         /\ ~Unordered(t, x, y) => (~Less(t, x, y) /\ ~Less(t, y, x) <=> x = y)
         /\ t \notin {"string", "double"} => (Less(t, x, y) <=> x < y)
         /\ t = "double" => \A h, k \in FiniteHalves :
              x = Finite(h) /\ y = Finite(k) => (Less(t, x, y) <=> h < k)
<1>1. CASE t = "string"
  <2>1. x \in Seq(Nat) /\ y \in Seq(Nat)
    BY <1>1, StringsAreSequences DEF Operands
  <2>2. Less(t, x, y) = strcmpLess(x, y) /\ Less(t, y, x) = strcmpLess(y, x)
    BY <1>1 DEF Less
  <2>3. ~Unordered(t, x, y)
    BY <1>1 DEF Unordered
  <2>4. QED
    BY <1>1, <2>1, <2>2, <2>3, FirstDifference
<1>2. CASE t = "double"
  <2>1. x \in Doubles /\ y \in Doubles
    BY <1>2 DEF Operands
  <2>2. /\ Less(t, x, y) = doubleLess(x, y) /\ Less(t, y, x) = doubleLess(y, x)
        /\ Unordered(t, x, y) <=> x.nan \/ y.nan
    BY <1>2 DEF Less, Unordered
  <2>3. QED
    BY <1>2, <2>1, <2>2, DoublesCompared
<1>3. CASE t \notin {"string", "double"}
  <2>1. x \in Int /\ y \in Int
    <3>1. CASE t = "Integer"
      <4>1. PICK w \in Nat \ {0} : w = WInteger
        BY WidthFacts
      <4>2. PICK h \in Nat \ {0} : 2^(w - 1) = h
        BY Halves
      <4>3. SmallIntegers \subseteq Int
        BY <4>1, <4>2, OperandsAssumption
      <4>4. QED
        BY <3>1, <4>3 DEF Operands
    <3>2. CASE t # "Integer"
      <4>1. t \in Machine
        BY <1>3, <3>2 DEF ComparableTypes, ArithmeticTypes, Machine
      <4>2. Operands(t) = ValuesOf(t)
        BY <1>3, <3>2 DEF Operands
      <4>3. QED
        BY <4>1, <4>2, ValuesAreNumbers
    <3>3. QED
      BY <3>1, <3>2
  <2>2. (Less(t, x, y) <=> x < y) /\ (Less(t, y, x) <=> y < x) /\ ~Unordered(t, x, y)
    BY <1>3 DEF Less, Unordered
  <2>3. QED
    BY <1>3, <2>1, <2>2
<1>4. QED
  BY <1>1, <1>2, <1>3

-----------------------------------------------------------------------------
(* IntegerLaws of a call c that returned r. *)
ComparisonCall(c, r) ==
  c.op = "compare" =>
    LET unordered == c.t = "double" /\ NaN \in {c.x, c.y}
    IN  /\ r.lt + r.eq + r.gt = IF unordered THEN 0 ELSE 1
        /\ r.lte = r.lt + r.eq /\ r.gte = r.gt + r.eq
        /\ r.eq = 1 <=> c.x = c.y /\ ~unordered
        /\ c.t \notin {"string", "double"} => (r.lt = 1 <=> c.x < c.y)
        /\ c.t = "double" => \A h, k \in FiniteHalves :
             c.x = Finite(h) /\ c.y = Finite(k) => (r.lt = 1 <=> h < k)

IntegerCall(c, r) ==
  c.op \in ArithmeticOps /\ c.t = "Integer" =>
    CASE c.op = "div" -> r * c.y + mod("Integer", c.x, c.y) = c.x
      [] c.op = "mod" -> r \in 0 .. Abs(c.y) - 1
      [] c.op = "shiftr" -> r = div("Integer", c.x, 2^c.y)
      [] c.op = "or"  -> r + and("Integer", c.x, c.y) = c.x + c.y
      [] c.op = "and" -> r + xor("Integer", c.x, c.y) = or("Integer", c.x, c.y)
      [] OTHER -> TRUE

LEMMA IntegerOperands ==
  /\ Operands("Integer") = SmallIntegers /\ SmallIntegers \subseteq Int
  /\ \A x \in SmallIntegers, y \in SmallIntegers :
       and("Integer", x, y) \in Int /\ xor("Integer", x, y) \in Int
<1>1. PICK w \in Nat \ {0} : w = WInteger
  BY WidthFacts
<1>2. PICK h \in Nat \ {0} : 2^(w - 1) = h
  BY Halves
<1>3. ASSUME NEW S PROVE FromBits("Integer", S) \in Int
  <2>1. FromBits("Integer", S) = Signed(w, BitSum(w, S))
    BY <1>1, WidthFacts DEF FromBits
  <2>2. BitSum(w, S) \in Int
    BY BitSumGrows
  <2>3. Signed(w, BitSum(w, S)) \in -(2^(w - 1)) .. 2^(w - 1) - 1
    BY <2>2, SignedFacts
  <2>4. QED
    BY <1>2, <2>1, <2>3
<1>4. SmallIntegers \subseteq Int
  BY <1>1, <1>2, OperandsAssumption
<1>5. QED
  BY <1>3, <1>4 DEF Operands, and, xor

LEMMA ComparisonKept ==
  ASSUME Comparison
  PROVE  ComparisonCall(call', result')
<1>1. PICK t, x, y :
        /\ t \in ComparableTypes /\ x \in Operands(t) /\ y \in Operands(t)
        /\ call' = [op |-> "compare", t |-> t, x |-> x, y |-> y]
        /\ result' = [lt |-> makeBool(lt(t, x, y)), lte |-> makeBool(lte(t, x, y)),
                      eq |-> makeBool(eq(t, x, y)), gte |-> makeBool(gte(t, x, y)),
                      gt |-> makeBool(gt(t, x, y))]
  BY DEF Comparison, Returns
<1>2. PICK less \in BOOLEAN, greater \in BOOLEAN, unordered \in BOOLEAN :
        /\ less <=> Less(t, x, y)
        /\ greater <=> Less(t, y, x)
        /\ unordered <=> Unordered(t, x, y)
  OBVIOUS
<1>3. /\ unordered <=> t = "double" /\ NaN \in {x, y}
      /\ ~(less /\ greater) /\ (unordered => ~less /\ ~greater)
      /\ ~unordered => (~less /\ ~greater <=> x = y)
      /\ t \notin {"string", "double"} => (less <=> x < y)
      /\ t = "double" => \A h, k \in FiniteHalves :
           x = Finite(h) /\ y = Finite(k) => (less <=> h < k)
  BY <1>1, <1>2, FourOutcomes
<1>4. /\ result'.lt = (IF less THEN 1 ELSE 0) /\ result'.gt = (IF greater THEN 1 ELSE 0)
      /\ result'.eq = (IF ~unordered /\ ~less /\ ~greater THEN 1 ELSE 0)
      /\ result'.lte = (IF ~unordered /\ ~greater THEN 1 ELSE 0)
      /\ result'.gte = (IF ~unordered /\ ~less THEN 1 ELSE 0)
  BY <1>1, <1>2 DEF makeBool, lt, gt, eq, lte, gte
<1>5. call'.op = "compare" /\ call'.t = t /\ call'.x = x /\ call'.y = y
  BY <1>1
<1>6. result'.lt = 1 <=> less
  BY <1>4
<1>7. CASE less
  BY <1>3, <1>4, <1>5, <1>6, <1>7 DEF ComparisonCall
<1>8. CASE ~less /\ greater
  BY <1>3, <1>4, <1>5, <1>6, <1>8 DEF ComparisonCall
<1>9. CASE ~less /\ ~greater /\ unordered
  BY <1>3, <1>4, <1>5, <1>6, <1>9 DEF ComparisonCall
<1>10. CASE ~less /\ ~greater /\ ~unordered
  BY <1>3, <1>4, <1>5, <1>6, <1>10 DEF ComparisonCall
<1>11. QED
  BY <1>7, <1>8, <1>9, <1>10

LEMMA ArithmeticLaws ==
  ASSUME ArithmeticStep
  PROVE  IntegerCall(call', result')
<1>1. CASE Arithmetic
  <2>1. PICK t, x, y : \E o \in {"add", "sub", "mul", "negate"} :
                         call' = [op |-> o, t |-> t, x |-> x, y |-> y]
    BY <1>1 DEF Arithmetic, Returns
  <2>2. call'.op \in {"add", "sub", "mul", "negate"}
    BY <2>1
  <2>3. QED
    BY <2>2 DEF IntegerCall
<1>2. CASE Division
  <2>1. PICK t, x, y :
          /\ x \in Operands(t) /\ y \in Operands(t) /\ y # 0
          /\ \/ Returns([op |-> "div", t |-> t, x |-> x, y |-> y], div(t, x, y))
             \/ Returns([op |-> "mod", t |-> t, x |-> x, y |-> y], mod(t, x, y))
    BY <1>2 DEF Division
  <2>2. t = "Integer" =>
          /\ (div("Integer", x, y) * y) + mod("Integer", x, y) = x
          /\ mod("Integer", x, y) \in 0 .. Abs(y) - 1
    BY <2>1, IntegerOperands, IntegerDivision
  <2>3. CASE Returns([op |-> "div", t |-> t, x |-> x, y |-> y], div(t, x, y))
    <3>1. /\ call'.op = "div" /\ call'.t = t /\ call'.x = x /\ call'.y = y
          /\ result' = div(t, x, y)
      BY <2>3 DEF Returns
    <3>2. QED
      BY <2>2, <3>1 DEF IntegerCall
  <2>4. CASE Returns([op |-> "mod", t |-> t, x |-> x, y |-> y], mod(t, x, y))
    <3>1. /\ call'.op = "mod" /\ call'.t = t /\ call'.x = x /\ call'.y = y
          /\ result' = mod(t, x, y)
      BY <2>4 DEF Returns
    <3>2. QED
      BY <2>2, <3>1 DEF IntegerCall
  <2>5. QED
    BY <2>1, <2>3, <2>4
<1>3. CASE Shift
  <2>1. PICK t, x, y :
          /\ x \in Operands(t) /\ y \in 0 .. Width[t] - 1
          /\ \/ Returns([op |-> "shiftl", t |-> t, x |-> x, y |-> y], shiftl(t, x, y))
             \/ Returns([op |-> "shiftr", t |-> t, x |-> x, y |-> y], shiftr(t, x, y))
    BY <1>3 DEF Shift
  <2>2. t = "Integer" => shiftr("Integer", x, y) = div("Integer", x, 2^y)
    <3>1. y \in Nat
      BY <2>1
    <3>2. QED
      BY <2>1, <3>1, IntegerOperands, IntegerShift
  <2>3. CASE Returns([op |-> "shiftl", t |-> t, x |-> x, y |-> y], shiftl(t, x, y))
    <3>1. call'.op = "shiftl"
      BY <2>3 DEF Returns
    <3>2. QED
      BY <3>1 DEF IntegerCall
  <2>4. CASE Returns([op |-> "shiftr", t |-> t, x |-> x, y |-> y], shiftr(t, x, y))
    <3>1. /\ call'.op = "shiftr" /\ call'.t = t /\ call'.x = x /\ call'.y = y
          /\ result' = shiftr(t, x, y)
      BY <2>4 DEF Returns
    <3>2. QED
      BY <2>2, <3>1 DEF IntegerCall
  <2>5. QED
    BY <2>1, <2>3, <2>4
<1>4. CASE Logic
  <2>1. PICK t, x, y :
          /\ x \in Operands(t) /\ y \in Operands(t)
          /\ \/ Returns([op |-> "and", t |-> t, x |-> x, y |-> y], and(t, x, y))
             \/ Returns([op |-> "or", t |-> t, x |-> x, y |-> y], or(t, x, y))
             \/ Returns([op |-> "xor", t |-> t, x |-> x, y |-> y], xor(t, x, y))
    BY <1>4 DEF Logic
  <2>2. t = "Integer" =>
          /\ or("Integer", x, y) + and("Integer", x, y) = x + y
          /\ and("Integer", x, y) + xor("Integer", x, y) = or("Integer", x, y)
    BY <2>1, IntegerOperands, IntegerLogic
  <2>3. CASE Returns([op |-> "and", t |-> t, x |-> x, y |-> y], and(t, x, y))
    <3>1. /\ call'.op = "and" /\ call'.t = t /\ call'.x = x /\ call'.y = y
          /\ result' = and(t, x, y)
      BY <2>3 DEF Returns
    <3>2. QED
      BY <2>2, <3>1 DEF IntegerCall
  <2>4. CASE Returns([op |-> "or", t |-> t, x |-> x, y |-> y], or(t, x, y))
    <3>1. /\ call'.op = "or" /\ call'.t = t /\ call'.x = x /\ call'.y = y
          /\ result' = or(t, x, y)
      BY <2>4 DEF Returns
    <3>2. QED
      BY <2>2, <3>1 DEF IntegerCall
  <2>5. CASE Returns([op |-> "xor", t |-> t, x |-> x, y |-> y], xor(t, x, y))
    <3>1. call'.op = "xor"
      BY <2>5 DEF Returns
    <3>2. QED
      BY <3>1 DEF IntegerCall
  <2>6. QED
    BY <2>1, <2>3, <2>4, <2>5
<1>5. QED
  BY <1>1, <1>2, <1>3, <1>4 DEF ArithmeticStep

(* The quotient and the modulus of Integer make the dividend up again, its *)
(* logic is tied to the sum, its shift to the quotient; and of two         *)
(* operands of any type exactly one of less, equal and greater holds,      *)
(* except that all five comparisons with a NaN are false.                  *)
THEOREM IntegerLawsHold == Spec => []IntegerLaws
<1>1. IntegerLaws <=> IntegerCall(call, result) /\ ComparisonCall(call, result)
  BY DEF IntegerLaws, ComparisonsAgree, IntegerCall, ComparisonCall, Called
<1>2. IntegerLaws' <=> IntegerCall(call', result') /\ ComparisonCall(call', result')
  BY DEF IntegerLaws, ComparisonsAgree, IntegerCall, ComparisonCall, Called
<1>3. Init => IntegerLaws
  BY <1>1 DEF Init, Idle, IntegerCall, ComparisonCall, ArithmeticOps
<1>4. IntegerLaws /\ [Next]_vars => IntegerLaws'
  <2>1. SUFFICES ASSUME IntegerLaws, [Next]_vars
                 PROVE  IntegerCall(call', result') /\ ComparisonCall(call', result')
    BY <1>2
  <2>2. CASE ArithmeticStep
    BY <2>2, ArithmeticLaws, ArithmeticOp, OpsDisjoint DEF ComparisonCall
  <2>3. CASE Comparison
    BY <2>3, ComparisonKept, StepOps, OpsDisjoint DEF IntegerCall
  <2>4. CASE Cast \/ StringStep
    BY <2>4, StepOps, OpsDisjoint DEF IntegerCall, ComparisonCall
  <2>5. CASE QuietStep
    <3>1. CASE call'.op = "idle"
      BY <3>1, OpsDisjoint DEF IntegerCall, ComparisonCall
    <3>2. CASE call' = call /\ result' = result
      BY <1>1, <2>1, <3>2
    <3>3. QED
      BY <2>5, <3>1, <3>2 DEF QuietStep
  <2>6. QED
    BY <2>1, <2>2, <2>3, <2>4, <2>5, StepKinds
<1>5. QED
  BY <1>3, <1>4, PTL DEF Spec

-----------------------------------------------------------------------------
(* Casts. *)

LEMMA CastsOfMachine ==
  ASSUME NEW t \in Machine, NEW x
  PROVE  /\ DOMAIN CastsOf(t, x) \subseteq Targets
         /\ \A u \in DOMAIN CastsOf(t, x) :
              CastsOf(t, x)[u] = {IF t = "Int64" /\ u = "Int64" THEN x ELSE FromC(u, x)}
         /\ CastsOf(t, x)["Integer"] = {x}
<1>1. "Integer" \in Targets /\ FromC("Integer", x) = x
  BY NotInteger DEF Targets, ArithmeticTypes, FromC, Machine
<1>2. CASE t = "Int8"
  BY <1>1, <1>2 DEF CastsOf, cast_Int8
<1>3. CASE t = "Int16"
  BY <1>1, <1>3 DEF CastsOf, cast_Int16
<1>4. CASE t = "Int32"
  BY <1>1, <1>4 DEF CastsOf, cast_Int32
<1>5. CASE t = "Int64"
  BY <1>1, <1>5 DEF CastsOf, cast_Int64
<1>6. CASE t = "Bits8"
  BY <1>1, <1>6 DEF CastsOf, cast_Bits8
<1>7. CASE t = "Bits16"
  BY <1>1, <1>7 DEF CastsOf, cast_Bits16
<1>8. CASE t = "Bits32"
  BY <1>1, <1>8 DEF CastsOf, cast_Bits32
<1>9. CASE t = "Bits64"
  BY <1>1, <1>9 DEF CastsOf, cast_Bits64
<1>10. CASE t = "char"
  BY <1>1, <1>10 DEF CastsOf, cast_char
<1>11. QED
  BY <1>2, <1>3, <1>4, <1>5, <1>6, <1>7, <1>8, <1>9, <1>10
  DEF Machine, FixedTypes, SignedTypes, UnsignedTypes

LEMMA CastsOfInteger ==
  ASSUME NEW n \in Int
  PROVE  /\ \A u \in Machine : u \in Targets /\ CastsOf("Integer", n)[u] = {Wrap(u, n)}
         /\ CastsOf("Integer", n)["double"] = {mpz_get_d(n)}
         /\ CastsOf("Integer", n)["string"] = {Numeral(n)}
         /\ DOMAIN CastsOf("Integer", n) = Targets \ {"Integer"}
<1>1. PICK f : f = cast_Integer(n)
  OBVIOUS
<1>2. CastsOf("Integer", n) = [u \in DOMAIN f |-> {f[u]}]
  BY <1>1 DEF CastsOf
<1>3. /\ DOMAIN f = Targets \ {"Integer"}
      /\ f["double"] = mpz_get_d(n) /\ f["string"] = Numeral(n)
      /\ {"double", "string"} \subseteq Targets \ {"Integer"}
  BY <1>1 DEF cast_Integer, FixedTypes, SignedTypes, UnsignedTypes, Targets
<1>4. ASSUME NEW u \in Machine
      PROVE  u \in Targets \ {"Integer"} /\ f[u] = Wrap(u, n)
  <2>1. u \in FixedTypes \union {"char"} /\ u \in Targets \ {"Integer"}
    BY NotInteger DEF Machine, Targets, ArithmeticTypes
  <2>2. f[u] = Wrap(u, mpz_get_lsb(n, Width[u]))
    <3>1. u # "double" /\ u # "string"
      BY DEF Machine, FixedTypes, SignedTypes, UnsignedTypes
    <3>2. QED
      BY <1>1, <2>1, <3>1 DEF cast_Integer
  <2>3. PICK p \in Nat \ {0} : p = 2^Width[u]
    BY WidthFacts, PowerPositive
  <2>4. PICK r \in Int : r = n % p /\ Congruent(r, n, p)
    BY RemainderCongruent
  <2>5. Wrap(u, r) = Wrap(u, n)
    BY <2>3, <2>4, WrapFacts
  <2>6. QED
    BY <2>1, <2>2, <2>3, <2>4, <2>5 DEF mpz_get_lsb
<1>5. QED
  BY <1>2, <1>3, <1>4

LEMMA PowerGrows ==
  ASSUME NEW a \in Nat, NEW b \in Nat, a <= b
  PROVE  2^a <= 2^b
<1>1. PICK p \in Nat \ {0} : p = 2^a
  BY PowerPositive
<1>2. PICK k \in Nat \ {0} : 2^b = p * k
  BY <1>1, PowerDivides
<1>3. p * k >= p
  OBVIOUS
<1>4. QED
  BY <1>1, <1>2, <1>3

(* The spacing of the doubles is defined where a fixed-width type has one. *)
LEMMA SpacingDefined ==
  ASSUME NEW h \in Int, Abs(h) < 2^(Mantissa + (WInteger + 1))
  PROVE  Spacing(h) \in Nat \ {0}
<1>1. PICK m \in Nat \ {0}, w \in Nat \ {0}, a \in Nat : m = Mantissa /\ w = WInteger /\ a = Abs(h)
  BY WidthFacts, WidthsAssumption, MantissaAssumption, AbsFacts
<1> DEFINE E == {e \in 0 .. w + 1 : a < 2^(m + e)}
<1>2. E \in SUBSET Nat /\ E # {}
  <2>1. w + 1 \in 0 .. w + 1 /\ a < 2^(m + (w + 1))
    BY <1>1
  <2>2. E \in SUBSET Nat
    OBVIOUS
  <2>3. w + 1 \in E
    BY <2>1
  <2>4. QED
    BY <2>2, <2>3
<1>3. \E e \in E : \A d \in E : e <= d
  <2> HIDE DEF E
  <2> QED  BY <1>2, LeastNumber
<1>4. PICK e \in 0 .. w + 1 : a < 2^(m + e) /\ \A d \in E : e <= d
  BY <1>3
<1>5. e = 0 \/ a >= 2^(m + e - 1)
  <2>1. SUFFICES ASSUME e # 0, ~(a >= 2^(m + e - 1)) PROVE FALSE
    OBVIOUS
  <2>2. PICK d \in 0 .. w + 1 : d = e - 1 /\ m + d = m + e - 1 /\ ~(e <= d)
    BY <2>1
  <2>3. PICK p \in Nat : p = 2^(m + d)
    BY PowerPositive
  <2>4. a < 2^(m + d)
    BY <2>1, <2>2, <2>3
  <2>5. QED
    BY <1>4, <2>2, <2>4
<1>6. PICK c \in 0 .. w + 1 : c = CHOOSE d \in 0 .. w + 1 :
                                    a < 2^(m + d) /\ (d = 0 \/ a >= 2^(m + d - 1))
  BY <1>4, <1>5
<1>7. Spacing(h) = 2^c
  BY <1>1, <1>6 DEF Spacing
<1>8. QED
  BY <1>7, PowerPositive

(* A number that is a double is neither rounded nor truncated. *)
LEMMA ExactDouble ==
  ASSUME NEW h \in Int, Spacing(h) \in Nat \ {0}, Nearest(h) = h
  PROVE  TowardsZero(h) = h
<1>1. PICK s \in Nat \ {0} : s = Spacing(h)
  OBVIOUS
<1>2. PICK q \in Int, r \in 0 .. s - 1 : q = h \div s /\ r = h % s /\ h = (s * q) + r
  BY DivMod
<1>3. PICK lo \in Int : lo = q * s /\ lo = s * q /\ h = lo + r
  <2>1. q * s = s * q
    OBVIOUS
  <2>2. QED
    BY <1>2, <2>1
<1>4. Nearest(h) = lo \/ Nearest(h) = lo + s
  BY <1>1, <1>2, <1>3 DEF Nearest
<1>5. r = 0
  BY <1>2, <1>3, <1>4
<1>6. s \in Int \ {0} /\ s = Abs(s) /\ s > 0 /\ h = s * q
  BY <1>3, <1>5, AbsFacts
<1>7. CQuotient(h, s) = q
  <2>1. Product(h, Abs(s), q)
    BY <1>6 DEF Product
  <2>2. QED
    BY <1>6, <2>1, ExactQuotient
<1>8. QED
  BY <1>1, <1>3, <1>5, <1>7 DEF TowardsZero

LEMMA ValuesHaveSpacing ==
  ASSUME NEW t \in Machine, NEW x \in ValuesOf(t)
  PROVE  x \in Int /\ Spacing(2 * x) \in Nat \ {0}
<1>1. PICK w \in Nat \ {0}, v \in Nat \ {0}, m \in Nat \ {0} :
        w = Width[t] /\ v = WInteger /\ w <= v /\ m = Mantissa
  BY WidthFacts, WidthsAssumption, MantissaAssumption
<1>2. PICK h \in Nat \ {0}, p \in Nat \ {0} : h = 2^(w - 1) /\ p = 2^w /\ p = h + h
  <2>1. PICK h \in Nat \ {0} : 2^(w - 1) = h /\ 2^w = h + h
    BY Halves
  <2>2. QED
    BY <2>1
<1>3. x \in Int /\ x <= p /\ -p <= x
  <2>1. ValuesOf(t) = IF t \in SignedTypes THEN -h .. h - 1 ELSE 0 .. p - 1
    BY <1>1, <1>2 DEF ValuesOf
  <2>2. CASE t \in SignedTypes
    BY <1>2, <2>1, <2>2
  <2>3. CASE t \notin SignedTypes
    BY <1>2, <2>1, <2>3
  <2>4. QED
    BY <2>2, <2>3
<1>4. PICK y \in Int, a \in Nat : y = 2 * x /\ a = Abs(y) /\ a <= p + p
  BY <1>3 DEF Abs
<1>5. PICK n \in Nat : n = w + 1 /\ n + 1 \in Nat /\ n + 1 <= m + (v + 1) /\ m + (v + 1) \in Nat
  BY <1>1
<1>6. 2^(w + 1) = p + p /\ 2^(n + 1) = 2^n + 2^n
  BY <1>2, TwoDoubles
<1>7. a < 2^(n + 1)
  BY <1>4, <1>5, <1>6
<1>8. 2^(n + 1) <= 2^(m + (v + 1))
  BY <1>5, PowerGrows
<1>9. PICK b \in Nat, c \in Nat : b = 2^(n + 1) /\ c = 2^(m + (v + 1))
  BY <1>5, PowerPositive
<1>10. a < c
  BY <1>7, <1>8, <1>9
<1>11. Abs(y) < 2^(Mantissa + (WInteger + 1))
  BY <1>1, <1>4, <1>9, <1>10
<1>12. Spacing(y) \in Nat \ {0}
  BY <1>11, SpacingDefined
<1>13. QED
  BY <1>3, <1>4, <1>12

(* CastsFactorThroughInteger and TextRoundTrip of a call c that returned r. *)
FactorCall(c, r) ==
  c.op = "cast" /\ {c.t, c.y} \subseteq Targets \ {"string", "Integer"} =>
    \/ c.t # "double" /\ c.y = "double" /\ Nearest(2 * c.x) # 2 * c.x
    \/ /\ c.t = "double" /\ c.y \in FixedTypes \union {"char"}
       /\ (CHOOSE n \in CastsOf(c.t, c.x)["Integer"] : TRUE) \notin ValuesOf(c.y)
    \/ r \in CastsOf("Integer", CHOOSE n \in CastsOf(c.t, c.x)["Integer"] : TRUE)[c.y]

TextCall(c, r) ==
  c.op = "cast" /\ c.y = "string" /\ c.t \in ArithmeticTypes =>
    LET back == CHOOSE n \in CastsOf("string", r)[c.t] : TRUE
    IN  IF Width[c.t] <= W32 \/ c.t = "Integer" THEN back = c.x
        ELSE c.x \in ValuesOf("Int64") => back = Wrap(c.t, Wrap("Int32", c.x))

LEMMA TheOnlyOne == \A a : (CHOOSE n \in {a} : TRUE) = a
OBVIOUS

LEMMA IntegerPartFacts ==
  /\ \A h \in Int : IntegerPart(h) \in Int
  /\ \A n \in Int : IntegerPart(2 * n) = n
<1>1. 2 \in Int \ {0} /\ Abs(2) = 2
  BY AbsFacts
<1>2. ASSUME NEW h \in Int PROVE IntegerPart(h) \in Int
  <2>1. \E b \in Nat \ {0} : \E q \in Nat, r \in 0 .. b - 1 :
           /\ b = Abs(2) /\ Abs(h) = (b * q) + r
           /\ CQuotient(h, 2) = IF (h < 0) = (2 < 0) THEN q ELSE -q
           /\ CRemainder(h, 2) = IF h < 0 THEN -r ELSE r
    BY <1>1, CParts
  <2>2. PICK q \in Nat : CQuotient(h, 2) = q \/ CQuotient(h, 2) = -q
    BY <2>1
  <2>3. QED
    BY <2>2 DEF IntegerPart
<1>3. ASSUME NEW n \in Int PROVE IntegerPart(2 * n) = n
  <2>1. PICK m \in Int : m = 2 * n
    OBVIOUS
  <2>2. Product(m, Abs(2), n)
    BY <1>1, <2>1 DEF Product
  <2>3. CQuotient(m, 2) = IF 2 > 0 THEN n ELSE -n
    BY <1>1, <2>2, ExactQuotient
  <2>4. QED
    BY <2>1, <2>3 DEF IntegerPart
<1>4. QED
  BY <1>2, <1>3

LEMMA MachineOperands ==
  ASSUME NEW t \in Machine
  PROVE  CastOperands(t) = ValuesOf(t) /\ t \notin {"Integer", "double", "string"}
BY NotInteger DEF Machine, FixedTypes, SignedTypes, UnsignedTypes, CastOperands, Operands

LEMMA MachineFactors ==
  ASSUME NEW t \in Machine, NEW x \in CastOperands(t), NEW u \in DOMAIN CastsOf(t, x),
         NEW r \in CastsOf(t, x)[u], u \in Machine \union {"double"}
  PROVE  \/ u = "double" /\ Nearest(2 * x) # 2 * x
         \/ r \in CastsOf("Integer", CHOOSE n \in CastsOf(t, x)["Integer"] : TRUE)[u]
<1>1. x \in ValuesOf(t) /\ x \in Int /\ Spacing(2 * x) \in Nat \ {0}
  BY MachineOperands, ValuesHaveSpacing
<1>2. (CHOOSE n \in CastsOf(t, x)["Integer"] : TRUE) = x
  BY CastsOfMachine, TheOnlyOne
<1>3. r = IF t = "Int64" /\ u = "Int64" THEN x ELSE FromC(u, x)
  BY CastsOfMachine
<1>4. CASE u \in Machine
  <2>1. FromC(u, x) = Wrap(u, x)
    BY <1>4, MachineOperands DEF FromC, Machine
  <2>2. t = u => Wrap(u, x) = x
    BY <1>1, WrapFacts
  <2>3. r = Wrap(u, x)
    BY <1>3, <2>1, <2>2
  <2>4. QED
    <3>1. CastsOf("Integer", x)[u] = {Wrap(u, x)}
      BY <1>1, <1>4, CastsOfInteger
    <3>2. QED
      BY <1>2, <2>3, <3>1
<1>5. CASE u = "double"
  <2>1. r = Nearest(2 * x)
    BY <1>3, <1>5, NotInteger DEF FromC, FixedTypes, SignedTypes, UnsignedTypes, DoubleOf
  <2>2. SUFFICES ASSUME Nearest(2 * x) = 2 * x PROVE r = mpz_get_d(x)
    BY <1>1, <1>2, <1>5, CastsOfInteger
  <2>3. PICK h \in Int : h = 2 * x
    BY <1>1
  <2>4. TowardsZero(h) = h
    BY <1>1, <2>2, <2>3, ExactDouble
  <2>5. QED
    BY <2>1, <2>2, <2>3, <2>4 DEF mpz_get_d
<1>6. QED
  BY <1>4, <1>5

LEMMA DoubleFactors ==
  ASSUME NEW x \in CastOperands("double"), NEW u \in DOMAIN CastsOf("double", x),
         NEW r \in CastsOf("double", x)[u], u \in Machine \union {"double"}
  PROVE  \/ /\ u \in FixedTypes \union {"char"}
            /\ (CHOOSE n \in CastsOf("double", x)["Integer"] : TRUE) \notin ValuesOf(u)
         \/ r \in CastsOf("Integer", CHOOSE n \in CastsOf("double", x)["Integer"] : TRUE)[u]
<1>1. x \in Int
  BY FiniteAreIntegers DEF CastOperands
<1>2. PICK n \in Int : n = IntegerPart(x)
  BY <1>1, IntegerPartFacts
<1>3. CastsOf("double", x) = cast_double(x)
  BY DEF CastsOf
<1>4. u # "double"
  BY <1>3 DEF cast_double
<1>5. "Integer" \in Targets \ {"double"} /\ u \in Targets \ {"double"} /\ u \in Machine
  BY <1>3, <1>4 DEF cast_double, Targets, ArithmeticTypes
<1>6. cast_double(x)["Integer"] = {n}
  BY <1>2, <1>5, NotInteger DEF cast_double, Machine
<1>7. (CHOOSE k \in CastsOf("double", x)["Integer"] : TRUE) = n
  BY <1>3, <1>6, TheOnlyOne
<1>8. SUFFICES ASSUME n \in ValuesOf(u) PROVE r \in CastsOf("Integer", n)[u]
  BY <1>5, <1>7 DEF Machine
<1>9. cast_double(x)[u] = {n}
  BY <1>2, <1>5, <1>8, MachineOperands DEF cast_double, Machine
<1>10. Wrap(u, n) = n
  BY <1>5, <1>8, WrapFacts
<1>11. QED
  BY <1>3, <1>5, <1>9, <1>10, CastsOfInteger

LEMMA CastFactors ==
  ASSUME NEW t, NEW x \in CastOperands(t), NEW u \in DOMAIN CastsOf(t, x),
         NEW r \in CastsOf(t, x)[u]
  PROVE  FactorCall([op |-> "cast", t |-> t, x |-> x, y |-> u], r)
<1>1. SUFFICES ASSUME {t, u} \subseteq Targets \ {"string", "Integer"}
      PROVE  \/ t # "double" /\ u = "double" /\ Nearest(2 * x) # 2 * x
             \/ /\ t = "double" /\ u \in FixedTypes \union {"char"}
                /\ (CHOOSE n \in CastsOf(t, x)["Integer"] : TRUE) \notin ValuesOf(u)
             \/ r \in CastsOf("Integer", CHOOSE n \in CastsOf(t, x)["Integer"] : TRUE)[u]
  BY DEF FactorCall
<1>2. t \in Machine \union {"double"} /\ u \in Machine \union {"double"}
  BY <1>1 DEF Targets, ArithmeticTypes, Machine
<1>3. CASE t = "double"
  BY <1>2, <1>3, DoubleFactors
<1>4. CASE t \in Machine
  BY <1>2, <1>4, MachineFactors, MachineOperands
<1>5. QED
  BY <1>2, <1>3, <1>4

-----------------------------------------------------------------------------
(* A number printed and read again. *)

LEMMA TextOfNumber ==
  ASSUME NEW n \in Int
  PROVE  /\ mpz_set_str(Numeral(n)) = n
         /\ n \in ValuesOf("Int64") => strtol(Numeral(n)) = n
<1>1. IntegerPart(Numeral(n).halves) = n /\ Numeral(n).form = "integer"
  BY IntegerPartFacts DEF Numeral
<1>2. ASSUME n \in ValuesOf("Int64") PROVE strtol(Numeral(n)) = n
  <2>1. "Int64" \in SignedTypes /\ "Int64" \in Machine /\ Width["Int64"] = W64
    BY DEF SignedTypes, Machine, FixedTypes, Width, ArithmeticTypes
  <2>2. PICK w \in Nat \ {0} : w = W64
    BY <2>1, WidthFacts
  <2>3. PICK h \in Nat \ {0} : 2^(w - 1) = h
    BY Halves
  <2>4. n \in -h .. h - 1 /\ Smallest("Int64") = -h /\ 2^(W64 - 1) = h
    BY <1>2, <2>1, <2>2, <2>3 DEF ValuesOf, Smallest
  <2>5. QED
    BY <1>1, <2>3, <2>4 DEF strtol
<1>3. QED
  BY <1>1, <1>2 DEF mpz_set_str

(* A type of at most as many bits as int takes all its bits from it. *)
LEMMA NarrowText ==
  ASSUME NEW t \in FixedTypes, Width[t] <= W32, NEW x \in ValuesOf(t)
  PROVE  x \in ValuesOf("Int64") /\ Wrap(t, Wrap("Int32", x)) = x
<1>1. t \in Machine /\ "Int64" \in Machine /\ "Int32" \in Machine
  BY DEF SignedTypes, Machine, FixedTypes
<1>2. Width["Int64"] = W64 /\ Width["Int32"] = W32 /\ "Int64" \in SignedTypes
  BY DEF Width, ArithmeticTypes, FixedTypes, SignedTypes
<1>3. PICK v \in Nat \ {0}, i \in Nat \ {0}, w \in Nat \ {0} :
        v = Width[t] /\ i = W32 /\ w = W64 /\ v <= i /\ i < w
  BY <1>1, <1>2, WidthFacts, WidthsAssumption
<1>4. x \in Int
  BY <1>1, ValuesAreNumbers
<1>5. x \in ValuesOf("Int64")
  <2>1. PICK h \in Nat \ {0}, p \in Nat \ {0} : h = 2^(v - 1) /\ p = 2^v /\ p = h + h
    <3>1. PICK h \in Nat \ {0} : 2^(v - 1) = h /\ 2^v = h + h
      BY Halves
    <3>2. QED
      BY <3>1
  <2>2. x \in -p .. p - 1
    <3>1. ValuesOf(t) = IF t \in SignedTypes THEN -h .. h - 1 ELSE 0 .. p - 1
      BY <1>3, <2>1 DEF ValuesOf
    <3>2. CASE t \in SignedTypes
      BY <2>1, <3>1, <3>2
    <3>3. CASE t \notin SignedTypes
      BY <2>1, <3>1, <3>3
    <3>4. QED
      BY <3>2, <3>3
  <2>3. PICK m \in Nat, q \in Nat \ {0} : m = w - 1 /\ v <= m /\ q = 2^m
    <3>1. PICK m \in Nat : m = w - 1 /\ v <= m
      BY <1>3
    <3>2. 2^m \in Nat \ {0}
      BY PowerPositive
    <3>3. QED
      BY <3>1, <3>2
  <2>4. p <= q
    BY <2>1, <2>3, PowerGrows
  <2>5. ValuesOf("Int64") = -q .. q - 1
    BY <1>2, <1>3, <2>3 DEF ValuesOf
  <2>6. QED
    BY <2>2, <2>4, <2>5
<1>6. Congruent(Wrap("Int32", x), x, 2^i) /\ Wrap("Int32", x) \in Int
  BY <1>1, <1>2, <1>3, <1>4, WrapFacts, ValuesAreNumbers
<1>7. PICK y \in Int : y = Wrap("Int32", x) /\ Congruent(y, x, 2^i)
  BY <1>6
<1>8. Congruent(y, x, 2^v)
  BY <1>3, <1>4, <1>7, CongruentLess
<1>9. Wrap(t, y) = Wrap(t, x)
  BY <1>1, <1>3, <1>4, <1>8, WrapFacts
<1>10. Wrap(t, x) = x
  BY <1>1, <1>4, WrapFacts
<1>11. QED
  BY <1>5, <1>7, <1>9, <1>10

LEMMA CastRoundTrip ==
  ASSUME NEW t, NEW x \in CastOperands(t), NEW u \in DOMAIN CastsOf(t, x),
         NEW r \in CastsOf(t, x)[u]
  PROVE  TextCall([op |-> "cast", t |-> t, x |-> x, y |-> u], r)
<1>1. SUFFICES ASSUME u = "string", t \in ArithmeticTypes
      PROVE  LET back == CHOOSE n \in CastsOf("string", r)[t] : TRUE
             IN  IF Width[t] <= W32 \/ t = "Integer" THEN back = x
                 ELSE x \in ValuesOf("Int64") => back = Wrap(t, Wrap("Int32", x))
  BY DEF TextCall
<1>2. PICK f : f = cast_string(r)
  OBVIOUS
<1>3. CastsOf("string", r) = [v \in DOMAIN f |-> {f[v]}]
  BY <1>2 DEF CastsOf
<1>4. DOMAIN f = Targets \ {"string", "char"}
  BY <1>2 DEF cast_string
<1>5. CASE t = "Integer"
  <2>1. x \in Int
    BY <1>5, OperandsAssumption DEF CastOperands
  <2>2. r = Numeral(x)
    BY <1>1, <1>5, <2>1, CastsOfInteger
  <2>3. t \in DOMAIN f
    BY <1>4, <1>5 DEF Targets, ArithmeticTypes
  <2>4. f[t] = mpz_set_str(r)
    BY <1>2, <1>5, <2>3, NotInteger DEF cast_string, Machine
  <2>5. f[t] = x
    BY <2>1, <2>2, <2>4, TextOfNumber
  <2>6. (CHOOSE n \in CastsOf("string", r)[t] : TRUE) = x
    BY <1>3, <2>3, <2>5, TheOnlyOne
  <2>7. QED
    BY <1>5, <2>6
<1>6. CASE t \in FixedTypes
  <2>1. t \in Machine /\ t \in DOMAIN f /\ t # "char" /\ t # "Integer"
    BY <1>4, <1>6, NotInteger DEF Machine, Targets, ArithmeticTypes, FixedTypes, SignedTypes,
       UnsignedTypes
  <2>2. x \in ValuesOf(t) /\ x \in Int
    BY <2>1, MachineOperands, ValuesAreNumbers
  <2>3. r = Numeral(x)
    <3>1. r = FromC("string", x)
      BY <1>1, <2>1, CastsOfMachine
    <3>2. QED
      BY <3>1 DEF FromC, FixedTypes, SignedTypes, UnsignedTypes
  <2>4. f[t] = Wrap(t, atoi(r))
    BY <1>2, <1>6, <2>1, MachineOperands DEF cast_string
  <2>5. x \in ValuesOf("Int64") => f[t] = Wrap(t, Wrap("Int32", x))
    BY <2>2, <2>3, <2>4, TextOfNumber DEF atoi
  <2>6. (CHOOSE n \in CastsOf("string", r)[t] : TRUE) = f[t]
    BY <1>3, <2>1, TheOnlyOne
  <2>7. CASE Width[t] <= W32
    <3>1. f[t] = x
      BY <1>6, <2>2, <2>5, <2>7, NarrowText
    <3>2. QED
      BY <2>6, <2>7, <3>1
  <2>8. CASE ~(Width[t] <= W32)
    BY <2>1, <2>5, <2>6, <2>8
  <2>9. QED
    BY <2>7, <2>8
<1>7. QED
  BY <1>1, <1>5, <1>6 DEF ArithmeticTypes

(* A call of a cast satisfies both properties of casts.                    *)
LEMMA CastStep ==
  ASSUME Cast
  PROVE  FactorCall(call', result') /\ TextCall(call', result')
<1>1. PICK t, x, u, r :
        /\ x \in CastOperands(t) /\ u \in DOMAIN CastsOf(t, x) /\ r \in CastsOf(t, x)[u]
        /\ call' = [op |-> "cast", t |-> t, x |-> x, y |-> u] /\ result' = r
  BY DEF Cast, Returns
<1>2. QED
  BY <1>1, CastFactors, CastRoundTrip

LEMMA OtherCalls ==
  ASSUME ArithmeticStep \/ Comparison \/ StringStep \/ call'.op = "idle"
  PROVE  FactorCall(call', result') /\ TextCall(call', result')
<1>1. call'.op # "cast"
  BY ArithmeticOp, StepOps, OpsDisjoint
<1>2. QED
  BY <1>1 DEF FactorCall, TextCall

(* A cast between number types is the cast to Integer followed by the cast *)
(* from Integer, whatever the widths and the precision of a double, but    *)
(* for a number too long for a double and a double out of range.           *)
THEOREM CastsFactor == Spec => []CastsFactorThroughInteger
<1>1. CastsFactorThroughInteger <=> FactorCall(call, result)
  BY DEF CastsFactorThroughInteger, FactorCall, Called
<1>2. CastsFactorThroughInteger' <=> FactorCall(call', result')
  BY DEF CastsFactorThroughInteger, FactorCall, Called
<1>3. Init => CastsFactorThroughInteger
  BY <1>1 DEF Init, Idle, FactorCall
<1>4. CastsFactorThroughInteger /\ [Next]_vars => CastsFactorThroughInteger'
  <2>1. SUFFICES ASSUME CastsFactorThroughInteger, [Next]_vars PROVE FactorCall(call', result')
    BY <1>2
  <2>2. CASE call' = call /\ result' = result
    BY <1>1, <2>1, <2>2
  <2>3. QED
    BY <2>1, <2>2, StepKinds, CastStep, OtherCalls DEF QuietStep
<1>5. QED
  BY <1>3, <1>4, PTL DEF Spec

(* A number cast to String and back is the number, for Integer and every   *)
(* type as narrow as int; of a wider one the bits of int come back.        *)
THEOREM TextComesBack == Spec => []TextRoundTrip
<1>1. TextRoundTrip <=> TextCall(call, result)
  BY DEF TextRoundTrip, TextCall, Called
<1>2. TextRoundTrip' <=> TextCall(call', result')
  BY DEF TextRoundTrip, TextCall, Called
<1>3. Init => TextRoundTrip
  BY <1>1 DEF Init, Idle, TextCall
<1>4. TextRoundTrip /\ [Next]_vars => TextRoundTrip'
  <2>1. SUFFICES ASSUME TextRoundTrip, [Next]_vars PROVE TextCall(call', result')
    BY <1>2
  <2>2. CASE call' = call /\ result' = result
    BY <1>1, <2>1, <2>2
  <2>3. QED
    BY <2>1, <2>2, StepKinds, CastStep, OtherCalls DEF QuietStep
<1>5. QED
  BY <1>3, <1>4, PTL DEF Spec

-----------------------------------------------------------------------------
(* Numbers in a buffer. *)

LEMMA IntBytesFacts == IntBytes \in Nat /\ W8 \in Nat \ {0} /\ W8 * IntBytes = W64
<1>1. W8 \in Nat \ {0} /\ W64 \in Nat /\ W64 % W8 = 0
  BY WidthsAssumption, BytesAssumption
<1>2. PICK q \in Int : q = W64 \div W8 /\ W64 = (W8 * q) + (W64 % W8)
  BY <1>1, DivMod
<1>3. W8 * q = W64
  BY <1>1, <1>2
<1>4. q >= 0
  <2>1. q <= -1 => W8 * q <= -1
    BY <1>1
  <2>2. QED
    BY <1>1, <1>2, <1>3, <2>1
<1>5. QED
  BY <1>1, <1>2, <1>3, <1>4 DEF IntBytes

(* The byte after the j bits of p = 2^j. *)
LEMMA NextDigit ==
  ASSUME NEW v \in Int, NEW p \in Nat \ {0}, NEW e \in Nat \ {0}
  PROVE  v % (p * e) = (v % p) + (((v \div p) % e) * p)
<1>1. PICK q \in Int, r \in 0 .. p - 1 : q = v \div p /\ r = v % p /\ v = (p * q) + r
  BY DivMod
<1>2. PICK k \in Int, d \in 0 .. e - 1 : d = q % e /\ q = (e * k) + d
  BY DivMod
<1>3. p * q = ((p * e) * k) + (d * p)
  <2>1. p * ((e * k) + d) = ((p * e) * k) + (d * p)
    OBVIOUS
  <2>2. QED
    BY <1>2, <2>1
<1>4. PICK m \in Nat \ {0} : m = p * e
  <2>1. p * e >= 1 /\ p * e \in Int
    OBVIOUS
  <2>2. QED
    BY <2>1
<1>5. PICK s \in Nat : s = (d * p) + r /\ s < m
  <2>1. PICK dp \in Nat : dp = d * p
    OBVIOUS
  <2>2. (d + 1) * p <= e * p
    OBVIOUS
  <2>3. (d + 1) * p = dp + p /\ e * p = m
    BY <1>4, <2>1
  <2>4. QED
    BY <2>1, <2>2, <2>3
<1>6. v = (m * k) + s
  BY <1>1, <1>3, <1>4, <1>5
<1>7. v % m = s
  BY <1>5, <1>6, DivModUnique
<1>8. QED
  BY <1>1, <1>2, <1>4, <1>5, <1>7

LEMMA NextByte ==
  ASSUME NEW v \in Int, NEW i \in Nat \ {0}
  PROVE  v % 2^(W8 * i) =
           (v % 2^(W8 * (i - 1))) + (((v \div 2^(W8 * (i - 1))) % 2^W8) * 2^(W8 * (i - 1)))
<1>1. PICK w \in Nat \ {0} : w = W8
  BY IntBytesFacts
<1>2. PICK j \in Nat : j = w * (i - 1) /\ j + w = w * i
  <2>1. w * (i - 1) = (w * i) - w /\ w * (i - 1) >= 0 /\ w * (i - 1) \in Int
    OBVIOUS
  <2>2. QED
    BY <2>1
<1>3. PICK p \in Nat \ {0} : p = 2^j
  BY PowerPositive
<1>4. PICK e \in Nat \ {0} : e = 2^w
  BY PowerPositive
<1>5. 2^(j + w) = p * e
  BY <1>3, <1>4, PowerSum
<1>6. v % (p * e) = (v % p) + (((v \div p) % e) * p)
  BY NextDigit
<1>7. QED
  BY <1>1, <1>2, <1>3, <1>4, <1>5, <1>6

(* n bytes of a number, low byte first, are the number modulo 2^(W8 * n). *)
LEMMA ByteSumOf ==
  ASSUME NEW b, NEW loc, NEW v \in Int, NEW n \in Nat,
         \A i \in 1 .. n : b[loc + i] = (v \div 2^(W8 * (i - 1))) % 2^W8
  PROVE  ByteSum(b, loc, n) = v % 2^(W8 * n)
<1> DEFINE Body(f) == [i \in 0 .. n |->
              IF i = 0 THEN 0 ELSE f[i - 1] + (b[loc + i] * 2^(W8 * (i - 1)))]
<1>1. PICK g : g = [i \in 0 .. n |-> v % 2^(W8 * i)]
  OBVIOUS
<1>2. g[0] = 0
  <2>1. PICK w \in Nat \ {0} : w = W8
    BY IntBytesFacts
  <2>2. w * 0 = 0
    OBVIOUS
  <2>3. g[0] = v % 2^(w * 0)
    BY <1>1, <2>1
  <2>4. g[0] = v % 2^0
    BY <2>2, <2>3
  <2>5. 2^0 = 1 /\ v % 1 = 0
    BY TwoPowers
  <2>6. QED
    BY <2>4, <2>5
<1>3. \A i \in 1 .. n : g[i] = g[i - 1] + (b[loc + i] * 2^(W8 * (i - 1)))
  <2>1. ASSUME NEW i \in 1 .. n
        PROVE  g[i] = g[i - 1] + (b[loc + i] * 2^(W8 * (i - 1)))
    <3>1. g[i] = v % 2^(W8 * i) /\ g[i - 1] = v % 2^(W8 * (i - 1))
      BY <1>1
    <3>2. i \in Nat \ {0}
      OBVIOUS
    <3>3. v % 2^(W8 * i) =
           (v % 2^(W8 * (i - 1))) + (((v \div 2^(W8 * (i - 1))) % 2^W8) * 2^(W8 * (i - 1)))
      BY <3>2, NextByte
    <3>4. b[loc + i] = (v \div 2^(W8 * (i - 1))) % 2^W8
      OBVIOUS
    <3>5. QED
      BY <3>1, <3>3, <3>4, Zenon
  <2>2. QED
    BY <2>1
<1>4. g = Body(g)
  <2>1. ASSUME NEW i \in 0 .. n
        PROVE  g[i] = IF i = 0 THEN 0 ELSE g[i - 1] + (b[loc + i] * 2^(W8 * (i - 1)))
    <3>1. CASE i = 0
      BY <1>2, <3>1
    <3>2. CASE i # 0
      <4>1. i \in 1 .. n
        BY <3>2
      <4>2. QED
        BY <1>3, <3>2, <4>1
    <3>3. QED
      BY <3>1, <3>2
  <2>2. QED
    BY <1>1, <2>1
<1>5. PICK f : f = Body(f) /\ ByteSum(b, loc, n) = f[n]
  <2>1. ByteSum(b, loc, n) = (CHOOSE f : f = Body(f))[n]
    BY DEF ByteSum
  <2>2. QED
    BY <1>4, <2>1
<1>6. \A i \in 0 .. n :
        f[i] = IF i = 0 THEN 0 ELSE f[i - 1] + (b[loc + i] * 2^(W8 * (i - 1)))
  BY <1>5
<1> DEFINE T == {i \in 0 .. n : f[i] = g[i]}
<1>7. \A i \in 0 .. n : i \in T
  <2>1. 0 \in T
    BY <1>2, <1>6
  <2>2. ASSUME NEW i \in 0 .. n - 1, i \in T PROVE i + 1 \in T
    <3>1. i + 1 \in 1 .. n /\ (i + 1) - 1 = i /\ i + 1 # 0 /\ i + 1 \in 0 .. n
      OBVIOUS
    <3>2. f[i] = g[i]
      BY <2>2
    <3>3. f[i + 1] = g[i + 1]
      BY <1>3, <1>6, <3>1, <3>2
    <3>4. QED
      BY <3>1, <3>3
  <2> HIDE DEF T
  <2>3. QED
    BY <2>1, <2>2, Induction
<1>8. QED
  BY <1>1, <1>5, <1>7

LEMMA LongBack ==
  ASSUME NEW v \in ValuesOf("Int64")
  PROVE  v \in Int /\ Signed(W64, v % 2^W64) = v
<1>1. "Int64" \in SignedTypes /\ Width["Int64"] = W64
  BY DEF SignedTypes, Width, FixedTypes, ArithmeticTypes
<1>2. PICK w \in Nat \ {0} : w = W64
  BY WidthsAssumption
<1>3. PICK m \in Nat \ {0} : m = 2^w
  BY PowerPositive
<1>4. ValuesOf("Int64") = -(2^(w - 1)) .. 2^(w - 1) - 1
  BY <1>1, <1>2 DEF ValuesOf
<1>5. v \in Int
  BY <1>4
<1>6. PICK r \in Int : r = v % m /\ Congruent(r, v, m)
  BY <1>5, RemainderCongruent
<1>7. Signed(w, r) = Signed(w, v)
  BY <1>3, <1>5, <1>6, SignedFacts
<1>8. Signed(w, v) = v
  BY <1>4, <1>5, SignedFacts
<1>9. QED
  BY <1>2, <1>3, <1>5, <1>6, <1>7, <1>8

-----------------------------------------------------------------------------
(* What a buffer holds. *)

(* The bytes that a value takes. *)
Image(kind, v) ==
  IF kind = "int" THEN [i \in 1 .. IntBytes |-> (v \div 2^(W8 * (i - 1))) % 2^W8]
  ELSE IF kind = "byte" THEN <<Unsigned(W8, v)>> ELSE v

Written(kind, v) ==
  \/ kind = "int" /\ v \in BufferInts
  \/ kind = "byte" /\ v \in BufferBytes
  \/ kind = "string" /\ v \in BufferStrings

(* w is in the buffer b. *)
Holds(b, w) ==
  /\ w = Item(w.loc, w.len, w.kind, w.v)
  /\ w.loc \in Nat /\ w.len \in Nat /\ w.loc + w.len <= Len(b)
  /\ Written(w.kind, w.v) /\ w.len = Len(Image(w.kind, w.v))
  /\ \A i \in 1 .. w.len : b[w.loc + i] = Image(w.kind, w.v)[i]

(* Every item that is intact is in the buffer, which keeps its size. *)
BufferInv ==
  /\ buffer \in Seq(Nat) /\ Len(buffer) = BufferSize
  /\ \A w \in intact : Holds(buffer, w)

LEMMA ConstructedSeq ==
  ASSUME NEW n \in Nat, NEW S, NEW f, DOMAIN f = 1 .. n, \A i \in 1 .. n : f[i] \in S,
         f = [i \in 1 .. n |-> f[i]]
  PROVE  f \in Seq(S) /\ Len(f) = n
<1>1. f \in [1 .. n -> S]
  OBVIOUS
<1>2. f \in Seq(S)
  BY <1>1
<1>3. Len(f) = n
  BY <1>2, LenProperties
<1>4. QED
  BY <1>2, <1>3

LEMMA ImageFacts ==
  ASSUME NEW kind, NEW v, Written(kind, v)
  PROVE  Image(kind, v) \in Seq(Nat)
<1>1. CASE kind = "int"
  <2>1. v \in Int
    <3>1. v \in ValuesOf("Int64")
      BY <1>1, OperandsAssumption DEF Written
    <3>2. QED
      BY <3>1, LongBack
  <2>2. PICK f : f = [i \in 1 .. IntBytes |-> (v \div 2^(W8 * (i - 1))) % 2^W8]
    OBVIOUS
  <2>3. ASSUME NEW i \in 1 .. IntBytes PROVE f[i] \in Nat
    <3>1. PICK w \in Nat \ {0}, j \in Nat : w = W8 /\ j = w * (i - 1)
      <4>1. PICK w \in Nat \ {0} : w = W8
        BY IntBytesFacts
      <4>2. w * (i - 1) \in Int /\ w * (i - 1) >= 0
        BY IntBytesFacts
      <4>3. QED
        BY <4>1, <4>2
    <3>2. PICK p \in Nat \ {0} : p = 2^j
      BY PowerPositive
    <3>3. PICK e \in Nat \ {0} : e = 2^w
      BY PowerPositive
    <3>4. PICK q \in Int : q = v \div p
      BY <2>1, DivMod
    <3>5. q % e \in 0 .. e - 1
      BY DivMod
    <3>6. f[i] = q % e
      BY <2>2, <3>1, <3>2, <3>3, <3>4
    <3>7. QED
      BY <3>5, <3>6
  <2>4. f \in Seq(Nat)
    BY <2>2, <2>3, IntBytesFacts, ConstructedSeq
  <2>5. QED
    BY <1>1, <2>2, <2>4 DEF Image
<1>2. CASE kind = "byte"
  <2>1. v \in Int
    BY <1>2, OperandsAssumption DEF Written
  <2>2. Unsigned(W8, v) \in Nat
    <3>1. PICK w \in Nat \ {0} : w = W8
      BY IntBytesFacts
    <3>2. PICK e \in Nat \ {0} : e = 2^w
      BY PowerPositive
    <3>3. v % e \in 0 .. e - 1
      BY <2>1, DivMod
    <3>4. QED
      BY <3>1, <3>2, <3>3 DEF Unsigned
  <2>3. QED
    BY <1>2, <2>2 DEF Image
<1>3. CASE kind = "string"
  BY <1>3, StringsAreSequences DEF Written, Image
<1>4. QED
  BY <1>1, <1>2, <1>3 DEF Written

LEMMA WriteFacts ==
  ASSUME NEW b \in Seq(Nat), NEW s \in Seq(Nat), NEW loc \in Int, Write(b, loc, s) # Abort
  PROVE  /\ loc \in Nat /\ loc + Len(s) <= Len(b)
         /\ Write(b, loc, s) \in Seq(Nat) /\ Len(Write(b, loc, s)) = Len(b)
         /\ \A i \in 1 .. Len(b) :
              Write(b, loc, s)[i] = IF i - loc \in 1 .. Len(s) THEN s[i - loc] ELSE b[i]
<1>1. PICK n \in Nat, m \in Nat : n = Len(b) /\ m = Len(s)
  BY LenProperties
<1>2. DOMAIN s = 1 .. m
  BY <1>1, LenProperties
<1>3. loc \in Nat /\ loc + m <= n
  BY <1>1 DEF Write, ValidRange
<1>4. PICK f : f = [i \in 1 .. n |-> IF i - loc \in 1 .. m THEN s[i - loc] ELSE b[i]]
  OBVIOUS
<1>5. Write(b, loc, s) = f
  BY <1>1, <1>2, <1>3, <1>4 DEF Write, ValidRange
<1>6. \A i \in 1 .. n : f[i] \in Nat
  <2>1. ASSUME NEW i \in 1 .. n PROVE f[i] \in Nat
    <3>1. b[i] \in Nat
      BY <1>1, ElementOfSeq
    <3>2. CASE i - loc \in 1 .. m
      <4>1. s[i - loc] \in Nat
        BY <1>1, <3>2, ElementOfSeq
      <4>2. QED
        BY <1>4, <3>2, <4>1
    <3>3. QED
      BY <1>4, <3>1, <3>2
  <2>2. QED
    BY <2>1
<1>7. f \in Seq(Nat) /\ Len(f) = n
  <2>1. DOMAIN f = 1 .. n /\ f = [i \in 1 .. n |-> f[i]]
    BY <1>4
  <2>2. QED
    BY <1>6, <2>1, ConstructedSeq
<1>8. QED
  BY <1>1, <1>3, <1>4, <1>5, <1>7

(* A write leaves what is elsewhere. *)
LEMMA WriteElsewhere ==
  ASSUME NEW b \in Seq(Nat), NEW s \in Seq(Nat), NEW loc \in Int, Write(b, loc, s) # Abort,
         NEW w, Holds(b, w), w.loc + w.len <= loc \/ loc + Len(s) <= w.loc
  PROVE  Holds(Write(b, loc, s), w)
<1>1. PICK c : c = Write(b, loc, s)
  OBVIOUS
<1>2. PICK n \in Nat, m \in Nat, l \in Nat, k \in Nat :
        n = Len(b) /\ m = Len(s) /\ l = w.loc /\ k = w.len
  BY LenProperties DEF Holds
<1>3. /\ Len(c) = n
      /\ \A i \in 1 .. n : c[i] = IF i - loc \in 1 .. m THEN s[i - loc] ELSE b[i]
  <2>1. /\ Len(c) = Len(b)
        /\ \A i \in 1 .. Len(b) : c[i] = IF i - loc \in 1 .. Len(s) THEN s[i - loc] ELSE b[i]
    BY <1>1, WriteFacts
  <2>2. QED
    BY <1>2, <2>1
<1>4. l + k <= n /\ (l + k <= loc \/ loc + m <= l)
  BY <1>2 DEF Holds
<1>5. ASSUME NEW i \in 1 .. k PROVE c[l + i] = b[l + i]
  <2>1. l + i \in 1 .. n /\ (l + i) - loc \notin 1 .. m
    BY <1>4
  <2>2. QED
    BY <1>3, <2>1
<1>6. QED
  BY <1>1, <1>2, <1>3, <1>4, <1>5 DEF Holds

(* An item is in the bytes written for it. *)
LEMMA WriteHolds ==
  ASSUME NEW b \in Seq(Nat), NEW loc \in Int, NEW kind, NEW v, Written(kind, v),
         Write(b, loc, Image(kind, v)) # Abort, NEW len, len = Len(Image(kind, v))
  PROVE  Holds(Write(b, loc, Image(kind, v)), Item(loc, len, kind, v))
<1>1. PICK s \in Seq(Nat) : s = Image(kind, v)
  BY ImageFacts
<1>2. PICK c : c = Write(b, loc, s)
  OBVIOUS
<1>3. PICK n \in Nat : n = Len(b)
  BY LenProperties
<1>4. len \in Nat /\ len = Len(s)
  BY <1>1, LenProperties
<1>5. /\ loc \in Nat /\ loc + len <= n /\ Len(c) = n
      /\ \A i \in 1 .. n : c[i] = IF i - loc \in 1 .. len THEN s[i - loc] ELSE b[i]
  <2>1. Write(b, loc, s) # Abort
    BY <1>1
  <2>2. /\ loc \in Nat /\ loc + Len(s) <= Len(b) /\ Len(c) = Len(b)
        /\ \A i \in 1 .. Len(b) : c[i] = IF i - loc \in 1 .. Len(s) THEN s[i - loc] ELSE b[i]
    BY <1>2, <2>1, WriteFacts
  <2>3. QED
    BY <1>3, <1>4, <2>2
<1>6. ASSUME NEW i \in 1 .. len PROVE c[loc + i] = s[i]
  <2>1. loc + i \in 1 .. n /\ (loc + i) - loc = i
    BY <1>4, <1>5
  <2>2. QED
    BY <1>5, <2>1
<1>7. PICK w : w = Item(loc, len, kind, v)
  OBVIOUS
<1>8. w.loc = loc /\ w.len = len /\ w.kind = kind /\ w.v = v
  BY <1>7 DEF Item
<1>9. QED
  BY <1>1, <1>2, <1>3, <1>4, <1>5, <1>6, <1>7, <1>8 DEF Holds

(* A write of one item, and what stays of the others. *)
LEMMA SetKeeps ==
  ASSUME BufferInv, NEW loc \in Int, NEW kind, NEW v, Written(kind, v), NEW len,
         len = Len(Image(kind, v)),
         Set(Write(buffer, loc, Image(kind, v)), Item(loc, len, kind, v))
  PROVE  BufferInv'
<1>1. Image(kind, v) \in Seq(Nat) /\ buffer \in Seq(Nat)
  BY ImageFacts DEF BufferInv
<1>2. /\ Write(buffer, loc, Image(kind, v)) # Abort
      /\ buffer' = Write(buffer, loc, Image(kind, v))
      /\ intact' = Untouched(loc, len) \union {Item(loc, len, kind, v)}
  BY DEF Set, Item
<1>3. buffer' \in Seq(Nat) /\ Len(buffer') = BufferSize
  BY <1>1, <1>2, WriteFacts DEF BufferInv
<1>4. ASSUME NEW w \in Untouched(loc, len) PROVE Holds(buffer', w)
  <2>1. Holds(buffer, w) /\ (w.loc + w.len <= loc \/ loc + Len(Image(kind, v)) <= w.loc)
    BY DEF Untouched, BufferInv
  <2>2. QED
    BY <1>1, <1>2, <2>1, WriteElsewhere
<1>5. Holds(buffer', Item(loc, len, kind, v))
  BY <1>1, <1>2, WriteHolds
<1>6. QED
  BY <1>2, <1>3, <1>4, <1>5 DEF BufferInv

(* A copy takes the items of its bytes along. *)
LEMMA CopyHolds ==
  ASSUME NEW b \in Seq(Nat), NEW from \in Nat, NEW to \in Nat, NEW n \in Nat,
         from + n <= Len(b), NEW s \in Seq(Nat), Len(s) = n,
         \A i \in 1 .. n : s[i] = b[from + i],
         Write(b, to, s) # Abort,
         NEW w, Holds(b, w), w.loc >= from, w.loc + w.len <= from + n
  PROVE  Holds(Write(b, to, s), [w EXCEPT !.loc = @ - from + to])
<1>1. PICK c : c = Write(b, to, s)
  OBVIOUS
<1>2. PICK l \in Nat, k \in Nat, m \in Nat : l = w.loc /\ k = w.len /\ m = Len(b)
  BY LenProperties DEF Holds
<1>3. /\ to + n <= m /\ Len(c) = m
      /\ \A i \in 1 .. m : c[i] = IF i - to \in 1 .. n THEN s[i - to] ELSE b[i]
  <2>1. to \in Int
    OBVIOUS
  <2>2. /\ to + Len(s) <= Len(b) /\ Len(c) = Len(b)
        /\ \A i \in 1 .. Len(b) : c[i] = IF i - to \in 1 .. Len(s) THEN s[i - to] ELSE b[i]
    <3>1. /\ to + Len(s) <= Len(b) /\ Len(Write(b, to, s)) = Len(b)
          /\ \A i \in 1 .. Len(b) :
               Write(b, to, s)[i] = IF i - to \in 1 .. Len(s) THEN s[i - to] ELSE b[i]
      BY <2>1, WriteFacts, Zenon
    <3>2. QED
      BY <1>1, <3>1, Zenon
  <2>3. QED
    BY <1>2, <2>2
<1>d. l >= from /\ l + k <= from + n
  BY <1>2
<1>4. PICK j \in Nat : j = l - from + to /\ j + k <= to + n /\ to <= j
  BY <1>d
<1>5. ASSUME NEW i \in 1 .. k PROVE c[j + i] = b[l + i]
  <2>1. PICK d \in 1 .. n : d = (j + i) - to /\ from + d = l + i
    BY <1>d, <1>4
  <2>2. j + i \in 1 .. m /\ (j + i) - to = d
    BY <1>3, <1>4, <2>1
  <2>3. c[j + i] = s[d]
    BY <1>3, <2>2
  <2>4. QED
    BY <2>1, <2>3
<1>6. w = [loc |-> l, len |-> k, kind |-> w.kind, v |-> w.v]
  BY <1>2 DEF Holds, Item
<1>7. PICK x : x = [w EXCEPT !.loc = @ - from + to]
  OBVIOUS
<1>8. x = [loc |-> j, len |-> k, kind |-> w.kind, v |-> w.v]
  BY <1>2, <1>4, <1>6, <1>7
<1>9. /\ x.loc = j /\ x.len = k /\ x.kind = w.kind /\ x.v = w.v
      /\ x = Item(x.loc, x.len, x.kind, x.v)
  BY <1>8 DEF Item
<1>10. /\ Written(w.kind, w.v) /\ k = Len(Image(w.kind, w.v))
       /\ \A i \in 1 .. k : b[l + i] = Image(w.kind, w.v)[i]
  BY <1>2 DEF Holds
<1>11. j + k <= m
  BY <1>3, <1>4
<1>12. Holds(c, x)
  BY <1>3, <1>5, <1>9, <1>10, <1>11 DEF Holds
<1>13. QED
  BY <1>1, <1>7, <1>12

LEMMA CopyKeeps ==
  ASSUME BufferInv, Copy
  PROVE  BufferInv'
<1>1. PICK from \in Nat, to \in Nat, n \in Nat :
        /\ copyBuffer(buffer, from, n, buffer, to) # Abort
        /\ buffer' = copyBuffer(buffer, from, n, buffer, to)
        /\ intact' = Untouched(to, n)
             \union {[w EXCEPT !.loc = @ - from + to] :
                       w \in {v \in intact : v.loc >= from /\ v.loc + v.len <= from + n}}
  <2>1. PICK from, to, n :
          /\ from \in 0 .. BufferSize /\ to \in 0 .. BufferSize /\ n \in {1, IntBytes}
          /\ copyBuffer(buffer, from, n, buffer, to) # Abort
          /\ buffer' = copyBuffer(buffer, from, n, buffer, to)
          /\ intact' = Untouched(to, n)
               \union {[w EXCEPT !.loc = @ - from + to] :
                         w \in {v \in intact : v.loc >= from /\ v.loc + v.len <= from + n}}
    BY DEF Copy
  <2>2. from \in Nat /\ to \in Nat /\ n \in Nat
    BY <2>1, OperandsAssumption, IntBytesFacts
  <2>3. QED
    BY <2>1, <2>2
<1>2. buffer \in Seq(Nat)
  BY DEF BufferInv
<1>3. PICK m \in Nat : m = Len(buffer)
  BY <1>2, LenProperties
<1>4. from + n <= m
  BY <1>1, <1>3 DEF copyBuffer, ValidRange
<1>5. PICK s : s = Bytes(buffer, from, n)
  OBVIOUS
<1>6. s = [i \in 1 .. n |-> buffer[from + i]]
  <2>1. (from + n) - (from + 1) + 1 = n /\ \A i \in 1 .. n : (from + 1) + i - 1 = from + i
    OBVIOUS
  <2>2. s = [i \in 1 .. (from + n) - (from + 1) + 1 |-> buffer[(from + 1) + i - 1]]
    BY <1>5 DEF Bytes
  <2>3. QED
    BY <2>1, <2>2
<1>7. \A i \in 1 .. n : s[i] = buffer[from + i] /\ s[i] \in Nat
  <2>1. ASSUME NEW i \in 1 .. n PROVE s[i] = buffer[from + i] /\ s[i] \in Nat
    <3>1. from + i \in 1 .. m
      BY <1>4
    <3>2. buffer[from + i] \in Nat
      BY <1>2, <1>3, <3>1, ElementOfSeq
    <3>3. QED
      BY <1>6, <3>2
  <2>2. QED
    BY <2>1
<1>8. s \in Seq(Nat) /\ Len(s) = n
  BY <1>6, <1>7, ConstructedSeq
<1>9. Write(buffer, to, s) # Abort /\ buffer' = Write(buffer, to, s)
  BY <1>1, <1>5, <1>3, <1>4 DEF copyBuffer, ValidRange
<1>10. buffer' \in Seq(Nat) /\ Len(buffer') = BufferSize
  BY <1>2, <1>8, <1>9, WriteFacts DEF BufferInv
<1>11. ASSUME NEW w \in Untouched(to, n) PROVE Holds(buffer', w)
  <2>1. Holds(buffer, w) /\ (w.loc + w.len <= to \/ to + Len(s) <= w.loc)
    BY <1>8 DEF Untouched, BufferInv
  <2>2. to \in Int
    OBVIOUS
  <2>3. Holds(Write(buffer, to, s), w)
    BY <1>2, <1>8, <1>9, <2>1, <2>2, WriteElsewhere
  <2>4. QED
    BY <1>9, <2>3
<1>12. ASSUME NEW w \in intact, w.loc >= from, w.loc + w.len <= from + n
       PROVE  Holds(buffer', [w EXCEPT !.loc = @ - from + to])
  <2>1. Holds(buffer, w)
    BY DEF BufferInv
  <2>2. from + n <= Len(buffer)
    BY <1>3, <1>4
  <2>3. QED
    BY <1>2, <1>7, <1>8, <1>9, <1>12, <2>1, <2>2, CopyHolds
<1>13. QED
  BY <1>1, <1>10, <1>11, <1>12 DEF BufferInv

LEMMA BufferStep == BufferInv /\ [Next]_vars => BufferInv'
<1> SUFFICES ASSUME BufferInv, [Next]_vars PROVE BufferInv'
  OBVIOUS
<1>1. CASE UNCHANGED <<buffer, intact>>
  BY <1>1 DEF BufferInv
<1>2. ASSUME SetInt PROVE BufferInv'
  <2>1. PICK loc, n :
          /\ loc \in 0 .. BufferSize /\ n \in BufferInts
          /\ Set(setBufferInt(buffer, loc, n), Item(loc, IntBytes, "int", n))
    BY <1>2 DEF SetInt
  <2>2. /\ setBufferInt(buffer, loc, n) = Write(buffer, loc, Image("int", n))
        /\ Written("int", n) /\ loc \in Int
    BY <2>1, OperandsAssumption DEF setBufferInt, Image, Written
  <2>3. IntBytes = Len(Image("int", n))
    <3>1. Image("int", n) = [i \in 1 .. IntBytes |-> (n \div 2^(W8 * (i - 1))) % 2^W8]
      BY DEF Image
    <3>2. Image("int", n) \in Seq(Nat) /\ DOMAIN Image("int", n) = 1 .. IntBytes
      BY <2>2, <3>1, ImageFacts
    <3>3. QED
      BY <3>2, IntBytesFacts, LenProperties
  <2>4. QED
    BY <2>1, <2>2, <2>3, SetKeeps
<1>3. ASSUME SetByte PROVE BufferInv'
  <2>1. PICK loc, n :
          /\ loc \in 0 .. BufferSize /\ n \in BufferBytes
          /\ Set(setBufferByte(buffer, loc, n), Item(loc, 1, "byte", n))
    BY <1>3 DEF SetByte
  <2>2. /\ setBufferByte(buffer, loc, n) = Write(buffer, loc, Image("byte", n))
        /\ Written("byte", n) /\ loc \in Int /\ 1 = Len(Image("byte", n))
    BY <2>1, OperandsAssumption DEF setBufferByte, Image, Written
  <2>3. QED
    BY <2>1, <2>2, SetKeeps
<1>4. ASSUME SetString PROVE BufferInv'
  <2>1. PICK loc, s :
          /\ loc \in 0 .. BufferSize /\ s \in BufferStrings
          /\ Set(setBufferString(buffer, loc, s), Item(loc, Len(s), "string", s))
    BY <1>4 DEF SetString
  <2>2. /\ setBufferString(buffer, loc, s) = Write(buffer, loc, Image("string", s))
        /\ Written("string", s) /\ loc \in Int /\ Len(s) = Len(Image("string", s))
    BY <2>1, OperandsAssumption DEF setBufferString, Image, Written
  <2>3. QED
    BY <2>1, <2>2, SetKeeps
<1>5. QED
  BY <1>1, <1>2, <1>3, <1>4, CopyKeeps
     DEF Next, vars, Arithmetic, Division, Shift, Logic, Comparison, Cast, OneString, Substring,
         BuildString, Return, Returns

LEMMA BufferInit == Init => BufferInv
<1> SUFFICES ASSUME Init PROVE BufferInv
  OBVIOUS
<1>1. buffer = [i \in 1 .. BufferSize |-> 0] /\ intact = {}
  BY DEF Init, newBuffer
<1>2. buffer \in Seq(Nat) /\ Len(buffer) = BufferSize
  BY <1>1, OperandsAssumption, ConstructedSeq
<1>3. QED
  BY <1>1, <1>2 DEF BufferInv

LEMMA ReadsInt ==
  ASSUME NEW b \in Seq(Nat), NEW w, Holds(b, w), w.kind = "int"
  PROVE  getBufferInt(b, w.loc) = w.v
<1>1. PICK v : v = w.v /\ v \in ValuesOf("Int64")
  BY OperandsAssumption DEF Holds, Written
<1>2. v \in Int /\ Signed(W64, v % 2^W64) = v
  BY <1>1, LongBack
<1>3. PICK s : s = Image("int", v) /\ s = [i \in 1 .. IntBytes |-> (v \div 2^(W8 * (i - 1))) % 2^W8]
  BY DEF Image
<1>4. Len(s) = IntBytes
  <2>1. s \in Seq(Nat) /\ DOMAIN s = 1 .. IntBytes
    BY <1>1, <1>3, ImageFacts DEF Holds
  <2>2. QED
    BY <2>1, IntBytesFacts, LenProperties
<1>5. /\ w.loc \in Nat /\ w.loc + IntBytes <= Len(b)
      /\ \A i \in 1 .. IntBytes : b[w.loc + i] = (v \div 2^(W8 * (i - 1))) % 2^W8
  BY <1>1, <1>3, <1>4 DEF Holds
<1>6. ByteSum(b, w.loc, IntBytes) = v % 2^(W8 * IntBytes)
  <2>1. PICK l \in Nat, n \in Nat : l = w.loc /\ n = IntBytes
    BY <1>5, IntBytesFacts
  <2>2. \A i \in 1 .. n : b[l + i] = (v \div 2^(W8 * (i - 1))) % 2^W8
    BY <1>5, <2>1
  <2>3. ByteSum(b, l, n) = v % 2^(W8 * n)
    BY <1>2, <2>2, ByteSumOf
  <2>4. QED
    BY <2>1, <2>3
<1>7. ValidRange(b, w.loc, IntBytes)
  BY <1>5, IntBytesFacts DEF ValidRange
<1>8. QED
  BY <1>1, <1>2, <1>6, <1>7, IntBytesFacts DEF getBufferInt

LEMMA ReadsByte ==
  ASSUME NEW b \in Seq(Nat), NEW w, Holds(b, w), w.kind = "byte"
  PROVE  getBufferByte(b, w.loc) = Unsigned(W8, w.v)
<1>1. PICK s : s = Image(w.kind, w.v) /\ s = <<Unsigned(W8, w.v)>>
  BY DEF Image
<1>2. Len(s) = 1 /\ s[1] = Unsigned(W8, w.v)
  BY <1>1
<1>3. w.loc \in Nat /\ w.loc + 1 <= Len(b) /\ b[w.loc + 1] = s[1]
  BY <1>1, <1>2 DEF Holds
<1>4. QED
  BY <1>2, <1>3 DEF getBufferByte, ValidRange

LEMMA ReadsString ==
  ASSUME NEW b \in Seq(Nat), NEW w, Holds(b, w), w.kind = "string"
  PROVE  getBufferString(b, w.loc, w.len) = w.v
<1>1. PICK s \in Seq(Nat \ {0}) : s = w.v /\ s = Image(w.kind, w.v)
  BY StringsAreSequences DEF Holds, Written, Image
<1>2. PICK n \in Nat, l \in Nat : n = w.len /\ l = w.loc /\ n = Len(s) /\ l + n <= Len(b)
  BY <1>1, LenProperties DEF Holds
<1>3. \A i \in 1 .. n : b[l + i] = s[i] /\ s[i] # 0
  <2>1. \A i \in 1 .. n : b[l + i] = s[i]
    BY <1>1, <1>2 DEF Holds
  <2>2. \A i \in 1 .. n : s[i] \in Nat \ {0}
    BY <1>2, ElementOfSeq
  <2>3. QED
    BY <2>1, <2>2
<1>4. Bytes(b, l, n) = [i \in 1 .. n |-> b[l + i]]
  <2>1. (l + n) - (l + 1) + 1 = n /\ \A i \in 1 .. n : (l + 1) + i - 1 = l + i
    OBVIOUS
  <2>2. Bytes(b, l, n) = [i \in 1 .. (l + n) - (l + 1) + 1 |-> b[(l + 1) + i - 1]]
    BY DEF Bytes
  <2>3. QED
    BY <2>1, <2>2
<1>5. s = [i \in 1 .. n |-> s[i]]
  BY <1>2, LenProperties
<1>6. Bytes(b, l, n) = s
  BY <1>3, <1>4, <1>5
<1>7. CString(s) = s
  <2>1. {i \in DOMAIN s : s[i] = NUL} = {}
    BY <1>3, <1>5 DEF NUL
  <2>2. QED
    BY <2>1 DEF CString
<1>8. QED
  BY <1>1, <1>2, <1>6, <1>7 DEF getBufferString, ValidRange

(* Whatever is written to a buffer, as bytes, integers or strings, or      *)
(* copied within it, reads back from every place it is at until a write    *)
(* touches its bytes.                                                      *)
THEOREM WhatIsWrittenReadsBack == Spec => []BufferReadsBack
<1>1. BufferInv => BufferReadsBack
  <2>1. SUFFICES ASSUME BufferInv, NEW w \in intact
        PROVE  CASE w.kind = "int"    -> getBufferInt(buffer, w.loc) = w.v
                 [] w.kind = "byte"   -> getBufferByte(buffer, w.loc) = Unsigned(W8, w.v)
                 [] w.kind = "string" -> getBufferString(buffer, w.loc, w.len) = w.v
    BY DEF BufferReadsBack
  <2>2. buffer \in Seq(Nat) /\ Holds(buffer, w)
    BY <2>1 DEF BufferInv
  <2>3. CASE w.kind = "int"
    BY <2>2, <2>3, ReadsInt
  <2>4. CASE w.kind = "byte"
    BY <2>2, <2>4, ReadsByte
  <2>5. CASE w.kind = "string"
    BY <2>2, <2>5, ReadsString
  <2>6. QED
    BY <2>2, <2>3, <2>4, <2>5 DEF Holds, Written
<1>2. QED
  BY <1>1, BufferInit, BufferStep, PTL DEF Spec

-----------------------------------------------------------------------------
(* Strings. *)

LEMMA FirstNul ==
  ASSUME NEW n \in Nat, NEW a
  PROVE  \E k \in 0 .. n : (\A i \in 1 .. k : a[i] # NUL) /\ (k < n => a[k + 1] = NUL)
<1> DEFINE S == {i \in 1 .. n : a[i] = NUL}
<1>1. CASE S = {}
  <2>1. \A i \in 1 .. n : a[i] # NUL
    BY <1>1
  <2>2. QED
    BY <2>1
<1>2. CASE S # {}
  <2>1. S \in SUBSET Nat
    OBVIOUS
  <2>2. PICK x \in S : \A y \in S : x <= y
    <3> HIDE DEF S
    <3> QED  BY <1>2, <2>1, LeastNumber
  <2>3. PICK k \in 0 .. n : x = k + 1 /\ k < n
    BY <2>2
  <2>4. \A i \in 1 .. k : a[i] # NUL
    BY <2>2, <2>3
  <2>5. QED
    BY <2>2, <2>3, <2>4
<1>3. QED
  BY <1>1, <1>2

LEMMA CStringIs ==
  ASSUME NEW n \in Nat, NEW a, DOMAIN a = 1 .. n, NEW k \in 0 .. n,
         \A i \in 1 .. k : a[i] # NUL, k < n => a[k + 1] = NUL
  PROVE  /\ k = n => CString(a) = a
         /\ k < n => CString(a) = [i \in 1 .. k |-> a[i]]
<1>0. PICK S : S = {i \in DOMAIN a : a[i] = NUL} /\ S = {i \in 1 .. n : a[i] = NUL}
  OBVIOUS
<1>1. CString(a) = IF S = {} THEN a ELSE SubSeq(a, 1, Min(S) - 1)
  BY <1>0 DEF CString
<1>2. CASE k = n
  <2>1. S = {}
    BY <1>0, <1>2
  <2>2. QED
    BY <1>1, <1>2, <2>1
<1>3. CASE k < n
  <2>1. k + 1 \in S /\ \A j \in S : k + 1 <= j /\ j \in Int
    <3>1. ASSUME NEW j \in S PROVE k + 1 <= j /\ j \in Int
      <4>1. j \in 1 .. n /\ j \notin 1 .. k
        BY <1>0
      <4>2. QED
        BY <4>1
    <3>2. k + 1 \in 1 .. n
      BY <1>3
    <3>3. QED
      BY <1>0, <1>3, <3>1, <3>2
  <2>2. PICK m : m = Min(S) /\ m \in S /\ \A y \in S : m <= y
    BY <2>1 DEF Min
  <2>3. m = k + 1 /\ m - 1 = k
    BY <2>1, <2>2
  <2>4. SubSeq(a, 1, k) = [i \in 1 .. k |-> a[i]]
    <3>1. (k - 1) + 1 = k /\ \A i \in 1 .. k : (1 + i) - 1 = i
      OBVIOUS
    <3>2. SubSeq(a, 1, k) = [i \in 1 .. (k - 1) + 1 |-> a[(1 + i) - 1]]
      OBVIOUS
    <3>3. QED
      BY <3>1, <3>2
  <2>5. CString(a) = [i \in 1 .. k |-> a[i]]
    <3>1. S # {}
      BY <2>1
    <3>2. Min(S) - 1 = k
      BY <2>2, <2>3
    <3>3. QED
      BY <1>1, <2>4, <3>1, <3>2
  <2>6. ~(k = n)
    BY <1>3
  <2>7. QED
    BY <2>5, <2>6
<1>4. QED
  BY <1>2, <1>3

(* A string without NUL is what C reads of it. *)
LEMMA CStringSame ==
  ASSUME NEW s \in Seq(Nat \ {0})
  PROVE  CString(s) = s
<1>1. PICK n \in Nat : n = Len(s) /\ s = [i \in 1 .. n |-> s[i]]
  BY LenProperties
<1>2. \A i \in 1 .. n : s[i] # NUL
  BY <1>1, ElementOfSeq DEF NUL
<1>3. n \in 0 .. n /\ (n < n => s[n + 1] = NUL)
  OBVIOUS
<1>4. DOMAIN s = 1 .. n
  BY <1>1
<1>5. QED
  BY <1>2, <1>3, <1>4, CStringIs

(* The first k elements of a list. *)
LEMMA FirstElements ==
  ASSUME NEW T, NEW l \in Seq(T), NEW k \in 0 .. Len(l)
  PROVE  /\ SubSeq(l, 1, k) = [i \in 1 .. k |-> l[i]] /\ Len(SubSeq(l, 1, k)) = k
         /\ DOMAIN SubSeq(l, 1, k) = 1 .. k
<1>1. PICK n \in Nat : n = Len(l) /\ k \in 0 .. n
  BY LenProperties
<1>2. SubSeq(l, 1, k) = [i \in 1 .. k |-> l[i]]
  <2>1. (k - 1) + 1 = k /\ \A i \in 1 .. k : (1 + i) - 1 = i
    BY <1>1
  <2>2. SubSeq(l, 1, k) = [i \in 1 .. (k - 1) + 1 |-> l[(1 + i) - 1]]
    OBVIOUS
  <2>3. QED
    BY <2>1, <2>2
<1>3. \A i \in 1 .. k : l[i] \in T
  BY <1>1, ElementOfSeq
<1>4. PICK f : f = [i \in 1 .. k |-> l[i]]
  OBVIOUS
<1>5. Len(f) = k
  BY <1>1, <1>3, <1>4, ConstructedSeq
<1>6. QED
  BY <1>2, <1>4, <1>5

(* What a list is up to its first NUL. *)
LEMMA UpToNul ==
  ASSUME NEW l \in Seq(Nat)
  PROVE  (CHOOSE p \in {SubSeq(l, 1, k) : k \in 0 .. Len(l)} :
            /\ \A i \in DOMAIN p : p[i] # NUL
            /\ Len(p) < Len(l) => l[Len(p) + 1] = NUL) = CString(l)
<1> DEFINE P(p) == /\ \A i \in DOMAIN p : p[i] # NUL
                   /\ Len(p) < Len(l) => l[Len(p) + 1] = NUL
           Q == {SubSeq(l, 1, k) : k \in 0 .. Len(l)}
<1>1. PICK n \in Nat : n = Len(l) /\ l = [i \in 1 .. n |-> l[i]]
  BY LenProperties
<1>2. PICK k \in 0 .. n : (\A i \in 1 .. k : l[i] # NUL) /\ (k < n => l[k + 1] = NUL)
  BY FirstNul
<1>3. PICK q : q = SubSeq(l, 1, k) /\ q = [i \in 1 .. k |-> l[i]] /\ Len(q) = k
  BY <1>1, FirstElements
<1>4. CString(l) = q
  <2>1. DOMAIN l = 1 .. n
    BY <1>1
  <2>2. /\ k = n => CString(l) = l
        /\ k < n => CString(l) = [i \in 1 .. k |-> l[i]]
    BY <1>2, <2>1, CStringIs
  <2>3. CASE k = n
    BY <1>1, <1>3, <2>2, <2>3
  <2>4. CASE k < n
    BY <1>3, <2>2, <2>4
  <2>5. QED
    BY <2>3, <2>4
<1>5. q \in Q /\ P(q)
  BY <1>1, <1>2, <1>3
<1>6. ASSUME NEW p \in Q, P(p) PROVE p = q
  <2>1. PICK j \in 0 .. n : p = SubSeq(l, 1, j)
    BY <1>1
  <2>2. p = [i \in 1 .. j |-> l[i]] /\ Len(p) = j /\ DOMAIN p = 1 .. j
    BY <1>1, <2>1, FirstElements
  <2>3. (\A i \in 1 .. j : l[i] # NUL) /\ (j < n => l[j + 1] = NUL)
    BY <1>1, <1>6, <2>2
  <2>4. ~(j < k)
    <3>1. SUFFICES ASSUME j < k PROVE FALSE
      OBVIOUS
    <3>2. j + 1 \in 1 .. k /\ j < n
      BY <3>1
    <3>3. QED
      BY <1>2, <2>3, <3>2
  <2>5. ~(k < j)
    <3>1. SUFFICES ASSUME k < j PROVE FALSE
      OBVIOUS
    <3>2. k + 1 \in 1 .. j /\ k < n
      BY <3>1
    <3>3. QED
      BY <1>2, <2>3, <3>2
  <2>6. j = k
    BY <2>4, <2>5
  <2>7. QED
    BY <1>3, <2>1, <2>6
<1>7. (CHOOSE p \in Q : P(p)) = q
  <2> HIDE DEF P, Q
  <2> QED  BY <1>5, <1>6
<1>8. QED
  BY <1>4, <1>7

LEMMA UnpackIs ==
  ASSUME NEW T, NEW s \in Seq(T)
  PROVE  fastUnpack(s) = s
BY LenProperties DEF fastUnpack, strlen

LEMMA ReverseIs ==
  ASSUME NEW s \in Seq(Nat)
  PROVE  /\ Len(reverse(s)) = Len(s)
         /\ \A i \in DOMAIN reverse(s) : reverse(s)[i] = strIndex(s, Len(reverse(s)) - i)
<1>1. PICK n \in Nat : n = Len(s)
  BY LenProperties
<1>2. PICK r : r = reverse(s) /\ r = [i \in 1 .. n |-> s[(n - i) + 1]]
  BY <1>1 DEF reverse, Reverse
<1>3. \A i \in 1 .. n : (n - i) + 1 \in 1 .. n /\ s[(n - i) + 1] \in Nat
  <2>1. \A i \in 1 .. n : (n - i) + 1 \in 1 .. n
    OBVIOUS
  <2>2. QED
    BY <1>1, <2>1, ElementOfSeq
<1>4. Len(r) = n
  BY <1>2, <1>3, ConstructedSeq
<1>5. ASSUME NEW i \in 1 .. n PROVE r[i] = strIndex(s, n - i)
  <2>1. PICK j \in 1 .. n : j = (n - i) + 1
    BY <1>3
  <2>2. (s \o <<NUL>>)[j] = s[j]
    BY <1>1 DEF NUL
  <2>3. QED
    BY <1>2, <2>1, <2>2 DEF strIndex
<1>6. QED
  BY <1>1, <1>2, <1>4, <1>5

LEMMA UnconsBack ==
  ASSUME NEW s \in Seq(Nat \ {0}), s # <<>>
  PROVE  strCons(head(s), tail(s)) = s
<1>1. PICK n \in Nat : n = Len(s) /\ n # 0
  BY EmptySeq
<1>2. head(s) = s[1] /\ tail(s) = SubSeq(s, 1 + 1, n)
  BY <1>1 DEF head, tail, strlen
<1>3. 1 \in 1 .. Len(s) /\ n \in 1 .. Len(s)
  BY <1>1
<1>4. SubSeq(s, 1, n) = <<s[1]>> \o SubSeq(s, 1 + 1, n)
  BY <1>3, SubSeqRecursiveFirst
<1>5. SubSeq(s, 1, n) = s
  BY <1>1, SubSeqFull
<1>6. CString(s) = s
  BY CStringSame
<1>7. QED
  BY <1>2, <1>4, <1>5, <1>6 DEF strCons

LEMMA ConcatTwo ==
  ASSUME NEW s \in Seq(Nat), NEW t \in Seq(Nat)
  PROVE  fastConcat(<<s, t>>) = s \o t
<1>1. PICK q : q = <<s, t>>
  OBVIOUS
<1>2. Len(q) = 2 /\ q[1] = s /\ q[2] = t
  BY <1>1
<1> DEFINE Body(f) == [i \in 1 .. 2 |-> IF i = 1 THEN q[i] ELSE f[i - 1] \o q[i]]
<1>3. FlattenSeq(q) = (CHOOSE f : f = Body(f))[2]
  BY <1>2 DEF FlattenSeq
<1>4. PICK g : g = [i \in 1 .. 2 |-> IF i = 1 THEN s ELSE s \o t]
  OBVIOUS
<1>5. g = Body(g)
  <2>1. ASSUME NEW i \in 1 .. 2 PROVE g[i] = IF i = 1 THEN q[i] ELSE g[i - 1] \o q[i]
    <3>1. CASE i = 1
      BY <1>2, <1>4, <3>1
    <3>2. CASE i = 2
      <4>1. g[1] = s /\ g[2] = s \o t /\ i - 1 = 1
        BY <1>4, <3>2
      <4>2. QED
        BY <1>2, <3>2, <4>1
    <3>3. QED
      BY <3>1, <3>2
  <2>2. QED
    BY <1>4, <2>1
<1>6. PICK f : f = Body(f) /\ FlattenSeq(q) = f[2]
  BY <1>3, <1>5
<1>7. f[1] = s /\ f[2] = f[1] \o t
  <2>1. \A i \in 1 .. 2 : f[i] = IF i = 1 THEN q[i] ELSE f[i - 1] \o q[i]
    BY <1>6
  <2>2. f[1] = q[1]
    BY <2>1
  <2>3. 2 \in 1 .. 2 /\ 2 # 1 /\ 2 - 1 = 1
    OBVIOUS
  <2>4. f[2] = f[2 - 1] \o q[2]
    BY <2>1, <2>3, Zenon
  <2>5. QED
    BY <1>2, <2>2, <2>3, <2>4
<1>8. QED
  BY <1>1, <1>6, <1>7 DEF fastConcat

LEMMA ShowBack ==
  ASSUME NEW c \in Nat
  PROVE  cast_string_to_char(cast_char_to_string(c)) = c
<1>1. PICK a : a = <<c>>
  OBVIOUS
<1>2. a[1] = c /\ 1 \in Nat /\ a = [i \in 1 .. 1 |-> a[i]]
  <2>1. a \in Seq(Nat) /\ Len(a) = 1 /\ a[1] = c
    BY <1>1
  <2>2. a \in [1 .. 1 -> Nat]
    BY <2>1, LenProperties
  <2>3. QED
    BY <2>1, <2>2
<1>3. CASE c = NUL
  <2>1. CString(a) = [i \in 1 .. 0 |-> a[i]]
    <3>1. 0 \in 0 .. 1 /\ (\A i \in 1 .. 0 : a[i] # NUL) /\ a[0 + 1] = NUL
      BY <1>2, <1>3
    <3>2. QED
      BY <1>2, <3>1, CStringIs
  <2>2. CString(a) = <<>>
    BY <2>1
  <2>3. QED
    BY <1>1, <1>3, <2>2 DEF cast_string_to_char, cast_char_to_string, head
<1>4. CASE c # NUL
  <2>1. a \in Seq(Nat \ {0})
    BY <1>1, <1>4 DEF NUL
  <2>2. CString(a) = a
    BY <2>1, CStringSame
  <2>3. a # <<>>
    BY <1>1
  <2>4. QED
    BY <1>1, <1>2, <2>2, <2>3 DEF cast_string_to_char, cast_char_to_string, head
<1>5. QED
  BY <1>3, <1>4

(* How many characters a copy of at most n characters takes. *)
LEMMA SubstrBounds ==
  ASSUME NEW n \in Nat, NEW start \in 0 .. n - 1, NEW len \in 0 .. n + 1,
         NEW l \in Nat, n < len => l = n, ~(n < len) => l = len
  PROVE  \E k \in 0 .. l : /\ Min({start + len, n}) = start + k
                           /\ \A i \in 1 .. k : start + i \in 1 .. n
                           /\ k < l => start + (k + 1) = n + 1
<1>1. start \in Nat /\ len \in Nat /\ start < n
  OBVIOUS
<1>2. PICK a \in Nat : a = start + len
  BY <1>1
<1>3. Min({a, n}) = IF a <= n THEN a ELSE n
  <2>1. PICK m : m = Min({a, n}) /\ m \in {a, n} /\ \A y \in {a, n} : m <= y
    <3>1. \E m \in {a, n} : \A y \in {a, n} : m <= y
      <4>1. CASE a <= n
        BY <4>1
      <4>2. CASE ~(a <= n)
        BY <4>2
      <4>3. QED
        BY <4>1, <4>2
    <3>2. QED
      BY <3>1 DEF Min
  <2>2. QED
    BY <2>1
<1>4. CASE start + l <= n
  <2>1. a <= n => start + l = a
    BY <1>1, <1>2, <1>4
  <2>2. ~(a <= n) => start + l = n
    BY <1>1, <1>2, <1>4
  <2>3. Min({start + len, n}) = start + l
    BY <1>2, <1>3, <2>1, <2>2
  <2>4. \A i \in 1 .. l : start + i \in 1 .. n
    BY <1>1, <1>4
  <2>5. QED
    BY <2>3, <2>4
<1>5. CASE ~(start + l <= n)
  <2>1. PICK k \in 0 .. l : k = n - start /\ k < l
    BY <1>1, <1>5
  <2>2. ~(a <= n) \/ a = n
    BY <1>1, <1>2, <1>5
  <2>3. Min({start + len, n}) = start + k
    BY <1>1, <1>2, <1>3, <2>1, <2>2
  <2>4. \A i \in 1 .. k : start + i \in 1 .. n
    BY <1>1, <2>1
  <2>5. start + (k + 1) = n + 1
    BY <1>1, <2>1
  <2>6. QED
    BY <2>3, <2>4, <2>5
<1>6. QED
  BY <1>4, <1>5

(* The copy may pass the end of the string: the NUL there ends it.         *)
LEMMA SubstrIs ==
  ASSUME NEW s \in Seq(Nat \ {0}), NEW beyond,
         NEW start \in 0 .. Len(s) - 1, NEW len \in 0 .. Len(s) + 1
  PROVE  strSubstr(start, len, s, beyond) =
           SubSeq(s, start + 1, Min({start + len, Len(s)}))
<1>0. PICK n \in Nat : n = Len(s)
  BY LenProperties
<1>1. start \in 0 .. n - 1 /\ len \in 0 .. n + 1 /\ start \in Nat /\ len \in Nat
  BY <1>0
<1>2. PICK l \in Nat : l = IF n < len THEN n ELSE len
  BY <1>1
<1>3. PICK k \in 0 .. l :
        /\ Min({start + len, n}) = start + k
        /\ \A i \in 1 .. k : start + i \in 1 .. n
        /\ k < l => start + (k + 1) = n + 1
  <2>1. \E k \in 0 .. l : /\ Min({start + len, n}) = start + k
                          /\ \A i \in 1 .. k : start + i \in 1 .. n
                          /\ k < l => start + (k + 1) = n + 1
    <3>1. (n < len => l = n) /\ (~(n < len) => l = len)
      BY <1>2
    <3>2. QED
      BY <1>1, <3>1, SubstrBounds, Zenon
  <2>2. QED
    BY <2>1, Zenon
<1>4. k \in Nat
  BY <1>2
<1>5. PICK c : c = [i \in 1 .. l |-> IF start + i <= n THEN s[start + i]
                                     ELSE IF start + i = n + 1 THEN NUL ELSE beyond]
  OBVIOUS
<1>6. strSubstr(start, len, s, beyond) = CString(c)
  BY <1>0, <1>2, <1>5 DEF strSubstr, strlen
<1>7. \A i \in 1 .. k : c[i] = s[start + i] /\ c[i] # NUL
  <2>1. ASSUME NEW i \in 1 .. k PROVE c[i] = s[start + i] /\ c[i] # NUL
    <3>0. i \in 1 .. l
      BY <1>4
    <3>5. start + i \in 1 .. n
      BY <1>3, Zenon
    <3>1. i \in 1 .. l /\ start + i \in 1 .. n /\ start + i <= n
      BY <3>0, <3>5
    <3>2. s[start + i] \in Nat \ {0}
      BY <1>0, <3>1, ElementOfSeq
    <3>3. QED
      BY <1>5, <3>1, <3>2 DEF NUL
  <2>2. QED
    BY <2>1
<1>8. k < l => c[k + 1] = NUL
  <2>1. SUFFICES ASSUME k < l PROVE c[k + 1] = NUL
    OBVIOUS
  <2>2. k + 1 \in 1 .. l
    BY <1>2, <1>4, <2>1
  <2>4. start + (k + 1) = n + 1 /\ ~(start + (k + 1) <= n)
    BY <1>3, <2>1
  <2>3. QED
    BY <1>5, <2>2, <2>4
<1>9. CString(c) = [i \in 1 .. k |-> c[i]]
  <2>1. DOMAIN c = 1 .. l
    BY <1>5
  <2>2. \A i \in 1 .. k : c[i] # NUL
    BY <1>7
  <2>3. /\ k = l => CString(c) = c
        /\ k < l => CString(c) = [i \in 1 .. k |-> c[i]]
    BY <1>2, <1>8, <2>1, <2>2, CStringIs
  <2>4. CASE k = l
    BY <1>5, <2>3, <2>4
  <2>5. CASE k < l
    BY <2>3, <2>5
  <2>6. QED
    BY <1>2, <2>4, <2>5
<1>10. SubSeq(s, start + 1, start + k) = [i \in 1 .. k |-> s[start + i]]
  <2>1. PICK b \in Nat : b = start + 1
    BY <1>1
  <2>0. PICK m \in Nat : m = start + k
    BY <1>1, <1>4
  <2>2. (m - b) + 1 = k /\ \A i \in 1 .. k : (b + i) - 1 = start + i
    BY <1>1, <1>4, <2>0, <2>1
  <2>3. SubSeq(s, b, m) = [i \in 1 .. (m - b) + 1 |-> s[(b + i) - 1]]
    OBVIOUS
  <2>4. QED
    BY <2>0, <2>1, <2>2, <2>3
<1>11. [i \in 1 .. k |-> c[i]] = [i \in 1 .. k |-> s[start + i]]
  BY <1>7
<1>12. QED
  BY <1>0, <1>3, <1>6, <1>9, <1>10, <1>11

(* The character at a position of the string, or the NUL at its end. *)
LEMMA IndexIs ==
  ASSUME NEW s \in Seq(Nat \ {0}), NEW j \in 0 .. Len(s)
  PROVE  /\ j < Len(s) => strIndex(s, j) = s[j + 1] /\ strIndex(s, j) # NUL
         /\ j = Len(s) => strIndex(s, j) = NUL
<1>1. PICK n \in Nat : n = Len(s) /\ j \in 0 .. n
  BY LenProperties
<1>0. NUL \in Nat
  BY DEF NUL
<1>2. PICK z : z = <<NUL>>
  OBVIOUS
<1>3. z \in Seq(Nat) /\ Len(z) = 1 /\ z[1] = NUL
  BY <1>0, <1>2
<1>4. s \in Seq(Nat)
  <2>1. s \in [1 .. n -> Nat \ {0}]
    BY <1>1, LenProperties
  <2>2. s \in [1 .. n -> Nat]
    BY <2>1
  <2>3. QED
    BY <2>2
<1>5. \A i \in 1 .. n + 1 : (s \o z)[i] = IF i <= n THEN s[i] ELSE z[i - n]
  <2>1. \A i \in 1 .. Len(s) + Len(z) :
          (s \o z)[i] = IF i <= Len(s) THEN s[i] ELSE z[i - Len(s)]
    BY <1>3, <1>4, ConcatProperties, Zenon
  <2>2. QED
    BY <1>1, <1>3, <2>1
<1>6. ASSUME j < n PROVE strIndex(s, j) = s[j + 1] /\ strIndex(s, j) # NUL
  <2>1. j + 1 \in 1 .. n /\ j + 1 \in 1 .. n + 1 /\ j + 1 <= n
    BY <1>1, <1>6
  <2>2. s[j + 1] \in Nat \ {0}
    BY <1>1, <2>1, ElementOfSeq
  <2>3. QED
    BY <1>2, <1>5, <2>1, <2>2 DEF strIndex, NUL
<1>7. ASSUME j = n PROVE strIndex(s, j) = NUL
  <2>1. n + 1 \in 1 .. n + 1 /\ ~(n + 1 <= n) /\ (n + 1) - n = 1
    OBVIOUS
  <2>2. (s \o z)[n + 1] = z[(n + 1) - n]
    BY <1>5, <2>1
  <2>3. QED
    BY <1>2, <1>3, <1>7, <2>1, <2>2 DEF strIndex
<1>8. QED
  BY <1>1, <1>6, <1>7

(* An iterator at position i of s, and what it has returned. *)
At(s, i) == [it |-> [str |-> s, pos |-> i], out |-> [k \in 1 .. i |-> s[k]]]

LEMMA IteratorTurn ==
  ASSUME NEW s \in Seq(Nat \ {0}), NEW n \in Nat, n = Len(s), NEW i \in 0 .. n - 1
  PROVE  LET r == stringIteratorNext(At(s, i).it)
         IN  [it |-> r[2], out |-> Append(At(s, i).out, r[1])] = At(s, i + 1)
<1>0. PICK it : it = [str |-> s, pos |-> i]
  OBVIOUS
<1>1. it = [str |-> s, pos |-> i] /\ it.str = s /\ it.pos = i
  BY <1>0
<1>2. strIndex(s, i) = s[i + 1] /\ strIndex(s, i) # NUL
  <2>1. i \in 0 .. Len(s) /\ i < Len(s)
    OBVIOUS
  <2>2. QED
    BY <2>1, IndexIs
<1>3. stringIteratorNext(it) = <<s[i + 1], [str |-> s, pos |-> i + 1]>>
  BY <1>1, <1>2 DEF stringIteratorNext
<1>4. PICK o : o = [k \in 1 .. i |-> s[k]]
  OBVIOUS
<1>5. o \in Seq(Nat \ {0}) /\ Len(o) = i
  <2>1. \A k \in 1 .. i : o[k] \in Nat \ {0}
    BY <1>4, ElementOfSeq
  <2>2. DOMAIN o = 1 .. i /\ o = [k \in 1 .. i |-> o[k]] /\ i \in Nat
    BY <1>4
  <2>3. QED
    BY <2>1, <2>2, ConstructedSeq
<1>6. Append(o, s[i + 1]) = [k \in 1 .. i + 1 |-> s[k]]
  <2>1. PICK x \in Nat \ {0} : x = s[i + 1]
    BY ElementOfSeq
  <2>2. PICK a : a = Append(o, x)
    OBVIOUS
  <2>3. /\ a \in Seq(Nat \ {0}) /\ Len(a) = i + 1
        /\ \A k \in 1 .. i : a[k] = o[k]
        /\ a[i + 1] = x
    BY <1>5, <2>2, AppendProperties
  <2>4. \A k \in 1 .. i + 1 : a[k] = s[k]
    BY <1>4, <2>1, <2>3
  <2>5. a = [k \in 1 .. i + 1 |-> a[k]]
    BY <2>3, LenProperties
  <2>6. QED
    BY <2>1, <2>2, <2>4, <2>5
<1>7. At(s, i).it = it /\ At(s, i).out = o
  BY <1>1, <1>4 DEF At
<1>8. At(s, i + 1) = [it |-> [str |-> s, pos |-> i + 1], out |-> Append(o, s[i + 1])]
  BY <1>6 DEF At
<1>9. PICK r : r = stringIteratorNext(it)
  OBVIOUS
<1>10. r[1] = s[i + 1] /\ r[2] = [str |-> s, pos |-> i + 1]
  BY <1>3, <1>9
<1>11. QED
  BY <1>7, <1>8, <1>9, <1>10

LEMMA IteratedIs ==
  ASSUME NEW s \in Seq(Nat \ {0})
  PROVE  Iterated(s) = s \o <<EOF>>
<1>1. PICK n \in Nat : n = Len(s) /\ s = [i \in 1 .. n |-> s[i]]
  BY LenProperties
<1> DEFINE Turn(x) == LET r == stringIteratorNext(x.it)
                      IN  [it |-> r[2], out |-> Append(x.out, r[1])]
           Body(f) == [i \in 0 .. n + 1 |->
             IF i = 0 THEN [it |-> stringIteratorNew(s), out |-> <<>>] ELSE Turn(f[i - 1])]
<1>2. Iterated(s) = (CHOOSE f : f = Body(f))[n + 1].out
  BY <1>1 DEF Iterated, strlen
<1>4. \A i \in 0 .. n - 1 : Turn(At(s, i)) = At(s, i + 1)
  BY <1>1, IteratorTurn
<1>5. PICK last : last = Turn(At(s, n)) /\ last.out = s \o <<EOF>>
  <2>0. PICK it : it = [str |-> s, pos |-> n]
    OBVIOUS
  <2>1. it.str = s /\ it.pos = n
    BY <2>0
  <2>2. strIndex(s, n) = NUL
    <3>1. n \in 0 .. Len(s)
      BY <1>1
    <3>2. QED
      BY <1>1, <3>1, IndexIs
  <2>3. stringIteratorNext(it) = <<EOF, it>>
    BY <2>1, <2>2 DEF stringIteratorNext
  <2>4. At(s, n).it = it /\ At(s, n).out = s
    BY <1>1, <2>0 DEF At
  <2>5. Turn(At(s, n)) = [it |-> it, out |-> Append(s, EOF)]
    <3>1. PICK r : r = stringIteratorNext(it)
      OBVIOUS
    <3>2. r[1] = EOF /\ r[2] = it
      BY <2>3, <3>1
    <3>3. QED
      BY <2>4, <3>1, <3>2
  <2>6. Append(s, EOF) = s \o <<EOF>>
    <3>1. PICK T : T = (Nat \ {0}) \union {EOF}
      OBVIOUS
    <3>2. s \in [1 .. n -> T]
      BY <1>1, <3>1, ElementOfSeq
    <3>3. s \in Seq(T) /\ EOF \in T
      BY <3>1, <3>2
    <3>4. QED
      BY <3>3, AppendIsConcat
  <2>7. PICK last : last = Turn(At(s, n))
    OBVIOUS
  <2>8. last.out = Append(s, EOF)
    BY <2>5, <2>7
  <2>9. QED
    BY <2>6, <2>7, <2>8
<1>6. PICK g : g = [i \in 0 .. n + 1 |-> IF i <= n THEN At(s, i) ELSE last]
  OBVIOUS
<1> HIDE DEF Turn
<1>7. ASSUME NEW i \in 1 .. n + 1 PROVE g[i] = Turn(g[i - 1])
  <2>1. i - 1 \in 0 .. n /\ g[i - 1] = At(s, i - 1)
    BY <1>6
  <2>2. CASE i <= n
    <3>1. i - 1 \in 0 .. n - 1 /\ (i - 1) + 1 = i /\ g[i] = At(s, i)
      BY <1>6, <2>2
    <3>2. QED
      BY <1>4, <2>1, <3>1
  <2>3. CASE i = n + 1
    <3>1. i - 1 = n /\ g[i] = last
      BY <1>6, <2>3
    <3>2. QED
      BY <1>5, <2>1, <3>1
  <2>4. QED
    BY <2>2, <2>3
<1>8. [it |-> stringIteratorNew(s), out |-> <<>>] = At(s, 0)
  <2>1. <<>> = [k \in 1 .. 0 |-> s[k]]
    OBVIOUS
  <2>2. QED
    BY <2>1 DEF At, stringIteratorNew
<1>9. PICK f : f = Body(f) /\ Iterated(s) = f[n + 1].out
  <2>1. g = Body(g)
    <3>1. ASSUME NEW i \in 0 .. n + 1
          PROVE  g[i] = IF i = 0 THEN [it |-> stringIteratorNew(s), out |-> <<>>]
                        ELSE Turn(g[i - 1])
      <4>1. CASE i = 0
        BY <1>6, <1>8, <4>1
      <4>2. CASE i # 0
        <5>1. i \in 1 .. n + 1
          BY <4>2
        <5>2. QED
          BY <1>7, <4>2, <5>1
      <4>3. QED
        BY <4>1, <4>2
    <3>2. QED
      BY <1>6, <3>1
  <2>2. QED
    BY <1>2, <2>1
<1>10. \A i \in 0 .. n + 1 :
         f[i] = IF i = 0 THEN [it |-> stringIteratorNew(s), out |-> <<>>] ELSE Turn(f[i - 1])
  BY <1>9
<1> DEFINE T == {i \in 0 .. n + 1 : f[i] = g[i]}
<1>11. \A i \in 0 .. n + 1 : i \in T
  <2>1. 0 \in T
    BY <1>6, <1>8, <1>10
  <2>2. ASSUME NEW i \in 0 .. (n + 1) - 1, i \in T PROVE i + 1 \in T
    <3>1. i + 1 \in 1 .. n + 1 /\ (i + 1) - 1 = i /\ i + 1 # 0 /\ i + 1 \in 0 .. n + 1
      OBVIOUS
    <3>2. f[i + 1] = g[i + 1]
      BY <1>7, <1>10, <2>2, <3>1
    <3>3. QED
      BY <3>1, <3>2
  <2>3. n + 1 \in Nat
    OBVIOUS
  <2> HIDE DEF T
  <2>4. QED
    BY <2>1, <2>2, <2>3, Induction
<1>12. f[n + 1] = last
  BY <1>6, <1>11
<1>13. QED
  BY <1>5, <1>9, <1>12

(* StringsAreLists of a call c that returned r. *)
UpTo(l) ==
  CHOOSE p \in {SubSeq(l, 1, k) : k \in 0 .. Len(l)} :
    /\ \A i \in DOMAIN p : p[i] # NUL
    /\ Len(p) < Len(l) => l[Len(p) + 1] = NUL

StringCall(c, r) ==
  /\ c.op = "iterate" => r = fastUnpack(c.x) \o <<EOF>>
  /\ c.op = "unpack"  => fastPack(r) = c.x
  /\ c.op = "uncons"  => strCons(r[1], r[2]) = c.x
  /\ c.op = "reverse" =>
       /\ Len(r) = Len(c.x)
       /\ \A i \in DOMAIN r : r[i] = strIndex(c.x, Len(r) - i)
  /\ c.op = "append" =>
       r[1] = r[2] /\ fastUnpack(r[1]) = fastUnpack(c.x) \o c.y
  /\ c.op = "pack" => r = UpTo(c.x \o <<c.y>> \o c.z)
  /\ c.op = "cons" => r = UpTo(<<c.x>> \o c.y)
  /\ c.op = "show" => r[2] = c.x
  /\ c.op = "substr" =>
       r = SubSeq(c.x, c.start + 1, Min({c.start + c.len, Len(c.x)}))

LEMMA OneStringStep ==
  ASSUME OneString
  PROVE  StringCall(call', result')
<1>1. PICK s \in Strings :
       \/ Returns([op |-> "reverse", x |-> s], reverse(s))
       \/ Returns([op |-> "unpack", x |-> s], fastUnpack(s))
       \/ Returns([op |-> "iterate", x |-> s], Iterated(s))
       \/ s # <<>> /\ Returns([op |-> "uncons", x |-> s], <<head(s), tail(s)>>)
  BY DEF OneString
<1>2. s \in Seq(Nat) /\ s \in Seq(Nat \ {0})
  BY StringsAreSequences
<1>3. CASE Returns([op |-> "reverse", x |-> s], reverse(s))
  <2>1. call'.op = "reverse" /\ call'.x = s /\ result' = reverse(s)
    BY <1>3 DEF Returns
  <2>2. QED
    BY <1>2, <2>1, ReverseIs DEF StringCall
<1>4. CASE Returns([op |-> "unpack", x |-> s], fastUnpack(s))
  <2>1. call'.op = "unpack" /\ call'.x = s /\ result' = s
    BY <1>2, <1>4, UnpackIs DEF Returns
  <2>2. QED
    BY <1>2, <2>1, CStringSame DEF StringCall, fastPack
<1>5. CASE Returns([op |-> "iterate", x |-> s], Iterated(s))
  <2>1. call'.op = "iterate" /\ call'.x = s /\ result' = Iterated(s)
    BY <1>5 DEF Returns
  <2>2. fastUnpack(s) = s /\ Iterated(s) = s \o <<EOF>>
    BY <1>2, UnpackIs, IteratedIs
  <2>3. QED
    BY <2>1, <2>2 DEF StringCall
<1>6. CASE s # <<>> /\ Returns([op |-> "uncons", x |-> s], <<head(s), tail(s)>>)
  <2>1. /\ call'.op = "uncons" /\ call'.x = s
        /\ result'[1] = head(s) /\ result'[2] = tail(s)
    BY <1>6 DEF Returns
  <2>2. QED
    BY <1>2, <1>6, <2>1, UnconsBack DEF StringCall
<1>7. QED
  BY <1>1, <1>3, <1>4, <1>5, <1>6

LEMMA SubstringStep ==
  ASSUME Substring
  PROVE  StringCall(call', result')
<1>1. PICK s, beyond, start, len :
        /\ s \in Strings /\ start \in 0 .. stringLength(s) - 1
        /\ len \in 0 .. stringLength(s) + 1
        /\ Returns([op |-> "substr", x |-> s, start |-> start, len |-> len],
                   strSubstr(start, len, s, beyond))
  BY DEF Substring
<1>2. s \in Seq(Nat \ {0}) /\ start \in 0 .. Len(s) - 1 /\ len \in 0 .. Len(s) + 1
  BY <1>1, StringsAreSequences DEF stringLength, strlen
<1>3. /\ call'.op = "substr" /\ call'.x = s /\ call'.start = start /\ call'.len = len
      /\ result' = strSubstr(start, len, s, beyond)
  BY <1>1 DEF Returns
<1>4. strSubstr(start, len, s, beyond) =
        SubSeq(s, start + 1, Min({start + len, Len(s)}))
  BY <1>2, SubstrIs, Zenon
<1>5. QED
  BY <1>3, <1>4 DEF StringCall

LEMMA CharsAreNumbers == Chars \in SUBSET Nat
<1>1. "char" \in Machine /\ "char" \notin SignedTypes
  BY DEF Machine, SignedTypes
<1>2. QED
  BY <1>1, ValuesAreNumbers DEF Chars, ValuesOf

LEMMA BuildStringStep ==
  ASSUME BuildString
  PROVE  StringCall(call', result')
<1>1. PICK s, t, c :
       /\ s \in Strings /\ t \in Strings /\ c \in Chars
       /\ \/ Returns([op |-> "cons", x |-> c, y |-> s], strCons(c, s))
          \/ Returns([op |-> "append", x |-> s, y |-> t],
                     <<strAppend(s, t), fastConcat(<<s, t>>)>>)
          \/ Returns([op |-> "pack", x |-> s, y |-> c, z |-> t],
                     fastPack(s \o <<c>> \o t))
          \/ Returns([op |-> "show", x |-> c],
                     <<cast_char_to_string(c), cast_string_to_char(cast_char_to_string(c))>>)
  BY DEF BuildString
<1>2. s \in Seq(Nat) /\ t \in Seq(Nat) /\ c \in Nat /\ <<c>> \in Seq(Nat)
  BY <1>1, StringsAreSequences, CharsAreNumbers
<1>3. CASE Returns([op |-> "cons", x |-> c, y |-> s], strCons(c, s))
  <2>1. call'.op = "cons" /\ call'.x = c /\ call'.y = s /\ result' = CString(<<c>> \o s)
    BY <1>3 DEF Returns, strCons
  <2>2. <<c>> \o s \in Seq(Nat)
    BY <1>2, ConcatProperties
  <2>3. UpTo(<<c>> \o s) = CString(<<c>> \o s)
    BY <2>2, UpToNul DEF UpTo
  <2>4. QED
    BY <2>1, <2>3 DEF StringCall
<1>4. CASE Returns([op |-> "append", x |-> s, y |-> t],
                   <<strAppend(s, t), fastConcat(<<s, t>>)>>)
  <2>1. /\ call'.op = "append" /\ call'.x = s /\ call'.y = t
        /\ result'[1] = s \o t /\ result'[2] = fastConcat(<<s, t>>)
    BY <1>4 DEF Returns, strAppend
  <2>2. s \o t \in Seq(Nat) /\ fastConcat(<<s, t>>) = s \o t
    BY <1>2, ConcatProperties, ConcatTwo
  <2>3. fastUnpack(s \o t) = s \o t /\ fastUnpack(s) = s
    BY <1>2, <2>2, UnpackIs
  <2>4. QED
    BY <2>1, <2>2, <2>3 DEF StringCall
<1>5. CASE Returns([op |-> "pack", x |-> s, y |-> c, z |-> t], fastPack(s \o <<c>> \o t))
  <2>1. /\ call'.op = "pack" /\ call'.x = s /\ call'.y = c /\ call'.z = t
        /\ result' = CString(s \o <<c>> \o t)
    BY <1>5 DEF Returns, fastPack
  <2>2. s \o <<c>> \o t \in Seq(Nat)
    <3>1. s \o <<c>> \in Seq(Nat)
      BY <1>2, ConcatProperties
    <3>2. QED
      BY <1>2, <3>1, ConcatProperties
  <2>3. UpTo(s \o <<c>> \o t) = CString(s \o <<c>> \o t)
    BY <2>2, UpToNul DEF UpTo
  <2>4. QED
    BY <2>1, <2>3 DEF StringCall
<1>6. CASE Returns([op |-> "show", x |-> c],
                   <<cast_char_to_string(c), cast_string_to_char(cast_char_to_string(c))>>)
  <2>1. call'.op = "show" /\ call'.x = c
        /\ result'[2] = cast_string_to_char(cast_char_to_string(c))
    BY <1>6 DEF Returns
  <2>2. QED
    BY <1>2, <2>1, ShowBack DEF StringCall
<1>7. QED
  BY <1>1, <1>3, <1>4, <1>5, <1>6

LEMMA NoStringCall ==
  ASSUME ArithmeticStep \/ Comparison \/ Cast \/ call'.op = "idle"
  PROVE  StringCall(call', result')
<1>1. call'.op \notin StringOps
  BY ArithmeticOp, StepOps, OpsDisjoint
<1>2. QED
  BY <1>1 DEF StringCall, StringOps

(* Every operation on strings is that of the lists of their characters; a  *)
(* NUL that is stored ends the string there.                               *)
THEOREM StringsListTheirCharacters == Spec => []StringsAreLists
<1>1. StringsAreLists <=> StringCall(call, result)
  BY DEF StringsAreLists, StringCall, Called, UpTo
<1>2. StringsAreLists' <=> StringCall(call', result')
  BY DEF StringsAreLists, StringCall, Called, UpTo
<1>3. Init => StringsAreLists
  BY <1>1 DEF Init, Idle, StringCall
<1>4. StringsAreLists /\ [Next]_vars => StringsAreLists'
  <2>1. SUFFICES ASSUME StringsAreLists, [Next]_vars PROVE StringCall(call', result')
    BY <1>2
  <2>2. CASE call' = call /\ result' = result
    BY <1>1, <2>1, <2>2
  <2>3. QED
    BY <2>1, <2>2, StepKinds, OneStringStep, SubstringStep, BuildStringStep, NoStringCall
       DEF QuietStep, StringStep
<1>5. QED
  BY <1>3, <1>4, PTL DEF Spec
=============================================================================
