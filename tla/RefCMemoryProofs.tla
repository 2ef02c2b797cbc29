-------------------------- MODULE RefCMemoryProofs --------------------------
(***************************************************************************)
(* For any number of values and any program: the count of a value is the   *)
(* number of places that own a reference to it.                            *)
(***************************************************************************)
EXTENDS RefCMemory, FiniteSetTheorems, FunctionTheorems, SequenceTheorems,
        WellFoundedInduction, TLAPS

Refs == Seq(Nat)

One(c, d) == IF c = d THEN 1 ELSE 0

-----------------------------------------------------------------------------
(* How often a reference occurs in a sequence. *)

LEMMA SeqFacts ==
  ASSUME NEW s \in Refs
  PROVE  /\ Len(s) \in Nat /\ DOMAIN s = 1 .. Len(s)
         /\ \A i \in DOMAIN s : s[i] \in Nat
BY LenProperties, ElementOfSeq DEF Refs

LEMMA TimesNat ==
  ASSUME NEW s \in Refs, NEW c
  PROVE  /\ IsFiniteSet({i \in DOMAIN s : s[i] = c})
         /\ Times(c, s) \in Nat
         /\ Times(c, s) = 0 <=> c \notin ToSet(s)
<1> DEFINE P == {i \in DOMAIN s : s[i] = c}
<1>1. IsFiniteSet(DOMAIN s)
  BY SeqFacts, FS_Interval
<1>2. P \in SUBSET DOMAIN s
  OBVIOUS
<1>3. IsFiniteSet(P)
  BY <1>1, <1>2, FS_Subset
<1>4. Cardinality(P) \in Nat /\ (Cardinality(P) = 0 <=> P = {})
  BY <1>3, FS_CardinalityType, FS_EmptySet
<1>5. P = {} <=> c \notin ToSet(s)
  BY DEF ToSet
<1>6. QED
  BY <1>3, <1>4, <1>5 DEF Times

LEMMA TimesConcat ==
  ASSUME NEW s \in Refs, NEW t \in Refs, NEW c
  PROVE  s \o t \in Refs /\ Times(c, s \o t) = Times(c, s) + Times(c, t)
<1> DEFINE m == Len(s)
           n == Len(t)
           u == s \o t
           P == {i \in DOMAIN s : s[i] = c}
           Q == {i \in DOMAIN t : t[i] = c}
           R == {i \in m + 1 .. m + n : u[i] = c}
           F == [i \in Q |-> i + m]
<1>1. /\ m \in Nat /\ n \in Nat /\ DOMAIN s = 1 .. m /\ DOMAIN t = 1 .. n
  BY SeqFacts
<1>2. /\ u \in Refs /\ Len(u) = m + n
      /\ \A i \in 1 .. m + n : u[i] = IF i <= m THEN s[i] ELSE t[i - m]
  BY ConcatProperties DEF Refs
<1>3. DOMAIN u = 1 .. m + n
  BY <1>2, SeqFacts
<1> HIDE DEF u, m, n
<1>4. \A i \in 1 .. m : u[i] = s[i]
  BY <1>1, <1>2
<1>5. \A i \in 1 .. n : i + m \in m + 1 .. m + n /\ u[i + m] = t[i]
  BY <1>1, <1>2
<1>6. {i \in DOMAIN u : u[i] = c} = P \cup R
  <2>1. \A i : i \in DOMAIN u <=> i \in 1 .. m \/ i \in m + 1 .. m + n
    BY <1>1, <1>3
  <2>2. QED
    BY <1>1, <1>4, <2>1
<1>7. P \cap R = {}
  BY <1>1
<1>8. F \in Bijection(Q, R)
  <2>1. F \in [Q -> R]
    BY <1>1, <1>5
  <2>2. \A a, b \in Q : F[a] = F[b] => a = b
    BY <1>1
  <2>3. ASSUME NEW r \in R PROVE \E q \in Q : F[q] = r
    <3>1. r \in m + 1 .. m + n /\ u[r] = c
      OBVIOUS
    <3>2. r - m \in 1 .. n /\ (r - m) + m = r
      BY <1>1, <3>1
    <3>3. t[r - m] = c
      BY <1>5, <3>1, <3>2
    <3>4. r - m \in Q
      BY <1>1, <3>2, <3>3
    <3>5. QED
      BY <3>2, <3>4
  <2> HIDE DEF F, Q, R
  <2>4. QED
    BY <2>1, <2>2, <2>3, Fun_IsBij
<1>9. IsFiniteSet(P) /\ IsFiniteSet(Q) /\ Cardinality(Q) \in Nat /\ Cardinality(P) \in Nat
  BY TimesNat, FS_CardinalityType
<1> HIDE DEF P, Q, R, F
<1>10. IsFiniteSet(R) /\ Cardinality(R) = Cardinality(Q)
  BY <1>8, <1>9, FS_Bijection DEF ExistsBijection
<1>11. Cardinality(P \cup R) = Cardinality(P) + Cardinality(R) - Cardinality(P \cap R)
  BY <1>9, <1>10, FS_Union
<1>12. Cardinality(P \cup R) = Cardinality(P) + Cardinality(Q)
  <2>1. Cardinality(P \cap R) = 0
    BY <1>7, FS_EmptySet
  <2>2. QED
    BY <1>9, <1>10, <1>11, <2>1
<1>13. QED
  BY <1>2, <1>6, <1>12 DEF Times, u, P, Q

LEMMA TimesEmpty == \A c : Times(c, <<>>) = 0
<1> SUFFICES ASSUME NEW c PROVE Times(c, <<>>) = 0
  OBVIOUS
<1>1. {i \in DOMAIN <<>> : <<>>[i] = c} = {}
  OBVIOUS
<1>2. QED
  BY <1>1, FS_EmptySet DEF Times

LEMMA TimesOne ==
  ASSUME NEW d \in Nat, NEW c
  PROVE  <<d>> \in Refs /\ Times(c, <<d>>) = One(c, d)
<1>1. <<d>> \in Refs
  BY DEF Refs
<1>2. CASE c = d
  <2>1. {i \in DOMAIN <<d>> : <<d>>[i] = c} = {1}
    BY <1>2
  <2>2. QED
    BY <1>1, <1>2, <2>1, FS_Singleton DEF Times, One
<1>3. CASE c # d
  <2>1. {i \in DOMAIN <<d>> : <<d>>[i] = c} = {}
    BY <1>3
  <2>2. QED
    BY <1>1, <1>3, <2>1, FS_EmptySet DEF Times, One
<1>4. QED
  BY <1>2, <1>3

LEMMA TimesAppend ==
  ASSUME NEW s \in Refs, NEW d \in Nat, NEW c
  PROVE  Append(s, d) \in Refs /\ Times(c, Append(s, d)) = Times(c, s) + One(c, d)
<1>1. Append(s, d) = s \o <<d>>
  BY AppendIsConcat DEF Refs
<1>2. QED
  BY <1>1, TimesConcat, TimesOne

LEMMA TimesTwo ==
  ASSUME NEW d \in Nat, NEW e \in Nat, NEW c
  PROVE  <<d, e>> \in Refs /\ Times(c, <<d, e>>) = One(c, d) + One(c, e)
<1>1. <<d, e>> = Append(<<d>>, e) /\ <<d>> \in Refs /\ Times(c, <<d>>) = One(c, d)
  BY TimesOne
<1>2. PICK s \in Refs : s = <<d>>
  BY <1>1
<1>3. Append(s, e) \in Refs /\ Times(c, Append(s, e)) = Times(c, s) + One(c, e)
  BY TimesAppend
<1>4. QED
  BY <1>1, <1>2, <1>3

(* Turned round, a sequence holds the same references. *)
LEMMA ReverseFacts ==
  ASSUME NEW s \in Refs
  PROVE  Reverse(s) \in Refs /\ \A c : Times(c, Reverse(s)) = Times(c, s)
<1>1. PICK n \in Nat : n = Len(s) /\ DOMAIN s = 1 .. n
  BY SeqFacts
<1>2. PICK r : r = Reverse(s)
  OBVIOUS
<1>3. r = [i \in 1 .. n |-> s[(n - i) + 1]]
  BY <1>1, <1>2 DEF Reverse
<1>4. \A i \in 1 .. n : (n - i) + 1 \in 1 .. n /\ (n - ((n - i) + 1)) + 1 = i
  OBVIOUS
<1>5. r \in Refs
  <2>1. \A i \in 1 .. n : s[i] \in Nat
    BY <1>1, SeqFacts
  <2>2. r \in [1 .. n -> Nat]
    BY <1>3, <1>4, <2>1
  <2>3. QED
    BY <2>2 DEF Refs
<1>6. ASSUME NEW c PROVE Times(c, r) = Times(c, s)
  <2> DEFINE P == {i \in DOMAIN r : r[i] = c}
             Q == {i \in DOMAIN s : s[i] = c}
             F == [i \in P |-> (n - i) + 1]
  <2>1. F \in Bijection(P, Q)
    <3>1. P = {i \in 1 .. n : s[(n - i) + 1] = c} /\ Q = {i \in 1 .. n : s[i] = c}
      BY <1>1, <1>3, <1>4
    <3>2. F \in [P -> Q]
      BY <1>4, <3>1
    <3>3. \A a, b \in P : F[a] = F[b] => a = b
      BY <3>1
    <3>4. ASSUME NEW q \in Q PROVE \E i \in P : F[i] = q
      <4>1. (n - q) + 1 \in P /\ (n - ((n - q) + 1)) + 1 = q
        BY <1>4, <3>1
      <4>2. QED
        BY <4>1
    <3> HIDE DEF F, P, Q
    <3>5. QED
      BY <3>2, <3>3, <3>4, Fun_IsBij
  <2>2. IsFiniteSet(P)
    BY <1>5, TimesNat
  <2> HIDE DEF P, Q, F
  <2>3. Cardinality(Q) = Cardinality(P)
    BY <2>1, <2>2, FS_Bijection DEF ExistsBijection
  <2>4. QED
    BY <2>3 DEF P, Q, Times
<1>7. QED
  BY <1>2, <1>5, <1>6

-----------------------------------------------------------------------------
(* How often a reference occurs in a family of sequences. *)

Rows(f) == IsFiniteSet(DOMAIN f) /\ \A x \in DOMAIN f : f[x] \in Refs

Spots(f) == UNION {{x} \X DOMAIN f[x] : x \in DOMAIN f}

Where(f, c) == {p \in Spots(f) : f[p[1]][p[2]] = c}

LEMMA HoldingWhere == \A f, c : Holding(f, c) = Cardinality(Where(f, c))
BY DEF Holding, Where, Spots

LEMMA WhereMember ==
  ASSUME NEW f, NEW c, NEW p
  PROVE  p \in Where(f, c) <=>
           \E x \in DOMAIN f : \E i \in DOMAIN f[x] : p = <<x, i>> /\ f[x][i] = c
BY DEF Where, Spots

LEMMA WhereFinite ==
  ASSUME NEW f, Rows(f), NEW c
  PROVE  IsFiniteSet(Where(f, c))
<1> DEFINE S == {{x} \X DOMAIN f[x] : x \in DOMAIN f}
           G == [x \in DOMAIN f |-> {x} \X DOMAIN f[x]]
<1>1. G \in Surjection(DOMAIN f, S)
  <2>1. G \in [DOMAIN f -> S] /\ \A y \in S : \E x \in DOMAIN f : G[x] = y
    OBVIOUS
  <2> HIDE DEF G, S
  <2>2. QED
    BY <2>1, Fun_IsSurj
<1>2. \A T \in S : IsFiniteSet(T)
  <2> SUFFICES ASSUME NEW x \in DOMAIN f PROVE IsFiniteSet({x} \X DOMAIN f[x])
    OBVIOUS
  <2>1. PICK s \in Refs : s = f[x]
    BY DEF Rows
  <2>2. IsFiniteSet(DOMAIN s)
    BY SeqFacts, FS_Interval
  <2>3. QED
    BY <2>1, <2>2, FS_Singleton, FS_Product
<1> HIDE DEF S, G
<1>3. IsFiniteSet(S)
  BY <1>1, FS_Surjection DEF Rows
<1>4. IsFiniteSet(UNION S)
  BY <1>2, <1>3, FS_UNION
<1>5. Where(f, c) \in SUBSET UNION S
  BY DEF Where, Spots, S
<1>6. QED
  BY <1>4, <1>5, FS_Subset

LEMMA HoldingNat ==
  ASSUME NEW f, Rows(f), NEW c
  PROVE  /\ Holding(f, c) \in Nat
         /\ Holding(f, c) = 0 <=> \A x \in DOMAIN f : c \notin ToSet(f[x])
<1>1. IsFiniteSet(Where(f, c))
  BY WhereFinite
<1>2. Cardinality(Where(f, c)) \in Nat /\ (Cardinality(Where(f, c)) = 0 <=> Where(f, c) = {})
  BY <1>1, FS_CardinalityType, FS_EmptySet
<1>3. Where(f, c) = {} <=> \A x \in DOMAIN f : c \notin ToSet(f[x])
  <2>1. ASSUME NEW p \in Where(f, c) PROVE \E x \in DOMAIN f : c \in ToSet(f[x])
    BY WhereMember DEF ToSet
  <2>2. ASSUME NEW x \in DOMAIN f, c \in ToSet(f[x]) PROVE Where(f, c) # {}
    <3>1. PICK i \in DOMAIN f[x] : f[x][i] = c
      BY <2>2 DEF ToSet
    <3>2. <<x, i>> \in Where(f, c)
      BY <3>1, WhereMember
    <3>3. QED
      BY <3>2
  <2>3. QED
    BY <2>1, <2>2
<1>4. QED
  BY <1>2, <1>3, HoldingWhere

LEMMA HoldingSame ==
  ASSUME NEW f, NEW g, DOMAIN f = DOMAIN g, \A x \in DOMAIN f : f[x] = g[x], NEW c
  PROVE  Holding(f, c) = Holding(g, c)
<1>1. ASSUME NEW p PROVE p \in Where(f, c) <=> p \in Where(g, c)
  BY WhereMember
<1>2. QED
  BY <1>1, HoldingWhere

(* One sequence of the family on its own. *)
LEMMA HoldingSplit ==
  ASSUME NEW f, Rows(f), NEW x \in DOMAIN f, NEW c,
         NEW g, DOMAIN g = DOMAIN f \ {x}, \A y \in DOMAIN g : g[y] = f[y]
  PROVE  Holding(f, c) = Holding(g, c) + Times(c, f[x])
<1> DEFINE P == {i \in DOMAIN f[x] : f[x][i] = c}
           R == {p \in Where(f, c) : p[1] = x}
           F == [i \in P |-> <<x, i>>]
<1>1. Rows(g)
  <2>1. DOMAIN g \in SUBSET DOMAIN f
    OBVIOUS
  <2>2. QED
    BY <2>1, FS_Subset DEF Rows
<1>2. f[x] \in Refs
  BY DEF Rows
<1>3. F \in Bijection(P, R)
  <2>1. F \in [P -> R]
    BY WhereMember
  <2>2. \A a, b \in P : F[a] = F[b] => a = b
    OBVIOUS
  <2>3. ASSUME NEW r \in R PROVE \E p \in P : F[p] = r
    BY WhereMember
  <2> HIDE DEF F, P, R
  <2>4. QED
    BY <2>1, <2>2, <2>3, Fun_IsBij
<1>4. Where(f, c) = Where(g, c) \cup R
  <2>1. ASSUME NEW p \in Where(f, c), p[1] # x PROVE p \in Where(g, c)
    BY <2>1, WhereMember
  <2>2. ASSUME NEW p \in Where(g, c) PROVE p \in Where(f, c)
    BY <2>2, WhereMember
  <2>3. QED
    BY <2>1, <2>2
<1>5. Where(g, c) \cap R = {}
  BY WhereMember
<1>6. IsFiniteSet(P) /\ Cardinality(P) = Times(c, f[x])
  BY <1>2, TimesNat DEF Times
<1>7. IsFiniteSet(Where(g, c)) /\ Cardinality(Where(g, c)) \in Nat
  BY <1>1, WhereFinite, FS_CardinalityType
<1> HIDE DEF P, R, F
<1>8. IsFiniteSet(R) /\ Cardinality(R) = Times(c, f[x]) /\ Cardinality(R) \in Nat
  BY <1>3, <1>6, FS_Bijection, FS_CardinalityType DEF ExistsBijection
<1>9. Cardinality(Where(g, c) \cup R)
        = Cardinality(Where(g, c)) + Cardinality(R) - Cardinality(Where(g, c) \cap R)
  BY <1>7, <1>8, FS_Union
<1>10. Cardinality(Where(g, c) \cap R) = 0
  BY <1>5, FS_EmptySet
<1>11. Holding(f, c) = Cardinality(Where(f, c)) /\ Holding(g, c) = Cardinality(Where(g, c))
  BY HoldingWhere
<1>12. QED
  BY <1>4, <1>7, <1>8, <1>9, <1>10, <1>11

(* Two families that differ in one sequence. *)
LEMMA HoldingReplace ==
  ASSUME NEW f, Rows(f), NEW g, Rows(g), NEW x \in DOMAIN f, NEW c,
         DOMAIN g = DOMAIN f, \A y \in DOMAIN f \ {x} : g[y] = f[y]
  PROVE  Holding(g, c) = Holding(f, c) - Times(c, f[x]) + Times(c, g[x])
<1> DEFINE r == [y \in DOMAIN f \ {x} |-> f[y]]
<1>1. Holding(f, c) = Holding(r, c) + Times(c, f[x])
  BY HoldingSplit
<1>2. Holding(g, c) = Holding(r, c) + Times(c, g[x])
  BY HoldingSplit
<1>3. f[x] \in Refs /\ g[x] \in Refs /\ Rows(r)
  <2>1. DOMAIN f \ {x} \in SUBSET DOMAIN f
    OBVIOUS
  <2>2. IsFiniteSet(DOMAIN f \ {x})
    BY <2>1, FS_Subset DEF Rows
  <2>3. QED
    BY <2>2 DEF Rows
<1>4. Times(c, f[x]) \in Nat /\ Times(c, g[x]) \in Nat /\ Holding(r, c) \in Nat
  BY <1>3, TimesNat, HoldingNat
<1> HIDE DEF r
<1>5. QED
  BY <1>1, <1>2, <1>4

LEMMA HoldingNone ==
  ASSUME NEW f, DOMAIN f = {}, NEW c
  PROVE  Holding(f, c) = 0
<1>1. Where(f, c) = {}
  BY WhereMember
<1>2. QED
  BY <1>1, HoldingWhere, FS_EmptySet

LEMMA HoldingSingles ==
  ASSUME NEW s \in Refs, NEW f, DOMAIN f = DOMAIN s, \A k \in DOMAIN s : f[k] = <<s[k]>>, NEW c
  PROVE  Holding(f, c) = Times(c, s)
<1> DEFINE P == {i \in DOMAIN s : s[i] = c}
           F == [i \in P |-> <<i, 1>>]
<1>1. F \in Bijection(P, Where(f, c))
  <2>1. F \in [P -> Where(f, c)]
    BY WhereMember
  <2>2. \A a, b \in P : F[a] = F[b] => a = b
    OBVIOUS
  <2>3. ASSUME NEW r \in Where(f, c) PROVE \E p \in P : F[p] = r
    BY WhereMember
  <2> HIDE DEF F, P
  <2>4. QED
    BY <2>1, <2>2, <2>3, Fun_IsBij
<1>2. IsFiniteSet(P)
  BY TimesNat
<1> HIDE DEF P, F
<1>3. Cardinality(Where(f, c)) = Cardinality(P)
  BY <1>1, <1>2, FS_Bijection DEF ExistsBijection
<1>4. QED
  BY <1>3, HoldingWhere DEF P, Times

-----------------------------------------------------------------------------
(* The shape of a heap and of a stack. *)

Tags == {"WORLD", "CONSTRUCTOR", "ARGLIST", "CLOSURE", "COMPLETE_CLOSURE", "POINTER",
         "GC_POINTER", "IOREF", "ARRAY", "CHAR", "STRING"}

CellValue == [rc : Nat, tag : Tags, kids : Refs, n : Nat,
              f : {"code", "freeIterator"}, owns : BOOLEAN]

Entries ==
  [do : {"run"}, f : {"code", "freeIterator"}, arglist : Nat, lets : Refs]
    \union [do : {"drop", "deliver", "free"}, cell : Nat]
    \union [do : {"forget", "closure1"}]
    \union [do : {"store"}, cell : Nat, at : Nat, value : Nat]

Stacks == Seq(Entries)

HeapTypes(h) == DOMAIN h \subseteq Cells /\ \A c \in DOMAIN h : h[c] \in CellValue

(* The count of a value, 0 when it is gone. *)
Count(h, c) == IF c \in DOMAIN h THEN h[c].rc ELSE 0

(* The owners in a heap h, where the slots in w are being written, and on  *)
(* a stack s. *)
SlotsOf(h, w, d) ==
  [i \in DOMAIN h[d].kids |->
     IF h[d].owns /\ <<d, i>> \notin w THEN h[d].kids[i] ELSE NULL]

HeapRows(h, w) == [d \in DOMAIN h |-> SlotsOf(h, w, d)]

InHeap(h, w, c) == Holding(HeapRows(h, w), c)

StackRows(s) == [k \in DOMAIN s |-> OwnedBy(s[k])]

OnStack(s, c) == Holding(StackRows(s), c)

Writing(s) == {<<s[k].cell, s[k].at>> : k \in {j \in DOMAIN s : s[j].do = "store"}}

LEMMA OneFacts ==
  /\ \A c, d : One(c, d) \in {0, 1} /\ (One(c, d) = 1 <=> c = d)
  /\ \A c \in Cells : One(c, NULL) = 0 /\ c # NULL /\ c \in Nat
BY BoundsAssumption DEF One, Cells, NULL

LEMMA SlotsOfRefs ==
  ASSUME NEW h, HeapTypes(h), NEW w, NEW d \in DOMAIN h
  PROVE  /\ h[d].kids \in Refs /\ h[d].owns \in BOOLEAN
         /\ DOMAIN SlotsOf(h, w, d) = DOMAIN h[d].kids
         /\ SlotsOf(h, w, d) \in Refs
<1>1. h[d] \in CellValue
  BY DEF HeapTypes
<1>2. PICK s \in Refs : s = h[d].kids
  BY <1>1 DEF CellValue
<1>3. /\ Len(s) \in Nat /\ DOMAIN s = 1 .. Len(s)
      /\ \A i \in DOMAIN s : s[i] \in Nat
  BY SeqFacts
<1>4. \A i \in 1 .. Len(s) : SlotsOf(h, w, d)[i] \in Nat
  BY <1>2, <1>3 DEF SlotsOf, NULL
<1>5. SlotsOf(h, w, d) = [i \in 1 .. Len(s) |-> SlotsOf(h, w, d)[i]]
  BY <1>2, <1>3 DEF SlotsOf
<1>6. SlotsOf(h, w, d) \in Seq(Nat)
  <2> DEFINE t == SlotsOf(h, w, d)
  <2> HIDE DEF t
  <2>1. t = [i \in 1 .. Len(s) |-> t[i]] /\ \A i \in 1 .. Len(s) : t[i] \in Nat
    BY <1>4, <1>5 DEF t
  <2>2. t \in Seq(Nat)
    BY <1>3, <2>1
  <2>3. QED
    BY <2>2 DEF t
<1>7. QED
  BY <1>1, <1>6 DEF CellValue, SlotsOf, Refs

LEMMA HeapRowsRows ==
  ASSUME NEW h, HeapTypes(h), NEW w
  PROVE  Rows(HeapRows(h, w))
<1>1. IsFiniteSet(Cells)
  BY BoundsAssumption, FS_Interval DEF Cells
<1>2. IsFiniteSet(DOMAIN h)
  BY <1>1, FS_Subset DEF HeapTypes
<1>3. QED
  BY <1>2, SlotsOfRefs DEF Rows, HeapRows

LEMMA HeapNat ==
  ASSUME NEW h, HeapTypes(h), NEW w, NEW c
  PROVE  /\ InHeap(h, w, c) \in Nat
         /\ \A d \in DOMAIN h : \A i \in DOMAIN h[d].kids :
              h[d].owns /\ <<d, i>> \notin w /\ h[d].kids[i] = c => InHeap(h, w, c) # 0
<1>1. Rows(HeapRows(h, w))
  BY HeapRowsRows
<1>2. /\ InHeap(h, w, c) \in Nat
      /\ InHeap(h, w, c) = 0 <=> \A d \in DOMAIN HeapRows(h, w) : c \notin ToSet(HeapRows(h, w)[d])
  BY <1>1, HoldingNat DEF InHeap
<1>3. ASSUME NEW d \in DOMAIN h, NEW i \in DOMAIN h[d].kids,
             h[d].owns, <<d, i>> \notin w, h[d].kids[i] = c
      PROVE  InHeap(h, w, c) # 0
  <2>1. i \in DOMAIN SlotsOf(h, w, d) /\ SlotsOf(h, w, d)[i] = c
    BY <1>3 DEF SlotsOf
  <2>2. d \in DOMAIN HeapRows(h, w) /\ c \in ToSet(HeapRows(h, w)[d])
    BY <2>1 DEF HeapRows, ToSet
  <2>3. QED
    BY <1>2, <2>2
<1>4. QED
  BY <1>2, <1>3

LEMMA HeapSame ==
  ASSUME NEW h, NEW k, NEW w, DOMAIN k = DOMAIN h, NEW c,
         \A d \in DOMAIN h : k[d].kids = h[d].kids /\ k[d].owns = h[d].owns
  PROVE  InHeap(k, w, c) = InHeap(h, w, c)
<1>1. \A d \in DOMAIN h : SlotsOf(k, w, d) = SlotsOf(h, w, d)
  BY DEF SlotsOf
<1>2. QED
  BY <1>1, HoldingSame DEF InHeap, HeapRows

(* A value more. *)
LEMMA HeapMore ==
  ASSUME NEW h, NEW k, HeapTypes(k), NEW w, NEW x, NEW c,
         DOMAIN k = DOMAIN h \union {x}, \A d \in DOMAIN h : k[d] = h[d] /\ d # x
  PROVE  InHeap(k, w, c) = InHeap(h, w, c) + Times(c, SlotsOf(k, w, x))
<1>1. \A d \in DOMAIN h : SlotsOf(k, w, d) = SlotsOf(h, w, d)
  BY DEF SlotsOf
<1>2. Rows(HeapRows(k, w))
  BY HeapRowsRows
<1>3. /\ DOMAIN HeapRows(k, w) = DOMAIN k /\ DOMAIN HeapRows(h, w) = DOMAIN k \ {x}
      /\ \A d \in DOMAIN HeapRows(h, w) : HeapRows(h, w)[d] = HeapRows(k, w)[d]
      /\ HeapRows(k, w)[x] = SlotsOf(k, w, x)
  BY <1>1 DEF HeapRows
<1>4. QED
  BY <1>2, <1>3, HoldingSplit DEF InHeap

(* Another value. *)
LEMMA HeapReplace ==
  ASSUME NEW h, HeapTypes(h), NEW k, HeapTypes(k), NEW w, NEW v, NEW x \in DOMAIN h, NEW c,
         DOMAIN k = DOMAIN h,
         \A d \in DOMAIN h \ {x} : SlotsOf(k, v, d) = SlotsOf(h, w, d)
  PROVE  InHeap(k, v, c) = InHeap(h, w, c) - Times(c, SlotsOf(h, w, x))
                                          + Times(c, SlotsOf(k, v, x))
<1>1. Rows(HeapRows(k, v)) /\ Rows(HeapRows(h, w))
  BY HeapRowsRows
<1>2. /\ DOMAIN HeapRows(k, v) = DOMAIN h /\ DOMAIN HeapRows(h, w) = DOMAIN h
      /\ \A d \in DOMAIN h \ {x} : HeapRows(k, v)[d] = HeapRows(h, w)[d]
      /\ HeapRows(k, v)[x] = SlotsOf(k, v, x) /\ HeapRows(h, w)[x] = SlotsOf(h, w, x)
  BY DEF HeapRows
<1>3. QED
  BY <1>1, <1>2, HoldingReplace DEF InHeap

(* One slot changes. *)
LEMMA TimesReplace ==
  ASSUME NEW s \in Refs, NEW i \in DOMAIN s, NEW d \in Nat, NEW c
  PROVE  Times(c, [s EXCEPT ![i] = d]) = Times(c, s) - One(c, s[i]) + One(c, d)
<1> DEFINE t == [s EXCEPT ![i] = d]
           P == {j \in DOMAIN s : s[j] = c}
           Q == {j \in DOMAIN t : t[j] = c}
<1>1. IsFiniteSet(P) /\ Times(c, s) = Cardinality(P) /\ Cardinality(P) \in Nat
  BY TimesNat DEF Times
<1>2. Times(c, t) = Cardinality(Q)
  BY DEF Times
<1>3. Q = IF c = d THEN P \cup {i} ELSE P \ {i}
  OBVIOUS
<1>4. i \in P <=> s[i] = c
  OBVIOUS
<1> HIDE DEF P, Q, t
<1>5. ASSUME c = d PROVE Times(c, t) = Times(c, s) - One(c, s[i]) + One(c, d)
  <2>1. Cardinality(P \cup {i}) = IF i \in P THEN Cardinality(P) ELSE Cardinality(P) + 1
    BY <1>1, FS_AddElement
  <2>2. QED
    BY <1>1, <1>2, <1>3, <1>4, <1>5, <2>1 DEF One
<1>6. ASSUME c # d PROVE Times(c, t) = Times(c, s) - One(c, s[i]) + One(c, d)
  <2>1. Cardinality(P \ {i}) = IF i \in P THEN Cardinality(P) - 1 ELSE Cardinality(P)
    BY <1>1, FS_RemoveElement
  <2>2. QED
    BY <1>1, <1>2, <1>3, <1>4, <1>6, <2>1 DEF One
<1>7. Times(c, t) = Times(c, s) - One(c, s[i]) + One(c, d)
  BY <1>5, <1>6
<1>8. QED
  BY <1>7 DEF t

LEMMA HeapSlot ==
  ASSUME NEW h, HeapTypes(h), NEW k, HeapTypes(k), NEW w, NEW v,
         NEW x \in DOMAIN h, NEW i \in DOMAIN h[x].kids, NEW d \in Nat, NEW c,
         DOMAIN k = DOMAIN h,
         \A y \in DOMAIN h \ {x} : SlotsOf(k, v, y) = SlotsOf(h, w, y)
  PROVE  SlotsOf(k, v, x) = [SlotsOf(h, w, x) EXCEPT ![i] = d]
           => InHeap(k, v, c) = InHeap(h, w, c) - One(c, SlotsOf(h, w, x)[i]) + One(c, d)
<1> DEFINE q == SlotsOf(h, w, x)
           r == SlotsOf(k, v, x)
<1>1. InHeap(k, v, c) = InHeap(h, w, c) - Times(c, q) + Times(c, r)
  BY HeapReplace
<1>2. q \in Refs /\ i \in DOMAIN q
  BY SlotsOfRefs
<1> HIDE DEF q, r
<1> SUFFICES ASSUME r = [q EXCEPT ![i] = d]
             PROVE  InHeap(k, v, c) = InHeap(h, w, c) - One(c, q[i]) + One(c, d)
  BY DEF q, r
<1>3. Times(c, r) = Times(c, q) - One(c, q[i]) + One(c, d)
  BY <1>2, TimesReplace
<1>4. InHeap(h, w, c) \in Nat /\ Times(c, q) \in Nat /\ One(c, q[i]) \in Nat /\ One(c, d) \in Nat
  BY <1>2, HeapNat, TimesNat DEF One
<1>5. QED
  BY <1>1, <1>3, <1>4

-----------------------------------------------------------------------------
(* Entries of the stack. *)

LEMMA EntryFacts ==
  ASSUME NEW e \in Entries
  PROVE  /\ e.do = "run" => e.f \in {"code", "freeIterator"} /\ e.arglist \in Nat /\ e.lets \in Refs
         /\ e.do \in {"drop", "deliver", "free"} => e.cell \in Nat
         /\ e.do = "store" => e.cell \in Nat /\ e.at \in Nat /\ e.value \in Nat
         /\ e.do \in {"run", "drop", "deliver", "free", "forget", "closure1", "store"}
BY DEF Entries

LEMMA MakeEntries ==
  /\ \A f \in {"code", "freeIterator"}, al \in Nat, lets \in Refs :
       Run(f, al, lets) \in Entries /\ Run(f, al, lets).do = "run"
  /\ \A c \in Nat : /\ Drop(c) \in Entries /\ Drop(c).do = "drop"
                    /\ Free(c) \in Entries /\ Free(c).do = "free"
                    /\ Deliver(c) \in Entries /\ Deliver(c).do = "deliver"
  /\ Forget \in Entries /\ Forget.do = "forget"
  /\ Awaits1 \in Entries /\ Awaits1.do = "closure1" /\ Awaits1 # Forget
  /\ \A a, i, v \in Nat : Store(a, i, v) \in Entries /\ Store(a, i, v).do = "store"
BY DEF Entries, Run, Drop, Free, Deliver, Forget, Awaits1, Store

LEMMA OwnedByRefs ==
  ASSUME NEW e \in Entries
  PROVE  OwnedBy(e) \in Refs
<1>1. <<>> \in Refs
  BY EmptySeq DEF Refs
<1>2. CASE e.do = "run"
  <2>1. e.arglist \in Nat /\ e.lets \in Refs
    BY <1>2, EntryFacts
  <2>2. OwnedBy(e) = (IF e.arglist = NULL THEN <<>> ELSE <<e.arglist>>) \o e.lets
    BY <1>2 DEF OwnedBy
  <2>3. (IF e.arglist = NULL THEN <<>> ELSE <<e.arglist>>) \in Refs
    BY <1>1, <2>1, TimesOne
  <2>4. QED
    BY <2>1, <2>2, <2>3, TimesConcat
<1>3. CASE e.do \in {"drop", "deliver"}
  <2>1. OwnedBy(e) = <<e.cell>> /\ e.cell \in Nat
    BY <1>3, EntryFacts DEF OwnedBy
  <2>2. QED
    BY <2>1, TimesOne
<1>4. CASE e.do \notin {"run", "drop", "deliver"}
  BY <1>1, <1>4 DEF OwnedBy
<1>5. QED
  BY <1>2, <1>3, <1>4

LEMMA TimesOwnedBy ==
  ASSUME NEW c \in Nat \ {NULL}
  PROVE  /\ \A f : \A al \in Nat, lets \in Refs :
              Times(c, OwnedBy(Run(f, al, lets))) = One(c, al) + Times(c, lets)
         /\ \A d \in Nat : /\ Times(c, OwnedBy(Drop(d))) = One(c, d)
                           /\ Times(c, OwnedBy(Deliver(d))) = One(c, d)
                           /\ Times(c, OwnedBy(Free(d))) = 0
         /\ Times(c, OwnedBy(Forget)) = 0 /\ Times(c, OwnedBy(Awaits1)) = 0
         /\ \A a, i, v : Times(c, OwnedBy(Store(a, i, v))) = 0
<1>1. ASSUME NEW f, NEW al \in Nat, NEW lets \in Refs
      PROVE  Times(c, OwnedBy(Run(f, al, lets))) = One(c, al) + Times(c, lets)
  <2>1. OwnedBy(Run(f, al, lets)) = (IF al = NULL THEN <<>> ELSE <<al>>) \o lets
    BY DEF OwnedBy, Run
  <2>2. CASE al = NULL
    <3>1. <<>> \o lets = lets
      BY ConcatEmptySeq DEF Refs
    <3>2. Times(c, lets) \in Nat
      BY TimesNat
    <3>3. QED
      BY <2>1, <2>2, <3>1, <3>2 DEF One
  <2>3. CASE al # NULL
    <3>1. PICK s \in Refs : s = <<al>> /\ Times(c, s) = One(c, al)
      BY TimesOne
    <3>2. Times(c, s \o lets) = Times(c, s) + Times(c, lets)
      BY TimesConcat
    <3>3. QED
      BY <2>1, <2>3, <3>1, <3>2
  <2>4. QED
    BY <2>2, <2>3
<1>2. ASSUME NEW d \in Nat
      PROVE  /\ Times(c, OwnedBy(Drop(d))) = One(c, d)
             /\ Times(c, OwnedBy(Deliver(d))) = One(c, d)
             /\ Times(c, OwnedBy(Free(d))) = 0
  <2>1. OwnedBy(Drop(d)) = <<d>> /\ OwnedBy(Deliver(d)) = <<d>> /\ OwnedBy(Free(d)) = <<>>
    BY DEF OwnedBy, Drop, Deliver, Free
  <2>2. QED
    BY <2>1, TimesOne, TimesEmpty
<1>3. /\ OwnedBy(Forget) = <<>> /\ OwnedBy(Awaits1) = <<>>
      /\ \A a, i, v : OwnedBy(Store(a, i, v)) = <<>>
  BY DEF OwnedBy, Forget, Awaits1, Store
<1>4. QED
  BY <1>1, <1>2, <1>3, TimesEmpty

LEMMA StackRowsRows ==
  ASSUME NEW s \in Stacks
  PROVE  /\ Len(s) \in Nat /\ DOMAIN s = 1 .. Len(s) /\ \A k \in DOMAIN s : s[k] \in Entries
         /\ Rows(StackRows(s)) /\ DOMAIN StackRows(s) = DOMAIN s
         /\ \A k \in DOMAIN s : StackRows(s)[k] = OwnedBy(s[k])
<1>1. Len(s) \in Nat /\ DOMAIN s = 1 .. Len(s) /\ \A k \in DOMAIN s : s[k] \in Entries
  BY LenProperties, ElementOfSeq DEF Stacks
<1>2. IsFiniteSet(DOMAIN s)
  BY <1>1, FS_Interval
<1>3. QED
  BY <1>1, <1>2, OwnedByRefs DEF Rows, StackRows

LEMMA StackNat ==
  ASSUME NEW s \in Stacks, NEW c
  PROVE  /\ OnStack(s, c) \in Nat
         /\ \A k \in DOMAIN s : c \in ToSet(OwnedBy(s[k])) => OnStack(s, c) # 0
<1>1. /\ Rows(StackRows(s)) /\ DOMAIN StackRows(s) = DOMAIN s
      /\ \A k \in DOMAIN s : StackRows(s)[k] = OwnedBy(s[k])
  BY StackRowsRows
<1>2. QED
  BY <1>1, HoldingNat DEF OnStack

LEMMA ConcatFacts ==
  ASSUME NEW s \in Stacks, NEW t \in Stacks
  PROVE  /\ s \o t \in Stacks /\ Len(s \o t) = Len(s) + Len(t)
         /\ DOMAIN (s \o t) = 1 .. Len(s) + Len(t)
         /\ \A k \in DOMAIN s : (s \o t)[k] = s[k]
         /\ \A k \in DOMAIN t : (s \o t)[k + Len(s)] = t[k]
<1>1. /\ Len(s) \in Nat /\ DOMAIN s = 1 .. Len(s) /\ Len(t) \in Nat /\ DOMAIN t = 1 .. Len(t)
  BY StackRowsRows
<1>2. /\ s \o t \in Stacks /\ Len(s \o t) = Len(s) + Len(t)
      /\ \A i \in 1 .. Len(s) + Len(t) :
           (s \o t)[i] = IF i <= Len(s) THEN s[i] ELSE t[i - Len(s)]
  BY ConcatProperties DEF Stacks
<1>3. DOMAIN (s \o t) = 1 .. Len(s) + Len(t)
  BY <1>2, StackRowsRows
<1>4. ASSUME NEW k \in DOMAIN s PROVE (s \o t)[k] = s[k]
  BY <1>1, <1>2
<1>5. ASSUME NEW k \in DOMAIN t PROVE (s \o t)[k + Len(s)] = t[k]
  <2>1. k \in 1 .. Len(t)
    BY <1>1
  <2>2. k + Len(s) \in 1 .. Len(s) + Len(t) /\ ~(k + Len(s) <= Len(s)) /\ (k + Len(s)) - Len(s) = k
    BY <1>1, <2>1
  <2>3. QED
    BY <1>2, <2>2
<1>6. QED
  BY <1>2, <1>3, <1>4, <1>5

LEMMA StackConcat ==
  ASSUME NEW s \in Stacks, NEW t \in Stacks, NEW c
  PROVE  OnStack(s \o t, c) = OnStack(s, c) + OnStack(t, c)
<1> DEFINE u == s \o t
           m == Len(s)
           n == Len(t)
<1>1. /\ u \in Stacks /\ m \in Nat /\ n \in Nat
      /\ DOMAIN s = 1 .. m /\ DOMAIN t = 1 .. n /\ DOMAIN u = 1 .. m + n
      /\ \A k \in 1 .. m : u[k] = s[k]
      /\ \A k \in 1 .. n : u[k + m] = t[k]
  BY ConcatFacts, StackRowsRows
<1> HIDE DEF u, m, n
<1>2. /\ Rows(StackRows(s)) /\ Rows(StackRows(t))
      /\ DOMAIN StackRows(s) = 1 .. m /\ DOMAIN StackRows(t) = 1 .. n
      /\ DOMAIN StackRows(u) = 1 .. m + n
  BY <1>1, StackRowsRows
<1>3. \A k \in 1 .. m : StackRows(u)[k] = StackRows(s)[k]
  <2>1. \A k \in 1 .. m : k \in 1 .. m + n
    BY <1>1
  <2>2. QED
    BY <1>1, <2>1, StackRowsRows
<1>4. \A k \in 1 .. n : StackRows(u)[k + m] = StackRows(t)[k]
  <2>1. \A k \in 1 .. n : k + m \in 1 .. m + n
    BY <1>1
  <2>2. QED
    BY <1>1, <2>1, StackRowsRows
<1> DEFINE f == StackRows(s)
           g == StackRows(t)
           h == StackRows(u)
<1> HIDE DEF f, g, h
<1>5. /\ Rows(f) /\ Rows(g) /\ DOMAIN f = 1 .. m /\ DOMAIN g = 1 .. n /\ DOMAIN h = 1 .. m + n
      /\ \A k \in 1 .. m : h[k] = f[k]
      /\ \A k \in 1 .. n : h[k + m] = g[k]
  BY <1>2, <1>3, <1>4 DEF f, g, h
<1> DEFINE R == {p \in Where(h, c) : p[1] \in m + 1 .. m + n}
           F == [p \in Where(g, c) |-> <<p[1] + m, p[2]>>]
<1>6. \A k : k \in 1 .. m + n <=> k \in 1 .. m \/ k \in m + 1 .. m + n
  BY <1>1, <1>5
<1>7. Where(h, c) = Where(f, c) \cup R
  <2>1. ASSUME NEW p \in Where(h, c), p \notin R PROVE p \in Where(f, c)
    <3>1. PICK k \in 1 .. m + n : \E i \in DOMAIN h[k] : p = <<k, i>> /\ h[k][i] = c
      BY <1>1, <1>5, WhereMember
    <3>2. k \in 1 .. m
      BY <1>6, <2>1, <3>1
    <3>3. QED
      BY <3>1, <3>2, <1>1, <1>5, WhereMember
  <2>2. ASSUME NEW p \in Where(f, c) PROVE p \in Where(h, c)
    <3>1. PICK k \in 1 .. m : \E i \in DOMAIN f[k] : p = <<k, i>> /\ f[k][i] = c
      BY <1>1, <1>5, WhereMember
    <3>2. k \in 1 .. m + n
      BY <1>6
    <3>3. QED
      BY <3>1, <3>2, <1>1, <1>5, WhereMember
  <2>3. QED
    BY <2>1, <2>2
<1>8. Where(f, c) \cap R = {}
  <2> SUFFICES ASSUME NEW p \in Where(f, c), p \in R PROVE FALSE
    BY <1>1, <1>5
  <2>1. p[1] \in 1 .. m /\ p[1] \in m + 1 .. m + n
    BY <1>1, <1>5, WhereMember
  <2>2. QED
    BY <1>1, <2>1
<1>9. F \in Bijection(Where(g, c), R)
  <2>1. ASSUME NEW p \in Where(g, c) PROVE <<p[1] + m, p[2]>> \in R /\ p[1] \in Nat /\ p = <<p[1], p[2]>>
    <3>1. PICK k \in 1 .. n : \E i \in DOMAIN g[k] : p = <<k, i>> /\ g[k][i] = c
      BY <1>1, <1>5, WhereMember
    <3>2. PICK i \in DOMAIN g[k] : p = <<k, i>> /\ g[k][i] = c
      BY <3>1
    <3>3. k + m \in m + 1 .. m + n /\ k + m \in 1 .. m + n
      BY <1>1, <1>5
    <3>4. i \in DOMAIN h[k + m] /\ h[k + m][i] = c
      BY <1>5, <3>2
    <3>5. <<k + m, i>> \in Where(h, c)
      BY <3>3, <3>4, <1>1, <1>5, WhereMember
    <3>6. QED
      BY <3>2, <3>3, <3>5
  <2>2. F \in [Where(g, c) -> R]
    BY <2>1
  <2>3. ASSUME NEW a \in Where(g, c), NEW b \in Where(g, c), F[a] = F[b] PROVE a = b
    <3>1. a[1] + m = b[1] + m /\ a[2] = b[2]
      BY <2>3
    <3>2. a[1] \in Nat /\ b[1] \in Nat /\ a = <<a[1], a[2]>> /\ b = <<b[1], b[2]>>
      BY <2>1
    <3>3. \A x, y \in Nat : x + m = y + m => x = y
      BY <1>1, <1>5
    <3>4. a[1] = b[1]
      BY <3>1, <3>2, <3>3
    <3>5. QED
      BY <3>1, <3>2, <3>4
  <2>4. ASSUME NEW r \in R PROVE \E p \in Where(g, c) : F[p] = r
    <3>1. PICK k \in 1 .. m + n : \E i \in DOMAIN h[k] : r = <<k, i>> /\ h[k][i] = c
      BY <1>1, <1>5, WhereMember
    <3>2. PICK i \in DOMAIN h[k] : r = <<k, i>> /\ h[k][i] = c
      BY <3>1
    <3>3. k - m \in 1 .. n /\ (k - m) + m = k
      BY <1>1, <3>2
    <3>4. h[k] = g[k - m]
      BY <1>5, <3>3
    <3>5. <<k - m, i>> \in Where(g, c)
      BY <3>2, <3>3, <3>4, <1>1, <1>5, WhereMember
    <3>6. F[<<k - m, i>>] = r
      BY <3>2, <3>3, <3>5
    <3>7. QED
      BY <3>5, <3>6
  <2> HIDE DEF F, R
  <2>5. QED
    BY <2>2, <2>3, <2>4, Fun_IsBij
<1>10. /\ IsFiniteSet(Where(f, c)) /\ Cardinality(Where(f, c)) \in Nat
       /\ IsFiniteSet(Where(g, c)) /\ Cardinality(Where(g, c)) \in Nat
  BY <1>5, WhereFinite, FS_CardinalityType
<1> HIDE DEF R, F
<1>11. IsFiniteSet(R) /\ Cardinality(R) = Cardinality(Where(g, c))
  BY <1>9, <1>10, FS_Bijection DEF ExistsBijection
<1>12. Cardinality(Where(f, c) \cup R)
        = Cardinality(Where(f, c)) + Cardinality(R) - Cardinality(Where(f, c) \cap R)
  BY <1>10, <1>11, FS_Union
<1>13. Cardinality(Where(f, c) \cap R) = 0
  BY <1>8, FS_EmptySet
<1>14. /\ Holding(h, c) = Cardinality(Where(h, c)) /\ Holding(f, c) = Cardinality(Where(f, c))
       /\ Holding(g, c) = Cardinality(Where(g, c))
  BY HoldingWhere
<1>15. Holding(h, c) = Holding(f, c) + Holding(g, c)
  BY <1>7, <1>10, <1>11, <1>12, <1>13, <1>14
<1>16. QED
  BY <1>15 DEF OnStack, u, f, g, h

LEMMA StackSingle ==
  ASSUME NEW e \in Entries, NEW c
  PROVE  <<e>> \in Stacks /\ OnStack(<<e>>, c) = Times(c, OwnedBy(e))
<1>1. <<e>> \in Stacks
  BY DEF Stacks
<1>2. PICK s \in Stacks : s = <<e>> /\ DOMAIN s = {1} /\ s[1] = e
  BY <1>1
<1>3. /\ Rows(StackRows(s)) /\ DOMAIN StackRows(s) = {1} /\ StackRows(s)[1] = OwnedBy(e)
  BY <1>2, StackRowsRows
<1> DEFINE g == [k \in {} |-> <<>>]
<1>4. DOMAIN g = {} /\ DOMAIN g = DOMAIN StackRows(s) \ {1} /\ 1 \in DOMAIN StackRows(s)
  BY <1>3
<1> DEFINE f == StackRows(s)
<1> HIDE DEF f, g
<1>5. Rows(f) /\ 1 \in DOMAIN f /\ DOMAIN g = DOMAIN f \ {1} /\ \A y \in DOMAIN g : g[y] = f[y]
  BY <1>3, <1>4 DEF f
<1>6. Holding(f, c) = Holding(g, c) + Times(c, f[1])
  BY <1>5, HoldingSplit
<1>7. Times(c, OwnedBy(e)) \in Nat /\ Holding(g, c) = 0
  BY <1>4, OwnedByRefs, TimesNat, HoldingNone
<1>8. Holding(f, c) = Times(c, OwnedBy(e))
  BY <1>3, <1>6, <1>7 DEF f
<1>9. QED
  BY <1>1, <1>2, <1>8 DEF OnStack, f

LEMMA StackDrops ==
  ASSUME NEW cells \in Refs, NEW c
  PROVE  /\ Drops(cells) \in Stacks /\ DOMAIN Drops(cells) = DOMAIN cells
         /\ \A k \in DOMAIN cells : Drops(cells)[k] = Drop(cells[k]) /\ cells[k] \in Nat
         /\ OnStack(Drops(cells), c) = Times(c, cells)
<1>1. Len(cells) \in Nat /\ DOMAIN cells = 1 .. Len(cells) /\ \A k \in DOMAIN cells : cells[k] \in Nat
  BY SeqFacts
<1>2. /\ Drops(cells) \in Stacks /\ DOMAIN Drops(cells) = DOMAIN cells
      /\ \A k \in DOMAIN cells : Drops(cells)[k] = Drop(cells[k])
  <2>1. \A k \in 1 .. Len(cells) : Drop(cells[k]) \in Entries
    BY <1>1, MakeEntries
  <2>2. [k \in 1 .. Len(cells) |-> Drop(cells[k])] \in Seq(Entries)
    BY <1>1, <2>1
  <2>3. QED
    BY <1>1, <2>2 DEF Drops, Stacks
<1>3. \A k \in DOMAIN cells : StackRows(Drops(cells))[k] = <<cells[k]>>
  <2>1. \A d : OwnedBy(Drop(d)) = <<d>>
    BY DEF OwnedBy, Drop
  <2>2. QED
    BY <1>2, <2>1, StackRowsRows
<1>4. DOMAIN StackRows(Drops(cells)) = DOMAIN cells
  BY <1>2, StackRowsRows
<1>5. Holding(StackRows(Drops(cells)), c) = Times(c, cells)
  BY <1>3, <1>4, HoldingSingles
<1>6. QED
  BY <1>1, <1>2, <1>5 DEF OnStack

-----------------------------------------------------------------------------
(* The invariant, of a heap h, a stack s and references l that are neither *)
(* in the heap nor on the stack: the forgotten ones and, in the middle of  *)
(* a statement, the ones C variables hold.                                 *)

Want(h, s, l, c) == InHeap(h, Writing(s), c) + OnStack(s, c) + Times(c, l)

Balanced(h, s, l) == \A c \in Nat \ {NULL} : Count(h, c) = Want(h, s, l, c)

Kind(h, c, tag) == c \in DOMAIN h /\ h[c].tag = tag

(* A closure that is used has its arglist, and a GC pointer its finaliser. *)
CellOk(h, c) ==
  /\ ~h[c].owns => h[c].tag = "GC_POINTER"
  /\ h[c].rc > 0 /\ h[c].tag \in {"CLOSURE", "COMPLETE_CLOSURE"} =>
       Len(h[c].kids) = 1 /\ Kind(h, h[c].kids[1], "ARGLIST")
  /\ h[c].rc > 0 /\ h[c].tag = "GC_POINTER" /\ h[c].owns =>
       Len(h[c].kids) = 2 /\ Kind(h, h[c].kids[1], "CLOSURE")

HeapOk(h) == \A c \in DOMAIN h : CellOk(h, c)

(* What the function of the entry e can name. *)
OwnIn(h, e) ==
  (IF e.arglist = NULL THEN {} ELSE ToSet(h[e.arglist].kids)) \union ToSet(e.lets)

FieldsIn(h, cells) ==
  UNION {ToSet(h[c].kids) : c \in {d \in cells \ {NULL} : h[d].tag = "CONSTRUCTOR"}}

NamedIn(h, e) == (OwnIn(h, e) \union FieldsIn(h, OwnIn(h, e))) \ {NULL}

(* The entry e above b. *)
EntryOk(h, e, b) ==
  /\ e.do = "run" => e.arglist = NULL \/ Kind(h, e.arglist, "ARGLIST")
  /\ e.do \in {"run", "deliver"} => b.do \in {"run", "forget", "closure1"}
  /\ e.do = "free" => e.cell \in DOMAIN h /\ h[e.cell].rc = 0 /\ h[e.cell].kids = <<>>
  /\ e.do = "store" => /\ b.do = "run" /\ {e.cell, e.value} \subseteq NamedIn(h, b)
                       /\ h[e.cell].tag \in {"ARRAY", "WORLD"}
                       /\ e.at \in DOMAIN h[e.cell].kids

Below(s, k) == IF k < Len(s) THEN s[k + 1] ELSE Forget

StackOk(h, s) == \A k \in DOMAIN s : EntryOk(h, s[k], Below(s, k))

(* No slot is written, and no value freed, twice at a time. *)
Clash(a, b) ==
  \/ a.do = "store" /\ b.do = "store" /\ a.cell = b.cell /\ a.at = b.at
  \/ a.do = "free" /\ b.do = "free" /\ a.cell = b.cell

Distinct(s) == \A j, k \in DOMAIN s : j # k => ~Clash(s[j], s[k])

Inv(h, s, l) ==
  /\ HeapTypes(h) /\ s \in Stacks /\ l \in Refs
  /\ HeapOk(h) /\ StackOk(h, s) /\ Distinct(s) /\ Balanced(h, s, l)

-----------------------------------------------------------------------------
(* What somebody holds is alive. *)

Held(h, s, l, c) ==
  \/ c \in ToSet(l)
  \/ \E k \in DOMAIN s : c \in ToSet(OwnedBy(s[k]))
  \/ \E d \in DOMAIN h : \E i \in DOMAIN h[d].kids :
       h[d].owns /\ <<d, i>> \notin Writing(s) /\ h[d].kids[i] = c

LEMMA WantNat ==
  ASSUME NEW h, HeapTypes(h), NEW s \in Stacks, NEW l \in Refs, NEW c
  PROVE  /\ InHeap(h, Writing(s), c) \in Nat /\ OnStack(s, c) \in Nat /\ Times(c, l) \in Nat
         /\ Want(h, s, l, c) \in Nat
         /\ Held(h, s, l, c) => Want(h, s, l, c) >= 1
<1>1. /\ InHeap(h, Writing(s), c) \in Nat /\ OnStack(s, c) \in Nat /\ Times(c, l) \in Nat
  BY HeapNat, StackNat, TimesNat
<1>2. Held(h, s, l, c) => InHeap(h, Writing(s), c) # 0 \/ OnStack(s, c) # 0 \/ Times(c, l) # 0
  BY HeapNat, StackNat, TimesNat DEF Held
<1>3. QED
  BY <1>1, <1>2 DEF Want

LEMMA HeldAlive ==
  ASSUME NEW h, NEW s, NEW l, Inv(h, s, l), NEW c \in Nat \ {NULL}, Held(h, s, l, c)
  PROVE  c \in DOMAIN h /\ c \in Cells /\ h[c].rc \in Nat /\ h[c].rc > 0
<1>1. Want(h, s, l, c) \in Nat /\ Want(h, s, l, c) >= 1
  BY WantNat DEF Inv
<1>2. Count(h, c) = Want(h, s, l, c)
  BY DEF Inv, Balanced
<1>3. c \in DOMAIN h /\ h[c].rc = Want(h, s, l, c)
  BY <1>1, <1>2 DEF Count
<1>4. QED
  BY <1>1, <1>3 DEF Inv, HeapTypes

(* The last reference is the only one. *)
LEMMA HeldTwice ==
  ASSUME NEW h, NEW s, NEW l \in Refs, NEW c \in Nat \ {NULL}, Inv(h, s, Append(l, c)),
         Held(h, s, l, c)
  PROVE  c \in DOMAIN h /\ h[c].rc > 1
<1>1. Want(h, s, l, c) \in Nat /\ Want(h, s, l, c) >= 1
  BY WantNat DEF Inv
<1>2. Want(h, s, Append(l, c), c) = Want(h, s, l, c) + 1
  <2>1. Times(c, Append(l, c)) = Times(c, l) + 1
    BY TimesAppend DEF One
  <2>2. InHeap(h, Writing(s), c) \in Nat /\ OnStack(s, c) \in Nat /\ Times(c, l) \in Nat
    BY WantNat DEF Inv
  <2>3. QED
    BY <2>1, <2>2 DEF Want
<1>3. Count(h, c) = Want(h, s, Append(l, c), c)
  BY DEF Inv, Balanced
<1>4. QED
  BY <1>1, <1>2, <1>3 DEF Count

LEMMA HeldMore ==
  ASSUME NEW h, NEW s, NEW l \in Refs, NEW c, Held(h, s, <<>>, c)
  PROVE  Held(h, s, l, c)
<1>1. c \notin ToSet(<<>>)
  BY DEF ToSet
<1>2. QED
  BY <1>1 DEF Held

LEMMA WrittenSlots ==
  ASSUME NEW h, NEW s, StackOk(h, s), NEW d, NEW i, <<d, i>> \in Writing(s)
  PROVE  h[d].tag \in {"ARRAY", "WORLD"} /\ i \in DOMAIN h[d].kids
<1>1. PICK k \in DOMAIN s : s[k].do = "store" /\ s[k].cell = d /\ s[k].at = i
  BY DEF Writing
<1>2. QED
  BY <1>1 DEF StackOk, EntryOk

LEMMA CellFacts ==
  ASSUME NEW h, HeapTypes(h), NEW c \in DOMAIN h
  PROVE  /\ c \in Cells /\ c \in Nat /\ c # NULL
         /\ h[c].rc \in Nat /\ h[c].tag \in Tags /\ h[c].kids \in Refs /\ h[c].n \in Nat
         /\ h[c].f \in {"code", "freeIterator"} /\ h[c].owns \in BOOLEAN
         /\ DOMAIN h[c].kids = 1 .. Len(h[c].kids) /\ Len(h[c].kids) \in Nat
         /\ \A i \in DOMAIN h[c].kids : h[c].kids[i] \in Nat
<1>1. c \in Cells /\ h[c] \in CellValue
  BY DEF HeapTypes
<1>2. PICK kids \in Refs : kids = h[c].kids
  BY <1>1 DEF CellValue
<1>3. Len(kids) \in Nat /\ DOMAIN kids = 1 .. Len(kids) /\ \A i \in DOMAIN kids : kids[i] \in Nat
  BY SeqFacts
<1>4. c \in Nat /\ c # NULL
  BY <1>1, OneFacts
<1>5. QED
  BY <1>1, <1>2, <1>3, <1>4 DEF CellValue

LEMMA NamesHeld ==
  ASSUME NEW h, NEW s, NEW l, Inv(h, s, l), NEW k \in DOMAIN s, s[k].do = "run"
  PROVE  /\ s[k].arglist # NULL => /\ Held(h, s, <<>>, s[k].arglist)
                                   /\ Kind(h, s[k].arglist, "ARGLIST")
         /\ \A c \in OwnIn(h, s[k]) : c \in Nat /\ Held(h, s, <<>>, c)
         /\ \A c \in NamedIn(h, s[k]) : c \in Nat \ {NULL} /\ Held(h, s, <<>>, c)
<1> DEFINE e == s[k]
<1>1. /\ e \in Entries /\ HeapTypes(h) /\ HeapOk(h) /\ StackOk(h, s)
      /\ EntryOk(h, e, Below(s, k))
  BY StackRowsRows DEF Inv, StackOk
<1>2. e.arglist \in Nat /\ e.lets \in Refs
  BY <1>1, EntryFacts
<1>3. OwnedBy(e) = (IF e.arglist = NULL THEN <<>> ELSE <<e.arglist>>) \o e.lets
  BY DEF OwnedBy
<1>4. /\ e.arglist # NULL => e.arglist \in ToSet(OwnedBy(e))
      /\ ToSet(e.lets) \subseteq ToSet(OwnedBy(e))
  <2>1. CASE e.arglist = NULL
    <3>1. <<>> \o e.lets = e.lets
      BY <1>2, ConcatEmptySeq DEF Refs
    <3>2. (IF e.arglist = NULL THEN <<>> ELSE <<e.arglist>>) = <<>>
      BY <2>1
    <3>3. OwnedBy(e) = e.lets
      BY <1>3, <3>1, <3>2, Zenon
    <3>4. ToSet(OwnedBy(e)) = ToSet(e.lets)
      BY <3>3, Zenon
    <3>5. QED
      BY <2>1, <3>4
  <2>2. CASE e.arglist # NULL
    <3>1. PICK a \in Refs : a = <<e.arglist>> /\ Len(a) = 1 /\ a[1] = e.arglist
      BY <1>2, TimesOne
    <3>2. PICK b \in Refs : b = e.lets
      BY <1>2
    <3>3. Len(b) \in Nat /\ DOMAIN b = 1 .. Len(b)
      BY SeqFacts
    <3>4. /\ Len(a \o b) = 1 + Len(b) /\ a \o b \in Refs
          /\ \A i \in 1 .. 1 + Len(b) : (a \o b)[i] = IF i <= 1 THEN a[i] ELSE b[i - 1]
      BY <3>1, ConcatProperties DEF Refs
    <3>5. DOMAIN (a \o b) = 1 .. 1 + Len(b)
      BY <3>4, SeqFacts
    <3>6. 1 \in DOMAIN (a \o b) /\ (a \o b)[1] = e.arglist
      BY <3>1, <3>3, <3>4, <3>5
    <3>7. \A i \in DOMAIN b : i + 1 \in DOMAIN (a \o b) /\ (a \o b)[i + 1] = b[i]
      BY <3>3, <3>4, <3>5
    <3>8. OwnedBy(e) = a \o b
      BY <1>3, <2>2, <3>1, <3>2
    <3> DEFINE u == a \o b
    <3> HIDE DEF u
    <3>9. e.arglist \in ToSet(u) /\ ToSet(b) \subseteq ToSet(u)
      <4>1. /\ 1 \in DOMAIN u /\ u[1] = e.arglist
            /\ \A i \in DOMAIN b : i + 1 \in DOMAIN u /\ u[i + 1] = b[i]
        BY <3>6, <3>7, Zenon DEF u
      <4>2. QED
        BY <4>1 DEF ToSet
    <3>10. OwnedBy(e) = u
      BY <3>8, Zenon DEF u
    <3>11. ToSet(OwnedBy(e)) = ToSet(u) /\ ToSet(e.lets) = ToSet(b)
      BY <3>2, <3>10, Zenon
    <3>12. QED
      BY <3>9, <3>11
  <2>3. QED
    BY <2>1, <2>2
<1>5. \A c \in ToSet(OwnedBy(e)) : Held(h, s, <<>>, c)
  BY DEF Held
<1>6. \A d \in DOMAIN h : h[d].tag \in {"ARGLIST", "CONSTRUCTOR"} =>
        \A c \in ToSet(h[d].kids) : c \in Nat /\ Held(h, s, <<>>, c)
  <2> SUFFICES ASSUME NEW d \in DOMAIN h, h[d].tag \in {"ARGLIST", "CONSTRUCTOR"},
                      NEW i \in DOMAIN h[d].kids
               PROVE  h[d].kids[i] \in Nat /\ Held(h, s, <<>>, h[d].kids[i])
    BY DEF ToSet
  <2>1. h[d].owns
    BY <1>1, CellFacts DEF HeapOk, CellOk
  <2>2. <<d, i>> \notin Writing(s)
    BY <1>1, WrittenSlots
  <2>3. h[d].kids[i] \in Nat
    BY <1>1, CellFacts
  <2>4. QED
    BY <2>1, <2>2, <2>3 DEF Held
<1>7. e.arglist # NULL => Kind(h, e.arglist, "ARGLIST")
  BY <1>1 DEF EntryOk
<1>8. \A c \in OwnIn(h, e) : c \in Nat /\ Held(h, s, <<>>, c)
  <2>1. \A c \in ToSet(e.lets) : c \in Nat
    BY <1>2, SeqFacts DEF ToSet
  <2>2. e.arglist # NULL => \A c \in ToSet(h[e.arglist].kids) : c \in Nat /\ Held(h, s, <<>>, c)
    BY <1>6, <1>7 DEF Kind
  <2>3. QED
    BY <1>4, <1>5, <2>1, <2>2 DEF OwnIn
<1>9. \A c \in OwnIn(h, e) \ {NULL} : c \in DOMAIN h
  <2> SUFFICES ASSUME NEW c \in OwnIn(h, e) \ {NULL} PROVE c \in DOMAIN h
    OBVIOUS
  <2>1. c \in Nat \ {NULL} /\ Held(h, s, l, c)
    BY <1>8, HeldMore DEF Inv
  <2>2. QED
    BY <2>1, HeldAlive
<1>10. \A c \in FieldsIn(h, OwnIn(h, e)) : c \in Nat /\ Held(h, s, <<>>, c)
  BY <1>6, <1>9 DEF FieldsIn
<1>11. QED
  BY <1>4, <1>5, <1>7, <1>8, <1>10 DEF NamedIn

(* References are counted, not ordered. *)
LEMMA InvSame ==
  ASSUME NEW h, NEW s, NEW l, NEW m \in Refs, Inv(h, s, l),
         \A c \in Nat \ {NULL} : Times(c, m) = Times(c, l)
  PROVE  Inv(h, s, m)
BY DEF Inv, Balanced, Want

-----------------------------------------------------------------------------
(* An entry on top of a stack. *)

Push(e, t) == <<e>> \o t

LEMMA PushFacts ==
  ASSUME NEW e \in Entries, NEW t \in Stacks
  PROVE  /\ Push(e, t) \in Stacks /\ Len(Push(e, t)) = Len(t) + 1 /\ Push(e, t) # <<>>
         /\ Len(t) \in Nat /\ DOMAIN t = 1 .. Len(t) /\ DOMAIN Push(e, t) = 1 .. Len(t) + 1
         /\ Push(e, t)[1] = e
         /\ \A k \in DOMAIN t : Push(e, t)[k + 1] = t[k]
         /\ \A c : OnStack(Push(e, t), c) = Times(c, OwnedBy(e)) + OnStack(t, c)
<1>0. <<e>> \in Stacks
  BY StackSingle
<1>1. PICK s \in Stacks : s = <<e>> /\ Len(s) = 1 /\ DOMAIN s = {1} /\ s[1] = e
  BY <1>0
<1>2. /\ s \o t \in Stacks /\ Len(s \o t) = Len(s) + Len(t)
      /\ DOMAIN (s \o t) = 1 .. Len(s) + Len(t)
      /\ \A k \in DOMAIN s : (s \o t)[k] = s[k]
      /\ \A k \in DOMAIN t : (s \o t)[k + Len(s)] = t[k]
  BY ConcatFacts
<1>3. \A c : OnStack(s \o t, c) = OnStack(s, c) + OnStack(t, c)
  BY StackConcat
<1>4. \A c : OnStack(<<e>>, c) = Times(c, OwnedBy(e))
  BY StackSingle
<1>5. Len(t) \in Nat /\ DOMAIN t = 1 .. Len(t)
  BY StackRowsRows
<1>6. Push(e, t) = s \o t
  BY <1>1 DEF Push
<1> DEFINE p == s \o t
<1>7. /\ p \in Stacks /\ Len(p) = 1 + Len(t) /\ DOMAIN p = 1 .. 1 + Len(t) /\ p[1] = e
      /\ \A k \in DOMAIN t : p[k + 1] = t[k]
  BY <1>1, <1>2
<1>8. \A c : OnStack(p, c) = Times(c, OwnedBy(e)) + OnStack(t, c)
  BY <1>1, <1>3, <1>4
<1> HIDE DEF p
<1>9. p # <<>> /\ Len(p) = Len(t) + 1 /\ DOMAIN p = 1 .. Len(t) + 1
  BY <1>5, <1>7
<1>10. Push(e, t) = p
  BY <1>6 DEF p
<1>11. QED
  BY <1>5, <1>7, <1>8, <1>9, <1>10

LEMMA TailPush ==
  ASSUME NEW e \in Entries, NEW t \in Stacks
  PROVE  Tail(Push(e, t)) = t
<1>1. PICK p \in Stacks : p = Push(e, t)
  BY PushFacts
<1>2. /\ Len(p) = Len(t) + 1 /\ p # <<>> /\ Len(t) \in Nat /\ DOMAIN t = 1 .. Len(t)
      /\ \A k \in 1 .. Len(t) : p[k + 1] = t[k]
  BY <1>1, PushFacts
<1>3. /\ Tail(p) \in Stacks /\ Len(Tail(p)) = Len(p) - 1
      /\ \A i \in 1 .. Len(Tail(p)) : Tail(p)[i] = p[i + 1]
  BY <1>2, HeadTailProperties DEF Stacks
<1>4. Len(Tail(p)) = Len(t) /\ \A i \in 1 .. Len(Tail(p)) : Tail(p)[i] = t[i]
  BY <1>2, <1>3
<1>5. Tail(p) = t
  BY <1>3, <1>4, SeqEqual DEF Stacks
<1>6. QED
  BY <1>1, <1>5

LEMMA TopAndRest ==
  ASSUME NEW s \in Stacks, s # <<>>
  PROVE  /\ 1 \in DOMAIN s /\ s[1] \in Entries /\ Tail(s) \in Stacks /\ s = Push(s[1], Tail(s))
<1>1. Len(s) \in Nat \ {0} /\ DOMAIN s = 1 .. Len(s) /\ \A k \in DOMAIN s : s[k] \in Entries
  BY StackRowsRows, EmptySeq DEF Stacks
<1>2. 1 \in DOMAIN s /\ s[1] \in Entries
  BY <1>1
<1>3. /\ Tail(s) \in Stacks /\ Len(Tail(s)) = Len(s) - 1
      /\ \A i \in 1 .. Len(Tail(s)) : Tail(s)[i] = s[i + 1]
  BY HeadTailProperties DEF Stacks
<1>4. PICK t \in Stacks : t = Tail(s)
  BY <1>3
<1>5. PICK p \in Stacks : p = Push(s[1], t)
  BY <1>2, PushFacts
<1>6. /\ Len(p) = Len(t) + 1 /\ p[1] = s[1] /\ DOMAIN t = 1 .. Len(t)
      /\ \A k \in DOMAIN t : p[k + 1] = t[k]
  BY <1>2, <1>5, PushFacts
<1>7. Len(p) = Len(s)
  BY <1>1, <1>3, <1>4, <1>6
<1>8. ASSUME NEW i \in 1 .. Len(s) PROVE p[i] = s[i]
  <2>1. CASE i = 1
    BY <1>6, <2>1
  <2>2. CASE i # 1
    <3>1. i - 1 \in 1 .. Len(t) /\ (i - 1) + 1 = i
      BY <1>1, <1>3, <1>4, <2>2
    <3>2. t[i - 1] = s[i] /\ p[i] = t[i - 1]
      BY <1>3, <1>4, <1>6, <3>1
    <3>3. QED
      BY <3>2
  <2>3. QED
    BY <2>1, <2>2
<1>9. p = s
  BY <1>7, <1>8, SeqEqual DEF Stacks
<1>10. QED
  BY <1>2, <1>3, <1>4, <1>5, <1>9

LEMMA PushBelow ==
  ASSUME NEW e \in Entries, NEW t \in Stacks
  PROVE  /\ Below(Push(e, t), 1) = First(t)
         /\ \A k \in DOMAIN t : Below(Push(e, t), k + 1) = Below(t, k)
<1>1. PICK p \in Stacks : p = Push(e, t)
  BY PushFacts
<1>2. /\ Len(p) = Len(t) + 1 /\ Len(t) \in Nat /\ DOMAIN t = 1 .. Len(t)
      /\ \A k \in DOMAIN t : p[k + 1] = t[k]
  BY <1>1, PushFacts
<1>3. t = <<>> <=> Len(t) = 0
  BY <1>2, EmptySeq DEF Stacks
<1>4. Below(p, 1) = First(t)
  <2>1. CASE t = <<>>
    BY <1>2, <1>3, <2>1 DEF Below, First
  <2>2. CASE t # <<>>
    <3>1. 1 \in DOMAIN t /\ 1 < Len(p)
      BY <1>2, <1>3, <2>2
    <3>2. p[1 + 1] = t[1]
      BY <1>2, <3>1
    <3>3. QED
      BY <2>2, <3>1, <3>2 DEF Below, First
  <2>3. QED
    BY <2>1, <2>2
<1>5. ASSUME NEW k \in DOMAIN t PROVE Below(p, k + 1) = Below(t, k)
  <2>1. k \in 1 .. Len(t) /\ (k < Len(t) <=> k + 1 < Len(p))
    BY <1>2
  <2>2. CASE k < Len(t)
    <3>1. k + 1 \in DOMAIN t
      BY <1>2, <2>1, <2>2
    <3>2. p[(k + 1) + 1] = t[k + 1]
      BY <1>2, <3>1
    <3>3. QED
      BY <2>1, <2>2, <3>2 DEF Below
  <2>3. CASE ~(k < Len(t))
    BY <2>1, <2>3 DEF Below
  <2>4. QED
    BY <2>2, <2>3
<1>6. QED
  BY <1>1, <1>4, <1>5

(* A statement about all entries of a stack is one about the top and one   *)
(* about the rest. *)
LEMMA PushIndex ==
  ASSUME NEW e \in Entries, NEW t \in Stacks, NEW j
  PROVE  j \in DOMAIN Push(e, t) <=> j = 1 \/ \E k \in DOMAIN t : j = k + 1
<1>1. /\ Len(t) \in Nat /\ DOMAIN t = 1 .. Len(t) /\ DOMAIN Push(e, t) = 1 .. Len(t) + 1
  BY PushFacts
<1>2. ASSUME j \in 1 .. Len(t) + 1, j # 1 PROVE \E k \in DOMAIN t : j = k + 1
  <2>1. j - 1 \in 1 .. Len(t) /\ j = (j - 1) + 1
    BY <1>1, <1>2
  <2>2. QED
    BY <1>1, <2>1
<1>3. ASSUME NEW k \in DOMAIN t PROVE k + 1 \in 1 .. Len(t) + 1
  BY <1>1
<1>4. 1 \in 1 .. Len(t) + 1
  BY <1>1
<1>5. QED
  BY <1>1, <1>2, <1>3, <1>4

LEMMA PushOk ==
  ASSUME NEW h, NEW e \in Entries, NEW t \in Stacks
  PROVE  StackOk(h, Push(e, t)) <=> EntryOk(h, e, First(t)) /\ StackOk(h, t)
<1>1. PICK p \in Stacks : p = Push(e, t)
  BY PushFacts
<1>2. /\ p[1] = e /\ Below(p, 1) = First(t)
      /\ \A k \in DOMAIN t : p[k + 1] = t[k] /\ Below(p, k + 1) = Below(t, k)
  BY <1>1, PushFacts, PushBelow
<1>3. \A j : j \in DOMAIN p <=> j = 1 \/ \E k \in DOMAIN t : j = k + 1
  BY <1>1, PushIndex
<1>4. StackOk(h, p) <=> EntryOk(h, e, First(t)) /\ StackOk(h, t)
  BY <1>2, <1>3 DEF StackOk
<1>5. QED
  BY <1>1, <1>4

LEMMA PushDistinct ==
  ASSUME NEW e \in Entries, NEW t \in Stacks
  PROVE  Distinct(Push(e, t)) <=> Distinct(t) /\ \A k \in DOMAIN t : ~Clash(e, t[k])
<1>1. PICK p \in Stacks : p = Push(e, t)
  BY PushFacts
<1>2. p[1] = e /\ \A k \in DOMAIN t : p[k + 1] = t[k]
  BY <1>1, PushFacts
<1>3. \A j : j \in DOMAIN p <=> j = 1 \/ \E k \in DOMAIN t : j = k + 1
  BY <1>1, PushIndex
<1>4. \A a, b : Clash(a, b) <=> Clash(b, a)
  BY DEF Clash
<1>5. \A k \in DOMAIN t : k \in Nat /\ k + 1 # 1 /\ \A j \in DOMAIN t : j + 1 = k + 1 => j = k
  BY PushFacts
<1>6. ASSUME Distinct(p) PROVE Distinct(t) /\ \A k \in DOMAIN t : ~Clash(e, t[k])
  <2>1. \A k \in DOMAIN t : ~Clash(p[1], p[k + 1])
    BY <1>3, <1>5, <1>6 DEF Distinct
  <2>2. \A j, k \in DOMAIN t : j # k => ~Clash(p[j + 1], p[k + 1])
    BY <1>3, <1>5, <1>6 DEF Distinct
  <2>3. QED
    BY <1>2, <2>1, <2>2 DEF Distinct
<1>7. ASSUME Distinct(t), \A k \in DOMAIN t : ~Clash(e, t[k]) PROVE Distinct(p)
  <2> SUFFICES ASSUME NEW i \in DOMAIN p, NEW j \in DOMAIN p, i # j PROVE ~Clash(p[i], p[j])
    BY DEF Distinct
  <2>1. CASE i = 1
    BY <1>2, <1>3, <1>7, <2>1
  <2>2. CASE j = 1
    BY <1>2, <1>3, <1>4, <1>7, <2>2
  <2>3. CASE i # 1 /\ j # 1
    BY <1>2, <1>3, <1>7, <2>3 DEF Distinct
  <2>4. QED
    BY <2>1, <2>2, <2>3
<1>8. QED
  BY <1>1, <1>6, <1>7

LEMMA PushWriting ==
  ASSUME NEW e \in Entries, NEW t \in Stacks
  PROVE  Writing(Push(e, t)) =
           IF e.do = "store" THEN Writing(t) \union {<<e.cell, e.at>>} ELSE Writing(t)
<1>1. PICK p \in Stacks : p = Push(e, t)
  BY PushFacts
<1>2. p[1] = e /\ \A k \in DOMAIN t : p[k + 1] = t[k]
  BY <1>1, PushFacts
<1>3. \A j : j \in DOMAIN p <=> j = 1 \/ \E k \in DOMAIN t : j = k + 1
  BY <1>1, PushIndex
<1>4. \A x : x \in Writing(p) <=> \E j \in DOMAIN p : p[j].do = "store" /\ x = <<p[j].cell, p[j].at>>
  BY DEF Writing
<1>5. \A x : x \in Writing(t) <=> \E j \in DOMAIN t : t[j].do = "store" /\ x = <<t[j].cell, t[j].at>>
  BY DEF Writing
<1>6. \A x : x \in Writing(p) <=> \/ e.do = "store" /\ x = <<e.cell, e.at>>
                                  \/ x \in Writing(t)
  BY <1>2, <1>3, <1>4, <1>5
<1>7. QED
  BY <1>1, <1>6

-----------------------------------------------------------------------------
(* An entry takes over references, and gives them back. *)

Clear(e, t) == \A k \in DOMAIN t : ~Clash(e, t[k])

LEMMA PushInv ==
  ASSUME NEW h, NEW e \in Entries, NEW t \in Stacks, e.do # "store",
         NEW l \in Refs, NEW m \in Refs,
         \A c \in Nat \ {NULL} : Times(c, m) = Times(c, l) + Times(c, OwnedBy(e))
  PROVE  Inv(h, Push(e, t), l) <=> Inv(h, t, m) /\ EntryOk(h, e, First(t)) /\ Clear(e, t)
<1>1. PICK p \in Stacks : p = Push(e, t)
  BY PushFacts
<1>2. /\ Writing(p) = Writing(t)
      /\ StackOk(h, p) <=> EntryOk(h, e, First(t)) /\ StackOk(h, t)
      /\ Distinct(p) <=> Distinct(t) /\ Clear(e, t)
  BY <1>1, PushWriting, PushOk, PushDistinct DEF Clear
<1>3. ASSUME HeapTypes(h) PROVE Balanced(h, p, l) <=> Balanced(h, t, m)
  <2> SUFFICES ASSUME NEW c \in Nat \ {NULL} PROVE Want(h, p, l, c) = Want(h, t, m, c)
    BY DEF Balanced
  <2>1. OnStack(p, c) = Times(c, OwnedBy(e)) + OnStack(t, c)
    BY <1>1, PushFacts
  <2>2. OwnedBy(e) \in Refs
    BY OwnedByRefs
  <2>3. /\ InHeap(h, Writing(t), c) \in Nat /\ OnStack(t, c) \in Nat /\ Times(c, l) \in Nat
        /\ Times(c, OwnedBy(e)) \in Nat
    BY <1>3, <2>2, WantNat, TimesNat
  <2>4. Times(c, m) = Times(c, l) + Times(c, OwnedBy(e))
    OBVIOUS
  <2>5. QED
    BY <1>2, <2>1, <2>3, <2>4 DEF Want
<1>4. Inv(h, p, l) <=> Inv(h, t, m) /\ EntryOk(h, e, First(t)) /\ Clear(e, t)
  BY <1>2, <1>3 DEF Inv
<1>5. QED
  BY <1>1, <1>4

LEMMA ClearFacts ==
  ASSUME NEW e, NEW t, e.do \notin {"store", "free"}
  PROVE  Clear(e, t)
BY DEF Clear, Clash

LEMMA PushDrop ==
  ASSUME NEW h, NEW t \in Stacks, NEW l \in Refs, NEW d \in Nat
  PROVE  /\ Push(Drop(d), t) \in Stacks
         /\ Inv(h, Push(Drop(d), t), l) <=> Inv(h, t, Append(l, d))
<1>1. PICK e \in Entries : e = Drop(d) /\ e.do = "drop"
  BY MakeEntries
<1>2. PICK m \in Refs : m = Append(l, d)
  BY TimesAppend
<1>3. \A c \in Nat \ {NULL} : Times(c, m) = Times(c, l) + Times(c, OwnedBy(e))
  BY <1>1, <1>2, TimesAppend, TimesOwnedBy
<1>4. EntryOk(h, e, First(t)) /\ Clear(e, t)
  BY <1>1, ClearFacts DEF EntryOk
<1>5. Push(e, t) \in Stacks /\ (Inv(h, Push(e, t), l) <=> Inv(h, t, m))
  BY <1>1, <1>3, <1>4, PushInv, PushFacts
<1>6. QED
  BY <1>1, <1>2, <1>5

Frame(t) == First(t).do \in {"run", "forget", "closure1"}

LEMMA PushDeliver ==
  ASSUME NEW h, NEW t \in Stacks, NEW l \in Refs, NEW d \in Nat
  PROVE  /\ Push(Deliver(d), t) \in Stacks
         /\ Inv(h, Push(Deliver(d), t), l) <=> Inv(h, t, Append(l, d)) /\ Frame(t)
<1>1. PICK e \in Entries : e = Deliver(d) /\ e.do = "deliver"
  BY MakeEntries
<1>2. PICK m \in Refs : m = Append(l, d)
  BY TimesAppend
<1>3. \A c \in Nat \ {NULL} : Times(c, m) = Times(c, l) + Times(c, OwnedBy(e))
  BY <1>1, <1>2, TimesAppend, TimesOwnedBy
<1>4. (EntryOk(h, e, First(t)) <=> Frame(t)) /\ Clear(e, t)
  BY <1>1, ClearFacts DEF EntryOk, Frame
<1>5. Push(e, t) \in Stacks /\ (Inv(h, Push(e, t), l) <=> Inv(h, t, m) /\ Frame(t))
  BY <1>1, <1>3, <1>4, PushInv, PushFacts
<1>6. QED
  BY <1>1, <1>2, <1>5

LEMMA PushForget ==
  ASSUME NEW h, NEW t \in Stacks, NEW l \in Refs
  PROVE  /\ Push(Forget, t) \in Stacks
         /\ Inv(h, Push(Forget, t), l) <=> Inv(h, t, l)
<1>1. PICK e \in Entries : e = Forget /\ e.do = "forget"
  BY MakeEntries
<1>2. \A c \in Nat \ {NULL} : Times(c, l) = Times(c, l) + Times(c, OwnedBy(e))
  <2> SUFFICES ASSUME NEW c \in Nat \ {NULL} PROVE Times(c, l) = Times(c, l) + Times(c, OwnedBy(e))
    OBVIOUS
  <2>1. Times(c, OwnedBy(e)) = 0
    BY <1>1, TimesOwnedBy
  <2>2. Times(c, l) \in Nat
    BY TimesNat
  <2>3. QED
    BY <2>1, <2>2
<1>3. EntryOk(h, e, First(t)) /\ Clear(e, t)
  BY <1>1, ClearFacts DEF EntryOk
<1>4. Push(e, t) \in Stacks /\ (Inv(h, Push(e, t), l) <=> Inv(h, t, l))
  BY <1>1, <1>2, <1>3, PushInv, PushFacts
<1>5. QED
  BY <1>1, <1>4

LEMMA PushAwaits ==
  ASSUME NEW h, NEW t \in Stacks, NEW l \in Refs
  PROVE  /\ Push(Awaits1, t) \in Stacks
         /\ Inv(h, Push(Awaits1, t), l) <=> Inv(h, t, l)
<1>1. PICK e \in Entries : e = Awaits1 /\ e.do = "closure1"
  BY MakeEntries
<1>2. \A c \in Nat \ {NULL} : Times(c, l) = Times(c, l) + Times(c, OwnedBy(e))
  <2> SUFFICES ASSUME NEW c \in Nat \ {NULL} PROVE Times(c, l) = Times(c, l) + Times(c, OwnedBy(e))
    OBVIOUS
  <2>1. Times(c, OwnedBy(e)) = 0
    BY <1>1, TimesOwnedBy
  <2>2. Times(c, l) \in Nat
    BY TimesNat
  <2>3. QED
    BY <2>1, <2>2
<1>3. EntryOk(h, e, First(t)) /\ Clear(e, t)
  BY <1>1, ClearFacts DEF EntryOk
<1>4. Push(e, t) \in Stacks /\ (Inv(h, Push(e, t), l) <=> Inv(h, t, l))
  BY <1>1, <1>2, <1>3, PushInv, PushFacts
<1>5. QED
  BY <1>1, <1>4

Freed(h, t, c) ==
  /\ c \in DOMAIN h /\ h[c].rc = 0 /\ h[c].kids = <<>>
  /\ \A k \in DOMAIN t : t[k].do = "free" => t[k].cell # c

LEMMA PushFree ==
  ASSUME NEW h, NEW t \in Stacks, NEW l \in Refs, NEW d \in Nat
  PROVE  /\ Push(Free(d), t) \in Stacks
         /\ Inv(h, Push(Free(d), t), l) <=> Inv(h, t, l) /\ Freed(h, t, d)
<1>1. PICK e \in Entries : e = Free(d) /\ e.do = "free" /\ e.cell = d
  BY MakeEntries DEF Free
<1>2. \A c \in Nat \ {NULL} : Times(c, l) = Times(c, l) + Times(c, OwnedBy(e))
  <2> SUFFICES ASSUME NEW c \in Nat \ {NULL} PROVE Times(c, l) = Times(c, l) + Times(c, OwnedBy(e))
    OBVIOUS
  <2>1. Times(c, OwnedBy(e)) = 0
    BY <1>1, TimesOwnedBy
  <2>2. Times(c, l) \in Nat
    BY TimesNat
  <2>3. QED
    BY <2>1, <2>2
<1>3. EntryOk(h, e, First(t)) /\ Clear(e, t) <=> Freed(h, t, d)
  BY <1>1 DEF EntryOk, Clear, Clash, Freed
<1>4. Push(e, t) \in Stacks
  BY PushFacts
<1>5. Inv(h, Push(e, t), l) <=> Inv(h, t, l) /\ EntryOk(h, e, First(t)) /\ Clear(e, t)
  BY <1>1, <1>2, PushInv
<1>6. Inv(h, Push(e, t), l) <=> Inv(h, t, l) /\ Freed(h, t, d)
  BY <1>3, <1>5, Zenon
<1>7. QED
  BY <1>1, <1>4, <1>6

ArglistOk(h, al) == al = NULL \/ Kind(h, al, "ARGLIST")

LEMMA PushRun ==
  ASSUME NEW h, NEW t \in Stacks, NEW l \in Refs,
         NEW f \in {"code", "freeIterator"}, NEW al \in Nat, NEW lets \in Refs
  PROVE  /\ Push(Run(f, al, lets), t) \in Stacks
         /\ Append(l \o lets, al) \in Refs
         /\ Inv(h, Push(Run(f, al, lets), t), l) <=>
              Inv(h, t, Append(l \o lets, al)) /\ ArglistOk(h, al) /\ Frame(t)
<1>1. PICK e \in Entries : e = Run(f, al, lets) /\ e.do = "run" /\ e.arglist = al
  BY MakeEntries DEF Run
<1>2. PICK k \in Refs : k = l \o lets
  BY TimesConcat
<1>3. PICK m \in Refs : m = Append(k, al)
  BY TimesAppend
<1>4. \A c \in Nat \ {NULL} : Times(c, m) = Times(c, l) + Times(c, OwnedBy(e))
  <2> SUFFICES ASSUME NEW c \in Nat \ {NULL}
               PROVE  Times(c, m) = Times(c, l) + Times(c, OwnedBy(e))
    OBVIOUS
  <2>1. Times(c, k) = Times(c, l) + Times(c, lets)
    BY <1>2, TimesConcat
  <2>2. Times(c, m) = Times(c, k) + One(c, al)
    BY <1>3, TimesAppend
  <2>3. Times(c, OwnedBy(e)) = One(c, al) + Times(c, lets)
    <3>1. \A g : \A a \in Nat, s \in Refs :
            Times(c, OwnedBy(Run(g, a, s))) = One(c, a) + Times(c, s)
      BY TimesOwnedBy
    <3>2. Times(c, OwnedBy(Run(f, al, lets))) = One(c, al) + Times(c, lets)
      BY <3>1
    <3>3. QED
      BY <1>1, <3>2
  <2>4. Times(c, l) \in Nat /\ Times(c, lets) \in Nat /\ One(c, al) \in Nat
    BY TimesNat DEF One
  <2>5. QED
    BY <2>1, <2>2, <2>3, <2>4
<1>5. (EntryOk(h, e, First(t)) <=> ArglistOk(h, al) /\ Frame(t)) /\ Clear(e, t)
  BY <1>1, ClearFacts DEF EntryOk, ArglistOk, Frame
<1>6. /\ Push(e, t) \in Stacks
      /\ Inv(h, Push(e, t), l) <=> Inv(h, t, m) /\ ArglistOk(h, al) /\ Frame(t)
  <2>1. Inv(h, Push(e, t), l) <=> Inv(h, t, m) /\ EntryOk(h, e, First(t)) /\ Clear(e, t)
    <3>1. e.do # "store"
      BY <1>1
    <3>2. QED
      BY <1>4, <3>1, PushInv
  <2>2. QED
    BY <1>5, <2>1, PushFacts
<1>7. Append(l \o lets, al) = m
  BY <1>2, <1>3, Zenon
<1>8. Push(Run(f, al, lets), t) = Push(e, t)
  BY <1>1
<1>9. QED
  BY <1>6, <1>7, <1>8, Zenon

LEMMA PushDrops ==
  ASSUME NEW h, NEW t \in Stacks, NEW l \in Refs, NEW cells \in Refs,
         Inv(h, t, l \o cells)
  PROVE  Drops(cells) \o t \in Stacks /\ Inv(h, Drops(cells) \o t, l)
<1> DEFINE m == l \o cells
           ds == Drops(cells)
           p == ds \o t
<1>1. m \in Refs /\ \A c : Times(c, m) = Times(c, l) + Times(c, cells)
  BY TimesConcat
<1>2. /\ ds \in Stacks /\ DOMAIN ds = DOMAIN cells
      /\ \A k \in DOMAIN ds : ds[k] = Drop(cells[k])
      /\ \A c : OnStack(ds, c) = Times(c, cells)
  BY StackDrops
<1>3. /\ Len(ds) \in Nat /\ DOMAIN ds = 1 .. Len(ds)
      /\ Len(t) \in Nat /\ DOMAIN t = 1 .. Len(t)
  BY <1>2, StackRowsRows
<1> HIDE DEF m, ds
<1>4. /\ p \in Stacks /\ Len(p) = Len(ds) + Len(t) /\ DOMAIN p = 1 .. Len(ds) + Len(t)
      /\ \A k \in DOMAIN ds : p[k] = ds[k]
      /\ \A k \in DOMAIN t : p[k + Len(ds)] = t[k]
      /\ \A c : OnStack(p, c) = OnStack(ds, c) + OnStack(t, c)
  BY <1>2, ConcatFacts, StackConcat
<1>5. Inv(h, t, m)
  BY DEF m
<1> HIDE DEF p
<1>6. \A k \in DOMAIN p : \/ k \in DOMAIN ds /\ p[k].do = "drop"
                          \/ \E j \in DOMAIN t : k = j + Len(ds)
  <2> SUFFICES ASSUME NEW k \in DOMAIN p, k \notin DOMAIN ds
               PROVE  \E j \in DOMAIN t : k = j + Len(ds)
    BY <1>2, <1>4, MakeEntries DEF Drop
  <2>1. k - Len(ds) \in 1 .. Len(t) /\ k = (k - Len(ds)) + Len(ds)
    BY <1>3, <1>4
  <2>2. QED
    BY <1>3, <2>1
<1>7. \A j \in DOMAIN t : j + Len(ds) \in DOMAIN p /\ Below(p, j + Len(ds)) = Below(t, j)
  <2> SUFFICES ASSUME NEW j \in DOMAIN t
               PROVE  j + Len(ds) \in DOMAIN p /\ Below(p, j + Len(ds)) = Below(t, j)
    OBVIOUS
  <2>1. j \in 1 .. Len(t) /\ j + Len(ds) \in DOMAIN p /\ (j < Len(t) <=> j + Len(ds) < Len(p))
    BY <1>3, <1>4
  <2>2. CASE j < Len(t)
    <3>1. j + 1 \in DOMAIN t /\ (j + Len(ds)) + 1 = (j + 1) + Len(ds)
      BY <1>3, <2>1, <2>2
    <3>2. p[(j + Len(ds)) + 1] = t[j + 1]
      BY <1>4, <3>1
    <3>3. QED
      BY <2>1, <2>2, <3>2 DEF Below
  <2>3. CASE ~(j < Len(t))
    BY <2>1, <2>3 DEF Below
  <2>4. QED
    BY <2>2, <2>3
<1>8. StackOk(h, p)
  <2>1. StackOk(h, t)
    BY <1>5 DEF Inv
  <2>2. ASSUME NEW k \in DOMAIN p, p[k].do = "drop" PROVE EntryOk(h, p[k], Below(p, k))
    BY <2>2 DEF EntryOk
  <2>3. ASSUME NEW j \in DOMAIN t
        PROVE  EntryOk(h, p[j + Len(ds)], Below(p, j + Len(ds)))
    BY <1>4, <1>7, <2>1 DEF StackOk
  <2>4. QED
    BY <1>6, <2>2, <2>3 DEF StackOk
<1>9. Distinct(p)
  <2>1. \A j, k \in DOMAIN t : j # k => ~Clash(t[j], t[k])
    BY <1>5 DEF Inv, Distinct
  <2>2. \A a, b : a.do = "drop" \/ b.do = "drop" => ~Clash(a, b)
    BY DEF Clash
  <2>3. QED
    BY <1>4, <1>6, <2>1, <2>2 DEF Distinct
<1>10. Writing(p) = Writing(t)
  <2>1. \A x : x \in Writing(p) <=> \E j \in DOMAIN p : p[j].do = "store" /\ x = <<p[j].cell, p[j].at>>
    BY DEF Writing
  <2>2. \A x : x \in Writing(t) <=> \E j \in DOMAIN t : t[j].do = "store" /\ x = <<t[j].cell, t[j].at>>
    BY DEF Writing
  <2>3. \A x : x \in Writing(p) <=> x \in Writing(t)
    BY <1>4, <1>6, <1>7, <2>1, <2>2
  <2>4. QED
    BY <2>3
<1>11. Balanced(h, p, l)
  <2>1. Balanced(h, t, m) /\ HeapTypes(h)
    BY <1>5 DEF Inv
  <2> SUFFICES ASSUME NEW c \in Nat \ {NULL} PROVE Want(h, p, l, c) = Want(h, t, m, c)
    BY <2>1 DEF Balanced
  <2>2. /\ InHeap(h, Writing(t), c) \in Nat /\ OnStack(t, c) \in Nat /\ Times(c, l) \in Nat
        /\ Times(c, cells) \in Nat
    BY <2>1, WantNat, TimesNat
  <2>3. /\ OnStack(p, c) = Times(c, cells) + OnStack(t, c)
        /\ Times(c, m) = Times(c, l) + Times(c, cells)
    BY <1>1, <1>2, <1>4
  <2>4. QED
    BY <1>10, <2>2, <2>3 DEF Want
<1>12. p \in Stacks /\ Inv(h, p, l)
  BY <1>4, <1>5, <1>8, <1>9, <1>11 DEF Inv
<1>13. QED
  BY <1>12 DEF p, ds

LEMMA EntryForms ==
  ASSUME NEW e \in Entries
  PROVE  /\ e.do = "run" => /\ e = Run(e.f, e.arglist, e.lets)
                            /\ \A x : [e EXCEPT !.lets = x] = Run(e.f, e.arglist, x)
         /\ e.do = "drop" => e = Drop(e.cell)
         /\ e.do = "free" => e = Free(e.cell)
         /\ e.do = "deliver" => e = Deliver(e.cell)
         /\ e.do = "forget" => e = Forget
         /\ e.do = "closure1" => e = Awaits1
         /\ e.do = "store" => e = Store(e.cell, e.at, e.value)
BY DEF Entries, Run, Drop, Free, Deliver, Forget, Awaits1, Store

-----------------------------------------------------------------------------
(* Changes of the heap that the stack does not notice. *)

Like(h, k, c) ==
  /\ c \in DOMAIN k /\ k[c].tag = h[c].tag /\ DOMAIN h[c].kids \subseteq DOMAIN k[c].kids
  /\ h[c].tag \in {"ARGLIST", "CONSTRUCTOR"} => k[c].kids = h[c].kids

LEMMA NamesKept ==
  ASSUME NEW h, NEW s, NEW l, Inv(h, s, l), NEW j \in DOMAIN s, s[j].do = "run", NEW k,
         \A c \in Nat \ {NULL} : Held(h, s, <<>>, c) => Like(h, k, c)
  PROVE  NamedIn(k, s[j]) = NamedIn(h, s[j])
<1>1. s[j] \in Entries
  BY StackRowsRows DEF Inv
<1>2. s[j].arglist # NULL => /\ Kind(h, s[j].arglist, "ARGLIST") /\ Like(h, k, s[j].arglist)
  BY <1>1, NamesHeld, EntryFacts
<1>3. OwnIn(k, s[j]) = OwnIn(h, s[j])
  BY <1>2 DEF OwnIn, Kind, Like
<1>4. \A c \in OwnIn(h, s[j]) \ {NULL} : Like(h, k, c)
  BY NamesHeld
<1>5. FieldsIn(k, OwnIn(h, s[j])) = FieldsIn(h, OwnIn(h, s[j]))
  <2> DEFINE own == OwnIn(h, s[j])
             G(x) == {d \in own \ {NULL} : x[d].tag = "CONSTRUCTOR"}
  <2>1. \A c \in own \ {NULL} : k[c].tag = h[c].tag
    BY <1>4 DEF Like
  <2>2. G(k) = G(h)
    BY <2>1
  <2>3. \A c \in G(h) : k[c].kids = h[c].kids
    BY <1>4 DEF Like
  <2> HIDE DEF G
  <2>4. {ToSet(k[c].kids) : c \in G(h)} = {ToSet(h[c].kids) : c \in G(h)}
    BY <2>3
  <2>5. QED
    BY <2>2, <2>4, Zenon DEF FieldsIn, G
<1>6. QED
  BY <1>3, <1>5, Zenon DEF NamedIn

LEMMA StackKept ==
  ASSUME NEW h, NEW s, NEW l, Inv(h, s, l), NEW k,
         \A c \in Nat \ {NULL} : Held(h, s, <<>>, c) => Like(h, k, c),
         \A j \in DOMAIN s : s[j].do = "free" =>
            s[j].cell \in DOMAIN k /\ k[s[j].cell].rc = 0 /\ k[s[j].cell].kids = <<>>
  PROVE  StackOk(k, s)
<1> SUFFICES ASSUME NEW j \in DOMAIN s PROVE EntryOk(k, s[j], Below(s, j))
  BY DEF StackOk
<1>1. /\ EntryOk(h, s[j], Below(s, j)) /\ s[j] \in Entries
      /\ Len(s) \in Nat /\ DOMAIN s = 1 .. Len(s)
  BY StackRowsRows DEF Inv, StackOk
<1>2. s[j].do = "run" => s[j].arglist = NULL \/ Kind(k, s[j].arglist, "ARGLIST")
  <2> SUFFICES ASSUME s[j].do = "run", s[j].arglist # NULL PROVE Kind(k, s[j].arglist, "ARGLIST")
    OBVIOUS
  <2>1. Kind(h, s[j].arglist, "ARGLIST") /\ Held(h, s, <<>>, s[j].arglist) /\ s[j].arglist \in Nat
    BY <1>1, NamesHeld, EntryFacts
  <2>2. QED
    BY <2>1 DEF Kind, Like
<1>3. s[j].do = "store" =>
        /\ Below(s, j).do = "run" /\ {s[j].cell, s[j].value} \subseteq NamedIn(k, Below(s, j))
        /\ k[s[j].cell].tag \in {"ARRAY", "WORLD"}
        /\ s[j].at \in DOMAIN k[s[j].cell].kids
  <2> SUFFICES ASSUME s[j].do = "store"
               PROVE  /\ Below(s, j).do = "run"
                      /\ {s[j].cell, s[j].value} \subseteq NamedIn(k, Below(s, j))
                      /\ k[s[j].cell].tag \in {"ARRAY", "WORLD"}
                      /\ s[j].at \in DOMAIN k[s[j].cell].kids
    OBVIOUS
  <2>1. /\ Below(s, j).do = "run" /\ {s[j].cell, s[j].value} \subseteq NamedIn(h, Below(s, j))
        /\ h[s[j].cell].tag \in {"ARRAY", "WORLD"}
        /\ s[j].at \in DOMAIN h[s[j].cell].kids
    BY <1>1 DEF EntryOk
  <2>2. j < Len(s)
    BY <2>1 DEF Below, Forget
  <2>3. Below(s, j) = s[j + 1] /\ j + 1 \in DOMAIN s
    BY <1>1, <2>2 DEF Below
  <2>4. NamedIn(k, s[j + 1]) = NamedIn(h, s[j + 1])
    BY <2>1, <2>3, NamesKept
  <2>5. s[j].cell \in Nat \ {NULL} /\ Held(h, s, <<>>, s[j].cell)
    BY <2>1, <2>3, NamesHeld
  <2>6. QED
    BY <2>1, <2>3, <2>4, <2>5 DEF Like
<1>4. QED
  BY <1>1, <1>2, <1>3 DEF EntryOk

LEMMA WrittenHeld ==
  ASSUME NEW h, NEW s, NEW l, Inv(h, s, l), NEW d, NEW i, <<d, i>> \in Writing(s)
  PROVE  /\ d \in DOMAIN h /\ Held(h, s, <<>>, d)
         /\ h[d].tag \in {"ARRAY", "WORLD"} /\ i \in DOMAIN h[d].kids
<1>1. PICK j \in DOMAIN s : s[j].do = "store" /\ s[j].cell = d /\ s[j].at = i
  BY DEF Writing
<1>2. /\ EntryOk(h, s[j], Below(s, j)) /\ Len(s) \in Nat /\ DOMAIN s = 1 .. Len(s)
  BY StackRowsRows DEF Inv, StackOk
<1>3. j < Len(s)
  BY <1>1, <1>2 DEF EntryOk, Below, Forget
<1>4. Below(s, j) = s[j + 1] /\ j + 1 \in DOMAIN s /\ s[j + 1].do = "run" /\ d \in NamedIn(h, s[j + 1])
  BY <1>1, <1>2, <1>3 DEF Below, EntryOk
<1>5. d \in Nat \ {NULL} /\ Held(h, s, <<>>, d)
  BY <1>4, NamesHeld
<1>6. d \in DOMAIN h
  BY <1>5, HeldMore, HeldAlive DEF Inv
<1>7. QED
  BY <1>1, <1>2, <1>5, <1>6 DEF EntryOk

(* What the change of a heap must leave for the invariant to hold. *)
LEMMA HeapInv ==
  ASSUME NEW h, NEW s, NEW l, Inv(h, s, l), NEW k, HeapTypes(k), HeapOk(k), NEW m \in Refs,
         \A c \in Nat \ {NULL} : Held(h, s, <<>>, c) => Like(h, k, c),
         \A j \in DOMAIN s : s[j].do = "free" =>
            s[j].cell \in DOMAIN k /\ k[s[j].cell].rc = 0 /\ k[s[j].cell].kids = <<>>,
         \A c \in Nat \ {NULL} :
            Count(k, c) - Count(h, c) =
              InHeap(k, Writing(s), c) - InHeap(h, Writing(s), c) + Times(c, m) - Times(c, l)
  PROVE  Inv(k, s, m)
<1>1. StackOk(k, s)
  BY StackKept
<1>2. Balanced(k, s, m)
  <2> SUFFICES ASSUME NEW c \in Nat \ {NULL} PROVE Count(k, c) = Want(k, s, m, c)
    BY DEF Balanced
  <2>1. Count(h, c) = Want(h, s, l, c)
    BY DEF Inv, Balanced
  <2>2. /\ InHeap(h, Writing(s), c) \in Nat /\ OnStack(s, c) \in Nat /\ Times(c, l) \in Nat
        /\ InHeap(k, Writing(s), c) \in Nat /\ Times(c, m) \in Nat
    BY HeapNat, StackNat, TimesNat DEF Inv
  <2>3. Count(k, c) \in Nat /\ Count(h, c) \in Nat
    BY CellFacts DEF Count, Inv
  <2>4. Count(k, c) - Count(h, c) =
              InHeap(k, Writing(s), c) - InHeap(h, Writing(s), c) + Times(c, m) - Times(c, l)
    OBVIOUS
  <2>5. \A a, b, x, y, o, t, u \in Nat : b = x + o + t /\ a - b = y - x + u - t => a = y + o + u
    OBVIOUS
  <2>6. Count(h, c) = InHeap(h, Writing(s), c) + OnStack(s, c) + Times(c, l)
    BY <2>1 DEF Want
  <2>7. Count(k, c) = InHeap(k, Writing(s), c) + OnStack(s, c) + Times(c, m)
    <3> DEFINE a == Count(k, c)
               b == Count(h, c)
               x == InHeap(h, Writing(s), c)
               y == InHeap(k, Writing(s), c)
               o == OnStack(s, c)
               t == Times(c, l)
               u == Times(c, m)
    <3>1. a \in Nat /\ b \in Nat /\ x \in Nat /\ y \in Nat /\ o \in Nat /\ t \in Nat /\ u \in Nat
      BY <2>2, <2>3
    <3>2. b = x + o + t /\ a - b = y - x + u - t
      BY <2>4, <2>6
    <3> HIDE DEF a, b, x, y, o, t, u
    <3>3. a = y + o + u
      BY <2>5, <3>1, <3>2
    <3>4. QED
      BY <3>3 DEF a, y, o, u
  <2>8. QED
    BY <2>7 DEF Want
<1>3. QED
  BY <1>1, <1>2 DEF Inv

Alive(h, cells) == \A c \in ToSet(cells) \ {NULL} : c \in DOMAIN h /\ h[c].rc > 0

LEMMA TakeFacts ==
  ASSUME NEW h, HeapTypes(h), NEW cells \in Refs
  PROVE  LET k == newReference(h, cells)
         IN  /\ HeapTypes(k) /\ DOMAIN k = DOMAIN h
             /\ \A c \in DOMAIN h :
                  /\ k[c].tag = h[c].tag /\ k[c].kids = h[c].kids /\ k[c].n = h[c].n
                  /\ k[c].f = h[c].f /\ k[c].owns = h[c].owns
                  /\ k[c].rc = h[c].rc + Times(c, cells)
<1> DEFINE k == newReference(h, cells)
<1>1. \A c : Times(c, cells) \in Nat
  BY TimesNat
<1>2. DOMAIN k = DOMAIN h /\ \A c \in DOMAIN h : k[c] = [h[c] EXCEPT !.rc = @ + Times(c, cells)]
  BY DEF newReference
<1>3. ASSUME NEW c \in DOMAIN h
      PROVE  /\ k[c].tag = h[c].tag /\ k[c].kids = h[c].kids /\ k[c].n = h[c].n
             /\ k[c].f = h[c].f /\ k[c].owns = h[c].owns
             /\ k[c].rc = h[c].rc + Times(c, cells)
             /\ k[c] \in CellValue
  <2>1. h[c] \in CellValue
    BY DEF HeapTypes
  <2>2. h[c].rc + Times(c, cells) \in Nat
    BY <1>1, <2>1 DEF CellValue
  <2>3. QED
    BY <1>2, <2>1, <2>2 DEF CellValue
<1> HIDE DEF k
<1>4. HeapTypes(k)
  BY <1>2, <1>3 DEF HeapTypes
<1>5. QED
  BY <1>2, <1>3, <1>4 DEF k

(* A new reference to values that are alive. *)
LEMMA TakeInv ==
  ASSUME NEW h, NEW s, NEW l, Inv(h, s, l), NEW cells \in Refs, Alive(h, cells)
  PROVE  Inv(newReference(h, cells), s, l \o cells)
<1> DEFINE k == newReference(h, cells)
<1>0. l \in Refs
  BY DEF Inv
<1>a. PICK m \in Refs : m = l \o cells
  BY <1>0, TimesConcat
<1>1. m = l \o cells /\ \A c : Times(c, m) = Times(c, l) + Times(c, cells)
  BY <1>0, <1>a, TimesConcat
<1>2. /\ HeapTypes(h) /\ HeapTypes(k) /\ DOMAIN k = DOMAIN h
      /\ \A c \in DOMAIN h :
           /\ k[c].tag = h[c].tag /\ k[c].kids = h[c].kids /\ k[c].n = h[c].n
           /\ k[c].f = h[c].f /\ k[c].owns = h[c].owns
           /\ k[c].rc = h[c].rc + Times(c, cells)
  BY TakeFacts DEF Inv
<1> HIDE DEF k
<1>3. \A c \in DOMAIN h : Times(c, cells) \in Nat /\ (Times(c, cells) # 0 => h[c].rc > 0)
  BY TimesNat, CellFacts, <1>2 DEF Alive
<1>4. \A c \in DOMAIN h : h[c].rc \in Nat /\ (k[c].rc > 0 <=> h[c].rc > 0)
  BY <1>2, <1>3, CellFacts
<1>5. HeapOk(k)
  <2> SUFFICES ASSUME NEW c \in DOMAIN h PROVE CellOk(k, c)
    BY <1>2 DEF HeapOk
  <2>1. CellOk(h, c)
    BY DEF Inv, HeapOk
  <2>2. \A d, tag : Kind(k, d, tag) <=> Kind(h, d, tag)
    BY <1>2 DEF Kind
  <2>3. QED
    BY <1>2, <1>4, <2>1, <2>2 DEF CellOk
<1>6. \A c \in Nat \ {NULL} : Held(h, s, <<>>, c) => Like(h, k, c)
  BY <1>2, HeldMore, HeldAlive DEF Like, Inv
<1>7. \A j \in DOMAIN s : s[j].do = "free" =>
            s[j].cell \in DOMAIN k /\ k[s[j].cell].rc = 0 /\ k[s[j].cell].kids = <<>>
  <2> SUFFICES ASSUME NEW j \in DOMAIN s, s[j].do = "free"
               PROVE  s[j].cell \in DOMAIN k /\ k[s[j].cell].rc = 0 /\ k[s[j].cell].kids = <<>>
    OBVIOUS
  <2>1. s[j].cell \in DOMAIN h /\ h[s[j].cell].rc = 0 /\ h[s[j].cell].kids = <<>>
    BY DEF Inv, StackOk, EntryOk
  <2>2. k[s[j].cell].rc \in Nat /\ ~(k[s[j].cell].rc > 0)
    BY <1>2, <1>4, <2>1, CellFacts
  <2>3. QED
    BY <1>2, <2>1, <2>2
<1>8. \A c \in Nat \ {NULL} : Count(k, c) - Count(h, c) =
              InHeap(k, Writing(s), c) - InHeap(h, Writing(s), c) + Times(c, m) - Times(c, l)
  <2> SUFFICES ASSUME NEW c \in Nat \ {NULL}
               PROVE  Count(k, c) - Count(h, c) =
                        InHeap(k, Writing(s), c) - InHeap(h, Writing(s), c) + Times(c, m) - Times(c, l)
    OBVIOUS
  <2>1. InHeap(k, Writing(s), c) = InHeap(h, Writing(s), c)
    BY <1>2, HeapSame
  <2>2. /\ InHeap(h, Writing(s), c) \in Nat /\ Times(c, l) \in Nat /\ Times(c, cells) \in Nat
        /\ (Times(c, cells) = 0 <=> c \notin ToSet(cells))
    BY <1>2, HeapNat, TimesNat DEF Inv
  <2>3. Times(c, m) = Times(c, l) + Times(c, cells)
    BY <1>1
  <2>4. CASE c \in DOMAIN h
    BY <1>2, <1>4, <2>1, <2>2, <2>3, <2>4 DEF Count
  <2>5. CASE c \notin DOMAIN h
    <3>1. Times(c, cells) = 0
      BY <2>2, <2>5 DEF Alive
    <3>2. QED
      BY <1>2, <2>1, <2>2, <2>3, <2>5, <3>1 DEF Count
  <2>6. QED
    BY <2>4, <2>5
<1>9. Inv(k, s, m)
  BY <1>2, <1>5, <1>6, <1>7, <1>8, HeapInv
<1>10. QED
  BY <1>1, <1>9 DEF k

LEMMA AllocFacts ==
  ASSUME NEW h, HeapTypes(h), NEW x \in Cells \ DOMAIN h, NEW v \in CellValue,
         NEW k, k = Alloc(h, x, v)
  PROVE  /\ HeapTypes(k) /\ DOMAIN k = DOMAIN h \union {x} /\ k[x] = v
         /\ \A c \in DOMAIN h : k[c] = h[c] /\ c # x
<1>1. /\ DOMAIN k = DOMAIN h \union {x} /\ k[x] = v
      /\ \A c \in DOMAIN h : k[c] = h[c] /\ c # x
  BY DEF Alloc
<1>2. HeapTypes(k)
  BY <1>1 DEF HeapTypes
<1>3. QED
  BY <1>1, <1>2

(* What a new value holds is what was waiting for it. *)
LEMMA MakeInv ==
  ASSUME NEW h, NEW s, NEW m, Inv(h, s, m), NEW x \in Cells \ DOMAIN h,
         NEW v \in CellValue, v.rc = 1, CellOk(Alloc(h, x, v), x),
         NEW l \in Refs,
         \A c \in Nat \ {NULL} :
            Times(c, m) = Times(c, l) + (IF v.owns THEN Times(c, v.kids) ELSE 0)
  PROVE  Inv(Alloc(h, x, v), s, Append(l, x))
<1> DEFINE k == Alloc(h, x, v)
<1>1. /\ HeapTypes(h) /\ HeapTypes(k) /\ DOMAIN k = DOMAIN h \union {x} /\ k[x] = v
      /\ \A c \in DOMAIN h : k[c] = h[c] /\ c # x
  <2>1. HeapTypes(h)
    BY DEF Inv
  <2>2. PICK g : g = Alloc(h, x, v)
    OBVIOUS
  <2>3. /\ HeapTypes(g) /\ DOMAIN g = DOMAIN h \union {x} /\ g[x] = v
        /\ \A c \in DOMAIN h : g[c] = h[c] /\ c # x
    BY <2>1, <2>2, AllocFacts
  <2>4. k = g
    BY <2>2
  <2> HIDE DEF k
  <2>5. QED
    BY <2>1, <2>3, <2>4
<1>2. CellOk(k, x)
  OBVIOUS
<1> HIDE DEF k
<1>3. HeapOk(k)
  <2> SUFFICES ASSUME NEW c \in DOMAIN h PROVE CellOk(k, c)
    BY <1>1, <1>2 DEF HeapOk
  <2>1. CellOk(h, c)
    BY DEF Inv, HeapOk
  <2>2. \A d, tag : Kind(h, d, tag) => Kind(k, d, tag)
    BY <1>1 DEF Kind
  <2>3. k[c] = h[c]
    BY <1>1
  <2>4. QED
    BY <2>1, <2>2, <2>3 DEF CellOk
<1>4. \A c \in Nat \ {NULL} : Held(h, s, <<>>, c) => Like(h, k, c)
  BY <1>1, HeldMore, HeldAlive DEF Like, Inv
<1>5. \A j \in DOMAIN s : s[j].do = "free" =>
            s[j].cell \in DOMAIN k /\ k[s[j].cell].rc = 0 /\ k[s[j].cell].kids = <<>>
  BY <1>1 DEF Inv, StackOk, EntryOk
<1>6. x \in Nat \ {NULL}
  BY OneFacts
<1>7. PICK n \in Refs : n = Append(l, x)
  BY <1>6, TimesAppend
<1>8. ASSUME NEW c \in Nat \ {NULL}
      PROVE  Count(k, c) - Count(h, c) =
               InHeap(k, Writing(s), c) - InHeap(h, Writing(s), c) + Times(c, n) - Times(c, m)
  <2>1. \A i : <<x, i>> \notin Writing(s)
    BY WrittenHeld
  <2>2. v.kids \in Refs
    BY DEF CellValue
  <2>3. Times(c, SlotsOf(k, Writing(s), x)) = IF v.owns THEN Times(c, v.kids) ELSE 0
    <3>1. CASE v.owns
      <4>1. SlotsOf(k, Writing(s), x) = [i \in DOMAIN v.kids |-> v.kids[i]]
        BY <1>1, <2>1, <3>1 DEF SlotsOf
      <4>2. PICK kids \in Refs : kids = v.kids
        BY <2>2
      <4>3. kids \in [1 .. Len(kids) -> Nat] /\ DOMAIN kids = 1 .. Len(kids)
        BY LenProperties DEF Refs
      <4>4. [i \in DOMAIN kids |-> kids[i]] = kids
        BY <4>3
      <4>5. QED
        BY <3>1, <4>1, <4>2, <4>4
    <3>2. CASE ~v.owns
      <4>1. \A i \in DOMAIN SlotsOf(k, Writing(s), x) : SlotsOf(k, Writing(s), x)[i] # c
        BY <1>1, <3>2 DEF SlotsOf
      <4>2. PICK q \in Refs : q = SlotsOf(k, Writing(s), x)
        BY <1>1, SlotsOfRefs
      <4>3. Times(c, q) = 0
        BY <4>1, <4>2, TimesNat DEF ToSet
      <4>4. QED
        BY <3>2, <4>2, <4>3
    <3>3. QED
      BY <3>1, <3>2
  <2>4. InHeap(k, Writing(s), c) = InHeap(h, Writing(s), c) + Times(c, SlotsOf(k, Writing(s), x))
    <3>1. PICK w : w = Writing(s)
      OBVIOUS
    <3>2. InHeap(k, w, c) = InHeap(h, w, c) + Times(c, SlotsOf(k, w, x))
      BY <1>1, HeapMore
    <3>3. QED
      BY <3>1, <3>2
  <2>5. Times(c, n) = Times(c, l) + One(c, x)
    BY <1>6, <1>7, TimesAppend
  <2>6. Times(c, m) = Times(c, l) + Times(c, SlotsOf(k, Writing(s), x))
    BY <2>3
  <2>7. Count(k, c) - Count(h, c) = One(c, x)
    <3>1. CASE c = x
      BY <1>1, <3>1 DEF Count, One
    <3>2. CASE c # x
      <4>1. Count(k, c) = Count(h, c) /\ Count(h, c) \in Nat
        BY <1>1, <3>2, CellFacts DEF Count
      <4>2. QED
        BY <3>2, <4>1 DEF One
    <3>3. QED
      BY <3>1, <3>2
  <2> DEFINE a == InHeap(h, Writing(s), c)
             b == Times(c, SlotsOf(k, Writing(s), x))
             t == Times(c, l)
             o == One(c, x)
  <2>8. a \in Nat /\ t \in Nat /\ o \in Nat /\ b \in Nat
    <3>1. SlotsOf(k, Writing(s), x) \in Refs
      BY <1>1, SlotsOfRefs
    <3>2. QED
      BY <1>1, <3>1, HeapNat, TimesNat DEF One
  <2>9. /\ InHeap(k, Writing(s), c) = a + b /\ Times(c, n) = t + o /\ Times(c, m) = t + b
        /\ Count(k, c) - Count(h, c) = o
    BY <2>4, <2>5, <2>6, <2>7
  <2>10. (a + b) - a + (t + o) - (t + b) = o
    <3> HIDE DEF a, b, t, o
    <3>1. QED
      BY <2>8
  <2>11. QED
    BY <2>9, <2>10
<1>9. Inv(k, s, n)
  BY <1>1, <1>3, <1>4, <1>5, <1>8, HeapInv
<1>10. QED
  BY <1>7, <1>9 DEF k

(* A reference less, not the last one. *)
LEMMA LessInv ==
  ASSUME NEW h, NEW s, NEW l \in Refs, NEW x \in DOMAIN h, Inv(h, s, Append(l, x)), h[x].rc > 1
  PROVE  Inv([h EXCEPT ![x].rc = @ - 1], s, l)
<1> DEFINE k == [h EXCEPT ![x].rc = @ - 1]
<1>1. HeapTypes(h) /\ x \in Nat \ {NULL} /\ h[x] \in CellValue /\ h[x].rc \in Nat
  BY CellFacts DEF Inv, HeapTypes
<1>2. h[x].rc - 1 \in Nat /\ h[x].rc - 1 > 0
  BY <1>1
<1>3. /\ DOMAIN k = DOMAIN h /\ \A c \in DOMAIN h \ {x} : k[c] = h[c]
      /\ k[x] = [h[x] EXCEPT !.rc = h[x].rc - 1]
  OBVIOUS
<1>4. /\ k[x] \in CellValue /\ k[x].rc = h[x].rc - 1 /\ k[x].tag = h[x].tag
      /\ k[x].kids = h[x].kids /\ k[x].n = h[x].n /\ k[x].owns = h[x].owns
  BY <1>1, <1>2, <1>3 DEF CellValue
<1> HIDE DEF k
<1>5. HeapTypes(k)
  BY <1>1, <1>3, <1>4 DEF HeapTypes
<1>6. \A c \in DOMAIN h : /\ k[c].tag = h[c].tag /\ k[c].kids = h[c].kids /\ k[c].n = h[c].n
                          /\ k[c].owns = h[c].owns /\ (k[c].rc > 0 <=> h[c].rc > 0)
  <2>1. k[x].rc > 0 /\ h[x].rc > 0
    BY <1>1, <1>2, <1>4
  <2>2. QED
    BY <1>3, <1>4, <2>1
<1>7. HeapOk(k)
  <2> SUFFICES ASSUME NEW c \in DOMAIN h PROVE CellOk(k, c)
    BY <1>3 DEF HeapOk
  <2>1. CellOk(h, c)
    BY DEF Inv, HeapOk
  <2>2. \A d, tag : Kind(k, d, tag) <=> Kind(h, d, tag)
    BY <1>3, <1>6 DEF Kind
  <2>3. QED
    BY <1>6, <2>1, <2>2 DEF CellOk
<1>8. \A c \in Nat \ {NULL} : Held(h, s, <<>>, c) => Like(h, k, c)
  <2> SUFFICES ASSUME NEW c \in Nat \ {NULL}, Held(h, s, <<>>, c) PROVE Like(h, k, c)
    OBVIOUS
  <2>1. Append(l, x) \in Refs
    BY DEF Inv
  <2>2. c \in DOMAIN h
    BY <2>1, HeldMore, HeldAlive
  <2>3. QED
    BY <1>3, <1>6, <2>2 DEF Like
<1>9. \A j \in DOMAIN s : s[j].do = "free" =>
            s[j].cell \in DOMAIN k /\ k[s[j].cell].rc = 0 /\ k[s[j].cell].kids = <<>>
  BY <1>1, <1>3 DEF Inv, StackOk, EntryOk
<1>10. ASSUME NEW c \in Nat \ {NULL}
       PROVE  Count(k, c) - Count(h, c) =
                InHeap(k, Writing(s), c) - InHeap(h, Writing(s), c)
                  + Times(c, l) - Times(c, Append(l, x))
  <2>1. InHeap(k, Writing(s), c) = InHeap(h, Writing(s), c)
    BY <1>3, <1>6, HeapSame
  <2>2. Times(c, Append(l, x)) = Times(c, l) + One(c, x)
    BY <1>1, TimesAppend
  <2>3. InHeap(h, Writing(s), c) \in Nat /\ Times(c, l) \in Nat /\ One(c, x) \in Nat
    BY <1>1, HeapNat, TimesNat DEF One
  <2>4. Count(k, c) - Count(h, c) = 0 - One(c, x)
    <3>1. CASE c = x
      <4>1. Count(k, x) = h[x].rc - 1 /\ Count(h, x) = h[x].rc
        BY <1>3, <1>4 DEF Count
      <4>2. One(c, x) = 1
        BY <3>1 DEF One
      <4>3. (h[x].rc - 1) - h[x].rc = 0 - 1
        BY <1>1
      <4>4. QED
        BY <3>1, <4>1, <4>2, <4>3
    <3>2. CASE c # x
      <4>1. Count(k, c) = Count(h, c) /\ Count(h, c) \in Nat
        BY <1>1, <1>3, <3>2, CellFacts DEF Count
      <4>2. QED
        BY <3>2, <4>1 DEF One
    <3>3. QED
      BY <3>1, <3>2
  <2>5. QED
    BY <2>1, <2>2, <2>3, <2>4
<1>11. Inv(k, s, l)
  BY <1>5, <1>7, <1>8, <1>9, <1>10, HeapInv
<1>12. QED
  BY <1>11 DEF k

(* The last reference goes: what the value held is left over. *)
LEMMA KillInv ==
  ASSUME NEW h, NEW s, NEW l \in Refs, NEW x \in DOMAIN h, Inv(h, s, Append(l, x)),
         h[x].rc = 1, h[x].owns
  PROVE  LET k == [h EXCEPT ![x].rc = 0, ![x].kids = <<>>]
         IN  Inv(k, s, l \o h[x].kids) /\ Freed(k, s, x)
<1> DEFINE k == [h EXCEPT ![x].rc = 0, ![x].kids = <<>>]
           kids == h[x].kids
<1>1. HeapTypes(h) /\ x \in Nat \ {NULL} /\ h[x] \in CellValue /\ h[x].rc \in Nat /\ kids \in Refs
  BY CellFacts DEF Inv, HeapTypes
<1>2. /\ DOMAIN k = DOMAIN h /\ \A c \in DOMAIN h \ {x} : k[c] = h[c]
      /\ k[x] = [h[x] EXCEPT !.rc = 0, !.kids = <<>>]
  OBVIOUS
<1>3. <<>> \in Refs /\ 0 \in Nat
  BY EmptySeq DEF Refs
<1>4. /\ k[x] \in CellValue /\ k[x].rc = 0 /\ k[x].tag = h[x].tag
      /\ k[x].kids = <<>> /\ k[x].n = h[x].n /\ k[x].owns = h[x].owns
  BY <1>1, <1>2, <1>3 DEF CellValue
<1> HIDE DEF k, kids
<1>5. HeapTypes(k)
  BY <1>1, <1>2, <1>4 DEF HeapTypes
<1>6. ~Held(h, s, l, x) /\ ~Held(h, s, <<>>, x)
  <2>1. ~Held(h, s, l, x)
    BY <1>1, HeldTwice
  <2>2. QED
    BY <2>1, HeldMore
<1>7. HeapOk(k)
  <2> SUFFICES ASSUME NEW c \in DOMAIN h PROVE CellOk(k, c)
    BY <1>2 DEF HeapOk
  <2>1. CellOk(h, c)
    BY DEF Inv, HeapOk
  <2>2. \A d, tag : Kind(k, d, tag) <=> Kind(h, d, tag)
    BY <1>2, <1>4 DEF Kind
  <2>3. CASE c = x
    <3>1. ~(k[x].rc > 0) /\ CellOk(h, x)
      BY <1>4, <2>1, <2>3
    <3>2. CellOk(k, x)
      BY <1>4, <3>1 DEF CellOk
    <3>3. QED
      BY <2>3, <3>2
  <2>4. CASE c # x
    <3>1. k[c] = h[c]
      BY <1>2, <2>4
    <3>2. QED
      BY <3>1, <2>1, <2>2 DEF CellOk
  <2>5. QED
    BY <2>3, <2>4
<1>8. \A c \in Nat \ {NULL} : Held(h, s, <<>>, c) => Like(h, k, c)
  <2> SUFFICES ASSUME NEW c \in Nat \ {NULL}, Held(h, s, <<>>, c) PROVE Like(h, k, c)
    OBVIOUS
  <2>1. Append(l, x) \in Refs
    BY DEF Inv
  <2>2. c \in DOMAIN h /\ c # x
    BY <1>6, <2>1, HeldMore, HeldAlive
  <2>3. QED
    BY <1>2, <2>2 DEF Like
<1>9. /\ \A j \in DOMAIN s : s[j].do = "free" =>
            s[j].cell \in DOMAIN k /\ k[s[j].cell].rc = 0 /\ k[s[j].cell].kids = <<>>
      /\ \A j \in DOMAIN s : s[j].do = "free" => s[j].cell # x
  BY <1>1, <1>2 DEF Inv, StackOk, EntryOk
<1>10. PICK m \in Refs : m = l \o kids
  BY <1>1, TimesConcat
<1>11. ASSUME NEW c \in Nat \ {NULL}
       PROVE  Count(k, c) - Count(h, c) =
                InHeap(k, Writing(s), c) - InHeap(h, Writing(s), c)
                  + Times(c, m) - Times(c, Append(l, x))
  <2>1. InHeap(k, Writing(s), c) =
          InHeap(h, Writing(s), c) - Times(c, SlotsOf(h, Writing(s), x))
            + Times(c, SlotsOf(k, Writing(s), x))
    <3>1. \A d \in DOMAIN h \ {x} : SlotsOf(k, Writing(s), d) = SlotsOf(h, Writing(s), d)
      BY <1>2 DEF SlotsOf
    <3>2. QED
      BY <1>1, <1>2, <1>5, <3>1, HeapReplace
  <2>2. SlotsOf(h, Writing(s), x) = kids
    <3>1. \A i : <<x, i>> \notin Writing(s)
      BY <1>6, WrittenHeld
    <3>2. SlotsOf(h, Writing(s), x) = [i \in DOMAIN kids |-> kids[i]]
      BY <3>1 DEF SlotsOf, kids
    <3>3. kids \in [1 .. Len(kids) -> Nat] /\ DOMAIN kids = 1 .. Len(kids)
      BY <1>1, LenProperties DEF Refs
    <3>4. QED
      BY <3>2, <3>3
  <2>3. Times(c, SlotsOf(k, Writing(s), x)) = 0
    <3>1. SlotsOf(k, Writing(s), x) = <<>>
      BY <1>4 DEF SlotsOf
    <3>2. QED
      BY <3>1, TimesEmpty
  <2>4. Times(c, Append(l, x)) = Times(c, l) + One(c, x)
    BY <1>1, TimesAppend
  <2>5. Times(c, m) = Times(c, l) + Times(c, kids)
    BY <1>1, <1>10, TimesConcat
  <2>6. /\ InHeap(h, Writing(s), c) \in Nat /\ Times(c, l) \in Nat /\ One(c, x) \in Nat
        /\ Times(c, kids) \in Nat
    BY <1>1, HeapNat, TimesNat DEF One
  <2>7. Count(k, c) - Count(h, c) = 0 - One(c, x)
    <3>1. CASE c = x
      BY <1>1, <1>2, <1>4, <3>1 DEF Count, One
    <3>2. CASE c # x
      <4>1. Count(k, c) = Count(h, c) /\ Count(h, c) \in Nat
        BY <1>1, <1>2, <3>2, CellFacts DEF Count
      <4>2. QED
        BY <3>2, <4>1 DEF One
    <3>3. QED
      BY <3>1, <3>2
  <2>8. InHeap(k, Writing(s), c) = InHeap(h, Writing(s), c) - Times(c, kids)
    BY <2>1, <2>2, <2>3, <2>6
  <2>9. QED
    BY <2>4, <2>5, <2>6, <2>7, <2>8
<1>12. Inv(k, s, m)
  BY <1>5, <1>7, <1>8, <1>9, <1>11, HeapInv
<1>13. Freed(k, s, x)
  BY <1>2, <1>4, <1>9 DEF Freed
<1>14. QED
  BY <1>10, <1>12, <1>13 DEF k, kids

LEMMA EraseInv ==
  ASSUME NEW h, NEW s, NEW l, Inv(h, s, l), NEW x, Freed(h, s, x)
  PROVE  Inv([c \in DOMAIN h \ {x} |-> h[c]], s, l)
<1> DEFINE k == [c \in DOMAIN h \ {x} |-> h[c]]
<1>1. HeapTypes(h) /\ x \in DOMAIN h /\ h[x].rc = 0 /\ h[x].kids = <<>> /\ x \in Nat \ {NULL} /\ l \in Refs
  BY CellFacts DEF Inv, Freed
<1>2. /\ DOMAIN k = DOMAIN h \ {x} /\ \A c \in DOMAIN k : k[c] = h[c] /\ c # x
      /\ DOMAIN h = DOMAIN k \union {x}
  BY <1>1
<1> HIDE DEF k
<1>3. HeapTypes(k)
  BY <1>1, <1>2 DEF HeapTypes
<1>4. ~Held(h, s, l, x)
  BY <1>1, HeldAlive
<1>5. HeapOk(k)
  <2> SUFFICES ASSUME NEW c \in DOMAIN k PROVE CellOk(k, c)
    BY DEF HeapOk
  <2>1. CellOk(h, c) /\ c \in DOMAIN h /\ k[c] = h[c]
    BY <1>2 DEF Inv, HeapOk
  <2>2. \A d, tag : Kind(h, d, tag) /\ d # x => Kind(k, d, tag)
    BY <1>2 DEF Kind
  <2>3. /\ h[c].tag \in {"CLOSURE", "COMPLETE_CLOSURE"} /\ Len(h[c].kids) = 1 => h[c].kids[1] # x
        /\ h[c].tag = "GC_POINTER" /\ h[c].owns /\ Len(h[c].kids) = 2 => h[c].kids[1] # x
    <3>1. Len(h[c].kids) \in {1, 2} => 1 \in DOMAIN h[c].kids
      BY <1>1, <2>1, CellFacts
    <3>2. h[c].tag \in {"CLOSURE", "COMPLETE_CLOSURE"} => h[c].owns
      BY <2>1 DEF CellOk
    <3>3. h[c].tag \in {"CLOSURE", "COMPLETE_CLOSURE", "GC_POINTER"} => <<c, 1>> \notin Writing(s)
      BY WrittenHeld
    <3>4. 1 \in DOMAIN h[c].kids /\ h[c].owns /\ <<c, 1>> \notin Writing(s) => h[c].kids[1] # x
      BY <1>4, <2>1 DEF Held
    <3>5. QED
      BY <3>1, <3>2, <3>3, <3>4
  <2>4. QED
    BY <2>1, <2>2, <2>3 DEF CellOk
<1>6. \A c \in Nat \ {NULL} : Held(h, s, <<>>, c) => Like(h, k, c)
  <2> SUFFICES ASSUME NEW c \in Nat \ {NULL}, Held(h, s, <<>>, c) PROVE Like(h, k, c)
    OBVIOUS
  <2>1. Held(h, s, l, c)
    BY <1>1, HeldMore
  <2>2. c \in DOMAIN h /\ c # x
    BY <1>4, <2>1, HeldAlive
  <2>3. QED
    BY <1>2, <2>2 DEF Like
<1>7. \A j \in DOMAIN s : s[j].do = "free" =>
            s[j].cell \in DOMAIN k /\ k[s[j].cell].rc = 0 /\ k[s[j].cell].kids = <<>>
  BY <1>2 DEF Inv, StackOk, EntryOk, Freed
<1>8. ASSUME NEW c \in Nat \ {NULL}
      PROVE  Count(k, c) - Count(h, c) =
                InHeap(k, Writing(s), c) - InHeap(h, Writing(s), c) + Times(c, l) - Times(c, l)
  <2>1. InHeap(h, Writing(s), c) = InHeap(k, Writing(s), c) + Times(c, SlotsOf(h, Writing(s), x))
    <3>1. \A d \in DOMAIN k : h[d] = k[d] /\ d # x
      BY <1>2
    <3>2. HeapTypes(h) /\ DOMAIN h = DOMAIN k \union {x}
      BY <1>1, <1>2
    <3>3. ASSUME NEW w
          PROVE  InHeap(h, w, c) = InHeap(k, w, c) + Times(c, SlotsOf(h, w, x))
      BY <3>1, <3>2, HeapMore
    <3>4. QED
      BY <3>3
  <2>2. Times(c, SlotsOf(h, Writing(s), x)) = 0
    <3>1. SlotsOf(h, Writing(s), x) = <<>>
      BY <1>1 DEF SlotsOf
    <3>2. QED
      BY <3>1, TimesEmpty
  <2>3. InHeap(k, Writing(s), c) \in Nat /\ Times(c, l) \in Nat
    BY <1>1, <1>3, HeapNat, TimesNat
  <2>4. Count(k, c) = Count(h, c) /\ Count(h, c) \in Nat
    BY <1>1, <1>2, CellFacts DEF Count
  <2>5. QED
    BY <2>1, <2>2, <2>3, <2>4
<1>9. Inv(k, s, l)
  BY <1>1, <1>3, <1>5, <1>6, <1>7, <1>8, HeapInv
<1>10. QED
  BY <1>9 DEF k

(* The world holds one value more. *)
LEMMA WorldInv ==
  ASSUME NEW h, NEW s, NEW l \in Refs, NEW v \in Nat, Inv(h, s, Append(l, v)),
         NEW x, Kind(h, x, "WORLD"), h[x].rc > 0
  PROVE  Inv([h EXCEPT ![x].kids = Append(@, v)], s, l)
<1> DEFINE k == [h EXCEPT ![x].kids = Append(@, v)]
           kids == h[x].kids
           w == Writing(s)
<1>1. /\ HeapTypes(h) /\ x \in DOMAIN h /\ h[x].tag = "WORLD" /\ h[x] \in CellValue /\ kids \in Refs
      /\ x \in Nat \ {NULL} /\ Append(l, v) \in Refs /\ DOMAIN kids = 1 .. Len(kids)
      /\ Len(kids) \in Nat /\ h[x].owns
  BY CellFacts DEF Inv, Kind, HeapTypes, HeapOk, CellOk
<1>2. PICK more \in Refs : more = Append(kids, v)
  BY <1>1, TimesAppend
<1>3. /\ Len(more) = Len(kids) + 1 /\ DOMAIN more = 1 .. Len(kids) + 1
      /\ more[Len(kids) + 1] = v /\ \A i \in 1 .. Len(kids) : more[i] = kids[i]
  BY <1>1, <1>2, AppendProperties, SeqFacts DEF Refs
<1>4. /\ DOMAIN k = DOMAIN h /\ \A c \in DOMAIN h \ {x} : k[c] = h[c]
      /\ k[x] = [h[x] EXCEPT !.kids = more]
  BY <1>1, <1>2
<1>5. /\ k[x] \in CellValue /\ k[x].rc = h[x].rc /\ k[x].tag = h[x].tag
      /\ k[x].kids = more /\ k[x].n = h[x].n /\ k[x].owns = h[x].owns
  BY <1>1, <1>2, <1>4 DEF CellValue
<1> HIDE DEF k, kids, w
<1>6. HeapTypes(k)
  BY <1>1, <1>4, <1>5 DEF HeapTypes
<1>7. HeapOk(k)
  <2> SUFFICES ASSUME NEW c \in DOMAIN h PROVE CellOk(k, c)
    BY <1>4 DEF HeapOk
  <2>1. CellOk(h, c) /\ CellOk(h, x)
    BY <1>1 DEF Inv, HeapOk
  <2>2. \A d, tag : Kind(k, d, tag) <=> Kind(h, d, tag)
    BY <1>4, <1>5 DEF Kind
  <2>3. CASE c = x
    <3>1. k[x].tag = "WORLD" /\ k[x].owns
      BY <1>1, <1>5
    <3>2. CellOk(k, x)
      BY <3>1 DEF CellOk
    <3>3. QED
      BY <2>3, <3>2
  <2>4. CASE c # x
    <3>1. k[c] = h[c]
      BY <1>4, <2>4
    <3>2. QED
      BY <2>1, <2>2, <3>1 DEF CellOk
  <2>5. QED
    BY <2>3, <2>4
<1>8. \A c \in Nat \ {NULL} : Held(h, s, <<>>, c) => Like(h, k, c)
  <2> SUFFICES ASSUME NEW c \in Nat \ {NULL}, Held(h, s, <<>>, c) PROVE Like(h, k, c)
    OBVIOUS
  <2>1. c \in DOMAIN h
    BY <1>1, HeldMore, HeldAlive
  <2>2. CASE c = x
    <3>1. DOMAIN h[x].kids \subseteq DOMAIN k[x].kids
      BY <1>1, <1>3, <1>5 DEF kids
    <3>2. QED
      BY <1>1, <1>4, <1>5, <2>1, <2>2, <3>1 DEF Like
  <2>3. CASE c # x
    BY <1>4, <2>1, <2>3 DEF Like
  <2>4. QED
    BY <2>2, <2>3
<1>9. \A j \in DOMAIN s : s[j].do = "free" =>
            s[j].cell \in DOMAIN k /\ k[s[j].cell].rc = 0 /\ k[s[j].cell].kids = <<>>
  <2> SUFFICES ASSUME NEW j \in DOMAIN s, s[j].do = "free"
               PROVE  s[j].cell \in DOMAIN k /\ k[s[j].cell].rc = 0 /\ k[s[j].cell].kids = <<>>
    OBVIOUS
  <2>1. s[j].cell \in DOMAIN h /\ h[s[j].cell].rc = 0 /\ h[s[j].cell].kids = <<>>
    BY DEF Inv, StackOk, EntryOk
  <2>2. s[j].cell # x
    BY <2>1
  <2>3. QED
    BY <1>4, <2>1, <2>2
<1>10. ASSUME NEW c \in Nat \ {NULL}
       PROVE  Count(k, c) - Count(h, c) =
                InHeap(k, w, c) - InHeap(h, w, c) + Times(c, l) - Times(c, Append(l, v))
  <2>1. \A d \in DOMAIN h \ {x} : SlotsOf(k, w, d) = SlotsOf(h, w, d)
    BY <1>4 DEF SlotsOf
  <2>2. InHeap(k, w, c) = InHeap(h, w, c) - Times(c, SlotsOf(h, w, x)) + Times(c, SlotsOf(k, w, x))
    BY <1>1, <1>4, <1>6, <2>1, HeapReplace
  <2>3. PICK q \in Refs : q = SlotsOf(h, w, x)
    BY <1>1, SlotsOfRefs
  <2>4. PICK r \in Refs : r = SlotsOf(k, w, x)
    BY <1>1, <1>4, <1>6, SlotsOfRefs
  <2>5. /\ DOMAIN q = 1 .. Len(kids) /\ Len(q) = Len(kids)
        /\ DOMAIN r = 1 .. Len(kids) + 1 /\ Len(r) = Len(kids) + 1
    <3>1. DOMAIN q = DOMAIN kids /\ DOMAIN r = DOMAIN more
      BY <1>5, <2>3, <2>4 DEF SlotsOf, kids
    <3>2. DOMAIN q = 1 .. Len(q) /\ Len(q) \in Nat /\ DOMAIN r = 1 .. Len(r) /\ Len(r) \in Nat
      BY SeqFacts
    <3>3. \A m, n \in Nat : 1 .. m = 1 .. n => m = n
      <4> SUFFICES ASSUME NEW m \in Nat, NEW n \in Nat, 1 .. m = 1 .. n PROVE m = n
        OBVIOUS
      <4>1. Cardinality(1 .. m) = m /\ Cardinality(1 .. n) = n
        BY FS_Interval
      <4>2. QED
        BY <4>1
    <3>4. QED
      BY <1>1, <1>3, <3>1, <3>2, <3>3
  <2>6. \A i \in 1 .. Len(kids) : r[i] = q[i]
    <3>1. \A i \in 1 .. Len(kids) : i \in 1 .. Len(kids) + 1
      BY <1>1
    <3>2. QED
      BY <1>1, <1>3, <1>5, <2>3, <2>4, <3>1 DEF SlotsOf, kids
  <2>7. r[Len(kids) + 1] = v
    <3>1. Len(kids) + 1 \in DOMAIN more /\ Len(kids) + 1 \notin DOMAIN kids
      BY <1>1, <1>3
    <3>2. <<x, Len(kids) + 1>> \notin w
      BY <3>1, WrittenHeld DEF w, kids
    <3>3. QED
      BY <1>1, <1>3, <1>5, <2>4, <3>1, <3>2 DEF SlotsOf
  <2>8. r = Append(q, v)
    <3>1. /\ Append(q, v) \in Refs /\ Len(Append(q, v)) = Len(q) + 1
          /\ \A i \in 1 .. Len(q) : Append(q, v)[i] = q[i]
          /\ Append(q, v)[Len(q) + 1] = v
      BY AppendProperties DEF Refs
    <3>2. \A i \in 1 .. Len(kids) + 1 : i \in 1 .. Len(kids) \/ i = Len(kids) + 1
      BY <1>1
    <3>3. Len(Append(q, v)) = Len(r) /\ \A i \in 1 .. Len(r) : r[i] = Append(q, v)[i]
      BY <2>5, <2>6, <2>7, <3>1, <3>2
    <3>4. QED
      BY <3>1, <3>3, SeqEqual DEF Refs
  <2>9. Times(c, r) = Times(c, q) + One(c, v)
    BY <2>8, TimesAppend
  <2>10. Times(c, Append(l, v)) = Times(c, l) + One(c, v)
    BY TimesAppend
  <2>11. /\ InHeap(h, w, c) \in Nat /\ Times(c, l) \in Nat /\ One(c, v) \in Nat
         /\ Times(c, q) \in Nat
    BY <1>1, HeapNat, TimesNat DEF One
  <2>12. Count(k, c) = Count(h, c) /\ Count(h, c) \in Nat
    BY <1>1, <1>4, <1>5, CellFacts DEF Count
  <2>13. InHeap(k, w, c) = InHeap(h, w, c) + One(c, v)
    BY <2>2, <2>3, <2>4, <2>9, <2>11
  <2>14. QED
    BY <2>10, <2>11, <2>12, <2>13
<1>11. Inv(k, s, l)
  BY <1>6, <1>7, <1>8, <1>9, <1>10, HeapInv DEF w
<1>12. QED
  BY <1>11 DEF k

-----------------------------------------------------------------------------
(* A slot is written. *)

(* The slot hands its old value on. *)
LEMMA StoreInv ==
  ASSUME NEW h, NEW t \in Stacks, NEW l, Inv(h, t, l), First(t).do = "run",
         NEW a, NEW i, NEW v, {a, v} \subseteq NamedIn(h, First(t)),
         h[a].tag \in {"ARRAY", "WORLD"}, i \in DOMAIN h[a].kids, <<a, i>> \notin Writing(t)
  PROVE  /\ Push(Store(a, i, v), t) \in Stacks
         /\ h[a].kids[i] \in Nat
         /\ Inv(h, Push(Store(a, i, v), t), Append(l, h[a].kids[i]))
<1>1. t # <<>> /\ 1 \in DOMAIN t /\ First(t) = t[1]
  BY TopAndRest DEF First, Forget
<1>2. a \in Nat \ {NULL} /\ v \in Nat \ {NULL} /\ Held(h, t, <<>>, a)
  BY <1>1, NamesHeld
<1>3. HeapTypes(h) /\ l \in Refs /\ a \in DOMAIN h
  BY <1>2, HeldMore, HeldAlive DEF Inv
<1>4. h[a].kids[i] \in Nat /\ i \in Nat /\ h[a].owns
  <2>1. i \in 1 .. Len(h[a].kids) /\ Len(h[a].kids) \in Nat
    BY <1>3, CellFacts
  <2>2. QED
    BY <1>3, <2>1, CellFacts DEF Inv, HeapOk, CellOk
<1>a. PICK e \in Entries : e = Store(a, i, v)
  BY <1>2, <1>4, MakeEntries
<1>5. /\ e = Store(a, i, v) /\ e.do = "store" /\ e.cell = a /\ e.at = i /\ e.value = v
  BY <1>a DEF Store
<1>6. PICK p \in Stacks : p = Push(e, t)
  BY PushFacts
<1>7. PICK old \in Nat : old = h[a].kids[i]
  BY <1>4
<1>8. PICK m \in Refs : m = Append(l, old)
  BY <1>3, TimesAppend
<1>9. StackOk(h, p)
  <2>1. EntryOk(h, e, First(t))
    BY <1>5 DEF EntryOk
  <2>2. QED
    BY <1>6, <2>1, PushOk DEF Inv
<1>10. Distinct(p)
  <2>1. \A k \in DOMAIN t : ~Clash(e, t[k])
    <3> SUFFICES ASSUME NEW k \in DOMAIN t, Clash(e, t[k]) PROVE FALSE
      OBVIOUS
    <3>1. t[k].do = "store" /\ t[k].cell = a /\ t[k].at = i
      BY <1>5 DEF Clash
    <3>2. <<a, i>> \in Writing(t)
      BY <3>1 DEF Writing
    <3>3. QED
      BY <3>2
  <2>2. QED
    BY <1>6, <2>1, PushDistinct DEF Inv
<1> DEFINE w == Writing(t)
           x == Writing(p)
<1>11. x = w \union {<<a, i>>} /\ <<a, i>> \notin w
  BY <1>5, <1>6, PushWriting
<1> HIDE DEF w, x
<1>12. ASSUME NEW c \in Nat \ {NULL} PROVE Want(h, p, m, c) = Want(h, t, l, c)
  <2>1. \A d \in DOMAIN h \ {a} : SlotsOf(h, x, d) = SlotsOf(h, w, d)
    BY <1>11 DEF SlotsOf
  <2>2. SlotsOf(h, x, a) = [SlotsOf(h, w, a) EXCEPT ![i] = NULL]
    BY <1>4, <1>11 DEF SlotsOf
  <2>3. SlotsOf(h, w, a)[i] = old
    BY <1>4, <1>7, <1>11 DEF SlotsOf
  <2>4. InHeap(h, x, c) = InHeap(h, w, c) - One(c, SlotsOf(h, w, a)[i]) + One(c, NULL)
    <3>1. NULL \in Nat
      BY DEF NULL
    <3>2. SlotsOf(h, x, a) = [SlotsOf(h, w, a) EXCEPT ![i] = NULL]
           => InHeap(h, x, c) = InHeap(h, w, c) - One(c, SlotsOf(h, w, a)[i]) + One(c, NULL)
      BY <1>3, <2>1, <3>1, HeapSlot
    <3>3. QED
      BY <2>2, <3>2
  <2>5. OnStack(p, c) = OnStack(t, c)
    <3>1. Times(c, OwnedBy(e)) = 0
      BY <1>5, TimesOwnedBy
    <3>2. OnStack(p, c) = Times(c, OwnedBy(e)) + OnStack(t, c)
      BY <1>6, PushFacts
    <3>3. OnStack(t, c) \in Nat
      BY StackNat
    <3>4. QED
      BY <3>1, <3>2, <3>3
  <2>6. Times(c, m) = Times(c, l) + One(c, old)
    BY <1>3, <1>8, TimesAppend
  <2>7. /\ InHeap(h, w, c) \in Nat /\ OnStack(t, c) \in Nat /\ Times(c, l) \in Nat
        /\ One(c, old) \in Nat /\ One(c, NULL) = 0
    BY <1>3, HeapNat, StackNat, TimesNat DEF One
  <2>8. InHeap(h, x, c) = InHeap(h, w, c) - One(c, old)
    BY <2>3, <2>4, <2>7
  <2>9. InHeap(h, x, c) + OnStack(p, c) + Times(c, m) = InHeap(h, w, c) + OnStack(t, c) + Times(c, l)
    BY <2>5, <2>6, <2>7, <2>8
  <2>10. QED
    BY <2>9 DEF Want, w, x
<1>13. Balanced(h, p, m)
  BY <1>12 DEF Inv, Balanced
<1>14. Inv(h, p, m)
  BY <1>9, <1>10, <1>13 DEF Inv
<1>15. QED
  BY <1>5, <1>6, <1>7, <1>8, <1>14

(* The new value goes into the slot. *)
LEMMA StoredInv ==
  ASSUME NEW h, NEW t \in Stacks, NEW l \in Refs, NEW a, NEW i, NEW v \in Nat,
         NEW e \in Entries, e.do = "store", e.cell = a, e.at = i,
         Inv(h, Push(e, t), Append(l, v))
  PROVE  Inv([h EXCEPT ![a].kids[i] = v], t, l)
<1>1. PICK p \in Stacks : p = Push(e, t)
  BY PushFacts
<1>2. PICK m \in Refs : m = Append(l, v)
  BY TimesAppend
<1>3. Inv(h, p, m)
  BY <1>1, <1>2
<1>4. Distinct(t) /\ StackOk(h, t) /\ <<a, i>> \notin Writing(t)
  <2>1. Distinct(p) /\ StackOk(h, p)
    BY <1>3 DEF Inv
  <2>2. \A k \in DOMAIN t : ~Clash(e, t[k])
    BY <1>1, <2>1, PushDistinct
  <2>3. ~\E k \in DOMAIN t : t[k].do = "store" /\ t[k].cell = a /\ t[k].at = i
    BY <2>2 DEF Clash
  <2>4. <<a, i>> \notin Writing(t)
    BY <2>3 DEF Writing
  <2>5. QED
    BY <1>1, <2>1, <2>4, PushDistinct, PushOk
<1> DEFINE w == Writing(p)
           x == Writing(t)
           k == [h EXCEPT ![a].kids[i] = v]
           kids == h[a].kids
<1>5. w = x \union {<<a, i>>} /\ <<a, i>> \notin x
  BY <1>1, <1>4, PushWriting
<1>6. /\ HeapTypes(h) /\ a \in DOMAIN h /\ h[a].tag \in {"ARRAY", "WORLD"}
      /\ i \in DOMAIN kids /\ a \in Nat \ {NULL} /\ kids \in Refs /\ h[a] \in CellValue /\ h[a].owns
  <2>1. <<a, i>> \in Writing(p)
    BY <1>5
  <2>2. a \in DOMAIN h /\ h[a].tag \in {"ARRAY", "WORLD"} /\ i \in DOMAIN h[a].kids
    BY <1>3, <2>1, WrittenHeld
  <2>3. HeapTypes(h) /\ h[a].owns
    BY <1>3, <2>2 DEF Inv, HeapOk, CellOk
  <2>4. QED
    BY <2>2, <2>3, CellFacts DEF HeapTypes
<1>b. i \in 1 .. Len(kids)
  BY <1>6, SeqFacts
<1>7. PICK new \in Refs : new = [kids EXCEPT ![i] = v]
  BY <1>6, <1>b, ExceptSeq DEF Refs
<1>8. Len(new) = Len(kids) /\ DOMAIN new = DOMAIN kids
  <2>1. i \in 1 .. Len(kids)
    BY <1>6, SeqFacts
  <2>2. QED
    BY <1>6, <1>7, <2>1, ExceptSeq DEF Refs
<1>9. /\ DOMAIN k = DOMAIN h /\ \A c \in DOMAIN h \ {a} : k[c] = h[c]
      /\ k[a] = [h[a] EXCEPT !.kids = new]
  BY <1>6, <1>7
<1>10. /\ k[a] \in CellValue /\ k[a].rc = h[a].rc /\ k[a].tag = h[a].tag
       /\ k[a].kids = new /\ k[a].n = h[a].n /\ k[a].owns = h[a].owns
  BY <1>6, <1>7, <1>9 DEF CellValue
<1> HIDE DEF k, kids, w, x
<1>11. HeapTypes(k)
  BY <1>6, <1>9, <1>10 DEF HeapTypes
<1>12. HeapOk(k)
  <2> SUFFICES ASSUME NEW c \in DOMAIN h PROVE CellOk(k, c)
    BY <1>9 DEF HeapOk
  <2>1. CellOk(h, c) /\ CellOk(h, a)
    BY <1>3, <1>6 DEF Inv, HeapOk
  <2>2. \A d, tag : Kind(k, d, tag) <=> Kind(h, d, tag)
    BY <1>9, <1>10 DEF Kind
  <2>3. CASE c = a
    <3>1. k[a].tag \in {"ARRAY", "WORLD"} /\ k[a].owns
      BY <1>6, <1>10, <2>1 DEF CellOk
    <3>2. CellOk(k, a)
      BY <3>1 DEF CellOk
    <3>3. QED
      BY <2>3, <3>2
  <2>4. CASE c # a
    <3>1. k[c] = h[c]
      BY <1>9, <2>4
    <3>2. QED
      BY <2>1, <2>2, <3>1 DEF CellOk
  <2>5. QED
    BY <2>3, <2>4
<1>13. StackOk(k, t)
  <2>1. \A c \in Nat \ {NULL} : Held(h, p, <<>>, c) => Like(h, k, c)
    <3> SUFFICES ASSUME NEW c \in Nat \ {NULL}, Held(h, p, <<>>, c) PROVE Like(h, k, c)
      OBVIOUS
    <3>1. c \in DOMAIN h
      BY <1>3, HeldMore, HeldAlive
    <3>2. CASE c = a
      BY <1>6, <1>8, <1>9, <1>10, <3>1, <3>2 DEF Like, kids
    <3>3. CASE c # a
      BY <1>9, <3>1, <3>3 DEF Like
    <3>4. QED
      BY <3>2, <3>3
  <2>2. \A j \in DOMAIN p : p[j].do = "free" =>
            p[j].cell \in DOMAIN k /\ k[p[j].cell].rc = 0 /\ k[p[j].cell].kids = <<>>
    <3> SUFFICES ASSUME NEW j \in DOMAIN p, p[j].do = "free"
                 PROVE  p[j].cell \in DOMAIN k /\ k[p[j].cell].rc = 0 /\ k[p[j].cell].kids = <<>>
      OBVIOUS
    <3>1. p[j].cell \in DOMAIN h /\ h[p[j].cell].rc = 0 /\ h[p[j].cell].kids = <<>>
      BY <1>3 DEF Inv, StackOk, EntryOk
    <3>2. kids # <<>>
      BY <1>6
    <3>3. p[j].cell # a
      BY <3>1, <3>2 DEF kids
    <3>4. QED
      BY <1>9, <3>1, <3>3
  <2>3. StackOk(k, p)
    BY <1>3, <2>1, <2>2, StackKept
  <2>4. QED
    BY <1>1, <2>3, PushOk
<1>14. ASSUME NEW c \in Nat \ {NULL} PROVE Count(k, c) = Want(k, t, l, c)
  <2>1. \A d \in DOMAIN h \ {a} : SlotsOf(k, x, d) = SlotsOf(h, w, d)
    BY <1>5, <1>9 DEF SlotsOf
  <2>2. SlotsOf(k, x, a) = [SlotsOf(h, w, a) EXCEPT ![i] = v]
    <3>1. DOMAIN SlotsOf(h, w, a) = DOMAIN kids /\ DOMAIN SlotsOf(k, x, a) = DOMAIN kids
      BY <1>8, <1>10 DEF SlotsOf, kids
    <3>2. \A j \in DOMAIN kids : new[j] = IF j = i THEN v ELSE kids[j]
      BY <1>7
    <3>3. \A j \in DOMAIN kids : SlotsOf(k, x, a)[j] = IF j = i THEN v ELSE SlotsOf(h, w, a)[j]
      BY <1>5, <1>6, <1>8, <1>10, <3>2 DEF SlotsOf, kids
    <3>4. SlotsOf(k, x, a) = [j \in DOMAIN kids |-> SlotsOf(k, x, a)[j]]
      BY <1>8, <1>10 DEF SlotsOf, kids
    <3> DEFINE q == SlotsOf(h, w, a)
               r == SlotsOf(k, x, a)
    <3>5. /\ DOMAIN q = DOMAIN kids /\ r = [j \in DOMAIN kids |-> r[j]]
          /\ \A j \in DOMAIN kids : r[j] = IF j = i THEN v ELSE q[j]
      BY <3>1, <3>3, <3>4
    <3> HIDE DEF q, r
    <3>6. r = [q EXCEPT ![i] = v]
      BY <3>5
    <3>7. QED
      BY <3>6 DEF q, r
  <2>3. SlotsOf(h, w, a)[i] = NULL
    BY <1>5, <1>6 DEF SlotsOf, kids
  <2>4. InHeap(k, x, c) = InHeap(h, w, c) - One(c, SlotsOf(h, w, a)[i]) + One(c, v)
    <3>1. i \in DOMAIN h[a].kids
      BY <1>6 DEF kids
    <3>2. SlotsOf(k, x, a) = [SlotsOf(h, w, a) EXCEPT ![i] = v]
           => InHeap(k, x, c) = InHeap(h, w, c) - One(c, SlotsOf(h, w, a)[i]) + One(c, v)
      BY <1>6, <1>9, <1>11, <2>1, <3>1, HeapSlot
    <3>3. QED
      BY <2>2, <3>2
  <2>5. OnStack(p, c) = OnStack(t, c)
    <3>1. OwnedBy(e) = <<>>
      BY DEF OwnedBy
    <3>2. OnStack(p, c) = Times(c, OwnedBy(e)) + OnStack(t, c)
      BY <1>1, PushFacts
    <3>3. OnStack(t, c) \in Nat
      BY StackNat
    <3>4. QED
      BY <3>1, <3>2, <3>3, TimesEmpty
  <2>6. Times(c, m) = Times(c, l) + One(c, v)
    BY <1>2, TimesAppend
  <2>7. /\ InHeap(h, w, c) \in Nat /\ OnStack(t, c) \in Nat /\ Times(c, l) \in Nat
        /\ One(c, v) \in Nat /\ One(c, NULL) = 0
    BY <1>6, HeapNat, StackNat, TimesNat DEF One
  <2>8. Count(k, c) = Count(h, c)
    BY <1>9, <1>10 DEF Count
  <2>9. Count(h, c) = InHeap(h, w, c) + OnStack(p, c) + Times(c, m)
    BY <1>3 DEF Inv, Balanced, Want, w
  <2>10. InHeap(k, x, c) = InHeap(h, w, c) + One(c, v)
    BY <2>3, <2>4, <2>7
  <2>11. Count(k, c) = InHeap(k, x, c) + OnStack(t, c) + Times(c, l)
    BY <2>5, <2>6, <2>7, <2>8, <2>9, <2>10
  <2>12. QED
    BY <2>11 DEF Want, x
<1>15. Inv(k, t, l)
  BY <1>4, <1>11, <1>12, <1>13, <1>14 DEF Inv, Balanced
<1>16. QED
  BY <1>15 DEF k

-----------------------------------------------------------------------------
(* The cells malloc takes are free, and different from each other. *)

LEMMA LeastNumber ==
  ASSUME NEW S \in SUBSET Nat, S # {}
  PROVE  \E x \in S : \A y \in S : x <= y
<1> DEFINE R == {ss \in Nat \X Nat : ss[1] < ss[2]}
<1>1. IsWellFoundedOn(R, Nat)
  BY NatLessThanWellFounded DEF OpToRel
<1>2. PICK x \in S : \A y \in S : <<y, x>> \notin R
  <2> HIDE DEF R
  <2> QED  BY <1>1, WFMin
<1>3. \A y \in S : x <= y
  <2> SUFFICES ASSUME NEW y \in S PROVE x <= y
    OBVIOUS
  <2>1. x \in Nat /\ y \in Nat /\ <<y, x>> \notin R
    BY <1>2
  <2>2. ~(y < x)
    BY <2>1
  <2>3. QED
    BY <2>1, <2>2
<1>4. QED
  BY <1>3

LEMMA FreshCells ==
  ASSUME NEW n \in Nat, Room(n)
  PROVE  /\ \A k \in 1 .. n : Fresh(k) \in Cells \ DOMAIN heap
         /\ \A j, k \in 1 .. n : Fresh(j) = Fresh(k) => j = k
<1> DEFINE Spare(c) == (1 .. c) \ DOMAIN heap
           N(c) == Cardinality(Spare(c))
<1>1. MaxCells \in Nat
  BY BoundsAssumption
<1>2. \A c \in Nat : IsFiniteSet(Spare(c)) /\ N(c) \in Nat
  <2> SUFFICES ASSUME NEW c \in Nat PROVE IsFiniteSet(Spare(c)) /\ N(c) \in Nat
    OBVIOUS
  <2>1. IsFiniteSet(1 .. c)
    BY FS_Interval
  <2>2. IsFiniteSet(Spare(c))
    BY <2>1, FS_Subset
  <2>3. QED
    BY <2>2, FS_CardinalityType
<1>3. N(MaxCells) >= n
  BY DEF Room, Cells
<1>4. N(0) = 0
  <2>1. Spare(0) = {}
    OBVIOUS
  <2>2. QED
    BY <2>1, FS_EmptySet
<1>5. \A c \in Nat : N(c + 1) = IF c + 1 \in DOMAIN heap THEN N(c) ELSE N(c) + 1
  <2> SUFFICES ASSUME NEW c \in Nat
               PROVE  N(c + 1) = IF c + 1 \in DOMAIN heap THEN N(c) ELSE N(c) + 1
    OBVIOUS
  <2>1. \A i : i \in 1 .. c + 1 <=> i \in 1 .. c \/ i = c + 1
    OBVIOUS
  <2>2. CASE c + 1 \in DOMAIN heap
    <3>1. Spare(c + 1) = Spare(c)
      BY <2>1, <2>2
    <3>2. QED
      BY <2>2, <3>1
  <2>3. CASE c + 1 \notin DOMAIN heap
    <3>1. Spare(c + 1) = Spare(c) \union {c + 1} /\ c + 1 \notin Spare(c)
      BY <2>1, <2>3
    <3>2. IsFiniteSet(Spare(c))
      BY <1>2
    <3> HIDE DEF Spare
    <3>3. Cardinality(Spare(c) \union {c + 1}) = Cardinality(Spare(c)) + 1
      BY <3>1, <3>2, FS_AddElement
    <3>4. QED
      BY <2>3, <3>1, <3>3
  <2>4. QED
    BY <2>2, <2>3
<1> HIDE DEF N
<1>6. ASSUME NEW k \in 1 .. n PROVE \E c \in Cells \ DOMAIN heap : N(c) = k
  <2> DEFINE S == {c \in 0 .. MaxCells : N(c) >= k}
  <2>1. S \in SUBSET Nat /\ MaxCells \in S
    <3>1. \A x \in Nat : x >= n => x >= k
      OBVIOUS
    <3>2. N(MaxCells) >= k
      BY <1>1, <1>2, <1>3, <3>1
    <3>3. MaxCells \in 0 .. MaxCells
      BY <1>1
    <3>4. QED
      BY <3>2, <3>3
  <2>2. PICK c \in S : \A y \in S : c <= y
    BY <2>1, LeastNumber
  <2>3. c \in 0 .. MaxCells /\ N(c) >= k /\ c # 0
    BY <1>4, <2>2
  <2>4. c - 1 \in Nat /\ c - 1 \in 0 .. MaxCells /\ (c - 1) + 1 = c /\ c \in 1 .. MaxCells
    BY <1>1, <2>3
  <2>5. ~(N(c - 1) >= k)
    BY <2>2, <2>4
  <2>6. N(c) = IF c \in DOMAIN heap THEN N(c - 1) ELSE N(c - 1) + 1
    BY <1>5, <2>4
  <2>7. N(c - 1) \in Nat
    BY <1>2, <2>4
  <2>8. c \notin DOMAIN heap /\ N(c) = k
    BY <2>3, <2>5, <2>6, <2>7
  <2>9. QED
    BY <2>4, <2>8 DEF Cells
<1>7. ASSUME NEW k \in 1 .. n PROVE Fresh(k) \in Cells \ DOMAIN heap /\ N(Fresh(k)) = k
  BY <1>6 DEF Fresh, N
<1>8. QED
  BY <1>7

-----------------------------------------------------------------------------
(* The state. *)

MemInv == Inv(heap, stack, leaked)

(* Values that are alive. *)
Values == {c \in Cells : c \in DOMAIN heap /\ heap[c].rc > 0}

LEMMA NamedByIn == \A e : NamedBy(e) = NamedIn(heap, e)
BY DEF NamedBy, NamedIn, OwnIn, Arguments, Fields, FieldsIn

LEMMA HeldValue ==
  ASSUME MemInv, NEW c \in Nat \ {NULL}, Held(heap, stack, <<>>, c)
  PROVE  c \in Values
BY HeldMore, HeldAlive DEF MemInv, Inv, Values

LEMMA Doings ==
  ASSUME MemInv, NEW what, Doing(what)
  PROVE  /\ stack \in Stacks /\ Top \in Entries /\ Top.do = what /\ Rest \in Stacks
         /\ stack = Push(Top, Rest) /\ 1 \in DOMAIN stack
         /\ HeapTypes(heap) /\ leaked \in Refs
BY TopAndRest DEF Doing, MemInv, Inv, Top, Rest

(* The running function. *)
LEMMA Running ==
  ASSUME MemInv, Doing("run")
  PROVE  /\ Top.f \in {"code", "freeIterator"} /\ Top.arglist \in Nat /\ Top.lets \in Refs
         /\ Rest \in Stacks /\ Frame(Rest) /\ ArglistOk(heap, Top.arglist)
         /\ stack = Push(Run(Top.f, Top.arglist, Top.lets), Rest)
         /\ Named \subseteq Values /\ Frame(stack) /\ First(stack) = Top /\ stack \in Stacks
         /\ HeapTypes(heap) /\ leaked \in Refs
<1>1. /\ stack \in Stacks /\ Top \in Entries /\ Top.do = "run" /\ Rest \in Stacks
      /\ stack = Push(Top, Rest) /\ 1 \in DOMAIN stack
      /\ HeapTypes(heap) /\ leaked \in Refs
  BY Doings
<1>2. /\ Top.f \in {"code", "freeIterator"} /\ Top.arglist \in Nat /\ Top.lets \in Refs
      /\ Top = Run(Top.f, Top.arglist, Top.lets)
  BY <1>1, EntryFacts, EntryForms
<1>3. EntryOk(heap, Top, First(Rest))
  <2>1. StackOk(heap, Push(Top, Rest))
    BY <1>1 DEF MemInv, Inv
  <2>2. QED
    BY <1>1, <2>1, PushOk
<1>4. Frame(Rest) /\ ArglistOk(heap, Top.arglist)
  BY <1>1, <1>3 DEF EntryOk, Frame, ArglistOk
<1>5. Named \subseteq Values
  <2>1. Named = NamedIn(heap, stack[1])
    BY NamedByIn DEF Named, Top
  <2>2. stack[1].do = "run"
    BY <1>1 DEF Top
  <2>3. \A c \in Named : c \in Nat \ {NULL} /\ Held(heap, stack, <<>>, c)
    BY <1>1, <2>1, <2>2, NamesHeld DEF MemInv
  <2>4. QED
    BY <2>3, HeldValue
<1>6. First(stack) = Top /\ Frame(stack)
  <2>1. stack # <<>>
    BY DEF Doing
  <2>2. QED
    BY <1>1, <2>1 DEF First, Frame, Top
<1>7. QED
  BY <1>1, <1>2, <1>4, <1>5, <1>6

-----------------------------------------------------------------------------
(* The stack after a statement.  The references v, al, ... are in C        *)
(* variables before it.                                                    *)

LEMMA StackAssociative ==
  ASSUME NEW a \in Stacks, NEW b \in Stacks, NEW c \in Stacks
  PROVE  (a \o b) \o c = a \o (b \o c)
BY ConcatAssociative DEF Stacks

LEMMA PushTwo ==
  ASSUME NEW a \in Entries, NEW b \in Entries, NEW t \in Stacks
  PROVE  <<a, b>> \o t = Push(a, Push(b, t))
<1>1. PICK x \in Stacks : x = <<a>>
  BY StackSingle
<1>2. PICK y \in Stacks : y = <<b>>
  BY StackSingle
<1>3. x \o y = <<a, b>>
  <2>1. <<a, b>> = Append(<<a>>, b)
    OBVIOUS
  <2>2. Append(x, b) = x \o <<b>>
    BY AppendIsConcat DEF Stacks
  <2>3. QED
    BY <1>1, <1>2, <2>1, <2>2, Zenon
<1>4. (x \o y) \o t = x \o (y \o t)
  BY StackAssociative
<1>5. (x \o y) \o t = <<a, b>> \o t
  BY <1>3, Zenon
<1>6. x \o (y \o t) = Push(a, Push(b, t))
  BY <1>1, <1>2, Zenon DEF Push
<1>7. QED
  BY <1>4, <1>5, <1>6, Zenon

LEMMA EmptyRefs == <<>> \in Refs /\ \A l \in Refs : l \o <<>> = l
BY EmptySeq, ConcatEmptySeq DEF Refs

LEMMA CallInv ==
  ASSUME NEW h, NEW t \in Stacks, NEW l \in Refs, NEW f \in {"code", "freeIterator"},
         NEW al \in Nat, Inv(h, t, Append(l, al)), ArglistOk(h, al), Frame(t)
  PROVE  /\ Push(Run(f, al, <<>>), t) \in Stacks
         /\ Inv(h, Push(Run(f, al, <<>>), t), l)
<1>1. PICK e \in Refs : e = <<>>
  BY EmptyRefs
<1>2. PICK k \in Refs : k = l \o e
  BY TimesConcat
<1>3. k = l
  BY <1>1, <1>2, EmptyRefs, Zenon
<1>4. Inv(h, t, Append(k, al))
  BY <1>3
<1>5. /\ Push(Run(f, al, e), t) \in Stacks
      /\ Inv(h, Push(Run(f, al, e), t), l) <=>
              Inv(h, t, Append(l \o e, al)) /\ ArglistOk(h, al) /\ Frame(t)
  BY PushRun
<1>6. Inv(h, t, Append(l \o e, al))
  BY <1>2, <1>4, Zenon
<1>7. QED
  BY <1>1, <1>5, <1>6, Zenon

(* The running function has a variable more. *)
LEMMA MoreLets ==
  ASSUME NEW h, NEW t \in Stacks, NEW l \in Refs, NEW f \in {"code", "freeIterator"},
         NEW al \in Nat, NEW lets \in Refs, NEW v \in Nat,
         Inv(h, Push(Run(f, al, lets), t), Append(l, v))
  PROVE  Inv(h, Push(Run(f, al, Append(lets, v)), t), l)
<1>1. PICK lv \in Refs : lv = Append(l, v)
  BY TimesAppend
<1>2. PICK m \in Refs : m = Append(lv \o lets, al)
  BY PushRun
<1>3. Inv(h, t, m) /\ ArglistOk(h, al) /\ Frame(t)
  <2>1. Inv(h, Push(Run(f, al, lets), t), lv)
    BY <1>1
  <2>2. Inv(h, t, Append(lv \o lets, al)) /\ ArglistOk(h, al) /\ Frame(t)
    BY <2>1, PushRun
  <2>3. QED
    BY <1>2, <2>2, Zenon
<1>4. PICK lets2 \in Refs : lets2 = Append(lets, v)
  BY TimesAppend
<1>5. PICK n \in Refs : n = Append(l \o lets2, al)
  BY PushRun
<1>6. ASSUME NEW c \in Nat \ {NULL} PROVE Times(c, n) = Times(c, m)
  <2>1. PICK x \in Refs : x = lv \o lets
    BY TimesConcat
  <2>2. PICK y \in Refs : y = l \o lets2
    BY TimesConcat
  <2>3. Times(c, x) = Times(c, lv) + Times(c, lets)
    BY <2>1, TimesConcat
  <2>4. Times(c, y) = Times(c, l) + Times(c, lets2)
    BY <2>2, TimesConcat
  <2>5. Times(c, lv) = Times(c, l) + One(c, v) /\ Times(c, lets2) = Times(c, lets) + One(c, v)
    BY <1>1, <1>4, TimesAppend
  <2>6. Times(c, m) = Times(c, x) + One(c, al) /\ Times(c, n) = Times(c, y) + One(c, al)
    <3>1. m = Append(x, al) /\ n = Append(y, al)
      BY <1>2, <1>5, <2>1, <2>2, Zenon
    <3>2. QED
      BY <3>1, TimesAppend
  <2>7. Times(c, l) \in Nat /\ Times(c, lets) \in Nat /\ One(c, v) \in Nat /\ One(c, al) \in Nat
    BY TimesNat DEF One
  <2>8. QED
    BY <2>3, <2>4, <2>5, <2>6, <2>7
<1>7. Inv(h, t, n)
  BY <1>3, <1>6, InvSame
<1>8. Inv(h, t, Append(l \o lets2, al))
  BY <1>5, <1>7, Zenon
<1>9. Inv(h, Push(Run(f, al, lets2), t), l)
  BY <1>3, <1>8, PushRun
<1>10. QED
  BY <1>4, <1>9

LEMMA LetInv ==
  ASSUME MemInv, Doing("run"), NEW k, NEW v \in Nat, Inv(k, stack, Append(leaked, v))
  PROVE  Inv(k, Let(v), leaked)
<1> DEFINE f == Top.f
           al == Top.arglist
           lets == Top.lets
<1>1. /\ f \in {"code", "freeIterator"} /\ al \in Nat /\ lets \in Refs
      /\ Rest \in Stacks /\ stack = Push(Run(f, al, lets), Rest) /\ leaked \in Refs
      /\ Top \in Entries /\ Top.do = "run"
  BY Running, Doings
<1>2. [Top EXCEPT !.lets = Append(@, v)] = Run(f, al, Append(lets, v))
  BY <1>1, EntryForms
<1> HIDE DEF f, al, lets
<1>3. Inv(k, Push(Run(f, al, lets), Rest), Append(leaked, v))
  BY <1>1
<1>4. Inv(k, Push(Run(f, al, Append(lets, v)), Rest), leaked)
  BY <1>1, <1>3, MoreLets
<1>5. Let(v) = Push(Run(f, al, Append(lets, v)), Rest)
  BY <1>2 DEF Let, Push
<1>6. QED
  BY <1>4, <1>5

(* The running function returns v. *)
LEMMA LeaveInv ==
  ASSUME NEW h, NEW t \in Stacks, NEW l \in Refs, NEW f \in {"code", "freeIterator"},
         NEW al \in Nat, NEW lets \in Refs, NEW v \in Nat,
         NEW back \in Refs, \A c : Times(c, back) = Times(c, lets),
         Inv(h, Push(Run(f, al, lets), t), Append(l, v)),
         NEW e, e = IF al = NULL THEN Push(Deliver(v), t) ELSE Push(Drop(al), Push(Deliver(v), t))
  PROVE  e \in Stacks /\ Inv(h, Drops(back) \o e, l)
<1>1. PICK lv \in Refs : lv = Append(l, v)
  BY TimesAppend
<1>2. PICK m \in Refs : m = Append(lv \o lets, al)
  BY PushRun
<1>3. Inv(h, t, m) /\ Frame(t)
  <2>1. Inv(h, Push(Run(f, al, lets), t), lv)
    BY <1>1
  <2>2. Inv(h, t, Append(lv \o lets, al)) /\ Frame(t)
    BY <2>1, PushRun
  <2>3. QED
    BY <1>2, <2>2, Zenon
<1>4. PICK y \in Refs : y = l \o back
  BY TimesConcat
<1>5. PICK z \in Refs : z = IF al = NULL THEN y ELSE Append(y, al)
  BY TimesAppend
<1>6. PICK n \in Refs : n = Append(z, v)
  BY TimesAppend
<1>7. ASSUME NEW c \in Nat \ {NULL} PROVE Times(c, n) = Times(c, m)
  <2>1. PICK x \in Refs : x = lv \o lets
    BY TimesConcat
  <2>2. Times(c, x) = Times(c, lv) + Times(c, lets) /\ Times(c, lv) = Times(c, l) + One(c, v)
    BY <1>1, <2>1, TimesConcat, TimesAppend
  <2>3. Times(c, m) = Times(c, x) + One(c, al)
    <3>1. m = Append(x, al)
      BY <1>2, <2>1, Zenon
    <3>2. QED
      BY <3>1, TimesAppend
  <2>4. Times(c, y) = Times(c, l) + Times(c, lets)
    BY <1>4, TimesConcat
  <2>5. Times(c, z) = Times(c, y) + One(c, al)
    <3>1. Times(c, y) \in Nat
      BY TimesNat
    <3>2. CASE al = NULL
      BY <1>5, <3>1, <3>2 DEF One
    <3>3. CASE al # NULL
      BY <1>5, <3>3, TimesAppend
    <3>4. QED
      BY <3>2, <3>3
  <2>6. Times(c, n) = Times(c, z) + One(c, v)
    BY <1>6, TimesAppend
  <2>7. Times(c, l) \in Nat /\ Times(c, lets) \in Nat /\ One(c, v) \in Nat /\ One(c, al) \in Nat
    BY TimesNat DEF One
  <2>8. QED
    BY <2>2, <2>3, <2>4, <2>5, <2>6, <2>7
<1>8. Inv(h, t, n)
  BY <1>3, <1>7, InvSame
<1>9. Push(Deliver(v), t) \in Stacks /\ Inv(h, Push(Deliver(v), t), z)
  BY <1>3, <1>6, <1>8, PushDeliver
<1>10. PICK d \in Stacks : d = Push(Deliver(v), t)
  BY <1>9
<1>11. Inv(h, d, z)
  BY <1>9, <1>10
<1>12. e \in Stacks /\ Inv(h, e, y)
  <2>1. CASE al = NULL
    BY <1>5, <1>10, <1>11, <2>1
  <2>2. CASE al # NULL
    <3>1. z = Append(y, al) /\ e = Push(Drop(al), d)
      BY <1>5, <1>10, <2>2
    <3>2. QED
      BY <1>11, <3>1, PushDrop
  <2>3. QED
    BY <2>1, <2>2
<1>13. Inv(h, e, l \o back)
  BY <1>4, <1>12, Zenon
<1>14. QED
  BY <1>12, <1>13, PushDrops

LEMMA ReturnInv ==
  ASSUME MemInv, Doing("run"), NEW k, NEW v \in Nat, Inv(k, stack, Append(leaked, v))
  PROVE  Inv(k, Returning(v), leaked)
<1> DEFINE f == Top.f
           al == Top.arglist
           lets == Top.lets
           d == Push(Deliver(v), Rest)
           e == IF al = NULL THEN d ELSE Push(Drop(al), d)
           mid == IF al = NULL THEN <<>> ELSE <<Drop(al)>>
<1>1. /\ f \in {"code", "freeIterator"} /\ al \in Nat /\ lets \in Refs
      /\ Rest \in Stacks /\ stack = Push(Run(f, al, lets), Rest) /\ leaked \in Refs
  BY Running
<1>2. Inv(k, Push(Run(f, al, lets), Rest), Append(leaked, v))
  BY <1>1
<1> HIDE DEF f, al, lets
<1>b. PICK back \in Refs : back = Reverse(lets) /\ \A c : Times(c, back) = Times(c, lets)
  BY <1>1, ReverseFacts
<1>3. Inv(k, Drops(back) \o e, leaked)
  <2> HIDE DEF e
  <2>1. e = IF al = NULL THEN Push(Deliver(v), Rest) ELSE Push(Drop(al), Push(Deliver(v), Rest))
    BY DEF e
  <2>2. QED
    BY <1>1, <1>2, <1>b, <2>1, LeaveInv
<1>4. Returning(v) = Drops(back) \o e
  <2>1. PICK a \in Stacks : a = Drops(back)
    BY <1>b, StackDrops
  <2>2. PICK b \in Stacks : b = mid
    <3>1. <<Drop(al)>> \in Stacks /\ <<>> \in Stacks
      BY <1>1, MakeEntries, StackSingle, EmptySeq DEF Stacks
    <3>2. QED
      BY <3>1
  <2>3. PICK c \in Stacks : c = <<Deliver(v)>>
    BY MakeEntries, StackSingle
  <2>4. c \o Rest \in Stacks /\ b \o c \in Stacks /\ a \o b \in Stacks
    BY <1>1, ConcatFacts
  <2>5. ((a \o b) \o c) \o Rest = a \o (b \o (c \o Rest))
    <3>1. ((a \o b) \o c) \o Rest = (a \o b) \o (c \o Rest)
      <4>1. PICK ab \in Stacks : ab = a \o b
        BY <2>4
      <4>2. (ab \o c) \o Rest = ab \o (c \o Rest)
        BY <1>1, StackAssociative, Zenon
      <4>3. QED
        BY <4>1, <4>2, Zenon
    <3>2. PICK cr \in Stacks : cr = c \o Rest
      BY <2>4
    <3>3. (a \o b) \o cr = a \o (b \o cr)
      BY StackAssociative, Zenon
    <3>4. QED
      BY <3>1, <3>2, <3>3, Zenon
  <2>6. b \o (c \o Rest) = e
    <3>1. c \o Rest = d
      BY <2>3, Zenon DEF Push
    <3>2. CASE al = NULL
      <4>1. <<>> \o d = d
        BY <2>4, <3>1, ConcatEmptySeq DEF Stacks
      <4>2. b = <<>> /\ e = d
        BY <2>2, <3>2
      <4>3. QED
        BY <3>1, <4>1, <4>2, Zenon
    <3>3. CASE al # NULL
      <4>1. b = <<Drop(al)>> /\ e = Push(Drop(al), d)
        BY <2>2, <3>3
      <4>2. QED
        BY <3>1, <4>1, Zenon DEF Push
    <3>4. QED
      BY <3>2, <3>3
  <2>7. Returning(v) = ((a \o b) \o c) \o Rest
    BY <1>b, <2>1, <2>2, <2>3, Zenon DEF Returning, lets, al
  <2>8. QED
    BY <2>1, <2>5, <2>6, <2>7, Zenon
<1>5. QED
  BY <1>3, <1>4, Zenon

-----------------------------------------------------------------------------
(* Values made by a statement. *)

LEMMA ValueFacts ==
  ASSUME NEW tag \in Tags, NEW kids \in Refs
  PROVE  /\ Value(tag, kids) \in CellValue
         /\ Value(tag, kids).rc = 1 /\ Value(tag, kids).tag = tag
         /\ Value(tag, kids).kids = kids /\ Value(tag, kids).owns = TRUE
         /\ \A m \in Nat :
              LET v == [Value(tag, kids) EXCEPT !.n = m]
              IN  /\ v \in CellValue /\ v.rc = 1 /\ v.tag = tag /\ v.kids = kids
                  /\ v.owns = TRUE /\ v.n = m
         /\ \A f \in {"code", "freeIterator"} :
              LET v == [Value(tag, kids) EXCEPT !.f = f]
              IN  /\ v \in CellValue /\ v.rc = 1 /\ v.tag = tag /\ v.kids = kids /\ v.owns = TRUE
         /\ LET v == [Value(tag, kids) EXCEPT !.owns = FALSE]
            IN  /\ v \in CellValue /\ v.rc = 1 /\ v.tag = tag /\ v.kids = kids /\ v.owns = FALSE
BY DEF CellValue, Value

PlainTags == {"WORLD", "CONSTRUCTOR", "ARGLIST", "POINTER", "IOREF", "ARRAY", "CHAR", "STRING"}

LEMMA PlainOk ==
  ASSUME NEW h, NEW c, h[c].tag \in PlainTags, h[c].owns
  PROVE  CellOk(h, c)
BY DEF CellOk, PlainTags

(* The new value v in the cell x takes a reference to each of args. *)
LEMMA NewInv ==
  ASSUME NEW h, NEW s, NEW l, Inv(h, s, l), NEW args \in Refs, Alive(h, args),
         NEW x \in Cells \ DOMAIN h, NEW v \in CellValue, v.rc = 1, v.owns,
         \A c \in Nat \ {NULL} : Times(c, v.kids) = Times(c, args),
         CellOk(Alloc(newReference(h, args), x, v), x)
  PROVE  Inv(Alloc(newReference(h, args), x, v), s, Append(l, x))
<1>1. l \in Refs /\ HeapTypes(h)
  BY DEF Inv
<1>2. PICK g : g = newReference(h, args)
  OBVIOUS
<1>3. PICK m \in Refs : m = l \o args
  BY <1>1, TimesConcat
<1>4. \A c : Times(c, m) = Times(c, l) + Times(c, args)
  BY <1>1, <1>3, TimesConcat
<1>5. Inv(g, s, m)
  BY <1>2, <1>3, TakeInv
<1>6. DOMAIN g = DOMAIN h
  BY <1>1, <1>2, TakeFacts
<1>7. \A c \in Nat \ {NULL} :
        Times(c, m) = Times(c, l) + (IF v.owns THEN Times(c, v.kids) ELSE 0)
  BY <1>4
<1>8. x \in Cells \ DOMAIN g /\ CellOk(Alloc(g, x, v), x)
  BY <1>2, <1>6
<1>9. Inv(Alloc(g, x, v), s, Append(l, x))
  BY <1>1, <1>5, <1>7, <1>8, MakeInv
<1>10. QED
  BY <1>2, <1>9

(* What is in the heap k that has some values more than h, and one         *)
(* reference more to each of args. *)
Grown(h, k, args, new) ==
  /\ DOMAIN k = DOMAIN h \union new
  /\ \A c \in DOMAIN h :
       /\ c \notin new /\ k[c].tag = h[c].tag /\ k[c].kids = h[c].kids
       /\ k[c].owns = h[c].owns /\ k[c].rc = h[c].rc + Times(c, args)

LEMMA NewFacts ==
  ASSUME NEW h, HeapTypes(h), NEW args \in Refs, NEW x \in Cells \ DOMAIN h, NEW v \in CellValue,
         NEW k, k = Alloc(newReference(h, args), x, v)
  PROVE  HeapTypes(k) /\ k[x] = v /\ Grown(h, k, args, {x})
<1>1. PICK g : g = newReference(h, args)
  OBVIOUS
<1>2. /\ HeapTypes(g) /\ DOMAIN g = DOMAIN h
      /\ \A c \in DOMAIN h :
           /\ g[c].tag = h[c].tag /\ g[c].kids = h[c].kids /\ g[c].n = h[c].n
           /\ g[c].f = h[c].f /\ g[c].owns = h[c].owns
           /\ g[c].rc = h[c].rc + Times(c, args)
  BY <1>1, TakeFacts
<1>3. k = Alloc(g, x, v) /\ x \in Cells \ DOMAIN g
  BY <1>1, <1>2
<1>4. /\ HeapTypes(k) /\ DOMAIN k = DOMAIN g \union {x} /\ k[x] = v
      /\ \A c \in DOMAIN g : k[c] = g[c] /\ c # x
  <2>1. HeapTypes(g)
    BY <1>2
  <2>2. /\ DOMAIN k = DOMAIN g \union {x} /\ k[x] = v
        /\ \A c \in DOMAIN g : k[c] = g[c] /\ c # x
    BY <1>3 DEF Alloc
  <2>3. HeapTypes(k)
    BY <2>1, <2>2 DEF HeapTypes
  <2>4. QED
    BY <2>2, <2>3
<1>5. QED
  BY <1>2, <1>4 DEF Grown

LEMMA ArglistFacts ==
  ASSUME NEW args \in Refs, NEW total \in Nat, NEW v, v = Arglist(args, total)
  PROVE  v \in CellValue /\ v.rc = 1 /\ v.tag = "ARGLIST" /\ v.kids = args /\ v.owns
BY DEF Arglist, Value, CellValue, Tags

(* The new value in the cell x. *)
Made(k, x, tag, kids) == Kind(k, x, tag) /\ k[x].kids = kids /\ k[x].rc = 1

LEMMA ArglistMade ==
  ASSUME NEW h, HeapTypes(h), NEW args \in Refs, NEW x \in Cells \ DOMAIN h, NEW total \in Nat,
         NEW k, k = Alloc(newReference(h, args), x, Arglist(args, total))
  PROVE  HeapTypes(k) /\ Grown(h, k, args, {x}) /\ Made(k, x, "ARGLIST", args)
<1>1. PICK v : v = Arglist(args, total)
  OBVIOUS
<1>2. v \in CellValue /\ v.rc = 1 /\ v.tag = "ARGLIST" /\ v.kids = args
  BY <1>1, ArglistFacts
<1>3. k = Alloc(newReference(h, args), x, v)
  BY <1>1
<1>4. HeapTypes(k) /\ k[x] = v /\ Grown(h, k, args, {x})
  BY <1>2, <1>3, NewFacts
<1>5. QED
  BY <1>2, <1>4 DEF Made, Kind, Grown

LEMMA ArglistInv ==
  ASSUME NEW h, NEW s, NEW l, Inv(h, s, l), NEW args \in Refs, Alive(h, args),
         NEW x \in Cells \ DOMAIN h, NEW total \in Nat,
         NEW k, k = Alloc(newReference(h, args), x, Arglist(args, total))
  PROVE  Inv(k, s, Append(l, x))
<1>1. PICK v : v = Arglist(args, total)
  OBVIOUS
<1>2. v \in CellValue /\ v.rc = 1 /\ v.tag = "ARGLIST" /\ v.kids = args /\ v.owns
  BY <1>1, ArglistFacts
<1>3. HeapTypes(h) /\ k = Alloc(newReference(h, args), x, v)
  BY <1>1 DEF Inv
<1>4. k[x] = v
  BY <1>3 DEF Alloc
<1>5. CellOk(k, x)
  BY <1>2, <1>4, PlainOk DEF PlainTags
<1>6. QED
  BY <1>2, <1>3, <1>5, NewInv

(* A closure that takes a reference to each of args, through its arglist. *)
LEMMA ClosureMade ==
  ASSUME HeapTypes(heap), NEW args \in Refs,
         NEW x \in Cells \ DOMAIN heap, NEW y \in Cells \ DOMAIN heap,
         x = Fresh(1), y = Fresh(2), x # y,
         NEW f \in {"code", "freeIterator"}, NEW total \in Nat,
         NEW k, k = makeClosureFromArglist(f, args, total)
  PROVE  /\ Grown(heap, k, args, {x, y}) /\ Made(k, x, "ARGLIST", args)
         /\ Made(k, y, closureTag(args, total), <<x>>)
<1>1. PICK g : g = Alloc(newReference(heap, args), x, Arglist(args, total))
  OBVIOUS
<1>2. HeapTypes(g) /\ Grown(heap, g, args, {x}) /\ Made(g, x, "ARGLIST", args)
  BY <1>1, ArglistMade
<1>3. PICK tag : tag = closureTag(args, total)
  OBVIOUS
<1>4. PICK kids : kids = <<x>>
  OBVIOUS
<1>5. PICK v : v = [Value(tag, kids) EXCEPT !.f = f]
  OBVIOUS
<1>6. v.rc = 1 /\ v.tag = tag /\ v.kids = kids
  BY <1>5 DEF Value
<1>7. k = Alloc(g, y, v)
  BY <1>1, <1>3, <1>4, <1>5, Zenon DEF makeClosureFromArglist
<1>8. y \notin DOMAIN g
  BY <1>2 DEF Grown
<1>9. /\ DOMAIN k = DOMAIN g \union {y} /\ k[y] = v
      /\ \A c \in DOMAIN g : k[c] = g[c] /\ c # y
  BY <1>7, <1>8 DEF Alloc
<1>10. Grown(heap, k, args, {x, y})
  BY <1>2, <1>8, <1>9 DEF Grown
<1>11. Made(k, x, "ARGLIST", args)
  BY <1>2, <1>9 DEF Made, Kind
<1>12. Made(k, y, tag, kids)
  BY <1>6, <1>9 DEF Made, Kind
<1>13. QED
  BY <1>3, <1>4, <1>10, <1>11, <1>12

LEMMA ClosureInv ==
  ASSUME NEW s, NEW l, Inv(heap, s, l), NEW args \in Refs, Alive(heap, args),
         NEW x \in Cells \ DOMAIN heap, NEW y \in Cells \ DOMAIN heap,
         x = Fresh(1), y = Fresh(2), x # y,
         NEW f \in {"code", "freeIterator"}, NEW total \in Nat,
         NEW k, k = makeClosureFromArglist(f, args, total)
  PROVE  Inv(k, s, Append(l, y))
<1>1. PICK g : g = Alloc(newReference(heap, args), x, Arglist(args, total))
  OBVIOUS
<1>2. Inv(g, s, Append(l, x))
  BY <1>1, ArglistInv
<1>3. HeapTypes(g) /\ Grown(heap, g, args, {x}) /\ Made(g, x, "ARGLIST", args)
  BY <1>1, ArglistMade DEF Inv
<1>4. x \in Nat /\ y \in Nat /\ l \in Refs /\ y \in Cells \ DOMAIN g
  BY <1>3, OneFacts DEF Inv, Grown
<1>5. PICK kids \in Refs : kids = <<x>>
  BY <1>4, TimesOne
<1>6. PICK tag \in Tags : tag = closureTag(args, total) /\ tag \in {"CLOSURE", "COMPLETE_CLOSURE"}
  BY DEF closureTag, Tags
<1>7. PICK v : v = [Value(tag, kids) EXCEPT !.f = f]
  OBVIOUS
<1>8. v \in CellValue /\ v.rc = 1 /\ v.tag = tag /\ v.kids = kids /\ v.owns
  BY <1>7 DEF Value, CellValue
<1>9. k = Alloc(g, y, v)
  BY <1>1, <1>5, <1>6, <1>7, Zenon DEF makeClosureFromArglist
<1>10. /\ DOMAIN k = DOMAIN g \union {y} /\ k[y] = v
       /\ \A c \in DOMAIN g : k[c] = g[c] /\ c # y
  BY <1>4, <1>9 DEF Alloc
<1>11. CellOk(k, y)
  <2>1. Len(kids) = 1 /\ kids[1] = x
    BY <1>5
  <2>2. Kind(k, x, "ARGLIST")
    BY <1>3, <1>10 DEF Kind, Made
  <2>3. QED
    BY <1>6, <1>8, <1>10, <2>1, <2>2 DEF CellOk
<1>12. PICK m \in Refs : m = Append(l, x)
  BY <1>4, TimesAppend
<1>13. \A c \in Nat \ {NULL} :
         Times(c, m) = Times(c, l) + (IF v.owns THEN Times(c, v.kids) ELSE 0)
  BY <1>4, <1>5, <1>8, <1>12, TimesAppend, TimesOne
<1>14. Inv(g, s, m) /\ CellOk(Alloc(g, y, v), y)
  BY <1>2, <1>6, <1>8, <1>9, <1>11, <1>12
<1>15. Inv(Alloc(g, y, v), s, Append(l, y))
  BY <1>4, <1>8, <1>13, <1>14, MakeInv
<1>16. QED
  BY <1>9, <1>15

(* One reference more. *)
LEMMA TakeOne ==
  ASSUME NEW h, NEW s, NEW l, Inv(h, s, l), NEW v \in Nat,
         v # NULL => v \in DOMAIN h /\ h[v].rc > 0
  PROVE  Inv(newReference(h, <<v>>), s, Append(l, v))
<1>1. PICK cells \in Refs : cells = <<v>>
  BY TimesOne
<1>2. Alive(h, cells)
  BY <1>1 DEF Alive, ToSet
<1>3. Inv(newReference(h, cells), s, l \o cells)
  BY <1>2, TakeInv
<1>4. l \o cells = Append(l, v)
  BY <1>1, AppendIsConcat DEF Inv, Refs
<1>5. QED
  BY <1>1, <1>3, <1>4

(* The arguments of a statement. *)
LEMMA ArgsFacts ==
  ASSUME NEW args \in {<<>>} \union {<<x>> : x \in Values} \union {<<x, y>> : x, y \in Values}
  PROVE  args \in Refs /\ Alive(heap, args) /\ Len(args) \in Nat
<1>1. \A x \in Values : x \in Nat /\ x \in DOMAIN heap /\ heap[x].rc > 0
  BY OneFacts DEF Values
<1>2. CASE args = <<>>
  BY <1>2, EmptyRefs DEF Alive, ToSet
<1>3. ASSUME NEW x \in Values, args = <<x>> PROVE args \in Refs /\ Alive(heap, args)
  BY <1>1, <1>3, TimesOne DEF Alive, ToSet
<1>4. ASSUME NEW x \in Values, NEW y \in Values, args = <<x, y>>
      PROVE  args \in Refs /\ Alive(heap, args)
  BY <1>1, <1>4, TimesTwo DEF Alive, ToSet
<1>5. args \in Refs /\ Alive(heap, args)
  BY <1>2, <1>3, <1>4
<1>6. QED
  BY <1>5, SeqFacts

(* The references in m are those in l and in cells. *)
Adds(m, l, cells) == \A c \in Nat \ {NULL} : Times(c, m) = Times(c, l) + Times(c, cells)

LEMMA AddsConcat ==
  ASSUME NEW l \in Refs, NEW cells \in Refs, NEW m, m = l \o cells
  PROVE  m \in Refs /\ Adds(m, l, cells)
BY TimesConcat DEF Adds

LEMMA AddsNone ==
  ASSUME NEW l \in Refs
  PROVE  Adds(l, l, <<>>)
<1>1. \A c : Times(c, l) \in Nat /\ Times(c, <<>>) = 0
  BY TimesEmpty, TimesNat
<1>2. QED
  BY <1>1 DEF Adds

LEMMA AddsOne ==
  ASSUME NEW l \in Refs, NEW x \in Nat
  PROVE  Adds(Append(l, x), l, <<x>>)
BY TimesAppend, TimesOne DEF Adds

(* A value that no function of the runtime looks into. *)
LEMMA PlainInv ==
  ASSUME NEW h, NEW s, NEW m, Inv(h, s, m), NEW x \in Cells \ DOMAIN h, NEW tag \in PlainTags,
         NEW kids \in Refs, NEW l \in Refs, Adds(m, l, kids),
         NEW k, k = Alloc(h, x, Value(tag, kids))
  PROVE  Inv(k, s, Append(l, x))
<1>1. PICK v : v = Value(tag, kids)
  OBVIOUS
<1>2. v \in CellValue /\ v.rc = 1 /\ v.tag = tag /\ v.kids = kids /\ v.owns
  BY <1>1 DEF Value, CellValue, PlainTags, Tags
<1>3. k = Alloc(h, x, v) /\ HeapTypes(h)
  BY <1>1 DEF Inv
<1>4. k[x] = v
  BY <1>3 DEF Alloc
<1>5. CellOk(Alloc(h, x, v), x)
  BY <1>2, <1>3, <1>4, PlainOk
<1>6. \A c \in Nat \ {NULL} : Times(c, m) = Times(c, l) + (IF v.owns THEN Times(c, v.kids) ELSE 0)
  BY <1>2 DEF Adds
<1>7. Inv(Alloc(h, x, v), s, Append(l, x))
  BY <1>2, <1>5, <1>6, MakeInv
<1>8. QED
  BY <1>3, <1>7

(* What a value owns is alive. *)
LEMMA KidsAlive ==
  ASSUME NEW h, NEW s, NEW l, Inv(h, s, l), NEW c \in DOMAIN h,
         h[c].tag \notin {"ARRAY", "WORLD"}, h[c].owns
  PROVE  h[c].kids \in Refs /\ Alive(h, h[c].kids)
<1>1. h[c].kids \in Refs /\ \A i \in DOMAIN h[c].kids : h[c].kids[i] \in Nat
  BY CellFacts DEF Inv
<1>2. ASSUME NEW i \in DOMAIN h[c].kids, h[c].kids[i] # NULL
      PROVE  h[c].kids[i] \in DOMAIN h /\ h[h[c].kids[i]].rc > 0
  <2>1. <<c, i>> \notin Writing(s)
    BY WrittenSlots DEF Inv
  <2>2. Held(h, s, l, h[c].kids[i])
    BY <2>1 DEF Held
  <2>3. QED
    BY <1>1, <1>2, <2>2, HeldAlive
<1>3. QED
  BY <1>1, <1>2 DEF Alive, ToSet

(* A closure has an arglist, and what apply_closure makes of it is alive. *)
LEMMA ClosureFacts ==
  ASSUME NEW s, NEW l, Inv(heap, s, l), NEW c \in DOMAIN heap, heap[c].rc > 0,
         heap[c].tag \in {"CLOSURE", "COMPLETE_CLOSURE"}
  PROVE  /\ heap[c].f \in {"code", "freeIterator"} /\ Total(c) \in Nat
         /\ heap[c].kids[1] \in Nat \ {NULL} /\ Kind(heap, heap[c].kids[1], "ARGLIST")
         /\ heap[heap[c].kids[1]].rc > 0
         /\ heap[heap[c].kids[1]].kids \in Refs /\ Alive(heap, heap[heap[c].kids[1]].kids)
<1>1. HeapTypes(heap) /\ CellOk(heap, c)
  BY DEF Inv, HeapOk
<1>2. PICK al : al = heap[c].kids[1]
  OBVIOUS
<1>3. Len(heap[c].kids) = 1 /\ al \in DOMAIN heap /\ heap[al].tag = "ARGLIST"
  BY <1>1, <1>2 DEF CellOk, Kind
<1>4. heap[c].owns /\ heap[al].owns
  <2>1. CellOk(heap, al)
    BY <1>3 DEF Inv, HeapOk
  <2>2. QED
    BY <1>1, <1>3, <2>1 DEF CellOk
<1>5. heap[c].kids \in Refs /\ Alive(heap, heap[c].kids)
  BY <1>4, KidsAlive
<1>6. al \in Nat \ {NULL} /\ heap[al].rc > 0
  <2>1. DOMAIN heap[c].kids = 1 .. 1
    BY <1>3, <1>5, SeqFacts
  <2>2. al \in ToSet(heap[c].kids)
    BY <1>2, <2>1 DEF ToSet
  <2>3. al \in Nat /\ al # NULL
    BY <1>1, <1>3, CellFacts
  <2>4. QED
    BY <1>5, <2>2, <2>3 DEF Alive
<1>7. heap[al].kids \in Refs /\ Alive(heap, heap[al].kids)
  BY <1>3, <1>4, KidsAlive
<1>8. heap[c].f \in {"code", "freeIterator"} /\ heap[al].n \in Nat
  BY <1>1, <1>3, CellFacts
<1>9. QED
  BY <1>2, <1>3, <1>6, <1>7, <1>8 DEF Total, Kind

LEMMA AliveAppend ==
  ASSUME NEW h, NEW cells \in Refs, Alive(h, cells), NEW v \in Nat,
         v # NULL => v \in DOMAIN h /\ h[v].rc > 0
  PROVE  Append(cells, v) \in Refs /\ Alive(h, Append(cells, v)) /\ Len(Append(cells, v)) \in Nat
<1>1. PICK t \in Refs : t = Append(cells, v)
  BY TimesAppend
<1>2. \A c : Times(c, t) = Times(c, cells) + One(c, v)
  BY <1>1, TimesAppend
<1>3. ASSUME NEW c \in ToSet(t) \ {NULL} PROVE c \in DOMAIN h /\ h[c].rc > 0
  <2>1. Times(c, t) # 0
    BY <1>3, TimesNat
  <2>2. c = v \/ Times(c, cells) # 0
    BY <1>2, <2>1 DEF One
  <2>3. QED
    BY <1>3, <2>2, TimesNat DEF Alive
<1>4. QED
  BY <1>1, <1>3, SeqFacts DEF Alive

(* A GC pointer takes over its function and its pointer. *)
LEMMA GCInv ==
  ASSUME NEW h, NEW s, NEW m, Inv(h, s, m), NEW x \in Cells \ DOMAIN h,
         NEW p \in Nat, NEW fct \in Nat, Kind(h, fct, "CLOSURE"), NEW l \in Refs,
         Adds(m, l, <<fct, p>>), NEW k, k = Alloc(h, x, GCPointer(p, fct))
  PROVE  Inv(k, s, Append(l, x))
<1>1. PICK kids \in Refs : kids = <<fct, p>>
  BY TimesTwo
<1>2. \A c \in Nat \ {NULL} : Times(c, m) = Times(c, l) + Times(c, kids)
  BY <1>1 DEF Adds
<1>3. PICK v : v = Value("GC_POINTER", kids)
  OBVIOUS
<1>4. v \in CellValue /\ v.rc = 1 /\ v.tag = "GC_POINTER" /\ v.kids = kids /\ v.owns
  BY <1>3 DEF Value, CellValue, Tags
<1>5. k = Alloc(h, x, v) /\ HeapTypes(h)
  BY <1>1, <1>3 DEF GCPointer, Inv
<1>6. DOMAIN k = DOMAIN h \union {x} /\ k[x] = v /\ \A c \in DOMAIN h : k[c] = h[c] /\ c # x
  BY <1>5 DEF Alloc
<1>7. CellOk(Alloc(h, x, v), x)
  <2>1. Len(kids) = 2 /\ kids[1] = fct
    BY <1>1
  <2>2. Kind(k, fct, "CLOSURE")
    BY <1>6 DEF Kind
  <2>3. QED
    BY <1>4, <1>5, <1>6, <2>1, <2>2 DEF CellOk
<1>8. \A c \in Nat \ {NULL} : Times(c, m) = Times(c, l) + (IF v.owns THEN Times(c, v.kids) ELSE 0)
  BY <1>2, <1>4
<1>9. Inv(Alloc(h, x, v), s, Append(l, x))
  BY <1>4, <1>7, <1>8, MakeInv
<1>10. QED
  BY <1>5, <1>9

LEMMA FreshFacts ==
  /\ Room(1) => Fresh(1) \in Cells \ DOMAIN heap
  /\ Room(2) => {Fresh(1), Fresh(2)} \subseteq Cells \ DOMAIN heap /\ Fresh(1) # Fresh(2)
  /\ Room(3) => /\ {Fresh(1), Fresh(2), Fresh(3)} \subseteq Cells \ DOMAIN heap
                /\ Fresh(1) # Fresh(2) /\ Fresh(3) \notin {Fresh(1), Fresh(2)}
  /\ Room(4) => /\ {Fresh(1), Fresh(2), Fresh(3), Fresh(4)} \subseteq Cells \ DOMAIN heap
                /\ Fresh(1) # Fresh(2) /\ Fresh(3) \notin {Fresh(1), Fresh(2)}
                /\ Fresh(4) \notin {Fresh(1), Fresh(2), Fresh(3)}
<1>1. Room(1) => \A k \in 1 .. 1 : Fresh(k) \in Cells \ DOMAIN heap
  BY FreshCells
<1>2. Room(2) => /\ \A k \in 1 .. 2 : Fresh(k) \in Cells \ DOMAIN heap
                 /\ \A j, k \in 1 .. 2 : Fresh(j) = Fresh(k) => j = k
  BY FreshCells
<1>3. Room(3) => /\ \A k \in 1 .. 3 : Fresh(k) \in Cells \ DOMAIN heap
                 /\ \A j, k \in 1 .. 3 : Fresh(j) = Fresh(k) => j = k
  BY FreshCells
<1>4. Room(4) => /\ \A k \in 1 .. 4 : Fresh(k) \in Cells \ DOMAIN heap
                 /\ \A j, k \in 1 .. 4 : Fresh(j) = Fresh(k) => j = k
  BY FreshCells
<1>5. QED
  BY <1>1, <1>2, <1>3, <1>4

-----------------------------------------------------------------------------
(* The invariant holds at first, and every action keeps it. *)

LEMMA LetStep ==
  ASSUME MemInv, Doing("run"), NEW v \in Nat, Inv(heap', stack, Append(leaked, v)),
         stack' = Let(v), leaked' = leaked
  PROVE  MemInv'
BY LetInv DEF MemInv

(* The values the running function can name. *)
LEMMA NamedFacts ==
  ASSUME MemInv, Doing("run"), NEW c \in Named
  PROVE  c \in Nat /\ c # NULL /\ c \in Cells /\ c \in DOMAIN heap /\ heap[c].rc > 0
BY Running, OneFacts DEF Values

LEMMA NamedArgs ==
  ASSUME MemInv, Doing("run"),
         NEW args \in {<<>>} \union {<<x>> : x \in Named} \union {<<x, y>> : x, y \in Named}
  PROVE  args \in Refs /\ Alive(heap, args) /\ Len(args) \in Nat
<1>1. Named \subseteq Values
  BY Running
<1>2. args \in {<<>>} \union {<<x>> : x \in Values} \union {<<x, y>> : x, y \in Values}
  BY <1>1
<1>3. QED
  BY <1>2, ArgsFacts

LEMMA newConstructorInv ==
  ASSUME MemInv, newConstructor
  PROVE  MemInv'
<1>1. Doing("run") /\ Room(1) /\ leaked' = leaked /\ stack' = Let(Fresh(1))
  BY DEF newConstructor, Statement
<1>2. PICK args \in Refs :
        /\ Alive(heap, args)
        /\ heap' = Alloc(newReference(heap, args), Fresh(1), Value("CONSTRUCTOR", args))
  <2>1. PICK args \in {<<>>} \union {<<x>> : x \in Named} \union {<<x, y>> : x, y \in Named} :
          heap' = Alloc(newReference(heap, args), Fresh(1), Value("CONSTRUCTOR", args))
    BY DEF newConstructor
  <2>2. args \in Refs /\ Alive(heap, args)
    BY <1>1, NamedArgs
  <2>3. QED
    BY <2>1, <2>2
<1>3. leaked \in Refs /\ HeapTypes(heap)
  BY DEF MemInv, Inv
<1>4. PICK x \in Cells \ DOMAIN heap : x = Fresh(1)
  BY <1>1, FreshFacts
<1>5. PICK g : g = newReference(heap, args)
  OBVIOUS
<1>6. PICK m \in Refs : m = leaked \o args
  BY <1>3, TimesConcat
<1>7. Inv(g, stack, m)
  BY <1>2, <1>5, <1>6, TakeInv DEF MemInv
<1>8. x \in Cells \ DOMAIN g
  BY <1>3, <1>5, TakeFacts
<1>9. Adds(m, leaked, args)
  BY <1>3, <1>6, AddsConcat
<1>10. heap' = Alloc(g, x, Value("CONSTRUCTOR", args)) /\ "CONSTRUCTOR" \in PlainTags
  BY <1>2, <1>4, <1>5 DEF PlainTags
<1>11. Inv(heap', stack, Append(leaked, x))
  BY <1>3, <1>7, <1>8, <1>9, <1>10, PlainInv
<1>12. QED
  BY <1>1, <1>4, <1>11, LetStep, OneFacts

LEMMA UnderAppliedInv ==
  ASSUME MemInv, UnderApplied
  PROVE  MemInv'
<1>1. Doing("run") /\ Room(2) /\ leaked' = leaked /\ stack' = Let(Fresh(2))
  BY DEF UnderApplied, Statement
<1>2. PICK args \in Refs, total \in Nat :
        Alive(heap, args) /\ heap' = makeClosureFromArglist("code", args, total)
  <2>1. PICK args \in {<<>>} \union {<<x>> : x \in Named}, missing \in 1 .. 2 :
          heap' = makeClosureFromArglist("code", args, Len(args) + missing)
    BY DEF UnderApplied
  <2>2. args \in Refs /\ Alive(heap, args) /\ Len(args) + missing \in Nat
    BY <1>1, NamedArgs
  <2>3. QED
    BY <2>1, <2>2
<1>3. PICK x \in Cells \ DOMAIN heap, y \in Cells \ DOMAIN heap :
        x = Fresh(1) /\ y = Fresh(2) /\ x # y
  BY <1>1, FreshFacts
<1>4. Inv(heap', stack, Append(leaked, y))
  BY <1>2, <1>3, ClosureInv DEF MemInv
<1>5. QED
  BY <1>1, <1>3, <1>4, LetStep, OneFacts

LEMMA makePointerInv ==
  ASSUME MemInv, makePointer
  PROVE  MemInv'
<1>1. /\ Doing("run") /\ Room(1) /\ leaked' = leaked /\ stack' = Let(Fresh(1))
      /\ heap' = Alloc(heap, Fresh(1), Value("POINTER", <<>>))
  BY DEF makePointer, Statement
<1>2. PICK x \in Cells \ DOMAIN heap : x = Fresh(1)
  BY <1>1, FreshFacts
<1>3. PICK kids \in Refs : kids = <<>>
  BY EmptyRefs
<1>4. leaked \in Refs /\ Inv(heap, stack, leaked)
  BY DEF MemInv, Inv
<1>5. Adds(leaked, leaked, kids)
  BY <1>3, <1>4, AddsNone
<1>6. Inv(heap', stack, Append(leaked, x))
  <2>1. heap' = Alloc(heap, x, Value("POINTER", kids)) /\ "POINTER" \in PlainTags
    BY <1>1, <1>2, <1>3 DEF PlainTags
  <2>2. QED
    BY <1>4, <1>5, <2>1, PlainInv
<1>7. QED
  BY <1>1, <1>2, <1>6, LetStep, OneFacts

LEMMA makeWorldInv ==
  ASSUME MemInv, makeWorld
  PROVE  MemInv'
<1>1. /\ Doing("run") /\ Room(1) /\ leaked' = leaked /\ stack' = Let(Fresh(1))
      /\ heap' = Alloc(heap, Fresh(1), Value("WORLD", <<>>))
  BY DEF makeWorld, Statement
<1>2. PICK x \in Cells \ DOMAIN heap : x = Fresh(1)
  BY <1>1, FreshFacts
<1>3. PICK kids \in Refs : kids = <<>>
  BY EmptyRefs
<1>4. leaked \in Refs /\ Inv(heap, stack, leaked)
  BY DEF MemInv, Inv
<1>5. Adds(leaked, leaked, kids)
  BY <1>3, <1>4, AddsNone
<1>6. Inv(heap', stack, Append(leaked, x))
  <2>1. heap' = Alloc(heap, x, Value("WORLD", kids)) /\ "WORLD" \in PlainTags
    BY <1>1, <1>2, <1>3 DEF PlainTags
  <2>2. QED
    BY <1>4, <1>5, <2>1, PlainInv
<1>7. QED
  BY <1>1, <1>2, <1>6, LetStep, OneFacts

LEMMA AliasInv ==
  ASSUME MemInv, Alias
  PROVE  MemInv'
<1>1. Doing("run") /\ leaked' = leaked
  BY DEF Alias, Statement
<1>2. PICK x \in Named : heap' = newReference(heap, <<x>>) /\ stack' = Let(x)
  BY DEF Alias
<1>3. x \in Nat /\ x \in DOMAIN heap /\ heap[x].rc > 0
  BY <1>1, NamedFacts
<1>4. Inv(heap', stack, Append(leaked, x))
  BY <1>2, <1>3, TakeOne DEF MemInv
<1>5. QED
  BY <1>1, <1>2, <1>3, <1>4, LetStep

LEMMA onCollectInv ==
  ASSUME MemInv, onCollect
  PROVE  MemInv'
<1>1. Doing("run") /\ Room(1) /\ leaked' = leaked /\ stack' = Let(Fresh(1))
  BY DEF onCollect, Statement
<1>2. PICK p \in Named, fct \in Named :
        /\ heap[fct].tag = "CLOSURE"
        /\ heap' = Alloc(newReference(heap, <<p, fct>>), Fresh(1), GCPointer(p, fct))
  BY DEF onCollect, Finalisers, Tagged
<1>3. p \in Values /\ fct \in Values /\ p \in Nat /\ fct \in Nat /\ fct \in DOMAIN heap
  BY <1>1, NamedFacts, OneFacts DEF Values
<1>4. PICK args \in Refs : args = <<p, fct>>
  BY <1>3, TimesTwo
<1>5. Alive(heap, args)
  <2>1. args \in {<<>>} \union {<<x>> : x \in Values} \union {<<x, y>> : x, y \in Values}
    BY <1>3, <1>4
  <2>2. QED
    BY <2>1, ArgsFacts
<1>6. leaked \in Refs /\ HeapTypes(heap)
  BY DEF MemInv, Inv
<1>7. PICK x \in Cells \ DOMAIN heap : x = Fresh(1)
  BY <1>1, FreshFacts
<1>8. PICK g : g = newReference(heap, args)
  OBVIOUS
<1>9. PICK m \in Refs : m = leaked \o args
  BY <1>6, TimesConcat
<1>10. Inv(g, stack, m)
  BY <1>5, <1>8, <1>9, TakeInv DEF MemInv
<1>11. x \in Cells \ DOMAIN g /\ Kind(g, fct, "CLOSURE")
  BY <1>2, <1>3, <1>6, <1>8, TakeFacts DEF Kind
<1>12. Adds(m, leaked, <<fct, p>>)
  <2>1. \A c : Times(c, <<fct, p>>) = Times(c, args)
    <3>1. \A c : Times(c, <<fct, p>>) = One(c, fct) + One(c, p)
      BY <1>3, TimesTwo
    <3>2. \A c : Times(c, <<p, fct>>) = One(c, p) + One(c, fct)
      BY <1>3, TimesTwo
    <3>3. \A c, d : One(c, d) \in Nat
      BY DEF One
    <3>4. QED
      BY <1>4, <3>1, <3>2, <3>3
  <2>2. \A c : Times(c, m) = Times(c, leaked) + Times(c, args)
    BY <1>6, <1>9, TimesConcat
  <2>3. QED
    BY <2>1, <2>2 DEF Adds
<1>13. heap' = Alloc(g, x, GCPointer(p, fct))
  BY <1>2, <1>4, <1>7, <1>8
<1>14. Inv(heap', stack, Append(leaked, x))
  BY <1>3, <1>6, <1>10, <1>11, <1>12, <1>13, GCInv
<1>15. QED
  BY <1>1, <1>7, <1>14, LetStep, OneFacts

LEMMA onCollectAnyInv ==
  ASSUME MemInv, onCollectAny
  PROVE  MemInv'
<1>1. Doing("run") /\ Room(1) /\ leaked' = leaked /\ stack' = Let(Fresh(1))
  BY DEF onCollectAny, Statement
<1>2. PICK p \in Named, fct \in Named :
        heap' = Alloc(heap, Fresh(1), [GCPointer(p, fct) EXCEPT !.owns = FALSE])
  BY DEF onCollectAny, Finalisers, Tagged
<1>3. p \in Nat /\ fct \in Nat
  BY <1>1, NamedFacts
<1>4. PICK kids \in Refs : kids = <<fct, p>>
  BY <1>3, TimesTwo
<1>5. PICK v : v = [Value("GC_POINTER", kids) EXCEPT !.owns = FALSE]
  OBVIOUS
<1>6. v \in CellValue /\ v.rc = 1 /\ v.tag = "GC_POINTER" /\ v.owns = FALSE
  BY <1>5 DEF Value, CellValue, Tags
<1>7. PICK x \in Cells \ DOMAIN heap : x = Fresh(1)
  BY <1>1, FreshFacts
<1>8. heap' = Alloc(heap, x, v)
  BY <1>2, <1>4, <1>5, <1>7 DEF GCPointer
<1>9. Inv(heap, stack, leaked) /\ leaked \in Refs
  BY DEF MemInv, Inv
<1>10. CellOk(Alloc(heap, x, v), x)
  <2>1. Alloc(heap, x, v)[x] = v
    BY DEF Alloc
  <2>2. QED
    BY <1>6, <2>1 DEF CellOk
<1>11. \A c \in Nat \ {NULL} :
         Times(c, leaked) = Times(c, leaked) + (IF v.owns THEN Times(c, v.kids) ELSE 0)
  <2>1. \A c : Times(c, leaked) \in Nat
    BY <1>9, TimesNat
  <2>2. QED
    BY <1>6, <2>1
<1>12. Inv(Alloc(heap, x, v), stack, Append(leaked, x))
  BY <1>6, <1>9, <1>10, <1>11, MakeInv
<1>13. QED
  BY <1>1, <1>7, <1>8, <1>12, LetStep, OneFacts

LEMMA newArrayInv ==
  ASSUME MemInv, newArray
  PROVE  MemInv'
<1>1. Doing("run") /\ Room(1) /\ leaked' = leaked /\ stack' = Let(Fresh(1))
  BY DEF newArray, Statement
<1>2. PICK v \in Named : heap' = Alloc(newReference(heap, <<v>>), Fresh(1), Value("ARRAY", <<v>>))
  BY DEF newArray
<1>3. v \in Nat /\ v \in DOMAIN heap /\ heap[v].rc > 0
  BY <1>1, NamedFacts
<1>4. PICK args \in Refs : args = <<v>>
  BY <1>3, TimesOne
<1>5. PICK m \in Refs : m = Append(leaked, v)
  BY <1>3, TimesAppend DEF MemInv, Inv
<1>6. PICK g : g = newReference(heap, args)
  OBVIOUS
<1>7. Inv(g, stack, m)
  BY <1>3, <1>4, <1>5, <1>6, TakeOne DEF MemInv
<1>8. leaked \in Refs /\ HeapTypes(heap)
  BY DEF MemInv, Inv
<1>9. PICK x \in Cells \ DOMAIN heap : x = Fresh(1)
  BY <1>1, FreshFacts
<1>10. x \in Cells \ DOMAIN g
  BY <1>6, <1>8, TakeFacts
<1>11. Adds(m, leaked, args)
  BY <1>3, <1>4, <1>5, <1>8, AddsOne
<1>12. heap' = Alloc(g, x, Value("ARRAY", args)) /\ "ARRAY" \in PlainTags
  BY <1>2, <1>4, <1>6, <1>9 DEF PlainTags
<1>13. Inv(heap', stack, Append(leaked, x))
  BY <1>7, <1>8, <1>10, <1>11, <1>12, PlainInv
<1>14. QED
  BY <1>1, <1>9, <1>13, LetStep, OneFacts

LEMMA newIORefInv ==
  ASSUME MemInv, newIORef
  PROVE  MemInv'
<1>1. Doing("run") /\ Room(1) /\ leaked' = leaked /\ stack' = Let(Fresh(1))
  BY DEF newIORef, Statement
<1>2. PICK w \in Named, v \in Named :
        /\ heap[w].tag = "WORLD"
        /\ heap' = Alloc([newReference(heap, <<v>>) EXCEPT ![w].kids = Append(@, v)],
                         Fresh(1), [Value("IOREF", <<>>) EXCEPT !.n = Len(heap[w].kids) + 1])
  BY DEF newIORef, Tagged
<1>3. /\ v \in Nat /\ v \in DOMAIN heap /\ heap[v].rc > 0
      /\ w \in Nat /\ w \in DOMAIN heap /\ heap[w].rc > 0
  BY <1>1, NamedFacts
<1>4. leaked \in Refs /\ HeapTypes(heap)
  BY DEF MemInv, Inv
<1>5. PICK args \in Refs : args = <<v>>
  BY <1>3, TimesOne
<1>6. PICK g : g = newReference(heap, args)
  OBVIOUS
<1>7. /\ HeapTypes(g) /\ DOMAIN g = DOMAIN heap /\ g[w].kids = heap[w].kids
      /\ Kind(g, w, "WORLD") /\ g[w].rc = heap[w].rc + Times(w, args)
  BY <1>2, <1>3, <1>4, <1>6, TakeFacts DEF Kind
<1>8. g[w].rc > 0
  <2>1. Times(w, args) \in Nat /\ heap[w].rc \in Nat
    BY <1>3, <1>4, TimesNat, CellFacts
  <2>2. QED
    BY <1>3, <1>7, <2>1
<1>9. Inv(g, stack, Append(leaked, v))
  BY <1>3, <1>5, <1>6, TakeOne DEF MemInv
<1>10. PICK h : h = [g EXCEPT ![w].kids = Append(@, v)]
  OBVIOUS
<1>11. Inv(h, stack, leaked)
  BY <1>3, <1>4, <1>7, <1>8, <1>9, <1>10, WorldInv
<1>12. DOMAIN h = DOMAIN g /\ h[w].kids = Append(g[w].kids, v) /\ h[w].tag = "WORLD"
  BY <1>3, <1>7, <1>10 DEF HeapTypes, CellValue, Kind
<1>13. PICK n \in Nat : n = Len(heap[w].kids) + 1
  BY <1>3, <1>4, CellFacts
<1>14. PICK kids \in Refs : kids = <<>>
  BY EmptyRefs
<1>15. PICK r : r = [Value("IOREF", kids) EXCEPT !.n = n]
  OBVIOUS
<1>16. r \in CellValue /\ r.rc = 1 /\ r.tag = "IOREF" /\ r.kids = kids /\ r.owns /\ r.n = n
  BY <1>15 DEF Value, CellValue, Tags
<1>17. PICK x \in Cells \ DOMAIN heap : x = Fresh(1)
  BY <1>1, FreshFacts
<1>18. heap' = Alloc(h, x, r) /\ x \in Cells \ DOMAIN h
  BY <1>2, <1>5, <1>6, <1>7, <1>10, <1>12, <1>13, <1>14, <1>15, <1>17
<1>19. heap'[x] = r
  BY <1>18 DEF Alloc
<1>20. CellOk(heap', x)
  BY <1>16, <1>19, PlainOk DEF PlainTags
<1>21. \A c \in Nat \ {NULL} :
         Times(c, leaked) = Times(c, leaked) + (IF r.owns THEN Times(c, r.kids) ELSE 0)
  <2>1. \A c : Times(c, leaked) \in Nat /\ Times(c, kids) = 0
    BY <1>4, <1>14, TimesEmpty, TimesNat
  <2>2. QED
    BY <1>16, <2>1
<1>22. CellOk(Alloc(h, x, r), x)
  BY <1>18, <1>20
<1>23. Inv(Alloc(h, x, r), stack, Append(leaked, x))
  BY <1>4, <1>11, <1>16, <1>18, <1>21, <1>22, MakeInv
<1>24. QED
  BY <1>1, <1>17, <1>18, <1>23, LetStep, OneFacts

LEMMA SplitRefs ==
  ASSUME NEW s \in Refs, NEW n \in Nat, NEW k \in Nat, n + k = Len(s)
  PROVE  /\ SubSeq(s, 1, n) \in Refs /\ SubSeq(s, n + 1, n + k) \in Refs
         /\ s = SubSeq(s, 1, n) \o SubSeq(s, n + 1, n + k)
<1>1. SubSeq(s, 1, n) \in Refs /\ Len(SubSeq(s, 1, n)) = n
  BY SubSeqProperties, SeqFacts DEF Refs
<1>2. SubSeq(s, n + 1, n + k) \in Refs /\ Len(SubSeq(s, n + 1, n + k)) = k
  BY SubSeqProperties, SeqFacts DEF Refs
<1>3. s = SubSeq(s, 1, n) \o SubSeq(s, n + 1, n + k)
  BY <1>1, <1>2 DEF Refs
<1>4. QED
  BY <1>1, <1>2, <1>3

(* Two sequences of entries and a stack. *)
LEMMA ConcatPush ==
  ASSUME NEW u \in Stacks, NEW e \in Entries, NEW t \in Stacks
  PROVE  (u \o <<e>>) \o t = u \o Push(e, t) /\ Append(u, e) \o t = u \o Push(e, t)
<1>1. PICK x \in Stacks : x = <<e>>
  BY StackSingle
<1>2. (u \o x) \o t = u \o (x \o t)
  BY StackAssociative
<1>3. x \o t = Push(e, t)
  BY <1>1, Zenon DEF Push
<1>4. Append(u, e) = u \o x
  BY <1>1, AppendIsConcat DEF Stacks
<1>5. (u \o <<e>>) \o t = u \o Push(e, t)
  BY <1>1, <1>2, <1>3, Zenon
<1>6. Append(u, e) \o t = u \o Push(e, t)
  BY <1>2, <1>3, <1>4, Zenon
<1>7. QED
  BY <1>5, <1>6

(* The end of a block: of the variables a \o b only a are left. *)
LEMMA BlockInv ==
  ASSUME NEW h, NEW t \in Stacks, NEW l \in Refs, NEW f \in {"code", "freeIterator"},
         NEW al \in Nat, NEW a \in Refs, NEW b \in Refs, NEW v \in Nat,
         NEW back \in Refs, \A c : Times(c, back) = Times(c, b),
         NEW lets \in Refs, lets = a \o b,
         Inv(h, Push(Run(f, al, lets), t), Append(l, v))
  PROVE  Inv(h, Drops(back) \o Push(Deliver(v), Push(Run(f, al, a), t)), l)
<1>1. PICK lv \in Refs : lv = Append(l, v)
  BY TimesAppend
<1>2. PICK m \in Refs : m = Append(lv \o lets, al)
  BY PushRun
<1>3. Inv(h, t, m) /\ ArglistOk(h, al) /\ Frame(t)
  <2>1. Inv(h, Push(Run(f, al, lets), t), lv)
    BY <1>1
  <2>2. Inv(h, t, Append(lv \o lets, al)) /\ ArglistOk(h, al) /\ Frame(t)
    BY <2>1, PushRun
  <2>3. QED
    BY <1>2, <2>2, Zenon
<1>4. PICK y \in Refs : y = l \o back
  BY TimesConcat
<1>5. PICK z \in Refs : z = Append(y, v)
  BY TimesAppend
<1>6. PICK n \in Refs : n = Append(z \o a, al)
  BY PushRun
<1>7. ASSUME NEW c \in Nat \ {NULL} PROVE Times(c, n) = Times(c, m)
  <2>1. PICK x \in Refs : x = lv \o lets
    BY TimesConcat
  <2>2. PICK w \in Refs : w = z \o a
    BY TimesConcat
  <2>3. Times(c, x) = Times(c, lv) + Times(c, lets) /\ Times(c, lv) = Times(c, l) + One(c, v)
    BY <1>1, <2>1, TimesConcat, TimesAppend
  <2>4. Times(c, lets) = Times(c, a) + Times(c, b)
    BY TimesConcat
  <2>5. Times(c, w) = Times(c, z) + Times(c, a)
    BY <2>2, TimesConcat
  <2>6. Times(c, z) = Times(c, y) + One(c, v) /\ Times(c, y) = Times(c, l) + Times(c, b)
    BY <1>4, <1>5, TimesConcat, TimesAppend
  <2>7. Times(c, m) = Times(c, x) + One(c, al) /\ Times(c, n) = Times(c, w) + One(c, al)
    <3>1. m = Append(x, al) /\ n = Append(w, al)
      BY <1>2, <1>6, <2>1, <2>2, Zenon
    <3>2. QED
      BY <3>1, TimesAppend
  <2>8. /\ Times(c, l) \in Nat /\ Times(c, a) \in Nat /\ Times(c, b) \in Nat
        /\ One(c, v) \in Nat /\ One(c, al) \in Nat
    BY TimesNat DEF One
  <2>9. QED
    BY <2>3, <2>4, <2>5, <2>6, <2>7, <2>8
<1>8. Inv(h, t, n)
  BY <1>3, <1>7, InvSame
<1>9. PICK u \in Stacks : u = Push(Run(f, al, a), t)
  BY PushRun
<1>10. Inv(h, u, z)
  <2>1. Inv(h, t, Append(z \o a, al))
    BY <1>6, <1>8, Zenon
  <2>2. Inv(h, Push(Run(f, al, a), t), z)
    BY <1>3, <2>1, PushRun
  <2>3. QED
    BY <1>9, <2>2
<1>11. Frame(u)
  <2>1. Run(f, al, a) \in Entries /\ Run(f, al, a).do = "run"
    BY MakeEntries
  <2>2. u # <<>> /\ u[1] = Run(f, al, a)
    BY <1>9, <2>1, PushFacts
  <2>3. QED
    BY <2>1, <2>2 DEF Frame, First
<1>12. Push(Deliver(v), u) \in Stacks /\ Inv(h, Push(Deliver(v), u), y)
  BY <1>5, <1>10, <1>11, PushDeliver
<1>13. PICK d \in Stacks : d = Push(Deliver(v), u)
  BY <1>12
<1>14. Inv(h, d, l \o back)
  BY <1>4, <1>12, <1>13, Zenon
<1>15. Inv(h, Drops(back) \o d, l)
  BY <1>14, PushDrops
<1>16. QED
  BY <1>9, <1>13, <1>15

LEMMA EndOfBlockInv ==
  ASSUME MemInv, EndOfBlock
  PROVE  MemInv'
<1> DEFINE f == Top.f
           al == Top.arglist
           lets == Top.lets
<1>1. Doing("run") /\ leaked' = leaked
  BY DEF EndOfBlock, Statement
<1>2. PICK n \in Nat, k \in Nat, x \in Named :
        /\ n + k = Len(Top.lets) /\ heap' = newReference(heap, <<x>>)
        /\ stack' = Drops(Reverse(SubSeq(Top.lets, n + 1, n + k)))
                      \o <<Deliver(x), [Top EXCEPT !.lets = SubSeq(@, 1, n)]>> \o Rest
  <2>1. Top.lets \in Refs /\ Len(Top.lets) \in Nat
    BY <1>1, Running, SeqFacts
  <2>2. \A k \in 1 .. Len(Top.lets) :
          k \in Nat /\ Len(Top.lets) - k \in Nat /\ (Len(Top.lets) - k) + k = Len(Top.lets)
    BY <2>1
  <2>3. \E k \in 1 .. Len(Top.lets), x \in Named :
          LET n == Len(Top.lets) - k
          IN  /\ heap' = newReference(heap, <<x>>)
              /\ stack' = Drops(Reverse(SubSeq(Top.lets, n + 1, n + k)))
                            \o <<Deliver(x), [Top EXCEPT !.lets = SubSeq(@, 1, n)]>> \o Rest
    BY DEF EndOfBlock
  <2>4. QED
    BY <2>2, <2>3, Zenon
<1>3. x \in Nat /\ x \in DOMAIN heap /\ heap[x].rc > 0
  BY <1>1, NamedFacts
<1>4. /\ f \in {"code", "freeIterator"} /\ al \in Nat /\ lets \in Refs
      /\ Rest \in Stacks /\ stack = Push(Run(f, al, lets), Rest) /\ leaked \in Refs
      /\ Top \in Entries /\ Top.do = "run"
  BY <1>1, Running, Doings
<1>5. Inv(heap', Push(Run(f, al, lets), Rest), Append(leaked, x))
  BY <1>2, <1>3, <1>4, TakeOne DEF MemInv
<1>6. /\ SubSeq(lets, 1, n) \in Refs /\ SubSeq(lets, n + 1, n + k) \in Refs
      /\ lets = SubSeq(lets, 1, n) \o SubSeq(lets, n + 1, n + k)
  BY <1>2, <1>4, SplitRefs
<1>7. PICK a \in Refs, b \in Refs :
        a = SubSeq(lets, 1, n) /\ b = SubSeq(lets, n + 1, n + k) /\ lets = a \o b
  BY <1>6, Zenon
<1>8. [Top EXCEPT !.lets = SubSeq(@, 1, n)] = Run(f, al, a)
  BY <1>4, <1>7, EntryForms
<1> HIDE DEF f, al, lets
<1>b. PICK back \in Refs : back = Reverse(b) /\ \A c : Times(c, back) = Times(c, b)
  BY <1>7, ReverseFacts
<1>9. Inv(heap', Drops(back) \o Push(Deliver(x), Push(Run(f, al, a), Rest)), leaked)
  BY <1>3, <1>4, <1>5, <1>7, <1>b, BlockInv, ZenonT(120)
<1>10. stack' = Drops(back) \o Push(Deliver(x), Push(Run(f, al, a), Rest))
  <2>1. PICK u \in Stacks : u = Drops(back)
    BY <1>b, StackDrops
  <2>2. PICK r \in Entries : r = Run(f, al, a)
    BY <1>4, <1>7, MakeEntries
  <2>3. PICK d \in Entries : d = Deliver(x)
    BY <1>3, MakeEntries
  <2>4. <<d, r>> \in Stacks
    BY <2>2, <2>3 DEF Stacks
  <2>5. PICK w \in Stacks : w = <<d, r>>
    BY <2>4
  <2>6. (u \o w) \o Rest = u \o (w \o Rest)
    BY <1>4, StackAssociative
  <2>7. w \o Rest = Push(d, Push(r, Rest))
    BY <1>4, <2>5, PushTwo
  <2>8. stack' = (u \o w) \o Rest
    BY <1>2, <1>6, <1>7, <1>8, <1>b, <2>1, <2>2, <2>3, <2>5, Zenon DEF lets
  <2>9. QED
    BY <2>1, <2>2, <2>3, <2>6, <2>7, <2>8, Zenon
<1>11. QED
  BY <1>1, <1>9, <1>10, Zenon DEF MemInv

(* A complete closure runs. *)
LEMMA TrampolineInv ==
  ASSUME NEW h, NEW t \in Stacks, NEW l \in Refs, NEW cl \in Nat, NEW al \in Nat,
         NEW f \in {"code", "freeIterator"},
         Inv(h, t, Append(Append(l, cl), al)), ArglistOk(h, al), Frame(t)
  PROVE  Inv(h, Trampolined(cl, f, al) \o t, l)
<1>1. PICK m \in Refs : m = Append(l, cl)
  BY TimesAppend
<1>2. Inv(h, t, Append(m, al))
  BY <1>1
<1>3. Push(Run(f, al, <<>>), t) \in Stacks /\ Inv(h, Push(Run(f, al, <<>>), t), m)
  BY <1>2, CallInv
<1>4. PICK u \in Stacks : u = Push(Run(f, al, <<>>), t)
  BY <1>3
<1>5. Inv(h, u, Append(l, cl))
  BY <1>1, <1>3, <1>4
<1>6. Inv(h, Push(Drop(cl), u), l)
  BY <1>5, PushDrop
<1>7. Trampolined(cl, f, al) \o t = Push(Drop(cl), u)
  <2>1. Drop(cl) \in Entries /\ Run(f, al, <<>>) \in Entries
    BY MakeEntries, EmptyRefs
  <2>2. <<Drop(cl), Run(f, al, <<>>)>> \o t = Push(Drop(cl), Push(Run(f, al, <<>>), t))
    BY <2>1, PushTwo
  <2>3. QED
    BY <1>4, <2>2 DEF Trampolined
<1>8. QED
  BY <1>6, <1>7

LEMMA CallActionInv ==
  ASSUME MemInv, Call
  PROVE  MemInv'
<1>1. /\ Doing("run") /\ Room(2) /\ leaked' = leaked
      /\ stack' = Trampolined(Fresh(2), "code", Fresh(1)) \o stack
  BY DEF Call, Statement
<1>2. PICK args \in Refs, total \in Nat :
        /\ Alive(heap, args)
        /\ heap' = newReference(makeClosureFromArglist("code", args, total), <<Fresh(1)>>)
  <2>1. PICK args \in {<<>>} \union {<<x>> : x \in Named} \union {<<x, y>> : x, y \in Named} :
          heap' = newReference(makeClosureFromArglist("code", args, Len(args)), <<Fresh(1)>>)
    BY DEF Call
  <2>2. args \in Refs /\ Alive(heap, args) /\ Len(args) \in Nat
    BY <1>1, NamedArgs
  <2>3. QED
    BY <2>1, <2>2
<1>3. PICK x \in Cells \ DOMAIN heap, y \in Cells \ DOMAIN heap :
        x = Fresh(1) /\ y = Fresh(2) /\ x # y
  BY <1>1, FreshFacts
<1>4. PICK k : k = makeClosureFromArglist("code", args, total)
  OBVIOUS
<1>5. Inv(k, stack, Append(leaked, y))
  BY <1>2, <1>3, <1>4, ClosureInv DEF MemInv
<1>6. HeapTypes(heap) /\ leaked \in Refs /\ HeapTypes(k)
  BY <1>5 DEF MemInv, Inv
<1>7. Made(k, x, "ARGLIST", args)
  BY <1>2, <1>3, <1>4, <1>6, ClosureMade
<1>8. x \in Nat /\ y \in Nat /\ x \in DOMAIN k /\ k[x].rc > 0 /\ k[x].tag = "ARGLIST"
  BY <1>7, OneFacts DEF Made, Kind
<1>9. heap' = newReference(k, <<x>>)
  BY <1>2, <1>3, <1>4
<1>10. Inv(heap', stack, Append(Append(leaked, y), x))
  BY <1>5, <1>8, <1>9, TakeOne
<1>11. ArglistOk(heap', x)
  <2>1. <<x>> \in Refs
    BY <1>8, TimesOne
  <2>2. QED
    BY <1>6, <1>8, <1>9, <2>1, TakeFacts DEF ArglistOk, Kind
<1>12. Inv(heap', Trampolined(y, "code", x) \o stack, leaked)
  <2>1. stack \in Stacks /\ Frame(stack)
    BY <1>1, Running
  <2>2. PICK f \in {"code", "freeIterator"} : f = "code"
    OBVIOUS
  <2>3. Inv(heap', Trampolined(y, f, x) \o stack, leaked)
    BY <1>6, <1>8, <1>10, <1>11, <2>1, TrampolineInv
  <2>4. QED
    BY <2>2, <2>3
<1>13. QED
  BY <1>1, <1>3, <1>12 DEF MemInv

(* What apply_closure finds in a closure the function can name. *)
LEMMA AppliedFacts ==
  ASSUME MemInv, Doing("run"), NEW cl \in Tagged("CLOSURE"), NEW arg \in Named
  PROVE  /\ heap[cl].f \in {"code", "freeIterator"} /\ Total(cl) \in Nat
         /\ Applied(cl, arg) \in Refs /\ Alive(heap, Applied(cl, arg))
<1>1. cl \in DOMAIN heap /\ heap[cl].rc > 0 /\ heap[cl].tag = "CLOSURE"
  BY NamedFacts DEF Tagged
<1>2. /\ heap[cl].f \in {"code", "freeIterator"} /\ Total(cl) \in Nat
      /\ heap[heap[cl].kids[1]].kids \in Refs /\ Alive(heap, heap[heap[cl].kids[1]].kids)
  BY <1>1, ClosureFacts DEF MemInv
<1>3. arg \in Nat /\ arg \in DOMAIN heap /\ heap[arg].rc > 0
  BY NamedFacts
<1>4. QED
  BY <1>2, <1>3, AliveAppend DEF Applied

LEMMA apply_closureInv ==
  ASSUME MemInv, apply_closure
  PROVE  MemInv'
<1>1. Doing("run") /\ leaked' = leaked
  BY DEF apply_closure, Statement
<1>2. \E f \in {"code", "freeIterator"}, total \in Nat, args \in Refs :
        /\ Alive(heap, args)
        /\ \/ /\ Room(1)
              /\ heap' = Alloc(newReference(heap, args), Fresh(1), Arglist(args, total))
              /\ stack' = <<Run(f, Fresh(1), <<>>)>> \o stack
           \/ /\ Room(2) /\ heap' = makeClosureFromArglist(f, args, total)
              /\ stack' = Let(Fresh(2))
  <2>1. PICK cl \in Tagged("CLOSURE"), arg \in Named :
          LET args == Applied(cl, arg)
          IN  \/ /\ Room(1)
                 /\ heap' = Alloc(newReference(heap, args), Fresh(1), Arglist(args, Total(cl)))
                 /\ stack' = <<Run(heap[cl].f, Fresh(1), <<>>)>> \o stack
              \/ /\ Room(2) /\ heap' = makeClosureFromArglist(heap[cl].f, args, Total(cl))
                 /\ stack' = Let(Fresh(2))
    BY DEF apply_closure
  <2>2. /\ heap[cl].f \in {"code", "freeIterator"} /\ Total(cl) \in Nat
        /\ Applied(cl, arg) \in Refs /\ Alive(heap, Applied(cl, arg))
    BY <1>1, AppliedFacts
  <2>3. QED
    BY <2>1, <2>2
<1>3. ASSUME NEW f \in {"code", "freeIterator"}, NEW total \in Nat, NEW args \in Refs,
             Alive(heap, args), Room(1),
             heap' = Alloc(newReference(heap, args), Fresh(1), Arglist(args, total)),
             stack' = <<Run(f, Fresh(1), <<>>)>> \o stack
      PROVE  MemInv'
  <2>1. PICK x \in Cells \ DOMAIN heap : x = Fresh(1)
    BY <1>3, FreshFacts
  <2>2. heap' = Alloc(newReference(heap, args), x, Arglist(args, total))
    BY <1>3, <2>1
  <2>3. Inv(heap', stack, Append(leaked, x))
    BY <1>3, <2>2, ArglistInv DEF MemInv
  <2>4. HeapTypes(heap) /\ leaked \in Refs /\ x \in Nat
    BY OneFacts DEF MemInv, Inv
  <2>5. ArglistOk(heap', x)
    BY <2>2, <2>4, ArglistMade DEF Made, ArglistOk
  <2>6. stack \in Stacks /\ Frame(stack)
    BY <1>1, Running
  <2>7. Inv(heap', Push(Run(f, x, <<>>), stack), leaked)
    BY <2>3, <2>4, <2>5, <2>6, CallInv
  <2>8. stack' = Push(Run(f, x, <<>>), stack)
    BY <1>3, <2>1, Zenon DEF Push
  <2>9. QED
    BY <1>1, <2>7, <2>8 DEF MemInv
<1>4. ASSUME NEW f \in {"code", "freeIterator"}, NEW total \in Nat, NEW args \in Refs,
             Alive(heap, args), Room(2), heap' = makeClosureFromArglist(f, args, total),
             stack' = Let(Fresh(2))
      PROVE  MemInv'
  <2>1. PICK x \in Cells \ DOMAIN heap, y \in Cells \ DOMAIN heap :
          x = Fresh(1) /\ y = Fresh(2) /\ x # y
    BY <1>4, FreshFacts
  <2>2. Inv(heap', stack, Append(leaked, y))
    BY <1>4, <2>1, ClosureInv DEF MemInv
  <2>3. QED
    BY <1>1, <1>4, <2>1, <2>2, LetStep, OneFacts
<1>5. QED
  BY <1>2, <1>3, <1>4

LEMMA ReturnActionInv ==
  ASSUME MemInv, Return
  PROVE  MemInv'
<1>1. Doing("run") /\ leaked' = leaked
  BY DEF Return
<1>2. PICK x \in Named : heap' = newReference(heap, <<x>>) /\ stack' = Returning(x)
  BY DEF Return
<1>3. x \in Nat /\ x \in DOMAIN heap /\ heap[x].rc > 0
  BY <1>1, NamedFacts
<1>4. Inv(heap', stack, Append(leaked, x))
  BY <1>2, <1>3, TakeOne DEF MemInv
<1>5. QED
  BY <1>1, <1>2, <1>3, <1>4, ReturnInv DEF MemInv

(* NULL is no reference. *)
LEMMA NullInv ==
  ASSUME NEW h, NEW s, NEW l \in Refs
  PROVE  Inv(h, s, l) <=> Inv(h, s, Append(l, NULL))
<1>1. PICK m \in Refs : m = Append(l, NULL)
  BY TimesAppend DEF NULL
<1>2. \A c \in Nat \ {NULL} : Times(c, m) = Times(c, l)
  <2>1. \A c : Times(c, m) = Times(c, l) + One(c, NULL) /\ Times(c, l) \in Nat
    BY <1>1, TimesAppend, TimesNat DEF NULL
  <2>2. QED
    BY <2>1 DEF One
<1>3. Inv(h, s, l) => Inv(h, s, m)
  BY <1>2, InvSame
<1>4. Inv(h, s, m) => Inv(h, s, l)
  BY <1>2, InvSame
<1>5. QED
  BY <1>1, <1>3, <1>4

LEMMA ReturnNullInv ==
  ASSUME MemInv, ReturnNull
  PROVE  MemInv'
<1>1. Doing("run") /\ leaked' = leaked /\ heap' = heap /\ stack' = Returning(NULL)
  BY DEF ReturnNull
<1>2. Inv(heap, stack, Append(leaked, NULL))
  BY NullInv DEF MemInv, Inv
<1>3. Inv(heap, Returning(NULL), leaked)
  BY <1>1, <1>2, ReturnInv DEF NULL
<1>4. QED
  BY <1>1, <1>3 DEF MemInv

(* A closure is returned. *)
LEMMA TailInv ==
  ASSUME MemInv, Doing("run"), Room(2), NEW f \in {"code", "freeIterator"}, NEW total \in Nat,
         NEW args \in Refs, Alive(heap, args), heap' = makeClosureFromArglist(f, args, total),
         stack' = Returning(Fresh(2)), leaked' = leaked
  PROVE  MemInv'
<1>1. PICK x \in Cells \ DOMAIN heap, y \in Cells \ DOMAIN heap :
        x = Fresh(1) /\ y = Fresh(2) /\ x # y
  BY FreshFacts
<1>2. Inv(heap', stack, Append(leaked, y))
  BY <1>1, ClosureInv DEF MemInv
<1>3. y \in Nat
  BY <1>1, OneFacts
<1>4. QED
  BY <1>1, <1>2, <1>3, ReturnInv DEF MemInv

LEMMA TailCallInv ==
  ASSUME MemInv, TailCall
  PROVE  MemInv'
<1>1. /\ Doing("run") /\ Room(2) /\ leaked' = leaked /\ stack' = Returning(Fresh(2))
  BY DEF TailCall, Statement
<1>2. PICK args \in Refs, total \in Nat :
        Alive(heap, args) /\ heap' = makeClosureFromArglist("code", args, total)
  <2>1. PICK args \in {<<>>} \union {<<x>> : x \in Named} \union {<<x, y>> : x, y \in Named} :
          heap' = makeClosureFromArglist("code", args, Len(args))
    BY DEF TailCall
  <2>2. args \in Refs /\ Alive(heap, args) /\ Len(args) \in Nat
    BY <1>1, NamedArgs
  <2>3. QED
    BY <2>1, <2>2
<1>3. QED
  BY <1>1, <1>2, TailInv

LEMMA tailcall_apply_closureInv ==
  ASSUME MemInv, tailcall_apply_closure
  PROVE  MemInv'
<1>1. /\ Doing("run") /\ Room(2) /\ leaked' = leaked /\ stack' = Returning(Fresh(2))
  BY DEF tailcall_apply_closure, Statement
<1>2. PICK cl \in Tagged("CLOSURE"), arg \in Named :
        heap' = makeClosureFromArglist(heap[cl].f, Applied(cl, arg), Total(cl))
  BY DEF tailcall_apply_closure
<1>3. PICK f \in {"code", "freeIterator"}, total \in Nat, args \in Refs :
        Alive(heap, args) /\ heap' = makeClosureFromArglist(f, args, total)
  BY <1>1, <1>2, AppliedFacts
<1>4. QED
  BY <1>1, <1>3, TailInv

LEMMA LastHeld ==
  ASSUME NEW h, NEW s, NEW l \in Refs, NEW c \in Nat \ {NULL}, Inv(h, s, Append(l, c))
  PROVE  c \in DOMAIN h /\ h[c].rc > 0
<1>1. PICK m \in Refs : m = Append(l, c)
  BY TimesAppend
<1>2. Times(c, m) # 0
  <2>1. Times(c, m) = Times(c, l) + 1 /\ Times(c, l) \in Nat
    BY <1>1, TimesAppend, TimesNat DEF One
  <2>2. QED
    BY <2>1
<1>3. Held(h, s, m, c)
  BY <1>2, TimesNat DEF Held
<1>4. QED
  BY <1>1, <1>3, HeldAlive

(* What is delivered. *)
LEMMA Delivered ==
  ASSUME MemInv, Doing("deliver")
  PROVE  /\ Top.cell \in Nat /\ Rest \in Stacks /\ leaked \in Refs
         /\ Inv(heap, Rest, Append(leaked, Top.cell)) /\ Frame(Rest)
<1>1. /\ Top \in Entries /\ Top.do = "deliver" /\ Rest \in Stacks
      /\ stack = Push(Top, Rest) /\ leaked \in Refs
  BY Doings
<1>2. Top.cell \in Nat /\ Top = Deliver(Top.cell)
  BY <1>1, EntryFacts, EntryForms
<1>3. PICK d \in Nat : d = Top.cell
  BY <1>2
<1>4. Inv(heap, Push(Deliver(d), Rest), leaked)
  BY <1>1, <1>2, <1>3 DEF MemInv
<1>5. Inv(heap, Rest, Append(leaked, d)) /\ Frame(Rest)
  BY <1>1, <1>4, PushDeliver
<1>6. QED
  BY <1>1, <1>3, <1>5

LEMMA BounceInv ==
  ASSUME MemInv, Bounce
  PROVE  MemInv'
<1>1. PICK cl : cl = Top.cell
  OBVIOUS
<1>2. PICK al : al = heap[cl].kids[1]
  OBVIOUS
<1>3. /\ Doing("deliver") /\ cl # NULL /\ heap[cl].tag = "COMPLETE_CLOSURE"
      /\ heap' = newReference(heap, <<al>>) /\ leaked' = leaked
      /\ stack' = Trampolined(cl, heap[cl].f, al) \o Rest
  BY <1>1, <1>2 DEF Bounce
<1>4. /\ cl \in Nat /\ Rest \in Stacks /\ leaked \in Refs
      /\ Inv(heap, Rest, Append(leaked, cl)) /\ Frame(Rest)
  BY <1>1, <1>3, Delivered
<1>5. cl \in DOMAIN heap /\ heap[cl].rc > 0
  BY <1>3, <1>4, LastHeld
<1>6. /\ heap[cl].f \in {"code", "freeIterator"} /\ al \in Nat /\ al \in DOMAIN heap
      /\ heap[al].rc > 0 /\ heap[al].tag = "ARGLIST"
  BY <1>2, <1>3, <1>4, <1>5, ClosureFacts DEF Kind
<1>7. Append(leaked, cl) \in Refs /\ HeapTypes(heap)
  BY <1>4, TimesAppend DEF Inv
<1>8. Inv(heap', Rest, Append(Append(leaked, cl), al))
  BY <1>3, <1>4, <1>6, TakeOne
<1>9. ArglistOk(heap', al)
  <2>1. <<al>> \in Refs
    BY <1>6, TimesOne
  <2>2. QED
    BY <1>3, <1>6, <1>7, <2>1, TakeFacts DEF ArglistOk, Kind
<1>10. Inv(heap', Trampolined(cl, heap[cl].f, al) \o Rest, leaked)
  BY <1>4, <1>6, <1>8, <1>9, TrampolineInv
<1>11. QED
  BY <1>3, <1>10 DEF MemInv

LEMMA ArriveInv ==
  ASSUME MemInv, Arrive
  PROVE  MemInv'
<1>1. PICK d : d = Top.cell
  OBVIOUS
<1>2. /\ Doing("deliver") /\ heap' = heap /\ First(Rest) # Awaits1
      /\ IF Rest # <<>> /\ Rest[1].do = "run"
         THEN /\ stack' = <<[Rest[1] EXCEPT !.lets = Append(@, d)]>> \o Tail(Rest)
              /\ leaked' = leaked
         ELSE /\ stack' = IF Rest = <<>> THEN <<>> ELSE Tail(Rest)
              /\ leaked' = IF d = NULL THEN leaked ELSE Append(leaked, d)
  BY <1>1 DEF Arrive
<1>3. /\ d \in Nat /\ Rest \in Stacks /\ leaked \in Refs
      /\ Inv(heap, Rest, Append(leaked, d)) /\ Frame(Rest)
  BY <1>1, <1>2, Delivered
<1>4. CASE Rest # <<>> /\ Rest[1].do = "run"
  <2>1. PICK e \in Entries, t \in Stacks : e = Rest[1] /\ t = Tail(Rest) /\ Rest = Push(e, t)
    BY <1>3, <1>4, TopAndRest
  <2>2. /\ e.f \in {"code", "freeIterator"} /\ e.arglist \in Nat /\ e.lets \in Refs
        /\ e = Run(e.f, e.arglist, e.lets)
        /\ [e EXCEPT !.lets = Append(@, d)] = Run(e.f, e.arglist, Append(e.lets, d))
    <3>1. e.do = "run"
      BY <1>4, <2>1
    <3>2. e.f \in {"code", "freeIterator"} /\ e.arglist \in Nat /\ e.lets \in Refs
      BY <3>1, EntryFacts
    <3>3. e = Run(e.f, e.arglist, e.lets)
      BY <3>1, EntryForms
    <3>4. [e EXCEPT !.lets = Append(@, d)] = Run(e.f, e.arglist, Append(e.lets, d))
      BY <3>1, EntryForms
    <3>5. QED
      BY <3>2, <3>3, <3>4
  <2>3. PICK f \in {"code", "freeIterator"}, al \in Nat, lets \in Refs :
          /\ e = Run(f, al, lets)
          /\ [e EXCEPT !.lets = Append(@, d)] = Run(f, al, Append(lets, d))
    BY <2>2
  <2>4. Inv(heap, Push(Run(f, al, lets), t), Append(leaked, d))
    BY <1>3, <2>1, <2>3
  <2>5. Inv(heap, Push(Run(f, al, Append(lets, d)), t), leaked)
    BY <1>3, <2>4, MoreLets
  <2>6. stack' = Push(Run(f, al, Append(lets, d)), t) /\ leaked' = leaked
    BY <1>2, <1>4, <2>1, <2>3 DEF Push
  <2>7. QED
    BY <1>2, <2>5, <2>6 DEF MemInv
<1>5. CASE ~(Rest # <<>> /\ Rest[1].do = "run")
  <2>1. Inv(heap, Rest, leaked')
    <3>1. CASE d = NULL
      BY <1>2, <1>3, <1>5, <3>1, NullInv
    <3>2. CASE d # NULL
      BY <1>2, <1>3, <1>5, <3>2
    <3>3. QED
      BY <3>1, <3>2
  <2>2. CASE Rest = <<>>
    BY <1>2, <1>5, <2>1, <2>2 DEF MemInv
  <2>3. CASE Rest # <<>>
    <3>1. PICK e \in Entries, t \in Stacks : e = Rest[1] /\ t = Tail(Rest) /\ Rest = Push(e, t)
      BY <1>3, <2>3, TopAndRest
    <3>2. e.do = "forget"
      <4>1. First(Rest) = e /\ e.do \in {"forget", "closure1"}
        BY <1>3, <1>5, <2>3, <3>1 DEF Frame, First
      <4>2. e.do # "closure1"
        BY <1>2, <4>1, EntryForms
      <4>3. QED
        BY <4>1, <4>2
    <3>3. e = Forget
      BY <3>2, EntryForms
    <3>4. PICK l \in Refs : l = leaked'
      BY <2>1 DEF Inv
    <3>5. Inv(heap, Push(Forget, t), l)
      BY <2>1, <3>1, <3>3, <3>4
    <3>6. Inv(heap, t, l)
      BY <3>5, PushForget
    <3>7. stack' = t
      BY <1>2, <1>5, <2>3, <3>1
    <3>8. QED
      BY <1>2, <3>4, <3>6, <3>7 DEF MemInv
  <2>4. QED
    BY <2>2, <2>3
<1>6. QED
  BY <1>4, <1>5

(* The reference that is removed. *)
LEMMA Dropped ==
  ASSUME MemInv, Doing("drop")
  PROVE  /\ Top.cell \in Nat /\ Rest \in Stacks /\ leaked \in Refs
         /\ Inv(heap, Rest, Append(leaked, Top.cell))
<1>1. /\ Top \in Entries /\ Top.do = "drop" /\ Rest \in Stacks
      /\ stack = Push(Top, Rest) /\ leaked \in Refs
  BY Doings
<1>2. Top.cell \in Nat /\ Top = Drop(Top.cell)
  BY <1>1, EntryFacts, EntryForms
<1>3. PICK d \in Nat : d = Top.cell
  BY <1>2
<1>4. Inv(heap, Push(Drop(d), Rest), leaked)
  BY <1>1, <1>2, <1>3 DEF MemInv
<1>5. Inv(heap, Rest, Append(leaked, d))
  BY <1>1, <1>4, PushDrop
<1>6. QED
  BY <1>1, <1>3, <1>5

LEMMA RemoveReferenceInv ==
  ASSUME MemInv, RemoveReference
  PROVE  MemInv'
<1>1. PICK c : c = Top.cell
  OBVIOUS
<1>2. /\ Doing("drop") /\ c \in DOMAIN heap /\ heap[c].rc > 1
      /\ heap' = [heap EXCEPT ![c].rc = @ - 1] /\ stack' = Rest /\ leaked' = leaked
  BY <1>1 DEF RemoveReference, Live
<1>3. leaked \in Refs /\ Inv(heap, Rest, Append(leaked, c))
  BY <1>1, <1>2, Dropped
<1>4. Inv([heap EXCEPT ![c].rc = @ - 1], Rest, leaked)
  BY <1>2, <1>3, LessInv
<1>5. QED
  BY <1>2, <1>4 DEF MemInv

LEMMA RemoveNullInv ==
  ASSUME MemInv, RemoveNull
  PROVE  MemInv'
<1>1. Doing("drop") /\ Top.cell = NULL /\ stack' = Rest /\ heap' = heap /\ leaked' = leaked
  BY DEF RemoveNull
<1>2. leaked \in Refs /\ Inv(heap, Rest, Append(leaked, NULL))
  BY <1>1, Dropped
<1>3. QED
  BY <1>1, <1>2, NullInv DEF MemInv

LEMMA RemoveLastInv ==
  ASSUME MemInv, RemoveLast
  PROVE  MemInv'
<1>1. PICK c : c = Top.cell
  OBVIOUS
<1>2. /\ Doing("drop") /\ c \in DOMAIN heap /\ heap[c].rc = 1 /\ heap[c].tag # "GC_POINTER"
      /\ heap' = [heap EXCEPT ![c].rc = 0, ![c].kids = <<>>] /\ leaked' = leaked
      /\ stack' = Drops(heap[c].kids) \o <<Free(c)>> \o Rest
  BY <1>1 DEF RemoveLast, Live
<1>3. c \in Nat /\ Rest \in Stacks /\ leaked \in Refs /\ Inv(heap, Rest, Append(leaked, c))
  BY <1>1, <1>2, Dropped
<1>4. heap[c].owns /\ heap[c].kids \in Refs
  <2>1. CellOk(heap, c) /\ HeapTypes(heap)
    BY <1>2 DEF MemInv, Inv, HeapOk
  <2>2. QED
    BY <1>2, <2>1, CellFacts DEF CellOk
<1>5. PICK kids \in Refs : kids = heap[c].kids
  BY <1>4
<1>6. PICK m \in Refs : m = leaked \o kids
  BY <1>3, TimesConcat
<1>7. Inv(heap', Rest, m) /\ Freed(heap', Rest, c)
  <2>1. PICK k : k = [heap EXCEPT ![c].rc = 0, ![c].kids = <<>>]
    OBVIOUS
  <2>2. Inv(k, Rest, leaked \o heap[c].kids) /\ Freed(k, Rest, c)
    BY <1>2, <1>3, <1>4, <2>1, KillInv
  <2>3. QED
    BY <1>2, <1>5, <1>6, <2>1, <2>2, Zenon
<1>8. PICK u \in Stacks : u = Push(Free(c), Rest)
  BY <1>3, PushFree
<1>9. Inv(heap', u, leaked \o kids)
  <2>1. Inv(heap', Push(Free(c), Rest), m)
    BY <1>3, <1>7, PushFree
  <2>2. QED
    BY <1>6, <1>8, <2>1, Zenon
<1>10. Inv(heap', Drops(kids) \o u, leaked)
  BY <1>3, <1>9, PushDrops
<1>11. stack' = Drops(kids) \o u
  <2>1. PICK w \in Stacks : w = Drops(kids)
    BY StackDrops
  <2>2. Free(c) \in Entries
    BY <1>3, MakeEntries
  <2>3. (w \o <<Free(c)>>) \o Rest = w \o Push(Free(c), Rest)
    BY <1>3, <2>2, ConcatPush
  <2>4. QED
    BY <1>2, <1>5, <1>8, <2>1, <2>3, Zenon
<1>12. QED
  BY <1>2, <1>10, <1>11, Zenon DEF MemInv

LEMMA FreeValueInv ==
  ASSUME MemInv, FreeValue
  PROVE  MemInv'
<1>1. PICK c : c = Top.cell
  OBVIOUS
<1>2. /\ Doing("free") /\ heap' = [d \in DOMAIN heap \ {c} |-> heap[d]]
      /\ stack' = Rest /\ leaked' = leaked
  BY <1>1 DEF FreeValue
<1>3. /\ Top \in Entries /\ Top.do = "free" /\ Rest \in Stacks
      /\ stack = Push(Top, Rest) /\ leaked \in Refs
  BY <1>2, Doings
<1>4. c \in Nat /\ Top = Free(c)
  BY <1>1, <1>3, EntryFacts, EntryForms
<1>5. Inv(heap, Push(Free(c), Rest), leaked)
  BY <1>3, <1>4 DEF MemInv
<1>6. Inv(heap, Rest, leaked) /\ Freed(heap, Rest, c)
  BY <1>3, <1>4, <1>5, PushFree
<1>7. Inv([d \in DOMAIN heap \ {c} |-> heap[d]], Rest, leaked)
  BY <1>6, EraseInv
<1>8. QED
  BY <1>2, <1>7 DEF MemInv

(* The slots a function can name and use. *)
LEMMA SlotFacts ==
  ASSUME MemInv, Doing("run"), NEW slot \in Slots, ~Unusable(slot)
  PROVE  \E a \in Named, i \in Nat :
           /\ slot = <<a, i>> /\ heap[a].tag \in {"ARRAY", "WORLD"} /\ i \in DOMAIN heap[a].kids
<1>1. PICK a, i : a \in Named /\ slot = <<a, i>> /\ heap[a].tag \in {"ARRAY", "WORLD"}
  BY DEF Slots, Tagged
<1>2. i \in DOMAIN heap[a].kids
  BY <1>1 DEF Unusable
<1>3. a \in DOMAIN heap /\ HeapTypes(heap)
  BY <1>1, NamedFacts DEF MemInv, Inv
<1>4. i \in Nat
  BY <1>2, <1>3, CellFacts
<1>5. QED
  BY <1>1, <1>2, <1>4

LEMMA WritingSlots == BeingWritten = Writing(stack)
BY DEF BeingWritten, Writing

LEMMA ReadSlotInv ==
  ASSUME MemInv, ReadSlot
  PROVE  MemInv'
<1>1. Doing("run") /\ leaked' = leaked
  BY DEF ReadSlot, Statement
<1>2. PICK slot \in Slots :
        \/ heap' = heap /\ stack' = stack
        \/ /\ ~Unusable(slot)
           /\ heap' = newReference(heap, <<heap[slot[1]].kids[slot[2]]>>)
           /\ stack' = Let(heap[slot[1]].kids[slot[2]])
  BY DEF ReadSlot
<1>3. CASE heap' = heap /\ stack' = stack
  BY <1>1, <1>3 DEF MemInv
<1>4. ASSUME ~Unusable(slot),
             heap' = newReference(heap, <<heap[slot[1]].kids[slot[2]]>>),
             stack' = Let(heap[slot[1]].kids[slot[2]])
      PROVE  MemInv'
  <2>1. PICK a \in Named, i \in Nat :
          /\ slot = <<a, i>> /\ heap[a].tag \in {"ARRAY", "WORLD"} /\ i \in DOMAIN heap[a].kids
    BY <1>1, <1>4, SlotFacts
  <2>2. PICK v : v = heap[a].kids[i]
    OBVIOUS
  <2>3. heap' = newReference(heap, <<v>>) /\ stack' = Let(v) /\ <<a, i>> \notin Writing(stack)
    BY <1>4, <2>1, <2>2, WritingSlots DEF Unusable
  <2>4. a \in DOMAIN heap /\ HeapTypes(heap) /\ CellOk(heap, a)
    BY <1>1, NamedFacts DEF MemInv, Inv, HeapOk
  <2>5. v \in Nat /\ heap[a].owns
    BY <2>1, <2>2, <2>4, CellFacts DEF CellOk
  <2>6. v # NULL => v \in DOMAIN heap /\ heap[v].rc > 0
    <3>1. Held(heap, stack, leaked, v)
      BY <2>1, <2>2, <2>3, <2>4, <2>5 DEF Held
    <3>2. QED
      BY <2>5, <3>1, HeldAlive DEF MemInv
  <2>7. Inv(heap', stack, Append(leaked, v))
    BY <2>3, <2>5, <2>6, TakeOne DEF MemInv
  <2>8. QED
    BY <1>1, <2>3, <2>5, <2>7, LetStep
<1>5. QED
  BY <1>2, <1>3, <1>4

LEMMA WriteSlotInv ==
  ASSUME MemInv, WriteSlot
  PROVE  MemInv'
<1>1. Doing("run") /\ leaked' = leaked /\ heap' = heap
  BY DEF WriteSlot, Statement
<1>2. PICK slot \in Slots, v \in Named :
        \/ stack' = stack
        \/ /\ ~Unusable(slot)
           /\ stack' = <<Drop(heap[slot[1]].kids[slot[2]]), Store(slot[1], slot[2], v)>> \o stack
  BY DEF WriteSlot
<1>3. CASE stack' = stack
  BY <1>1, <1>3 DEF MemInv
<1>4. ASSUME ~Unusable(slot),
             stack' = <<Drop(heap[slot[1]].kids[slot[2]]), Store(slot[1], slot[2], v)>> \o stack
      PROVE  MemInv'
  <2>1. PICK a \in Named, i \in Nat :
          /\ slot = <<a, i>> /\ heap[a].tag \in {"ARRAY", "WORLD"} /\ i \in DOMAIN heap[a].kids
    BY <1>1, <1>4, SlotFacts
  <2>2. stack \in Stacks /\ First(stack) = Top /\ Top.do = "run" /\ leaked \in Refs
    BY <1>1, Running, Doings
  <2>3. Named = NamedIn(heap, First(stack)) /\ First(stack).do = "run"
    BY <2>2, NamedByIn DEF Named
  <2>4. {a, v} \subseteq NamedIn(heap, First(stack)) /\ <<a, i>> \notin Writing(stack)
    BY <1>4, <2>1, <2>3, WritingSlots DEF Unusable
  <2>5. PICK d : d = heap[a].kids[i]
    OBVIOUS
  <2>6. PICK u : u = Push(Store(a, i, v), stack)
    OBVIOUS
  <2>7. /\ Push(Store(a, i, v), stack) \in Stacks /\ heap[a].kids[i] \in Nat
        /\ Inv(heap, Push(Store(a, i, v), stack), Append(leaked, heap[a].kids[i]))
    BY <2>1, <2>2, <2>3, <2>4, StoreInv DEF MemInv
  <2>8. u \in Stacks /\ d \in Nat /\ Inv(heap, u, Append(leaked, d))
    BY <2>5, <2>6, <2>7, Zenon
  <2>9. Inv(heap, Push(Drop(d), u), leaked)
    BY <2>2, <2>8, PushDrop
  <2>10. stack' = Push(Drop(d), u)
    <3>1. a \in Nat /\ v \in Nat
      BY <1>1, NamedFacts
    <3>2. Drop(d) \in Entries /\ Store(a, i, v) \in Entries
      BY <2>8, <3>1, MakeEntries
    <3>3. <<Drop(d), Store(a, i, v)>> \o stack = Push(Drop(d), Push(Store(a, i, v), stack))
      BY <2>2, <3>2, PushTwo
    <3>4. slot[1] = a /\ slot[2] = i
      BY <2>1
    <3>5. QED
      BY <1>4, <2>5, <2>6, <3>3, <3>4, Zenon
  <2>11. QED
    BY <1>1, <2>9, <2>10 DEF MemInv
<1>5. QED
  BY <1>2, <1>3, <1>4

LEMMA StoreNewInv ==
  ASSUME MemInv, StoreNew
  PROVE  MemInv'
<1>1. PICK e, v : e = Top /\ v = e.value
  OBVIOUS
<1>2. /\ Doing("store") /\ leaked' = leaked /\ stack' = Rest
      /\ heap' = [newReference(heap, <<v>>) EXCEPT ![e.cell].kids[e.at] = v]
  BY <1>1 DEF StoreNew
<1>3. /\ e \in Entries /\ e.do = "store" /\ Rest \in Stacks /\ stack \in Stacks
      /\ stack = Push(e, Rest) /\ leaked \in Refs /\ v \in Nat
  BY <1>1, <1>2, Doings, EntryFacts
<1>4. v \in DOMAIN heap /\ heap[v].rc > 0
  <2>1. StackOk(heap, Push(e, Rest))
    BY <1>3 DEF MemInv, Inv
  <2>2. EntryOk(heap, e, First(Rest))
    BY <1>3, <2>1, PushOk
  <2>3. First(Rest).do = "run" /\ v \in NamedIn(heap, First(Rest))
    BY <1>1, <1>3, <2>2 DEF EntryOk
  <2>4. Rest # <<>> /\ First(Rest) = Rest[1]
    <3>1. Forget.do # "run"
      BY DEF Forget
    <3>2. QED
      BY <2>3, <3>1 DEF First
  <2>5. 1 \in DOMAIN Rest
    BY <1>3, <2>4, TopAndRest
  <2>6. 2 \in DOMAIN stack /\ stack[2] = Rest[1]
    <3>1. 1 + 1 \in DOMAIN stack /\ stack[1 + 1] = Rest[1]
      BY <1>3, <2>5, PushFacts, PushIndex
    <3>2. QED
      BY <3>1
  <2>7. v \in Nat \ {NULL} /\ Held(heap, stack, <<>>, v)
    BY <2>3, <2>4, <2>6, NamesHeld DEF MemInv
  <2>8. QED
    BY <2>7, HeldValue DEF Values
<1>5. Inv(newReference(heap, <<v>>), stack, Append(leaked, v))
  BY <1>3, <1>4, TakeOne DEF MemInv
<1>6. PICK g : g = newReference(heap, <<v>>)
  OBVIOUS
<1>7. Inv(g, Push(e, Rest), Append(leaked, v))
  BY <1>3, <1>5, <1>6
<1>8. PICK a, i : a = e.cell /\ i = e.at
  OBVIOUS
<1>9. Inv([g EXCEPT ![a].kids[i] = v], Rest, leaked)
  BY <1>3, <1>7, <1>8, StoredInv
<1>10. QED
  BY <1>2, <1>6, <1>8, <1>9 DEF MemInv

LEMMA AddsTwo ==
  ASSUME NEW l \in Refs, NEW a \in Nat, NEW b \in Nat, NEW m, m = Append(Append(l, a), b)
  PROVE  m \in Refs /\ Adds(m, l, <<a, b>>) /\ Adds(m, l, <<b, a>>)
<1>1. PICK la \in Refs : la = Append(l, a)
  BY TimesAppend
<1>2. m \in Refs /\ m = Append(la, b)
  BY <1>1, TimesAppend
<1>3. ASSUME NEW c \in Nat \ {NULL}
      PROVE  /\ Times(c, m) = Times(c, l) + Times(c, <<a, b>>)
             /\ Times(c, m) = Times(c, l) + Times(c, <<b, a>>)
  <2>1. Times(c, m) = Times(c, la) + One(c, b) /\ Times(c, la) = Times(c, l) + One(c, a)
    BY <1>1, <1>2, TimesAppend
  <2>2. /\ Times(c, <<a, b>>) = One(c, a) + One(c, b)
        /\ Times(c, <<b, a>>) = One(c, b) + One(c, a)
    BY TimesTwo
  <2>3. Times(c, l) \in Nat /\ One(c, a) \in Nat /\ One(c, b) \in Nat
    BY TimesNat DEF One
  <2>4. QED
    BY <2>1, <2>2, <2>3
<1>4. QED
  BY <1>2, <1>3 DEF Adds

LEMMA stringIteratorNewInv ==
  ASSUME MemInv, stringIteratorNew
  PROVE  MemInv'
<1>1. /\ Doing("run") /\ Room(4) /\ leaked' = leaked /\ stack' = Let(Fresh(4))
      /\ heap' = Alloc(Alloc(makeClosureFromArglist("freeIterator", <<>>, 2),
                             Fresh(3), Value("POINTER", <<>>)),
                       Fresh(4), GCPointer(Fresh(3), Fresh(2)))
  BY DEF stringIteratorNew, Statement
<1>2. PICK x \in Cells \ DOMAIN heap, y \in Cells \ DOMAIN heap,
           z \in Cells \ DOMAIN heap, w \in Cells \ DOMAIN heap :
        /\ x = Fresh(1) /\ y = Fresh(2) /\ z = Fresh(3) /\ w = Fresh(4)
        /\ x # y /\ z \notin {x, y} /\ w \notin {x, y, z}
  BY <1>1, FreshFacts
<1>3. PICK args \in Refs : args = <<>>
  BY EmptyRefs
<1>4. PICK f \in {"code", "freeIterator"}, total \in Nat : f = "freeIterator" /\ total = 2
  OBVIOUS
<1>5. PICK k : k = makeClosureFromArglist(f, args, total)
  OBVIOUS
<1>6. Alive(heap, args) /\ closureTag(args, total) = "CLOSURE"
  BY <1>3, <1>4 DEF Alive, ToSet, closureTag
<1>7. HeapTypes(heap) /\ leaked \in Refs /\ x \in Nat /\ y \in Nat /\ z \in Nat
  BY OneFacts DEF MemInv, Inv
<1>8. Inv(k, stack, Append(leaked, y))
  BY <1>2, <1>5, <1>6, ClosureInv DEF MemInv
<1>9. Grown(heap, k, args, {x, y}) /\ Made(k, y, closureTag(args, total), <<x>>)
  BY <1>2, <1>5, <1>7, ClosureMade
<1>10. DOMAIN k = DOMAIN heap \union {x, y} /\ Kind(k, y, "CLOSURE")
  BY <1>6, <1>9 DEF Grown, Made
<1>11. PICK l \in Refs : l = Append(leaked, y)
  BY <1>7, TimesAppend
<1>12. PICK g : g = Alloc(k, z, Value("POINTER", args))
  OBVIOUS
<1>13. Inv(g, stack, Append(l, z))
  <2>1. Inv(k, stack, l) /\ Adds(l, l, args) /\ z \in Cells \ DOMAIN k /\ "POINTER" \in PlainTags
    BY <1>2, <1>3, <1>8, <1>10, <1>11, AddsNone DEF PlainTags
  <2>2. QED
    BY <1>12, <2>1, PlainInv
<1>14. w \in Cells \ DOMAIN g /\ Kind(g, y, "CLOSURE")
  BY <1>2, <1>10, <1>12 DEF Alloc, Kind
<1>15. PICK m \in Refs : m = Append(l, z)
  BY <1>7, TimesAppend
<1>16. Adds(m, leaked, <<y, z>>)
  BY <1>7, <1>11, <1>15, AddsTwo
<1>17. heap' = Alloc(g, w, GCPointer(z, y))
  BY <1>1, <1>2, <1>3, <1>4, <1>5, <1>12
<1>18. Inv(heap', stack, Append(leaked, w))
  <2>1. Inv(g, stack, m)
    BY <1>13, <1>15
  <2>2. QED
    BY <1>7, <1>14, <1>16, <1>17, <2>1, GCInv
<1>19. QED
  BY <1>1, <1>2, <1>18, LetStep, OneFacts

LEMMA stringIteratorNextInv ==
  ASSUME MemInv, stringIteratorNext
  PROVE  MemInv'
<1>1. Doing("run") /\ Room(2) /\ leaked' = leaked /\ stack' = Let(Fresh(2))
  BY DEF stringIteratorNext, Statement
<1>2. PICK it \in Named :
        heap' = Alloc(Alloc(newReference(heap, <<it>>), Fresh(1), Value("CHAR", <<>>)),
                      Fresh(2), Value("CONSTRUCTOR", <<Fresh(1), it>>))
  BY DEF stringIteratorNext, Tagged
<1>3. it \in Nat /\ it \in DOMAIN heap /\ heap[it].rc > 0
  BY <1>1, NamedFacts
<1>4. PICK x \in Cells \ DOMAIN heap, y \in Cells \ DOMAIN heap :
        x = Fresh(1) /\ y = Fresh(2) /\ x # y
  BY <1>1, FreshFacts
<1>5. HeapTypes(heap) /\ leaked \in Refs /\ x \in Nat
  BY OneFacts DEF MemInv, Inv
<1>6. PICK args \in Refs : args = <<it>>
  BY <1>3, TimesOne
<1>7. PICK g : g = newReference(heap, args)
  OBVIOUS
<1>8. DOMAIN g = DOMAIN heap
  BY <1>5, <1>7, TakeFacts
<1>9. PICK l \in Refs : l = Append(leaked, it)
  BY <1>3, <1>5, TimesAppend
<1>10. Inv(g, stack, l)
  BY <1>3, <1>6, <1>7, <1>9, TakeOne DEF MemInv
<1>11. PICK none \in Refs : none = <<>>
  BY EmptyRefs
<1>12. PICK k : k = Alloc(g, x, Value("CHAR", none))
  OBVIOUS
<1>13. PICK m \in Refs : m = Append(l, x)
  BY <1>5, TimesAppend
<1>14. Inv(k, stack, m)
  <2>1. Adds(l, l, none) /\ x \in Cells \ DOMAIN g /\ "CHAR" \in PlainTags
    BY <1>8, <1>11, AddsNone DEF PlainTags
  <2>2. Inv(k, stack, Append(l, x))
    BY <1>10, <1>12, <2>1, PlainInv
  <2>3. QED
    BY <1>13, <2>2
<1>15. PICK kids \in Refs : kids = <<x, it>>
  BY <1>3, <1>5, TimesTwo
<1>16. Adds(m, leaked, kids)
  BY <1>3, <1>5, <1>9, <1>13, <1>15, AddsTwo
<1>17. y \in Cells \ DOMAIN k
  BY <1>4, <1>8, <1>12 DEF Alloc
<1>18. heap' = Alloc(k, y, Value("CONSTRUCTOR", kids)) /\ "CONSTRUCTOR" \in PlainTags
  BY <1>2, <1>4, <1>6, <1>7, <1>11, <1>12, <1>15 DEF PlainTags
<1>19. Inv(heap', stack, Append(leaked, y))
  BY <1>5, <1>14, <1>16, <1>17, <1>18, PlainInv
<1>20. QED
  BY <1>1, <1>4, <1>19, LetStep, OneFacts

LEMMA stringIteratorToStringInv ==
  ASSUME MemInv, stringIteratorToString
  PROVE  MemInv'
<1>1. Doing("run") /\ Room(2)
  BY DEF stringIteratorToString, Statement
<1>2. PICK cl \in Tagged("CLOSURE") :
        LET args == Append(heap[heap[cl].kids[1]].kids, Fresh(1))
            made == Alloc(heap, Fresh(1), Value("STRING", <<>>))
        IN  /\ heap' = Alloc(newReference(made, args), Fresh(2), Arglist(args, Total(cl)))
            /\ stack' = <<Run(heap[cl].f, Fresh(2), <<>>)>> \o stack
            /\ leaked' = Append(leaked, Fresh(1))
  BY DEF stringIteratorToString
<1>3. cl \in DOMAIN heap /\ heap[cl].rc > 0 /\ heap[cl].tag = "CLOSURE"
  BY <1>1, NamedFacts DEF Tagged
<1>4. /\ heap[cl].f \in {"code", "freeIterator"} /\ Total(cl) \in Nat
      /\ heap[heap[cl].kids[1]].kids \in Refs /\ Alive(heap, heap[heap[cl].kids[1]].kids)
  BY <1>3, ClosureFacts DEF MemInv
<1>5. PICK f \in {"code", "freeIterator"}, total \in Nat, old \in Refs :
        f = heap[cl].f /\ total = Total(cl) /\ old = heap[heap[cl].kids[1]].kids
  BY <1>4
<1>6. PICK x \in Cells \ DOMAIN heap, y \in Cells \ DOMAIN heap :
        x = Fresh(1) /\ y = Fresh(2) /\ x # y
  BY <1>1, FreshFacts
<1>7. HeapTypes(heap) /\ leaked \in Refs /\ x \in Nat /\ y \in Nat
  BY OneFacts DEF MemInv, Inv
<1>8. PICK none \in Refs : none = <<>>
  BY EmptyRefs
<1>9. PICK g : g = Alloc(heap, x, Value("STRING", none))
  OBVIOUS
<1>10. PICK l \in Refs : l = Append(leaked, x)
  BY <1>7, TimesAppend
<1>11. Inv(g, stack, l)
  <2>1. Adds(leaked, leaked, none) /\ "STRING" \in PlainTags
    BY <1>7, <1>8, AddsNone DEF PlainTags
  <2>2. Inv(g, stack, Append(leaked, x))
    BY <1>7, <1>9, <2>1, PlainInv DEF MemInv
  <2>3. QED
    BY <1>10, <2>2
<1>12. /\ DOMAIN g = DOMAIN heap \union {x} /\ g[x].rc = 1
       /\ \A c \in DOMAIN heap : g[c] = heap[c]
  BY <1>9 DEF Alloc, Value
<1>13. Alive(g, old)
  BY <1>4, <1>5, <1>12 DEF Alive
<1>14. PICK args : args = Append(old, x)
  OBVIOUS
<1>15. args \in Refs /\ Alive(g, args)
  BY <1>7, <1>12, <1>13, <1>14, AliveAppend
<1>16. /\ heap' = Alloc(newReference(g, args), y, Arglist(args, total))
       /\ stack' = <<Run(f, y, <<>>)>> \o stack /\ leaked' = l
  BY <1>2, <1>5, <1>6, <1>8, <1>9, <1>10, <1>14
<1>17. y \in Cells \ DOMAIN g
  BY <1>6, <1>12
<1>18. Inv(heap', stack, Append(l, y))
  BY <1>11, <1>15, <1>16, <1>17, ArglistInv
<1>19. ArglistOk(heap', y)
  <2>1. HeapTypes(g)
    BY <1>11 DEF Inv
  <2>2. QED
    BY <1>15, <1>16, <1>17, <2>1, ArglistMade DEF Made, ArglistOk
<1>20. stack \in Stacks /\ Frame(stack)
  BY <1>1, Running
<1>21. Inv(heap', Push(Run(f, y, <<>>), stack), l)
  BY <1>7, <1>18, <1>19, <1>20, CallInv
<1>22. stack' = Push(Run(f, y, <<>>), stack)
  BY <1>16, Zenon DEF Push
<1>23. QED
  BY <1>16, <1>21, <1>22 DEF MemInv

(* Three and five entries on top of a stack. *)
LEMMA PushThree ==
  ASSUME NEW a \in Entries, NEW b \in Entries, NEW c \in Entries, NEW t \in Stacks
  PROVE  <<a, b, c>> \in Stacks /\ <<a, b, c>> \o t = Push(a, Push(b, Push(c, t)))
<1>1. PICK u \in Stacks : u = <<a, b>>
  <2>1. <<a, b>> \in Stacks
    BY DEF Stacks
  <2>2. QED
    BY <2>1
<1>2. <<a, b, c>> = Append(<<a, b>>, c)
  OBVIOUS
<1>3. <<a, b, c>> \in Stacks
  BY DEF Stacks
<1>4. Append(u, c) \o t = u \o Push(c, t)
  BY ConcatPush
<1>5. PICK s \in Stacks : s = Push(c, t)
  BY PushFacts
<1>6. <<a, b>> \o s = Push(a, Push(b, s))
  BY PushTwo
<1>7. QED
  BY <1>1, <1>2, <1>3, <1>4, <1>5, <1>6, Zenon

LEMMA FourthEntry ==
  ASSUME NEW a \in Entries, NEW b \in Entries, NEW c \in Entries, NEW d \in Entries
  PROVE  <<a, b, c, d>> \in Stacks /\ <<a, b, c, d>> = Append(<<a, b, c>>, d)
BY DEF Stacks

LEMMA FifthEntry ==
  ASSUME NEW a \in Entries, NEW b \in Entries, NEW c \in Entries, NEW d \in Entries,
         NEW e \in Entries
  PROVE  <<a, b, c, d, e>> = Append(<<a, b, c, d>>, e)
OBVIOUS

LEMMA PushFour ==
  ASSUME NEW a \in Entries, NEW b \in Entries, NEW c \in Entries, NEW d \in Entries,
         NEW t \in Stacks
  PROVE  <<a, b, c, d>> \o t = Push(a, Push(b, Push(c, Push(d, t))))
<1>1. PICK u \in Stacks : u = <<a, b, c>>
  BY PushThree
<1>2. Append(u, d) \o t = u \o Push(d, t)
  BY ConcatPush
<1>3. PICK s \in Stacks : s = Push(d, t)
  BY PushFacts
<1>4. <<a, b, c>> \o s = Push(a, Push(b, Push(c, s)))
  BY PushThree
<1>5. <<a, b, c, d>> = Append(<<a, b, c>>, d)
  BY FourthEntry
<1>6. QED
  BY <1>1, <1>2, <1>3, <1>4, <1>5, Zenon

LEMMA PushFive ==
  ASSUME NEW u \in Stacks, Len(u) = 5, NEW t \in Stacks
  PROVE  /\ u \o t = <<u[1], u[2], u[3], u[4]>> \o Push(u[5], t)
         /\ u \o t = Push(u[1], Push(u[2], Push(u[3], Push(u[4], Push(u[5], t)))))
<1>1. PICK a \in Entries, b \in Entries, c \in Entries, d \in Entries, e \in Entries :
        /\ a = u[1] /\ b = u[2] /\ c = u[3] /\ d = u[4] /\ e = u[5]
        /\ u = <<a, b, c, d, e>>
  <2>1. \A i \in 1 .. 5 : u[i] \in Entries
    BY StackRowsRows
  <2>2. u = <<u[1], u[2], u[3], u[4], u[5]>>
    BY DEF Stacks
  <2>3. QED
    BY <2>1, <2>2
<1>2. PICK v \in Stacks : v = <<a, b, c, d>>
  BY FourthEntry
<1>3. Append(v, e) \o t = v \o Push(e, t)
  BY ConcatPush
<1>4. PICK s \in Stacks : s = Push(e, t)
  BY PushFacts
<1>5. <<a, b, c, d>> \o s = Push(a, Push(b, Push(c, Push(d, s))))
  BY PushFour
<1>6. u = Append(v, e)
  <2>1. <<a, b, c, d, e>> = Append(<<a, b, c, d>>, e)
    BY FifthEntry
  <2>2. QED
    BY <1>1, <1>2, <2>1, Zenon
<1>7. u \o t = <<a, b, c, d>> \o s
  BY <1>2, <1>3, <1>4, <1>6, Zenon
<1>8. QED
  BY <1>1, <1>4, <1>5, <1>7, Zenon

(* What apply_closure leaves to do: a function runs with the arglist z, or  *)
(* has returned the closure z.                                              *)
Launch(h, e, z) ==
  \/ e = Deliver(z)
  \/ ArglistOk(h, z) /\ \E f \in {"code", "freeIterator"} : e = Run(f, z, <<>>)

LEMMA LaunchEntry ==
  ASSUME NEW h, NEW z \in Nat, NEW e, Launch(h, e, z)
  PROVE  e \in Entries /\ e.do # "free"
<1>1. CASE e = Deliver(z)
  BY <1>1, MakeEntries
<1>2. ASSUME NEW f \in {"code", "freeIterator"}, e = Run(f, z, <<>>)
      PROVE  e \in Entries /\ e.do # "free"
  BY <1>2, MakeEntries, EmptyRefs
<1>3. QED
  BY <1>1, <1>2 DEF Launch

LEMMA LaunchInv ==
  ASSUME NEW h, NEW t \in Stacks, NEW l \in Refs, NEW z \in Nat, Inv(h, t, Append(l, z)),
         Frame(t), NEW e, Launch(h, e, z)
  PROVE  Inv(h, Push(e, t), l)
<1>1. CASE e = Deliver(z)
  BY <1>1, PushDeliver
<1>2. ASSUME NEW f \in {"code", "freeIterator"}, e = Run(f, z, <<>>), ArglistOk(h, z)
      PROVE  Inv(h, Push(e, t), l)
  BY <1>2, CallInv
<1>3. QED
  BY <1>1, <1>2 DEF Launch

(* What apply_closure of cl to arg finds. *)
LEMMA ApplyFacts ==
  ASSUME NEW t, NEW l, Inv(heap, t, l), NEW cl \in DOMAIN heap, heap[cl].rc > 0,
         heap[cl].tag = "CLOSURE",
         NEW arg \in Nat, arg # NULL => arg \in DOMAIN heap /\ heap[arg].rc > 0
  PROVE  /\ heap[cl].f \in {"code", "freeIterator"} /\ Total(cl) \in Nat
         /\ heap[heap[cl].kids[1]].kids \in Refs
         /\ Kind(heap, heap[cl].kids[1], "ARGLIST")
         /\ Applied(cl, arg) \in Refs /\ Alive(heap, Applied(cl, arg))
<1>1. /\ heap[cl].f \in {"code", "freeIterator"} /\ Total(cl) \in Nat
      /\ Kind(heap, heap[cl].kids[1], "ARGLIST")
      /\ heap[heap[cl].kids[1]].kids \in Refs /\ Alive(heap, heap[heap[cl].kids[1]].kids)
  BY ClosureFacts
<1>2. QED
  BY <1>1, AliveAppend DEF Applied

LEMMA ApplyInv ==
  ASSUME NEW t, NEW l, Inv(heap, t, l), NEW cl \in DOMAIN heap, heap[cl].rc > 0,
         heap[cl].tag = "CLOSURE",
         NEW arg \in Nat, arg # NULL => arg \in DOMAIN heap /\ heap[arg].rc > 0,
         RoomToApply(cl, arg), NEW k, k = HeapApplied(cl, arg), NEW e, e = Applying(cl, arg)
  PROVE  \E z, new :
           /\ z \in Nat /\ z \in new /\ Inv(k, t, Append(l, z)) /\ Launch(k, e, z)
           /\ Grown(heap, k, Applied(cl, arg), new)
<1>1. PICK f \in {"code", "freeIterator"}, total \in Nat, args \in Refs :
        f = heap[cl].f /\ total = Total(cl) /\ args = Applied(cl, arg) /\ Alive(heap, args)
  BY ApplyFacts
<1>2. HeapTypes(heap)
  BY DEF Inv
<1>3. CASE Complete(cl, arg)
  <2>1. PICK x \in Cells \ DOMAIN heap : x = Fresh(1) /\ x \in Nat
    BY <1>3, FreshFacts, OneFacts DEF RoomToApply
  <2>2. k = Alloc(newReference(heap, args), x, Arglist(args, total)) /\ e = Run(f, x, <<>>)
    BY <1>1, <1>3, <2>1 DEF HeapApplied, Applying
  <2>3. Inv(k, t, Append(l, x))
    BY <1>1, <2>2, ArglistInv
  <2>4. Grown(heap, k, args, {x}) /\ ArglistOk(k, x)
    BY <1>2, <2>2, ArglistMade DEF Made, ArglistOk
  <2>5. Launch(k, e, x)
    BY <2>2, <2>4 DEF Launch
  <2>6. QED
    BY <1>1, <2>1, <2>3, <2>4, <2>5
<1>4. CASE ~Complete(cl, arg)
  <2>1. PICK x \in Cells \ DOMAIN heap, y \in Cells \ DOMAIN heap :
          x = Fresh(1) /\ y = Fresh(2) /\ x # y /\ y \in Nat
    BY <1>4, FreshFacts, OneFacts DEF RoomToApply
  <2>2. k = makeClosureFromArglist(f, args, total) /\ e = Deliver(y)
    BY <1>1, <1>4, <2>1 DEF HeapApplied, Applying
  <2>3. Inv(k, t, Append(l, y))
    BY <1>1, <2>1, <2>2, ClosureInv
  <2>4. Grown(heap, k, args, {x, y})
    BY <1>2, <2>1, <2>2, ClosureMade
  <2>5. Launch(k, e, y) /\ y \in {x, y}
    BY <2>2 DEF Launch
  <2>6. QED
    BY <1>1, <2>1, <2>3, <2>4, <2>5
<1>5. QED
  BY <1>3, <1>4

(* The stack that Finalise leaves: the finaliser is applied, closure1 is    *)
(* awaited, and then the function, the pointer and the GC pointer c go.     *)
LEMMA FinaliserInv ==
  ASSUME NEW h, NEW t \in Stacks, NEW l \in Refs, NEW e, NEW z \in Nat, Launch(h, e, z),
         NEW fct \in Nat, NEW p \in Nat, NEW c \in Nat, NEW m, Inv(h, t, m), Freed(h, t, c),
         \A d \in Nat \ {NULL} :
            Times(d, m) = Times(d, l) + One(d, z) + (One(d, fct) + One(d, p)),
         NEW s, s = <<e, Awaits1, Drop(fct), Drop(p), Free(c)>> \o t
  PROVE  Inv(h, s, l)
<1>1. PICK l1 \in Refs : l1 = Append(l, z)
  BY TimesAppend
<1>2. PICK l2 \in Refs : l2 = Append(l1, fct)
  BY TimesAppend
<1>3. PICK l3 \in Refs : l3 = Append(l2, p)
  BY TimesAppend
<1>4. ASSUME NEW d \in Nat \ {NULL} PROVE Times(d, l3) = Times(d, m)
  <2>1. /\ Times(d, l1) = Times(d, l) + One(d, z) /\ Times(d, l2) = Times(d, l1) + One(d, fct)
        /\ Times(d, l3) = Times(d, l2) + One(d, p)
    BY <1>1, <1>2, <1>3, TimesAppend
  <2>2. Times(d, m) = Times(d, l) + One(d, z) + (One(d, fct) + One(d, p))
    OBVIOUS
  <2>3. PICK a \in Nat, a1 \in Nat, a2 \in Nat, a3 \in Nat :
          a = Times(d, l) /\ a1 = One(d, z) /\ a2 = One(d, fct) /\ a3 = One(d, p)
    BY TimesNat DEF One
  <2>4. Times(d, l3) = a + a1 + a2 + a3 /\ Times(d, m) = a + a1 + (a2 + a3)
    BY <2>1, <2>2, <2>3
  <2>5. a + a1 + a2 + a3 = a + a1 + (a2 + a3)
    OBVIOUS
  <2>6. QED
    BY <2>4, <2>5
<1>5. Inv(h, t, l3)
  BY <1>4, InvSame
<1>6. PICK t1 \in Stacks : t1 = Push(Free(c), t)
  BY PushFree
<1>7. Inv(h, t1, l3)
  BY <1>5, <1>6, PushFree
<1>8. PICK t2 \in Stacks : t2 = Push(Drop(p), t1)
  BY PushDrop
<1>9. Inv(h, t2, l2)
  BY <1>3, <1>7, <1>8, PushDrop
<1>10. PICK t3 \in Stacks : t3 = Push(Drop(fct), t2)
  BY PushDrop
<1>11. Inv(h, t3, l1)
  BY <1>2, <1>9, <1>10, PushDrop
<1>12. PICK t4 \in Stacks : t4 = Push(Awaits1, t3)
  BY PushAwaits
<1>13. Inv(h, t4, l1)
  BY <1>11, <1>12, PushAwaits
<1>14. Frame(t4)
  <2>1. Awaits1 \in Entries /\ Awaits1.do = "closure1"
    BY MakeEntries
  <2>2. t4 # <<>> /\ t4[1] = Awaits1
    BY <1>12, <2>1, PushFacts
  <2>3. QED
    BY <2>1, <2>2 DEF Frame, First
<1>15. Inv(h, Push(e, t4), l)
  BY <1>1, <1>13, <1>14, LaunchInv
<1>16. s = Push(e, t4)
  <2>1. PICK e1 \in Entries : e1 = e
    BY LaunchEntry
  <2>2. PICK e2 \in Entries, e3 \in Entries, e4 \in Entries, e5 \in Entries :
          e2 = Awaits1 /\ e3 = Drop(fct) /\ e4 = Drop(p) /\ e5 = Free(c)
    BY MakeEntries
  <2>3. PICK u \in Stacks : u = <<e1, e2, e3, e4, e5>>
    <3>1. <<e1, e2, e3, e4, e5>> \in Stacks
      BY DEF Stacks
    <3>2. QED
      BY <3>1
  <2>4. Len(u) = 5 /\ u[1] = e1 /\ u[2] = e2 /\ u[3] = e3 /\ u[4] = e4 /\ u[5] = e5
    BY <2>3
  <2>5. u \o t = Push(u[1], Push(u[2], Push(u[3], Push(u[4], Push(u[5], t)))))
    BY <2>4, PushFive
  <2>6. QED
    BY <1>6, <1>8, <1>10, <1>12, <2>1, <2>2, <2>3, <2>4, <2>5, Zenon
<1>17. QED
  BY <1>15, <1>16

(* The GC pointer whose last reference goes, and what it holds. *)
LEMMA Finalised ==
  ASSUME MemInv, Finalise,
         NEW c, c = Top.cell, NEW fct, fct = heap[c].kids[1], NEW p, p = heap[c].kids[2]
  PROVE  /\ c \in Nat \ {NULL} /\ c \in DOMAIN heap /\ heap[c].rc = 1 /\ heap[c].owns
         /\ heap[c].kids \in Refs /\ heap[c].kids = <<fct, p>>
         /\ fct \in DOMAIN heap /\ heap[fct].rc > 0 /\ heap[fct].tag = "CLOSURE"
         /\ p \in Nat /\ (p # NULL => p \in DOMAIN heap /\ heap[p].rc > 0)
         /\ fct \in Nat /\ Rest \in Stacks /\ leaked \in Refs
         /\ Inv(heap, Rest, Append(leaked, c))
<1>1. /\ Doing("drop") /\ c # NULL /\ c \in DOMAIN heap /\ heap[c].rc = 1
      /\ heap[c].tag = "GC_POINTER" /\ heap[c].owns
  BY DEF Finalise, Live
<1>2. c \in Nat /\ Rest \in Stacks /\ leaked \in Refs /\ Inv(heap, Rest, Append(leaked, c))
  BY <1>1, Dropped
<1>3. HeapTypes(heap) /\ CellOk(heap, c)
  BY <1>1, <1>2 DEF Inv, HeapOk
<1>4. Len(heap[c].kids) = 2 /\ Kind(heap, fct, "CLOSURE")
  BY <1>1, <1>3 DEF CellOk
<1>5. heap[c].kids \in Refs /\ Alive(heap, heap[c].kids)
  BY <1>1, <1>2, KidsAlive
<1>6. 1 \in DOMAIN heap[c].kids /\ 2 \in DOMAIN heap[c].kids /\ fct \in Nat /\ p \in Nat
  <2>1. DOMAIN heap[c].kids = 1 .. 2
    BY <1>4, <1>5, SeqFacts
  <2>2. QED
    BY <1>5, <2>1, SeqFacts
<1>7. fct \in DOMAIN heap /\ heap[fct].rc > 0 /\ heap[fct].tag = "CLOSURE"
  <2>1. fct \in DOMAIN heap /\ heap[fct].tag = "CLOSURE"
    BY <1>4 DEF Kind
  <2>2. fct \in ToSet(heap[c].kids) /\ fct # NULL
    BY <1>3, <1>6, <2>1, CellFacts DEF ToSet
  <2>3. QED
    BY <1>5, <2>1, <2>2 DEF Alive
<1>8. p # NULL => p \in DOMAIN heap /\ heap[p].rc > 0
  BY <1>5, <1>6 DEF Alive, ToSet
<1>9. heap[c].kids = <<fct, p>>
  <2>1. PICK kids \in Seq(Nat) : kids = heap[c].kids
    BY <1>5 DEF Refs
  <2>2. Len(kids) = 2
    BY <1>4, <2>1
  <2>3. kids = <<kids[1], kids[2]>>
    BY <2>2
  <2>4. QED
    BY <2>1, <2>3, Zenon
<1>10. QED
  BY <1>1, <1>2, <1>5, <1>6, <1>7, <1>8, <1>9

LEMMA FinaliseInv ==
  ASSUME MemInv, Finalise
  PROVE  MemInv'
<1>1. PICK c : c = Top.cell
  OBVIOUS
<1>2. PICK fct, p : fct = heap[c].kids[1] /\ p = heap[c].kids[2]
  OBVIOUS
<1>3. PICK j, e, args :
        j = HeapApplied(fct, p) /\ e = Applying(fct, p) /\ args = Applied(fct, p)
  OBVIOUS
<1>4. /\ RoomToApply(fct, p) /\ leaked' = leaked
      /\ heap' = [j EXCEPT ![c].rc = 0, ![c].kids = <<>>]
      /\ stack' = <<e, Awaits1, Drop(fct), Drop(p), Free(c)>> \o Rest
  BY <1>1, <1>2, <1>3 DEF Finalise
<1>5. /\ c \in Nat \ {NULL} /\ c \in DOMAIN heap /\ heap[c].rc = 1 /\ heap[c].owns
      /\ heap[c].kids \in Refs /\ heap[c].kids = <<fct, p>>
      /\ fct \in DOMAIN heap /\ heap[fct].rc > 0 /\ heap[fct].tag = "CLOSURE"
      /\ p \in Nat /\ (p # NULL => p \in DOMAIN heap /\ heap[p].rc > 0)
      /\ fct \in Nat /\ Rest \in Stacks /\ leaked \in Refs
      /\ Inv(heap, Rest, Append(leaked, c))
  BY <1>1, <1>2, Finalised
<1>6. PICK l0 \in Refs : l0 = Append(leaked, c)
  BY <1>5, TimesAppend
<1>7. Inv(heap, Rest, l0)
  BY <1>5, <1>6
<1>8. PICK z, new :
        /\ z \in Nat /\ z \in new /\ Inv(j, Rest, Append(l0, z)) /\ Launch(j, e, z)
        /\ Grown(heap, j, args, new)
  BY <1>3, <1>4, <1>5, <1>7, ApplyInv
<1>9. /\ heap[heap[fct].kids[1]].kids \in Refs /\ args \in Refs
      /\ Kind(heap, heap[fct].kids[1], "ARGLIST")
  BY <1>3, <1>5, <1>7, ApplyFacts
<1>10. PICK al, old :
         /\ old \in Refs /\ al = heap[fct].kids[1] /\ old = heap[al].kids /\ Kind(heap, al, "ARGLIST")
         /\ args = Append(old, p)
  BY <1>3, <1>9 DEF Applied
<1>11. Times(c, args) = 0
  <2>1. ASSUME Held(heap, Rest, leaked, c) PROVE FALSE
    BY <1>5, <2>1, HeldTwice
  <2>2. c # p
    <3>1. <<c, 2>> \notin Writing(Rest)
      <4>1. heap[c].tag \notin {"ARRAY", "WORLD"}
        BY <1>1 DEF Finalise
      <4>2. QED
        BY <1>5, <1>7, <4>1, WrittenSlots DEF Inv
    <3>2. c = p => Held(heap, Rest, leaked, c)
      BY <1>5, <3>1 DEF Held
    <3>3. QED
      BY <2>1, <3>2
  <2>3. c \notin ToSet(old)
    <3>1. al \in DOMAIN heap /\ heap[al].tag = "ARGLIST" /\ CellOk(heap, al)
      BY <1>7, <1>10 DEF Kind, Inv, HeapOk
    <3>2. heap[al].owns
      BY <3>1 DEF CellOk
    <3>3. ASSUME NEW i \in DOMAIN old, old[i] = c PROVE FALSE
      <4>1. <<al, i>> \notin Writing(Rest)
        BY <1>7, <3>1, WrittenSlots DEF Inv
      <4>2. Held(heap, Rest, leaked, c)
        BY <1>10, <3>1, <3>2, <3>3, <4>1 DEF Held
      <4>3. QED
        BY <2>1, <4>2
    <3>4. QED
      BY <3>3 DEF ToSet
  <2>4. Times(c, old) = 0 /\ One(c, p) = 0
    BY <1>10, <2>2, <2>3, TimesNat DEF One
  <2>5. Times(c, Append(old, p)) = Times(c, old) + One(c, p)
    BY <1>5, <1>10, TimesAppend
  <2>6. QED
    BY <1>10, <2>4, <2>5
<1>12. /\ c \in DOMAIN j /\ c \notin new /\ j[c].rc = 1 /\ j[c].kids = heap[c].kids /\ j[c].owns
  <2>1. /\ c \in DOMAIN j /\ c \notin new /\ j[c].rc = heap[c].rc + Times(c, args)
        /\ j[c].kids = heap[c].kids /\ j[c].owns = heap[c].owns
    BY <1>5, <1>8 DEF Grown
  <2>2. QED
    BY <1>5, <1>11, <2>1
<1>13. PICK l1 \in Refs : l1 = Append(leaked, z)
  BY <1>5, <1>8, TimesAppend
<1>14. Inv(j, Rest, Append(l1, c))
  <2>1. PICK l2 \in Refs, l3 \in Refs : l2 = Append(l0, z) /\ l3 = Append(l1, c)
    BY <1>5, <1>8, TimesAppend
  <2>2. ASSUME NEW d \in Nat \ {NULL} PROVE Times(d, l3) = Times(d, l2)
    <3>1. Times(d, l0) = Times(d, leaked) + One(d, c) /\ Times(d, l1) = Times(d, leaked) + One(d, z)
      BY <1>5, <1>6, <1>8, <1>13, TimesAppend
    <3>2. Times(d, l2) = Times(d, l0) + One(d, z) /\ Times(d, l3) = Times(d, l1) + One(d, c)
      BY <1>5, <1>8, <2>1, TimesAppend
    <3>3. Times(d, leaked) \in Nat /\ One(d, z) \in Nat /\ One(d, c) \in Nat
      BY <1>5, TimesNat DEF One
    <3>4. QED
      BY <3>1, <3>2, <3>3
  <2>3. Inv(j, Rest, l2)
    BY <1>8, <2>1
  <2>4. QED
    BY <2>1, <2>2, <2>3, InvSame
<1>15. PICK m \in Refs : m = l1 \o heap[c].kids
  BY <1>5, TimesConcat
<1>16. Inv(heap', Rest, m) /\ Freed(heap', Rest, c)
  <2>1. PICK g : g = [j EXCEPT ![c].rc = 0, ![c].kids = <<>>]
    OBVIOUS
  <2>2. Inv(g, Rest, l1 \o j[c].kids) /\ Freed(g, Rest, c)
    BY <1>12, <1>14, <2>1, KillInv
  <2>3. QED
    BY <1>4, <1>12, <1>15, <2>1, <2>2, Zenon
<1>17. Launch(heap', e, z)
  <2>1. z # c
    BY <1>8, <1>12
  <2>2. ASSUME ArglistOk(j, z) PROVE ArglistOk(heap', z)
    <3>1. CASE z = NULL
      BY <3>1 DEF ArglistOk
    <3>2. CASE z \in DOMAIN j /\ j[z].tag = "ARGLIST"
      <4>1. DOMAIN heap' = DOMAIN j /\ heap'[z] = j[z]
        BY <1>4, <2>1, <3>2
      <4>2. QED
        BY <3>2, <4>1 DEF ArglistOk, Kind
    <3>3. QED
      BY <2>2, <3>1, <3>2 DEF ArglistOk, Kind
  <2>3. QED
    BY <1>8, <2>2 DEF Launch
<1>18. ASSUME NEW d \in Nat \ {NULL}
       PROVE  Times(d, m) = Times(d, leaked) + One(d, z) + (One(d, fct) + One(d, p))
  <2>1. Times(d, heap[c].kids) = One(d, fct) + One(d, p)
    BY <1>5, TimesTwo
  <2>2. Times(d, m) = Times(d, l1) + Times(d, heap[c].kids)
    BY <1>5, <1>15, TimesConcat
  <2>3. Times(d, l1) = Times(d, leaked) + One(d, z)
    BY <1>5, <1>8, <1>13, TimesAppend
  <2>4. QED
    BY <2>1, <2>2, <2>3
<1>19. Inv(heap', stack', leaked)
  BY <1>4, <1>5, <1>8, <1>16, <1>17, <1>18, FinaliserInv
<1>20. QED
  BY <1>4, <1>19 DEF MemInv

(* What is delivered where closure1 is awaited. *)
LEMMA Awaited ==
  ASSUME MemInv, Doing("deliver"), First(Rest) = Awaits1, Top.cell # NULL
  PROVE  /\ Top.cell \in Nat \ {NULL} /\ Top.cell \in DOMAIN heap /\ heap[Top.cell].rc > 0
         /\ Tail(Rest) \in Stacks /\ Rest = Push(Awaits1, Tail(Rest)) /\ leaked \in Refs
         /\ Inv(heap, Tail(Rest), Append(leaked, Top.cell))
<1>1. /\ Top.cell \in Nat /\ Rest \in Stacks /\ leaked \in Refs
      /\ Inv(heap, Rest, Append(leaked, Top.cell))
  BY Delivered
<1>2. Rest # <<>> /\ Rest[1] = Awaits1
  BY MakeEntries DEF First
<1>3. PICK u \in Stacks : u = Tail(Rest) /\ Rest = Push(Awaits1, u)
  BY <1>1, <1>2, TopAndRest
<1>4. PICK m \in Refs : m = Append(leaked, Top.cell)
  BY <1>1, TimesAppend
<1>5. Inv(heap, u, m)
  BY <1>1, <1>3, <1>4, PushAwaits
<1>6. PICK d \in Nat \ {NULL} : d = Top.cell
  BY <1>1
<1>7. d \in DOMAIN heap /\ heap[d].rc > 0
  BY <1>1, <1>4, <1>5, <1>6, LastHeld
<1>8. QED
  BY <1>1, <1>3, <1>4, <1>5, <1>6, <1>7

LEMMA ApplyClosure1Inv ==
  ASSUME MemInv, ApplyClosure1
  PROVE  MemInv'
<1>1. PICK d, u : d = Top.cell /\ u = Tail(Rest)
  OBVIOUS
<1>2. PICK e : e = Applying(d, NULL)
  OBVIOUS
<1>3. /\ Doing("deliver") /\ First(Rest) = Awaits1 /\ Top.cell # NULL
      /\ heap[d].tag = "CLOSURE" /\ RoomToApply(d, NULL) /\ leaked' = leaked
      /\ heap' = HeapApplied(d, NULL) /\ stack' = <<e, Forget, Drop(d)>> \o u
  BY <1>1, <1>2 DEF ApplyClosure1
<1>4. /\ d \in Nat \ {NULL} /\ d \in DOMAIN heap /\ heap[d].rc > 0
      /\ u \in Stacks /\ leaked \in Refs /\ Inv(heap, u, Append(leaked, d))
  BY <1>1, <1>3, Awaited
<1>5. PICK m \in Refs : m = Append(leaked, d)
  BY <1>4, TimesAppend
<1>6. PICK k, nobody : k = heap' /\ nobody = NULL /\ nobody \in Nat
  BY DEF NULL
<1>7. Inv(heap, u, m) /\ k = HeapApplied(d, nobody) /\ e = Applying(d, nobody)
      /\ RoomToApply(d, nobody)
  BY <1>2, <1>3, <1>4, <1>5, <1>6
<1>8. PICK z, new : z \in Nat /\ z \in new /\ Inv(k, u, Append(m, z)) /\ Launch(k, e, z)
  BY <1>3, <1>4, <1>6, <1>7, ApplyInv
<1>9. PICK l1 \in Refs : l1 = Append(leaked, z)
  BY <1>4, <1>8, TimesAppend
<1>10. Inv(k, u, Append(l1, d))
  <2>1. PICK l2 \in Refs, l3 \in Refs : l2 = Append(m, z) /\ l3 = Append(l1, d)
    BY <1>4, <1>8, TimesAppend
  <2>2. ASSUME NEW b \in Nat \ {NULL} PROVE Times(b, l3) = Times(b, l2)
    <3>1. Times(b, m) = Times(b, leaked) + One(b, d) /\ Times(b, l1) = Times(b, leaked) + One(b, z)
      BY <1>4, <1>5, <1>8, <1>9, TimesAppend
    <3>2. Times(b, l2) = Times(b, m) + One(b, z) /\ Times(b, l3) = Times(b, l1) + One(b, d)
      BY <1>4, <1>8, <2>1, TimesAppend
    <3>3. Times(b, leaked) \in Nat /\ One(b, z) \in Nat /\ One(b, d) \in Nat
      BY <1>4, TimesNat DEF One
    <3>4. QED
      BY <3>1, <3>2, <3>3
  <2>3. Inv(k, u, l2)
    BY <1>8, <2>1
  <2>4. QED
    BY <2>1, <2>2, <2>3, InvSame
<1>11. PICK t1 \in Stacks : t1 = Push(Drop(d), u)
  BY <1>4, PushDrop
<1>12. Inv(k, t1, l1)
  BY <1>4, <1>10, <1>11, PushDrop
<1>13. PICK t2 \in Stacks : t2 = Push(Forget, t1)
  BY PushForget
<1>14. Inv(k, t2, l1)
  BY <1>12, <1>13, PushForget
<1>15. Frame(t2)
  <2>1. Forget \in Entries /\ Forget.do = "forget"
    BY MakeEntries
  <2>2. t2 # <<>> /\ t2[1] = Forget
    BY <1>13, <2>1, PushFacts
  <2>3. QED
    BY <2>1, <2>2 DEF Frame, First
<1>16. Inv(k, Push(e, t2), leaked)
  BY <1>4, <1>8, <1>9, <1>14, <1>15, LaunchInv
<1>17. stack' = Push(e, t2)
  <2>1. PICK e1 \in Entries, e2 \in Entries, e3 \in Entries : e1 = e /\ e2 = Forget /\ e3 = Drop(d)
    BY <1>4, <1>8, LaunchEntry, MakeEntries
  <2>2. <<e1, e2, e3>> \o u = Push(e1, Push(e2, Push(e3, u)))
    BY <1>4, PushThree
  <2>3. QED
    BY <1>3, <1>11, <1>13, <2>1, <2>2, Zenon
<1>18. QED
  BY <1>3, <1>6, <1>16, <1>17 DEF MemInv

(* Up to the point where C promises nothing everything is as it was. *)
LEMMA NotClosure1Inv ==
  ASSUME MemInv, NotClosure1
  PROVE  MemInv'
<1>1. UNCHANGED <<heap, stack, leaked>>
  BY DEF NotClosure1
<1>2. QED
  BY <1>1 DEF MemInv

(* onCollectAny's finaliser leaves everything as it was, up to the point    *)
(* where C promises nothing.                                                *)
LEMMA FinaliseAnyInv ==
  ASSUME MemInv, FinaliseAny
  PROVE  MemInv'
<1>1. UNCHANGED <<heap, stack, leaked>>
  BY DEF FinaliseAny
<1>2. QED
  BY <1>1 DEF MemInv

-----------------------------------------------------------------------------
(* The invariant holds in every state. *)

LEMMA InitInv ==
  ASSUME Init
  PROVE  MemInv
<1>1. PICK kids \in Refs : kids = <<>> /\ DOMAIN kids = {}
  BY EmptyRefs
<1>2. PICK e \in Entries : e = Run("code", NULL, <<1>>) /\ e.do = "run" /\ e.arglist = NULL
  <2>1. NULL \in Nat /\ <<1>> \in Refs
    BY TimesOne DEF NULL
  <2>2. Run("code", NULL, <<1>>) \in Entries /\ Run("code", NULL, <<1>>).do = "run"
    BY <2>1, MakeEntries
  <2>3. QED
    BY <2>2 DEF Run
<1>3. DOMAIN heap = {1} /\ heap[1] = Value("WORLD", <<>>) /\ stack = <<e>> /\ leaked = <<>>
  BY <1>2 DEF Init
<1>4. /\ heap[1] \in CellValue /\ heap[1].rc = 1 /\ heap[1].tag = "WORLD" /\ heap[1].kids = kids
      /\ heap[1].owns = TRUE
  <2>1. Value("WORLD", kids) \in CellValue
    BY DEF Value, CellValue, Tags
  <2>2. /\ Value("WORLD", kids).rc = 1 /\ Value("WORLD", kids).tag = "WORLD"
        /\ Value("WORLD", kids).kids = kids /\ Value("WORLD", kids).owns = TRUE
    BY DEF Value
  <2>3. heap[1] = Value("WORLD", kids)
    BY <1>1, <1>3, Zenon
  <2>4. QED
    BY <2>1, <2>2, <2>3, Zenon
<1>5. HeapTypes(heap) /\ stack \in Stacks /\ leaked \in Refs
  <2>1. 1 \in Cells
    BY BoundsAssumption DEF Cells
  <2>2. QED
    BY <1>3, <1>4, <2>1, StackSingle, EmptyRefs DEF HeapTypes
<1>6. HeapOk(heap)
  BY <1>3, <1>4 DEF HeapOk, CellOk
<1>7. DOMAIN stack = {1} /\ stack[1] = e /\ Len(stack) = 1
  BY <1>3
<1>8. StackOk(heap, stack)
  <2>1. Below(stack, 1) = Forget
    BY <1>7 DEF Below
  <2>2. EntryOk(heap, e, Forget)
    BY <1>2, MakeEntries DEF EntryOk
  <2>3. QED
    BY <1>7, <2>1, <2>2 DEF StackOk
<1>9. Distinct(stack)
  BY <1>7 DEF Distinct
<1>10. ASSUME NEW c \in Nat \ {NULL} PROVE Count(heap, c) = Want(heap, stack, leaked, c)
  <2>1. InHeap(heap, Writing(stack), c) = 0
    <3> DEFINE f == HeapRows(heap, Writing(stack))
    <3>1. Rows(f)
      BY <1>5, HeapRowsRows
    <3>2. DOMAIN f = {1} /\ f[1] = SlotsOf(heap, Writing(stack), 1)
      BY <1>3 DEF HeapRows
    <3>3. ToSet(SlotsOf(heap, Writing(stack), 1)) = {}
      BY <1>1, <1>4 DEF SlotsOf, ToSet
    <3> HIDE DEF f
    <3>4. Holding(f, c) = 0
      BY <3>1, <3>2, <3>3, HoldingNat
    <3>5. QED
      BY <3>4 DEF f, InHeap
  <2>2. OnStack(stack, c) = One(c, 1)
    <3>1. Times(c, OwnedBy(Run("code", NULL, <<1>>))) = One(c, NULL) + Times(c, <<1>>)
      BY TimesOne, TimesOwnedBy DEF NULL
    <3>2. One(c, NULL) = 0 /\ Times(c, <<1>>) = One(c, 1) /\ One(c, 1) \in Nat
      BY TimesOne DEF One
    <3>3. OnStack(<<e>>, c) = Times(c, OwnedBy(e))
      BY StackSingle
    <3>4. QED
      BY <1>2, <1>3, <3>1, <3>2, <3>3
  <2>3. Times(c, leaked) = 0
    BY <1>3, TimesEmpty
  <2>4. Count(heap, c) = One(c, 1)
    BY <1>3, <1>4 DEF Count, One
  <2>5. One(c, 1) \in Nat
    BY DEF One
  <2>6. QED
    BY <2>1, <2>2, <2>3, <2>4, <2>5 DEF Want
<1>11. QED
  BY <1>5, <1>6, <1>8, <1>9, <1>10 DEF MemInv, Inv, Balanced

LEMMA NextInv ==
  ASSUME MemInv, [Next]_vars
  PROVE  MemInv'
<1>1. CASE newConstructor
  BY <1>1, newConstructorInv
<1>2. CASE UnderApplied
  BY <1>2, UnderAppliedInv
<1>3. CASE makePointer
  BY <1>3, makePointerInv
<1>4. CASE Alias
  BY <1>4, AliasInv
<1>5. CASE EndOfBlock
  BY <1>5, EndOfBlockInv
<1>6. CASE Call
  BY <1>6, CallActionInv
<1>7. CASE apply_closure
  BY <1>7, apply_closureInv
<1>8. CASE Return
  BY <1>8, ReturnActionInv
<1>9. CASE ReturnNull
  BY <1>9, ReturnNullInv
<1>10. CASE TailCall
  BY <1>10, TailCallInv
<1>11. CASE tailcall_apply_closure
  BY <1>11, tailcall_apply_closureInv
<1>12. CASE Bounce
  BY <1>12, BounceInv
<1>13. CASE Arrive
  BY <1>13, ArriveInv
<1>14. CASE RemoveReference
  BY <1>14, RemoveReferenceInv
<1>15. CASE RemoveNull
  BY <1>15, RemoveNullInv
<1>16. CASE RemoveLast
  BY <1>16, RemoveLastInv
<1>17. CASE FreeValue
  BY <1>17, FreeValueInv
<1>18. CASE Finalise
  BY <1>18, FinaliseInv
<1>19. CASE FinaliseAny
  BY <1>19, FinaliseAnyInv
<1>20. CASE newIORef
  BY <1>20, newIORefInv
<1>21. CASE newArray
  BY <1>21, newArrayInv
<1>22. CASE ReadSlot
  BY <1>22, ReadSlotInv
<1>23. CASE WriteSlot
  BY <1>23, WriteSlotInv
<1>24. CASE StoreNew
  BY <1>24, StoreNewInv
<1>25. CASE onCollect
  BY <1>25, onCollectInv
<1>26. CASE onCollectAny
  BY <1>26, onCollectAnyInv
<1>27. CASE stringIteratorNew
  BY <1>27, stringIteratorNewInv
<1>28. CASE stringIteratorNext
  BY <1>28, stringIteratorNextInv
<1>29. CASE stringIteratorToString
  BY <1>29, stringIteratorToStringInv
<1>30. CASE UNCHANGED vars
  BY <1>30 DEF MemInv, vars
<1>31. CASE makeWorld
  BY <1>31, makeWorldInv
<1>32. CASE ApplyClosure1
  BY <1>32, ApplyClosure1Inv
<1>33. CASE NotClosure1
  BY <1>33, NotClosure1Inv
<1>34. QED
  BY <1>1, <1>2, <1>3, <1>4, <1>5, <1>6, <1>7, <1>8, <1>9, <1>10, <1>11, <1>12, <1>13, <1>14,
     <1>15, <1>16, <1>17, <1>18, <1>19, <1>20, <1>21, <1>22, <1>23, <1>24, <1>25, <1>26, <1>27,
     <1>28, <1>29, <1>30, <1>31, <1>32, <1>33, Zenon DEF Next

(* The heap and the stack have their shape, and the references that values, *)
(* the stack and forgotten C variables own balance the counts, in every     *)
(* state of every program (memoryManagement.c, runtime.c, prim.c and the    *)
(* code RefC.idr generates).                                                *)
THEOREM MemoryInvariant == Spec => []MemInv
<1>1. Init => MemInv
  BY InitInv
<1>2. MemInv /\ [Next]_vars => MemInv'
  BY NextInv
<1>3. QED
  BY <1>1, <1>2, PTL DEF Spec

-----------------------------------------------------------------------------
(* What the invariant says of the properties. *)

LEMMA OwnersWant ==
  ASSUME NEW c
  PROVE  Owners(c) = Want(heap, stack, leaked, c)
<1>1. \A d : OwnedSlots(d) = SlotsOf(heap, Writing(stack), d)
  BY WritingSlots DEF OwnedSlots, SlotsOf
<1>2. [d \in DOMAIN heap |-> OwnedSlots(d)] = HeapRows(heap, Writing(stack))
  BY <1>1 DEF HeapRows
<1>3. QED
  BY <1>2 DEF Owners, Want, InHeap, OnStack, StackRows

LEMMA OwnedHeld ==
  ASSUME MemInv, NEW c \in Owned
  PROVE  c \in Nat \ {NULL} /\ Held(heap, stack, leaked, c)
<1>1. HeapTypes(heap) /\ stack \in Stacks /\ leaked \in Refs
  BY DEF MemInv, Inv
<1>2. c # NULL
  BY DEF Owned
<1>3. CASE c \in ToSet(leaked)
  <2>1. c \in Nat
    BY <1>1, <1>3, SeqFacts DEF ToSet
  <2>2. QED
    BY <1>2, <1>3, <2>1 DEF Held
<1>4. ASSUME NEW k \in DOMAIN stack, c \in ToSet(OwnedBy(stack[k]))
      PROVE  c \in Nat /\ Held(heap, stack, leaked, c)
  <2>1. PICK s \in Refs : s = OwnedBy(stack[k])
    BY <1>1, StackRowsRows, OwnedByRefs
  <2>2. c \in Nat
    BY <1>4, <2>1, SeqFacts DEF ToSet
  <2>3. QED
    BY <1>4, <2>2 DEF Held
<1>5. ASSUME NEW d \in DOMAIN heap, c \in ToSet(OwnedSlots(d))
      PROVE  c \in Nat /\ Held(heap, stack, leaked, c)
  <2>1. PICK i \in DOMAIN heap[d].kids : OwnedSlots(d)[i] = c
    BY <1>5 DEF OwnedSlots, ToSet
  <2>2. heap[d].owns /\ <<d, i>> \notin Writing(stack) /\ heap[d].kids[i] = c
    BY <1>2, <2>1, WritingSlots DEF OwnedSlots
  <2>3. c \in Nat
    BY <1>1, <2>2, CellFacts
  <2>4. QED
    BY <2>2, <2>3 DEF Held
<1>6. QED
  BY <1>2, <1>3, <1>4, <1>5 DEF Owned

(* CountsExact for every number of cells and statements: whatever the       *)
(* generated code does, newReference and removeReference keep the count of  *)
(* a value equal to the number of its owners, and nothing that is owned was *)
(* freed.                                                                   *)
THEOREM ReferenceCounts == Spec => []CountsExact
<1>1. MemInv => CountsExact
  <2> SUFFICES ASSUME MemInv PROVE CountsExact
    OBVIOUS
  <2>1. Owned \subseteq DOMAIN heap
    BY OwnedHeld, HeldAlive DEF MemInv
  <2>2. ASSUME NEW c \in DOMAIN heap PROVE heap[c].rc = Owners(c)
    <3>1. c \in Nat \ {NULL}
      BY CellFacts DEF MemInv, Inv
    <3>2. Count(heap, c) = Want(heap, stack, leaked, c)
      BY <3>1 DEF MemInv, Inv, Balanced
    <3>3. QED
      BY <3>2, OwnersWant DEF Count
  <2>3. QED
    BY <2>1, <2>2 DEF CountsExact
<1>2. QED
  BY <1>1, MemoryInvariant, PTL

(* NamesAlive for every number of cells and statements: the arguments and   *)
(* fields that a running or waiting function borrows are alive although it  *)
(* owns none of them, so generated code never reads a value that is gone.   *)
THEOREM BorrowedValues == Spec => []NamesAlive
<1>1. MemInv => NamesAlive
  <2> SUFFICES ASSUME MemInv, NEW k \in DOMAIN stack, stack[k].do = "run",
                      NEW c \in NamedBy(stack[k])
               PROVE  Live(c) /\ heap[c].rc > 0
    BY DEF NamesAlive
  <2>1. c \in NamedIn(heap, stack[k])
    BY NamedByIn
  <2>2. c \in Nat \ {NULL} /\ Held(heap, stack, <<>>, c)
    BY <2>1, NamesHeld DEF MemInv
  <2>3. c \in Values
    BY <2>2, HeldValue
  <2>4. QED
    BY <2>3 DEF Values, Live
<1>2. QED
  BY <1>1, MemoryInvariant, PTL

-----------------------------------------------------------------------------
(* Induction and recursion over the numbers up to a bound. *)

LEMMA Induction ==
  ASSUME NEW S, NEW m \in Nat, 0 \in S, \A n \in 0 .. m - 1 : n \in S => n + 1 \in S
  PROVE  \A n \in 0 .. m : n \in S
<1> DEFINE B == {n \in 0 .. m : n \notin S}
<1>1. SUFFICES ASSUME B # {} PROVE FALSE
  OBVIOUS
<1>2. B \in SUBSET Nat
  OBVIOUS
<1>3. PICK x \in B : \A y \in B : x <= y
  BY <1>1, <1>2, LeastNumber
<1>4. x \in 1 .. m
  BY <1>3
<1>5. x - 1 \in 0 .. m - 1 /\ x - 1 \notin B /\ (x - 1) + 1 = x
  BY <1>3, <1>4
<1>6. x - 1 \in S
  BY <1>5
<1>7. x \in S
  BY <1>5, <1>6
<1>8. QED
  BY <1>3, <1>7

(* f is what step does to a, m times. *)
Rounds(f, Dom, a, step, m) ==
  f \in [0 .. m -> Dom] /\ f[0] = a /\ \A n \in 1 .. m : f[n] = step[f[n - 1]]

LEMMA RoundsExist ==
  ASSUME NEW Dom, NEW a, NEW step, a \in Dom, step \in [Dom -> Dom], NEW m \in Nat
  PROVE  \E f : Rounds(f, Dom, a, step, m)
<1> DEFINE Ok(n) == \E f \in [0 .. n -> Dom] : f[0] = a /\ \A i \in 1 .. n : f[i] = step[f[i - 1]]
           S == {n \in Nat : Ok(n)}
<1>1. 0 \in S
  <2>1. PICK f : f = [i \in 0 .. 0 |-> a]
    OBVIOUS
  <2>2. f \in [0 .. 0 -> Dom] /\ f[0] = a /\ 1 .. 0 = {}
    BY <2>1
  <2>3. Ok(0)
    BY <2>2
  <2>4. QED
    BY <2>3
<1>2. ASSUME NEW n \in Nat, n \in S PROVE n + 1 \in S
  <2>1. PICK f \in [0 .. n -> Dom] : f[0] = a /\ \A i \in 1 .. n : f[i] = step[f[i - 1]]
    BY <1>2
  <2>2. PICK g : g = [i \in 0 .. n + 1 |-> IF i \in 0 .. n THEN f[i] ELSE step[f[n]]]
    OBVIOUS
  <2>3. \A i \in 0 .. n : g[i] = f[i]
    BY <2>2
  <2>4. g[n + 1] = step[f[n]] /\ f[n] \in Dom /\ step[f[n]] \in Dom
    BY <2>1, <2>2
  <2>5. g \in [0 .. n + 1 -> Dom]
    BY <2>1, <2>2, <2>4
  <2>6. ASSUME NEW i \in 1 .. n + 1 PROVE g[i] = step[g[i - 1]]
    <3>1. CASE i = n + 1
      BY <2>3, <2>4, <3>1
    <3>2. CASE i \in 1 .. n
      BY <2>1, <2>3, <3>2
    <3>3. QED
      BY <3>1, <3>2
  <2>7. g[0] = a
    BY <2>1, <2>3
  <2>8. QED
    BY <2>5, <2>6, <2>7
<1>3. \A n \in 0 .. m : n \in S
  <2> HIDE DEF S
  <2> QED BY <1>1, <1>2, Induction
<1>4. QED
  BY <1>3 DEF Rounds
-----------------------------------------------------------------------------
(* What can be reached. *)

(* One more round along the values that values hold. *)
Further(S) == S \union UNION {ToSet(heap[c].kids) \ {NULL} : c \in S \intersect DOMAIN heap}

(* S holds what its values hold, as far as that is alive. *)
Closed(S) ==
  \A c \in S \intersect DOMAIN heap : ToSet(heap[c].kids) \intersect DOMAIN heap \subseteq S

LEMMA FurtherFacts ==
  ASSUME HeapTypes(heap), NEW S \in SUBSET Nat
  PROVE  /\ Further(S) \in SUBSET Nat /\ S \subseteq Further(S)
         /\ \A c \in S \intersect DOMAIN heap :
              ToSet(heap[c].kids) \intersect DOMAIN heap \subseteq Further(S)
         /\ \A X : Closed(X) /\ S \intersect DOMAIN heap \subseteq X =>
              Further(S) \intersect DOMAIN heap \subseteq X
<1>1. \A c \in DOMAIN heap : c \in Nat /\ c # NULL /\ ToSet(heap[c].kids) \in SUBSET Nat
  BY CellFacts DEF ToSet
<1>2. Further(S) \in SUBSET Nat /\ S \subseteq Further(S)
  BY <1>1 DEF Further
<1>3. \A c \in S \intersect DOMAIN heap :
        ToSet(heap[c].kids) \intersect DOMAIN heap \subseteq Further(S)
  BY <1>1 DEF Further
<1>4. \A X : Closed(X) /\ S \intersect DOMAIN heap \subseteq X =>
               Further(S) \intersect DOMAIN heap \subseteq X
  BY DEF Further, Closed
<1>5. QED
  BY <1>2, <1>3, <1>4

(* The rounds Reach makes. *)
LEMMA ReachRounds ==
  ASSUME HeapTypes(heap), NEW from \in SUBSET Nat
  PROVE  \E f \in [0 .. MaxCells -> SUBSET Nat] :
           /\ f[0] = from /\ \A n \in 1 .. MaxCells : f[n] = Further(f[n - 1])
           /\ Reach(from) = f[MaxCells]
<1>1. MaxCells \in Nat
  BY BoundsAssumption
<1>2. PICK step : step = [S \in SUBSET Nat |-> Further(S)]
  OBVIOUS
<1>3. step \in [SUBSET Nat -> SUBSET Nat]
  BY <1>2, FurtherFacts
<1>4. PICK f \in [0 .. MaxCells -> SUBSET Nat] :
        f[0] = from /\ \A n \in 1 .. MaxCells : f[n] = step[f[n - 1]]
  <2>1. PICK f : Rounds(f, SUBSET Nat, from, step, MaxCells)
    BY <1>1, <1>3, RoundsExist
  <2>2. QED
    BY <2>1 DEF Rounds
<1>5. \A n \in 1 .. MaxCells : f[n - 1] \in SUBSET Nat /\ f[n] = Further(f[n - 1])
  BY <1>1, <1>2, <1>4
<1>6. f = [n \in 0 .. MaxCells |-> IF n = 0 THEN from ELSE Further(f[n - 1])]
  BY <1>1, <1>4, <1>5
<1> DEFINE upTo[n \in 0 .. MaxCells] == IF n = 0 THEN from ELSE Further(upTo[n - 1])
<1>7. upTo = [n \in 0 .. MaxCells |-> IF n = 0 THEN from ELSE Further(upTo[n - 1])]
  <2> HIDE DEF Further
  <2> QED BY <1>6, Zenon
<1>8. Reach(from) = upTo[MaxCells]
  BY DEF Reach, Further
<1> HIDE DEF upTo
<1>9. upTo[0] = from
  BY <1>1, <1>7
<1>10. \A n \in 1 .. MaxCells : upTo[n] = Further(upTo[n - 1])
  BY <1>1, <1>7
<1>11. \A n \in 0 .. MaxCells : upTo[n] \in SUBSET Nat
  <2> DEFINE S == {n \in 0 .. MaxCells : upTo[n] \in SUBSET Nat}
  <2>1. 0 \in S
    BY <1>1, <1>9
  <2>2. ASSUME NEW n \in 0 .. MaxCells - 1, n \in S PROVE n + 1 \in S
    <3>1. n + 1 \in 1 .. MaxCells /\ (n + 1) - 1 = n /\ n + 1 \in 0 .. MaxCells
      BY <1>1
    <3>2. upTo[n + 1] = Further(upTo[n])
      BY <1>10, <3>1
    <3>3. QED
      BY <2>2, <3>1, <3>2, FurtherFacts
  <2>3. \A n \in 0 .. MaxCells : n \in S
    <3> HIDE DEF S
    <3> QED BY <1>1, <2>1, <2>2, Induction
  <2>4. QED
    BY <2>3
<1>12. PICK g : g = upTo
  OBVIOUS
<1>13. g \in [0 .. MaxCells -> SUBSET Nat]
  <2>1. g = [n \in 0 .. MaxCells |-> g[n]]
    BY <1>7, <1>12
  <2>2. QED
    BY <1>11, <1>12, <2>1
<1>14. g[0] = from /\ (\A n \in 1 .. MaxCells : g[n] = Further(g[n - 1]))
       /\ Reach(from) = g[MaxCells]
  BY <1>8, <1>9, <1>10, <1>12
<1>15. QED
  BY <1>13, <1>14

(* Reach(from) is the least set that contains from and is closed. *)
LEMMA ReachFacts ==
  ASSUME HeapTypes(heap), NEW from \in SUBSET Nat
  PROVE  /\ from \subseteq Reach(from) /\ Closed(Reach(from))
         /\ \A X : Closed(X) /\ from \intersect DOMAIN heap \subseteq X =>
              Reach(from) \intersect DOMAIN heap \subseteq X
<1>1. PICK f \in [0 .. MaxCells -> SUBSET Nat] :
        /\ f[0] = from /\ \A n \in 1 .. MaxCells : f[n] = Further(f[n - 1])
        /\ Reach(from) = f[MaxCells]
  BY ReachRounds
<1>2. MaxCells \in Nat /\ MaxCells \in 0 .. MaxCells
  BY BoundsAssumption
<1>3. \A n \in 0 .. MaxCells - 1 :
        /\ n \in 0 .. MaxCells /\ n + 1 \in 0 .. MaxCells /\ f[n + 1] = Further(f[n])
        /\ f[n] \in SUBSET Nat
  <2> SUFFICES ASSUME NEW n \in 0 .. MaxCells - 1
               PROVE  /\ n \in 0 .. MaxCells /\ n + 1 \in 0 .. MaxCells
                      /\ f[n + 1] = Further(f[n]) /\ f[n] \in SUBSET Nat
    OBVIOUS
  <2>1. n \in 0 .. MaxCells /\ n + 1 \in 1 .. MaxCells /\ (n + 1) - 1 = n
    BY <1>2
  <2>2. f[n + 1] = Further(f[n])
    BY <1>1, <2>1
  <2>3. QED
    BY <2>1, <2>2
<1>4. from \subseteq Reach(from)
  <2> DEFINE S == {n \in 0 .. MaxCells : from \subseteq f[n]}
  <2>1. 0 \in S
    BY <1>1, <1>2
  <2>2. ASSUME NEW n \in 0 .. MaxCells - 1, n \in S PROVE n + 1 \in S
    <3>1. f[n] \subseteq f[n + 1]
      BY <1>3, FurtherFacts
    <3>2. QED
      BY <1>3, <2>2, <3>1
  <2>3. \A n \in 0 .. MaxCells : n \in S
    <3> HIDE DEF S
    <3> QED BY <1>2, <2>1, <2>2, Induction
  <2>4. QED
    BY <1>1, <1>2, <2>3
<1>5. ASSUME NEW X, Closed(X), from \intersect DOMAIN heap \subseteq X
      PROVE  Reach(from) \intersect DOMAIN heap \subseteq X
  <2> DEFINE S == {n \in 0 .. MaxCells : f[n] \intersect DOMAIN heap \subseteq X}
  <2>1. 0 \in S
    BY <1>1, <1>2, <1>5
  <2>2. ASSUME NEW n \in 0 .. MaxCells - 1, n \in S PROVE n + 1 \in S
    <3>1. f[n + 1] \intersect DOMAIN heap \subseteq X
      BY <1>3, <1>5, <2>2, FurtherFacts
    <3>2. QED
      BY <1>3, <3>1
  <2>3. \A n \in 0 .. MaxCells : n \in S
    <3> HIDE DEF S
    <3> QED BY <1>2, <2>1, <2>2, Induction
  <2>4. QED
    BY <1>1, <1>2, <2>3
<1>6. IsFiniteSet(DOMAIN heap) /\ Cardinality(DOMAIN heap) <= MaxCells
      /\ Cardinality(DOMAIN heap) \in Nat
  <2>1. IsFiniteSet(Cells) /\ Cardinality(Cells) = MaxCells
    BY <1>2, FS_Interval DEF Cells
  <2>2. DOMAIN heap \in SUBSET Cells
    BY DEF HeapTypes
  <2>3. QED
    BY <2>1, <2>2, FS_Subset, FS_CardinalityType
<1>7. Closed(Reach(from))
  <2> DEFINE Alives(n) == f[n] \intersect DOMAIN heap
             S == {n \in 0 .. MaxCells : Closed(f[n]) \/ Cardinality(Alives(n)) >= n}
  <2>1. \A n : IsFiniteSet(Alives(n)) /\ Cardinality(Alives(n)) \in Nat
    <3>1. \A n : Alives(n) \in SUBSET DOMAIN heap
      OBVIOUS
    <3>2. QED
      BY <1>6, <3>1, FS_Subset, FS_CardinalityType
  <2>2. 0 \in S
    <3>1. Cardinality(Alives(0)) >= 0
      <4> HIDE DEF Alives
      <4> QED BY <2>1
    <3>2. QED
      BY <1>2, <3>1
  <2>3. ASSUME NEW n \in 0 .. MaxCells - 1, n \in S PROVE n + 1 \in S
    <3>1. /\ n + 1 \in 0 .. MaxCells /\ f[n] \subseteq f[n + 1] /\ n \in Nat
          /\ \A c \in f[n] \intersect DOMAIN heap :
               ToSet(heap[c].kids) \intersect DOMAIN heap \subseteq f[n + 1]
      BY <1>2, <1>3, FurtherFacts
    <3>2. CASE Alives(n) = Alives(n + 1)
      <4>1. Closed(f[n + 1])
        BY <3>1, <3>2 DEF Closed
      <4>2. QED
        BY <3>1, <4>1
    <3>3. CASE Alives(n) # Alives(n + 1)
      <4>1. ~Closed(f[n])
        <5>1. ASSUME Closed(f[n]) PROVE f[n + 1] \intersect DOMAIN heap \subseteq f[n]
          BY <1>3, <5>1, FurtherFacts
        <5>2. QED
          BY <3>1, <3>3, <5>1
      <4>2. Cardinality(Alives(n)) >= n
        BY <2>3, <4>1
      <4>3. Alives(n) \in SUBSET Alives(n + 1)
        BY <3>1
      <4>4. Cardinality(Alives(n)) < Cardinality(Alives(n + 1))
        <5> HIDE DEF Alives
        <5> QED BY <2>1, <3>3, <4>3, FS_Subset
      <4>5. Cardinality(Alives(n + 1)) >= n + 1
        <5>1. PICK a \in Nat, b \in Nat :
                a = Cardinality(Alives(n)) /\ b = Cardinality(Alives(n + 1))
          BY <2>1
        <5>2. a >= n /\ a < b
          <6> HIDE DEF Alives
          <6> QED BY <4>2, <4>4, <5>1
        <5>3. b >= n + 1
          BY <3>1, <5>2
        <5>4. QED
          BY <5>1, <5>3
      <4>6. QED
        BY <3>1, <4>5
    <3>4. QED
      BY <3>2, <3>3
  <2>4. \A n \in 0 .. MaxCells : n \in S
    <3> HIDE DEF S
    <3> QED BY <1>2, <2>2, <2>3, Induction
  <2>5. Closed(f[MaxCells]) \/ Cardinality(Alives(MaxCells)) >= MaxCells
    BY <1>2, <2>4
  <2>6. ASSUME Cardinality(Alives(MaxCells)) >= MaxCells PROVE Closed(f[MaxCells])
    <3>1. Alives(MaxCells) \in SUBSET DOMAIN heap
      OBVIOUS
    <3>2. Alives(MaxCells) = DOMAIN heap
      <4>1. PICK A : A = Alives(MaxCells)
        OBVIOUS
      <4>2. A \in SUBSET DOMAIN heap
        BY <4>1
      <4>3. Cardinality(A) <= Cardinality(DOMAIN heap)
            /\ (Cardinality(DOMAIN heap) = Cardinality(A) => DOMAIN heap = A)
        BY <1>6, <4>2, FS_Subset
      <4>4. Cardinality(A) \in Nat /\ Cardinality(A) >= MaxCells
        BY <2>1, <2>6, <4>1
      <4>5. Cardinality(A) = Cardinality(DOMAIN heap)
        BY <1>2, <1>6, <4>3, <4>4
      <4>6. QED
        BY <4>1, <4>3, <4>5
    <3>3. QED
      BY <3>2 DEF Closed
  <2>7. QED
    BY <1>1, <2>5, <2>6
<1>8. QED
  BY <1>4, <1>5, <1>7
-----------------------------------------------------------------------------
(* What a value holds for good: an array and the world are written to, the  *)
(* other values keep what they were made of. *)
Fixed(h, p) ==
  IF h[p].owns /\ h[p].tag \notin {"ARRAY", "WORLD"} THEN ToSet(h[p].kids) ELSE {}

(* Among the values of N one is held for good by none of them: there is no  *)
(* cycle. *)
Acyclic(h, N) == \A S \in SUBSET N : S # {} => \E m \in S : \A p \in S : m \notin Fixed(h, p)

(* The values that are being freed. *)
Freeing(s) == {s[k].cell : k \in {j \in DOMAIN s : s[j].do = "free"}}

(* Only the values in z have lost their last reference, and there are       *)
(* no cycles but those that were written. *)
Tidy(h, z) ==
  /\ Acyclic(h, DOMAIN h)
  /\ \A p \in DOMAIN h : Fixed(h, p) \subseteq DOMAIN h \union {NULL}
  /\ \A c \in DOMAIN h : h[c].rc = 0 => c \in z

TidyInv == Tidy(heap, Freeing(stack))

(* The same values, that hold no more for good. *)
LEMMA SameTidy ==
  ASSUME NEW h, NEW z, Tidy(h, z), NEW k, DOMAIN k = DOMAIN h, NEW y,
         \A c \in DOMAIN h : Fixed(k, c) \subseteq Fixed(h, c),
         \A c \in DOMAIN h : k[c].rc = 0 => h[c].rc = 0 \/ c \in y,
         z \subseteq y
  PROVE  Tidy(k, y)
<1>1. Acyclic(k, DOMAIN k)
  <2> SUFFICES ASSUME NEW S \in SUBSET DOMAIN k, S # {}
               PROVE  \E m \in S : \A p \in S : m \notin Fixed(k, p)
    BY DEF Acyclic
  <2>1. PICK m \in S : \A p \in S : m \notin Fixed(h, p)
    BY DEF Tidy, Acyclic
  <2>2. \A p \in S : m \notin Fixed(k, p)
    BY <2>1
  <2>3. QED
    BY <2>2
<1>2. \A p \in DOMAIN k : Fixed(k, p) \subseteq DOMAIN k \union {NULL}
  <2> SUFFICES ASSUME NEW p \in DOMAIN k PROVE Fixed(k, p) \subseteq DOMAIN k \union {NULL}
    OBVIOUS
  <2>1. Fixed(h, p) \subseteq DOMAIN h \union {NULL}
    BY DEF Tidy
  <2>2. Fixed(k, p) \subseteq Fixed(h, p)
    OBVIOUS
  <2>3. QED
    BY <2>1, <2>2
<1>3. \A c \in DOMAIN k : k[c].rc = 0 => c \in y
  BY DEF Tidy
<1>4. QED
  BY <1>1, <1>2, <1>3 DEF Tidy

(* A new value, made of what was there. *)
LEMMA MoreTidy ==
  ASSUME NEW h, NEW z, Tidy(h, z), NEW x, x \notin DOMAIN h, x # NULL, NEW k,
         DOMAIN k = DOMAIN h \union {x}, \A c \in DOMAIN h : k[c] = h[c],
         k[x].rc # 0, Fixed(k, x) \subseteq DOMAIN h \union {NULL}
  PROVE  Tidy(k, z)
<1>1. \A p \in DOMAIN h : Fixed(k, p) = Fixed(h, p)
  BY DEF Fixed
<1>2. \A p \in DOMAIN h : Fixed(h, p) \subseteq DOMAIN h \union {NULL}
  BY DEF Tidy
<1>3. \A p \in DOMAIN k : Fixed(k, p) \subseteq DOMAIN h \union {NULL}
  <2> SUFFICES ASSUME NEW p \in DOMAIN k PROVE Fixed(k, p) \subseteq DOMAIN h \union {NULL}
    OBVIOUS
  <2>1. CASE p = x
    BY <2>1
  <2>2. CASE p \in DOMAIN h
    BY <1>1, <1>2, <2>2
  <2>3. QED
    BY <2>1, <2>2
<1>4. Acyclic(k, DOMAIN k)
  <2> SUFFICES ASSUME NEW S \in SUBSET DOMAIN k, S # {}
               PROVE  \E m \in S : \A p \in S : m \notin Fixed(k, p)
    BY DEF Acyclic
  <2>1. CASE x \in S
    <3>1. \A p \in S : x \notin Fixed(k, p)
      BY <1>3
    <3>2. QED
      BY <2>1, <3>1
  <2>2. CASE x \notin S
    <3>1. S \in SUBSET DOMAIN h
      BY <2>2
    <3>2. PICK m \in S : \A p \in S : m \notin Fixed(h, p)
      BY <3>1 DEF Tidy, Acyclic
    <3>3. \A p \in S : m \notin Fixed(k, p)
      BY <1>1, <3>1, <3>2
    <3>4. QED
      BY <3>3
  <2>3. QED
    BY <2>1, <2>2
<1>5. \A c \in DOMAIN k : k[c].rc = 0 => c \in z
  BY DEF Tidy
<1>6. QED
  BY <1>3, <1>4, <1>5 DEF Tidy

(* A value that is gone. *)
LEMMA EraseTidy ==
  ASSUME NEW h, NEW z, Tidy(h, z), NEW x, NEW k, DOMAIN k = DOMAIN h \ {x},
         \A c \in DOMAIN k : k[c] = h[c],
         \A p \in DOMAIN k : Fixed(k, p) \subseteq DOMAIN k \union {NULL}
  PROVE  Tidy(k, z \ {x})
<1>1. Acyclic(k, DOMAIN k)
  <2> SUFFICES ASSUME NEW S \in SUBSET DOMAIN k, S # {}
               PROVE  \E m \in S : \A p \in S : m \notin Fixed(k, p)
    BY DEF Acyclic
  <2>1. S \in SUBSET DOMAIN h
    OBVIOUS
  <2>2. PICK m \in S : \A p \in S : m \notin Fixed(h, p)
    BY <2>1 DEF Tidy, Acyclic
  <2>3. \A p \in S : Fixed(k, p) = Fixed(h, p)
    BY DEF Fixed
  <2>4. QED
    BY <2>2, <2>3
<1>2. \A c \in DOMAIN k : k[c].rc = 0 => c \in z \ {x}
  BY DEF Tidy
<1>3. QED
  BY <1>1, <1>2 DEF Tidy

LEMMA TakeTidy ==
  ASSUME NEW h, HeapTypes(h), NEW z, Tidy(h, z), NEW cells \in Refs,
         NEW k, k = newReference(h, cells)
  PROVE  HeapTypes(k) /\ DOMAIN k = DOMAIN h /\ Tidy(k, z)
<1>1. HeapTypes(k) /\ DOMAIN k = DOMAIN h
  BY TakeFacts
<1>2. \A c \in DOMAIN h :
        k[c].tag = h[c].tag /\ k[c].kids = h[c].kids /\ k[c].owns = h[c].owns
        /\ k[c].rc = h[c].rc + Times(c, cells)
  BY TakeFacts
<1>3. \A c \in DOMAIN h : Fixed(k, c) \subseteq Fixed(h, c)
  BY <1>2 DEF Fixed
<1>4. \A c \in DOMAIN h : k[c].rc = 0 => h[c].rc = 0 \/ c \in z
  <2>1. \A c \in DOMAIN h : h[c].rc \in Nat /\ Times(c, cells) \in Nat
    BY CellFacts, TimesNat
  <2>2. QED
    BY <1>2, <2>1
<1>5. QED
  BY <1>1, <1>3, <1>4, SameTidy

LEMMA AllocTidy ==
  ASSUME NEW h, HeapTypes(h), NEW z, Tidy(h, z), NEW x \in Cells \ DOMAIN h,
         NEW v \in CellValue, v.rc = 1,
         v.owns => ToSet(v.kids) \subseteq DOMAIN h \union {NULL},
         NEW k, k = Alloc(h, x, v)
  PROVE  HeapTypes(k) /\ DOMAIN k = DOMAIN h \union {x} /\ Tidy(k, z)
<1>1. /\ HeapTypes(k) /\ DOMAIN k = DOMAIN h \union {x} /\ k[x] = v
      /\ \A c \in DOMAIN h : k[c] = h[c] /\ c # x
  BY AllocFacts
<1>2. x # NULL
  BY OneFacts
<1>3. k[x].rc # 0 /\ Fixed(k, x) \subseteq DOMAIN h \union {NULL}
  BY <1>1 DEF Fixed
<1>4. Tidy(k, z)
  BY <1>1, <1>2, <1>3, MoreTidy
<1>5. QED
  BY <1>1, <1>4

(* A new arglist, and a new value of another kind. *)
LEMMA ArglistTidy ==
  ASSUME NEW h, HeapTypes(h), NEW z, Tidy(h, z), NEW x \in Cells \ DOMAIN h,
         NEW args \in Refs, ToSet(args) \subseteq DOMAIN h \union {NULL}, NEW total \in Nat,
         NEW k, k = Alloc(newReference(h, args), x, Arglist(args, total))
  PROVE  HeapTypes(k) /\ DOMAIN k = DOMAIN h \union {x} /\ Tidy(k, z)
<1>1. PICK g : g = newReference(h, args)
  OBVIOUS
<1>2. HeapTypes(g) /\ DOMAIN g = DOMAIN h /\ Tidy(g, z)
  BY <1>1, TakeTidy
<1>3. PICK v : v = Arglist(args, total)
  OBVIOUS
<1>4. v \in CellValue /\ v.rc = 1 /\ v.kids = args
  BY <1>3, ArglistFacts
<1>5. k = Alloc(g, x, v) /\ x \in Cells \ DOMAIN g
  BY <1>1, <1>2, <1>3
<1>6. HeapTypes(k) /\ DOMAIN k = DOMAIN g \union {x} /\ Tidy(k, z)
  BY <1>2, <1>4, <1>5, AllocTidy
<1>7. QED
  BY <1>2, <1>6

LEMMA ValueTidy ==
  ASSUME NEW h, HeapTypes(h), NEW z, Tidy(h, z), NEW x \in Cells \ DOMAIN h,
         NEW tag \in Tags, NEW kids \in Refs, ToSet(kids) \subseteq DOMAIN h \union {NULL},
         NEW k, k = Alloc(h, x, Value(tag, kids))
  PROVE  HeapTypes(k) /\ DOMAIN k = DOMAIN h \union {x} /\ Tidy(k, z)
<1>1. PICK v : v = Value(tag, kids)
  OBVIOUS
<1>2. v \in CellValue /\ v.rc = 1 /\ v.kids = kids
  BY <1>1 DEF Value, CellValue
<1>3. QED
  BY <1>1, <1>2, AllocTidy

LEMMA ClosureTypes ==
  ASSUME HeapTypes(heap), NEW args \in Refs,
         NEW x \in Cells \ DOMAIN heap, NEW y \in Cells \ DOMAIN heap,
         x = Fresh(1), y = Fresh(2), x # y,
         NEW f \in {"code", "freeIterator"}, NEW total \in Nat,
         NEW k, k = makeClosureFromArglist(f, args, total)
  PROVE  HeapTypes(k) /\ DOMAIN k = DOMAIN heap \union {x, y}
<1>1. PICK h : h = newReference(heap, args)
  OBVIOUS
<1>2. HeapTypes(h) /\ DOMAIN h = DOMAIN heap
  BY <1>1, TakeFacts
<1>3. PICK a : a = Arglist(args, total)
  OBVIOUS
<1>4. a \in CellValue
  BY <1>3, ArglistFacts
<1>5. PICK g : g = Alloc(h, x, a)
  OBVIOUS
<1>6. HeapTypes(g) /\ DOMAIN g = DOMAIN heap \union {x}
  <2>1. x \in Cells \ DOMAIN h
    BY <1>2
  <2>2. HeapTypes(g)
    BY <1>2, <1>4, <1>5, <2>1, AllocFacts
  <2>3. DOMAIN g = DOMAIN h \union {x}
    BY <1>5 DEF Alloc
  <2>4. QED
    BY <1>2, <2>2, <2>3
<1>7. x \in Nat /\ y \in Cells \ DOMAIN g
  BY <1>6, OneFacts
<1>8. PICK kids \in Refs : kids = <<x>>
  BY <1>7, TimesOne
<1>9. PICK tag \in Tags : tag = closureTag(args, total)
  BY DEF closureTag, Tags
<1>10. PICK v : v = [Value(tag, kids) EXCEPT !.f = f]
  OBVIOUS
<1>11. v \in CellValue
  BY <1>10 DEF Value, CellValue
<1>12. k = Alloc(g, y, v)
  BY <1>1, <1>3, <1>5, <1>8, <1>9, <1>10, Zenon DEF makeClosureFromArglist
<1>13. HeapTypes(k) /\ DOMAIN k = DOMAIN g \union {y}
  <2>1. /\ DOMAIN k = DOMAIN g \union {y} /\ k[y] = v
        /\ \A c \in DOMAIN g : k[c] = g[c]
    BY <1>7, <1>12 DEF Alloc
  <2>2. HeapTypes(k)
    BY <1>6, <1>7, <1>11, <2>1 DEF HeapTypes
  <2>3. QED
    BY <2>1, <2>2
<1>14. QED
  BY <1>6, <1>13

LEMMA ClosureTidy ==
  ASSUME HeapTypes(heap), NEW z, Tidy(heap, z), NEW args \in Refs,
         ToSet(args) \subseteq DOMAIN heap \union {NULL},
         NEW x \in Cells \ DOMAIN heap, NEW y \in Cells \ DOMAIN heap,
         x = Fresh(1), y = Fresh(2), x # y,
         NEW f \in {"code", "freeIterator"}, NEW total \in Nat,
         NEW k, k = makeClosureFromArglist(f, args, total)
  PROVE  HeapTypes(k) /\ DOMAIN k = DOMAIN heap \union {x, y} /\ Tidy(k, z)
<1>1. PICK g : g = Alloc(newReference(heap, args), x, Arglist(args, total))
  OBVIOUS
<1>2. HeapTypes(g) /\ DOMAIN g = DOMAIN heap \union {x} /\ Tidy(g, z)
  BY <1>1, ArglistTidy
<1>3. x \in Nat /\ y \in Cells \ DOMAIN g
  BY <1>2, OneFacts
<1>4. PICK kids \in Refs : kids = <<x>>
  BY <1>3, TimesOne
<1>5. PICK tag \in Tags : tag = closureTag(args, total)
  BY DEF closureTag, Tags
<1>6. PICK v : v = [Value(tag, kids) EXCEPT !.f = f]
  OBVIOUS
<1>7. v \in CellValue /\ v.rc = 1 /\ v.kids = kids
  BY <1>6 DEF Value, CellValue
<1>8. ToSet(kids) \subseteq DOMAIN g \union {NULL}
  <2>1. ToSet(kids) = {x}
    BY <1>4 DEF ToSet
  <2>2. QED
    BY <1>2, <2>1
<1>9. k = Alloc(g, y, v)
  BY <1>1, <1>4, <1>5, <1>6, Zenon DEF makeClosureFromArglist
<1>10. HeapTypes(k) /\ DOMAIN k = DOMAIN g \union {y} /\ Tidy(k, z)
  BY <1>2, <1>3, <1>7, <1>8, <1>9, AllocTidy
<1>11. QED
  BY <1>2, <1>10

(* A slot of an array or of the world is written, or the world has a slot   *)
(* more. *)
LEMMA WriteTidy ==
  ASSUME NEW h, HeapTypes(h), NEW z, Tidy(h, z), NEW x \in DOMAIN h,
         h[x].tag \in {"ARRAY", "WORLD"}, NEW kids, NEW k, k = [h EXCEPT ![x].kids = kids]
  PROVE  DOMAIN k = DOMAIN h /\ Tidy(k, z)
<1>1. DOMAIN k = DOMAIN h /\ \A c \in DOMAIN h : c # x => k[c] = h[c]
  OBVIOUS
<1>2. k[x] = [h[x] EXCEPT !.kids = kids] /\ h[x] \in CellValue
  BY DEF HeapTypes
<1>3. k[x].tag = h[x].tag /\ k[x].rc = h[x].rc
  BY <1>2 DEF CellValue
<1>4. \A c \in DOMAIN h : Fixed(k, c) \subseteq Fixed(h, c)
  <2> SUFFICES ASSUME NEW c \in DOMAIN h PROVE Fixed(k, c) \subseteq Fixed(h, c)
    OBVIOUS
  <2>1. CASE c = x
    BY <1>3, <2>1 DEF Fixed
  <2>2. CASE c # x
    BY <1>1, <2>2 DEF Fixed
  <2>3. QED
    BY <2>1, <2>2
<1>5. \A c \in DOMAIN h : k[c].rc = 0 => h[c].rc = 0 \/ c \in z
  BY <1>1, <1>3
<1>6. QED
  BY <1>1, <1>4, <1>5, SameTidy

(* A reference less, not the last one. *)
LEMMA LessTidy ==
  ASSUME NEW h, HeapTypes(h), NEW z, Tidy(h, z), NEW x \in DOMAIN h, h[x].rc > 1,
         NEW k, k = [h EXCEPT ![x].rc = @ - 1]
  PROVE  Tidy(k, z)
<1>1. DOMAIN k = DOMAIN h /\ \A c \in DOMAIN h : c # x => k[c] = h[c]
  OBVIOUS
<1>2. k[x] = [h[x] EXCEPT !.rc = @ - 1] /\ h[x] \in CellValue
  BY DEF HeapTypes
<1>3. /\ k[x].tag = h[x].tag /\ k[x].rc = h[x].rc - 1
      /\ k[x].owns = h[x].owns /\ k[x].kids = h[x].kids /\ h[x].rc \in Nat
  BY <1>2 DEF CellValue
<1>4. \A c \in DOMAIN h : Fixed(k, c) \subseteq Fixed(h, c)
  BY <1>1, <1>3 DEF Fixed
<1>5. \A c \in DOMAIN h : k[c].rc = 0 => h[c].rc = 0 \/ c \in z
  <2>1. k[x].rc # 0
    BY <1>3
  <2>2. QED
    BY <1>1, <2>1
<1>6. QED
  BY <1>1, <1>4, <1>5, SameTidy

(* The last reference goes, and the value is being freed. *)
LEMMA KillTidy ==
  ASSUME NEW h, HeapTypes(h), NEW z, Tidy(h, z), NEW x \in DOMAIN h,
         NEW y, z \union {x} \subseteq y
  PROVE  Tidy([h EXCEPT ![x].rc = 0, ![x].kids = <<>>], y)
<1> DEFINE k == [h EXCEPT ![x].rc = 0, ![x].kids = <<>>]
<1>1. DOMAIN k = DOMAIN h /\ \A c \in DOMAIN h : c # x => k[c] = h[c]
  OBVIOUS
<1>2. k[x] = [h[x] EXCEPT !.rc = 0, !.kids = <<>>] /\ h[x] \in CellValue
  BY DEF HeapTypes
<1> HIDE DEF k
<1>3. k[x].kids = <<>>
  BY <1>2 DEF CellValue
<1>4. ToSet(k[x].kids) = {}
  BY <1>3 DEF ToSet
<1>5. \A c \in DOMAIN h : Fixed(k, c) \subseteq Fixed(h, c)
  BY <1>1, <1>4 DEF Fixed
<1>6. \A c \in DOMAIN h : k[c].rc = 0 => h[c].rc = 0 \/ c \in y
  BY <1>1
<1>7. Tidy(k, y)
  BY <1>1, <1>5, <1>6, SameTidy
<1>8. QED
  BY <1>7 DEF k
LEMMA MoreFreed ==
  ASSUME NEW h, NEW z, Tidy(h, z), NEW y, z \subseteq y
  PROVE  Tidy(h, y)
BY DEF Tidy

LEMMA FreeingConcat ==
  ASSUME NEW s \in Stacks, NEW t \in Stacks
  PROVE  s \o t \in Stacks /\ Freeing(s) \subseteq Freeing(s \o t) /\ Freeing(t) \subseteq Freeing(s \o t)
<1>1. /\ s \o t \in Stacks /\ DOMAIN (s \o t) = 1 .. Len(s) + Len(t)
      /\ \A k \in DOMAIN s : (s \o t)[k] = s[k]
      /\ \A k \in DOMAIN t : (s \o t)[k + Len(s)] = t[k]
  BY ConcatFacts
<1>2. DOMAIN s = 1 .. Len(s) /\ DOMAIN t = 1 .. Len(t) /\ Len(s) \in Nat /\ Len(t) \in Nat
  BY StackRowsRows
<1>3. PICK u : u = s \o t
  OBVIOUS
<1>4. \A k \in DOMAIN s : k \in DOMAIN u /\ u[k] = s[k]
  BY <1>1, <1>2, <1>3
<1>5. \A k \in DOMAIN t : k + Len(s) \in DOMAIN u /\ u[k + Len(s)] = t[k]
  BY <1>1, <1>2, <1>3
<1>6. Freeing(s) \subseteq Freeing(u)
  BY <1>4 DEF Freeing
<1>7. Freeing(t) \subseteq Freeing(u)
  BY <1>5 DEF Freeing
<1>8. QED
  BY <1>1, <1>3, <1>6, <1>7

(* Only the removal of an entry that frees a value stops freeing it. *)
LEMMA FreeingPush ==
  ASSUME NEW e \in Entries, NEW t \in Stacks
  PROVE  /\ Freeing(t) \subseteq Freeing(Push(e, t))
         /\ e.do = "free" => /\ e.cell \in Freeing(Push(e, t))
                             /\ Freeing(Push(e, t)) \subseteq Freeing(t) \union {e.cell}
         /\ e.do # "free" => Freeing(Push(e, t)) \subseteq Freeing(t)
<1>1. PICK s : s = Push(e, t)
  OBVIOUS
<1>2. /\ s[1] = e /\ \A k \in DOMAIN t : s[k + 1] = t[k]
      /\ \A j : j \in DOMAIN s <=> j = 1 \/ \E k \in DOMAIN t : j = k + 1
  BY <1>1, PushFacts, PushIndex
<1>3. Freeing(t) \subseteq Freeing(s)
  <2>1. \A k \in DOMAIN t : k + 1 \in DOMAIN s /\ s[k + 1] = t[k]
    BY <1>2
  <2>2. QED
    BY <2>1 DEF Freeing
<1>4. \A j \in DOMAIN s : (j = 1 /\ s[j] = e) \/ \E k \in DOMAIN t : s[j] = t[k]
  BY <1>2
<1>5. e.do = "free" => e.cell \in Freeing(s) /\ Freeing(s) \subseteq Freeing(t) \union {e.cell}
  <2>1. e.do = "free" => e.cell \in Freeing(s)
    BY <1>2 DEF Freeing
  <2>2. Freeing(s) \subseteq Freeing(t) \union {e.cell}
    BY <1>4 DEF Freeing
  <2>3. QED
    BY <2>1, <2>2
<1>6. e.do # "free" => Freeing(s) \subseteq Freeing(t)
  BY <1>4 DEF Freeing
<1>7. QED
  BY <1>1, <1>3, <1>5, <1>6

(* Whatever the running function does, it does not finish what was being    *)
(* freed. *)
LEMMA LetTidy ==
  ASSUME MemInv, Doing("run"), NEW v \in Nat, stack' = Let(v), Tidy(heap', Freeing(stack))
  PROVE  TidyInv'
<1> DEFINE f == Top.f
           al == Top.arglist
           lets == Top.lets
<1>1. /\ f \in {"code", "freeIterator"} /\ al \in Nat /\ lets \in Refs
      /\ Rest \in Stacks /\ stack = Push(Top, Rest) /\ Top \in Entries /\ Top.do = "run"
  BY Running, Doings
<1>2. [Top EXCEPT !.lets = Append(@, v)] = Run(f, al, Append(lets, v))
  BY <1>1, EntryForms
<1> HIDE DEF f, al, lets
<1>3. Append(lets, v) \in Refs
  BY <1>1, TimesAppend
<1>4. PICK e \in Entries : e = Run(f, al, Append(lets, v))
  BY <1>1, <1>3, MakeEntries
<1>5. stack' = Push(e, Rest)
  BY <1>2, <1>4 DEF Let, Push
<1>6. Freeing(stack) \subseteq Freeing(Rest)
  BY <1>1, FreeingPush
<1>7. Freeing(Rest) \subseteq Freeing(stack')
  BY <1>1, <1>5, FreeingPush
<1>8. Tidy(heap', Freeing(stack'))
  BY <1>6, <1>7, MoreFreed
<1>9. QED
  BY <1>8 DEF TidyInv, Freeing

LEMMA ReturningTidy ==
  ASSUME MemInv, Doing("run"), NEW v \in Nat, stack' = Returning(v), Tidy(heap', Freeing(stack))
  PROVE  TidyInv'
<1>1. /\ Top.arglist \in Nat /\ Top.lets \in Refs
      /\ Rest \in Stacks /\ stack = Push(Top, Rest) /\ Top \in Entries /\ Top.do = "run"
  BY Running, Doings
<1>2. PICK a \in Stacks : a = Drops(Reverse(Top.lets))
  BY <1>1, ReverseFacts, StackDrops
<1>3. PICK b \in Stacks : b = IF Top.arglist = NULL THEN <<>> ELSE <<Drop(Top.arglist)>>
  <2>1. <<Drop(Top.arglist)>> \in Stacks /\ <<>> \in Stacks
    BY <1>1, MakeEntries, StackSingle, EmptySeq DEF Stacks
  <2>2. QED
    BY <2>1
<1>4. PICK c \in Stacks : c = <<Deliver(v)>>
  BY MakeEntries, StackSingle
<1>5. PICK ab \in Stacks : ab = a \o b
  BY ConcatFacts
<1>6. PICK abc \in Stacks : abc = ab \o c
  BY ConcatFacts
<1>7. stack' = abc \o Rest
  BY <1>2, <1>3, <1>4, <1>5, <1>6, Zenon DEF Returning
<1>8. Freeing(Rest) \subseteq Freeing(stack')
  BY <1>1, <1>7, FreeingConcat
<1>9. Freeing(stack) \subseteq Freeing(Rest)
  BY <1>1, FreeingPush
<1>10. Tidy(heap', Freeing(stack'))
  BY <1>8, <1>9, MoreFreed
<1>11. QED
  BY <1>10 DEF TidyInv, Freeing

(* A function is called. *)
LEMMA OnTopTidy ==
  ASSUME MemInv, NEW s \in Stacks, NEW t \in Stacks, stack' = s \o t,
         Freeing(stack) \subseteq Freeing(t), Tidy(heap', Freeing(stack))
  PROVE  TidyInv'
<1>1. Freeing(t) \subseteq Freeing(stack')
  BY FreeingConcat
<1>2. Tidy(heap', Freeing(stack'))
  BY <1>1, MoreFreed
<1>3. QED
  BY <1>2 DEF TidyInv, Freeing

(* What the functions name is alive, and so is what they make values of. *)
LEMMA AliveKids ==
  ASSUME NEW h, NEW cells, Alive(h, cells)
  PROVE  ToSet(cells) \subseteq DOMAIN h \union {NULL}
BY DEF Alive
LEMMA TidyNow ==
  ASSUME MemInv, TidyInv
  PROVE  HeapTypes(heap) /\ Tidy(heap, Freeing(stack)) /\ stack \in Stacks /\ leaked \in Refs
BY DEF MemInv, Inv, TidyInv

LEMMA newConstructorTidy ==
  ASSUME MemInv, TidyInv, newConstructor
  PROVE  TidyInv'
<1>1. Doing("run") /\ Room(1) /\ stack' = Let(Fresh(1))
  BY DEF newConstructor, Statement
<1>2. PICK args \in Refs :
        /\ Alive(heap, args)
        /\ heap' = Alloc(newReference(heap, args), Fresh(1), Value("CONSTRUCTOR", args))
  <2>1. PICK args \in {<<>>} \union {<<x>> : x \in Named} \union {<<x, y>> : x, y \in Named} :
          heap' = Alloc(newReference(heap, args), Fresh(1), Value("CONSTRUCTOR", args))
    BY DEF newConstructor
  <2>2. QED
    BY <1>1, <2>1, NamedArgs
<1>3. PICK x \in Cells \ DOMAIN heap : x = Fresh(1) /\ x \in Nat
  BY <1>1, FreshFacts, OneFacts
<1>4. PICK g : g = newReference(heap, args)
  OBVIOUS
<1>5. HeapTypes(g) /\ DOMAIN g = DOMAIN heap /\ Tidy(g, Freeing(stack))
  BY <1>4, TidyNow, TakeTidy
<1>6. ToSet(args) \subseteq DOMAIN g \union {NULL}
  BY <1>2, <1>5, AliveKids
<1>7. heap' = Alloc(g, x, Value("CONSTRUCTOR", args)) /\ "CONSTRUCTOR" \in Tags
  BY <1>2, <1>3, <1>4 DEF Tags
<1>8. Tidy(heap', Freeing(stack))
  BY <1>3, <1>5, <1>6, <1>7, ValueTidy
<1>9. QED
  BY <1>1, <1>3, <1>8, LetTidy

LEMMA UnderAppliedTidy ==
  ASSUME MemInv, TidyInv, UnderApplied
  PROVE  TidyInv'
<1>1. Doing("run") /\ Room(2) /\ stack' = Let(Fresh(2))
  BY DEF UnderApplied, Statement
<1>2. PICK args \in Refs, total \in Nat :
        Alive(heap, args) /\ heap' = makeClosureFromArglist("code", args, total)
  <2>1. PICK args \in {<<>>} \union {<<x>> : x \in Named}, missing \in 1 .. 2 :
          heap' = makeClosureFromArglist("code", args, Len(args) + missing)
    BY DEF UnderApplied
  <2>2. args \in Refs /\ Alive(heap, args) /\ Len(args) + missing \in Nat
    BY <1>1, NamedArgs
  <2>3. QED
    BY <2>1, <2>2
<1>3. PICK x \in Cells \ DOMAIN heap, y \in Cells \ DOMAIN heap :
        x = Fresh(1) /\ y = Fresh(2) /\ x # y
  BY <1>1, FreshFacts
<1>4. ToSet(args) \subseteq DOMAIN heap \union {NULL}
  BY <1>2, AliveKids
<1>5. Tidy(heap', Freeing(stack))
  BY <1>2, <1>3, <1>4, TidyNow, ClosureTidy
<1>6. y \in Nat
  BY OneFacts
<1>7. QED
  BY <1>1, <1>3, <1>5, <1>6, LetTidy

LEMMA makePointerTidy ==
  ASSUME MemInv, TidyInv, makePointer
  PROVE  TidyInv'
<1>1. /\ Doing("run") /\ Room(1) /\ stack' = Let(Fresh(1))
      /\ heap' = Alloc(heap, Fresh(1), Value("POINTER", <<>>))
  BY DEF makePointer, Statement
<1>2. PICK x \in Cells \ DOMAIN heap : x = Fresh(1) /\ x \in Nat
  BY <1>1, FreshFacts, OneFacts
<1>3. PICK kids \in Refs : kids = <<>> /\ ToSet(kids) = {}
  BY EmptyRefs DEF ToSet
<1>4. heap' = Alloc(heap, x, Value("POINTER", kids)) /\ "POINTER" \in Tags
  BY <1>1, <1>2, <1>3 DEF Tags
<1>5. Tidy(heap', Freeing(stack))
  BY <1>3, <1>4, TidyNow, ValueTidy
<1>6. QED
  BY <1>1, <1>2, <1>5, LetTidy

LEMMA makeWorldTidy ==
  ASSUME MemInv, TidyInv, makeWorld
  PROVE  TidyInv'
<1>1. /\ Doing("run") /\ Room(1) /\ stack' = Let(Fresh(1))
      /\ heap' = Alloc(heap, Fresh(1), Value("WORLD", <<>>))
  BY DEF makeWorld, Statement
<1>2. PICK x \in Cells \ DOMAIN heap : x = Fresh(1) /\ x \in Nat
  BY <1>1, FreshFacts, OneFacts
<1>3. PICK kids \in Refs : kids = <<>> /\ ToSet(kids) = {}
  BY EmptyRefs DEF ToSet
<1>4. heap' = Alloc(heap, x, Value("WORLD", kids)) /\ "WORLD" \in Tags
  BY <1>1, <1>2, <1>3 DEF Tags
<1>5. Tidy(heap', Freeing(stack))
  BY <1>3, <1>4, TidyNow, ValueTidy
<1>6. QED
  BY <1>1, <1>2, <1>5, LetTidy

LEMMA AliasTidy ==
  ASSUME MemInv, TidyInv, Alias
  PROVE  TidyInv'
<1>1. Doing("run")
  BY DEF Alias, Statement
<1>2. PICK x \in Named : heap' = newReference(heap, <<x>>) /\ stack' = Let(x)
  BY DEF Alias
<1>3. x \in Nat
  BY <1>1, NamedFacts
<1>4. <<x>> \in Refs
  BY <1>3, TimesOne
<1>5. Tidy(heap', Freeing(stack))
  BY <1>2, <1>4, TidyNow, TakeTidy
<1>6. QED
  BY <1>1, <1>2, <1>3, <1>5, LetTidy

LEMMA EndOfBlockTidy ==
  ASSUME MemInv, TidyInv, EndOfBlock
  PROVE  TidyInv'
<1> DEFINE f == Top.f
           al == Top.arglist
           lets == Top.lets
<1>1. Doing("run")
  BY DEF EndOfBlock, Statement
<1>2. PICK n \in Nat, k \in Nat, x \in Named :
        /\ n + k = Len(Top.lets) /\ heap' = newReference(heap, <<x>>)
        /\ stack' = Drops(Reverse(SubSeq(Top.lets, n + 1, n + k)))
                      \o <<Deliver(x), [Top EXCEPT !.lets = SubSeq(@, 1, n)]>> \o Rest
  <2>1. Top.lets \in Refs /\ Len(Top.lets) \in Nat
    BY <1>1, Running, SeqFacts
  <2>2. \A k \in 1 .. Len(Top.lets) :
          k \in Nat /\ Len(Top.lets) - k \in Nat /\ (Len(Top.lets) - k) + k = Len(Top.lets)
    BY <2>1
  <2>3. \E k \in 1 .. Len(Top.lets), x \in Named :
          LET n == Len(Top.lets) - k
          IN  /\ heap' = newReference(heap, <<x>>)
              /\ stack' = Drops(Reverse(SubSeq(Top.lets, n + 1, n + k)))
                            \o <<Deliver(x), [Top EXCEPT !.lets = SubSeq(@, 1, n)]>> \o Rest
    BY DEF EndOfBlock
  <2>4. QED
    BY <2>2, <2>3, Zenon
<1>3. x \in Nat /\ <<x>> \in Refs
  BY <1>1, NamedFacts, TimesOne
<1>4. /\ f \in {"code", "freeIterator"} /\ al \in Nat /\ lets \in Refs
      /\ Rest \in Stacks /\ stack = Push(Top, Rest) /\ Top \in Entries /\ Top.do = "run"
  BY <1>1, Running, Doings
<1>5. PICK a \in Refs, b \in Refs : a = SubSeq(lets, 1, n) /\ b = SubSeq(lets, n + 1, n + k)
  <2>1. SubSeq(lets, 1, n) \in Refs /\ SubSeq(lets, n + 1, n + k) \in Refs
    BY <1>2, <1>4, SplitRefs
  <2>2. QED
    BY <2>1
<1>6. [Top EXCEPT !.lets = SubSeq(@, 1, n)] = Run(f, al, a)
  BY <1>4, <1>5, EntryForms
<1> HIDE DEF f, al
<1>7. PICK u \in Stacks : u = Drops(Reverse(b))
  BY <1>5, ReverseFacts, StackDrops
<1>8. PICK r \in Entries, d \in Entries : r = Run(f, al, a) /\ d = Deliver(x)
  BY <1>3, <1>4, <1>5, MakeEntries
<1>9. PICK w \in Stacks : w = <<d, r>>
  <2>1. <<d, r>> \in Stacks
    BY DEF Stacks
  <2>2. QED
    BY <2>1
<1>10. stack' = (u \o w) \o Rest
  BY <1>2, <1>5, <1>6, <1>7, <1>8, <1>9, Zenon DEF lets
<1>11. PICK s \in Stacks : s = u \o w
  BY ConcatFacts
<1>12. Freeing(stack) \subseteq Freeing(Rest)
  BY <1>4, FreeingPush
<1>13. Tidy(heap', Freeing(stack))
  BY <1>2, <1>3, TidyNow, TakeTidy
<1>14. QED
  BY <1>4, <1>10, <1>11, <1>12, <1>13, OnTopTidy

LEMMA CallTidy ==
  ASSUME MemInv, TidyInv, Call
  PROVE  TidyInv'
<1>1. /\ Doing("run") /\ Room(2) /\ stack' = Trampolined(Fresh(2), "code", Fresh(1)) \o stack
  BY DEF Call, Statement
<1>2. PICK args \in Refs, total \in Nat :
        /\ Alive(heap, args)
        /\ heap' = newReference(makeClosureFromArglist("code", args, total), <<Fresh(1)>>)
  <2>1. PICK args \in {<<>>} \union {<<x>> : x \in Named} \union {<<x, y>> : x, y \in Named} :
          heap' = newReference(makeClosureFromArglist("code", args, Len(args)), <<Fresh(1)>>)
    BY DEF Call
  <2>2. args \in Refs /\ Alive(heap, args) /\ Len(args) \in Nat
    BY <1>1, NamedArgs
  <2>3. QED
    BY <2>1, <2>2
<1>3. PICK x \in Cells \ DOMAIN heap, y \in Cells \ DOMAIN heap :
        x = Fresh(1) /\ y = Fresh(2) /\ x # y
  BY <1>1, FreshFacts
<1>4. ToSet(args) \subseteq DOMAIN heap \union {NULL}
  BY <1>2, AliveKids
<1>5. PICK f \in {"code", "freeIterator"} : f = "code"
  OBVIOUS
<1>6. PICK k, z : k = makeClosureFromArglist(f, args, total) /\ z = Freeing(stack)
  OBVIOUS
<1>7. HeapTypes(heap) /\ Tidy(heap, z)
  BY <1>6, TidyNow
<1>8. HeapTypes(k) /\ Tidy(k, Freeing(stack))
  <2>1. Tidy(k, z)
    BY <1>3, <1>4, <1>6, <1>7, ClosureTidy
  <2>2. HeapTypes(k)
    BY <1>3, <1>6, <1>7, ClosureTypes
  <2>3. QED
    BY <1>6, <2>1, <2>2
<1>9. x \in Nat /\ y \in Nat /\ <<x>> \in Refs
  BY OneFacts, TimesOne
<1>10. Tidy(heap', Freeing(stack))
  BY <1>2, <1>3, <1>5, <1>6, <1>9, <1>8, TakeTidy
<1>11. PICK s \in Stacks : s = Trampolined(y, "code", x)
  <2>1. Drop(y) \in Entries /\ Run("code", x, <<>>) \in Entries
    BY <1>9, MakeEntries, EmptyRefs
  <2>2. <<Drop(y), Run("code", x, <<>>)>> \in Stacks
    BY <2>1 DEF Stacks
  <2>3. QED
    BY <2>2 DEF Trampolined
<1>12. stack' = s \o stack
  BY <1>1, <1>3, <1>11
<1>13. QED
  BY <1>10, <1>12, TidyNow, OnTopTidy

LEMMA apply_closureTidy ==
  ASSUME MemInv, TidyInv, apply_closure
  PROVE  TidyInv'
<1>1. Doing("run")
  BY DEF apply_closure, Statement
<1>2. \E f \in {"code", "freeIterator"}, total \in Nat, args \in Refs :
        /\ Alive(heap, args)
        /\ \/ /\ Room(1)
              /\ heap' = Alloc(newReference(heap, args), Fresh(1), Arglist(args, total))
              /\ stack' = <<Run(f, Fresh(1), <<>>)>> \o stack
           \/ /\ Room(2) /\ heap' = makeClosureFromArglist(f, args, total)
              /\ stack' = Let(Fresh(2))
  <2>1. PICK cl \in Tagged("CLOSURE"), arg \in Named :
          LET args == Applied(cl, arg)
          IN  \/ /\ Room(1)
                 /\ heap' = Alloc(newReference(heap, args), Fresh(1), Arglist(args, Total(cl)))
                 /\ stack' = <<Run(heap[cl].f, Fresh(1), <<>>)>> \o stack
              \/ /\ Room(2) /\ heap' = makeClosureFromArglist(heap[cl].f, args, Total(cl))
                 /\ stack' = Let(Fresh(2))
    BY DEF apply_closure
  <2>2. /\ heap[cl].f \in {"code", "freeIterator"} /\ Total(cl) \in Nat
        /\ Applied(cl, arg) \in Refs /\ Alive(heap, Applied(cl, arg))
    BY <1>1, AppliedFacts
  <2>3. QED
    BY <2>1, <2>2
<1>3. ASSUME NEW f \in {"code", "freeIterator"}, NEW total \in Nat, NEW args \in Refs,
             Alive(heap, args), Room(1),
             heap' = Alloc(newReference(heap, args), Fresh(1), Arglist(args, total)),
             stack' = <<Run(f, Fresh(1), <<>>)>> \o stack
      PROVE  TidyInv'
  <2>1. PICK x \in Cells \ DOMAIN heap : x = Fresh(1) /\ x \in Nat
    BY <1>3, FreshFacts, OneFacts
  <2>2. heap' = Alloc(newReference(heap, args), x, Arglist(args, total))
    BY <1>3, <2>1
  <2>3. ToSet(args) \subseteq DOMAIN heap \union {NULL}
    BY <1>3, AliveKids
  <2>4. Tidy(heap', Freeing(stack))
    BY <2>2, <2>3, TidyNow, ArglistTidy
  <2>5. PICK s \in Stacks : s = <<Run(f, x, <<>>)>>
    BY <2>1, MakeEntries, EmptyRefs, StackSingle
  <2>6. stack' = s \o stack
    BY <1>3, <2>1, <2>5
  <2>7. QED
    BY <2>4, <2>6, TidyNow, OnTopTidy
<1>4. ASSUME NEW f \in {"code", "freeIterator"}, NEW total \in Nat, NEW args \in Refs,
             Alive(heap, args), Room(2), heap' = makeClosureFromArglist(f, args, total),
             stack' = Let(Fresh(2))
      PROVE  TidyInv'
  <2>1. PICK x \in Cells \ DOMAIN heap, y \in Cells \ DOMAIN heap :
          x = Fresh(1) /\ y = Fresh(2) /\ x # y
    BY <1>4, FreshFacts
  <2>2. ToSet(args) \subseteq DOMAIN heap \union {NULL}
    BY <1>4, AliveKids
  <2>3. Tidy(heap', Freeing(stack))
    BY <1>4, <2>1, <2>2, TidyNow, ClosureTidy
  <2>4. y \in Nat
    BY OneFacts
  <2>5. QED
    BY <1>1, <1>4, <2>1, <2>3, <2>4, LetTidy
<1>5. QED
  BY <1>2, <1>3, <1>4

LEMMA ReturnTidy ==
  ASSUME MemInv, TidyInv, Return
  PROVE  TidyInv'
<1>1. Doing("run")
  BY DEF Return
<1>2. PICK x \in Named : heap' = newReference(heap, <<x>>) /\ stack' = Returning(x)
  BY DEF Return
<1>3. x \in Nat /\ <<x>> \in Refs
  BY <1>1, NamedFacts, TimesOne
<1>4. Tidy(heap', Freeing(stack))
  BY <1>2, <1>3, TidyNow, TakeTidy
<1>5. QED
  BY <1>1, <1>2, <1>3, <1>4, ReturningTidy

LEMMA ReturnNullTidy ==
  ASSUME MemInv, TidyInv, ReturnNull
  PROVE  TidyInv'
<1>1. Doing("run") /\ heap' = heap /\ stack' = Returning(NULL) /\ NULL \in Nat
  BY DEF ReturnNull, NULL
<1>2. Tidy(heap', Freeing(stack))
  BY <1>1, TidyNow
<1>3. QED
  BY <1>1, <1>2, ReturningTidy

(* A closure is returned. *)
LEMMA TailTidy ==
  ASSUME MemInv, TidyInv, Doing("run"), Room(2), NEW f \in {"code", "freeIterator"},
         NEW total \in Nat, NEW args \in Refs, Alive(heap, args),
         heap' = makeClosureFromArglist(f, args, total), stack' = Returning(Fresh(2))
  PROVE  TidyInv'
<1>1. PICK x \in Cells \ DOMAIN heap, y \in Cells \ DOMAIN heap :
        x = Fresh(1) /\ y = Fresh(2) /\ x # y
  BY FreshFacts
<1>2. ToSet(args) \subseteq DOMAIN heap \union {NULL}
  BY AliveKids
<1>3. Tidy(heap', Freeing(stack))
  BY <1>1, <1>2, TidyNow, ClosureTidy
<1>4. y \in Nat
  BY OneFacts
<1>5. QED
  BY <1>1, <1>3, <1>4, ReturningTidy

LEMMA TailCallTidy ==
  ASSUME MemInv, TidyInv, TailCall
  PROVE  TidyInv'
<1>1. Doing("run") /\ Room(2) /\ stack' = Returning(Fresh(2))
  BY DEF TailCall, Statement
<1>2. PICK args \in {<<x>> : x \in Named} :
        heap' = makeClosureFromArglist("code", args, Len(args))
  BY DEF TailCall
<1>3. args \in Refs /\ Alive(heap, args) /\ Len(args) \in Nat
  BY <1>1, <1>2, NamedArgs
<1>4. QED
  BY <1>1, <1>2, <1>3, TailTidy

LEMMA tailcall_apply_closureTidy ==
  ASSUME MemInv, TidyInv, tailcall_apply_closure
  PROVE  TidyInv'
<1>1. Doing("run") /\ Room(2) /\ stack' = Returning(Fresh(2))
  BY DEF tailcall_apply_closure, Statement
<1>2. PICK cl \in Tagged("CLOSURE"), arg \in Named :
        heap' = makeClosureFromArglist(heap[cl].f, Applied(cl, arg), Total(cl))
  BY DEF tailcall_apply_closure
<1>3. /\ heap[cl].f \in {"code", "freeIterator"} /\ Total(cl) \in Nat
      /\ Applied(cl, arg) \in Refs /\ Alive(heap, Applied(cl, arg))
  BY <1>1, AppliedFacts
<1>4. QED
  BY <1>1, <1>2, <1>3, TailTidy
LEMMA BounceTidy ==
  ASSUME MemInv, TidyInv, Bounce
  PROVE  TidyInv'
<1>1. PICK cl, al, f : cl = Top.cell /\ al = heap[cl].kids[1] /\ f = heap[cl].f
  OBVIOUS
<1>2. /\ Doing("deliver") /\ cl # NULL /\ heap[cl].tag = "COMPLETE_CLOSURE"
      /\ heap' = newReference(heap, <<al>>) /\ stack' = Trampolined(cl, f, al) \o Rest
  BY <1>1 DEF Bounce
<1>3. /\ Top \in Entries /\ Top.do = "deliver" /\ Rest \in Stacks /\ stack = Push(Top, Rest)
  BY <1>2, Doings
<1>4. cl \in Nat /\ leaked \in Refs /\ Inv(heap, Rest, Append(leaked, cl))
  BY <1>1, <1>2, Delivered
<1>5. cl \in DOMAIN heap /\ heap[cl].rc > 0
  BY <1>2, <1>4, LastHeld
<1>6. f \in {"code", "freeIterator"} /\ al \in Nat
  BY <1>1, <1>2, <1>4, <1>5, ClosureFacts
<1>7. Tidy(heap', Freeing(stack))
  BY <1>2, <1>6, TidyNow, TakeTidy, TimesOne
<1>8. PICK s \in Stacks : s = Trampolined(cl, f, al)
  <2>1. Drop(cl) \in Entries /\ Run(f, al, <<>>) \in Entries
    BY <1>4, <1>6, MakeEntries, EmptyRefs
  <2>2. <<Drop(cl), Run(f, al, <<>>)>> \in Stacks
    BY <2>1 DEF Stacks
  <2>3. QED
    BY <2>2 DEF Trampolined
<1>9. stack' = s \o Rest
  BY <1>2, <1>8
<1>10. Freeing(stack) \subseteq Freeing(Rest)
  BY <1>3, FreeingPush
<1>11. QED
  BY <1>3, <1>7, <1>9, <1>10, OnTopTidy

LEMMA ArriveTidy ==
  ASSUME MemInv, TidyInv, Arrive
  PROVE  TidyInv'
<1>1. PICK d : d = Top.cell
  OBVIOUS
<1>2. /\ Doing("deliver") /\ heap' = heap
      /\ IF Rest # <<>> /\ Rest[1].do = "run"
         THEN stack' = <<[Rest[1] EXCEPT !.lets = Append(@, d)]>> \o Tail(Rest)
         ELSE stack' = IF Rest = <<>> THEN <<>> ELSE Tail(Rest)
  BY <1>1 DEF Arrive
<1>3. d \in Nat /\ Rest \in Stacks /\ Frame(Rest)
  BY <1>1, <1>2, Delivered
<1>4. Top \in Entries /\ Top.do = "deliver" /\ stack = Push(Top, Rest)
  BY <1>2, Doings
<1>5. Freeing(stack) \subseteq Freeing(Rest)
  BY <1>3, <1>4, FreeingPush
<1>6. Freeing(Rest) \subseteq Freeing(stack')
  <2>1. CASE Rest = <<>>
    BY <1>2, <2>1
  <2>2. CASE Rest # <<>>
    <3>1. PICK e \in Entries, t \in Stacks : e = Rest[1] /\ t = Tail(Rest) /\ Rest = Push(e, t)
      BY <1>3, <2>2, TopAndRest
    <3>2. e.do # "free"
      BY <1>3, <2>2, <3>1 DEF Frame, First
    <3>3. Freeing(Rest) \subseteq Freeing(t)
      BY <3>1, <3>2, FreeingPush
    <3>4. CASE e.do # "run"
      BY <1>2, <2>2, <3>1, <3>3, <3>4
    <3>5. CASE e.do = "run"
      <4>1. [e EXCEPT !.lets = Append(@, d)] \in Entries
        <5>1. /\ e.f \in {"code", "freeIterator"} /\ e.arglist \in Nat /\ e.lets \in Refs
          BY <3>5, EntryFacts
        <5>2. [e EXCEPT !.lets = Append(@, d)] = Run(e.f, e.arglist, Append(e.lets, d))
          BY <3>5, EntryForms
        <5>3. Append(e.lets, d) \in Refs
          BY <1>3, <5>1, TimesAppend
        <5>4. QED
          BY <5>1, <5>2, <5>3, MakeEntries
      <4>2. PICK g \in Entries : g = [e EXCEPT !.lets = Append(@, d)]
        BY <4>1
      <4>3. stack' = Push(g, t)
        BY <1>2, <2>2, <3>1, <3>5, <4>2 DEF Push
      <4>4. QED
        BY <3>3, <4>3, FreeingPush
    <3>6. QED
      BY <3>4, <3>5
  <2>3. QED
    BY <2>1, <2>2
<1>7. Tidy(heap', Freeing(stack'))
  BY <1>2, <1>5, <1>6, TidyNow, MoreFreed
<1>8. QED
  BY <1>7 DEF TidyInv, Freeing

LEMMA RemoveReferenceTidy ==
  ASSUME MemInv, TidyInv, RemoveReference
  PROVE  TidyInv'
<1>1. PICK c : c = Top.cell
  OBVIOUS
<1>2. /\ Doing("drop") /\ c \in DOMAIN heap /\ heap[c].rc > 1
      /\ heap' = [heap EXCEPT ![c].rc = @ - 1] /\ stack' = Rest
  BY <1>1 DEF RemoveReference, Live
<1>3. Top \in Entries /\ Top.do = "drop" /\ Rest \in Stacks /\ stack = Push(Top, Rest)
  BY <1>2, Doings
<1>4. Tidy(heap', Freeing(stack))
  BY <1>2, TidyNow, LessTidy
<1>5. Freeing(stack) \subseteq Freeing(stack')
  BY <1>2, <1>3, FreeingPush
<1>6. Tidy(heap', Freeing(stack'))
  BY <1>4, <1>5, MoreFreed
<1>7. QED
  BY <1>6 DEF TidyInv, Freeing

LEMMA RemoveNullTidy ==
  ASSUME MemInv, TidyInv, RemoveNull
  PROVE  TidyInv'
<1>1. Doing("drop") /\ stack' = Rest /\ heap' = heap
  BY DEF RemoveNull
<1>2. Top \in Entries /\ Top.do = "drop" /\ Rest \in Stacks /\ stack = Push(Top, Rest)
  BY <1>1, Doings
<1>3. Freeing(stack) \subseteq Freeing(stack')
  BY <1>1, <1>2, FreeingPush
<1>4. Tidy(heap', Freeing(stack'))
  BY <1>1, <1>3, TidyNow, MoreFreed
<1>5. QED
  BY <1>4 DEF TidyInv, Freeing

(* The value whose last reference goes is freed later. *)
LEMMA LastTidy ==
  ASSUME MemInv, TidyInv, Doing("drop"), NEW k, HeapTypes(k), Tidy(k, Freeing(stack)),
         NEW c \in DOMAIN k, c \in Nat,
         heap' = [k EXCEPT ![c].rc = 0, ![c].kids = <<>>],
         NEW u \in Stacks, stack' = u \o Push(Free(c), Rest)
  PROVE  TidyInv'
<1>1. Top \in Entries /\ Top.do = "drop" /\ Rest \in Stacks /\ stack = Push(Top, Rest)
  BY Doings
<1>2. PICK e \in Entries : e = Free(c) /\ e.do = "free" /\ e.cell = c
  BY MakeEntries DEF Free
<1>3. PICK t \in Stacks : t = Push(e, Rest)
  BY <1>1, PushFacts
<1>4. c \in Freeing(t) /\ Freeing(Rest) \subseteq Freeing(t)
  BY <1>1, <1>2, <1>3, FreeingPush
<1>5. Freeing(stack) \subseteq Freeing(Rest)
  BY <1>1, FreeingPush
<1>6. stack' = u \o t
  BY <1>2, <1>3
<1>7. Freeing(t) \subseteq Freeing(stack')
  BY <1>6, FreeingConcat
<1>8. Freeing(stack) \union {c} \subseteq Freeing(stack')
  BY <1>4, <1>5, <1>7
<1>9. Tidy(heap', Freeing(stack'))
  <2>1. PICK z, y : z = Freeing(stack) /\ y = Freeing(stack')
    OBVIOUS
  <2>2. PICK g : g = [k EXCEPT ![c].rc = 0, ![c].kids = <<>>]
    OBVIOUS
  <2>3. Tidy(k, z) /\ z \union {c} \subseteq y
    BY <1>8, <2>1
  <2>4. Tidy(g, y)
    BY <2>2, <2>3, KillTidy
  <2>5. QED
    BY <2>1, <2>2, <2>4
<1>10. QED
  BY <1>9 DEF TidyInv, Freeing

LEMMA RemoveLastTidy ==
  ASSUME MemInv, TidyInv, RemoveLast
  PROVE  TidyInv'
<1>1. PICK c : c = Top.cell
  OBVIOUS
<1>2. /\ Doing("drop") /\ c \in DOMAIN heap
      /\ heap' = [heap EXCEPT ![c].rc = 0, ![c].kids = <<>>]
      /\ stack' = Drops(heap[c].kids) \o <<Free(c)>> \o Rest
  BY <1>1 DEF RemoveLast, Live
<1>3. Rest \in Stacks
  BY <1>2, Doings
<1>4. c \in Nat /\ heap[c].kids \in Refs
  BY <1>2, TidyNow, CellFacts
<1>5. PICK w \in Stacks : w = Drops(heap[c].kids)
  BY <1>4, StackDrops
<1>6. stack' = w \o Push(Free(c), Rest)
  <2>1. Free(c) \in Entries
    BY <1>4, MakeEntries
  <2>2. (w \o <<Free(c)>>) \o Rest = w \o Push(Free(c), Rest)
    BY <1>3, <2>1, ConcatPush
  <2>3. QED
    BY <1>2, <1>5, <2>2, Zenon
<1>7. QED
  BY <1>2, <1>4, <1>6, TidyNow, LastTidy

LEMMA FreeValueTidy ==
  ASSUME MemInv, TidyInv, FreeValue
  PROVE  TidyInv'
<1>1. PICK c : c = Top.cell
  OBVIOUS
<1>2. /\ Doing("free") /\ heap' = [d \in DOMAIN heap \ {c} |-> heap[d]] /\ stack' = Rest
  BY <1>1 DEF FreeValue
<1>3. Top \in Entries /\ Top.do = "free" /\ Rest \in Stacks /\ stack = Push(Top, Rest)
  BY <1>2, Doings
<1>4. Freeing(stack) \ {c} \subseteq Freeing(stack')
  BY <1>1, <1>2, <1>3, FreeingPush
<1>5. MemInv'
  BY FreeValueInv
<1>6. PICK k, s, l : k = heap' /\ s = stack' /\ l = leaked'
  OBVIOUS
<1>7. Inv(k, s, l) /\ HeapTypes(k)
  BY <1>5, <1>6 DEF MemInv, Inv
<1>8. \A p \in DOMAIN k : Fixed(k, p) \subseteq DOMAIN k \union {NULL}
  <2> SUFFICES ASSUME NEW p \in DOMAIN k PROVE Fixed(k, p) \subseteq DOMAIN k \union {NULL}
    OBVIOUS
  <2>1. CASE k[p].owns /\ k[p].tag \notin {"ARRAY", "WORLD"}
    <3>1. Alive(k, k[p].kids)
      BY <1>7, <2>1, KidsAlive
    <3>2. QED
      BY <2>1, <3>1, AliveKids DEF Fixed
  <2>2. CASE ~(k[p].owns /\ k[p].tag \notin {"ARRAY", "WORLD"})
    BY <2>2 DEF Fixed
  <2>3. QED
    BY <2>1, <2>2
<1>9. DOMAIN k = DOMAIN heap \ {c} /\ \A d \in DOMAIN k : k[d] = heap[d]
  BY <1>2, <1>6
<1>10. Tidy(k, Freeing(stack) \ {c})
  BY <1>8, <1>9, TidyNow, EraseTidy
<1>11. Tidy(heap', Freeing(stack'))
  BY <1>4, <1>6, <1>10, MoreFreed
<1>12. QED
  BY <1>11 DEF TidyInv, Freeing
LEMMA newArrayTidy ==
  ASSUME MemInv, TidyInv, newArray
  PROVE  TidyInv'
<1>1. Doing("run") /\ Room(1) /\ stack' = Let(Fresh(1))
  BY DEF newArray, Statement
<1>2. PICK v \in Named : heap' = Alloc(newReference(heap, <<v>>), Fresh(1), Value("ARRAY", <<v>>))
  BY DEF newArray
<1>3. v \in Nat /\ v \in DOMAIN heap
  BY <1>1, NamedFacts
<1>4. PICK args \in Refs : args = <<v>>
  BY <1>3, TimesOne
<1>5. PICK g : g = newReference(heap, args)
  OBVIOUS
<1>6. HeapTypes(g) /\ DOMAIN g = DOMAIN heap /\ Tidy(g, Freeing(stack))
  BY <1>5, TidyNow, TakeTidy
<1>7. PICK x \in Cells \ DOMAIN heap : x = Fresh(1) /\ x \in Nat
  BY <1>1, FreshFacts, OneFacts
<1>8. ToSet(args) \subseteq DOMAIN g \union {NULL}
  BY <1>3, <1>4, <1>6 DEF ToSet
<1>9. heap' = Alloc(g, x, Value("ARRAY", args)) /\ "ARRAY" \in Tags
  BY <1>2, <1>4, <1>5, <1>7 DEF Tags
<1>10. Tidy(heap', Freeing(stack))
  BY <1>6, <1>7, <1>8, <1>9, ValueTidy
<1>11. QED
  BY <1>1, <1>7, <1>10, LetTidy

LEMMA newIORefTidy ==
  ASSUME MemInv, TidyInv, newIORef
  PROVE  TidyInv'
<1>1. Doing("run") /\ Room(1) /\ stack' = Let(Fresh(1))
  BY DEF newIORef, Statement
<1>2. PICK w \in Named, v \in Named :
        /\ heap[w].tag = "WORLD"
        /\ heap' = Alloc([newReference(heap, <<v>>) EXCEPT ![w].kids = Append(@, v)],
                         Fresh(1), [Value("IOREF", <<>>) EXCEPT !.n = Len(heap[w].kids) + 1])
  BY DEF newIORef, Tagged
<1>3. v \in Nat /\ w \in DOMAIN heap
  BY <1>1, NamedFacts
<1>4. PICK args \in Refs : args = <<v>>
  BY <1>3, TimesOne
<1>5. PICK g : g = newReference(heap, args)
  OBVIOUS
<1>6. HeapTypes(heap) /\ HeapTypes(g) /\ DOMAIN g = DOMAIN heap /\ Tidy(g, Freeing(stack))
  BY <1>5, TidyNow, TakeTidy
<1>7. g[w].tag = "WORLD" /\ g[w].kids = heap[w].kids /\ heap[w].kids \in Refs
  BY <1>2, <1>3, <1>5, <1>6, TakeFacts, CellFacts
<1>8. PICK kids \in Refs : kids = Append(heap[w].kids, v)
  BY <1>3, <1>7, TimesAppend
<1>9. PICK h : h = [g EXCEPT ![w].kids = kids]
  OBVIOUS
<1>10. DOMAIN h = DOMAIN g /\ Tidy(h, Freeing(stack))
  BY <1>3, <1>6, <1>7, <1>9, WriteTidy
<1>11. HeapTypes(h)
  <2>1. [g[w] EXCEPT !.kids = kids] \in CellValue
    BY <1>3, <1>6 DEF HeapTypes, CellValue
  <2>2. \A c \in DOMAIN g : h[c] = IF c = w THEN [g[w] EXCEPT !.kids = kids] ELSE g[c]
    BY <1>9
  <2>3. QED
    BY <1>6, <1>10, <2>1, <2>2 DEF HeapTypes
<1>12. PICK n \in Nat : n = Len(heap[w].kids) + 1
  BY <1>3, <1>6, CellFacts
<1>13. PICK none \in Refs : none = <<>> /\ ToSet(none) = {}
  BY EmptyRefs DEF ToSet
<1>14. PICK r : r = [Value("IOREF", none) EXCEPT !.n = n]
  OBVIOUS
<1>15. r \in CellValue /\ r.rc = 1 /\ r.kids = none
  BY <1>14 DEF Value, CellValue, Tags
<1>16. PICK x \in Cells \ DOMAIN h : x = Fresh(1) /\ x \in Nat
  BY <1>1, <1>6, <1>10, FreshFacts, OneFacts
<1>17. h = [g EXCEPT ![w].kids = Append(@, v)]
  BY <1>7, <1>8, <1>9
<1>18. heap' = Alloc(h, x, r)
  BY <1>2, <1>4, <1>5, <1>12, <1>13, <1>14, <1>16, <1>17
<1>19. ToSet(r.kids) \subseteq DOMAIN h \union {NULL}
  BY <1>13, <1>15
<1>20. Tidy(heap', Freeing(stack))
  BY <1>10, <1>11, <1>15, <1>16, <1>18, <1>19, AllocTidy
<1>21. QED
  BY <1>1, <1>16, <1>20, LetTidy

LEMMA ReadSlotTidy ==
  ASSUME MemInv, TidyInv, ReadSlot
  PROVE  TidyInv'
<1>1. Doing("run")
  BY DEF ReadSlot, Statement
<1>2. PICK slot \in Slots :
        \/ heap' = heap /\ stack' = stack
        \/ /\ ~Unusable(slot)
           /\ heap' = newReference(heap, <<heap[slot[1]].kids[slot[2]]>>)
           /\ stack' = Let(heap[slot[1]].kids[slot[2]])
  BY DEF ReadSlot
<1>3. CASE heap' = heap /\ stack' = stack
  BY <1>3 DEF TidyInv, Freeing
<1>4. ASSUME ~Unusable(slot),
             heap' = newReference(heap, <<heap[slot[1]].kids[slot[2]]>>),
             stack' = Let(heap[slot[1]].kids[slot[2]])
      PROVE  TidyInv'
  <2>1. PICK a \in Named, i \in Nat : slot = <<a, i>> /\ i \in DOMAIN heap[a].kids
    BY <1>1, <1>4, SlotFacts
  <2>2. PICK v : v = heap[a].kids[i]
    OBVIOUS
  <2>3. a \in DOMAIN heap
    BY <1>1, NamedFacts
  <2>4. v \in Nat
    BY <2>1, <2>2, <2>3, TidyNow, CellFacts
  <2>5. heap' = newReference(heap, <<v>>) /\ stack' = Let(v) /\ <<v>> \in Refs
    BY <1>4, <2>1, <2>2, <2>4, TimesOne
  <2>6. Tidy(heap', Freeing(stack))
    BY <2>5, TidyNow, TakeTidy
  <2>7. QED
    BY <1>1, <2>4, <2>5, <2>6, LetTidy
<1>5. QED
  BY <1>2, <1>3, <1>4

LEMMA WriteSlotTidy ==
  ASSUME MemInv, TidyInv, WriteSlot
  PROVE  TidyInv'
<1>1. Doing("run") /\ heap' = heap
  BY DEF WriteSlot, Statement
<1>2. PICK slot \in Slots, v \in Named :
        \/ stack' = stack
        \/ /\ ~Unusable(slot)
           /\ stack' = <<Drop(heap[slot[1]].kids[slot[2]]), Store(slot[1], slot[2], v)>>
                         \o stack
  BY DEF WriteSlot
<1>3. CASE stack' = stack
  BY <1>1, <1>3 DEF TidyInv, Freeing
<1>4. ASSUME ~Unusable(slot),
             stack' = <<Drop(heap[slot[1]].kids[slot[2]]), Store(slot[1], slot[2], v)>> \o stack
      PROVE  TidyInv'
  <2>1. PICK a \in Named, i \in Nat : slot = <<a, i>> /\ i \in DOMAIN heap[a].kids
    BY <1>1, <1>4, SlotFacts
  <2>2. a \in DOMAIN heap /\ a \in Nat /\ v \in Nat
    BY <1>1, NamedFacts
  <2>3. PICK d \in Nat : d = heap[a].kids[i]
    BY <2>1, <2>2, TidyNow, CellFacts
  <2>4. PICK s \in Stacks : s = <<Drop(d), Store(a, i, v)>>
    <3>1. Drop(d) \in Entries /\ Store(a, i, v) \in Entries
      BY <2>2, MakeEntries
    <3>2. <<Drop(d), Store(a, i, v)>> \in Stacks
      BY <3>1 DEF Stacks
    <3>3. QED
      BY <3>2
  <2>5. stack' = s \o stack
    BY <1>4, <2>1, <2>3, <2>4
  <2>6. Tidy(heap', Freeing(stack))
    BY <1>1, TidyNow
  <2>7. QED
    BY <2>5, <2>6, TidyNow, OnTopTidy
<1>5. QED
  BY <1>2, <1>3, <1>4

LEMMA StoreNewTidy ==
  ASSUME MemInv, TidyInv, StoreNew
  PROVE  TidyInv'
<1>1. PICK e, v, a, i : e = Top /\ v = e.value /\ a = e.cell /\ i = e.at
  OBVIOUS
<1>2. /\ Doing("store") /\ stack' = Rest
      /\ heap' = [newReference(heap, <<v>>) EXCEPT ![a].kids[i] = v]
  BY <1>1 DEF StoreNew
<1>3. e \in Entries /\ e.do = "store" /\ Rest \in Stacks /\ stack = Push(e, Rest) /\ v \in Nat
  BY <1>1, <1>2, Doings, EntryFacts
<1>4. heap[a].tag \in {"ARRAY", "WORLD"} /\ a \in DOMAIN heap
  <2>1. <<a, i>> \in Writing(stack)
    BY <1>1, <1>3, PushWriting
  <2>2. QED
    BY <2>1, WrittenHeld DEF MemInv
<1>5. PICK g : g = newReference(heap, <<v>>)
  OBVIOUS
<1>6. <<v>> \in Refs
  BY <1>3, TimesOne
<1>7. HeapTypes(g) /\ DOMAIN g = DOMAIN heap /\ Tidy(g, Freeing(stack))
  BY <1>5, <1>6, TidyNow, TakeTidy
<1>8. g[a].tag = heap[a].tag
  BY <1>4, <1>5, <1>6, TidyNow, TakeFacts
<1>9. PICK kids : kids = [g[a].kids EXCEPT ![i] = v]
  OBVIOUS
<1>10. heap' = [g EXCEPT ![a].kids = kids]
  BY <1>2, <1>5, <1>9
<1>11. Tidy(heap', Freeing(stack))
  BY <1>4, <1>7, <1>8, <1>10, WriteTidy
<1>12. Freeing(stack) \subseteq Freeing(stack')
  BY <1>2, <1>3, FreeingPush
<1>13. Tidy(heap', Freeing(stack'))
  BY <1>11, <1>12, MoreFreed
<1>14. QED
  BY <1>13 DEF TidyInv, Freeing

LEMMA onCollectTidy ==
  ASSUME MemInv, TidyInv, onCollect
  PROVE  TidyInv'
<1>1. Doing("run") /\ Room(1) /\ stack' = Let(Fresh(1))
  BY DEF onCollect, Statement
<1>2. PICK p \in Named, fct \in Named :
        heap' = Alloc(newReference(heap, <<p, fct>>), Fresh(1), GCPointer(p, fct))
  BY DEF onCollect, Finalisers, Tagged
<1>3. p \in Nat /\ fct \in Nat /\ p \in DOMAIN heap /\ fct \in DOMAIN heap
  BY <1>1, NamedFacts
<1>4. PICK args \in Refs, kids \in Refs : args = <<p, fct>> /\ kids = <<fct, p>>
  BY <1>3, TimesTwo
<1>5. PICK g : g = newReference(heap, args)
  OBVIOUS
<1>6. HeapTypes(g) /\ DOMAIN g = DOMAIN heap /\ Tidy(g, Freeing(stack))
  BY <1>5, TidyNow, TakeTidy
<1>7. PICK x \in Cells \ DOMAIN heap : x = Fresh(1) /\ x \in Nat
  BY <1>1, FreshFacts, OneFacts
<1>8. ToSet(kids) \subseteq DOMAIN g \union {NULL}
  BY <1>3, <1>4, <1>6 DEF ToSet
<1>9. heap' = Alloc(g, x, Value("GC_POINTER", kids)) /\ "GC_POINTER" \in Tags
  BY <1>2, <1>4, <1>5, <1>7 DEF Tags, GCPointer
<1>10. Tidy(heap', Freeing(stack))
  BY <1>6, <1>7, <1>8, <1>9, ValueTidy
<1>11. QED
  BY <1>1, <1>7, <1>10, LetTidy

LEMMA onCollectAnyTidy ==
  ASSUME MemInv, TidyInv, onCollectAny
  PROVE  TidyInv'
<1>1. Doing("run") /\ Room(1) /\ stack' = Let(Fresh(1))
  BY DEF onCollectAny, Statement
<1>2. PICK p \in Named, fct \in Named :
        heap' = Alloc(heap, Fresh(1), [GCPointer(p, fct) EXCEPT !.owns = FALSE])
  BY DEF onCollectAny, Finalisers, Tagged
<1>3. p \in Nat /\ fct \in Nat
  BY <1>1, NamedFacts
<1>4. PICK kids \in Refs : kids = <<fct, p>>
  BY <1>3, TimesTwo
<1>5. PICK v : v = [Value("GC_POINTER", kids) EXCEPT !.owns = FALSE]
  OBVIOUS
<1>6. v \in CellValue /\ v.rc = 1 /\ v.owns = FALSE
  BY <1>5 DEF Value, CellValue, Tags
<1>7. PICK x \in Cells \ DOMAIN heap : x = Fresh(1) /\ x \in Nat
  BY <1>1, FreshFacts, OneFacts
<1>8. heap' = Alloc(heap, x, v)
  BY <1>2, <1>4, <1>5, <1>7 DEF GCPointer
<1>9. Tidy(heap', Freeing(stack))
  BY <1>6, <1>8, TidyNow, AllocTidy
<1>10. QED
  BY <1>1, <1>7, <1>9, LetTidy

LEMMA stringIteratorNewTidy ==
  ASSUME MemInv, TidyInv, stringIteratorNew
  PROVE  TidyInv'
<1>1. /\ Doing("run") /\ Room(4) /\ stack' = Let(Fresh(4))
      /\ heap' = Alloc(Alloc(makeClosureFromArglist("freeIterator", <<>>, 2),
                             Fresh(3), Value("POINTER", <<>>)),
                       Fresh(4), GCPointer(Fresh(3), Fresh(2)))
  BY DEF stringIteratorNew, Statement
<1>2. PICK x \in Cells \ DOMAIN heap, y \in Cells \ DOMAIN heap,
           z \in Cells \ DOMAIN heap, w \in Cells \ DOMAIN heap :
        /\ x = Fresh(1) /\ y = Fresh(2) /\ z = Fresh(3) /\ w = Fresh(4)
        /\ x # y /\ z \notin {x, y} /\ w \notin {x, y, z}
  BY <1>1, FreshFacts
<1>3. PICK args \in Refs : args = <<>> /\ ToSet(args) = {}
  BY EmptyRefs DEF ToSet
<1>4. PICK f \in {"code", "freeIterator"}, total \in Nat : f = "freeIterator" /\ total = 2
  OBVIOUS
<1>5. PICK k, q : k = makeClosureFromArglist(f, args, total) /\ q = Freeing(stack)
  OBVIOUS
<1>6. HeapTypes(heap) /\ Tidy(heap, q)
  BY <1>5, TidyNow
<1>7. HeapTypes(k) /\ DOMAIN k = DOMAIN heap \union {x, y} /\ Tidy(k, q)
  <2>1. ToSet(args) \subseteq DOMAIN heap \union {NULL}
    BY <1>3
  <2>2. Tidy(k, q)
    BY <1>2, <1>5, <1>6, <2>1, ClosureTidy
  <2>3. HeapTypes(k)
    BY <1>2, <1>5, <1>6, <2>1, ClosureTypes
  <2>4. DOMAIN k = DOMAIN heap \union {x, y}
    BY <1>2, <1>5, <1>6, <2>1, ClosureTypes
  <2>5. QED
    BY <2>2, <2>3, <2>4
<1>8. PICK g : g = Alloc(k, z, Value("POINTER", args))
  OBVIOUS
<1>9. HeapTypes(g) /\ DOMAIN g = DOMAIN k \union {z} /\ Tidy(g, q)
  <2>1. PICK tag \in Tags : tag = "POINTER"
    BY DEF Tags
  <2>2. g = Alloc(k, z, Value(tag, args)) /\ z \in Cells \ DOMAIN k
    BY <1>2, <1>7, <1>8, <2>1
  <2>3. ToSet(args) \subseteq DOMAIN k \union {NULL}
    BY <1>3
  <2>4. HeapTypes(g)
    BY <1>7, <2>2, <2>3, ValueTidy
  <2>5. DOMAIN g = DOMAIN k \union {z}
    BY <1>7, <2>2, <2>3, ValueTidy
  <2>6. Tidy(g, q)
    BY <1>7, <2>2, <2>3, ValueTidy
  <2>7. QED
    BY <2>4, <2>5, <2>6
<1>10. x \in Nat /\ y \in Nat /\ z \in Nat /\ w \in Nat
  BY OneFacts
<1>11. PICK kids \in Refs : kids = <<y, z>>
  BY <1>10, TimesTwo
<1>12. ToSet(kids) \subseteq DOMAIN g \union {NULL}
  BY <1>7, <1>9, <1>11 DEF ToSet
<1>13. heap' = Alloc(g, w, Value("GC_POINTER", kids)) /\ w \in Cells \ DOMAIN g
  BY <1>1, <1>2, <1>3, <1>4, <1>5, <1>7, <1>8, <1>9, <1>11 DEF GCPointer
<1>14. Tidy(heap', Freeing(stack))
  BY <1>5, <1>9, <1>12, <1>13, ValueTidy DEF Tags
<1>15. QED
  BY <1>1, <1>2, <1>10, <1>14, LetTidy

LEMMA stringIteratorNextTidy ==
  ASSUME MemInv, TidyInv, stringIteratorNext
  PROVE  TidyInv'
<1>1. Doing("run") /\ Room(2) /\ stack' = Let(Fresh(2))
  BY DEF stringIteratorNext, Statement
<1>2. PICK it \in Named :
        heap' = Alloc(Alloc(newReference(heap, <<it>>), Fresh(1), Value("CHAR", <<>>)),
                      Fresh(2), Value("CONSTRUCTOR", <<Fresh(1), it>>))
  BY DEF stringIteratorNext, Tagged
<1>3. it \in Nat /\ it \in DOMAIN heap
  BY <1>1, NamedFacts
<1>4. PICK x \in Cells \ DOMAIN heap, y \in Cells \ DOMAIN heap :
        x = Fresh(1) /\ y = Fresh(2) /\ x # y /\ x \in Nat /\ y \in Nat
  BY <1>1, FreshFacts, OneFacts
<1>5. PICK args \in Refs : args = <<it>>
  BY <1>3, TimesOne
<1>6. PICK g, q : g = newReference(heap, args) /\ q = Freeing(stack)
  OBVIOUS
<1>7. HeapTypes(g) /\ DOMAIN g = DOMAIN heap /\ Tidy(g, q)
  BY <1>6, TidyNow, TakeTidy
<1>8. PICK none \in Refs : none = <<>> /\ ToSet(none) = {}
  BY EmptyRefs DEF ToSet
<1>9. PICK k : k = Alloc(g, x, Value("CHAR", none))
  OBVIOUS
<1>10. HeapTypes(k) /\ DOMAIN k = DOMAIN g \union {x} /\ Tidy(k, q)
  <2>1. PICK tag \in Tags : tag = "CHAR"
    BY DEF Tags
  <2>2. k = Alloc(g, x, Value(tag, none)) /\ x \in Cells \ DOMAIN g
    BY <1>4, <1>7, <1>9, <2>1
  <2>3. ToSet(none) \subseteq DOMAIN g \union {NULL}
    BY <1>8
  <2>4. QED
    BY <1>7, <2>2, <2>3, ValueTidy
<1>11. PICK kids \in Refs : kids = <<x, it>>
  BY <1>3, <1>4, TimesTwo
<1>12. ToSet(kids) \subseteq DOMAIN k \union {NULL}
  BY <1>3, <1>7, <1>10, <1>11 DEF ToSet
<1>13. heap' = Alloc(k, y, Value("CONSTRUCTOR", kids)) /\ y \in Cells \ DOMAIN k
  BY <1>2, <1>4, <1>5, <1>6, <1>7, <1>8, <1>9, <1>10, <1>11
<1>14. Tidy(heap', Freeing(stack))
  BY <1>6, <1>10, <1>12, <1>13, ValueTidy DEF Tags
<1>15. QED
  BY <1>1, <1>4, <1>14, LetTidy

LEMMA stringIteratorToStringTidy ==
  ASSUME MemInv, TidyInv, stringIteratorToString
  PROVE  TidyInv'
<1>1. Doing("run") /\ Room(2)
  BY DEF stringIteratorToString, Statement
<1>2. PICK cl \in Tagged("CLOSURE") :
        LET args == Append(heap[heap[cl].kids[1]].kids, Fresh(1))
            made == Alloc(heap, Fresh(1), Value("STRING", <<>>))
        IN  /\ heap' = Alloc(newReference(made, args), Fresh(2), Arglist(args, Total(cl)))
            /\ stack' = <<Run(heap[cl].f, Fresh(2), <<>>)>> \o stack
  BY DEF stringIteratorToString
<1>3. cl \in DOMAIN heap /\ heap[cl].rc > 0 /\ heap[cl].tag = "CLOSURE"
  BY <1>1, NamedFacts DEF Tagged
<1>4. /\ heap[cl].f \in {"code", "freeIterator"} /\ Total(cl) \in Nat
      /\ heap[heap[cl].kids[1]].kids \in Refs /\ Alive(heap, heap[heap[cl].kids[1]].kids)
  BY <1>3, ClosureFacts DEF MemInv
<1>5. PICK f \in {"code", "freeIterator"}, total \in Nat, old \in Refs :
        f = heap[cl].f /\ total = Total(cl) /\ old = heap[heap[cl].kids[1]].kids
  BY <1>4
<1>6. PICK x \in Cells \ DOMAIN heap, y \in Cells \ DOMAIN heap :
        x = Fresh(1) /\ y = Fresh(2) /\ x # y /\ x \in Nat /\ y \in Nat
  BY <1>1, FreshFacts, OneFacts
<1>7. PICK none \in Refs : none = <<>> /\ ToSet(none) = {}
  BY EmptyRefs DEF ToSet
<1>8. PICK g, q : g = Alloc(heap, x, Value("STRING", none)) /\ q = Freeing(stack)
  OBVIOUS
<1>9. HeapTypes(g) /\ DOMAIN g = DOMAIN heap \union {x} /\ Tidy(g, q)
  <2>1. PICK tag \in Tags : tag = "STRING"
    BY DEF Tags
  <2>2. g = Alloc(heap, x, Value(tag, none))
    BY <1>8, <2>1
  <2>3. ToSet(none) \subseteq DOMAIN heap \union {NULL}
    BY <1>7
  <2>4. HeapTypes(heap) /\ Tidy(heap, q)
    BY <1>8, TidyNow
  <2>5. QED
    BY <1>6, <2>2, <2>3, <2>4, ValueTidy
<1>10. PICK args \in Refs : args = Append(old, x)
  BY <1>6, TimesAppend
<1>11. ToSet(args) \subseteq DOMAIN g \union {NULL}
  <2>1. ToSet(old) \subseteq DOMAIN heap \union {NULL}
    BY <1>4, <1>5, AliveKids
  <2>2. \A i \in DOMAIN args : args[i] \in ToSet(old) \/ args[i] = x
    <3>1. old \in Seq(Nat) /\ Len(old) \in Nat /\ DOMAIN old = 1 .. Len(old)
      BY SeqFacts DEF Refs
    <3>2. \A i \in 1 .. Len(old) + 1 : args[i] = IF i <= Len(old) THEN old[i] ELSE x
      BY <1>10, <3>1
    <3>3. DOMAIN args = 1 .. Len(old) + 1
      BY <1>10, <3>1
    <3>4. QED
      BY <3>1, <3>2, <3>3 DEF ToSet
  <2>3. QED
    BY <1>9, <2>1, <2>2 DEF ToSet
<1>12. heap' = Alloc(newReference(g, args), y, Arglist(args, total)) /\ y \in Cells \ DOMAIN g
  BY <1>2, <1>5, <1>6, <1>7, <1>8, <1>9, <1>10
<1>13. Tidy(heap', Freeing(stack))
  BY <1>8, <1>9, <1>11, <1>12, ArglistTidy
<1>14. PICK s \in Stacks : s = <<Run(f, y, <<>>)>>
  BY <1>6, MakeEntries, EmptyRefs, StackSingle
<1>15. stack' = s \o stack
  BY <1>2, <1>5, <1>6, <1>14
<1>16. QED
  BY <1>13, <1>15, TidyNow, OnTopTidy

(* apply_closure makes an arglist, and perhaps a closure. *)
LEMMA ArglistThere ==
  ASSUME NEW h, HeapTypes(h), NEW q, Tidy(h, q), NEW total \in Nat, NEW args \in Refs,
         Alive(h, args), NEW x \in Cells \ DOMAIN h,
         NEW k, k = Alloc(newReference(h, args), x, Arglist(args, total))
  PROVE  HeapTypes(k) /\ DOMAIN h \subseteq DOMAIN k /\ Tidy(k, q)
<1>1. ToSet(args) \subseteq DOMAIN h \union {NULL}
  BY AliveKids
<1>2. HeapTypes(k) /\ DOMAIN k = DOMAIN h \union {x} /\ Tidy(k, q)
  BY <1>1, ArglistTidy
<1>3. QED
  BY <1>2

LEMMA ClosureThere ==
  ASSUME HeapTypes(heap), NEW q, Tidy(heap, q), NEW f \in {"code", "freeIterator"},
         NEW total \in Nat, NEW args \in Refs, Alive(heap, args), Room(2),
         NEW k, k = makeClosureFromArglist(f, args, total)
  PROVE  HeapTypes(k) /\ DOMAIN heap \subseteq DOMAIN k /\ Tidy(k, q)
<1>1. ToSet(args) \subseteq DOMAIN heap \union {NULL}
  BY AliveKids
<1>2. PICK x \in Cells \ DOMAIN heap, y \in Cells \ DOMAIN heap :
        x = Fresh(1) /\ y = Fresh(2) /\ x # y
  BY FreshFacts
<1>3. HeapTypes(k) /\ DOMAIN k = DOMAIN heap \union {x, y} /\ Tidy(k, q)
  BY <1>1, <1>2, ClosureTidy
<1>4. QED
  BY <1>3

LEMMA ApplyTidy ==
  ASSUME MemInv, TidyInv, NEW t, NEW l, Inv(heap, t, l), NEW cl \in DOMAIN heap,
         heap[cl].rc > 0, heap[cl].tag = "CLOSURE",
         NEW arg \in Nat, arg # NULL => arg \in DOMAIN heap /\ heap[arg].rc > 0,
         RoomToApply(cl, arg), NEW k, k = HeapApplied(cl, arg)
  PROVE  HeapTypes(k) /\ DOMAIN heap \subseteq DOMAIN k /\ Tidy(k, Freeing(stack))
<1>1. PICK f \in {"code", "freeIterator"}, total \in Nat, args \in Refs :
        f = heap[cl].f /\ total = Total(cl) /\ args = Applied(cl, arg) /\ Alive(heap, args)
  BY ApplyFacts
<1>2. PICK q : q = Freeing(stack)
  OBVIOUS
<1>3. HeapTypes(heap) /\ Tidy(heap, q)
  BY <1>2, TidyNow
<1>4. CASE Complete(cl, arg)
  <2>1. PICK x \in Cells \ DOMAIN heap : x = Fresh(1)
    BY <1>4, FreshFacts DEF RoomToApply
  <2>2. k = Alloc(newReference(heap, args), x, Arglist(args, total))
    BY <1>1, <1>4, <2>1 DEF HeapApplied
  <2>3. HeapTypes(k) /\ DOMAIN heap \subseteq DOMAIN k /\ Tidy(k, q)
    BY <1>1, <1>3, <2>2, ArglistThere
  <2>4. QED
    BY <1>2, <2>3
<1>5. CASE ~Complete(cl, arg)
  <2>1. Room(2)
    BY <1>5 DEF RoomToApply
  <2>2. k = makeClosureFromArglist(f, args, total)
    BY <1>1, <1>5 DEF HeapApplied
  <2>3. HeapTypes(k) /\ DOMAIN heap \subseteq DOMAIN k /\ Tidy(k, q)
    BY <1>1, <1>3, <2>1, <2>2, ClosureThere
  <2>4. QED
    BY <1>2, <2>3
<1>6. QED
  BY <1>4, <1>5

LEMMA FinaliseTidy ==
  ASSUME MemInv, TidyInv, Finalise
  PROVE  TidyInv'
<1>1. PICK c : c = Top.cell
  OBVIOUS
<1>2. PICK fct, p : fct = heap[c].kids[1] /\ p = heap[c].kids[2]
  OBVIOUS
<1>3. PICK j, e : j = HeapApplied(fct, p) /\ e = Applying(fct, p)
  OBVIOUS
<1>4. /\ Doing("drop") /\ RoomToApply(fct, p)
      /\ heap' = [j EXCEPT ![c].rc = 0, ![c].kids = <<>>]
      /\ stack' = <<e, Awaits1, Drop(fct), Drop(p), Free(c)>> \o Rest
  BY <1>1, <1>2, <1>3 DEF Finalise
<1>5. /\ c \in Nat \ {NULL} /\ c \in DOMAIN heap
      /\ fct \in DOMAIN heap /\ heap[fct].rc > 0 /\ heap[fct].tag = "CLOSURE"
      /\ p \in Nat /\ (p # NULL => p \in DOMAIN heap /\ heap[p].rc > 0)
      /\ fct \in Nat /\ Rest \in Stacks /\ Inv(heap, Rest, Append(leaked, c))
  BY <1>1, <1>2, Finalised
<1>6. HeapTypes(j) /\ DOMAIN heap \subseteq DOMAIN j /\ Tidy(j, Freeing(stack))
  BY <1>3, <1>4, <1>5, ApplyTidy
<1>7. PICK z \in Nat : Launch(j, e, z)
  BY <1>3, <1>4, <1>5, ApplyInv
<1>8. PICK e1 \in Entries, e2 \in Entries, e3 \in Entries, e4 \in Entries, e5 \in Entries :
        e1 = e /\ e2 = Awaits1 /\ e3 = Drop(fct) /\ e4 = Drop(p) /\ e5 = Free(c)
  BY <1>5, <1>7, LaunchEntry, MakeEntries
<1>9. PICK u \in Stacks : u = <<e1, e2, e3, e4>>
  BY FourthEntry
<1>10. stack' = u \o Push(Free(c), Rest)
  <2>1. PICK v \in Stacks : v = <<e1, e2, e3, e4, e5>>
    <3>1. <<e1, e2, e3, e4, e5>> \in Stacks
      BY DEF Stacks
    <3>2. QED
      BY <3>1
  <2>2. Len(v) = 5 /\ v[1] = e1 /\ v[2] = e2 /\ v[3] = e3 /\ v[4] = e4 /\ v[5] = e5
    BY <2>1
  <2>3. v \o Rest = <<v[1], v[2], v[3], v[4]>> \o Push(v[5], Rest)
    BY <1>5, <2>2, PushFive
  <2>4. QED
    BY <1>4, <1>8, <1>9, <2>1, <2>2, <2>3, Zenon
<1>11. c \in DOMAIN j
  BY <1>5, <1>6
<1>12. QED
  BY <1>4, <1>5, <1>6, <1>10, <1>11, LastTidy

LEMMA ApplyClosure1Tidy ==
  ASSUME MemInv, TidyInv, ApplyClosure1
  PROVE  TidyInv'
<1>1. PICK d, u : d = Top.cell /\ u = Tail(Rest)
  OBVIOUS
<1>2. PICK e, k, nobody :
        e = Applying(d, nobody) /\ k = heap' /\ nobody = NULL /\ nobody \in Nat
  BY DEF NULL
<1>3. /\ Doing("deliver") /\ First(Rest) = Awaits1 /\ Top.cell # NULL
      /\ heap[d].tag = "CLOSURE" /\ RoomToApply(d, nobody)
      /\ k = HeapApplied(d, nobody) /\ stack' = <<e, Forget, Drop(d)>> \o u
  BY <1>1, <1>2 DEF ApplyClosure1
<1>4. /\ d \in Nat \ {NULL} /\ d \in DOMAIN heap /\ heap[d].rc > 0
      /\ u \in Stacks /\ Rest = Push(Awaits1, u) /\ Inv(heap, u, Append(leaked, d))
  BY <1>1, <1>3, Awaited
<1>5. Tidy(k, Freeing(stack))
  BY <1>2, <1>3, <1>4, ApplyTidy
<1>6. PICK z \in Nat : Launch(k, e, z)
  BY <1>2, <1>3, <1>4, ApplyInv
<1>7. PICK s \in Stacks : s = <<e, Forget, Drop(d)>>
  <2>1. PICK e1 \in Entries, e2 \in Entries, e3 \in Entries : e1 = e /\ e2 = Forget /\ e3 = Drop(d)
    BY <1>4, <1>6, LaunchEntry, MakeEntries
  <2>2. <<e1, e2, e3>> \in Stacks
    BY <1>4, PushThree
  <2>3. QED
    BY <2>1, <2>2
<1>8. Freeing(stack) \subseteq Freeing(u)
  <2>1. Top \in Entries /\ Top.do = "deliver" /\ Rest \in Stacks /\ stack = Push(Top, Rest)
    BY <1>3, Doings
  <2>2. Freeing(stack) \subseteq Freeing(Rest)
    BY <2>1, FreeingPush
  <2>3. PICK a \in Entries : a = Awaits1 /\ a.do = "closure1"
    BY MakeEntries
  <2>4. Freeing(Rest) \subseteq Freeing(u)
    BY <1>4, <2>3, FreeingPush
  <2>5. QED
    BY <2>2, <2>4
<1>9. stack' = s \o u /\ Tidy(heap', Freeing(stack))
  BY <1>2, <1>3, <1>5, <1>7
<1>10. QED
  BY <1>4, <1>8, <1>9, OnTopTidy

LEMMA NotClosure1Tidy ==
  ASSUME MemInv, TidyInv, NotClosure1
  PROVE  TidyInv'
<1>1. UNCHANGED <<heap, stack>>
  BY DEF NotClosure1
<1>2. QED
  BY <1>1 DEF TidyInv, Freeing

LEMMA FinaliseAnyTidy ==
  ASSUME MemInv, TidyInv, FinaliseAny
  PROVE  TidyInv'
<1>1. UNCHANGED <<heap, stack>>
  BY DEF FinaliseAny
<1>2. QED
  BY <1>1 DEF TidyInv, Freeing

LEMMA InitTidy ==
  ASSUME Init
  PROVE  TidyInv
<1>1. DOMAIN heap = {1} /\ heap[1] = Value("WORLD", <<>>)
  BY DEF Init
<1>2. heap[1].tag = "WORLD" /\ heap[1].rc = 1
  BY <1>1 DEF Value
<1>3. \A p \in DOMAIN heap : Fixed(heap, p) = {}
  BY <1>1, <1>2 DEF Fixed
<1>4. Acyclic(heap, DOMAIN heap)
  BY <1>3 DEF Acyclic
<1>5. \A c \in DOMAIN heap : heap[c].rc # 0
  BY <1>1, <1>2
<1>6. QED
  BY <1>3, <1>4, <1>5 DEF TidyInv, Tidy

LEMMA NextTidy ==
  ASSUME MemInv, TidyInv, [Next]_vars
  PROVE  TidyInv'
<1>1. CASE newConstructor
  BY <1>1, newConstructorTidy
<1>2. CASE UnderApplied
  BY <1>2, UnderAppliedTidy
<1>3. CASE makePointer
  BY <1>3, makePointerTidy
<1>4. CASE Alias
  BY <1>4, AliasTidy
<1>5. CASE EndOfBlock
  BY <1>5, EndOfBlockTidy
<1>6. CASE Call
  BY <1>6, CallTidy
<1>7. CASE apply_closure
  BY <1>7, apply_closureTidy
<1>8. CASE Return
  BY <1>8, ReturnTidy
<1>9. CASE ReturnNull
  BY <1>9, ReturnNullTidy
<1>10. CASE TailCall
  BY <1>10, TailCallTidy
<1>11. CASE tailcall_apply_closure
  BY <1>11, tailcall_apply_closureTidy
<1>12. CASE Bounce
  BY <1>12, BounceTidy
<1>13. CASE Arrive
  BY <1>13, ArriveTidy
<1>14. CASE RemoveReference
  BY <1>14, RemoveReferenceTidy
<1>15. CASE RemoveNull
  BY <1>15, RemoveNullTidy
<1>16. CASE RemoveLast
  BY <1>16, RemoveLastTidy
<1>17. CASE FreeValue
  BY <1>17, FreeValueTidy
<1>18. CASE Finalise
  BY <1>18, FinaliseTidy
<1>19. CASE FinaliseAny
  BY <1>19, FinaliseAnyTidy
<1>20. CASE newIORef
  BY <1>20, newIORefTidy
<1>21. CASE newArray
  BY <1>21, newArrayTidy
<1>22. CASE ReadSlot
  BY <1>22, ReadSlotTidy
<1>23. CASE WriteSlot
  BY <1>23, WriteSlotTidy
<1>24. CASE StoreNew
  BY <1>24, StoreNewTidy
<1>25. CASE onCollect
  BY <1>25, onCollectTidy
<1>26. CASE onCollectAny
  BY <1>26, onCollectAnyTidy
<1>27. CASE stringIteratorNew
  BY <1>27, stringIteratorNewTidy
<1>28. CASE stringIteratorNext
  BY <1>28, stringIteratorNextTidy
<1>29. CASE stringIteratorToString
  BY <1>29, stringIteratorToStringTidy
<1>30. CASE UNCHANGED vars
  BY <1>30 DEF TidyInv, Freeing, vars
<1>31. CASE makeWorld
  BY <1>31, makeWorldTidy
<1>32. CASE ApplyClosure1
  BY <1>32, ApplyClosure1Tidy
<1>33. CASE NotClosure1
  BY <1>33, NotClosure1Tidy
<1>34. QED
  BY <1>1, <1>2, <1>3, <1>4, <1>5, <1>6, <1>7, <1>8, <1>9, <1>10, <1>11, <1>12, <1>13, <1>14,
     <1>15, <1>16, <1>17, <1>18, <1>19, <1>20, <1>21, <1>22, <1>23, <1>24, <1>25, <1>26, <1>27,
     <1>28, <1>29, <1>30, <1>31, <1>32, <1>33, Zenon DEF Next

(* Only values that are being freed have lost their last reference, and no  *)
(* value holds itself, but through an array or the world, in every state    *)
(* of every program.                                                        *)
THEOREM TidyMemory == Spec => []TidyInv
<1>1. Init => TidyInv
  BY InitTidy
<1>2. MemInv /\ TidyInv /\ [Next]_vars => TidyInv'
  BY NextTidy
<1>3. QED
  BY <1>1, <1>2, MemoryInvariant, PTL DEF Spec

-----------------------------------------------------------------------------
(* What nobody can reach. *)

Unreached == DOMAIN heap \ Reach(Roots)

(* The unreached values from which c can be reached. *)
Above(c) == {u \in Unreached : c \in Reach({u})}

LEMMA RootsNat ==
  ASSUME MemInv
  PROVE  Roots \in SUBSET Nat
<1>1. stack \in Stacks /\ leaked \in Refs
  BY DEF MemInv, Inv
<1>2. ASSUME NEW k \in DOMAIN stack, NEW c \in ToSet(OwnedBy(stack[k])) PROVE c \in Nat
  <2>1. PICK s \in Refs : s = OwnedBy(stack[k])
    BY <1>1, StackRowsRows, OwnedByRefs
  <2>2. QED
    BY <2>1, SeqFacts DEF ToSet
<1>3. ToSet(leaked) \subseteq Nat
  BY <1>1, SeqFacts DEF ToSet
<1>4. QED
  BY <1>2, <1>3 DEF Roots

LEMMA KidsNat ==
  ASSUME HeapTypes(heap), NEW c \in DOMAIN heap
  PROVE  ToSet(heap[c].kids) \in SUBSET Nat /\ {c} \in SUBSET Nat
BY CellFacts DEF ToSet

(* What is reached from what is reached is reached. *)
LEMMA ReachMore ==
  ASSUME HeapTypes(heap), NEW A \in SUBSET Nat, NEW B \in SUBSET Nat,
         A \intersect DOMAIN heap \subseteq Reach(B)
  PROVE  Reach(A) \intersect DOMAIN heap \subseteq Reach(B)
<1>1. Closed(Reach(B))
  BY ReachFacts
<1>2. \A X : Closed(X) /\ A \intersect DOMAIN heap \subseteq X =>
              Reach(A) \intersect DOMAIN heap \subseteq X
  BY ReachFacts
<1>3. QED
  BY <1>1, <1>2

(* A value that nobody can reach and that is not being freed is held by     *)
(* another one.                                                             *)
LEMMA UnreachedHeld ==
  ASSUME MemInv, TidyInv, NEW m \in Unreached, \A k \in DOMAIN stack : stack[k] # Free(m)
  PROVE  \E p \in Unreached : heap[p].owns /\ m \in ToSet(heap[p].kids)
<1>1. HeapTypes(heap) /\ stack \in Stacks /\ leaked \in Refs /\ Balanced(heap, stack, leaked)
  BY DEF MemInv, Inv
<1>2. m \in DOMAIN heap /\ m \notin Reach(Roots)
  BY DEF Unreached
<1>3. m \in Nat \ {NULL} /\ heap[m].rc \in Nat
  BY <1>1, <1>2, CellFacts
<1>4. heap[m].rc # 0
  <2>1. ASSUME heap[m].rc = 0 PROVE FALSE
    <3>1. m \in Freeing(stack)
      BY <1>2, <2>1 DEF TidyInv, Tidy
    <3>2. PICK k \in DOMAIN stack : stack[k].do = "free" /\ stack[k].cell = m
      BY <3>1 DEF Freeing
    <3>3. stack[k] \in Entries
      BY <1>1, StackRowsRows
    <3>4. stack[k] = Free(m)
      BY <3>2, <3>3, EntryForms
    <3>5. QED
      BY <3>4
  <2>2. QED
    BY <2>1
<1>5. Want(heap, stack, leaked, m) # 0
  BY <1>1, <1>2, <1>3, <1>4 DEF Balanced, Count
<1>6. Roots \subseteq Reach(Roots) /\ Closed(Reach(Roots))
  BY <1>1, RootsNat, ReachFacts
<1>7. m \notin Roots
  BY <1>2, <1>6
<1>8. Times(m, leaked) = 0
  BY <1>1, <1>3, <1>7, TimesNat DEF Roots
<1>9. OnStack(stack, m) = 0
  <2>1. PICK f : f = StackRows(stack)
    OBVIOUS
  <2>2. Rows(f) /\ DOMAIN f = DOMAIN stack /\ \A k \in DOMAIN stack : f[k] = OwnedBy(stack[k])
    BY <1>1, <2>1, StackRowsRows
  <2>3. \A k \in DOMAIN f : m \notin ToSet(f[k])
    BY <1>3, <1>7, <2>2 DEF Roots
  <2>4. Holding(f, m) = 0
    BY <2>2, <2>3, HoldingNat
  <2>5. QED
    BY <2>1, <2>4 DEF OnStack
<1>10. InHeap(heap, Writing(stack), m) # 0
  BY <1>5, <1>8, <1>9 DEF Want
<1>11. PICK p \in DOMAIN heap : m \in ToSet(SlotsOf(heap, Writing(stack), p))
  <2>1. PICK f : f = HeapRows(heap, Writing(stack))
    OBVIOUS
  <2>2. Rows(f) /\ Holding(f, m) # 0
    BY <1>1, <1>10, <2>1, HeapRowsRows DEF InHeap
  <2>3. PICK p \in DOMAIN f : m \in ToSet(f[p])
    BY <2>2, HoldingNat
  <2>4. p \in DOMAIN heap /\ f[p] = SlotsOf(heap, Writing(stack), p)
    BY <2>1 DEF HeapRows
  <2>5. QED
    BY <2>3, <2>4
<1>12. PICK i \in DOMAIN heap[p].kids : heap[p].owns /\ heap[p].kids[i] = m
  BY <1>3, <1>11 DEF SlotsOf, ToSet
<1>13. m \in ToSet(heap[p].kids)
  BY <1>12 DEF ToSet
<1>14. p \notin Reach(Roots)
  BY <1>2, <1>6, <1>13 DEF Closed
<1>15. QED
  BY <1>12, <1>13, <1>14 DEF Unreached

LEMMA AboveFacts ==
  ASSUME MemInv, NEW c \in Unreached
  PROVE  /\ Above(c) \subseteq DOMAIN heap /\ c \in Above(c)
         /\ IsFiniteSet(Above(c)) /\ Cardinality(Above(c)) \in Nat
         /\ \A p \in Unreached : \A m \in Above(c) : m \in ToSet(heap[p].kids) => p \in Above(c)
         /\ \A p \in Above(c) : Above(p) \subseteq Above(c)
<1>1. HeapTypes(heap)
  BY DEF MemInv, Inv
<1>2. Above(c) \subseteq DOMAIN heap /\ c \in DOMAIN heap
  BY DEF Above, Unreached
<1>3. c \in Above(c)
  BY <1>1, <1>2, KidsNat, ReachFacts DEF Above
<1>4. IsFiniteSet(Above(c)) /\ Cardinality(Above(c)) \in Nat
  <2>1. IsFiniteSet(Cells)
    BY BoundsAssumption, FS_Interval DEF Cells
  <2>2. Above(c) \subseteq Cells
    BY <1>1, <1>2 DEF HeapTypes
  <2>3. QED
    BY <2>1, <2>2, FS_Subset, FS_CardinalityType
<1>5. ASSUME NEW p \in Unreached, NEW m \in Above(c), m \in ToSet(heap[p].kids)
      PROVE  p \in Above(c)
  <2>1. p \in DOMAIN heap /\ m \in DOMAIN heap /\ c \in Reach({m})
    BY <1>2 DEF Above, Unreached
  <2>2. {p} \in SUBSET Nat /\ {m} \in SUBSET Nat
    BY <1>1, <2>1, KidsNat
  <2>3. p \in Reach({p}) /\ Closed(Reach({p}))
    BY <1>1, <2>2, ReachFacts
  <2>4. m \in Reach({p})
    BY <1>5, <2>1, <2>3 DEF Closed
  <2>5. Reach({m}) \intersect DOMAIN heap \subseteq Reach({p})
    BY <1>1, <2>2, <2>4, ReachMore
  <2>6. QED
    BY <1>2, <2>1, <2>5 DEF Above
<1>6. ASSUME NEW p \in Above(c), NEW u \in Above(p) PROVE u \in Above(c)
  <2>1. /\ p \in DOMAIN heap /\ u \in DOMAIN heap /\ u \in Unreached
        /\ c \in Reach({p}) /\ p \in Reach({u})
    BY DEF Above, Unreached
  <2>2. {p} \in SUBSET Nat /\ {u} \in SUBSET Nat
    BY <1>1, <2>1, KidsNat
  <2>3. Reach({p}) \intersect DOMAIN heap \subseteq Reach({u})
    BY <1>1, <2>1, <2>2, ReachMore
  <2>4. QED
    BY <1>2, <2>1, <2>3 DEF Above
<1>7. QED
  BY <1>2, <1>3, <1>4, <1>5, <1>6

(* The highest values above an unreached one are on a cycle, which goes     *)
(* through an array or the world.                                           *)
LEMMA UnreachedCycle ==
  ASSUME MemInv, TidyInv, NEW c \in Unreached,
         \A u \in Above(c) : \A k \in DOMAIN stack : stack[k] # Free(u)
  PROVE  \E d \in DOMAIN heap : /\ heap[d].tag \in {"ARRAY", "WORLD"}
                                /\ d \in Reach(ToSet(heap[d].kids))
                                /\ c \in Reach({d})
<1>1. HeapTypes(heap)
  BY DEF MemInv, Inv
<1>2. PICK e \in Above(c) : \A u \in Above(c) : Cardinality(Above(e)) <= Cardinality(Above(u))
  <2> DEFINE S == {Cardinality(Above(u)) : u \in Above(c)}
  <2>1. S \in SUBSET Nat /\ S # {}
    <3>1. \A u \in Above(c) : Cardinality(Above(u)) \in Nat
      BY AboveFacts DEF Above
    <3>2. c \in Above(c)
      BY AboveFacts
    <3>3. QED
      BY <3>1, <3>2
  <2> HIDE DEF S
  <2>2. PICK x \in S : \A y \in S : x <= y
    BY <2>1, LeastNumber
  <2>3. QED
    BY <2>2 DEF S
<1>3. e \in Unreached /\ Above(e) \subseteq Above(c)
  BY AboveFacts DEF Above
<1>4. /\ Above(e) \subseteq DOMAIN heap /\ e \in Above(e) /\ IsFiniteSet(Above(e))
      /\ \A p \in Unreached : \A m \in Above(e) : m \in ToSet(heap[p].kids) => p \in Above(e)
      /\ \A p \in Above(e) : Above(p) \subseteq Above(e)
  BY <1>3, AboveFacts
<1>5. PICK m \in Above(e) : \A p \in Above(e) : m \notin Fixed(heap, p)
  BY <1>4 DEF TidyInv, Tidy, Acyclic
<1>6. m \in Unreached /\ m \in Above(c)
  BY <1>3 DEF Above
<1>7. PICK d \in Unreached : heap[d].owns /\ m \in ToSet(heap[d].kids)
  BY <1>6, UnreachedHeld
<1>8. d \in Above(e)
  BY <1>4, <1>7
<1>9. heap[d].tag \in {"ARRAY", "WORLD"}
  BY <1>5, <1>7, <1>8 DEF Fixed
<1>10. m \in Above(d)
  <2>1. Above(d) \subseteq Above(e) /\ d \in Above(c)
    BY <1>3, <1>4, <1>8
  <2>2. Cardinality(Above(e)) <= Cardinality(Above(d))
    BY <1>2, <2>1
  <2>3. IsFiniteSet(Above(d)) /\ Cardinality(Above(d)) \in Nat /\ Cardinality(Above(e)) \in Nat
    BY <1>3, <1>7, AboveFacts
  <2>4. PICK A, B : A = Above(d) /\ B = Above(e)
    OBVIOUS
  <2>5. A \in SUBSET B /\ IsFiniteSet(B)
    BY <1>4, <2>1, <2>4
  <2>6. Cardinality(A) <= Cardinality(B) /\ (Cardinality(B) = Cardinality(A) => B = A)
    BY <2>5, FS_Subset
  <2>7. A = B
    BY <2>2, <2>3, <2>4, <2>6
  <2>8. QED
    BY <2>4, <2>7
<1>11. d \in DOMAIN heap /\ m \in DOMAIN heap /\ d \in Reach({m})
  BY <1>10 DEF Above, Unreached
<1>12. d \in Reach(ToSet(heap[d].kids))
  <2>1. ToSet(heap[d].kids) \in SUBSET Nat /\ {m} \in SUBSET Nat
    BY <1>1, <1>11, KidsNat
  <2>2. m \in Reach(ToSet(heap[d].kids))
    BY <1>1, <1>7, <2>1, ReachFacts
  <2>3. Reach({m}) \intersect DOMAIN heap \subseteq Reach(ToSet(heap[d].kids))
    BY <1>1, <2>1, <2>2, ReachMore
  <2>4. QED
    BY <1>11, <2>3
<1>13. c \in Reach({d})
  BY <1>3, <1>8 DEF Above
<1>14. QED
  BY <1>9, <1>11, <1>12, <1>13

(* NoGarbage for every number of cells and statements: reference counting   *)
(* frees all that it can, whatever the generated code does: a value nobody  *)
(* can reach is on its way to free, or hangs on a cycle through an array or *)
(* the world, for removeReference gives back what a value holds before it   *)
(* frees it and nothing else is written to once it is made.                 *)
THEOREM GarbageIsCyclic == Spec => []NoGarbage
<1>1. MemInv /\ TidyInv => NoGarbage
  <2> SUFFICES ASSUME MemInv, TidyInv, NEW c \in Unreached,
                      \A k \in DOMAIN stack : stack[k] # Free(c)
               PROVE  \E d \in DOMAIN heap : /\ heap[d].tag \in {"ARRAY", "WORLD"}
                                             /\ d \in Reach(ToSet(heap[d].kids))
                                             /\ c \in Reach({d})
    BY DEF NoGarbage, Unreached
  <2>1. ASSUME NEW u \in Above(c), NEW k \in DOMAIN stack, stack[k] = Free(u) PROVE FALSE
    <3>1. HeapTypes(heap) /\ EntryOk(heap, stack[k], Below(stack, k))
      BY DEF MemInv, Inv, StackOk
    <3>2. u \in DOMAIN heap /\ heap[u].kids = <<>> /\ c \in Reach({u}) /\ c \in DOMAIN heap
      BY <2>1, <3>1 DEF EntryOk, Free, Above, Unreached
    <3>3. {u} \in SUBSET Nat
      BY <3>1, <3>2, KidsNat
    <3>4. ToSet(heap[u].kids) = {}
      BY <3>2 DEF ToSet
    <3>5. Closed({u}) /\ {u} \intersect DOMAIN heap \subseteq {u}
      BY <3>4 DEF Closed
    <3>6. Reach({u}) \intersect DOMAIN heap \subseteq {u}
      BY <3>1, <3>3, <3>5, ReachFacts
    <3>7. c = u
      BY <3>2, <3>6
    <3>8. QED
      BY <2>1, <3>7
  <2>2. QED
    BY <2>1, UnreachedCycle
<1>2. QED
  BY <1>1, MemoryInvariant, TidyMemory, PTL
=============================================================================
