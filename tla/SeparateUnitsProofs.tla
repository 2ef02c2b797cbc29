------------------------- MODULE SeparateUnitsProofs -------------------------
(***************************************************************************)
(* tarjan finds the strongly connected components, each after those it     *)
(* depends on, for any number of namespaces and any dependencies.          *)
(*                                                                         *)
(* The vertices under way are those of the calls in progress.  Of those    *)
(* still in the stack, each can be reached from every vertex under way     *)
(* that was met before it, and reaches one; an edge that leads out of the  *)
(* subtree of a vertex under way is recorded in the lowlink of one in the  *)
(* subtree.  What has left the stack depends on nothing that is still in   *)
(* it or has not been met.                                                 *)
(***************************************************************************)
EXTENDS SeparateUnits, SequenceTheorems, WellFoundedInduction, TLAPS

Calls == 1..Len(calls)
Underway(i) == calls[i].vertex
Places == 1..Len(stack)

\* The edge from y to w that a call has still to look at.
Pending(y, w) == \E k \in Calls : Underway(k) = y /\ w \in calls[k].edges

Split == Visited \ inStack

DepsOK ==
  /\ DOMAIN deps \subseteq Namespaces
  /\ \A v \in DOMAIN deps : deps[v] \subseteq Namespaces

VerticesOK ==
  /\ nextIndex \in Nat
  /\ Visited \subseteq Mentioned
  /\ index = [v \in Visited |-> index[v]]
  /\ lowlink = [v \in Visited |-> lowlink[v]]
  /\ \A v \in Visited : /\ index[v] \in Nat /\ index[v] < nextIndex
                        /\ lowlink[v] \in Nat /\ lowlink[v] <= index[v]
  /\ \A u, v \in Visited : index[u] = index[v] => u = v
  /\ keys \subseteq DOMAIN deps
  /\ DOMAIN deps \subseteq Visited \cup keys
  /\ ~impossible

StackOK ==
  /\ inStack \subseteq Visited
  /\ stack \in Seq(Namespaces)
  /\ \A i \in Places : stack[i] \in inStack
  /\ \A v \in inStack : \E i \in Places : stack[i] = v
  /\ \A i, j \in Places : i < j => index[stack[i]] > index[stack[j]]

CallRecord == [vertex : Namespaces, edges : SUBSET Namespaces, called : BOOLEAN]

CallsOK ==
  /\ calls \in Seq(CallRecord)
  /\ \A i \in Calls : Underway(i) \in inStack /\ calls[i].edges \subseteq Edges(Underway(i))
  /\ \A i, j \in Calls : i < j => index[Underway(i)] > index[Underway(j)]

\* The callee of a call that waits, or whose callee has just returned.
CalleesOK ==
  /\ \A i \in Calls : i > 1 => calls[i].called /\ Least(calls[i].edges) = Underway(i - 1)
  /\ \A i \in Calls : calls[i].called =>
       LET c == Least(calls[i].edges)
       IN  calls[i].edges # {} /\ c \in Visited /\ index[c] > index[Underway(i)]
  /\ calls # <<>> /\ calls[1].called =>
       LET c == Least(calls[1].edges) IN c \in inStack \/ lowlink[c] = index[c]

\* Every edge of a vertex has been followed or is pending.
Explored == \A v \in Visited : \A w \in Edges(v) : w \in Visited \/ Pending(v, w)

SplitClosed == \A v \in Split : Edges(v) \subseteq Split

Below ==
  \A i \in Calls : \A y \in inStack :
    index[Underway(i)] <= index[y] => y \in Reachable(Underway(i))

Above ==
  \A y \in inStack : \E i \in Calls :
    index[Underway(i)] <= index[y] /\ Underway(i) \in Reachable(y)

LowlinkReached == \A v \in inStack : \E u \in inStack : index[u] = lowlink[v] /\ u \in Component(v)

\* The lowlink of a vertex from i inwards, or of the callee that has just
\* returned, is as low as w.
Recorded(i, w) ==
  \/ \E j \in Calls : j <= i /\ lowlink[Underway(j)] <= index[w]
  \/ calls[1].called /\ lowlink[Least(calls[1].edges)] <= index[w]

EdgesRecorded ==
  \A i \in Calls : \A y, w \in inStack :
    /\ index[Underway(i)] <= index[y]
    /\ index[w] < index[Underway(i)]
    /\ w \in Edges(y) /\ ~Pending(y, w)
    => Recorded(i, w)

Elements(k) == {components[k][i] : i \in 1..Len(components[k])}

Found == 1..Len(components)

ComponentsOK ==
  /\ components \in Seq(Seq(Namespaces))
  /\ \A k \in Found : Elements(k) \subseteq Split
  /\ \A k \in Found : \A v \in Elements(k) : Elements(k) = Component(v)
  /\ \A j, k \in Found : Elements(j) \cap Elements(k) # {} => j = k
  /\ \A v \in Split : \E k \in Found : v \in Elements(k)
  /\ \A k \in Found : \A v \in Elements(k) : \A w \in Edges(v) :
       \E j \in Found : j >= k /\ w \in Elements(j)

TarjanInv ==
  /\ DepsOK /\ VerticesOK /\ StackOK /\ CallsOK /\ CalleesOK
  /\ Explored /\ SplitClosed /\ Below /\ Above
  /\ LowlinkReached /\ EdgesRecorded /\ ComponentsOK

-----------------------------------------------------------------------------
(* The least element, and reachability *)

LEMMA LeastIsIn ==
  ASSUME NEW S \in SUBSET Namespaces, S # {}
  PROVE  Least(S) \in S
<1> DEFINE R == {ss \in Nat \X Nat : ss[1] < ss[2]}
<1>1. S \subseteq Nat
  BY SeparateAssumption DEF Namespaces
<1>2. IsWellFoundedOn(R, Nat)
  BY NatLessThanWellFounded DEF OpToRel
<1>3. PICK x \in S : \A y \in S : <<y, x>> \notin R
  <2> HIDE DEF R
  <2> QED  BY <1>1, <1>2, WFMin
<1>4. \A y \in S : x <= y
  <2> SUFFICES ASSUME NEW y \in S PROVE x <= y
    OBVIOUS
  <2>1. x \in Nat /\ y \in Nat /\ <<y, x>> \notin R
    BY <1>1, <1>3
  <2>2. ~(y < x)
    BY <2>1
  <2>3. QED
    BY <2>1, <2>2
<1>5. QED
  BY <1>3, <1>4 DEF Least

LEMMA EdgesInside ==
  ASSUME DepsOK, NEW v
  PROVE  Edges(v) \subseteq Namespaces /\ (Edges(v) # {} => v \in Namespaces)
BY DEF DepsOK, Edges

LEMMA ReachSelf ==
  ASSUME NEW v \in Namespaces
  PROVE  v \in Reachable(v)
BY DEF Reachable

LEMMA ReachEdge ==
  ASSUME DepsOK, NEW v, NEW u \in Reachable(v), NEW w \in Edges(u)
  PROVE  w \in Reachable(v)
BY EdgesInside DEF Reachable

LEMMA ReachTransitive ==
  ASSUME NEW v, NEW u \in Reachable(v), NEW w \in Reachable(u)
  PROVE  w \in Reachable(v)
BY DEF Reachable

LEMMA ReachClosed ==
  ASSUME NEW S \in SUBSET Namespaces, \A x \in S : Edges(x) \subseteq S, NEW v \in S
  PROVE  Reachable(v) \subseteq S
BY DEF Reachable

LEMMA ComponentsAgree ==
  ASSUME NEW v, NEW u \in Component(v)
  PROVE  Component(u) = Component(v)
BY ReachTransitive DEF Component

LEMMA DepsSame ==
  ASSUME deps' = deps
  PROVE  /\ \A v : Edges(v)' = Edges(v) /\ Reachable(v)' = Reachable(v)
         /\ \A v : Component(v)' = Component(v)
         /\ Mentioned' = Mentioned
<1>1. \A v : Edges(v)' = Edges(v)
  BY DEF Edges
<1>2. \A v : Reachable(v)' = Reachable(v)
  BY <1>1 DEF Reachable
<1>3. \A v : Component(v)' = Component(v)
  BY <1>2 DEF Component
<1>4. QED
  BY <1>1, <1>2, <1>3 DEF Mentioned

-----------------------------------------------------------------------------
LEMMA TarjanInvInit == Init => TarjanInv
<1> SUFFICES ASSUME Init PROVE TarjanInv
  OBVIOUS
<1>1. /\ Visited = {} /\ DOMAIN lowlink = {} /\ inStack = {} /\ stack = <<>> /\ calls = <<>>
      /\ components = <<>> /\ nextIndex = 0 /\ ~impossible /\ keys = DOMAIN deps
      /\ index = <<>> /\ lowlink = <<>>
  BY DEF Init, Visited
<1>2. DepsOK
  BY DEF Init, DepGraphs, DepsOK
<1>3. VerticesOK
  BY <1>1 DEF VerticesOK
<1>4. StackOK /\ CallsOK /\ CalleesOK
  BY <1>1 DEF StackOK, Places, CallsOK, CalleesOK, Calls
<1>5. Explored /\ SplitClosed /\ Below /\ Above /\ LowlinkReached /\ EdgesRecorded
  BY <1>1 DEF Explored, SplitClosed, Split, Below, Above, LowlinkReached, EdgesRecorded, Calls
<1>6. ComponentsOK
  BY <1>1 DEF ComponentsOK, Split, Found
<1>7. QED
  BY <1>2, <1>3, <1>4, <1>5, <1>6 DEF TarjanInv

-----------------------------------------------------------------------------
(* Sequences *)

LEMMA Push ==
  ASSUME NEW S, NEW s \in Seq(S), NEW e \in S
  PROVE  /\ <<e>> \o s \in Seq(S)
         /\ Len(<<e>> \o s) = Len(s) + 1
         /\ (<<e>> \o s)[1] = e
         /\ \A i \in 1..Len(s) : (<<e>> \o s)[i + 1] = s[i]
<1> DEFINE t == <<e>>
<1>1. t \in Seq(S) /\ Len(t) = 1 /\ t[1] = e /\ Len(s) \in Nat
  OBVIOUS
<1> HIDE DEF t
<1>2. /\ t \o s \in Seq(S)
      /\ Len(t \o s) = Len(t) + Len(s)
      /\ \A i \in 1 .. Len(t) + Len(s) : (t \o s)[i] = IF i <= Len(t) THEN t[i] ELSE s[i - Len(t)]
  BY <1>1, ConcatProperties
<1>3. (t \o s)[1] = e
  BY <1>1, <1>2
<1>4. ASSUME NEW i \in 1..Len(s) PROVE (t \o s)[i + 1] = s[i]
  <2>1. i + 1 \in 1 .. Len(t) + Len(s) /\ ~(i + 1 <= Len(t)) /\ (i + 1) - Len(t) = i
    BY <1>1
  <2>2. QED
    BY <1>2, <2>1
<1>5. QED
  BY <1>1, <1>2, <1>3, <1>4 DEF t

LEMMA ReplaceHead ==
  ASSUME NEW S, NEW s \in Seq(S), s # <<>>, NEW e \in S
  PROVE  /\ <<e>> \o Tail(s) \in Seq(S)
         /\ Len(<<e>> \o Tail(s)) = Len(s)
         /\ (<<e>> \o Tail(s))[1] = e
         /\ \A i \in 2..Len(s) : (<<e>> \o Tail(s))[i] = s[i]
<1>1. /\ Tail(s) \in Seq(S) /\ Len(Tail(s)) = Len(s) - 1 /\ Len(s) \in Nat
      /\ \A i \in 1..Len(Tail(s)) : Tail(s)[i] = s[i + 1]
  BY HeadTailProperties
<1> DEFINE t == Tail(s)
           u == <<e>> \o t
<1>2. /\ u \in Seq(S) /\ Len(u) = Len(t) + 1 /\ u[1] = e
      /\ \A i \in 1..Len(t) : u[i + 1] = t[i]
  BY <1>1, Push
<1> HIDE DEF u
<1>3. ASSUME NEW i \in 2..Len(s) PROVE u[i] = s[i]
  <2>1. i - 1 \in 1..Len(t) /\ (i - 1) + 1 = i
    BY <1>1
  <2>2. QED
    BY <1>1, <1>2, <2>1
<1>4. QED
  BY <1>1, <1>2, <1>3 DEF u

LEMMA CallerFacts ==
  ASSUME TarjanInv, calls # <<>>
  PROVE  /\ Len(calls) \in Nat /\ Len(calls) >= 1 /\ 1 \in Calls
         /\ calls \in Seq(CallRecord)
         /\ Caller = calls[1] /\ Caller \in CallRecord
         /\ Caller.vertex = Underway(1)
         /\ Underway(1) \in inStack /\ Underway(1) \in Visited /\ Underway(1) \in Namespaces
         /\ \A i \in Calls : index[Underway(i)] <= index[Underway(1)]
<1>1. calls \in Seq(CallRecord) /\ Len(calls) \in Nat /\ Len(calls) >= 1
  BY EmptySeq DEF TarjanInv, CallsOK
<1>2. 1 \in Calls
  BY <1>1 DEF Calls
<1>3. Caller = calls[1] /\ calls[1] \in CallRecord
  BY <1>1, <1>2 DEF Caller, Calls
<1>4. /\ Underway(1) \in inStack /\ Underway(1) \in Visited
      /\ Underway(1) \in Namespaces
  BY <1>2, <1>3 DEF TarjanInv, CallsOK, StackOK, Underway, CallRecord
<1>5. ASSUME NEW i \in Calls PROVE index[Underway(i)] <= index[Underway(1)]
  <2>1. Underway(i) \in Visited
    BY DEF TarjanInv, CallsOK, StackOK
  <2>2. index[Underway(i)] \in Nat /\ index[Underway(1)] \in Nat
    BY <1>4, <2>1 DEF TarjanInv, VerticesOK
  <2>3. CASE i = 1
    BY <2>2, <2>3
  <2>4. CASE i # 1
    <3>1. 1 < i
      BY <1>1, <2>4 DEF Calls
    <3>2. index[Underway(1)] > index[Underway(i)]
      BY <1>2, <3>1 DEF TarjanInv, CallsOK
    <3>3. QED
      BY <2>2, <3>2
  <2>5. QED
    BY <2>3, <2>4
<1>6. QED
  BY <1>1, <1>2, <1>3, <1>4, <1>5 DEF Underway

\* The numbers are naturals, and every vertex is a namespace.
LEMMA Numbers ==
  ASSUME TarjanInv
  PROVE  /\ nextIndex \in Nat
         /\ \A v \in Visited : /\ v \in Namespaces
                               /\ index[v] \in Nat /\ lowlink[v] \in Nat
                               /\ index[v] < nextIndex /\ lowlink[v] <= index[v]
         /\ Len(calls) \in Nat
         /\ \A i \in Calls : Underway(i) \in inStack /\ Underway(i) \in Visited
         /\ inStack \subseteq Visited
<1>1. Mentioned \subseteq Namespaces
  BY EdgesInside DEF TarjanInv, DepsOK, Mentioned
<1>2. QED
  BY <1>1 DEF TarjanInv, VerticesOK, CallsOK, StackOK

-----------------------------------------------------------------------------
(* strongConnect begins *)

Entering(w, outer) ==
  /\ w \in Mentioned /\ w \notin Visited
  /\ Enter(w, outer)
  /\ \/ calls = <<>> /\ outer = <<>>
     \/ AtEdge(w) /\ outer = <<[Caller EXCEPT !.called = TRUE]>> \o Tail(calls)
  /\ keys' \subseteq keys /\ keys \subseteq keys' \cup {w}

LEMMA EnterCalls ==
  ASSUME TarjanInv, NEW w, NEW outer, Entering(w, outer)
  PROVE  /\ w \in Namespaces
         /\ calls' \in Seq(CallRecord) /\ Len(calls') = Len(calls) + 1
         /\ Underway(1)' = w /\ calls'[1].edges = Edges(w) /\ ~calls'[1].called
         /\ \A i \in Calls : /\ Underway(i + 1)' = Underway(i)
                             /\ calls'[i + 1].edges = calls[i].edges
                             /\ calls'[i + 1].called
         /\ Calls' = 1..(Len(calls) + 1)
         /\ \A i \in Calls' : i = 1 \/ (i - 1 \in Calls /\ (i - 1) + 1 = i)
         /\ calls # <<>> => /\ ~calls[1].called
                            /\ calls[1].edges # {} /\ w = Least(calls[1].edges)
                            /\ w \in Edges(Underway(1))
<1> DEFINE new == [vertex |-> w, edges |-> Edges(w), called |-> FALSE]
<1>1. w \in Namespaces /\ Edges(w) \subseteq Namespaces
  BY EdgesInside DEF TarjanInv, DepsOK, Mentioned, Entering
<1>2. new \in CallRecord
  BY <1>1 DEF CallRecord
<1>3. calls' = <<new>> \o outer
  BY DEF Entering, Enter
<1>4. Len(calls) \in Nat /\ calls \in Seq(CallRecord)
  BY DEF TarjanInv, CallsOK
<1>5. calls # <<>> => /\ ~calls[1].called
                      /\ calls[1].edges # {} /\ w = Least(calls[1].edges)
                      /\ w \in Edges(Underway(1))
  <2> SUFFICES ASSUME calls # <<>>
               PROVE  /\ ~calls[1].called
                      /\ calls[1].edges # {} /\ w = Least(calls[1].edges)
                      /\ w \in Edges(Underway(1))
    OBVIOUS
  <2>1. Caller = calls[1] /\ 1 \in Calls /\ calls[1] \in CallRecord
    BY CallerFacts
  <2>2. calls[1].edges # {} /\ w = Least(calls[1].edges) /\ w \notin Visited
    BY <2>1 DEF Entering, AtEdge
  <2>3. ~calls[1].called
    BY <2>1, <2>2 DEF TarjanInv, CalleesOK
  <2>4. w \in calls[1].edges
    BY <2>1, <2>2, LeastIsIn DEF CallRecord
  <2>5. QED
    BY <2>1, <2>2, <2>3, <2>4 DEF TarjanInv, CallsOK
<1>6. /\ outer \in Seq(CallRecord) /\ Len(outer) = Len(calls)
      /\ \A i \in Calls : /\ outer[i].vertex = Underway(i)
                          /\ outer[i].edges = calls[i].edges
                          /\ outer[i].called
  <2>1. CASE calls = <<>>
    <3>1. outer = <<>>
      BY <2>1 DEF Entering, AtEdge
    <3>2. QED
      BY <2>1, <3>1 DEF Calls
  <2>2. CASE calls # <<>>
    <3> DEFINE r == [Caller EXCEPT !.called = TRUE]
    <3>1. /\ Caller = calls[1] /\ Caller \in CallRecord
      BY <2>2, CallerFacts
    <3>2. /\ r \in CallRecord /\ r.vertex = calls[1].vertex /\ r.edges = calls[1].edges
          /\ r.called
      BY <3>1 DEF CallRecord
    <3>3. outer = <<r>> \o Tail(calls)
      BY <2>2 DEF Entering
    <3> HIDE DEF r
    <3>4. /\ outer \in Seq(CallRecord) /\ Len(outer) = Len(calls)
          /\ outer[1] = r
          /\ \A i \in 2..Len(calls) : outer[i] = calls[i]
      BY <1>4, <2>2, <3>2, <3>3, ReplaceHead
    <3>5. \A i \in Calls : i = 1 \/ (i > 1 /\ i \in 2..Len(calls))
      BY <1>4 DEF Calls
    <3>6. \A i \in Calls : i > 1 => calls[i].called
      BY DEF TarjanInv, CalleesOK
    <3>7. QED
      BY <3>2, <3>4, <3>5, <3>6 DEF Underway
  <2>3. QED
    BY <2>1, <2>2
<1> HIDE DEF new
<1>7. /\ calls' \in Seq(CallRecord) /\ Len(calls') = Len(calls) + 1
      /\ calls'[1] = new
      /\ \A i \in Calls : calls'[i + 1] = outer[i]
  BY <1>2, <1>3, <1>6, Push DEF Calls
<1>8. /\ Calls' = 1..(Len(calls) + 1)
      /\ \A i \in 1..(Len(calls) + 1) : i = 1 \/ (i - 1 \in Calls /\ (i - 1) + 1 = i)
  BY <1>4, <1>7 DEF Calls
<1>9. new.vertex = w /\ new.edges = Edges(w) /\ ~new.called
  BY DEF new
<1>10. Underway(1)' = w /\ calls'[1].edges = Edges(w) /\ ~calls'[1].called
  BY <1>7, <1>9 DEF Underway
<1>11. \A i \in Calls : /\ Underway(i + 1)' = Underway(i)
                        /\ calls'[i + 1].edges = calls[i].edges
                        /\ calls'[i + 1].called
  BY <1>6, <1>7 DEF Underway
<1>12. QED
  BY <1>1, <1>5, <1>7, <1>8, <1>10, <1>11

LEMMA EnterVertices ==
  ASSUME TarjanInv, NEW w, NEW outer, Entering(w, outer)
  PROVE  /\ Visited' = Visited \cup {w} /\ inStack' = inStack \cup {w}
         /\ w \notin Visited /\ w \notin inStack
         /\ index'[w] = nextIndex /\ lowlink'[w] = nextIndex
         /\ \A v \in Visited : index'[v] = index[v] /\ lowlink'[v] = lowlink[v]
         /\ nextIndex' = nextIndex + 1
         /\ UNCHANGED <<deps, components, impossible>>
         /\ index' = [v \in Visited' |-> index'[v]]
         /\ lowlink' = [v \in Visited' |-> lowlink'[v]]
<1>1. DOMAIN lowlink = Visited
  BY DEF TarjanInv, VerticesOK
<1>2. inStack \subseteq Visited
  BY Numbers
<1>3. QED
  BY <1>1, <1>2 DEF Entering, Enter, Bind, Visited

LEMMA ComponentsFrame ==
  ASSUME ComponentsOK, deps' = deps, components' = components, Split' = Split
  PROVE  ComponentsOK'
<1>1. Found' = Found /\ \A k : Elements(k)' = Elements(k)
  BY DEF Found, Elements
<1>2. \A v : Edges(v)' = Edges(v) /\ Component(v)' = Component(v)
  BY DepsSame
<1>3. components' \in Seq(Seq(Namespaces)) /\ \A k \in Found : Elements(k) \subseteq Split
  BY DEF ComponentsOK
<1>4. \A k \in Found : \A v \in Elements(k) : Elements(k) = Component(v)
  BY DEF ComponentsOK
<1>5. /\ \A j, k \in Found : Elements(j) \cap Elements(k) # {} => j = k
      /\ \A v \in Split : \E k \in Found : v \in Elements(k)
  BY DEF ComponentsOK
<1>6. \A k \in Found : \A v \in Elements(k) : \A w \in Edges(v) :
        \E j \in Found : j >= k /\ w \in Elements(j)
  BY DEF ComponentsOK
<1> HIDE DEF Found, Elements, Component, Edges, Split
<1>7. QED
  BY <1>1, <1>2, <1>3, <1>4, <1>5, <1>6 DEF ComponentsOK

LEMMA EnterStep ==
  ASSUME TarjanInv, NEW w, NEW outer, Entering(w, outer)
  PROVE  TarjanInv'
<1> USE EnterVertices, EnterCalls, Numbers
<1>d. /\ \A v : Edges(v)' = Edges(v) /\ Reachable(v)' = Reachable(v)
      /\ \A v : Component(v)' = Component(v)
      /\ Mentioned' = Mentioned
  BY DepsSame
<1>e. DepsOK /\ \A v : Edges(v) \subseteq Namespaces
  BY EdgesInside DEF TarjanInv
<1>u. \A i \in Calls : i + 1 \in Calls' /\ i + 1 > 1
  BY DEF Calls
<1>1. DepsOK'
  BY DEF TarjanInv, DepsOK
<1>2. VerticesOK'
  <2>1. Visited' \subseteq Mentioned'
    <3>1. Visited \subseteq Mentioned /\ w \in Mentioned
      BY DEF TarjanInv, VerticesOK, Entering
    <3>2. QED
      BY <1>d, <3>1
  <2>2. \A v \in Visited' : /\ index'[v] \in Nat /\ index'[v] < nextIndex'
                            /\ lowlink'[v] \in Nat /\ lowlink'[v] <= index'[v]
    OBVIOUS
  <2>3. \A u, v \in Visited' : index'[u] = index'[v] => u = v
    <3>1. \A u, v \in Visited : index[u] = index[v] => u = v
      BY DEF TarjanInv, VerticesOK
    <3>2. QED
      BY <3>1
  <2>4. keys' \subseteq DOMAIN deps' /\ DOMAIN deps' \subseteq Visited' \cup keys' /\ ~impossible'
    BY DEF TarjanInv, VerticesOK, Entering
  <2>5. QED
    BY <2>1, <2>2, <2>3, <2>4 DEF VerticesOK
<1>3. StackOK'
  <2>1. stack' = <<w>> \o stack
    BY DEF Entering, Enter
  <2>2. stack \in Seq(Namespaces) /\ w \in Namespaces
    BY DEF TarjanInv, StackOK
  <2>3. /\ stack' \in Seq(Namespaces) /\ Len(stack') = Len(stack) + 1 /\ stack'[1] = w
        /\ \A i \in Places : stack'[i + 1] = stack[i]
    BY <2>1, <2>2, Push DEF Places
  <2>4. /\ Places' = 1..(Len(stack) + 1)
        /\ \A i \in Places' : i = 1 \/ (i - 1 \in Places /\ (i - 1) + 1 = i)
        /\ \A i \in Places : i + 1 \in Places'
    BY <2>2, <2>3 DEF Places
  <2>0. /\ \A i \in Places : stack[i] \in inStack
        /\ \A v \in inStack : \E i \in Places : stack[i] = v
    BY DEF TarjanInv, StackOK
  <2>5. ASSUME NEW i \in Places' PROVE stack'[i] \in inStack'
    <3>1. CASE i = 1
      BY <2>3, <3>1
    <3>2. CASE i # 1
      <4>1. i - 1 \in Places /\ stack'[i] = stack[i - 1]
        BY <2>3, <2>4, <3>2
      <4>2. QED
        BY <2>0, <4>1
    <3>3. QED
      BY <3>1, <3>2
  <2>6. ASSUME NEW v \in inStack' PROVE \E i \in Places' : stack'[i] = v
    <3>1. CASE v = w
      <4>1. 1 \in Places'
        BY <2>2, <2>4
      <4>2. QED
        BY <2>3, <3>1, <4>1
    <3>2. CASE v # w
      <4>1. PICK i \in Places : stack[i] = v
        BY <2>0, <3>2
      <4>2. QED
        BY <2>3, <2>4, <4>1
    <3>3. QED
      BY <3>1, <3>2
  <2>7. ASSUME NEW i \in Places', NEW j \in Places', i < j
        PROVE  index'[stack'[i]] > index'[stack'[j]]
    <3>1. i \in Nat /\ j \in Nat /\ i >= 1
      BY <2>2, <2>4
    <3>2. j - 1 \in Places /\ stack'[j] = stack[j - 1]
      BY <2>3, <2>4, <2>7, <3>1
    <3>3. stack[j - 1] \in Visited /\ index'[stack'[j]] = index[stack[j - 1]]
      BY <3>2 DEF TarjanInv, StackOK
    <3>4. CASE i = 1
      BY <2>3, <3>3, <3>4
    <3>5. CASE i # 1
      <4>1. i - 1 \in Places /\ stack'[i] = stack[i - 1] /\ i - 1 < j - 1
        BY <2>3, <2>4, <2>7, <3>1, <3>5
      <4>2. stack[i - 1] \in Visited
        BY <4>1 DEF TarjanInv, StackOK
      <4>3. index[stack[i - 1]] > index[stack[j - 1]]
        BY <3>2, <4>1 DEF TarjanInv, StackOK
      <4>4. QED
        BY <3>3, <4>1, <4>2, <4>3
    <3>6. QED
      BY <3>4, <3>5
  <2>8. QED
    BY <2>3, <2>5, <2>6, <2>7 DEF StackOK
<1>4. CallsOK'
  <2>1. ASSUME NEW i \in Calls'
        PROVE  Underway(i)' \in inStack' /\ calls'[i].edges \subseteq Edges(Underway(i))'
    <3>1. CASE i = 1
      BY <1>d, <3>1
    <3>2. CASE i # 1
      <4>1. PICK k \in Calls : i = k + 1
        BY <3>2
      <4>2. Underway(i)' = Underway(k) /\ calls'[i].edges = calls[k].edges
        BY <4>1
      <4>3. Edges(Underway(i))' = Edges(Underway(k))
        BY <1>d, <4>2
      <4>4. QED
        BY <4>2, <4>3 DEF TarjanInv, CallsOK
    <3>3. QED
      BY <3>1, <3>2
  <2>2. ASSUME NEW i \in Calls', NEW j \in Calls', i < j
        PROVE  index'[Underway(i)'] > index'[Underway(j)']
    <3>1. i \in Nat /\ j \in Nat /\ i >= 1
      OBVIOUS
    <3>2. j # 1
      BY <2>2, <3>1
    <3>3. PICK k \in Calls : j = k + 1
      BY <3>2
    <3>4. index'[Underway(j)'] = index[Underway(k)] /\ index[Underway(k)] < nextIndex
      BY <3>3
    <3>5. CASE i = 1
      BY <3>4, <3>5
    <3>6. CASE i # 1
      <4>1. PICK h \in Calls : i = h + 1
        BY <3>6
      <4>2. h < k
        BY <2>2, <3>3, <4>1 DEF Calls
      <4>3. index'[Underway(i)'] = index[Underway(h)]
        BY <4>1
      <4>4. index[Underway(h)] > index[Underway(k)]
        BY <4>2 DEF TarjanInv, CallsOK
      <4>5. QED
        BY <3>4, <4>3, <4>4
    <3>7. QED
      BY <3>5, <3>6
  <2>3. QED
    BY <2>1, <2>2 DEF CallsOK
<1>p. /\ \A x : Pending(w, x)' <=> x \in Edges(w)
      /\ \A y, x : y # w => (Pending(y, x)' <=> Pending(y, x))
  <2>1. \A i \in Calls' : i # 1 => \E k \in Calls : i = k + 1
    OBVIOUS
  <2>2. \A k \in Calls : Underway(k) # w
    OBVIOUS
  <2>3. 1 \in Calls'
    OBVIOUS
  <2>4. ASSUME NEW x PROVE Pending(w, x)' <=> x \in Edges(w)
    BY <1>u, <2>1, <2>2, <2>3 DEF Pending
  <2>5. ASSUME NEW y, NEW x, y # w PROVE Pending(y, x)' <=> Pending(y, x)
    <3>1. ASSUME NEW k \in Calls', Underway(k)' = y, x \in calls'[k].edges PROVE Pending(y, x)
      <4>1. PICK j \in Calls : k = j + 1
        BY <2>1, <2>5, <3>1
      <4>2. Underway(j) = y /\ x \in calls[j].edges
        BY <3>1, <4>1
      <4>3. QED
        BY <4>2 DEF Pending
    <3>2. ASSUME NEW k \in Calls, Underway(k) = y, x \in calls[k].edges PROVE Pending(y, x)'
      <4>1. Underway(k + 1)' = y /\ x \in calls'[k + 1].edges
        BY <3>2
      <4>2. QED
        BY <1>u, <4>1 DEF Pending
    <3>3. QED
      BY <3>1, <3>2 DEF Pending
  <2>6. QED
    BY <2>4, <2>5
<1>5. CalleesOK'
  <2>1. ASSUME NEW i \in Calls', i > 1
        PROVE  calls'[i].called /\ Least(calls'[i].edges) = Underway(i - 1)'
    <3>1. PICK k \in Calls : i = k + 1
      BY <2>1
    <3>2. calls'[i].called /\ calls'[i].edges = calls[k].edges
      BY <3>1
    <3>3. CASE k = 1
      <4>1. calls # <<>> /\ i - 1 = 1
        BY <3>1, <3>3, EmptySeq DEF Calls
      <4>2. QED
        BY <3>2, <3>3, <4>1
    <3>4. CASE k # 1
      <4>1. k > 1 /\ k - 1 \in Calls /\ i - 1 = (k - 1) + 1
        BY <3>1, <3>4 DEF Calls
      <4>2. Underway(i - 1)' = Underway(k - 1)
        BY <4>1
      <4>3. Least(calls[k].edges) = Underway(k - 1)
        BY <4>1 DEF TarjanInv, CalleesOK
      <4>4. QED
        BY <3>2, <4>2, <4>3
    <3>5. QED
      BY <3>3, <3>4
  <2>2. ASSUME NEW i \in Calls', calls'[i].called
        PROVE  /\ calls'[i].edges # {} /\ Least(calls'[i].edges) \in Visited'
               /\ index'[Least(calls'[i].edges)] > index'[Underway(i)']
    <3>1. i # 1
      BY <2>2
    <3>2. PICK k \in Calls : i = k + 1
      BY <3>1
    <3>3. calls'[i].edges = calls[k].edges /\ index'[Underway(i)'] = index[Underway(k)]
      BY <3>2
    <3>4. CASE k = 1
      <4>1. calls # <<>>
        BY <3>2, <3>4, EmptySeq DEF Calls
      <4>2. Least(calls[k].edges) = w /\ calls[k].edges # {}
        BY <3>4, <4>1
      <4>3. index[Underway(k)] < nextIndex
        BY <3>2
      <4>4. QED
        BY <3>3, <4>2, <4>3
    <3>5. CASE k # 1
      <4>1. calls[k].called
        BY <3>5 DEF TarjanInv, CalleesOK, Calls
      <4>2. /\ calls[k].edges # {} /\ Least(calls[k].edges) \in Visited
            /\ index[Least(calls[k].edges)] > index[Underway(k)]
        BY <4>1 DEF TarjanInv, CalleesOK
      <4>3. QED
        BY <3>3, <4>2
    <3>6. QED
      BY <3>4, <3>5
  <2>3. QED
    BY <2>1, <2>2 DEF CalleesOK
<1>s. Split' = Split /\ \A v \in Split : v # w
  BY DEF Split
<1>6. Explored' /\ SplitClosed'
  <2>1. ASSUME NEW v \in Visited', NEW x \in Edges(v)'
        PROVE  x \in Visited' \/ Pending(v, x)'
    <3>1. x \in Edges(v)
      BY <1>d, <2>1
    <3>2. CASE v = w
      BY <1>p, <3>1, <3>2
    <3>3. CASE v # w
      <4>1. x \in Visited \/ Pending(v, x)
        BY <3>1, <3>3 DEF TarjanInv, Explored
      <4>2. QED
        BY <1>p, <3>3, <4>1
    <3>4. QED
      BY <3>2, <3>3
  <2>2. SplitClosed'
    <3>1. \A v \in Split : Edges(v) \subseteq Split
      BY DEF TarjanInv, SplitClosed
    <3>2. QED
      BY <1>d, <1>s, <3>1 DEF SplitClosed
  <2>3. QED
    BY <2>1, <2>2 DEF Explored
<1>7. Below'
  <2> SUFFICES ASSUME NEW i \in Calls', NEW y \in inStack', index'[Underway(i)'] <= index'[y]
               PROVE  y \in Reachable(Underway(i)')
    BY <1>d DEF Below
  <2>1. CASE i = 1
    <3>1. y = w
      BY <2>1
    <3>2. QED
      BY <2>1, <3>1, ReachSelf
  <2>2. CASE i # 1
    <3>1. PICK k \in Calls : i = k + 1
      BY <2>2
    <3>2. Underway(i)' = Underway(k) /\ index'[Underway(i)'] = index[Underway(k)]
      BY <3>1
    <3>3. \A z \in inStack : index[Underway(k)] <= index[z] => z \in Reachable(Underway(k))
      BY DEF TarjanInv, Below
    <3>4. CASE y # w
      BY <3>2, <3>3, <3>4
    <3>5. CASE y = w
      <4>1. calls # <<>>
        BY <3>1, EmptySeq DEF Calls
      <4>2. Underway(1) \in inStack /\ index[Underway(k)] <= index[Underway(1)]
        BY <4>1, CallerFacts
      <4>3. Underway(1) \in Reachable(Underway(k)) /\ w \in Edges(Underway(1))
        BY <3>3, <4>1, <4>2
      <4>4. QED
        BY <1>e, <3>2, <3>5, <4>3, ReachEdge
    <3>6. QED
      BY <3>4, <3>5
  <2>3. QED
    BY <2>1, <2>2
<1>8. Above'
  <2> SUFFICES ASSUME NEW y \in inStack'
               PROVE  \E i \in Calls' : index'[Underway(i)'] <= index'[y] /\ Underway(i)' \in Reachable(y)
    BY <1>d DEF Above
  <2>1. CASE y = w
    <3>1. 1 \in Calls' /\ index'[w] \in Nat /\ Underway(1)' = w
      OBVIOUS
    <3>2. w \in Reachable(w) /\ index'[w] <= index'[w]
      BY <3>1, ReachSelf
    <3>3. QED
      BY <2>1, <3>1, <3>2
  <2>2. CASE y # w
    <3>1. PICK k \in Calls : index[Underway(k)] <= index[y] /\ Underway(k) \in Reachable(y)
      BY <2>2 DEF TarjanInv, Above
    <3>2. Underway(k + 1)' = Underway(k) /\ index'[Underway(k + 1)'] = index[Underway(k)]
      OBVIOUS
    <3>3. index'[y] = index[y]
      BY <2>2
    <3>4. QED
      BY <1>u, <3>1, <3>2, <3>3
  <2>3. QED
    BY <2>1, <2>2
<1>9. LowlinkReached'
  <2> SUFFICES ASSUME NEW v \in inStack'
               PROVE  \E u \in inStack' : index'[u] = lowlink'[v] /\ u \in Component(v)
    BY <1>d DEF LowlinkReached
  <2>1. CASE v = w
    <3>1. w \in Component(w)
      BY ReachSelf DEF Component
    <3>2. QED
      BY <2>1, <3>1
  <2>2. CASE v # w
    <3>1. PICK u \in inStack : index[u] = lowlink[v] /\ u \in Component(v)
      BY <2>2 DEF TarjanInv, LowlinkReached
    <3>2. QED
      BY <2>2, <3>1
  <2>3. QED
    BY <2>1, <2>2
<1>10. EdgesRecorded'
  <2> SUFFICES ASSUME NEW i \in Calls', NEW y \in inStack', NEW x \in inStack',
                      index'[Underway(i)'] <= index'[y], index'[x] < index'[Underway(i)'],
                      x \in Edges(y), ~Pending(y, x)'
               PROVE  Recorded(i, x)'
    BY <1>d DEF EdgesRecorded
  <2>1. y # w
    BY <1>p
  <2>2. i # 1
    BY <2>1
  <2>3. PICK k \in Calls : i = k + 1
    BY <2>2
  <2>4. index'[Underway(i)'] = index[Underway(k)] /\ index[Underway(k)] < nextIndex
    BY <2>3
  <2>5. x # w
    BY <2>4
  <2>6. /\ y \in inStack /\ x \in inStack /\ index[Underway(k)] <= index[y]
        /\ index[x] < index[Underway(k)]
    BY <2>1, <2>4, <2>5
  <2>7. ~Pending(y, x)
    BY <1>p, <2>1
  <2>8. Recorded(k, x)
    BY <2>6, <2>7 DEF TarjanInv, EdgesRecorded
  <2>9. calls # <<>>
    BY <2>3, EmptySeq DEF Calls
  <2>10. PICK j \in Calls : j <= k /\ lowlink[Underway(j)] <= index[x]
    BY <2>8, <2>9 DEF Recorded
  <2>11. j + 1 <= i /\ lowlink'[Underway(j + 1)'] = lowlink[Underway(j)] /\ index'[x] = index[x]
    BY <2>3, <2>6, <2>10 DEF Calls
  <2>12. QED
    BY <1>u, <2>10, <2>11 DEF Recorded
<1>11. ComponentsOK'
  BY <1>s, ComponentsFrame DEF TarjanInv
<1>12. QED
  BY <1>1, <1>2, <1>3, <1>4, <1>5, <1>6, <1>7, <1>8, <1>9, <1>10, <1>11 DEF TarjanInv

-----------------------------------------------------------------------------
(* The loop over the edges goes on *)

Following(w) ==
  /\ AtEdge(w) /\ w \in Visited
  /\ NextEdge(w)
  /\ UNCHANGED <<deps, index, inStack, stack, nextIndex, components, impossible, keys>>

LEMMA UnderwayOnce ==
  ASSUME TarjanInv, NEW i \in Calls, NEW j \in Calls, Underway(i) = Underway(j)
  PROVE  i = j
<1>1. index[Underway(i)] \in Nat
  BY Numbers
<1>2. ~(i < j) /\ ~(j < i)
  BY <1>1 DEF TarjanInv, CallsOK
<1>3. QED
  BY <1>2, Numbers DEF Calls

LEMMA FollowCalls ==
  ASSUME TarjanInv, NEW w, Following(w)
  PROVE  /\ calls # <<>> /\ w \in calls[1].edges /\ w \in Edges(Underway(1))
         /\ w = Least(calls[1].edges)
         /\ calls' \in Seq(CallRecord) /\ calls' # <<>> /\ Calls' = Calls
         /\ \A i \in Calls : Underway(i)' = Underway(i)
         /\ calls'[1].edges = calls[1].edges \ {w} /\ ~calls'[1].called
         /\ \A i \in Calls : i # 1 => calls'[i] = calls[i]
         /\ \A y, x : Pending(y, x)' <=> Pending(y, x) /\ ~(y = Underway(1) /\ x = w)
<1> DEFINE r == [Caller EXCEPT !.edges = @ \ {w}, !.called = FALSE]
<1>1. calls # <<>> /\ w = Least(Caller.edges) /\ Caller.edges # {}
  BY DEF Following, AtEdge
<1>2. /\ Len(calls) \in Nat /\ Len(calls) >= 1 /\ 1 \in Calls /\ calls \in Seq(CallRecord)
      /\ Caller = calls[1] /\ Caller \in CallRecord
  BY <1>1, CallerFacts
<1>3. w \in calls[1].edges /\ w \in Edges(Underway(1))
  <2>1. w \in calls[1].edges
    BY <1>1, <1>2, LeastIsIn DEF CallRecord
  <2>2. QED
    BY <1>2, <2>1 DEF TarjanInv, CallsOK
<1>4. /\ r \in CallRecord /\ r.vertex = calls[1].vertex /\ r.edges = calls[1].edges \ {w}
      /\ ~r.called
  BY <1>2 DEF CallRecord
<1>5. calls' = <<r>> \o Tail(calls)
  BY DEF Following, NextEdge
<1> HIDE DEF r
<1>6. /\ calls' \in Seq(CallRecord) /\ Len(calls') = Len(calls) /\ calls'[1] = r
      /\ \A i \in 2..Len(calls) : calls'[i] = calls[i]
  BY <1>1, <1>2, <1>4, <1>5, ReplaceHead
<1>7. Calls' = Calls /\ calls' # <<>>
  BY <1>2, <1>6 DEF Calls
<1>8. ASSUME NEW i \in Calls, i # 1 PROVE calls'[i] = calls[i]
  <2>1. i \in 2..Len(calls)
    BY <1>2, <1>8 DEF Calls
  <2>2. QED
    BY <1>6, <2>1
<1>9. \A i \in Calls : Underway(i)' = Underway(i)
  BY <1>4, <1>6, <1>8 DEF Underway
<1>10. ASSUME NEW y, NEW x
       PROVE  Pending(y, x)' <=> Pending(y, x) /\ ~(y = Underway(1) /\ x = w)
  <2>1. ASSUME NEW k \in Calls', Underway(k)' = y, x \in calls'[k].edges
        PROVE  Pending(y, x) /\ ~(y = Underway(1) /\ x = w)
    <3>1. k \in Calls /\ Underway(k) = y
      BY <1>7, <1>9, <2>1
    <3>2. CASE k = 1
      BY <1>4, <1>6, <2>1, <3>1, <3>2 DEF Pending
    <3>3. CASE k # 1
      <4>1. x \in calls[k].edges
        BY <1>8, <2>1, <3>1, <3>3
      <4>2. y # Underway(1)
        BY <1>2, <3>1, <3>3, UnderwayOnce
      <4>3. QED
        BY <3>1, <4>1, <4>2 DEF Pending
    <3>4. QED
      BY <3>2, <3>3
  <2>2. ASSUME NEW k \in Calls, Underway(k) = y, x \in calls[k].edges,
               ~(y = Underway(1) /\ x = w)
        PROVE  Pending(y, x)'
    <3>1. k \in Calls' /\ Underway(k)' = y
      BY <1>7, <1>9, <2>2
    <3>2. x \in calls'[k].edges
      BY <1>4, <1>6, <1>8, <2>2
    <3>3. QED
      BY <3>1, <3>2 DEF Pending
  <2>3. QED
    BY <2>1, <2>2 DEF Pending
<1>11. QED
  BY <1>1, <1>2, <1>3, <1>4, <1>6, <1>7, <1>8, <1>9, <1>10

\* What remains to be known of the new lowlink of the caller.
LEMMA FollowStep ==
  ASSUME TarjanInv, NEW w, Following(w), NEW v, v = Underway(1),
         lowlink' = [u \in Visited |-> lowlink'[u]],
         \A u \in Visited : u # v => lowlink'[u] = lowlink[u],
         lowlink'[v] \in Nat, lowlink'[v] <= lowlink[v],
         \E u \in inStack : index[u] = lowlink'[v] /\ u \in Component(v),
         calls[1].called => lowlink'[v] <= lowlink[w],
         w \in inStack /\ index[w] < index[v] => lowlink'[v] <= index[w]
  PROVE  TarjanInv'
<1> USE FollowCalls, Numbers
<1>d. /\ \A u : Edges(u)' = Edges(u) /\ Reachable(u)' = Reachable(u)
      /\ \A u : Component(u)' = Component(u)
      /\ Mentioned' = Mentioned
  BY DepsSame DEF Following
<1>f. /\ Visited' = Visited /\ Split' = Split
      /\ UNCHANGED <<deps, index, inStack, stack, nextIndex, components, impossible, keys>>
      /\ w \in Visited
  BY DEF Following, Visited, Split
<1>v. v \in Visited /\ v \in inStack /\ 1 \in Calls /\ v \in Namespaces
      /\ \A i \in Calls : index[Underway(i)] <= index[v]
  BY CallerFacts
<1>1. DepsOK'
  BY <1>f DEF TarjanInv, DepsOK
<1>2. VerticesOK'
  <2>1. \A u \in Visited : lowlink'[u] \in Nat /\ lowlink'[u] <= index[u]
    BY <1>v
  <2>2. QED
    BY <1>d, <1>f, <2>1 DEF TarjanInv, VerticesOK
<1>3. StackOK'
  BY <1>f DEF TarjanInv, StackOK, Places
<1>4. CallsOK'
  <2>1. ASSUME NEW i \in Calls
        PROVE  Underway(i)' \in inStack' /\ calls'[i].edges \subseteq Edges(Underway(i))'
    <3>1. calls[i].edges \subseteq Edges(Underway(i)) /\ Underway(i) \in inStack
      BY DEF TarjanInv, CallsOK
    <3>2. calls'[i].edges \subseteq calls[i].edges
      OBVIOUS
    <3>3. Edges(Underway(i))' = Edges(Underway(i))
      BY <1>d
    <3>4. QED
      BY <1>f, <3>1, <3>2, <3>3
  <2>2. \A i, j \in Calls : i < j => index[Underway(i)] > index[Underway(j)]
    BY DEF TarjanInv, CallsOK
  <2>3. QED
    BY <1>f, <2>1, <2>2 DEF CallsOK
<1>5. CalleesOK'
  <2>1. ASSUME NEW i \in Calls, i > 1
        PROVE  calls'[i].called /\ Least(calls'[i].edges) = Underway(i - 1)'
    <3>1. calls'[i] = calls[i] /\ i - 1 \in Calls
      BY <2>1 DEF Calls
    <3>2. calls[i].called /\ Least(calls[i].edges) = Underway(i - 1)
      BY <2>1 DEF TarjanInv, CalleesOK
    <3>3. QED
      BY <3>1, <3>2
  <2>2. ASSUME NEW i \in Calls, calls'[i].called
        PROVE  LET c == Least(calls'[i].edges)
               IN  calls'[i].edges # {} /\ c \in Visited' /\ index'[c] > index'[Underway(i)']
    <3>1. calls'[i] = calls[i] /\ Underway(i)' = Underway(i)
      BY <2>2
    <3>2. LET c == Least(calls[i].edges)
          IN  calls[i].edges # {} /\ c \in Visited /\ index[c] > index[Underway(i)]
      BY <2>2, <3>1 DEF TarjanInv, CalleesOK
    <3>3. QED
      BY <1>f, <3>1, <3>2
  <2>3. QED
    BY <2>1, <2>2 DEF CalleesOK
<1>6. Explored' /\ SplitClosed'
  <2>1. \A u \in Visited : \A x \in Edges(u) : x \in Visited \/ Pending(u, x)'
    BY <1>f DEF TarjanInv, Explored
  <2>2. \A u \in Split : Edges(u) \subseteq Split
    BY DEF TarjanInv, SplitClosed
  <2>3. QED
    BY <1>d, <1>f, <2>1, <2>2 DEF Explored, SplitClosed
<1>7. Below' /\ Above'
  <2>1. /\ \A i \in Calls : \A y \in inStack :
             index[Underway(i)] <= index[y] => y \in Reachable(Underway(i))
        /\ \A y \in inStack : \E i \in Calls :
             index[Underway(i)] <= index[y] /\ Underway(i) \in Reachable(y)
    BY DEF TarjanInv, Below, Above
  <2>2. Below'
    BY <1>d, <1>f, <2>1 DEF Below
  <2>3. Above'
    <3>1. ASSUME NEW y \in inStack
          PROVE  \E i \in Calls' : index'[Underway(i)'] <= index'[y] /\ Underway(i)' \in Reachable(y)'
      <4>1. PICK i \in Calls : index[Underway(i)] <= index[y] /\ Underway(i) \in Reachable(y)
        BY <2>1
      <4>2. QED
        BY <1>d, <1>f, <4>1
    <3>2. QED
      BY <1>f, <3>1 DEF Above
  <2>4. QED
    BY <2>2, <2>3
<1>8. LowlinkReached'
  <2>1. ASSUME NEW x \in inStack
        PROVE  \E u \in inStack : index[u] = lowlink'[x] /\ u \in Component(x)
    <3>1. CASE x = v
      BY <3>1
    <3>2. CASE x # v
      BY <3>2 DEF TarjanInv, LowlinkReached
    <3>3. QED
      BY <3>1, <3>2
  <2>2. QED
    BY <1>d, <1>f, <2>1 DEF LowlinkReached
<1>9. EdgesRecorded'
  <2> SUFFICES ASSUME NEW i \in Calls, NEW y \in inStack, NEW x \in inStack,
                      index[Underway(i)] <= index[y], index[x] < index[Underway(i)],
                      x \in Edges(y), ~Pending(y, x)'
               PROVE  Recorded(i, x)'
    BY <1>d, <1>f DEF EdgesRecorded
  <2>i. /\ i \in Nat /\ i >= 1 /\ index[x] \in Nat /\ index[Underway(i)] \in Nat
        /\ index[v] \in Nat /\ lowlink[v] \in Nat /\ lowlink[w] \in Nat
    BY <1>f, <1>v DEF Calls
  <2>1. CASE y = v /\ x = w
    <3>1. index[w] < index[v]
      BY <2>1, <2>i
    <3>2. lowlink'[v] <= index[x]
      BY <2>1, <3>1
    <3>3. QED
      BY <1>f, <1>v, <2>i, <3>2 DEF Recorded
  <2>2. CASE ~(y = v /\ x = w)
    <3>1. Recorded(i, x)
      BY <2>2 DEF TarjanInv, EdgesRecorded
    <3>2. ASSUME NEW j \in Calls, j <= i, lowlink[Underway(j)] <= index[x]
          PROVE  Recorded(i, x)'
      <4>1. lowlink'[Underway(j)] <= index[x]
        <5>1. CASE Underway(j) = v
          BY <2>i, <3>2, <5>1
        <5>2. CASE Underway(j) # v
          BY <3>2, <5>2
        <5>3. QED
          BY <5>1, <5>2
      <4>2. QED
        BY <1>f, <3>2, <4>1 DEF Recorded
    <3>3. ASSUME calls[1].called, lowlink[w] <= index[x]
          PROVE  Recorded(i, x)'
      <4>1. lowlink'[v] <= index[x]
        BY <2>i, <3>3
      <4>2. QED
        BY <1>f, <1>v, <2>i, <4>1 DEF Recorded
    <3>4. QED
      BY <3>1, <3>2, <3>3 DEF Recorded
  <2>3. QED
    BY <2>1, <2>2
<1>10. ComponentsOK'
  BY <1>f, ComponentsFrame DEF TarjanInv
<1>11. QED
  BY <1>1, <1>2, <1>3, <1>4, <1>5, <1>6, <1>7, <1>8, <1>9, <1>10 DEF TarjanInv

\* Every vertex in the stack reaches the innermost of those under way.
LEMMA ReachesCaller ==
  ASSUME TarjanInv, calls # <<>>, NEW y \in inStack
  PROVE  Underway(1) \in Reachable(y)
<1>1. PICK i \in Calls : index[Underway(i)] <= index[y] /\ Underway(i) \in Reachable(y)
  BY DEF TarjanInv, Above
<1>2. Underway(1) \in inStack /\ index[Underway(i)] <= index[Underway(1)]
  BY CallerFacts
<1>3. Underway(1) \in Reachable(Underway(i))
  BY <1>2 DEF TarjanInv, Below
<1>4. QED
  BY <1>1, <1>3, ReachTransitive

LEMMA LowerToFacts ==
  ASSUME TarjanInv, NEW v \in Visited, NEW n \in Nat, lowlink' = LowerTo(lowlink, v, n)
  PROVE  /\ lowlink' = [u \in Visited |-> lowlink'[u]]
         /\ \A u \in Visited : u # v => lowlink'[u] = lowlink[u]
         /\ lowlink'[v] = IF n < lowlink[v] THEN n ELSE lowlink[v]
         /\ lowlink'[v] \in Nat /\ lowlink'[v] <= lowlink[v] /\ lowlink'[v] <= n
<1>1. lowlink = [u \in Visited |-> lowlink[u]] /\ lowlink[v] \in Nat
  BY DEF TarjanInv, VerticesOK
<1>2. /\ lowlink' = [u \in Visited |-> lowlink'[u]]
      /\ \A u \in Visited : u # v => lowlink'[u] = lowlink[u]
      /\ lowlink'[v] = IF n < lowlink[v] THEN n ELSE lowlink[v]
  BY <1>1 DEF LowerTo
<1>3. QED
  BY <1>1, <1>2

LEMMA ReturnedStep ==
  ASSUME TarjanInv, NEW w, Returned(w)
  PROVE  TarjanInv'
<1> DEFINE v == Underway(1)
<1>1. calls # <<>> /\ Caller.called /\ w = Least(Caller.edges)
      /\ lowlink' = LowerTo(lowlink, Caller.vertex, lowlink[w])
  BY DEF Returned, AtEdge
<1>2. /\ Caller = calls[1] /\ Caller.vertex = v /\ v \in inStack /\ v \in Visited /\ 1 \in Calls
      /\ v \in Namespaces
  BY <1>1, CallerFacts
<1>3. w \in Visited /\ index[w] > index[v] /\ (w \in inStack \/ lowlink[w] = index[w])
  BY <1>1, <1>2 DEF TarjanInv, CalleesOK
<1>4. Following(w)
  BY <1>3 DEF Returned, Following
<1>n. /\ lowlink[w] \in Nat /\ lowlink[v] \in Nat /\ index[w] \in Nat /\ index[v] \in Nat
      /\ lowlink[v] <= index[v]
  BY <1>2, <1>3, Numbers
<1>5. /\ lowlink' = [u \in Visited |-> lowlink'[u]]
      /\ \A u \in Visited : u # v => lowlink'[u] = lowlink[u]
      /\ lowlink'[v] = IF lowlink[w] < lowlink[v] THEN lowlink[w] ELSE lowlink[v]
      /\ lowlink'[v] \in Nat /\ lowlink'[v] <= lowlink[v] /\ lowlink'[v] <= lowlink[w]
  BY <1>1, <1>2, <1>n, LowerToFacts
<1>e. w \in Edges(v)
  BY <1>4, FollowCalls
<1>6. \E u \in inStack : index[u] = lowlink'[v] /\ u \in Component(v)
  <2>1. CASE lowlink'[v] = lowlink[v]
    BY <1>2, <2>1 DEF TarjanInv, LowlinkReached
  <2>2. CASE lowlink'[v] # lowlink[v]
    <3>1. lowlink[w] < lowlink[v] /\ lowlink'[v] = lowlink[w]
      BY <1>5, <2>2
    <3>2. w \in inStack
      BY <1>3, <1>n, <3>1
    <3>3. PICK u \in inStack : index[u] = lowlink[w] /\ u \in Component(w)
      BY <3>2 DEF TarjanInv, LowlinkReached
    <3>4. v \in Reachable(u)
      BY <1>1, ReachesCaller
    <3>5. w \in Reachable(v)
      BY <1>2, <1>e, ReachSelf, ReachEdge DEF TarjanInv
    <3>6. u \in Reachable(v)
      BY <3>3, <3>5, ReachTransitive DEF Component
    <3>7. QED
      BY <3>1, <3>3, <3>4, <3>6 DEF Component
  <2>3. QED
    BY <2>1, <2>2
<1>7. ~(index[w] < index[v])
  BY <1>3, <1>n
<1> HIDE DEF v
<1>8. v = Underway(1)
  BY DEF v
<1>9. QED
  BY <1>4, <1>5, <1>6, <1>7, <1>8, FollowStep

LEMMA OldVertexStep ==
  ASSUME TarjanInv, NEW w, OldVertex(w)
  PROVE  TarjanInv'
<1> DEFINE v == Underway(1)
<1>1. calls # <<>> /\ ~Caller.called /\ w \in Visited
      /\ lowlink' = IF w \in inStack THEN LowerTo(lowlink, Caller.vertex, index[w]) ELSE lowlink
  BY DEF OldVertex, AtEdge
<1>2. /\ Caller = calls[1] /\ Caller.vertex = v /\ v \in inStack /\ v \in Visited
      /\ v \in Namespaces
  BY <1>1, CallerFacts
<1>4. Following(w)
  BY <1>1 DEF OldVertex, Following
<1>n. /\ lowlink[v] \in Nat /\ index[w] \in Nat
  BY <1>1, <1>2, Numbers
<1>e. w \in Edges(v)
  BY <1>4, FollowCalls
<1>5. /\ lowlink' = [u \in Visited |-> lowlink'[u]]
      /\ \A u \in Visited : u # v => lowlink'[u] = lowlink[u]
      /\ lowlink'[v] = IF w \in inStack /\ index[w] < lowlink[v] THEN index[w] ELSE lowlink[v]
      /\ lowlink'[v] \in Nat /\ lowlink'[v] <= lowlink[v]
      /\ w \in inStack => lowlink'[v] <= index[w]
  <2>1. CASE w \in inStack
    BY <1>1, <1>2, <1>n, <2>1, LowerToFacts
  <2>2. CASE w \notin inStack
    <3>1. lowlink = [u \in Visited |-> lowlink[u]]
      BY DEF TarjanInv, VerticesOK
    <3>2. QED
      BY <1>1, <1>n, <2>2, <3>1
  <2>3. QED
    BY <2>1, <2>2
<1>6. \E u \in inStack : index[u] = lowlink'[v] /\ u \in Component(v)
  <2>1. CASE lowlink'[v] = lowlink[v]
    BY <1>2, <2>1 DEF TarjanInv, LowlinkReached
  <2>2. CASE lowlink'[v] # lowlink[v]
    <3>1. w \in inStack /\ lowlink'[v] = index[w]
      BY <1>5, <2>2
    <3>2. v \in Reachable(w)
      BY <1>1, <3>1, ReachesCaller
    <3>3. w \in Reachable(v)
      BY <1>2, <1>e, ReachSelf, ReachEdge DEF TarjanInv
    <3>4. QED
      BY <3>1, <3>2, <3>3 DEF Component
  <2>3. QED
    BY <2>1, <2>2
<1> HIDE DEF v
<1>7. v = Underway(1) /\ ~calls[1].called
  BY <1>1, <1>2 DEF v
<1>8. QED
  BY <1>4, <1>5, <1>6, <1>7, FollowStep

-----------------------------------------------------------------------------
(* The end of a call *)

\* What createComponent pops.
Subtree == {y \in inStack : index[y] >= index[Underway(1)]}

Leaving(C) ==
  /\ calls # <<>> /\ Caller.edges = {} /\ calls' = Tail(calls)
  /\ inStack' = inStack \ C
  /\ UNCHANGED <<deps, index, lowlink, nextIndex, impossible, keys>>
  /\ \/ C = {} /\ lowlink[Underway(1)] # index[Underway(1)]
     \/ C = Subtree /\ lowlink[Underway(1)] = index[Underway(1)]

LEMMA LeaveCalls ==
  ASSUME TarjanInv, NEW C, Leaving(C)
  PROVE  /\ calls' \in Seq(CallRecord)
         /\ \A i \in Calls' : /\ i + 1 \in Calls /\ calls'[i] = calls[i + 1]
                              /\ Underway(i)' = Underway(i + 1)
                              /\ index[Underway(i + 1)] < index[Underway(1)]
         /\ \A i \in Calls : i = 1 \/ (i - 1 \in Calls' /\ (i - 1) + 1 = i)
         /\ calls[1].edges = {} /\ ~calls[1].called
         /\ \A y, x : Pending(y, x)' <=> Pending(y, x)
         /\ calls' # <<>> => 1 \in Calls' /\ Underway(1) = Least(calls'[1].edges)
<1>1. /\ Len(calls) \in Nat /\ Len(calls) >= 1 /\ 1 \in Calls /\ calls \in Seq(CallRecord)
      /\ Caller = calls[1] /\ calls # <<>>
  BY CallerFacts DEF Leaving
<1>2. /\ calls' \in Seq(CallRecord) /\ Len(calls') = Len(calls) - 1
      /\ \A i \in 1..Len(calls') : calls'[i] = calls[i + 1]
  BY <1>1, HeadTailProperties DEF Leaving
<1>3. calls[1].edges = {} /\ ~calls[1].called
  BY <1>1 DEF Leaving, TarjanInv, CalleesOK
<1>4. ASSUME NEW i \in Calls'
      PROVE  /\ i + 1 \in Calls /\ calls'[i] = calls[i + 1]
             /\ Underway(i)' = Underway(i + 1)
             /\ index[Underway(i + 1)] < index[Underway(1)]
  <2>1. i + 1 \in Calls /\ i + 1 > 1
    BY <1>1, <1>2 DEF Calls
  <2>2. calls'[i] = calls[i + 1]
    BY <1>2 DEF Calls
  <2>3. index[Underway(1)] > index[Underway(i + 1)]
    BY <1>1, <2>1 DEF TarjanInv, CallsOK
  <2>4. index[Underway(1)] \in Nat /\ index[Underway(i + 1)] \in Nat
    BY <1>1, <2>1, Numbers
  <2>5. QED
    BY <2>1, <2>2, <2>3, <2>4 DEF Underway
<1>5. ASSUME NEW i \in Calls PROVE i = 1 \/ (i - 1 \in Calls' /\ (i - 1) + 1 = i)
  BY <1>1, <1>2 DEF Calls
<1>6. ASSUME NEW y, NEW x PROVE Pending(y, x)' <=> Pending(y, x)
  <2>1. ASSUME NEW k \in Calls', Underway(k)' = y, x \in calls'[k].edges PROVE Pending(y, x)
    BY <1>4, <2>1 DEF Pending
  <2>2. ASSUME NEW k \in Calls, Underway(k) = y, x \in calls[k].edges PROVE Pending(y, x)'
    <3>1. k # 1
      BY <1>3, <2>2
    <3>2. k - 1 \in Calls' /\ (k - 1) + 1 = k
      BY <1>5, <3>1
    <3>3. Underway(k - 1)' = y /\ x \in calls'[k - 1].edges
      BY <1>4, <2>2, <3>2
    <3>4. QED
      BY <3>2, <3>3 DEF Pending
  <2>3. QED
    BY <2>1, <2>2 DEF Pending
<1>7. calls' # <<>> => 1 \in Calls' /\ Underway(1) = Least(calls'[1].edges)
  <2> SUFFICES ASSUME calls' # <<>> PROVE 1 \in Calls' /\ Underway(1) = Least(calls'[1].edges)
    OBVIOUS
  <2>1. Len(calls') \in Nat /\ Len(calls') >= 1
    BY <1>2, EmptySeq
  <2>2. 1 \in Calls'
    BY <2>1 DEF Calls
  <2>3. 2 \in Calls /\ calls'[1] = calls[2]
    BY <1>4, <2>2
  <2>4. Least(calls[2].edges) = Underway(1)
    BY <2>3 DEF TarjanInv, CalleesOK
  <2>5. QED
    BY <2>2, <2>3, <2>4
<1>8. QED
  BY <1>2, <1>3, <1>4, <1>5, <1>6, <1>7

LEMMA LeaveRest ==
  ASSUME TarjanInv, NEW C, Leaving(C)
  PROVE  /\ DepsOK' /\ VerticesOK' /\ CallsOK' /\ CalleesOK'
         /\ Explored' /\ Below' /\ Above' /\ LowlinkReached' /\ EdgesRecorded'
<1> USE LeaveCalls, Numbers
<1>d. /\ \A u : Edges(u)' = Edges(u) /\ Reachable(u)' = Reachable(u)
      /\ \A u : Component(u)' = Component(u)
      /\ Mentioned' = Mentioned
  BY DepsSame DEF Leaving
<1> DEFINE v == Underway(1)
<1>f. /\ Visited' = Visited /\ UNCHANGED <<deps, index, lowlink, nextIndex, impossible, keys>>
      /\ inStack' = inStack \ C
  BY DEF Leaving, Visited
<1>v. /\ v \in Visited /\ v \in inStack /\ 1 \in Calls /\ v \in Namespaces
      /\ index[v] \in Nat /\ lowlink[v] \in Nat /\ lowlink[v] <= index[v]
  BY CallerFacts DEF Leaving
<1>c. \/ C = {} /\ lowlink[v] < index[v]
      \/ /\ C = {y \in inStack : index[y] >= index[v]}
         /\ lowlink[v] = index[v]
  BY <1>v DEF Leaving, Subtree
<1>k. \A y \in inStack : index[y] < index[v] => y \in inStack'
  <2>1. \A y \in inStack : index[y] \in Nat
    OBVIOUS
  <2>2. QED
    BY <1>f, <1>v, <1>c, <2>1
<1>s. ASSUME C # {}, NEW y \in inStack' PROVE index[y] < index[v]
  <2>1. index[y] \in Nat /\ y \in inStack /\ ~(index[y] >= index[v])
    BY <1>f, <1>c, <1>s
  <2>2. QED
    BY <1>v, <2>1
<1> HIDE DEF v
<1>1. DepsOK' /\ VerticesOK'
  <2>1. DepsOK'
    BY <1>f DEF TarjanInv, DepsOK
  <2>2. VerticesOK'
    BY <1>d, <1>f DEF TarjanInv, VerticesOK
  <2>3. QED
    BY <2>1, <2>2
<1>2. CallsOK'
  <2>1. ASSUME NEW i \in Calls'
        PROVE  Underway(i)' \in inStack' /\ calls'[i].edges \subseteq Edges(Underway(i))'
    <3>1. i + 1 \in Calls /\ Underway(i)' = Underway(i + 1) /\ calls'[i] = calls[i + 1]
          /\ index[Underway(i + 1)] < index[v]
      BY DEF v
    <3>2. Underway(i + 1) \in inStack /\ calls[i + 1].edges \subseteq Edges(Underway(i + 1))
      BY <3>1 DEF TarjanInv, CallsOK
    <3>3. Edges(Underway(i))' = Edges(Underway(i + 1))
      BY <1>d, <3>1
    <3>4. QED
      BY <1>k, <3>1, <3>2, <3>3
  <2>2. ASSUME NEW i \in Calls', NEW j \in Calls', i < j
        PROVE  index'[Underway(i)'] > index'[Underway(j)']
    <3>1. i + 1 < j + 1 /\ i + 1 \in Calls /\ j + 1 \in Calls
      BY <2>2 DEF Calls
    <3>2. index[Underway(i + 1)] > index[Underway(j + 1)]
      BY <3>1 DEF TarjanInv, CallsOK
    <3>3. QED
      BY <1>f, <3>2
  <2>3. QED
    BY <2>1, <2>2 DEF CallsOK
<1>3. CalleesOK'
  <2>1. ASSUME NEW i \in Calls', i > 1
        PROVE  calls'[i].called /\ Least(calls'[i].edges) = Underway(i - 1)'
    <3>1. i + 1 \in Calls /\ i + 1 > 1 /\ calls'[i] = calls[i + 1] /\ (i + 1) - 1 = i
          /\ i - 1 \in Calls' /\ (i - 1) + 1 = i
      BY <2>1 DEF Calls
    <3>2. calls[i + 1].called /\ Least(calls[i + 1].edges) = Underway(i)
      BY <3>1 DEF TarjanInv, CalleesOK
    <3>3. Underway(i - 1)' = Underway(i)
      BY <3>1
    <3>4. QED
      BY <3>1, <3>2, <3>3
  <2>2. ASSUME NEW i \in Calls', calls'[i].called
        PROVE  LET c == Least(calls'[i].edges)
               IN  calls'[i].edges # {} /\ c \in Visited' /\ index'[c] > index'[Underway(i)']
    <3>1. i + 1 \in Calls /\ calls'[i] = calls[i + 1] /\ Underway(i)' = Underway(i + 1)
      OBVIOUS
    <3>2. LET c == Least(calls[i + 1].edges)
          IN  calls[i + 1].edges # {} /\ c \in Visited /\ index[c] > index[Underway(i + 1)]
      BY <2>2, <3>1 DEF TarjanInv, CalleesOK
    <3>3. QED
      BY <1>f, <3>1, <3>2
  <2>3. ASSUME calls' # <<>>
        PROVE  LET c == Least(calls'[1].edges) IN c \in inStack' \/ lowlink'[c] = index'[c]
    <3>1. Least(calls'[1].edges) = v
      BY <2>3 DEF v
    <3>2. v \in inStack' \/ lowlink[v] = index[v]
      BY <1>f, <1>v, <1>c
    <3>3. QED
      BY <1>f, <3>1, <3>2
  <2>4. QED
    BY <2>1, <2>2, <2>3 DEF CalleesOK
<1>4. Explored'
  <2>1. \A u \in Visited : \A x \in Edges(u) : x \in Visited \/ Pending(u, x)
    BY DEF TarjanInv, Explored
  <2>2. QED
    BY <1>d, <1>f, <2>1 DEF Explored
<1>5. Below'
  <2>1. ASSUME NEW i \in Calls', NEW y \in inStack', index[Underway(i + 1)] <= index[y]
        PROVE  y \in Reachable(Underway(i + 1))
    BY <1>f, <2>1 DEF TarjanInv, Below
  <2>2. QED
    BY <1>d, <1>f, <2>1 DEF Below
<1>6. Above'
  <2>1. ASSUME NEW y \in inStack'
        PROVE  \E k \in Calls : k # 1 /\ index[Underway(k)] <= index[y] /\ Underway(k) \in Reachable(y)
    <3>1. y \in inStack /\ index[y] \in Nat
      BY <1>f
    <3>2. PICK i \in Calls : index[Underway(i)] <= index[y] /\ Underway(i) \in Reachable(y)
      BY <3>1 DEF TarjanInv, Above
    <3>3. CASE i # 1
      BY <3>2, <3>3
    <3>4. CASE i = 1
      <4>1. index[v] <= index[y] /\ v \in Reachable(y)
        BY <3>2, <3>4 DEF v
      <4>2. C = {}
        BY <1>s, <1>v, <3>1, <4>1
      <4>3. lowlink[v] < index[v]
        BY <1>v, <1>c, <4>2
      <4>4. PICK u \in inStack : index[u] = lowlink[v] /\ u \in Component(v)
        BY <1>v DEF TarjanInv, LowlinkReached
      <4>5. PICK k \in Calls : index[Underway(k)] <= index[u] /\ Underway(k) \in Reachable(u)
        BY DEF TarjanInv, Above
      <4>6. index[Underway(k)] \in Nat
        OBVIOUS
      <4>7. k # 1 /\ index[Underway(k)] <= index[y]
        BY <1>v, <3>1, <4>1, <4>3, <4>4, <4>5, <4>6 DEF v
      <4>8. u \in Reachable(y)
        BY <4>1, <4>4, ReachTransitive DEF Component
      <4>9. Underway(k) \in Reachable(y)
        BY <4>5, <4>8, ReachTransitive
      <4>10. QED
        BY <4>7, <4>9
    <3>5. QED
      BY <3>3, <3>4
  <2>2. ASSUME NEW y \in inStack'
        PROVE  \E i \in Calls' : index'[Underway(i)'] <= index'[y] /\ Underway(i)' \in Reachable(y)'
    <3>1. PICK k \in Calls : k # 1 /\ index[Underway(k)] <= index[y] /\ Underway(k) \in Reachable(y)
      BY <2>1
    <3>2. k - 1 \in Calls' /\ Underway(k - 1)' = Underway(k)
      BY <3>1
    <3>3. QED
      BY <1>d, <1>f, <3>1, <3>2
  <2>3. QED
    BY <2>2 DEF Above
<1>7. LowlinkReached'
  <2>1. ASSUME NEW x \in inStack'
        PROVE  \E u \in inStack' : index[u] = lowlink[x] /\ u \in Component(x)
    <3>1. PICK u \in inStack : index[u] = lowlink[x] /\ u \in Component(x)
      BY <1>f DEF TarjanInv, LowlinkReached
    <3>2. CASE C = {}
      BY <1>f, <3>1, <3>2
    <3>3. CASE C # {}
      <4>1. index[x] < index[v] /\ lowlink[x] <= index[x] /\ index[x] \in Nat /\ lowlink[x] \in Nat
        BY <1>f, <1>s, <3>3
      <4>2. index[u] < index[v]
        BY <1>v, <3>1, <4>1
      <4>3. QED
        BY <1>k, <3>1, <4>2
    <3>4. QED
      BY <3>2, <3>3
  <2>2. QED
    BY <1>d, <1>f, <2>1 DEF LowlinkReached
<1>8. EdgesRecorded'
  <2> SUFFICES ASSUME NEW i \in Calls', NEW y \in inStack', NEW x \in inStack',
                      index'[Underway(i)'] <= index'[y], index'[x] < index'[Underway(i)'],
                      x \in Edges(y), ~Pending(y, x)'
               PROVE  Recorded(i, x)'
    BY <1>d DEF EdgesRecorded
  <2>1. /\ i + 1 \in Calls /\ Underway(i)' = Underway(i + 1) /\ calls' # <<>>
        /\ index[Underway(i + 1)] < index[v] /\ index[Underway(i + 1)] \in Nat
        /\ y \in inStack /\ x \in inStack /\ index[x] \in Nat /\ i \in Nat
    BY <1>f DEF Calls, v
  <2>2. Recorded(i + 1, x)
    BY <1>f, <2>1 DEF TarjanInv, EdgesRecorded
  <2>3. PICK j \in Calls : j <= i + 1 /\ lowlink[Underway(j)] <= index[x]
    BY <2>2 DEF Recorded
  <2>4. CASE j = 1
    <3>1. lowlink[v] <= index[x] /\ v = Least(calls'[1].edges) /\ 1 \in Calls'
      BY <2>1, <2>3, <2>4 DEF v
    <3>2. calls'[1].called
      <4>1. 2 \in Calls /\ calls'[1] = calls[2]
        BY <3>1
      <4>2. QED
        BY <4>1 DEF TarjanInv, CalleesOK
    <3>3. QED
      BY <1>f, <3>1, <3>2 DEF Recorded
  <2>5. CASE j # 1
    <3>1. j - 1 \in Calls' /\ (j - 1) + 1 = j
      BY <2>5
    <3>2. Underway(j - 1)' = Underway(j) /\ j - 1 <= i
      BY <2>1, <2>3, <3>1 DEF Calls
    <3>3. QED
      BY <1>f, <2>3, <3>1, <3>2 DEF Recorded
  <2>6. QED
    BY <2>4, <2>5
<1>9. QED
  BY <1>1, <1>2, <1>3, <1>4, <1>5, <1>6, <1>7, <1>8

\* When the lowlink of the innermost vertex is its own index, what was met
\* since is a component, and depends on nothing else that is in the stack.
LEMMA SubtreeIsComponent ==
  ASSUME TarjanInv, calls # <<>>, Caller.edges = {},
         lowlink[Underway(1)] = index[Underway(1)]
  PROVE  /\ Underway(1) \in Subtree
         /\ \A y \in Subtree : Edges(y) \subseteq Subtree \cup Split
         /\ \A y \in Subtree : Component(y) = Subtree
<1> DEFINE v == Underway(1)
<1>v. /\ v \in inStack /\ v \in Namespaces /\ index[v] \in Nat /\ lowlink[v] = index[v]
      /\ 1 \in Calls /\ calls[1].edges = {} /\ ~calls[1].called
  BY CallerFacts, Numbers DEF TarjanInv, CalleesOK
<1>m. \A i \in Calls : index[Underway(i)] <= index[v] /\ index[Underway(i)] \in Nat
  BY CallerFacts, Numbers
<1>s. Subtree = {y \in inStack : index[y] >= index[v]}
  BY DEF Subtree
<1>n. \A y \in inStack : index[y] \in Nat /\ y \in Visited /\ y \in Namespaces
  BY Numbers
<1> HIDE DEF v
<1>1. v \in Subtree
  BY <1>v, <1>s
<1>2. ASSUME NEW y \in Subtree, NEW w \in Edges(y) PROVE w \in Subtree \cup Split
  <2>1. ~Pending(y, w)
    <3> SUFFICES ASSUME NEW k \in Calls, Underway(k) = y, w \in calls[k].edges PROVE FALSE
      BY DEF Pending
    <3>1. y = v
      <4>1. index[y] = index[v]
        BY <1>v, <1>m, <1>s
      <4>2. y \in Visited /\ v \in Visited
        BY <1>v, <1>n, <1>s
      <4>3. QED
        BY <4>1, <4>2 DEF TarjanInv, VerticesOK
    <3>2. k = 1
      BY <1>v, <3>1, UnderwayOnce DEF v
    <3>3. QED
      BY <1>v, <3>2
  <2>2. w \in Visited
    BY <1>n, <1>s, <2>1 DEF TarjanInv, Explored
  <2>3. CASE w \in inStack
    <3>1. ASSUME index[w] < index[v] PROVE FALSE
      <4>1. Recorded(1, w)
        <5>1. y \in inStack /\ index[v] <= index[y]
          BY <1>v, <1>n, <1>s
        <5>2. QED
          BY <1>v, <2>1, <2>3, <3>1, <5>1 DEF TarjanInv, EdgesRecorded, v
      <4>2. PICK j \in Calls : j <= 1 /\ lowlink[Underway(j)] <= index[w]
        BY <1>v, <4>1 DEF Recorded
      <4>3. j = 1
        BY <4>2, Numbers DEF Calls
      <4>4. QED
        BY <1>v, <1>n, <2>3, <3>1, <4>2, <4>3 DEF v
    <3>2. QED
      BY <1>v, <1>n, <1>s, <2>3, <3>1
  <2>4. QED
    BY <2>2, <2>3 DEF Split
<1>3. ASSUME NEW y \in Subtree PROVE y \in Component(v)
  <2>1. y \in Reachable(v)
    BY <1>v, <1>n, <1>s DEF TarjanInv, Below, v
  <2>2. v \in Reachable(y)
    BY <1>s, ReachesCaller DEF v
  <2>3. QED
    BY <2>1, <2>2 DEF Component
<1>4. ASSUME NEW y \in Component(v) PROVE y \in Subtree
  <2>1. Split \subseteq Namespaces /\ Subtree \subseteq Namespaces /\ \A u \in Split : u \notin inStack
    BY <1>s, <1>n, Numbers DEF Split
  <2>2. \A x \in Split : Edges(x) \subseteq Split
    BY DEF TarjanInv, SplitClosed
  <2>3. Reachable(v) \subseteq Subtree \cup Split
    BY <1>1, <1>2, <2>1, <2>2, ReachClosed
  <2>4. ASSUME y \in Split PROVE FALSE
    <3>1. Reachable(y) \subseteq Split
      BY <2>1, <2>2, <2>4, ReachClosed
    <3>2. v \in Split
      BY <3>1 DEF Component
    <3>3. QED
      BY <1>v, <2>1, <3>2
  <2>5. QED
    BY <2>3, <2>4 DEF Component
<1>5. Component(v) = Subtree
  BY <1>3, <1>4
<1>6. \A y \in Subtree : Component(y) = Subtree
  BY <1>3, <1>5, ComponentsAgree
<1>7. QED
  BY <1>1, <1>2, <1>6 DEF v

\* createComponent pops the subtree and finds it.
LEMMA CreateFacts ==
  ASSUME TarjanInv, calls # <<>>, CreateComponent(Underway(1))
  PROVE  /\ inStack' = inStack \ Subtree
         /\ impossible' = impossible
         /\ \E k \in Places : /\ stack[k] = Underway(1)
                              /\ stack' \in Seq(Namespaces)
                              /\ Len(stack') = Len(stack) - k
                              /\ \A i \in Places' : stack'[i] = stack[k + i]
         /\ \E c \in Seq(Namespaces) : /\ {c[i] : i \in 1..Len(c)} = Subtree
                                       /\ components' = <<c>> \o components
<1> DEFINE v == Underway(1)
<1>v. v \in inStack /\ index[v] \in Nat
  BY CallerFacts, Numbers
<1>s. /\ stack \in Seq(Namespaces) /\ Len(stack) \in Nat /\ DOMAIN stack = Places
      /\ \A i \in Places : stack[i] \in inStack
      /\ \A u \in inStack : \E i \in Places : stack[i] = u
      /\ \A i, j \in Places : i < j => index[stack[i]] > index[stack[j]]
  BY DEF TarjanInv, StackOK, Places
<1>n. \A y \in inStack : index[y] \in Nat /\ y \in Namespaces
  BY Numbers
<1> DEFINE k == CHOOSE k \in DOMAIN stack : stack[k] = v
           popped == SubSeq(stack, 1, k)
<1>1. Contains(stack, v)
  BY <1>v, <1>s DEF Contains, Places
<1>2. k \in Places /\ stack[k] = v
  BY <1>v, <1>s
<1>3. /\ stack' = SubSeq(stack, Len(popped) + 1, Len(stack))
      /\ inStack' = Unstacked(popped)
      /\ components' = InFront(Reverse(popped)) /\ impossible' = impossible
  BY <1>1 DEF CreateComponent
<1> HIDE DEF v, k
<1>k. k \in Nat /\ k >= 1 /\ k <= Len(stack) /\ \A i \in 1..k : i \in Places
  BY <1>2, <1>s DEF Places
<1>4. popped \in Seq(Namespaces) /\ Len(popped) = k /\ \A i \in 1..k : popped[i] = stack[i]
  <2>1. \A i \in 1..k : stack[i] \in Namespaces
    BY <1>k, <1>s, <1>n
  <2>2. /\ popped \in Seq(Namespaces)
        /\ Len(popped) = IF 1 <= k THEN k - 1 + 1 ELSE 0
        /\ \A i \in 1 .. k - 1 + 1 : popped[i] = stack[1 + i - 1]
    BY <1>k, <2>1, SubSeqProperties
  <2>3. QED
    BY <1>k, <2>2
<1> HIDE DEF popped
<1>5. \A y : (\E i \in 1..k : popped[i] = y) <=> y \in Subtree
  <2>1. ASSUME NEW i \in 1..k PROVE popped[i] \in Subtree
    <3>1. popped[i] = stack[i] /\ stack[i] \in inStack /\ i \in Places
      BY <1>k, <1>s, <1>4
    <3>2. index[stack[i]] >= index[v]
      <4>1. CASE i = k
        BY <1>2, <1>v, <4>1 DEF v
      <4>2. CASE i # k
        <5>1. i < k
          BY <1>k, <4>2
        <5>2. index[stack[i]] > index[stack[k]]
          BY <1>2, <1>s, <3>1, <5>1
        <5>3. QED
          BY <1>2, <1>v, <1>n, <3>1, <5>2 DEF v
      <4>3. QED
        BY <4>1, <4>2
    <3>3. QED
      BY <3>1, <3>2 DEF Subtree, v
  <2>2. ASSUME NEW y \in Subtree PROVE \E i \in 1..k : popped[i] = y
    <3>1. y \in inStack /\ index[y] >= index[v]
      BY DEF Subtree, v
    <3>2. PICK i \in Places : stack[i] = y
      BY <1>s, <3>1
    <3>3. ~(k < i)
      <4>1. index[y] \in Nat /\ index[v] \in Nat
        BY <1>v, <1>n, <3>1 DEF v
      <4>2. k < i => index[v] > index[y]
        BY <1>2, <1>s, <3>2
      <4>3. QED
        BY <3>1, <4>1, <4>2
    <3>4. i \in 1..k
      BY <1>k, <3>2, <3>3, <1>s DEF Places
    <3>5. QED
      BY <1>4, <3>2, <3>4
  <2>3. QED
    BY <2>1, <2>2
<1>6. inStack' = inStack \ Subtree
  <2>1. DOMAIN popped = 1..k
    BY <1>4
  <2>2. QED
    BY <1>3, <1>5, <2>1 DEF Unstacked, ToSet
<1>7. /\ stack' \in Seq(Namespaces) /\ Len(stack') = Len(stack) - k
      /\ \A i \in Places' : stack'[i] = stack[k + i]
  <2>1. stack' = SubSeq(stack, k + 1, Len(stack))
    BY <1>3, <1>4
  <2>2. \A i \in k + 1 .. Len(stack) : stack[i] \in Namespaces
    BY <1>s, <1>n, <1>k DEF Places
  <2>3. k + 1 \in Int /\ Len(stack) \in Int
    BY <1>s, <1>k
  <2>4. /\ stack' \in Seq(Namespaces)
        /\ Len(stack') = IF k + 1 <= Len(stack) THEN Len(stack) - (k + 1) + 1 ELSE 0
        /\ \A i \in 1 .. Len(stack) - (k + 1) + 1 : stack'[i] = stack[(k + 1) + i - 1]
    BY <2>1, <2>2, <2>3, SubSeqProperties
  <2>5. Len(stack') = Len(stack) - k
    BY <1>s, <1>k, <2>4
  <2>6. ASSUME NEW i \in Places' PROVE stack'[i] = stack[k + i]
    <3>1. i \in 1 .. Len(stack) - (k + 1) + 1 /\ (k + 1) + i - 1 = k + i
      BY <1>s, <1>k, <2>5 DEF Places
    <3>2. QED
      BY <2>4, <3>1
  <2>7. QED
    BY <2>4, <2>5, <2>6
<1> DEFINE c == Reverse(popped)
<1>8. c \in Seq(Namespaces) /\ {c[i] : i \in 1..Len(c)} = Subtree
  <2>1. c = [i \in 1..k |-> popped[(k - i) + 1]]
    BY <1>4 DEF Reverse
  <2>2. \A i \in 1..k : (k - i) + 1 \in 1..k /\ (k - ((k - i) + 1)) + 1 = i
    BY <1>k
  <2>3. \A i \in 1..k : popped[i] \in Namespaces
    BY <1>4
  <2> HIDE DEF c
  <2>4. c \in Seq(Namespaces) /\ Len(c) = k /\ \A i \in 1..k : c[i] = popped[(k - i) + 1]
    <3>1. c \in [1..k -> Namespaces]
      BY <2>1, <2>2, <2>3
    <3>2. QED
      BY <1>k, <2>1, <3>1
  <2>5. \A i \in 1..k : c[i] \in Subtree
    BY <1>5, <2>2, <2>4
  <2>6. ASSUME NEW y \in Subtree PROVE \E i \in 1..k : c[i] = y
    <3>1. PICK i \in 1..k : popped[i] = y
      BY <1>5
    <3>2. c[(k - i) + 1] = y
      BY <2>2, <2>4, <3>1
    <3>3. QED
      BY <2>2, <3>2
  <2>7. QED
    BY <2>4, <2>5, <2>6
<1>9. components' = <<c>> \o components
  BY <1>3 DEF InFront
<1> HIDE DEF c
<1>10. QED
  BY <1>2, <1>3, <1>6, <1>7, <1>8, <1>9 DEF v

LEMMA LeaveKeepsStack ==
  ASSUME TarjanInv, Leave, index[Caller.vertex] # lowlink[Caller.vertex]
  PROVE  TarjanInv'
<1>1. /\ calls # <<>> /\ Caller.edges = {} /\ calls' = Tail(calls)
      /\ UNCHANGED <<inStack, stack, components, impossible, deps, index, lowlink, nextIndex, keys>>
  BY DEF Leave
<1>2. Leaving({})
  BY <1>1, CallerFacts DEF Leaving
<1>3. /\ DepsOK' /\ VerticesOK' /\ CallsOK' /\ CalleesOK'
      /\ Explored' /\ Below' /\ Above' /\ LowlinkReached' /\ EdgesRecorded'
  BY <1>2, LeaveRest
<1>4. StackOK'
  BY <1>1 DEF TarjanInv, StackOK, Places, Visited
<1>5. Split' = Split
  BY <1>1 DEF Split, Visited
<1>6. SplitClosed'
  <2>1. \A u : Edges(u)' = Edges(u)
    BY <1>1, DepsSame
  <2>2. QED
    BY <1>5, <2>1 DEF TarjanInv, SplitClosed
<1>7. ComponentsOK'
  BY <1>1, <1>5, ComponentsFrame DEF TarjanInv
<1>8. QED
  BY <1>3, <1>4, <1>6, <1>7 DEF TarjanInv

\* The component that is found comes before those it depends on.
LEMMA FindComponent ==
  ASSUME TarjanInv, calls # <<>>, Caller.edges = {}, deps' = deps,
         lowlink[Underway(1)] = index[Underway(1)],
         Split' = Split \cup Subtree,
         NEW c \in Seq(Namespaces), {c[i] : i \in 1..Len(c)} = Subtree,
         components' = <<c>> \o components
  PROVE  ComponentsOK'
<1>s. /\ \A y \in Subtree : Edges(y) \subseteq Subtree \cup Split
      /\ \A y \in Subtree : Component(y) = Subtree
  BY SubtreeIsComponent
<1>d. \A u : Edges(u)' = Edges(u) /\ Component(u)' = Component(u)
  BY DepsSame
<1>k. /\ components \in Seq(Seq(Namespaces)) /\ Len(components) \in Nat
      /\ \A k \in Found : Elements(k) \subseteq Split
      /\ \A k \in Found : \A u \in Elements(k) : Elements(k) = Component(u)
      /\ \A j, k \in Found : Elements(j) \cap Elements(k) # {} => j = k
      /\ \A u \in Split : \E k \in Found : u \in Elements(k)
      /\ \A k \in Found : \A u \in Elements(k) : \A w \in Edges(u) :
           \E j \in Found : j >= k /\ w \in Elements(j)
  BY DEF TarjanInv, ComponentsOK
<1>0. \A u \in Subtree : u \notin Split
  BY DEF Subtree, Split
<1>1. /\ components' \in Seq(Seq(Namespaces)) /\ Len(components') = Len(components) + 1
      /\ components'[1] = c
      /\ \A k \in Found : components'[k + 1] = components[k]
  BY <1>k, Push DEF Found
<1>2. /\ Found' = 1..(Len(components) + 1) /\ 1 \in Found'
      /\ \A k \in Found' : k = 1 \/ \E j \in Found : k = j + 1
      /\ \A k \in Found : k \in Nat /\ k >= 1 /\ k + 1 \in Found'
  <2>1. Found' = 1..(Len(components) + 1)
    BY <1>1 DEF Found
  <2>2. \A k \in Found' : k = 1 \/ (k - 1 \in Found /\ k = (k - 1) + 1)
    BY <1>k, <2>1 DEF Found
  <2>3. \A k \in Found : k \in Nat /\ k >= 1 /\ k + 1 \in Found'
    BY <1>k, <2>1 DEF Found
  <2>4. QED
    BY <1>k, <2>1, <2>2, <2>3
<1>3. Elements(1)' = Subtree /\ \A k \in Found : Elements(k + 1)' = Elements(k)
  BY <1>1 DEF Elements
<1> HIDE DEF Found, Elements, Split, Subtree, Component, Edges
<1>4. ASSUME NEW k \in Found' PROVE Elements(k)' \subseteq Split'
  BY <1>k, <1>2, <1>3
<1>5. ASSUME NEW k \in Found', NEW u \in Elements(k)' PROVE Elements(k)' = Component(u)
  BY <1>s, <1>k, <1>2, <1>3
<1>6. ASSUME NEW j \in Found', NEW k \in Found', Elements(j)' \cap Elements(k)' # {} PROVE j = k
  <2>1. PICK u : u \in Elements(j)' /\ u \in Elements(k)'
    BY <1>6
  <2>2. CASE u \in Subtree
    BY <1>0, <1>k, <1>2, <1>3, <2>1, <2>2
  <2>3. CASE u \notin Subtree
    <3>1. PICK i \in Found : j = i + 1
      BY <1>2, <1>3, <2>1, <2>3
    <3>2. PICK h \in Found : k = h + 1
      BY <1>2, <1>3, <2>1, <2>3
    <3>3. u \in Elements(i) /\ u \in Elements(h)
      BY <1>3, <2>1, <3>1, <3>2
    <3>4. i = h
      BY <1>k, <3>3
    <3>5. QED
      BY <3>1, <3>2, <3>4
  <2>4. QED
    BY <2>2, <2>3
<1>7. ASSUME NEW u \in Split' PROVE \E k \in Found' : u \in Elements(k)'
  <2>1. CASE u \in Subtree
    BY <1>2, <1>3, <2>1
  <2>2. CASE u \in Split
    <3>1. PICK k \in Found : u \in Elements(k)
      BY <1>k, <2>2
    <3>2. QED
      BY <1>2, <1>3, <3>1
  <2>3. QED
    BY <2>1, <2>2
<1>8. ASSUME NEW k \in Found', NEW u \in Elements(k)', NEW w \in Edges(u)
      PROVE  \E j \in Found' : j >= k /\ w \in Elements(j)'
  <2>1. CASE k = 1
    <3>1. u \in Subtree
      BY <1>3, <2>1
    <3>2. CASE w \in Subtree
      <4>1. w \in Elements(1)' /\ 1 >= k
        BY <1>3, <2>1, <3>2
      <4>2. QED
        BY <1>2, <4>1
    <3>3. CASE w \in Split
      <4>1. PICK h \in Found : w \in Elements(h)
        BY <1>k, <3>3
      <4>2. h + 1 \in Found' /\ h + 1 >= k /\ w \in Elements(h + 1)'
        BY <1>2, <1>3, <2>1, <4>1
      <4>3. QED
        BY <4>2
    <3>4. QED
      BY <1>s, <3>1, <3>2, <3>3
  <2>2. CASE k # 1
    <3>1. PICK h \in Found : k = h + 1
      BY <1>2, <2>2
    <3>2. u \in Elements(h)
      BY <1>3, <3>1
    <3>3. PICK j \in Found : j >= h /\ w \in Elements(j)
      BY <1>k, <3>2
    <3>4. j + 1 \in Found' /\ j + 1 >= k /\ w \in Elements(j + 1)'
      BY <1>2, <1>3, <3>1, <3>3
    <3>5. QED
      BY <3>4
  <2>3. QED
    BY <2>1, <2>2
<1>9. QED
  BY <1>1, <1>4, <1>5, <1>6, <1>7, <1>8, <1>d DEF ComponentsOK

LEMMA LeaveCreates ==
  ASSUME TarjanInv, Leave, index[Caller.vertex] = lowlink[Caller.vertex]
  PROVE  TarjanInv'
<1> DEFINE v == Underway(1)
<1>1. /\ calls # <<>> /\ Caller.edges = {} /\ calls' = Tail(calls)
      /\ CreateComponent(Caller.vertex)
      /\ UNCHANGED <<deps, index, lowlink, nextIndex, keys>>
  BY DEF Leave
<1>2. Caller.vertex = v /\ v \in inStack /\ index[v] \in Nat /\ lowlink[v] = index[v]
  BY <1>1, CallerFacts, Numbers
<1>3. /\ inStack' = inStack \ Subtree
      /\ impossible' = impossible
      /\ \E k \in Places : /\ stack[k] = v
                           /\ stack' \in Seq(Namespaces)
                           /\ Len(stack') = Len(stack) - k
                           /\ \A i \in Places' : stack'[i] = stack[k + i]
      /\ \E c \in Seq(Namespaces) : /\ {c[i] : i \in 1..Len(c)} = Subtree
                                    /\ components' = <<c>> \o components
  BY <1>1, <1>2, CreateFacts
<1>4. Leaving(Subtree)
  BY <1>1, <1>2, <1>3 DEF Leaving
<1>5. /\ DepsOK' /\ VerticesOK' /\ CallsOK' /\ CalleesOK'
      /\ Explored' /\ Below' /\ Above' /\ LowlinkReached' /\ EdgesRecorded'
  BY <1>4, LeaveRest
<1>s. \A y \in inStack : index[y] \in Nat /\ (y \in Subtree <=> index[y] >= index[v])
  BY Numbers DEF Subtree
<1>i. inStack \subseteq Visited /\ Subtree \subseteq inStack /\ Visited' = Visited
  BY <1>1, Numbers DEF Subtree, Visited
<1> HIDE DEF v
<1>6. StackOK'
  <2>1. PICK k \in Places : /\ stack[k] = v
                            /\ stack' \in Seq(Namespaces)
                            /\ Len(stack') = Len(stack) - k
                            /\ \A i \in Places' : stack'[i] = stack[k + i]
    BY <1>3
  <2>2. /\ Len(stack) \in Nat
        /\ \A i \in Places : stack[i] \in inStack
        /\ \A u \in inStack : \E i \in Places : stack[i] = u
        /\ \A i, j \in Places : i < j => index[stack[i]] > index[stack[j]]
    BY DEF TarjanInv, StackOK
  <2>3. /\ k \in Nat /\ k >= 1 /\ k <= Len(stack)
        /\ \A i \in Places' : i \in Nat /\ k + i \in Places /\ k < k + i
        /\ \A i \in Places : i > k => i - k \in Places' /\ k + (i - k) = i
    BY <2>1, <2>2 DEF Places
  <2>4. ASSUME NEW i \in Places' PROVE stack'[i] \in inStack'
    <3>1. stack'[i] = stack[k + i] /\ stack[k + i] \in inStack
      BY <2>1, <2>2, <2>3
    <3>2. index[v] > index[stack[k + i]]
      BY <2>1, <2>2, <2>3
    <3>3. stack[k + i] \notin Subtree
      BY <1>2, <1>s, <3>1, <3>2
    <3>4. QED
      BY <1>3, <3>1, <3>3
  <2>5. ASSUME NEW u \in inStack' PROVE \E i \in Places' : stack'[i] = u
    <3>1. u \in inStack /\ u \notin Subtree
      BY <1>3
    <3>2. PICK i \in Places : stack[i] = u
      BY <2>2, <3>1
    <3>3. i > k
      <4>1. i \in Nat
        BY <2>2 DEF Places
      <4>2. i # k
        BY <1>2, <1>s, <2>1, <3>1, <3>2
      <4>3. ~(i < k)
        <5>1. i < k => index[u] > index[v]
          BY <2>1, <2>2, <3>2
        <5>2. QED
          BY <1>2, <1>s, <3>1, <5>1
      <4>4. QED
        BY <2>3, <4>1, <4>2, <4>3
    <3>4. i - k \in Places' /\ stack'[i - k] = u
      BY <2>1, <2>3, <3>2, <3>3
    <3>5. QED
      BY <3>4
  <2>6. ASSUME NEW i \in Places', NEW j \in Places', i < j
        PROVE  index[stack'[i]] > index[stack'[j]]
    <3>1. k + i \in Places /\ k + j \in Places /\ k + i < k + j
      BY <2>3, <2>6
    <3>2. index[stack[k + i]] > index[stack[k + j]]
      BY <2>2, <3>1
    <3>3. QED
      BY <2>1, <3>2
  <2>7. inStack' \subseteq Visited'
    BY <1>i, <1>3
  <2>8. QED
    BY <1>1, <2>1, <2>4, <2>5, <2>6, <2>7 DEF StackOK
<1>7. Split' = Split \cup Subtree
  BY <1>3, <1>i DEF Split
<1>8. SplitClosed'
  <2>1. \A u : Edges(u)' = Edges(u)
    BY <1>1, DepsSame
  <2>2. \A y \in Subtree : Edges(y) \subseteq Subtree \cup Split
    BY <1>1, <1>2, SubtreeIsComponent DEF v
  <2>3. \A y \in Split : Edges(y) \subseteq Split
    BY DEF TarjanInv, SplitClosed
  <2>4. QED
    BY <1>7, <2>1, <2>2, <2>3 DEF SplitClosed
<1>9. ComponentsOK'
  <2>1. PICK c \in Seq(Namespaces) : /\ {c[i] : i \in 1..Len(c)} = Subtree
                                     /\ components' = <<c>> \o components
    BY <1>3
  <2>2. QED
    BY <1>1, <1>2, <1>7, <2>1, FindComponent DEF v
<1>10. QED
  BY <1>5, <1>6, <1>8, <1>9 DEF TarjanInv

-----------------------------------------------------------------------------
LEMMA KeysFrame ==
  ASSUME TarjanInv, keys # {}
  PROVE  Least(keys) \in Mentioned
<1>1. keys \subseteq DOMAIN deps /\ keys \subseteq Namespaces
  BY DEF TarjanInv, VerticesOK, DepsOK
<1>2. Least(keys) \in keys
  BY <1>1, LeastIsIn
<1>3. QED
  BY <1>1, <1>2 DEF Mentioned

LEMMA SkipStep == TarjanInv /\ Skip => TarjanInv'
<1> SUFFICES ASSUME TarjanInv, Skip PROVE TarjanInv'
  OBVIOUS
<1>1. /\ Least(keys) \in Visited /\ keys' = keys \ {Least(keys)}
      /\ UNCHANGED <<deps, index, lowlink, inStack, stack, nextIndex, components, impossible, calls>>
  BY DEF Skip, vertices
<1>2. /\ \A u : Edges(u)' = Edges(u) /\ Reachable(u)' = Reachable(u)
      /\ \A u : Component(u)' = Component(u)
      /\ Mentioned' = Mentioned
  BY <1>1, DepsSame
<1>3. /\ Visited' = Visited /\ Split' = Split /\ Calls' = Calls
      /\ \A i : Underway(i)' = Underway(i)
      /\ \A y, w : Pending(y, w)' <=> Pending(y, w)
      /\ \A i, w : Recorded(i, w)' <=> Recorded(i, w)
  BY <1>1 DEF Visited, Split, Calls, Underway, Pending, Recorded
<1>4. DepsOK'
  BY <1>1 DEF TarjanInv, DepsOK
<1>5. VerticesOK'
  BY <1>1, <1>2, <1>3 DEF TarjanInv, VerticesOK
<1>6. StackOK' /\ CallsOK' /\ CalleesOK'
  <2>1. StackOK'
    BY <1>1 DEF TarjanInv, StackOK, Places, Visited
  <2>2. CallsOK'
    BY <1>1, <1>2, <1>3 DEF TarjanInv, CallsOK
  <2>3. CalleesOK'
    BY <1>1, <1>3 DEF TarjanInv, CalleesOK
  <2>4. QED
    BY <2>1, <2>2, <2>3
<1>7. Explored' /\ SplitClosed'
  <2>1. Explored'
    BY <1>2, <1>3 DEF TarjanInv, Explored
  <2>2. SplitClosed'
    BY <1>2, <1>3 DEF TarjanInv, SplitClosed
  <2>3. QED
    BY <2>1, <2>2
<1>8. Below' /\ Above'
  <2>1. Below'
    BY <1>1, <1>2, <1>3 DEF TarjanInv, Below
  <2>2. Above'
    BY <1>1, <1>2, <1>3 DEF TarjanInv, Above
  <2>3. QED
    BY <2>1, <2>2
<1>9. LowlinkReached'
  BY <1>1, <1>2 DEF TarjanInv, LowlinkReached
<1>10. EdgesRecorded'
  BY <1>1, <1>2, <1>3 DEF TarjanInv, EdgesRecorded
<1>11. ComponentsOK'
  BY <1>1, <1>3, ComponentsFrame DEF TarjanInv
<1>12. QED
  BY <1>4, <1>5, <1>6, <1>7, <1>8, <1>9, <1>10, <1>11 DEF TarjanInv

LEMMA VisitStep == TarjanInv /\ Visit => TarjanInv'
<1> SUFFICES ASSUME TarjanInv, Visit PROVE TarjanInv'
  OBVIOUS
<1>1. /\ calls = <<>> /\ keys # {} /\ Least(keys) \notin Visited
      /\ keys' = keys \ {Least(keys)} /\ Enter(Least(keys), <<>>)
  BY DEF Visit
<1>2. Least(keys) \in Mentioned
  BY <1>1, KeysFrame
<1>3. Entering(Least(keys), <<>>)
  BY <1>1, <1>2 DEF Entering
<1>4. QED
  BY <1>3, EnterStep

LEMMA NewVertexStep ==
  ASSUME TarjanInv, NEW w, NewVertex(w)
  PROVE  TarjanInv'
<1> DEFINE outer == <<[Caller EXCEPT !.called = TRUE]>> \o Tail(calls)
<1>1. AtEdge(w) /\ w \notin Visited /\ Enter(w, outer) /\ keys' = keys
  BY DEF NewVertex
<1>2. w \in Mentioned
  <2>1. calls # <<>> /\ Caller.edges # {} /\ w = Least(Caller.edges)
    BY <1>1 DEF AtEdge
  <2>2. Caller = calls[1] /\ Caller \in CallRecord /\ 1 \in Calls
    BY <2>1, CallerFacts
  <2>3. w \in calls[1].edges
    BY <2>1, <2>2, LeastIsIn DEF CallRecord
  <2>4. w \in Edges(Underway(1))
    BY <2>2, <2>3 DEF TarjanInv, CallsOK
  <2>5. QED
    BY <2>4 DEF Mentioned, Edges
<1>3. Entering(w, outer)
  BY <1>1, <1>2 DEF Entering, AtEdge
<1>4. QED
  BY <1>3, EnterStep

LEMMA TarjanInvStutter == TarjanInv /\ UNCHANGED vars => TarjanInv'
<1> SUFFICES ASSUME TarjanInv, UNCHANGED vars PROVE TarjanInv'
  OBVIOUS
<1>1. UNCHANGED <<deps, index, lowlink, inStack, stack, nextIndex, components, impossible,
                  calls, keys>>
  BY DEF vars, vertices
<1>2. DepsOK' /\ VerticesOK' /\ StackOK' /\ CallsOK' /\ CalleesOK'
  <2>1. Mentioned' = Mentioned /\ Visited' = Visited /\ Calls' = Calls
        /\ \A i : Underway(i)' = Underway(i) /\ \A v : Edges(v)' = Edges(v)
    BY <1>1 DEF Mentioned, Visited, Calls, Underway, Edges
  <2>2. DepsOK' /\ VerticesOK'
    BY <1>1, <2>1 DEF TarjanInv, DepsOK, VerticesOK
  <2>3. StackOK' /\ CallsOK'
    BY <1>1, <2>1 DEF TarjanInv, StackOK, CallsOK, Places
  <2>4. CalleesOK'
    BY <1>1, <2>1 DEF TarjanInv, CalleesOK
  <2>5. QED
    BY <2>2, <2>3, <2>4
<1>3. Explored' /\ SplitClosed' /\ Below' /\ Above' /\ LowlinkReached' /\ EdgesRecorded'
  <2>1. /\ \A u : Edges(u)' = Edges(u) /\ Reachable(u)' = Reachable(u)
        /\ \A u : Component(u)' = Component(u)
    BY <1>1, DepsSame
  <2>2. /\ Visited' = Visited /\ Split' = Split /\ Calls' = Calls
        /\ \A i : Underway(i)' = Underway(i)
        /\ \A y, w : Pending(y, w)' <=> Pending(y, w)
        /\ \A i, w : Recorded(i, w)' <=> Recorded(i, w)
    BY <1>1 DEF Visited, Split, Calls, Underway, Pending, Recorded
  <2>3. Explored' /\ SplitClosed'
    BY <2>1, <2>2 DEF TarjanInv, Explored, SplitClosed
  <2>4. Below' /\ Above'
    BY <1>1, <2>1, <2>2 DEF TarjanInv, Below, Above
  <2>5. LowlinkReached' /\ EdgesRecorded'
    BY <1>1, <2>1, <2>2 DEF TarjanInv, LowlinkReached, EdgesRecorded
  <2>6. QED
    BY <2>3, <2>4, <2>5
<1>4. ComponentsOK'
  BY <1>1, ComponentsFrame DEF TarjanInv, Split, Visited
<1>5. QED
  BY <1>2, <1>3, <1>4 DEF TarjanInv

LEMMA TarjanInvStep == TarjanInv /\ [Next]_vars => TarjanInv'
<1> SUFFICES ASSUME TarjanInv, [Next]_vars PROVE TarjanInv'
  OBVIOUS
<1>1. CASE Skip
  BY <1>1, SkipStep
<1>2. CASE Visit
  BY <1>2, VisitStep
<1>3. ASSUME NEW w \in Namespaces, NewVertex(w) PROVE TarjanInv'
  BY <1>3, NewVertexStep
<1>4. ASSUME NEW w \in Namespaces, Returned(w) PROVE TarjanInv'
  BY <1>4, ReturnedStep
<1>5. ASSUME NEW w \in Namespaces, OldVertex(w) PROVE TarjanInv'
  BY <1>5, OldVertexStep
<1>6. CASE Leave
  BY <1>6, LeaveKeepsStack, LeaveCreates
<1>7. CASE UNCHANGED vars
  BY <1>7, TarjanInvStutter
<1>8. QED
  BY <1>1, <1>2, <1>3, <1>4, <1>5, <1>6, <1>7 DEF Next

LEMMA TarjanInvAlways == Spec => []TarjanInv
<1>1. Init => TarjanInv
  BY TarjanInvInit
<1>2. TarjanInv /\ [Next]_vars => TarjanInv'
  BY TarjanInvStep
<1>3. QED
  BY <1>1, <1>2, PTL DEF Spec

-----------------------------------------------------------------------------
\* The records of tarjan and its stack agree at every step: the flag that
\* should never be set is not, and each lowlink is the index of a vertex of the
\* same component that is still in the stack.
THEOREM LowlinksAreSound == Spec => []LowlinksSound
<1>1. TarjanInv => LowlinksSound
  <2> SUFFICES ASSUME TarjanInv PROVE LowlinksSound
    OBVIOUS
  <2> USE Numbers
  <2>s. /\ stack \in Seq(Namespaces) /\ Len(stack) \in Nat
        /\ \A i \in Places : stack[i] \in inStack
        /\ \A v \in inStack : \E i \in Places : stack[i] = v
        /\ \A i, j \in Places : i < j => index[stack[i]] > index[stack[j]]
        /\ DOMAIN stack = Places
    BY DEF TarjanInv, StackOK, Places
  <2>v. /\ index = [v \in Visited |-> index[v]]
        /\ lowlink = [v \in Visited |-> lowlink[v]]
        /\ Visited \subseteq Mentioned /\ ~impossible /\ keys \subseteq DOMAIN deps
        /\ \A u, v \in Visited : index[u] = index[v] => u = v
    BY DEF TarjanInv, VerticesOK
  <2>1. index \in [Visited -> 0..(nextIndex - 1)] /\ lowlink \in [Visited -> 0..(nextIndex - 1)]
    <3>1. \A v \in Visited : index[v] \in 0..(nextIndex - 1) /\ lowlink[v] \in 0..(nextIndex - 1)
      OBVIOUS
    <3>2. QED
      BY <2>v, <3>1
  <2>2. IsInjective(index)
    BY <2>v DEF IsInjective, Visited
  <2>3. ToSet(stack) = inStack
    BY <2>s DEF ToSet
  <2>4. IsInjective(stack)
    <3>1. ASSUME NEW i \in Places, NEW j \in Places, stack[i] = stack[j] PROVE i = j
      <4>1. index[stack[i]] \in Nat
        BY <2>s
      <4>2. ~(i < j) /\ ~(j < i)
        BY <2>s, <3>1, <4>1
      <4>3. QED
        BY <2>s, <4>2 DEF Places
    <3>2. QED
      BY <2>s, <3>1 DEF IsInjective
  <2>5. DOMAIN calls = Calls /\ \A i \in Calls : /\ calls[i].vertex \in inStack
                                                 /\ calls[i].edges \subseteq Edges(calls[i].vertex)
    BY DEF TarjanInv, CallsOK, Calls, Underway
  <2>6. TypeOK
    BY <2>v, <2>1, <2>2, <2>3, <2>4, <2>5 DEF TypeOK
  <2>7. QED
    BY <2>s, <2>v, <2>5, <2>6 DEF LowlinksSound, TarjanInv, LowlinkReached
<1>2. QED
  BY <1>1, TarjanInvAlways, PTL

\* The position in Units of a component.
LEMMA UnitsFacts ==
  ASSUME TarjanInv
  PROVE  /\ DOMAIN Units = Found /\ Len(components) \in Nat
         /\ \A u \in Found : Len(components) - u + 1 \in Found
         /\ \A u \in Found : ToSet(Units[u]) = Elements(Len(components) - u + 1)
         /\ \A u \in Found : \A v : v \in ToSet(Units[u]) <=> Contains(Units[u], v)
<1>1. /\ components \in Seq(Seq(Namespaces)) /\ Len(components) \in Nat
      /\ DOMAIN components = Found
  BY DEF TarjanInv, ComponentsOK, Found
<1>2. Units = [i \in 1..Len(components) |-> components[(Len(components) - i) + 1]]
  BY DEF Units, TarjanInv, VerticesOK, Reverse
<1>3. \A u \in Found : Len(components) - u + 1 \in Found
  BY <1>1 DEF Found
<1>4. \A u \in Found : Units[u] = components[Len(components) - u + 1] /\ Units[u] \in Seq(Namespaces)
  BY <1>1, <1>2, <1>3 DEF Found
<1>5. ASSUME NEW u \in Found PROVE ToSet(Units[u]) = Elements(Len(components) - u + 1)
  <2>1. DOMAIN Units[u] = 1..Len(Units[u])
    BY <1>4
  <2>2. QED
    BY <1>4, <2>1 DEF ToSet, Elements
<1>6. \A u \in Found : \A v : v \in ToSet(Units[u]) <=> Contains(Units[u], v)
  <2> SUFFICES ASSUME NEW u \in Found, NEW v
               PROVE  v \in ToSet(Units[u]) <=> Contains(Units[u], v)
    OBVIOUS
  <2>1. DOMAIN Units[u] = 1..Len(Units[u])
    BY <1>4
  <2>2. QED
    BY <2>1 DEF ToSet, Contains
<1>7. QED
  BY <1>1, <1>2, <1>3, <1>5, <1>6 DEF Found

\* What tarjan has split off are whole strongly connected components, no two of
\* them alike, and in the end every namespace that is mentioned is in one.
THEOREM UnitsAreTheComponents == Spec => []UnitsAreComponents
<1>1. TarjanInv => UnitsAreComponents
  <2> SUFFICES ASSUME TarjanInv PROVE UnitsAreComponents
    OBVIOUS
  <2>u. /\ DOMAIN Units = Found /\ Len(components) \in Nat
        /\ \A u \in Found : Len(components) - u + 1 \in Found
        /\ \A u \in Found : ToSet(Units[u]) = Elements(Len(components) - u + 1)
    BY UnitsFacts
  <2>c. /\ \A k \in Found : Elements(k) \subseteq Split
        /\ \A k \in Found : \A v \in Elements(k) : Elements(k) = Component(v)
        /\ \A j, k \in Found : Elements(j) \cap Elements(k) # {} => j = k
        /\ \A v \in Split : \E k \in Found : v \in Elements(k)
    BY DEF TarjanInv, ComponentsOK
  <2>1. \A u \in DOMAIN Units : \A v \in ToSet(Units[u]) : ToSet(Units[u]) = Component(v)
    BY <2>u, <2>c
  <2>2. ASSUME NEW t \in DOMAIN Units, NEW u \in DOMAIN Units,
               ToSet(Units[t]) \cap ToSet(Units[u]) # {}
        PROVE  t = u
    <3>1. Len(components) - t + 1 = Len(components) - u + 1
      BY <2>u, <2>c, <2>2
    <3>2. QED
      BY <2>u, <3>1 DEF Found
  <2>3. ASSUME Finished PROVE UNION {ToSet(Units[u]) : u \in DOMAIN Units} = Mentioned
    <3>1. calls = <<>> /\ Calls = {} /\ keys = {}
      BY <2>3 DEF Finished, Calls
    <3>2. inStack = {}
      BY <3>1 DEF TarjanInv, Above
    <3>3. Visited = Split
      BY <3>2 DEF Split
    <3>4. Visited = Mentioned
      <4>1. DOMAIN deps \subseteq Visited /\ Visited \subseteq Mentioned
        BY <3>1 DEF TarjanInv, VerticesOK
      <4>2. \A v \in Visited : Edges(v) \subseteq Visited
        BY <3>1 DEF TarjanInv, Explored, Pending
      <4>3. QED
        BY <4>1, <4>2 DEF Mentioned
    <3>5. ASSUME NEW v \in Split PROVE \E u \in Found : v \in ToSet(Units[u])
      <4>1. PICK k \in Found : v \in Elements(k)
        BY <2>c
      <4>2. Len(components) - k + 1 \in Found /\ Len(components) - (Len(components) - k + 1) + 1 = k
        BY <2>u DEF Found
      <4>3. v \in ToSet(Units[Len(components) - k + 1])
        BY <2>u, <4>1, <4>2
      <4>4. QED
        BY <4>2, <4>3
    <3>6. \A u \in Found : ToSet(Units[u]) \subseteq Split
      BY <2>u, <2>c
    <3>7. QED
      BY <2>u, <3>3, <3>4, <3>5, <3>6
  <2>4. QED
    BY <2>1, <2>2, <2>3 DEF UnitsAreComponents
<1>2. QED
  BY <1>1, TarjanInvAlways, PTL

\* A unit comes after every other unit that it depends on, and none that it
\* depends on is missing.
THEOREM DependenciesComeFirst == Spec => []DependenciesFirst
<1>1. TarjanInv => DependenciesFirst
  <2> SUFFICES ASSUME TarjanInv PROVE DependenciesFirst
    OBVIOUS
  <2> DEFINE At(u) == Len(components) - u + 1
  <2>u. /\ DOMAIN Units = Found /\ Len(components) \in Nat
        /\ \A u \in Found : At(u) \in Found
        /\ \A u \in Found : ToSet(Units[u]) = Elements(At(u))
        /\ \A u \in Found : \A v : v \in ToSet(Units[u]) <=> Contains(Units[u], v)
    BY UnitsFacts
  <2>c. /\ \A j, k \in Found : Elements(j) \cap Elements(k) # {} => j = k
        /\ \A k \in Found : \A v \in Elements(k) : \A w \in Edges(v) :
             \E j \in Found : j >= k /\ w \in Elements(j)
    BY DEF TarjanInv, ComponentsOK
  <2>a. \A u \in Found : At(At(u)) = u /\ u \in Nat /\ At(u) \in Nat
    BY <2>u DEF Found
  <2>1. ASSUME NEW u \in Found, NEW v \in ToSet(Units[u]), NEW w \in Edges(v)
        PROVE  \E d \in Found : d <= u /\ UnitOf(w) = {d}
    <3> HIDE DEF At
    <3>1. PICK j \in Found : j >= At(u) /\ w \in Elements(j)
      BY <2>u, <2>c
    <3>2. At(j) \in Found /\ At(At(j)) = j
      BY <2>u, <2>a
    <3>3. w \in ToSet(Units[At(j)])
      BY <2>u, <3>1, <3>2
    <3>4. ASSUME NEW t \in Found, w \in ToSet(Units[t]) PROVE t = At(j)
      <4>1. w \in Elements(At(t)) /\ At(t) \in Found
        BY <2>u, <3>4
      <4>2. At(t) = j
        BY <2>c, <3>1, <4>1
      <4>3. QED
        BY <2>a, <4>2
    <3>5. UnitOf(w) = {At(j)}
      BY <2>u, <3>2, <3>3, <3>4 DEF UnitOf
    <3>6. At(j) <= u
      BY <2>u, <2>a, <3>1 DEF At, Found
    <3>7. QED
      BY <3>2, <3>5, <3>6
  <2>2. ASSUME NEW u \in Found, NEW d \in Dependencies(u) PROVE d < u
    <3>1. PICK v \in ToSet(Units[u]) : \E w \in Edges(v) : d \in UnitOf(w)
      BY DEF Dependencies
    <3>2. d # u
      BY DEF Dependencies
    <3>3. d \in Found /\ d <= u
      BY <2>1, <3>1
    <3>4. QED
      BY <2>a, <3>2, <3>3
  <2>3. ASSUME NEW u \in DOMAIN Units
        PROVE  /\ \A d \in Dependencies(u) : d < u
               /\ \A v \in ToSet(Units[u]) : \A w \in Edges(v) : UnitOf(w) # {}
    <3>1. u \in Found
      BY <2>u
    <3>2. \A d \in Dependencies(u) : d < u
      BY <2>2, <3>1
    <3>3. \A v \in ToSet(Units[u]) : \A w \in Edges(v) : UnitOf(w) # {}
      BY <2>1, <3>1
    <3>4. QED
      BY <3>2, <3>3
  <2>4. QED
    BY <2>3 DEF DependenciesFirst
<1>2. QED
  BY <1>1, TarjanInvAlways, PTL
=============================================================================
