---------------------------- MODULE SeparateUnits ----------------------------
(***************************************************************************)
(* Grouping the namespaces of a program into compilation units             *)
(* (src/Compiler/Separate.idr getCompilationUnits) by Tarjan's algorithm   *)
(* (src/Libraries/Data/Graph.idr tarjan).                                  *)
(*                                                                         *)
(* strongConnect calls itself from the middle of a loop over the edges of  *)
(* a vertex.  A state here is the TarjanState record together with the     *)
(* calls in progress, and a step is one turn of a loop or the end of a     *)
(* call.                                                                   *)
(***************************************************************************)
EXTENDS Integers, Sequences, SequencesExt

CONSTANT N     \* the number of namespaces; a namespace is a number

ASSUME SeparateAssumption == N \in Nat

Namespaces == 1..N

VARIABLES
  deps,         \* nsDeps: what each namespace that has definitions mentions
  index,        \* index[v] and lowlink[v] of the vertices met so far
  lowlink,
  inStack,      \* the vertices whose inStack flag is set
  stack,        \* the stack, latest first
  nextIndex,    \* the index of the next vertex
  components,   \* the components found so far, latest first
  impossible,   \* impossibleHappened
  calls,        \* the calls of strongConnect in progress, innermost first
  keys          \* the vertices the outer loop has still to look at

vertices == <<index, lowlink, inStack, stack, nextIndex>>
vars == <<deps, vertices, components, impossible, calls, keys>>

Visited == DOMAIN index

\* Maps and sets of the library list their keys in ascending order: what is
\* left of such a list is a set, and its head the least element.
Least(S) == CHOOSE v \in S : \A u \in S : v <= u

\* A namespace that is only mentioned has no entry: no edges.
Edges(v) == IF v \in DOMAIN deps THEN deps[v] ELSE {}

DepGraphs == UNION {[K -> SUBSET Namespaces] : K \in SUBSET Namespaces}

Init ==
  /\ deps \in {d \in DepGraphs : \A v \in DOMAIN d : v \notin d[v]}
  /\ index = <<>> /\ lowlink = <<>>
  /\ inStack = {}
  /\ stack = <<>>
  /\ nextIndex = 0
  /\ components = <<>>
  /\ impossible = FALSE
  /\ calls = <<>>
  /\ keys = DOMAIN deps

-----------------------------------------------------------------------------
Bind(f, v, n) == [u \in DOMAIN f \cup {v} |-> IF u = v THEN n ELSE f[u]]

LowerTo(f, v, n) == [f EXCEPT ![v] = IF n < @ THEN n ELSE @]

Caller == Head(calls)

\* strongConnect v begins; `outer' are the calls that go on after it.
Enter(v, outer) ==
  /\ index' = Bind(index, v, nextIndex)
  /\ lowlink' = Bind(lowlink, v, nextIndex)
  /\ nextIndex' = nextIndex + 1
  /\ inStack' = inStack \cup {v}
  /\ stack' = <<v>> \o stack
  /\ calls' = <<[vertex |-> v, edges |-> Edges(v), called |-> FALSE]>> \o outer
  /\ UNCHANGED <<deps, components, impossible>>

\* The outer loop.
Skip ==
  /\ calls = <<>> /\ keys # {}
  /\ Least(keys) \in Visited
  /\ keys' = keys \ {Least(keys)}
  /\ UNCHANGED <<deps, vertices, components, impossible, calls>>

Visit ==
  /\ calls = <<>> /\ keys # {}
  /\ Least(keys) \notin Visited
  /\ keys' = keys \ {Least(keys)}
  /\ Enter(Least(keys), <<>>)

\* The inner loop meets the edge to w.
AtEdge(w) ==
  /\ calls # <<>>
  /\ Caller.edges # {}
  /\ w = Least(Caller.edges)

NextEdge(w) ==
  calls' = <<[Caller EXCEPT !.edges = @ \ {w}, !.called = FALSE]>> \o Tail(calls)

NewVertex(w) ==
  /\ AtEdge(w)
  /\ w \notin Visited
  /\ Enter(w, <<[Caller EXCEPT !.called = TRUE]>> \o Tail(calls))
  /\ UNCHANGED keys

\* Mutant: the lowlink of the callee is not taken over.
ReturnOnly(w) ==
  /\ AtEdge(w)
  /\ Caller.called
  /\ NextEdge(w)
  /\ UNCHANGED <<deps, vertices, components, impossible, keys>>

\* strongConnect w has returned.
Returned(w) ==
  /\ AtEdge(w)
  /\ Caller.called
  /\ lowlink' = LowerTo(lowlink, Caller.vertex, lowlink[w])
  /\ NextEdge(w)
  /\ UNCHANGED <<deps, index, inStack, stack, nextIndex, components, impossible, keys>>

OldVertex(w) ==
  /\ AtEdge(w)
  /\ w \in Visited /\ ~Caller.called
  /\ lowlink' = IF w \in inStack THEN LowerTo(lowlink, Caller.vertex, index[w]) ELSE lowlink
  /\ NextEdge(w)
  /\ UNCHANGED <<deps, index, inStack, stack, nextIndex, components, impossible, keys>>

\* Mutant: the flags of the component stay set.
StillInStack(popped) == inStack

Unstacked(popped) == inStack \ ToSet(popped)

\* Mutant: a component is put behind those found before.
Behind(component) == Append(components, component)

InFront(component) == <<component>> \o components

\* createComponent: pop down to v.  If v were not in the stack it would all be
\* popped, and nothing found.
CreateComponent(v) ==
  LET popped == IF Contains(stack, v)
                THEN SubSeq(stack, 1, CHOOSE k \in DOMAIN stack : stack[k] = v)
                ELSE stack
  IN  /\ stack' = SubSeq(stack, Len(popped) + 1, Len(stack))
      /\ inStack' = Unstacked(popped)
      /\ IF Contains(stack, v)
         THEN components' = InFront(Reverse(popped)) /\ UNCHANGED impossible
         ELSE impossible' = TRUE /\ UNCHANGED components

Leave ==
  /\ calls # <<>>
  /\ Caller.edges = {}
  /\ calls' = Tail(calls)
  /\ \/ index[Caller.vertex] = lowlink[Caller.vertex] /\ CreateComponent(Caller.vertex)
     \/ /\ index[Caller.vertex] # lowlink[Caller.vertex]
        /\ UNCHANGED <<inStack, stack, components, impossible>>
  /\ UNCHANGED <<deps, index, lowlink, nextIndex, keys>>

Finished == calls = <<>> /\ keys = {}

Next ==
  \/ Skip
  \/ Visit
  \/ \E w \in Namespaces : NewVertex(w) \/ Returned(w) \/ OldVertex(w)
  \/ Leave
  \/ Finished /\ UNCHANGED vars

Spec == Init /\ [][Next]_vars

-----------------------------------------------------------------------------
(* getCompilationUnits, from the components of tarjan: the latest are listed *)
(* first, and reversed.  A unit is known by its position.                    *)

Units == IF impossible THEN <<>> ELSE Reverse(components)

UnitOf(v) == {u \in DOMAIN Units : Contains(Units[u], v)}

Dependencies(u) ==
  (UNION {UnitOf(w) : w \in UNION {Edges(v) : v \in ToSet(Units[u])}}) \ {u}

-----------------------------------------------------------------------------
(* Reference definitions *)

\* The least set that holds v and is closed under the edges.
Reachable(v) ==
  {u \in Namespaces : \A S \in SUBSET Namespaces :
                        v \in S /\ (\A x \in S : Edges(x) \subseteq S) => u \in S}

Component(v) == {u \in Reachable(v) : v \in Reachable(u)}

Mentioned == DOMAIN deps \cup UNION {Edges(v) : v \in DOMAIN deps}

\* The records are well formed, and the stack and the flags agree.
TypeOK ==
  /\ nextIndex \in Nat
  /\ index \in [Visited -> 0..(nextIndex - 1)] /\ IsInjective(index)
  /\ lowlink \in [Visited -> 0..(nextIndex - 1)]
  /\ Visited \subseteq Mentioned
  /\ ToSet(stack) = inStack /\ IsInjective(stack)
  /\ \A i \in DOMAIN calls : /\ calls[i].vertex \in Visited
                             /\ calls[i].edges \subseteq Edges(calls[i].vertex)
  /\ keys \subseteq DOMAIN deps

\* The stack and the flags agree (TypeOK) and the flag that should never be set
\* is not set; the vertices under way are in the stack in the order of the
\* calls, and the lowlink of a vertex in the stack is the index of one that is
\* still in the stack and in the same component.
LowlinksSound ==
  /\ TypeOK
  /\ ~impossible
  /\ \A i \in DOMAIN calls : calls[i].vertex \in inStack
  /\ \A i, j \in DOMAIN stack : i < j => index[stack[i]] > index[stack[j]]
  /\ \A v \in inStack :
       \E u \in inStack : index[u] = lowlink[v] /\ u \in Component(v)

\* Whatever has been split off is a strongly connected component, all of it; in
\* the end every namespace is in exactly one unit.
UnitsAreComponents ==
  /\ \A u \in DOMAIN Units : \A v \in ToSet(Units[u]) : ToSet(Units[u]) = Component(v)
  /\ \A t, u \in DOMAIN Units : ToSet(Units[t]) \cap ToSet(Units[u]) # {} => t = u
  /\ Finished => UNION {ToSet(Units[u]) : u \in DOMAIN Units} = Mentioned

\* compilationUnits are "ordered topologically, starting from units depending
\* on no other unit", and no dependency of a unit is missing.
DependenciesFirst ==
  \A u \in DOMAIN Units :
    /\ \A d \in Dependencies(u) : d < u
    /\ \A v \in ToSet(Units[u]) : \A w \in Edges(v) : UnitOf(w) # {}
=============================================================================
