------------------------------ MODULE ModTree ------------------------------
(***************************************************************************)
(* From the import headers of the source files to the order in which the   *)
(* modules of a package are built (src/Idris/ModTree.idr: mkModTree,       *)
(* mkBuildMods, getBuildMods, getAllBuildMods and dropLater).              *)
(*                                                                         *)
(* Both traversals are recursive in the program; here `stack' is the stack *)
(* of their calls and every call and every return is a step.  A module     *)
(* tree is determined by its root and the headers, so a tree is            *)
(* represented by its root.                                                *)
(***************************************************************************)
EXTENDS Naturals, Sequences, SequencesExt

CONSTANTS
  Modules,       \* the modules a header may name
  MaxImports,    \* bound: imports in a header
  MaxFiles       \* bound: files named by the package

ASSUME TreeAssumption == MaxImports \in Nat /\ MaxFiles \in Nat

VARIABLES
  header,    \* header[m]: what readHeader makes of m's source file (Headers)
  imps,      \* imps[m]: the imports in m's header, in order
  files,     \* the files of the package
  at,        \* the position of the file that buildAll looks at
  done,      \* the build modules found for the files before it
  phase,     \* its tree is made, the "order" is, or the "next" file is due
  stack,     \* the modules being visited, latest first, with the imports left
  all,       \* AllMods: the modules whose trees are known
  order,     \* BuildOrder and DoneMod: the build modules of this file so far
  error      \* the error that was thrown, or NoError

treeVars == <<header, imps, files, at, done, phase, stack, all, order, error>>
package == <<header, imps, files>>

NoError == [kind |-> "none"]
ParseFail(m) == [kind |-> "ParseFail", mod |-> m]
CyclicImports(path) == [kind |-> "CyclicImports", names |-> path]

Root == files[at]
Frame(m) == [mod |-> m, rest |-> imps[m]]

\* The path to the module being visited, latest first: `done' of mkModTree.
Path == [i \in DOMAIN stack |-> stack[i].mod]

\* The import that the traversal visits next.
Visiting(p) ==
  /\ error = NoError /\ phase = p
  /\ stack # <<>> /\ Head(stack).rest # <<>>
Visited == Head(Head(stack).rest)
Taken == <<[Head(stack) EXCEPT !.rest = Tail(@)]>> \o Tail(stack)

\* All imports have been visited: the call for the module itself goes on.
Returning(p) ==
  /\ error = NoError /\ phase = p
  /\ stack # <<>> /\ Head(stack).rest = <<>>

\* Mutant: a module met for the second time anywhere counts as a cycle.
SeenBefore(m) == m \in all \cup Range(Path)

OnCycle(m) == m \in Range(Path)

\* Mutant: the last occurrence of each module is kept.
DropEarlier(ms) ==
  LET kept[n \in 0..Len(ms)] ==
        IF n = 0 THEN <<>>
        ELSE Append(SelectSeq(kept[n - 1], LAMBDA m : m # ms[n]), ms[n])
  IN  kept[Len(ms)]

\* dropLater: the first occurrence of each module is kept.
DropLater(ms) ==
  LET kept[n \in 0..Len(ms)] ==
        IF n = 0 THEN <<>>
        ELSE IF ms[n] \in Range(kept[n - 1]) THEN kept[n - 1]
        ELSE Append(kept[n - 1], ms[n])
  IN  kept[Len(ms)]

-----------------------------------------------------------------------------
\* The source file of a module has a header, has one that does not parse, is
\* missing, or is there and can be neither read nor lexed (readFile's FileErr,
\* the LexFail and LitFail of runParserTo).  Only a header has imports.
Headers == [Modules -> {"ok", "unparsable", "missing", "unreadable"}]

\* mkModTree passes CyclicImports and ParseFail on.  On every other error, of a
\* file that is there too, it answers a tree without source and imports.
NoTree(m) == header[m] \in {"missing", "unreadable"}

TreeInit ==
  /\ header \in Headers
  /\ imps \in [Modules -> SeqOf(Modules, MaxImports)]
  /\ \A m \in Modules : header[m] # "ok" => imps[m] = <<>>
  /\ files \in {fs \in SeqOf(Modules, MaxFiles) : fs # <<>> /\ IsInjective(fs)}
  /\ at = 1 /\ done = <<>> /\ phase = "next"
  /\ stack = <<>> /\ all = {} /\ order = <<>>
  /\ error = NoError

\* getBuildMods on the next file.
NextFile == error = NoError /\ phase = "next" /\ at <= Len(files)

\* Nothing to do if it is in `done'.
AlreadyDone ==
  /\ NextFile /\ Root \in Range(done)
  /\ at' = at + 1
  /\ UNCHANGED <<package, done, phase, stack, all, order, error>>

\* mkModTree on the file itself: its header is read, or does not parse, or it
\* gets a tree without source, in which mkBuildMods finds nothing to build.
ReadFile ==
  /\ NextFile /\ Root \notin Range(done)
  /\ header[Root] = "ok"
  /\ phase' = "tree" /\ stack' = <<Frame(Root)>>
  /\ UNCHANGED <<package, at, done, all, order, error>>

FileFails ==
  /\ NextFile /\ Root \notin Range(done)
  /\ header[Root] = "unparsable"
  /\ error' = ParseFail(Root)
  /\ UNCHANGED <<package, at, done, phase, stack, all, order>>

FileSkipped ==
  /\ NextFile /\ Root \notin Range(done)
  /\ NoTree(Root)
  /\ at' = at + 1
  /\ UNCHANGED <<package, done, phase, stack, all, order, error>>

\* mkModTree on an import: on the path, the cycle is thrown through all calls.
ThrowCycle ==
  /\ Visiting("tree") /\ OnCycle(Visited)
  /\ error' = CyclicImports(Append(Path, Visited))
  /\ UNCHANGED <<package, at, done, phase, stack, all, order>>

\* Its tree is known, or it counts as a module of some package, with no imports
\* and nothing to build.
KnownTree ==
  /\ Visiting("tree") /\ ~OnCycle(Visited)
  /\ Visited \in all \/ NoTree(Visited)
  /\ stack' = Taken
  /\ UNCHANGED <<package, at, done, phase, all, order, error>>

ReadHeader ==
  /\ Visiting("tree") /\ ~OnCycle(Visited)
  /\ Visited \notin all /\ header[Visited] = "ok"
  /\ stack' = <<Frame(Visited)>> \o Taken
  /\ UNCHANGED <<package, at, done, phase, all, order, error>>

HeaderFails ==
  /\ Visiting("tree") /\ ~OnCycle(Visited)
  /\ Visited \notin all /\ header[Visited] = "unparsable"
  /\ error' = ParseFail(Visited)
  /\ UNCHANGED <<package, at, done, phase, stack, all, order>>

\* The trees of all imports are made, and so is the module's own.
PutTree ==
  /\ Returning("tree")
  /\ all' = all \cup {Head(stack).mod}
  /\ stack' = Tail(stack)
  /\ UNCHANGED <<package, at, done, phase, order, error>>

\* The file's tree is made: mkBuildMods on it.
TreeMade ==
  /\ error = NoError /\ phase = "tree" /\ stack = <<>>
  /\ phase' = "order" /\ stack' = <<Frame(Root)>>
  /\ UNCHANGED <<package, at, done, all, order, error>>

\* mkBuildMods on an import: nothing to build, or done already.
SkipImport ==
  /\ Visiting("order")
  /\ NoTree(Visited) \/ Visited \in Range(order)
  /\ stack' = Taken
  /\ UNCHANGED <<package, at, done, phase, all, order, error>>

BuildImport ==
  /\ Visiting("order")
  /\ ~NoTree(Visited) /\ Visited \notin Range(order)
  /\ stack' = <<Frame(Visited)>> \o Taken
  /\ UNCHANGED <<package, at, done, phase, all, order, error>>

\* "build it now", after the dependencies.
PutBuildMod ==
  /\ Returning("order")
  /\ order' = Append(order, Head(stack).mod)
  /\ stack' = Tail(stack)
  /\ UNCHANGED <<package, at, done, phase, all, error>>

\* getAllBuildMods: the build modules of the file go in front.
FileDone ==
  /\ error = NoError /\ phase = "order" /\ stack = <<>>
  /\ done' = order \o done /\ at' = at + 1
  /\ phase' = "next" /\ all' = {} /\ order' = <<>>
  /\ UNCHANGED <<package, stack, error>>

TreeNext ==
  \/ AlreadyDone \/ ReadFile \/ FileFails \/ FileSkipped
  \/ ThrowCycle \/ KnownTree \/ ReadHeader \/ HeaderFails \/ PutTree
  \/ TreeMade \/ SkipImport \/ BuildImport \/ PutBuildMod \/ FileDone

TreeSpec == TreeInit /\ [][TreeNext]_treeVars

-----------------------------------------------------------------------------
(* Reference definitions, on the graph of the imports that have a tree.     *)

Import(a, b) == header[a] = "ok" /\ b \in Range(imps[a]) /\ ~NoTree(b)

\* The files with something to build.
WithTree == {f \in Range(files) : ~NoTree(f)}

Closed(T) == \A a \in T : \A b \in Modules : Import(a, b) => b \in T

\* What the modules of S import, directly or not, and S itself.
Below(S) == {b \in Modules : \A T \in SUBSET Modules : S \subseteq T /\ Closed(T) => b \in T}

StrictlyBelow(m) == Below({b \in Modules : Import(m, b)})

Cyclic(S) == \E m \in Below(S) : m \in StrictlyBelow(m)

BuildOrder == DropLater(done)
InOrder(ms) == \A i \in DOMAIN ms : \A d \in Range(imps[ms[i]]) :
                 ~NoTree(d) => \E j \in 1..i-1 : ms[j] = d

-----------------------------------------------------------------------------
\* Every error is justified and none of its kind is missed: a cycle error only
\* if the imports have a cycle below the file, a parse error only for an
\* unparsable header below it, and what is in the build order has neither.  The
\* names of a cycle error are the modules under way, latest first, then the one
\* that was met again: each of the first ones is imported by the NEXT, and the
\* last one by the first.  (The message, src/Core/Core.idr:330, joins them with
\* arrows, as if each imported the next.)  The other problems of a header are
\* not reported at all: see NoTree.
ErrorsExact ==
  /\ error.kind = "CyclicImports" =>
       LET names == error.names
           n     == Len(names)
       IN  /\ Cyclic({Root})
           /\ \A i \in 1..n - 2 : Import(names[i + 1], names[i])
           /\ Import(names[1], names[n]) /\ \E i \in 1..n - 1 : names[i] = names[n]
  /\ error.kind = "ParseFail" => error.mod \in Below({Root}) /\ header[error.mod] = "unparsable"
  /\ ~Cyclic(Range(done)) /\ \A m \in Range(done) : header[m] = "ok"

\* Whatever the files and their order, buildMods gets exactly once, and after all
\* it imports, every module below the files whose header can be read: keeping
\* the first occurrence of a module in the concatenated lists is right.  What is
\* left out without a word is a file or an import without a tree, and whatever
\* only those import: a source that is missing, but also one that is there and
\* does not lex; a build with such a main file alone has nothing to do.
OrderIsTopological ==
  (at > Len(files) /\ error = NoError) =>
    /\ IsInjective(BuildOrder)
    /\ InOrder(BuildOrder)
    /\ Range(BuildOrder) = Below(WithTree)
=============================================================================
