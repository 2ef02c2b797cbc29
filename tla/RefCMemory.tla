----------------------------- MODULE RefCMemory -----------------------------
(***************************************************************************)
(* Values and reference counts of the RefC runtime                         *)
(* (support/refc/memoryManagement.c, runtime.c, prim.c) under the code     *)
(* that Compiler/RefC/RefC.idr generates.                                  *)
(*                                                                         *)
(* The program is any program: in each step the running function does one  *)
(* of the things a generated function may do, with any of the values it    *)
(* can name.  What it can name are the arguments in its arglist and the    *)
(* fields of constructors, which it borrows, and the results of its        *)
(* earlier statements, which it owns and gives back when it returns        *)
(* (freeTmpVars).                                                          *)
(*                                                                         *)
(* The stack is the C stack: the running function, the callers that wait   *)
(* for it, and what removeReference has still to do.  The functions that   *)
(* finalise a GC pointer run in the middle of a removeReference.           *)
(***************************************************************************)
EXTENDS Integers, Sequences, SequencesExt, FiniteSets

CONSTANTS
  MaxCells, \* bound on the values alive at a time
  MaxOps    \* bound on the statements of the whole program

ASSUME BoundsAssumption == MaxCells \in Nat \ {0} /\ MaxOps \in Nat

VARIABLES
  heap,   \* the values alive: a function from some of Cells
  stack,  \* what is being executed, the innermost first
  leaked, \* the values whose last reference C code forgot to remove
  broken, \* a value that is gone, a slot no table has, or a value of another
          \* tag was used: C promises nothing from here on
  ops     \* statements executed

vars == <<heap, stack, leaked, broken, ops>>

Cells == 1 .. MaxCells

NULL == 0

(* A value: its count, its tag, the values it holds and, of an arglist,    *)
(* the number of arguments of its function, of an IORef, the index.  C     *)
(* functions of the runtime are told apart from generated ones.  A GC      *)
(* pointer made by onCollectAny does not own what it holds.                *)
Value(tag, kids) ==
  [rc |-> 1, tag |-> tag, kids |-> kids, n |-> 0, f |-> "code", owns |-> TRUE]

Arglist(args, total) == [Value("ARGLIST", args) EXCEPT !.n = total]

-----------------------------------------------------------------------------
(* Entries of the stack. *)
Run(f, arglist, lets) ==
  [do |-> "run", f |-> f, arglist |-> arglist, lets |-> lets]
Drop(c)       == [do |-> "drop", cell |-> c]     \* removeReference(c)
Free(c)       == [do |-> "free", cell |-> c]     \* its last lines
Deliver(c)    == [do |-> "deliver", cell |-> c]  \* a function returned c
Forget        == [do |-> "forget"]               \* and nobody takes it
Awaits1       == [do |-> "closure1"]             \* and it is closure1
Store(a, i, v) == [do |-> "store", cell |-> a, at |-> i, value |-> v]

Drops(cells) == [i \in DOMAIN cells |-> Drop(cells[i])]

Top  == stack[1]
Rest == Tail(stack)

First(s) == IF s = <<>> THEN Forget ELSE s[1]

Doing(what) == ~broken /\ stack # <<>> /\ Top.do = what

-----------------------------------------------------------------------------
(* The heap. *)

Live(c) == c \in DOMAIN heap

Times(c, cells) == Cardinality({i \in DOMAIN cells : cells[i] = c})

(* newReference of each of the cells. *)
newReference(h, cells) ==
  [c \in DOMAIN h |-> [h[c] EXCEPT !.rc = @ + Times(c, cells)]]

(* A new value in the cell c. *)
Alloc(h, c, value) == [d \in DOMAIN h \union {c} |-> IF d = c THEN value ELSE h[d]]

(* The k-th cell malloc takes. *)
Fresh(k) ==
  CHOOSE c \in Cells \ DOMAIN heap : Cardinality((1 .. c) \ DOMAIN heap) = k

Room(k) == Cardinality(Cells \ DOMAIN heap) >= k

closureTag(args, total) ==
  IF Len(args) >= total THEN "COMPLETE_CLOSURE" ELSE "CLOSURE"

(* A closure over a new arglist that holds a new reference to each of the  *)
(* arguments; the closure takes the arglist over.                          *)
makeClosureFromArglist(f, args, total) ==
  Alloc(Alloc(newReference(heap, args), Fresh(1), Arglist(args, total)),
        Fresh(2), [Value(closureTag(args, total), <<Fresh(1)>>) EXCEPT !.f = f])

-----------------------------------------------------------------------------
(* What a function can name. *)

Fields(cells) ==
  UNION {ToSet(heap[c].kids) : c \in {d \in cells \ {NULL} : heap[d].tag = "CONSTRUCTOR"}}

Arguments(e) == IF e.arglist = NULL THEN {} ELSE ToSet(heap[e.arglist].kids)

NamedBy(e) == LET own == Arguments(e) \union ToSet(e.lets)
              IN  (own \union Fields(own)) \ {NULL}

Named == NamedBy(Top)

Tagged(tag) == {c \in Named : heap[c].tag = tag}

(* A statement of generated code. *)
Statement ==
  /\ Doing("run") /\ Top.f = "code"
  /\ ops < MaxOps
  /\ ops' = ops + 1

(* The stack after the statement `Value *var = v;'. *)
Let(v) == <<[Top EXCEPT !.lets = Append(@, v)]>> \o Rest

(* The main expression has made a world. *)
Init ==
  /\ heap = [c \in {1} |-> Value("WORLD", <<>>)]
  /\ stack = <<Run("code", NULL, <<1>>)>>
  /\ leaked = <<>> /\ broken = FALSE /\ ops = 0

-----------------------------------------------------------------------------
(* Statements that make a value. *)

newConstructor ==
  /\ Statement /\ Room(1)
  /\ \E args \in {<<>>} \union {<<x>> : x \in Named} \union {<<x, y>> : x, y \in Named} :
       /\ heap' = Alloc(newReference(heap, args), Fresh(1), Value("CONSTRUCTOR", args))
       /\ stack' = Let(Fresh(1))
  /\ UNCHANGED <<leaked, broken>>

(* A function with fewer arguments than it takes (AUnderApp). *)
UnderApplied ==
  /\ Statement /\ Room(2)
  /\ \E args \in {<<>>} \union {<<x>> : x \in Named}, missing \in 1 .. 2 :
       heap' = makeClosureFromArglist("code", args, Len(args) + missing)
  /\ stack' = Let(Fresh(2))
  /\ UNCHANGED <<leaked, broken>>

(* A foreign function returns a pointer. *)
makePointer ==
  /\ Statement /\ Room(1)
  /\ heap' = Alloc(heap, Fresh(1), Value("POINTER", <<>>))
  /\ stack' = Let(Fresh(1))
  /\ UNCHANGED <<leaked, broken>>

(* Every %MkWorld makes a world, with a table of IORefs of its own: that   *)
(* of the main expression, and that of each call of unsafePerformIO.       *)
makeWorld ==
  /\ Statement /\ Room(1)
  /\ heap' = Alloc(heap, Fresh(1), Value("WORLD", <<>>))
  /\ stack' = Let(Fresh(1))
  /\ UNCHANGED <<leaked, broken>>

(* A variable, or a field of a constructor, as a value of its own (AV). *)
Alias ==
  /\ Statement
  /\ \E x \in Named :
       /\ heap' = newReference(heap, <<x>>)
       /\ stack' = Let(x)
  /\ UNCHANGED <<leaked, broken>>

(* The end of a block gives back what its last k statements made, the last *)
(* one first (freeTmpVars); its value is one of the variables.             *)
EndOfBlock ==
  /\ Statement
  /\ \E k \in 1 .. Len(Top.lets), x \in Named :
       LET n == Len(Top.lets) - k
       IN  /\ heap' = newReference(heap, <<x>>)
           /\ stack' = Drops(Reverse(SubSeq(Top.lets, n + 1, n + k)))
                         \o <<Deliver(x), [Top EXCEPT !.lets = SubSeq(@, 1, n)]>> \o Rest
  /\ UNCHANGED <<leaked, broken>>

-----------------------------------------------------------------------------
(* Calls.  trampoline(closure) takes the arglist out of the closure, gives *)
(* the closure back and runs the function; when that returns, the arglist  *)
(* is given back and a result that is a complete closure is run in turn.   *)

(* The stack on which the complete closure cl, of function f with arglist  *)
(* al, runs.                                                               *)
Trampolined(cl, f, al) == <<Drop(cl), Run(f, al, <<>>)>>

(* A call whose result is a variable (AAppName). *)
Call ==
  /\ Statement /\ Room(2)
  /\ \E args \in {<<x>> : x \in Named} \union {<<x, y>> : x, y \in Named} :
       heap' = newReference(makeClosureFromArglist("code", args, Len(args)), <<Fresh(1)>>)
  /\ stack' = Trampolined(Fresh(2), "code", Fresh(1)) \o stack
  /\ UNCHANGED <<leaked, broken>>

(* apply_closure copies the arguments to a new arglist, adds one, and      *)
(* either runs the function or makes a closure.                            *)
Applied(cl, arg) == Append(heap[heap[cl].kids[1]].kids, arg)

Total(cl) == heap[heap[cl].kids[1]].n

apply_closure ==
  /\ Statement
  /\ \E cl \in Tagged("CLOSURE"), arg \in Named :
       LET args == Applied(cl, arg)
       IN  IF Len(args) >= Total(cl)
           THEN /\ Room(1)
                /\ heap' = Alloc(newReference(heap, args), Fresh(1), Arglist(args, Total(cl)))
                /\ stack' = <<Run(heap[cl].f, Fresh(1), <<>>)>> \o stack
           ELSE /\ Room(2)
                /\ heap' = makeClosureFromArglist(heap[cl].f, args, Total(cl))
                /\ stack' = Let(Fresh(2))
  /\ UNCHANGED <<leaked, broken>>

(* The function returns v: its variables are given back, the last one      *)
(* first, then, by whoever called it, its arglist.                         *)
Returning(v) ==
  Drops(Reverse(Top.lets))
    \o (IF Top.arglist = NULL THEN <<>> ELSE <<Drop(Top.arglist)>>)
    \o <<Deliver(v)>> \o Rest

Return ==
  /\ Doing("run") /\ Top.f = "code"
  /\ \E x \in Named :
       /\ heap' = newReference(heap, <<x>>)
       /\ stack' = Returning(x)
  /\ UNCHANGED <<leaked, broken, ops>>

(* The result is erased, or the function is one of the C functions that    *)
(* free what a string iterator points to.                                  *)
ReturnNull ==
  /\ Doing("run")
  /\ stack' = Returning(NULL)
  /\ UNCHANGED <<heap, leaked, broken, ops>>

(* A call in tail position is returned as a closure, for the trampoline of *)
(* the caller.                                                             *)
TailCall ==
  /\ Statement /\ Room(2)
  /\ \E args \in {<<x>> : x \in Named} :
       heap' = makeClosureFromArglist("code", args, Len(args))
  /\ stack' = Returning(Fresh(2))
  /\ UNCHANGED <<leaked, broken>>

tailcall_apply_closure ==
  /\ Statement /\ Room(2)
  /\ \E cl \in Tagged("CLOSURE"), arg \in Named :
       heap' = makeClosureFromArglist(heap[cl].f, Applied(cl, arg), Total(cl))
  /\ stack' = Returning(Fresh(2))
  /\ UNCHANGED <<leaked, broken>>

\* Mutant: the arglist goes with the closure it came in.
BounceBorrowed ==
  /\ Doing("deliver") /\ Top.cell # NULL
  /\ heap[Top.cell].tag = "COMPLETE_CLOSURE"
  /\ LET cl == Top.cell  al == heap[cl].kids[1]
     IN  stack' = Trampolined(cl, heap[cl].f, al) \o Rest
  /\ UNCHANGED <<heap, leaked, broken, ops>>

(* What returned is a complete closure: the trampoline goes round. *)
Bounce ==
  /\ Doing("deliver") /\ Top.cell # NULL
  /\ heap[Top.cell].tag = "COMPLETE_CLOSURE"
  /\ LET cl == Top.cell  al == heap[cl].kids[1]
     IN  /\ heap' = newReference(heap, <<al>>)
         /\ stack' = Trampolined(cl, heap[cl].f, al) \o Rest
  /\ UNCHANGED <<leaked, broken, ops>>

(* What returned is a value: it becomes a variable of the caller.  The     *)
(* result of main, and of a finaliser, is not given back.                  *)
Arrive ==
  /\ Doing("deliver") /\ First(Rest) # Awaits1
  /\ Top.cell # NULL => heap[Top.cell].tag # "COMPLETE_CLOSURE"
  /\ IF Rest # <<>> /\ Rest[1].do = "run"
     THEN /\ stack' = <<[Rest[1] EXCEPT !.lets = Append(@, Top.cell)]>> \o Tail(Rest)
          /\ UNCHANGED leaked
     ELSE /\ stack' = IF Rest = <<>> THEN <<>> ELSE Tail(Rest)
          /\ leaked' = IF Top.cell = NULL THEN leaked ELSE Append(leaked, Top.cell)
  /\ UNCHANGED <<heap, broken, ops>>

-----------------------------------------------------------------------------
(* removeReference.  The value whose last reference goes is freed after    *)
(* what it holds was given back; an IORef holds nothing, its value belongs *)
(* to the world.                                                           *)

RemoveReference ==
  /\ Doing("drop") /\ Top.cell # NULL /\ Live(Top.cell) /\ heap[Top.cell].rc > 1
  /\ heap' = [heap EXCEPT ![Top.cell].rc = @ - 1]
  /\ stack' = Rest
  /\ UNCHANGED <<leaked, broken, ops>>

RemoveNull ==
  /\ Doing("drop") /\ Top.cell = NULL
  /\ stack' = Rest
  /\ UNCHANGED <<heap, leaked, broken, ops>>

\* Mutant: an arglist gives back nothing.
RemoveLastShallow ==
  /\ Doing("drop") /\ Top.cell # NULL /\ Live(Top.cell)
  /\ heap[Top.cell].rc = 1 /\ heap[Top.cell].tag # "GC_POINTER"
  /\ heap' = [heap EXCEPT ![Top.cell].rc = 0, ![Top.cell].kids = <<>>]
  /\ stack' = (IF heap[Top.cell].tag = "ARGLIST" THEN <<>> ELSE Drops(heap[Top.cell].kids))
                \o <<Free(Top.cell)>> \o Rest
  /\ UNCHANGED <<leaked, broken, ops>>

(* From here on the value is no owner of what it held: the pending removals *)
(* are.                                                                    *)
RemoveLast ==
  /\ Doing("drop") /\ Top.cell # NULL /\ Live(Top.cell)
  /\ heap[Top.cell].rc = 1 /\ heap[Top.cell].tag # "GC_POINTER"
  /\ heap' = [heap EXCEPT ![Top.cell].rc = 0, ![Top.cell].kids = <<>>]
  /\ stack' = Drops(heap[Top.cell].kids) \o <<Free(Top.cell)>> \o Rest
  /\ UNCHANGED <<leaked, broken, ops>>

(* apply_closure inside a removeReference: as above, but what it returns   *)
(* is for the entry below.                                                 *)
Complete(cl, arg) == Len(Applied(cl, arg)) >= Total(cl)

RoomToApply(cl, arg) == Room(IF Complete(cl, arg) THEN 1 ELSE 2)

HeapApplied(cl, arg) ==
  LET args == Applied(cl, arg)
  IN  IF Complete(cl, arg)
      THEN Alloc(newReference(heap, args), Fresh(1), Arglist(args, Total(cl)))
      ELSE makeClosureFromArglist(heap[cl].f, args, Total(cl))

Applying(cl, arg) ==
  IF Complete(cl, arg) THEN Run(heap[cl].f, Fresh(1), <<>>) ELSE Deliver(Fresh(2))

(* A GC pointer runs its finaliser: apply_closure of the function to the   *)
(* pointer, whose result is closure1; in the end the function and the      *)
(* pointer are given back.  A function of one argument, as the Prelude     *)
(* passes it, runs here.                                                   *)
Finalise ==
  /\ Doing("drop") /\ Top.cell # NULL /\ Live(Top.cell)
  /\ heap[Top.cell].rc = 1 /\ heap[Top.cell].tag = "GC_POINTER" /\ heap[Top.cell].owns
  /\ LET fct == heap[Top.cell].kids[1]  p == heap[Top.cell].kids[2]
     IN  /\ RoomToApply(fct, p)
         /\ heap' = [HeapApplied(fct, p) EXCEPT ![Top.cell].rc = 0, ![Top.cell].kids = <<>>]
         /\ stack' = <<Applying(fct, p), Awaits1, Drop(fct), Drop(p), Free(Top.cell)>> \o Rest
  /\ UNCHANGED <<leaked, broken, ops>>

(* closure1 is there: apply_closure of it to NULL, for the world.  What    *)
(* that returns is forgotten, then closure1 is given back.                 *)
ApplyClosure1 ==
  /\ Doing("deliver") /\ First(Rest) = Awaits1
  /\ Top.cell # NULL /\ heap[Top.cell].tag = "CLOSURE"
  /\ RoomToApply(Top.cell, NULL)
  /\ heap' = HeapApplied(Top.cell, NULL)
  /\ stack' = <<Applying(Top.cell, NULL), Forget, Drop(Top.cell)>> \o Tail(Rest)
  /\ UNCHANGED <<leaked, broken, ops>>

(* The finaliser was no function of two arguments: what it returned to     *)
(* apply_closure is no closure.                                            *)
NotClosure1 ==
  /\ Doing("deliver") /\ First(Rest) = Awaits1
  /\ Top.cell # NULL => heap[Top.cell].tag \notin {"CLOSURE", "COMPLETE_CLOSURE"}
  /\ broken' = TRUE
  /\ UNCHANGED <<heap, stack, leaked, ops>>

(* onCollectAny kept no reference to the function and the pointer, which   *)
(* may be gone, and which it is about to give back.                        *)
FinaliseAny ==
  /\ Doing("drop") /\ Top.cell # NULL /\ Live(Top.cell)
  /\ heap[Top.cell].rc = 1 /\ heap[Top.cell].tag = "GC_POINTER" /\ ~heap[Top.cell].owns
  /\ broken' = TRUE
  /\ UNCHANGED <<heap, stack, leaked, ops>>

FreeValue ==
  /\ Doing("free")
  /\ heap' = [c \in DOMAIN heap \ {Top.cell} |-> heap[c]]
  /\ stack' = Rest
  /\ UNCHANGED <<leaked, broken, ops>>

-----------------------------------------------------------------------------
(* Mutable values.  The world owns the values of the IORefs, in the order  *)
(* the IORefs were made. *)

newIORef ==
  /\ Statement /\ Room(1)
  /\ \E w \in Tagged("WORLD"), v \in Named :
       /\ heap' = Alloc([newReference(heap, <<v>>) EXCEPT ![w].kids = Append(@, v)],
                        Fresh(1), [Value("IOREF", <<>>) EXCEPT !.n = Len(heap[w].kids) + 1])
       /\ stack' = Let(Fresh(1))
  /\ UNCHANGED <<leaked, broken>>

newArray ==
  /\ Statement /\ Room(1)
  /\ \E v \in Named :
       /\ heap' = Alloc(newReference(heap, <<v>>), Fresh(1), Value("ARRAY", <<v>>))
       /\ stack' = Let(Fresh(1))
  /\ UNCHANGED <<leaked, broken>>

(* The slots a statement can name: <<holder, index>>.  An IORef is no more *)
(* than an index, whatever world it is used with.                          *)
Slots ==
  (UNION {{a} \X DOMAIN heap[a].kids : a \in Tagged("ARRAY")})
    \union {<<w, heap[r].n>> : w \in Tagged("WORLD"), r \in Tagged("IOREF")}

(* A slot that is being written: its old value is on its way out and still *)
(* there for a finaliser to see.                                           *)
BeingWritten == {<<stack[k].cell, stack[k].at>> :
                   k \in {j \in DOMAIN stack : stack[j].do = "store"}}

(* The table of another world may have no such slot: nothing checks it. *)
Unusable(slot) == slot \in BeingWritten \/ slot[2] \notin DOMAIN heap[slot[1]].kids

(* readIORef and arrayGet. *)
ReadSlot ==
  /\ Statement
  /\ \E slot \in Slots :
       IF Unusable(slot)
       THEN broken' = TRUE /\ UNCHANGED <<heap, stack>>
       ELSE LET v == heap[slot[1]].kids[slot[2]]
            IN  /\ heap' = newReference(heap, <<v>>)
                /\ stack' = Let(v)
                /\ UNCHANGED broken
  /\ UNCHANGED leaked

(* writeIORef and arraySet first give the old value back, then store a new *)
(* reference to the new one.  writeIORef returns its IORef, arraySet NULL. *)
WriteSlot ==
  /\ Statement
  /\ \E slot \in Slots, v \in Named :
       IF Unusable(slot)
       THEN broken' = TRUE /\ UNCHANGED <<heap, stack>>
       ELSE /\ stack' = <<Drop(heap[slot[1]].kids[slot[2]]), Store(slot[1], slot[2], v)>>
                          \o stack
            /\ UNCHANGED <<heap, broken>>
  /\ UNCHANGED leaked

StoreNew ==
  /\ Doing("store")
  /\ heap' = [newReference(heap, <<Top.value>>) EXCEPT ![Top.cell].kids[Top.at] = Top.value]
  /\ stack' = Rest
  /\ UNCHANGED <<leaked, broken, ops>>

-----------------------------------------------------------------------------
(* GC pointers and string iterators. *)

(* A finaliser takes the pointer and the world: it misses both, or it      *)
(* misses the pointer only and returns a function of the world.            *)
Finalisers == Tagged("CLOSURE")

GCPointer(p, fct) == Value("GC_POINTER", <<fct, p>>)

onCollect ==
  /\ Statement /\ Room(1)
  /\ \E p \in Tagged("POINTER"), fct \in Finalisers :
       /\ heap' = Alloc(newReference(heap, <<p, fct>>), Fresh(1), GCPointer(p, fct))
       /\ stack' = Let(Fresh(1))
  /\ UNCHANGED <<leaked, broken>>

onCollectAny ==
  /\ Statement /\ Room(1)
  /\ \E p \in Tagged("POINTER"), fct \in Finalisers :
       /\ heap' = Alloc(heap, Fresh(1), [GCPointer(p, fct) EXCEPT !.owns = FALSE])
       /\ stack' = Let(Fresh(1))
  /\ UNCHANGED <<leaked, broken>>

(* A GC pointer to the iterator, which owns a closure without arguments    *)
(* and the pointer.                                                        *)
stringIteratorNew ==
  /\ Statement /\ Room(4)
  /\ heap' = Alloc(Alloc(makeClosureFromArglist("freeIterator", <<>>, 2),
                          Fresh(3), Value("POINTER", <<>>)),
                    Fresh(4), GCPointer(Fresh(3), Fresh(2)))
  /\ stack' = Let(Fresh(4))
  /\ UNCHANGED <<leaked, broken>>

\* Mutant: the result borrows the iterator.
NextBorrowsIterator ==
  /\ Statement /\ Room(2)
  /\ \E it \in Tagged("GC_POINTER") :
       heap' = Alloc(Alloc(heap, Fresh(1), Value("CHAR", <<>>)),
                     Fresh(2), Value("CONSTRUCTOR", <<Fresh(1), it>>))
  /\ stack' = Let(Fresh(2))
  /\ UNCHANGED <<leaked, broken>>

(* The next character and the iterator. *)
stringIteratorNext ==
  /\ Statement /\ Room(2)
  /\ \E it \in Tagged("GC_POINTER") :
       heap' = Alloc(Alloc(newReference(heap, <<it>>), Fresh(1), Value("CHAR", <<>>)),
                     Fresh(2), Value("CONSTRUCTOR", <<Fresh(1), it>>))
  /\ stack' = Let(Fresh(2))
  /\ UNCHANGED <<leaked, broken>>

(* The function f is applied to a new string; apply_closure takes a        *)
(* reference of its own and nobody gives back the first.                   *)
stringIteratorToString ==
  /\ Statement /\ Room(2) /\ Tagged("GC_POINTER") # {}
  /\ \E f \in Tagged("CLOSURE") :
       LET args == Append(heap[heap[f].kids[1]].kids, Fresh(1))
           made == Alloc(heap, Fresh(1), Value("STRING", <<>>))
       IN  /\ Len(args) >= Total(f)
           /\ heap' = Alloc(newReference(made, args), Fresh(2), Arglist(args, Total(f)))
           /\ stack' = <<Run(heap[f].f, Fresh(2), <<>>)>> \o stack
           /\ leaked' = Append(leaked, Fresh(1))
  /\ UNCHANGED broken

-----------------------------------------------------------------------------
Next ==
  \/ newConstructor \/ UnderApplied \/ makePointer \/ makeWorld \/ Alias \/ EndOfBlock
  \/ Call \/ apply_closure \/ Return \/ ReturnNull
  \/ TailCall \/ tailcall_apply_closure \/ Bounce \/ Arrive
  \/ RemoveReference \/ RemoveNull \/ RemoveLast \/ FreeValue
  \/ Finalise \/ ApplyClosure1 \/ NotClosure1 \/ FinaliseAny
  \/ newIORef \/ newArray \/ ReadSlot \/ WriteSlot \/ StoreNew
  \/ onCollect \/ onCollectAny
  \/ stringIteratorNew \/ stringIteratorNext \/ stringIteratorToString

Spec == Init /\ [][Next]_vars

-----------------------------------------------------------------------------
(* The references an entry of the stack owns. *)
OwnedBy(e) ==
  CASE e.do = "run" -> (IF e.arglist = NULL THEN <<>> ELSE <<e.arglist>>) \o e.lets
    [] e.do \in {"drop", "deliver"} -> <<e.cell>>
    [] OTHER -> <<>>

(* The references a value owns: a slot that is being written has handed    *)
(* its own on.                                                             *)
OwnedSlots(c) ==
  [i \in DOMAIN heap[c].kids |->
     IF heap[c].owns /\ <<c, i>> \notin BeingWritten THEN heap[c].kids[i] ELSE NULL]

(* How many entries of the sequences f[x] are c. *)
Holding(f, c) ==
  Cardinality({p \in UNION {{x} \X DOMAIN f[x] : x \in DOMAIN f} : f[p[1]][p[2]] = c})

Owners(c) ==
  Holding([d \in DOMAIN heap |-> OwnedSlots(d)], c)
    + Holding([k \in DOMAIN stack |-> OwnedBy(stack[k])], c)
    + Times(c, leaked)

Owned ==
  ((UNION {ToSet(OwnedSlots(c)) : c \in DOMAIN heap})
     \union (UNION {ToSet(OwnedBy(stack[k])) : k \in DOMAIN stack})
     \union ToSet(leaked)) \ {NULL}

(* What a value that is used holds is alive: whatever a program does (up   *)
(* to what C promises nothing about), the count of a value is the number   *)
(* of the places that own a reference to it, in other values, in running   *)
(* functions and in pending removals, and nothing is owned that is gone.   *)
CountsExact ==
  /\ Owned \subseteq DOMAIN heap
  /\ \A c \in DOMAIN heap : heap[c].rc = Owners(c)

(* What every running or waiting function can name is alive, although it   *)
(* owns only a part of it.                                                 *)
NamesAlive ==
  \A k \in DOMAIN stack : stack[k].do = "run" =>
    \A c \in NamedBy(stack[k]) : Live(c) /\ heap[c].rc > 0

(* What can be reached from the cells. *)
Reach(from) ==
  LET step(S) == S \union UNION {ToSet(heap[c].kids) \ {NULL} : c \in S \intersect DOMAIN heap}
      upTo[n \in 0 .. MaxCells] == IF n = 0 THEN from ELSE step(upTo[n - 1])
  IN  upTo[MaxCells]

Roots ==
  ((UNION {ToSet(OwnedBy(stack[k])) : k \in DOMAIN stack}) \union ToSet(leaked)) \ {NULL}

(* Nothing stays alive for no reason: a value nobody can reach is being    *)
(* freed, or belongs to a cycle that was closed by writing to an array or  *)
(* an IORef, or is what a finaliser, or stringIteratorToString, forgot.    *)
NoGarbage ==
  \A c \in DOMAIN heap \ Reach(Roots) :
    \/ \E k \in DOMAIN stack : stack[k] = Free(c)
    \/ \E d \in DOMAIN heap : /\ heap[d].tag \in {"ARRAY", "WORLD"}
                              /\ d \in Reach(ToSet(heap[d].kids))
                              /\ c \in Reach({d})
=============================================================================
