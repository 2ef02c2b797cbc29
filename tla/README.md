# A verification project for Idris 2

TLA+ models of the parts of Idris 2 whose correctness depends on the order in
which things happen, or on what happens at the edge of a type: the concurrency
primitives of the Scheme runtimes, the incremental build, the graph algorithms
that decide what is built and in which order, the memory and the arithmetic of
the RefC runtime, and the signals and streams of the C support library. TLC
checks every model on small instances; TLAPS proves the central results for
every value of the constants. `PROJECT.json` lists the components, runs,
mutants, theorems and hazards, and maps each definition to the source lines it
stands for.

Run a model with `tlc -config X.cfg M`, check proofs with `tlapm M.tla`.

## The system

Idris 2 is a compiler (`src/`, written in Idris), libraries (`libs/`), and
runtimes its generated programs link to (`support/`).

| Part | State it keeps | Operations | What is hard | What makes it correct |
|---|---|---|---|---|
| Chez runtime, semaphores (`support/chez/support.ss`) | counter, mutex, condition | post, wait | a wait tests the counter once; threads overtake each other | no lost wakeup, permits are covered |
| Chez runtime, channels | value, read flag, mutex, two conditions | put, get | signals are sent after the mutex is released | behaves as a one-slot channel; partners meet |
| Chez runtime, barriers, futures, thread handles | counters and flags with a mutex and a condition | wait; make, await; fork, join | one test, one broadcast | rendezvous, results delivered, joins ordered, no deadlock |
| Racket runtime, conditions (`support/racket/support.rkt`) | counter of waiters, three semaphores | wait, signal, broadcast | waiters are counted by hand, notifiers wait for a handshake | the count is exact, notifications return |
| Racket runtime, barriers | counter, turnstile | wait | turnstile stays open | rendezvous of the first round |
| Incremental build (`Idris/ModTree.idr`, `Idris/ProcessIdr.idr`, `Core/Binary.idr`, `Core/Metadata.idr`) | source, ttc and ttm files, time stamps, interface hashes | build, edit | stamps in whole seconds, writes in place, crashes, cascades | success means fresh and consistent files |
| Module graph (`Idris/ModTree.idr`) | tree cache, path, build order | mkModTree, getBuildMods, buildAll | cache against cycle path, several root files | errors exact, order topological |
| Compilation units (`Compiler/Separate.idr`, `Libraries/Data/Graph.idr`) | Tarjan's stack, indices, lowlinks | getCompilationUnits | a recursive call in the middle of a loop | units are the components, dependencies first |
| C support, signals (`support/c/idris_signal.c`) | set of pending signals, dispositions | handler, collect, ignore, default, handle next | handler and other threads between load and clear | none lost, none handed out twice, each handed out |
| C support, streams (`support/c/idris_file.c`, `getline.c`, `idris_net.c`, `System/File.idr`, `Network/Socket.idr`) | stdio buffer and flags, kernel queue, the page being read | lines, characters, pages, recv, recvAll | short, failing and interrupted reads look alike | bytes accounted for, pages are lines, reading ends |
| RefC runtime, memory (`support/refc/memoryManagement.c`, `runtime.c`, `prim.c`, `Compiler/RefC/RefC.idr`) | reference-counted values, closures, slots of IORefs and arrays | newReference, removeReference, apply, trampoline, finalise | frees by hand, one case per tag; finalisers in the middle of a release | counts exact, nothing used after it is gone, no leak |
| RefC runtime, values (`mathFunctions.c`, `casts.c`, `stringOps.c`, `buffer.c`) | values, the bytes of a buffer | arithmetic, comparison, casts, strings, buffers | promotions, signs, widths, a NUL in a string | the results are those of Integer, of lists, of what was written |
| C support, directories, terminal, clock, Windows | none between calls | one libc call each | | |
| Code generators, Core, TTImp, parser | terms and contexts | elaborate, unify, compile | data, not control | meta-theory |
| REPL, IDE mode, packages, libraries, test runner, bootstrap | sequential scripts, generated code | | | |

Interactions: `System.Concurrency` calls the runtime primitives by foreign
name, and a thread handle is a semaphore inside the Chez runtime. `buildDeps`
and `buildAll` get their order from the module graph and hand each module to
`processMod`, which talks to the next run of the compiler only through the ttc
and ttm files. The Chez back end for separate compilation asks
`getCompilationUnits` for its libraries. A collected signal interrupts the read
a thread waits in, so the signal queue and the streams share a model. A
finaliser, a generated function, runs inside `removeReference`.

## Modules

**ChezSemaphore** — `box`, `owner` and `pc` are `semaphore-box`,
`semaphore-mutex` and the position of each thread; condition variables are the
set of threads at `waiting`. A step is an acquisition of the mutex or the body
that runs under it, since nobody looks at the box without the mutex. `Post` is
`blodwen-semaphore-post` with the signal inside; `Sleep`, `PassTest`,
`Reacquire` and `Take` are `blodwen-semaphore-wait`. `overtaken` is a history
variable that says when a thread has slipped in between a signal and the
wakeup.

**ChezChannel**, **OneSlotChannel** — both wait loops, the release, and the
signal after it are separate steps. `sent` and `received` are histories.
`OneSlotChannel` is what `System.Concurrency` documents for the Chez back end;
`DocumentedSpec` is the refinement, on the histories. A `condition-wait` may
return without a signal here, because both loops retest.

**ChezBarrier**, **ChezFuture**, **ChezForkJoin** — `ChezForkJoin` instantiates
the two and `ChezSemaphore` (as the handle of one thread) and composes them
into the program of the tests `forkjoin001`, `barrier001` and `futures001`.
The semaphore, the barrier and the future test their state once, so they are
right only because a `condition-wait` ends by a signal or a broadcast, which
is what `System.Concurrency` says of `conditionWait`; the models assume it.

**RacketCondition** — the counts of the four semaphores, the counter and the
loop counter of the broadcast. A step is one semaphore operation with the
reads and writes of the counter that `waitersLock` protects. Notifications are
called with or without the mutex.

**IncrementalBuild** — files carry a content, a time stamp and, for a ttc, the
interface hash and those of its direct imports. Actions follow a run of the
compiler through `buildMods`: the test of `buildMod`, the read of the text, the
test of `processMod`, elaboration, the two writes, the reload at the end.
`Edit` and `Tick` happen at any moment; `Crash` ends a run between two steps or
inside a write. Elaboration is a constant of the model, `Fits(text,
interfaces)`: a text elaborates or not depending on the interfaces in the ttc
files of the modules it loads, as they are on disk, whatever the sources of
these modules say now. A broken text is one that suits no interfaces. An interface hash is the public part of a text together with
the hashes it re-exports (a hash without collisions). `session` is the mode of
all runs: time stamps, or hashes (`-Xcheck-hashes`) with or without a source
directory, on which the name that `checkDepHashes` computes depends. The hash
of a source file is its content; `hash` is the one stored in a ttc. `racing`,
`risky` and `raced` remember the edits that the comparison cannot show.

**ModTree** — the two recursions are made explicit: `stack` holds the modules
being visited with the imports each has left, and a call or a return of
`mkModTree` (phase `tree`) or `mkBuildMods` (phase `order`) is a step. A tree is
represented by its root, `all` by the modules whose trees are known. `mkModTree`
passes a cycle and a parse error on; every other error of `readHeader`
(`ModTree.idr:95`), a missing file, one that cannot be read and one that does
not lex, makes a tree without source and imports (`NoTree`), which is left
behind like a known one. The main file is no exception (`FileSkipped`): with a
main file that does not lex, `buildAll` succeeds and builds nothing; an import
that does not lex is not built, and its importers use its old ttc if there is
one. `ErrorsExact` and `OrderIsTopological` state this exception. `NextFile` and `FileDone` are the turns of `getAllBuildMods`,
and a thrown error ends the run as it does there. Cycles and reachability
(`Below`, the least closed set) serve as reference.

**SeparateUnits** — Tarjan's algorithm with its calls made explicit: `calls`
is the stack of the host language, and each step is one turn of a loop. The
keys and edges a loop has still to visit are a set: the library lists them in
ascending order, so the next one is the least (`Least`). What the code computes
is compared with the least sets closed under the edges (`Reachable`).
`Units` and `Dependencies` are the rest of `getCompilationUnits`.

**SupportSignal** — `signals` is the atomic word of `idris_signal.c`. The
handler (`CollectSignal`) is one `atomic_fetch_or`; a call of
`handle_next_collected_signal` is `Load` and `TakeLowest`, with anything in
between. `owed` and `overtaken` are histories: what was collected and not
handed out, and what others handed out during a call.

**SupportStream** — extends SupportSignal with one byte stream and one reader,
which uses it as a path (`readFile`, `readFilePage`), a handle by lines and
chunks, a handle by characters, or a socket. `file` is the `FILE`: what stdio
has taken from the kernel, and the two indicators; `wire` is what the kernel
holds. A call is a sequence of reads (`Fill`, `GetBytes`, `AtEOF`, a failure),
each an own step, with the peer and the signals between them. `getlineOf` is
which `getline` a program gets: RefC programs link `libidris2_support.a`, so
the one of `getline.c`; a library that is loaded dynamically resolves the
name to the one of the C library (glibc).

**RefCNumbers**, **RefCCasts**, **RefCStrings**, **RefCValues** — the first
three translate the C functions into operators, one per family, with the type
in the function's name as parameter; `cast_T(n)[U]` is `cast_T_to_U`.
`RefCValues` is the program that calls them: a call with its operands, its
result, and for buffers a history of what was written. The operators keep the
code's way: corrections of a quotient, the sign the remainder has, promotion
and conversion, `atoi` between a text and a number. A double is a number of
halves with a short significand, an infinity, or not a number: comparisons are
stated for all of these. Casts take finite doubles and texts that spell finite
numbers: with NaN or an infinity `mpz_set_d` ends the program, the conversion to
a fixed-width type is up to the machine, and "%f" prints a word.

**RefCMemory** — `heap` maps cells to values with their count; `stack` is the
C stack: generated functions, calls that wait for them, pending releases. The
program is arbitrary: in each step the running function makes one of the
statements `cStatementsFromANF` emits, with anything it can name. Every nested
`removeReference` is a step of its own, in the order of the generated code (the
variables of a block go newest first), so that a finaliser meets each
intermediate state. Each `%MkWorld` makes a world with its own table of IORefs,
and an IORef is an index that can be used with any of them. A finaliser is any
closure: with the pointer missing, as the Prelude passes it, its body runs in
the first `apply_closure` of the release and returns `closure1`; with the pointer
and the world missing `closure1` is made by the runtime. `leaked` collects
references that C code drops. `broken` ends a behaviour that has done what C
promises nothing about: used a value that is gone, a slot another world's table
does not have, or a slot in the middle of a write, or applied a `closure1` that
is no closure.

## Runs

| Run | Instance | Shows |
|---|---|---|
| chez_semaphore | 4 threads, 3 posts, 4 waits | wakeups are not lost, permits are covered until somebody overtakes, permits get used |
| chez_semaphore_doc (violation) | same | a woken thread may decrement a zero counter, against the documentation of `semaphoreWait` |
| chez_channel | 4 threads, 2 values, 3 puts, 2 gets, 1 spurious wakeup | refinement of the one-slot channel, no lost signal, partners meet |
| chez_fork_join | 3 workers, parent, runner | promises of barrier, future and join, termination, no deadlock |
| racket_condition | 3 threads, 3 waits, 2 signals, 1 broadcast | counting exact and notifications return until a broadcast has found a waiter |
| racket_condition_doc (violation) | same | the counter is stale after a broadcast |
| incremental_build | chain of 3 modules, 4 contents (one of which needs a new interface), 3 seconds, 2 edits, 3 runs, 1 crash; by time stamps, by hashes, by hashes with a source directory | what success and failure of a build mean, no needless rebuild |
| mod_tree | 3 modules, at most 2 imports each, any of them missing, unreadable or unparsable, up to 2 files | errors exact, order topological and complete but for what is left out silently |
| separate_units | all graphs of 4 namespaces | units are the components, in dependency order |
| refc_values | types of 2, 3, 4 and 6 bits for 8, 16, 32 and 64, all their values; Integers -20 to 20 (casts: -70 to 70), strings of up to 3 characters, a buffer of 6 bytes, 4 writes | fixed-width operations are those of Integer up to the stated exceptions, comparisons are a total order but for NaN, casts agree with each other and with text, strings are lists, buffers give back what was written |
| refc_memory | 9 values alive, 3 statements; 2 of them from an array that holds a GC pointer whose finaliser knows the array, and from a GC pointer with a finaliser of one argument | counts are exact, what can be named is alive, nothing unreachable stays but cycles and named leaks |
| c_support | 2 signals, 2 fetching threads, 4 arrivals; 3 bytes, 2 calls, requests of 1 and 2 for 64 and 65536 | signals are kept, handed out, and not twice; bytes, pages and recvAll as stated; reading ends |

Why the bounds are enough: the semaphore and channel hazards need two threads
on each side and one more operation than there are sleepers; a barrier needs a
first, a middle and a last arrival; a stale count needs a broadcast and one
thread that comes later; the build needs a chain of three for an interface
that reaches a module through a re-export, two edits for one to hide behind
the other, and a third run after a crash and its repair (the clock stands still
in the runs by hashes, where nothing reads it); cycles of length one,
two and three and diamonds exist on three modules; four namespaces allow two
components with an edge between them, entered from either side. The small
widths keep what the code's proofs of its corrections use: each type is
strictly wider than the one before, the significand of a double lies between
the third and the fourth, and all pairs of operands are tried, the least value
with -1 among them. Three statements make, share and drop a closure, or make a
second world and use an IORef of the first with it; the other two initial states
are ones they do not reach. A signal must arrive between
the load and the clearing of another thread's call, twice; a stream of three
bytes has an empty line, a line in two pieces and a line without end; recvAll
meets its first request in full, doubles it, and meets the limit. The `MC`
module of c_support explores signals and streams side by side and not their
product: a reader's process collects its signals, and one arrives. Deadlock is
checked where the program terminates by itself (chez_fork_join,
separate_units); in the other runs the system really may stop, because the
bounded number of calls, edits or runs is used up or a thread waits for a call
that nobody makes.

**Fairness.** A thread inside a runtime operation continues (weak fairness of
its internal steps): the operating system, or the Racket scheduler, runs every
thread that can run. Calls, spurious wakeups, edits and releases of a user's
mutex are not fair: programs need not make them. Only a bounded number of
operations competes for a mutex, so weak fairness is enough and no fairness of
the mutex is assumed. `System.Signal` asks for `handleNextCollectedSignal` in
every turn of the main loop: both of its steps are weakly fair for each
thread. A reader is weakly fair as far as it can go on by itself; that data
comes, that the peer closes and that a signal arrives is not assumed. Build,
graph and RefC models have no liveness properties.

## Disagreements found

Shown by a run that expects a violation:

1. `semaphoreWait` is documented to decrement a non-zero counter; a woken
   thread decrements whatever it finds, because `blodwen-semaphore-wait` does
   not test again. With one waiter, as in a thread handle, it cannot happen.
2. `blodwen-cv-broadcast` of the Racket runtime never lowers `cv-waiters`,
   though its comment does: a signal after a broadcast waits for ever, with the
   lock of the counter held.

Stated exactly by a property of a passing run, as the one exception to a rule:

3. `CyclicImports` carries the path of the visit latest first, with the
   repeated module at the end: the message "Module imports form a cycle" joins
   with arrows names that import each other the other way round, and modules
   that only lead to the cycle (`ErrorsExact`).
4. The modulus of a signed fixed-width type is the divisor, not 0, for a
   negative multiple of it (`mathFunctions.c:301`), while the quotient is
   right: `TestIntegers.idr` tests `(x div 19) * 19 + (x mod 19)` on operands
   that do not show it (`FixedAgreesWithInteger`).
5. A number of 64 bits cast to text and back by `cast_string_to_Int64` comes
   back as its low 32 bits, because the cast goes by `atoi` (`TextRoundTrip`).
   Integer is cast to double by truncation, every other type by rounding
   (`CastsFactorThroughInteger`). The least Int32 or Int64 divided by -1 traps.
6. `recvAll` promises all the remaining data and stops at the first short
   answer. Data that its requests meet exactly costs one request more: with
   the peer gone that answers 0, and `recvAll` returns `Left 0` and drops what
   it had (`RecvAllExact`).
7. `handle_next_collected_signal` may hand the same signal to two threads
   whose calls overlap (`NotTwice`).
8. A handler is installed without `SA_RESTART`, and an interrupted read makes
   `getline` return a part of a line; `getline.c` loses that part instead.
   `fGetChar` tests an error indicator nothing clears: after one interruption
   it fails for ever, with the character it read (`BytesAccounted`).
   `fGetLine` reports no error and `readLinesOnto` looks for the end of the
   file only: `readFile` of a directory never ends (`ReadingEnds`).
9. "Build from source if any of the dependencies, or the associated source
   file, have been modified from the stored hashes" (`ModTree.idr:163`):
   `checkDepHashes` is given the ttc of an import, not its source. Without a
   source directory the ttc name it derives names no file, and every module
   with imports is processed; with one it is an error, caught as "no
   difference", and a build that succeeds leaves modules checked against old
   interfaces (`SuccessMeansConsistent`).
10. `onCollectAny` keeps no reference to what it holds (`prim.c:161`), and
    `writeIORef` and `arraySet` release the old content before they store the
    new one (`prim.c:66`, `136`), so that a finaliser can see a slot that is
    gone. `readIORef` and `writeIORef` do not check that the world they index
    (`prim.c:59`, `66`) is the one the IORef was made with, and
    `unsafePerformIO` makes a world of its own (`RefC.idr:114`). RefCMemory has
    all of these and stops there (`broken`). The results of finalisers and the
    string of `stringIteratorToString` leak (`leaked`).
11. A main file that does not lex is built without an error, and an import that
    does not lex is left out of the build (`ModTree.idr:95`, `ErrorsExact`,
    `OrderIsTopological`). No double comparison holds with a NaN, so that of two
    values of type Double none may be less, equal or greater
    (`mathFunctions.c:572`, `IntegerLaws`).

## Proofs

What the `*Proofs` modules state holds for any number of threads, values,
signals, bytes, calls, bits, modules and namespaces; they assume only the ASSUMEs of
the models (finite sets of threads, distinct constants, natural bounds, an
import structure that the order of the build follows, requests for at least one
byte), which TLC evaluates in every run.

*Semaphore.* `TypeOK` is inductive by itself. The invariants relate the
counter to the number of threads that are promised a permit, so the proofs
rest on a table of how each step changes that set and the set of sleepers.
`NoLostWakeup` says that sleepers mean the counter does not exceed the
promises; a post raises both sides as long as somebody sleeps. `PermitsCovered`
is the converse, and needs the history: overtaking is the only step that makes
a promise without a permit.

*Channel.* `BoxMatchesHistory` strengthens `TypeOK` to make the value taken a
value. `NoLostSignal` is inductive with them. The refinement maps `Store` and
`Take` to `Put` and `Get`, every other step to a stutter.

*Fork and join.* One inductive invariant per component and one that ties the
future to the barrier: the counter of the barrier is the number of workers
with a ticket; woken awaiters find the flag set; a worker uses the future only
after the barrier; the handle's counter is the post made less the wait that
returned. That the join comes after all arrivals follows from the cardinality
of the workers. One lemma splits every step of the program into a step of one
component.

*Signals.* The invariant says that the word is exactly what is owed, and that
what a thread has loaded is still in the word or was handed out by another
call meanwhile. `NoSignalLost` is a part of it; `NotTwice` follows for the step
that clears the bit. That a call finds a lowest bit needs that every set of
naturals has a least element (well-foundedness, from the library). The same
holds in the process that reads (`SignalsKeptWhileReading`).

*Stream.* `FileInv` adds to `BytesAccounted` where a call can have bytes in its
hand (between two reads of a line, a skipped line or a run of characters, never
more than it was asked for) and what a failed read proves: a directory, which
gives no bytes, or an interruption. So a call that forgets its bytes
(`LineRead`, `CharsEnd`) does it after an interruption only. Two facts about
concatenation carry the rest; they are used under a name of its own (`Cat`),
since the SMT solver expands concatenations it should leave alone.

*recvAll.* `RecvInv` says that a running `recvAll` holds what `k` requests met
in full have brought (`InFull[k]`), that these are the bytes after the position
of its call, and that the kernel's queue holds the next ones. What was asked for
grows with every request, so a `k` beyond `MaxBytes` would need more bytes than
were sent. When the peer had closed before the call, the request that is not met
in full brings the rest or, if nothing is left, the 0 that makes an error: the
two cases of `RecvAllExact`.

*Pages.* `PathInv` says of a page under way how many lines it has behind it and
that the bytes in its hand are the last, unfinished piece of the bytes taken
from the stream (`LastPiece`); at the end of the file that piece counts as a
line too, an empty one included. The lines behind it determine the offset left
to skip, the fuel left, and the lines recorded (`Began`). Later bytes change no
piece but the last (`PiecesGrow`), so the page stays right while the peer goes
on sending. `LinesAssumption` only keeps the model's bound on the recorded
lines out of the way of a stream that has an end.

`InFull` and `Pieces` are recursive functions. That they exist is proved by
building them round by round (`RoundsExist`), and what holds for each argument
by a least counterexample (`Induction`).

*Racket condition.* `CountsExact` speaks of the moments between two
operations, so it is not inductive. `CountInv` says how far the counts are off
while a thread holds `waitersLock`: the permits, the threads between permit and
handshake and the handshakes add up (`UnderWay`) to 0 when nobody notifies, to 1
during a signal, and in a broadcast to what the loop has still to do. Both
theorems hold up to the first broadcast that found somebody (`stale`), as the
properties do: after it the counter is wrong, which a run shows.

*Incremental build.* The invariant has two halves. `FilesTell` says of every
whole file what its stamp or hash proves: the content it was made from, and
which of its imports it knows. `DoneInv` says that the up-to-date tests hold of
every module the run has gone past; it survives the later writes because the
order of the build puts imports first. `FitsInv` says that a whole ttc was
elaborated against the interfaces it records. With `CrashInv` and `TextInv` this gives
`SuccessMeansFresh`, `FailureHasReason` and `NoNeedlessRebuild`. For
`SuccessMeansConsistent` the interfaces on disk satisfy, module by module, the
equations that define `TrueIface`; that there is only one solution is an
induction over the order of the build, done with its least counterexample. Since
nothing is assumed of `Fits`, an undisturbed run that fails without a broken
source or a crash has elaborated a text against an interface that its source
does not have; `DoneInv` then gives a module behind it whose ttc is stale.

*Module graph.* While a tree is made, `StackOK` says of the modules on the
stack that each imports the one above it, that none of them is known or twice
there, and that every import of one is missing, known, still to be visited, or
the module above it. `KnownOK` says that what is known is closed under imports
and on no cycle. So a module can be added to it when its imports are done, and
an import on the path closes a cycle and nothing else does (`MetAgain`,
`OnNoCycle`): `ErrorsExact`. While the build modules are listed, the same
`StackOK` holds with the list in the place of the known modules. That the
traversal does not look at the path any more is right because it stays among
the known modules, which have no cycle. A list in which imports come first keeps
that when another one is put in front of it (`ConcatInOrder`) and when later
occurrences are dropped (`DropLaterFacts`, an induction over the list done with
a least counterexample): `OrderIsTopological`. `TreeAssumption` only says that
the bounds on headers and packages are numbers. `BuildOrderAsAssumed` connects
the two models of a build: what IncrementalBuild assumes of its constant
`Order`, this order satisfies.

*Separate units.* The invariant `TarjanInv` (12 parts) speaks of the vertices
under way, those of the calls in progress. Each reaches every vertex of the
stack that was met after it (`Below`), every vertex of the stack reaches one
that was met before it (`Above`), and an edge that was followed out of the
subtree of a vertex under way has lowered the lowlink of a vertex between
(`EdgesRecorded`). When a lowlink equals the index, no edge leaves the subtree
for the rest of the stack, and since what was split off is closed under the
edges (`SplitClosed`) the subtree is a component (`SubtreeIsComponent`). The
components found depend only on themselves and earlier ones, so the order of
the units follows. TLC checks the parts of the invariant with three and four
namespaces.

*RefC memory.* `CountsExact` is not inductive: a step may rely on a closure
having its arglist, on a waiting function's variables, or on a value that is
being freed not being freed again. `MemInv` is `Inv` of the heap, the stack and
the forgotten references. `CellOk` is the shape of a cell by tag, `EntryOk` what
an entry of the stack needs of the heap and of the entry below (a function lies
on a function, or on the entry that takes the result of a finaliser or of its
`closure1`, a pending store on the function
that made it, which still names both sides), `Distinct` excludes two stores to
one slot and two frees of one value, and `Balanced` says for every address,
alive or not, that its count is the number of its owners. `Inv` has the
references that are neither in the heap nor on the stack as a parameter: in the
middle of a statement these are the ones C variables hold. So each primitive
effect (a new reference, a new value, a reference less, a last release, a free,
an entry pushed or taken, a slot written) is one lemma that moves references
between heap, stack and parameter, and an action is a chain of them. The
finaliser in the middle of a release is the same chain in a deeper stack; the
last reference being in the hand of the release is why nothing else holds the
value (`HeldTwice`). `NamesAlive` follows because everything that can be named
is held: by the arglist, by a variable, or by a constructor that is held. Like
the model, the theorems end where C promises nothing (`broken`).

`NoGarbage` needs a second invariant, `TidyInv`: a value with count 0 is being
freed, and what values hold for good, not in a slot that can be written, has no
cycle. A new value is held by none of those it is made of, and only
arrays and worlds are written to later (TLC checks `TidyInv` with the bounds
of the run). The argument looks at the values nobody can reach. One that is not
being freed has an owner by `Balanced`; no root is one, so it is a value nobody
can reach either. Among the values above a given one take one with the fewest
values above it: going up from there stays on one cycle, which `Acyclic` opens
unless it goes through an array or a world. `Reach` is shown to be the least
closed set (`ReachFacts`) with an induction over its rounds, done with a least
counterexample, since the induction theorems of the library cannot be used.

*RefC values.* The operations keep no state, so these invariants hold step by
step and the work is in the operators. `WidthsAssumption` (each width positive
and below the next), `MantissaAssumption` and `OperandsAssumption` are all that
is known of the widths, of the significand and of the operands: the theorems
hold for 8, 16, 32 and 64 bits as for the small ones TLC enumerates. Everything
fixed-width is argued modulo `2^width` (`Congruent`): `Wrap` is the one value of
the type congruent to a number (`WrapFacts`), so promotions to int and back,
and the casts through `mpz_get_lsb`, are chains of congruences. The corrected
quotients are those of Euclid because the corrections move quotient and
remainder together (`Corrected`). The bits of a number are one set of positions:
`BitSum`, the number of a set, inverts `BitsOf` by a least counterexample over
the positions, and the equations between and, or, xor and the sum are equations
between sums over disjoint sets.

*Buffers and strings.* `OperandsAssumption` also says that no character of an
operand is NUL (a string of this runtime is a `char *` that a NUL ends) and that what
`setBufferInt` is given fits an Int64; the size of the buffer, the lengths and
the number of writes are free. `BufferReadsBack` follows from `BufferInv`: the
bytes of every intact item are the image of its value. A write keeps the items
it does not touch and a copy moves an image whole (`WriteHolds`, `CopyHolds`).
That the bytes of a number sum to it modulo `2^64` (`ByteSumOf`) goes digit by
digit. `StringsAreLists` rests on one lemma, that C reads a string up to its
first NUL (`CStringIs`): packing and substrings are instances of it. What an
iterator yields is a recursive function of the number of calls; the proof gives
a solution (`At`) and shows that it is the only one.

Only model-checked: the liveness properties (no ENABLED in the prover). Every
invariant of the runs is the subject of a theorem.

## Not modelled, and the plan

In this order:

1. Two compilers in one build directory, and runs by time stamps and by hashes
   in turn.
2. Reused barriers, and the Racket barrier, as implementations of one abstract
   rendezvous.

In the modelled files these parts are left out. RefC: arithmetic on double,
doubles in buffers, buffers read from files, the clock, `extractInt`, the case
tables of `conCaseHelper.c`, mutexes and conditions (made and never released;
`conditionWaitTimeout` hands a relative time to `pthread_cond_timedwait`,
`prim.c:247`). C support: the set-up of sockets, datagrams and the structures
they allocate, directories, the terminal, `popen`, polling, writing, the
Windows branches. They are single calls of the C library with no state of
their own.

The elaborator, unification, termination checking and the code generators
transform unbounded terms and keep little state between steps; what matters of
them is meta-theory and outside what TLC can enumerate. The REPL, the package
manager and the libraries are sequential scripts. Bootstrap files are
generated. Chez and Racket themselves, the file system and the operating
system appear only as far as the modelled code uses them.
