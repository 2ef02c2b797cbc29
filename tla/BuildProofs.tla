---------------------------- MODULE BuildProofs ----------------------------
(***************************************************************************)
(* Proofs about a build of the compiler.                                   *)
(*                                                                         *)
(* About IncrementalBuild, for any modules in any acyclic import structure,*)
(* any edits, runs and crashes, by time stamps or by hashes: what a build  *)
(* that succeeds has left on disk, why one fails, and what it writes again.*)
(* The invariant says of the modules a run has gone past that the up-to-   *)
(* date tests hold of them, and of every file on disk what the tests may   *)
(* conclude from its time stamp or its hash.                               *)
(*                                                                         *)
(* About ModTree, for any headers, cyclic or not, and any list of files:   *)
(* the errors are exact and the build order is topological.  The invariant *)
(* says of the modules on the stack that each imports the one above it,    *)
(* and of those behind them that their imports are dealt with.             *)
(***************************************************************************)
EXTENDS IncrementalBuild, ModTree, SequenceTheorems, WellFoundedInduction, TLAPS

Whole(m) == ttc[m].state = "whole"

\* The positions in Order of the modules that this run, or the last one if it
\* succeeded, has dealt with.
Passed ==
  {i \in 1..Len(Order) : \/ stage \notin {"idle", "load"} /\ i < next
                         \/ stage = "write_ttm" /\ i = next
                         \/ stage = "load"
                         \/ stage = "idle" /\ result = "ok"}

SessionOK == session \in [hashes : BOOLEAN, srcdir : BOOLEAN]

\* A module without a checked file has the stamp and the hash of none; a whole
\* file is what writeToTTC writes.
FilesFormed ==
  /\ src = [m \in Mods |-> src[m]]
  /\ ttc = [m \in Mods |-> ttc[m]]
  /\ \A m \in Mods :
    /\ ttc[m].state = "none" => ttc[m] = NoTTC
    /\ Whole(m) => /\ ttc[m].imports = [d \in Imports[m] |-> ttc[m].imports[d]]
                   /\ ttc[m].iface = Iface(m, ttc[m].content, ttc[m].imports)

\* What a stamp or a hash says about a whole file.
FilesTell ==
  \A m \in Mods : Whole(m) =>
    IF session.hashes
    THEN m \notin raced => ttc[m].content = ttc[m].hash
    ELSE /\ m \notin risky /\ src[m].time <= ttc[m].time => ttc[m].content = src[m].content
         /\ \A d \in Imports[m] :
              ttc[d].time < ttc[m].time => ttc[m].imports[d] = ttc[d].iface

\* What holds of the modules that have been dealt with.
DoneInv ==
  \A i \in Passed : LET m == Order[i] IN
    /\ ttc[m].state # "none"
    /\ quiet => SourceUnchanged(m)
    /\ Whole(m) /\ ~session.srcdir => ttc[m].imports = ImportHashes(m)

\* The text in work is the source on disk, unless that was edited since.
TextInv ==
  /\ stage \in {"elaborate", "write_ttc", "write_ttm"} => text \in Contents
  /\ stage \in {"elaborate", "write_ttc"} /\ (quiet \/ ~racing) =>
       text = src[Order[next]].content
  /\ stage = "write_ttm" => Whole(Order[next]) /\ ttc[Order[next]].content = text

\* What is written was elaborated against the files of the modules it loads;
\* the interfaces it saw are those recorded in it, and follow from them.
SawIfaces(m, seen) ==
  /\ ttc[m].imports = [d \in Imports[m] |-> seen[d]]
  /\ \A e \in Loads(m) : seen[e][2] = [f \in Reexports[e] |-> seen[f]]
  /\ Fits(ttc[m].content, [d \in Loads(m) |-> seen[d]])

FitsInv ==
  /\ stage = "write_ttc" => ElaboratesOk(Order[next])
  /\ ~session.srcdir => \A m \in Mods : Whole(m) => \E seen : SawIfaces(m, seen)

\* Without crashes no file is cut short and the metadata belongs to the ttc.
CrashInv ==
  /\ crashes \in Nat
  /\ crashes = 0 => \A m \in Mods :
       /\ ttc[m].state # "cut"
       /\ ttm[m] = ttc[m].content \/ (stage = "write_ttm" /\ m = Order[next])

\* Why the module in work is written again.
Outdated(m) ==
  \/ ~session.hashes /\ src[m].time > ttc[m].time
  \/ session.hashes /\ (src[m].content # ttc[m].hash \/ racing)
  \/ ImportHashes(m) # ttc[m].imports

BuildInv ==
  /\ TypeOK /\ SessionOK
  /\ FilesFormed /\ FilesTell
  /\ DoneInv /\ TextInv /\ FitsInv /\ CrashInv
  /\ stage = "write_ttc" => Outdated(Order[next])
  /\ stage = "idle" /\ result = "ok" => \A m \in Mods : Whole(m)
  /\ FailureHasReason

-----------------------------------------------------------------------------
LEMMA OrderFacts ==
  /\ Len(Order) \in Nat /\ Len(Order) >= 1
  /\ \A i \in 1..Len(Order) : Order[i] \in Mods
  /\ \A m \in Mods : \E i \in 1..Len(Order) : Order[i] = m
  /\ \A i, j \in 1..Len(Order) : Order[i] = Order[j] => i = j
  /\ \A i, j \in 1..Len(Order) : Order[j] \in Imports[Order[i]] => j < i
  /\ \A m \in Mods : /\ Imports[m] \subseteq Mods /\ m \notin Imports[m]
                     /\ Reexports[m] \subseteq Imports[m]
  /\ Main \in Mods
<1>1. /\ Len(Order) \in Nat /\ Len(Order) >= 1
      /\ \A i \in 1..Len(Order) : Order[i] \in Mods
  BY BuildAssumption
<1>2. /\ \A m \in Mods : \E i \in 1..Len(Order) : Order[i] = m
      /\ \A i, j \in 1..Len(Order) : Order[i] = Order[j] => i = j
      /\ \A i, j \in 1..Len(Order) : Order[j] \in Imports[Order[i]] => j < i
      /\ \A m \in Mods : Imports[m] \subseteq Mods /\ Reexports[m] \subseteq Imports[m]
  BY BuildAssumption
<1>3. \A m \in Mods : m \notin Imports[m]
  BY <1>1, <1>2
<1>4. Main \in Mods
  BY <1>1 DEF Main
<1>5. QED
  BY <1>1, <1>2, <1>3, <1>4

LEMMA BuildInvInit == Init => BuildInv
<1> SUFFICES ASSUME Init PROVE BuildInv
  OBVIOUS
<1>1. /\ clock = 1 /\ stage = "idle" /\ next = 1 /\ text = NoContent /\ result = "none"
      /\ quiet = TRUE /\ risky = {} /\ raced = {} /\ crashes = 0
      /\ \A m \in Mods : /\ src[m].content = FirstContent /\ src[m].time = 1
                         /\ ttc[m] = NoTTC /\ ttm[m] = NoContent
  BY DEF Init
<1>2. TypeOK
  <2>1. clock \in 1..ClockBound
    <3>1. ClockBound \in Nat /\ ClockBound >= 1
      BY BuildAssumption DEF ClockBound
    <3>2. QED
      BY <1>1, <3>1
  <2>2. next \in 1..Len(Order) /\ stage \in Stages
    BY <1>1, OrderFacts DEF Stages
  <2>3. QED
    BY <1>1, <2>1, <2>2, BuildAssumption DEF Init, TypeOK, NoTTC
<1>3. SessionOK /\ FilesFormed
  BY <1>1 DEF Init, SessionOK, FilesFormed, NoTTC, Whole
<1>4. FilesTell /\ CrashInv
  BY <1>1 DEF Init, FilesTell, CrashInv, NoTTC, Whole
<1>5. DoneInv /\ TextInv /\ FitsInv /\ FailureHasReason
  BY <1>1 DEF DoneInv, Passed, TextInv, FitsInv, Whole, NoTTC, FailureHasReason
<1>6. QED
  BY <1>1, <1>2, <1>3, <1>4, <1>5 DEF BuildInv

-----------------------------------------------------------------------------
(* How the steps divide: most leave the files alone *)

FilesSame == UNCHANGED <<session, src, ttc, risky, raced>>

\* A step of the compiler at a module, or its end, that writes no ttc.
LEMMA StepKinds ==
  ASSUME [Next]_vars
  PROVE  \/ FilesSame
         \/ \E m \in Mods, c \in Contents : Edit(m, c)
         \/ WriteTTC
         \/ Crash /\ stage = "write_ttc" /\
              \E f \in CutTTC(Order[next], text) :
                ttc' = [ttc EXCEPT ![Order[next]] = f]
<1> USE DEF FilesSame
<1>1. CASE Tick
  BY <1>1 DEF Tick, disk
<1>2. CASE StartBuild
  BY <1>2 DEF StartBuild, disk
<1>3. CASE Compile /\ ~WriteTTC
  BY <1>3 DEF Compile, BuildModSkip, Read, ProcessSkip, ElaborateFails, Elaborate, WriteTTM,
              LoadMain, Quietly
<1>4. CASE Crash
  BY <1>4 DEF Crash
<1>5. CASE UNCHANGED vars
  BY <1>5 DEF vars, disk
<1>6. QED
  BY <1>1, <1>2, <1>3, <1>4, <1>5 DEF Next

LEMMA CutFile ==
  ASSUME NEW m, NEW c, NEW f \in CutTTC(m, c)
  PROVE  f.state = "cut" /\ f.time = clock
BY DEF CutTTC, WholeTTC, NoTTC

Control ==
  /\ ttm \in [Mods -> Contents \cup {NoContent}]
  /\ stage \in Stages
  /\ next \in 1..Len(Order)
  /\ text \in Contents \cup {NoContent}
  /\ result \in {"none", "ok", "errors", "crashed"}

LEMMA TypeFrame ==
  ASSUME TypeOK, UNCHANGED <<session, clock, src, ttc, risky, raced>>, Control'
  PROVE  TypeOK'
BY DEF TypeOK, Control, ClockBound

LEMMA TypeStep ==
  ASSUME BuildInv, [Next]_vars
  PROVE  TypeOK'
<1>0. TypeOK /\ Control /\ TextInv /\ FilesFormed
  BY DEF BuildInv, TypeOK, Control
<1>1. CASE Tick
  <2>1. clock' = clock + 1 /\ clock < ClockBound /\ clock \in Nat /\ ClockBound \in Nat
        /\ UNCHANGED <<session, src, ttc, ttm, run, risky, raced>>
    BY <1>0, <1>1, BuildAssumption DEF Tick, TypeOK, ClockBound, disk
  <2>2. clock' \in 1..ClockBound
    BY <2>1
  <2>3. \A m \in Mods : src'[m].time \in 1..clock' /\ ttc'[m].time \in 0..clock'
    BY <1>0, <2>1 DEF TypeOK
  <2>4. QED
    BY <1>0, <2>1, <2>2, <2>3 DEF TypeOK, ClockBound, run
<1>2. ASSUME NEW m \in Mods, NEW c \in Contents, Edit(m, c) PROVE TypeOK'
  <2>1. clock' = clock /\ session' = session /\ ttc' = ttc /\ UNCHANGED run /\ ttm' = ttm
        /\ raced' = raced /\ src' = [src EXCEPT ![m] = [content |-> c, time |-> clock]]
        /\ risky' \subseteq Mods
    BY <1>0, <1>2 DEF Edit, TypeOK
  <2>2. \A n \in Mods : src'[n].content \in Contents /\ src'[n].time \in 1..clock
    BY <1>0, <2>1 DEF TypeOK, FilesFormed, ClockBound
  <2>3. QED
    BY <1>0, <2>1, <2>2 DEF TypeOK, ClockBound, run
<1>3. CASE StartBuild
  <2>1. Control'
    BY <1>0, <1>3, OrderFacts DEF StartBuild, Control, Stages, disk
  <2>2. QED
    BY <1>0, <1>3, <2>1, TypeFrame DEF StartBuild, disk
<1>4. ASSUME Quietly, ttc' = ttc, BuildModSkip \/ ProcessSkip \/ WriteTTM PROVE TypeOK'
  <2>1. Advance
    BY <1>4 DEF BuildModSkip, ProcessSkip, WriteTTM
  <2>2. next' \in 1..Len(Order) /\ stage' \in Stages /\ text' = NoContent /\ result' = result
    BY <1>0, <2>1, OrderFacts DEF Advance, Stages, Control
  <2>3. ttm' \in [Mods -> Contents \cup {NoContent}]
    BY <1>0, <1>4 DEF BuildModSkip, ProcessSkip, WriteTTM, Control
  <2>4. QED
    BY <1>0, <1>4, <2>2, <2>3, TypeFrame DEF Control, Quietly
<1>5. ASSUME Quietly, ttc' = ttc, Read \/ ElaborateFails \/ Elaborate \/ LoadMain PROVE TypeOK'
  <2>1. stage' \in Stages /\ next' = next /\ ttm' = ttm
    BY <1>5 DEF Read, ElaborateFails, GiveUp, Elaborate, LoadMain, Stages
  <2>2. text' \in Contents \cup {NoContent}
    BY <1>0, <1>5, OrderFacts
    DEF Read, ElaborateFails, GiveUp, Elaborate, LoadMain, Control, TypeOK
  <2>3. result' \in {"none", "ok", "errors", "crashed"}
    BY <1>0, <1>5 DEF Read, ElaborateFails, GiveUp, Elaborate, LoadMain, Control
  <2>4. QED
    BY <1>0, <1>5, <2>1, <2>2, <2>3, TypeFrame DEF Control, Quietly
<1>6. CASE WriteTTC
  <2>1. text \in Contents /\ Order[next] \in Mods
    BY <1>0, <1>6, OrderFacts DEF WriteTTC, TextInv, Control
  <2>2. \A m \in Mods : ttc'[m] = ttc[m] \/ /\ ttc'[m].state = "whole"
                                            /\ ttc'[m].time = clock
                                            /\ ttc'[m].content = text
    BY <1>0, <1>6 DEF WriteTTC, WholeTTC, FilesFormed
  <2>3. clock \in Nat /\ clock >= 1
    BY <1>0 DEF TypeOK
  <2>4. \A m \in Mods : /\ ttc'[m].state \in {"none", "whole", "cut"}
                        /\ ttc'[m].time \in 0..clock
                        /\ ttc'[m].state = "whole" => ttc'[m].content \in Contents
    BY <1>0, <2>1, <2>2, <2>3 DEF TypeOK
  <2>5. Control' /\ UNCHANGED <<session, clock, src>> /\ risky' \subseteq Mods /\ raced' \subseteq Mods
    BY <1>0, <1>6, <2>1 DEF WriteTTC, Control, Stages, TypeOK
  <2>6. QED
    BY <1>0, <2>4, <2>5 DEF TypeOK, Control, ClockBound
<1>7. CASE Crash
  <2>1. UNCHANGED <<session, clock, src, next, risky, raced>>
        /\ stage' \in Stages /\ text' = NoContent /\ result' = "crashed"
    BY <1>7 DEF Crash, Stages
  <2>2. ttm' \in [Mods -> Contents \cup {NoContent}]
    BY <1>0, <1>7 DEF Crash, Control
  <2>3. clock \in Nat /\ clock >= 1
    BY <1>0 DEF TypeOK
  <2>4. ASSUME NEW m \in Mods
        PROVE  ttc'[m] = ttc[m] \/ (ttc'[m].state = "cut" /\ ttc'[m].time = clock)
    <3>1. ASSUME NEW f \in CutTTC(Order[next], text), ttc' = [ttc EXCEPT ![Order[next]] = f],
                 m = Order[next]
          PROVE  ttc'[m].state = "cut" /\ ttc'[m].time = clock
      <4>1. ttc'[m] = f
        BY <1>0, <3>1 DEF FilesFormed
      <4>2. QED
        BY <4>1, CutFile
    <3>2. QED
      BY <1>0, <1>7, <3>1 DEF Crash, FilesFormed
  <2>5. \A m \in Mods : /\ ttc'[m].state \in {"none", "whole", "cut"}
                        /\ ttc'[m].time \in 0..clock
                        /\ ttc'[m].state = "whole" => ttc'[m].content \in Contents
    BY <1>0, <2>3, <2>4 DEF TypeOK
  <2>6. QED
    BY <1>0, <2>1, <2>2, <2>5 DEF TypeOK, Control, ClockBound
<1>8. CASE UNCHANGED vars
  BY <1>0, <1>8, TypeFrame DEF vars, disk, run, Control
<1>9. QED
  BY <1>1, <1>2, <1>3, <1>4, <1>5, <1>6, <1>7, <1>8
  DEF Next, Compile, BuildModSkip, ProcessSkip, WriteTTM, Read, ElaborateFails, Elaborate, LoadMain

-----------------------------------------------------------------------------
(* The files *)

LEMMA WriteFacts ==
  ASSUME BuildInv, WriteTTC, NEW m, m = Order[next]
  PROVE  /\ m \in Mods
         /\ Whole(m)' /\ ttc'[m].time = clock /\ ttc'[m].content = text
         /\ ttc'[m].hash = src[m].content
         /\ ttc'[m].imports = ImportHashes(m)
         /\ ttc'[m].iface = Iface(m, text, ImportHashes(m))
         /\ \A n \in Mods : n # m => ttc'[n] = ttc[n]
         /\ ttc' = [n \in Mods |-> ttc'[n]]
         /\ UNCHANGED <<session, src>>
<1>1. m \in Mods
  BY OrderFacts DEF BuildInv, TypeOK
<1>2. ttc = [n \in Mods |-> ttc[n]] /\ ttc' = [ttc EXCEPT ![m] = WholeTTC(m, text)]
  BY DEF BuildInv, FilesFormed, WriteTTC
<1>3. ttc'[m] = WholeTTC(m, text)
  BY <1>1, <1>2
<1>4. QED
  BY <1>1, <1>2, <1>3 DEF WholeTTC, Whole, WriteTTC

LEMMA CutFacts ==
  ASSUME BuildInv, NEW m, m = Order[next], NEW f \in CutTTC(m, text),
         ttc' = [ttc EXCEPT ![m] = f]
  PROVE  /\ m \in Mods
         /\ ttc'[m].state = "cut" /\ ttc'[m].time = clock
         /\ \A n \in Mods : n # m => ttc'[n] = ttc[n]
         /\ ttc' = [n \in Mods |-> ttc'[n]]
<1>1. m \in Mods
  BY OrderFacts DEF BuildInv, TypeOK
<1>2. ttc = [n \in Mods |-> ttc[n]]
  BY DEF BuildInv, FilesFormed
<1>3. QED
  BY <1>1, <1>2, CutFile

LEMMA FormedStep ==
  ASSUME BuildInv, [Next]_vars
  PROVE  FilesFormed'
<1>1. CASE FilesSame
  BY <1>1 DEF FilesSame, BuildInv, FilesFormed, Whole
<1>2. ASSUME NEW m \in Mods, NEW c \in Contents, Edit(m, c) PROVE FilesFormed'
  BY <1>2 DEF Edit, BuildInv, FilesFormed, Whole
<1>3. CASE WriteTTC
  <2>1. PICK m : m = Order[next]
    OBVIOUS
  <2>2. /\ Whole(m)' /\ ttc'[m].content = text
        /\ ttc'[m].imports = ImportHashes(m)
        /\ ttc'[m].iface = Iface(m, text, ImportHashes(m))
        /\ \A n \in Mods : n # m => ttc'[n] = ttc[n]
    BY <1>3, <2>1, WriteFacts
  <2>3. ttc' = [n \in Mods |-> ttc'[n]]
    BY <1>3, <2>1, WriteFacts
  <2>4. src' = [n \in Mods |-> src'[n]]
    BY <1>3 DEF WriteTTC, BuildInv, FilesFormed
  <2>5. ttc'[m].imports = [d \in Imports[m] |-> ttc'[m].imports[d]]
    BY <2>2 DEF ImportHashes
  <2>6. ASSUME NEW n \in Mods
        PROVE  /\ ttc'[n].state = "none" => ttc'[n] = NoTTC
               /\ Whole(n)' =>
                    /\ ttc'[n].imports = [d \in Imports[n] |-> ttc'[n].imports[d]]
                    /\ ttc'[n].iface = Iface(n, ttc'[n].content, ttc'[n].imports)
    <3>1. CASE n = m
      <4>1. ttc'[n].state # "none"
        BY <2>2, <3>1 DEF Whole
      <4>2. ttc'[n].iface = Iface(n, ttc'[n].content, ttc'[n].imports)
        BY <2>2, <3>1
      <4>3. QED
        BY <2>5, <3>1, <4>1, <4>2
    <3>2. CASE n # m
      BY <2>2, <3>2 DEF BuildInv, FilesFormed, Whole
    <3>3. QED
      BY <3>1, <3>2
  <2>7. QED
    BY <2>3, <2>4, <2>6 DEF FilesFormed
<1>4. ASSUME Crash, NEW f \in CutTTC(Order[next], text), ttc' = [ttc EXCEPT ![Order[next]] = f]
      PROVE  FilesFormed'
  <2> DEFINE m == Order[next]
  <2>1. ttc'[m].state = "cut" /\ ttc' = [n \in Mods |-> ttc'[n]]
        /\ \A n \in Mods : n # m => ttc'[n] = ttc[n]
    BY <1>4, CutFacts
  <2>2. src' = [n \in Mods |-> src'[n]]
    BY <1>4 DEF Crash, BuildInv, FilesFormed
  <2> HIDE DEF m
  <2>3. QED
    BY <2>1, <2>2 DEF BuildInv, FilesFormed, Whole
<1>5. QED
  BY <1>1, <1>2, <1>3, <1>4, StepKinds

LEMMA TellStep ==
  ASSUME BuildInv, [Next]_vars
  PROVE  FilesTell'
<1> FilesTell /\ FilesFormed /\ TypeOK
  BY DEF BuildInv
<1>c. clock \in Nat
  BY DEF TypeOK
<1>s. \A n \in Mods : src[n].time \in Nat /\ src[n].time <= clock
  BY <1>c DEF TypeOK
<1>t. \A n \in Mods : ttc[n].time \in Nat /\ ttc[n].time <= clock
  BY <1>c DEF TypeOK
<1>0. /\ FilesTell /\ FilesFormed /\ clock \in Nat
      /\ \A n \in Mods : src[n].time \in Nat /\ src[n].time <= clock
      /\ \A n \in Mods : ttc[n].time \in Nat /\ ttc[n].time <= clock
  BY <1>c, <1>s, <1>t
<1>1. CASE FilesSame
  BY <1>0, <1>1 DEF FilesSame, FilesTell, Whole
<1>2. ASSUME NEW m \in Mods, NEW c \in Contents, Edit(m, c) PROVE FilesTell'
  <2>1. /\ session' = session /\ ttc' = ttc /\ raced' = raced
        /\ risky' = IF ttc[m].time = clock THEN risky \cup {m} ELSE risky \ {m}
        /\ src'[m].time = clock
        /\ \A n \in Mods : n # m => src'[n] = src[n]
    BY <1>0, <1>2 DEF Edit, FilesFormed
  <2>2. ASSUME m \notin risky', src'[m].time <= ttc'[m].time PROVE FALSE
    BY <1>0, <2>1, <2>2
  <2>3. QED
    BY <1>0, <2>1, <2>2 DEF FilesTell, Whole
<1>3. CASE WriteTTC
  <2> DEFINE m == Order[next]
  <2>1. /\ m \in Mods /\ UNCHANGED <<session, src>>
        /\ ttc'[m].time = clock /\ ttc'[m].content = text /\ ttc'[m].hash = src[m].content
        /\ ttc'[m].imports = ImportHashes(m)
        /\ \A n \in Mods : n # m => ttc'[n] = ttc[n]
    BY <1>3, WriteFacts
  <2>2. /\ risky' = IF racing THEN risky \cup {m} ELSE risky \ {m}
        /\ raced' = IF racing THEN raced \cup {m} ELSE raced \ {m}
        /\ stage = "write_ttc"
    BY <1>3 DEF WriteTTC
  <2>3. ~racing => text = src[m].content
    BY <2>2 DEF BuildInv, TextInv
  <2>4. \A d \in Imports[m] : d \in Mods /\ d # m /\ ttc'[m].imports[d] = ttc'[d].iface
    BY <2>1, OrderFacts DEF ImportHashes
  <2> HIDE DEF m
  <2>5. ASSUME NEW n \in Mods, Whole(n)', session.hashes, n \notin raced'
        PROVE  ttc'[n].content = ttc'[n].hash
    BY <1>0, <2>1, <2>2, <2>3, <2>5 DEF FilesTell, Whole
  <2>6. ASSUME NEW n \in Mods, Whole(n)', ~session.hashes, n \notin risky',
               src'[n].time <= ttc'[n].time
        PROVE  ttc'[n].content = src'[n].content
    <3>1. CASE n = m
      BY <2>1, <2>2, <2>3, <2>6, <3>1
    <3>2. CASE n # m
      BY <1>0, <2>1, <2>2, <2>6, <3>2 DEF FilesTell, Whole
    <3>3. QED
      BY <3>1, <3>2
  <2>7. ASSUME NEW n \in Mods, Whole(n)', ~session.hashes, NEW d \in Imports[n],
               ttc'[d].time < ttc'[n].time
        PROVE  ttc'[n].imports[d] = ttc'[d].iface
    <3>1. CASE n = m
      BY <2>4, <3>1
    <3>2. CASE n # m
      <4>1. d \in Mods /\ ttc'[n] = ttc[n] /\ Whole(n)
        BY <2>1, <2>7, <3>2, OrderFacts DEF Whole
      <4>2. d # m
        BY <1>0, <2>1, <2>7, <4>1
      <4>3. ttc'[d] = ttc[d]
        BY <2>1, <4>1, <4>2
      <4>4. QED
        BY <1>0, <2>7, <4>1, <4>3 DEF FilesTell
    <3>3. QED
      BY <3>1, <3>2
  <2>8. QED
    BY <2>1, <2>5, <2>6, <2>7 DEF FilesTell
<1>4. ASSUME Crash, NEW f \in CutTTC(Order[next], text), ttc' = [ttc EXCEPT ![Order[next]] = f]
      PROVE  FilesTell'
  <2> DEFINE m == Order[next]
  <2>1. /\ ttc'[m].state = "cut" /\ ttc'[m].time = clock
        /\ \A n \in Mods : n # m => ttc'[n] = ttc[n]
    BY <1>4, CutFacts
  <2>2. UNCHANGED <<session, src, risky, raced>>
    BY <1>4 DEF Crash
  <2> HIDE DEF m
  <2>3. ASSUME NEW n \in Mods, Whole(n)' PROVE n # m /\ Whole(n) /\ ttc'[n] = ttc[n]
    BY <2>1, <2>3 DEF Whole
  <2>4. ASSUME NEW n \in Mods, Whole(n)', ~session.hashes, NEW d \in Imports[n],
               ttc'[d].time < ttc'[n].time
        PROVE  ttc'[n].imports[d] = ttc'[d].iface
    <3>1. d \in Mods /\ ttc'[n] = ttc[n] /\ Whole(n)
      BY <2>3, <2>4, OrderFacts
    <3>2. d # m
      BY <1>0, <2>1, <2>4, <3>1
    <3>3. QED
      BY <1>0, <2>1, <2>4, <3>1, <3>2 DEF FilesTell
  <2>5. QED
    BY <1>0, <2>2, <2>3, <2>4 DEF FilesTell
<1>5. QED
  BY <1>1, <1>2, <1>3, <1>4, StepKinds

-----------------------------------------------------------------------------
(* The modules dealt with *)

\* The imports of a module come before it.
LEMMA EarlierImports ==
  ASSUME NEW i \in 1..Len(Order), NEW d \in Imports[Order[i]]
  PROVE  d \in Mods /\ \E j \in 1..Len(Order) : Order[j] = d /\ j < i
BY OrderFacts

LEMMA SkipUpToDate ==
  ASSUME BuildInv, NEW m \in Mods, SourceUnchanged(m)
  PROVE  ttc[m].state # "none"
<1>1. ttc[m].state = "none" => ttc[m] = NoTTC
  BY DEF BuildInv, FilesFormed
<1>2. src[m].content # NoContent
  <2>1. src[m].content \in Contents
    BY DEF BuildInv, TypeOK
  <2>2. QED
    BY <2>1, BuildAssumption
<1>3. src[m].time >= 1 /\ src[m].time \in Nat
  <2>1. clock \in Nat /\ src[m].time \in 1..clock
    BY DEF BuildInv, TypeOK
  <2>2. QED
    BY <2>1
<1>4. NoTTC.time = 0 /\ NoTTC.hash = NoContent
  BY DEF NoTTC
<1>5. ASSUME ttc[m] = NoTTC PROVE FALSE
  <2>1. src[m].content = NoContent \/ src[m].time <= 0
    BY <1>4, <1>5 DEF SourceUnchanged
  <2>2. QED
    BY <1>2, <1>3, <2>1
<1>6. QED
  BY <1>1, <1>5

\* A module that is passed over by the test of buildMod or of processMod.
LEMMA SkippedIsDone ==
  ASSUME BuildInv, BuildModSkip \/ ProcessSkip, NEW m, m = Order[next]
  PROVE  /\ ttc[m].state # "none" /\ SourceUnchanged(m)
         /\ Whole(m) /\ ~session.srcdir => ttc[m].imports = ImportHashes(m)
<1>1. m \in Mods /\ next \in 1..Len(Order) /\ FilesFormed /\ FilesTell /\ DoneInv
      /\ SessionOK
  BY OrderFacts DEF BuildInv, TypeOK
<1>2. CASE ProcessSkip
  <2>1. SourceUnchanged(m) /\ ImportHashes(m) = ttc[m].imports
    BY <1>2 DEF ProcessSkip, Unchanged
  <2>2. QED
    BY <1>1, <2>1, SkipUpToDate
<1>3. CASE BuildModSkip
  <2>1. stage = "check" /\ ~NeedsBuilding(m)
    BY <1>3 DEF BuildModSkip
  <2>2. \A d \in Mods : src[m].time \in Nat /\ ttc[d].time \in Nat
    <3>1. clock \in Nat
      BY DEF BuildInv, TypeOK
    <3>2. src[m].time \in Nat
      BY <1>1, <3>1 DEF BuildInv, TypeOK
    <3>3. \A d \in Mods : ttc[d].time \in Nat
      BY <3>1 DEF BuildInv, TypeOK
    <3>4. QED
      BY <3>2, <3>3
  <2>3. SourceUnchanged(m)
    BY <1>1, <2>1, <2>2 DEF NeedsBuilding, NeedsBuildingTime, NeedsBuildingHash, SourceUnchanged
  <2>4. ASSUME Whole(m), ~session.srcdir PROVE ttc[m].imports = ImportHashes(m)
    <3>1. ttc[m].imports = [d \in Imports[m] |-> ttc[m].imports[d]]
      BY <1>1, <2>4 DEF FilesFormed
    <3>2. ASSUME NEW d \in Imports[m] PROVE ttc[m].imports[d] = ttc[d].iface
      <4>1. PICK j \in 1..Len(Order) : Order[j] = d /\ j < next
        BY <1>1, EarlierImports
      <4>2. d \in Mods /\ ttc[d].state # "none"
        BY <1>1, <2>1, <4>1, OrderFacts DEF DoneInv, Passed
      <4>3. ~session.hashes
        BY <2>1, <2>4, <4>2 DEF NeedsBuilding, NeedsBuildingHash, CheckDepHashes
      <4>4. ttc[d].time < ttc[m].time
        BY <1>1, <2>1, <2>2, <4>2, <4>3 DEF NeedsBuilding, NeedsBuildingTime
      <4>5. QED
        BY <1>1, <2>4, <4>3, <4>4 DEF FilesTell
    <3>3. QED
      BY <3>1, <3>2 DEF ImportHashes
  <2>5. QED
    BY <1>1, <2>3, <2>4, SkipUpToDate
<1>4. QED
  BY <1>2, <1>3

LEMMA DoneFrame ==
  ASSUME DoneInv, FilesSame, Passed' \subseteq Passed, quiet' => quiet
  PROVE  DoneInv'
BY DEF DoneInv, FilesSame, SourceUnchanged, ImportHashes, Whole

LEMMA DoneStep ==
  ASSUME BuildInv, [Next]_vars
  PROVE  DoneInv'
<1>0. DoneInv /\ next \in 1..Len(Order) /\ stage \in Stages
  BY DEF BuildInv, TypeOK
<1>n. Len(Order) \in Nat /\ next \in Nat
  BY <1>0, OrderFacts
<1>1. ASSUME UNCHANGED <<session, src, ttc, risky, raced, quiet, stage, next, result>>
      PROVE  DoneInv'
  BY <1>0, <1>1, DoneFrame DEF FilesSame, Passed
<1>2. ASSUME NEW m \in Mods, NEW c \in Contents, Edit(m, c) PROVE DoneInv'
  <2>1. Passed' = Passed /\ ttc' = ttc /\ ~quiet' /\ session' = session
    BY <1>2 DEF Edit, Passed, run
  <2>2. QED
    BY <1>0, <2>1 DEF DoneInv, ImportHashes, Whole
<1>3. CASE StartBuild
  <2>1. Passed' = {}
    BY <1>3, <1>n DEF StartBuild, Passed
  <2>2. QED
    BY <2>1 DEF DoneInv
<1>4. CASE BuildModSkip \/ ProcessSkip
  <2>1. FilesSame /\ quiet' = quiet /\ Advance /\ stage \in {"check", "elaborate"}
    BY <1>4 DEF BuildModSkip, ProcessSkip, Quietly, FilesSame
  <2>2. Passed' \subseteq Passed \cup {next}
    BY <1>0, <1>n, <2>1 DEF Passed, Advance
  <2>3. PICK m : m = Order[next]
    OBVIOUS
  <2>4. /\ ttc[m].state # "none" /\ SourceUnchanged(m)
        /\ Whole(m) /\ ~session.srcdir => ttc[m].imports = ImportHashes(m)
    BY <1>4, <2>3, SkippedIsDone
  <2>5. \A i \in Passed' :
          /\ ttc[Order[i]].state # "none"
          /\ quiet => SourceUnchanged(Order[i])
          /\ Whole(Order[i]) /\ ~session.srcdir =>
               ttc[Order[i]].imports = ImportHashes(Order[i])
    BY <1>0, <2>2, <2>3, <2>4 DEF DoneInv
  <2>6. QED
    BY <2>1, <2>5 DEF DoneInv, FilesSame, SourceUnchanged, ImportHashes, Whole
<1>5. CASE Read \/ Elaborate
  <2>1. FilesSame /\ quiet' = quiet /\ next' = next
        /\ stage \in {"check", "elaborate"} /\ stage' \in {"elaborate", "write_ttc"}
    BY <1>5 DEF Read, Elaborate, Quietly, FilesSame
  <2>2. Passed' \subseteq Passed
    BY <2>1 DEF Passed
  <2>3. QED
    BY <1>0, <2>1, <2>2, DoneFrame
<1>6. CASE ElaborateFails \/ (Crash /\ ttc' = ttc)
  <2>1. FilesSame /\ quiet' = quiet /\ stage' = "idle" /\ result' # "ok"
    BY <1>6 DEF ElaborateFails, Crash, GiveUp, Quietly, FilesSame
  <2>2. Passed' = {}
    BY <2>1 DEF Passed
  <2>3. QED
    BY <2>2 DEF DoneInv
<1>7. CASE WriteTTM
  <2>1. FilesSame /\ quiet' = quiet /\ Advance /\ stage = "write_ttm"
    BY <1>7 DEF WriteTTM, Quietly, FilesSame
  <2>2. Passed' \subseteq Passed
    BY <1>0, <1>n, <2>1 DEF Passed, Advance
  <2>3. QED
    BY <1>0, <2>1, <2>2, DoneFrame
<1>8. CASE LoadMain
  <2>1. FilesSame /\ quiet' = quiet /\ Passed' \subseteq Passed
    BY <1>8 DEF LoadMain, Quietly, FilesSame, Passed
  <2>2. QED
    BY <1>0, <2>1, DoneFrame
<1>9. CASE WriteTTC
  <2>1. PICK m : m = Order[next]
    OBVIOUS
  <2>2. /\ m \in Mods /\ UNCHANGED <<session, src>>
        /\ Whole(m)' /\ ttc'[m].time = clock /\ ttc'[m].hash = src[m].content
        /\ ttc'[m].imports = ImportHashes(m)
        /\ \A n \in Mods : n # m => ttc'[n] = ttc[n]
    BY <1>9, <2>1, WriteFacts
  <2>3. stage = "write_ttc" /\ stage' = "write_ttm" /\ next' = next /\ quiet' = quiet
    BY <1>9 DEF WriteTTC
  <2>4. src[m].time <= clock
    BY <2>2 DEF BuildInv, TypeOK
  <2>5. SourceUnchanged(m)'
    BY <2>2, <2>4 DEF SourceUnchanged
  <2>6. ASSUME NEW i \in 1..Len(Order), i <= next
        PROVE  ImportHashes(Order[i])' = ImportHashes(Order[i])
    <3>1. \A d \in Imports[Order[i]] : d \in Mods /\ d # m
      BY <1>0, <1>n, <2>1, <2>6, EarlierImports, OrderFacts
    <3>2. \A d \in Imports[Order[i]] : ttc'[d].iface = ttc[d].iface
      BY <2>2, <3>1
    <3>3. QED
      BY <3>2 DEF ImportHashes
  <2>7. ASSUME NEW i \in Passed'
        PROVE  /\ ttc'[Order[i]].state # "none"
               /\ quiet' => SourceUnchanged(Order[i])'
               /\ Whole(Order[i])' /\ ~session'.srcdir =>
                    ttc'[Order[i]].imports = ImportHashes(Order[i])'
    <3>1. i \in 1..Len(Order) /\ i <= next
      BY <1>n, <2>3, <2>7 DEF Passed
    <3>2. CASE i = next
      <4>1. ImportHashes(m)' = ImportHashes(m)
        BY <2>1, <2>6, <3>1, <3>2
      <4>2. QED
        BY <2>1, <2>2, <2>5, <3>2, <4>1 DEF Whole
    <3>3. CASE i # next
      <4>1. i \in Passed
        BY <1>n, <2>3, <3>1, <3>3 DEF Passed
      <4>2. Order[i] \in Mods /\ Order[i] # m
        BY <1>0, <2>1, <3>1, <3>3, OrderFacts
      <4>3. ttc'[Order[i]] = ttc[Order[i]]
        BY <2>2, <4>2
      <4>4. quiet => SourceUnchanged(Order[i])'
        BY <1>0, <2>2, <4>1, <4>3 DEF DoneInv, SourceUnchanged
      <4>5. QED
        BY <1>0, <2>2, <2>3, <2>6, <3>1, <4>1, <4>3, <4>4 DEF DoneInv, Whole
    <3>4. QED
      BY <3>2, <3>3
  <2>8. QED
    BY <2>7 DEF DoneInv
<1>10. CASE Crash /\ ttc' # ttc
  <2>1. Passed' = {}
    BY <1>10 DEF Passed, Crash
  <2>2. QED
    BY <2>1 DEF DoneInv
<1>11. CASE Tick
  BY <1>1, <1>11 DEF Tick, disk, run
<1>12. CASE UNCHANGED vars
  BY <1>1, <1>12 DEF vars, disk, run
<1>13. QED
  BY <1>2, <1>3, <1>4, <1>5, <1>6, <1>7, <1>8, <1>9, <1>10, <1>11, <1>12 DEF Next, Compile

-----------------------------------------------------------------------------
(* The module in work, and files that were cut short *)

Working == {"elaborate", "write_ttc", "write_ttm"}

LEMMA TextStep ==
  ASSUME BuildInv, [Next]_vars
  PROVE  TextInv'
<1>0. TextInv /\ Order[next] \in Mods /\ FilesFormed
  BY OrderFacts DEF BuildInv, TypeOK
<1>1. ASSUME stage' \notin Working PROVE TextInv'
  BY <1>1 DEF TextInv, Working
<1>2. ASSUME UNCHANGED <<src, ttc, stage, next, text, quiet, racing>> PROVE TextInv'
  BY <1>0, <1>2 DEF TextInv, Whole
<1>3. ASSUME NEW m \in Mods, NEW c \in Contents, Edit(m, c) PROVE TextInv'
  <2>1. /\ ttc' = ttc /\ UNCHANGED run /\ ~quiet'
        /\ racing' = (racing \/ (stage \in {"elaborate", "write_ttc"} /\ Order[next] = m))
        /\ \A n \in Mods : n # m => src'[n] = src[n]
    BY <1>0, <1>3 DEF Edit, FilesFormed
  <2>2. QED
    BY <1>0, <2>1 DEF TextInv, Whole, run
<1>4. CASE BuildModSkip \/ ProcessSkip \/ WriteTTM
  <2>1. stage' \in {"check", "load"}
    BY <1>4 DEF BuildModSkip, ProcessSkip, WriteTTM, Advance
  <2>2. QED
    BY <1>1, <2>1 DEF Working
<1>5. CASE Read
  <2>1. /\ stage' = "elaborate" /\ next' = next /\ src' = src
        /\ text' = src[Order[next]].content /\ src[Order[next]].content \in Contents
    BY <1>0, <1>5 DEF Read, Quietly, BuildInv, TypeOK
  <2>2. QED
    BY <2>1 DEF TextInv
<1>6. CASE Elaborate
  <2>1. /\ stage = "elaborate" /\ stage' = "write_ttc"
        /\ UNCHANGED <<src, next, text, quiet, racing>>
    BY <1>6 DEF Elaborate, Quietly
  <2>2. QED
    BY <1>0, <2>1 DEF TextInv
<1>7. CASE WriteTTC
  <2>1. stage = "write_ttc" /\ stage' = "write_ttm" /\ UNCHANGED <<next, text>>
    BY <1>7 DEF WriteTTC
  <2>2. PICK m : m = Order[next]
    OBVIOUS
  <2>3. Whole(m)' /\ ttc'[m].content = text
    BY <1>7, <2>2, WriteFacts
  <2>4. QED
    BY <1>0, <2>1, <2>2, <2>3 DEF TextInv, Whole
<1>8. CASE StartBuild \/ ElaborateFails \/ LoadMain \/ Crash
  <2>1. stage' \in {"check", "idle"}
    BY <1>8 DEF StartBuild, ElaborateFails, GiveUp, LoadMain, Crash
  <2>2. QED
    BY <1>1, <2>1 DEF Working
<1>9. CASE Tick \/ UNCHANGED vars
  BY <1>2, <1>9 DEF Tick, vars, disk, run
<1>10. QED
  BY <1>3, <1>4, <1>5, <1>6, <1>7, <1>8, <1>9 DEF Next, Compile

LEMMA CrashStep ==
  ASSUME BuildInv, [Next]_vars
  PROVE  CrashInv'
<1>0. CrashInv /\ TextInv /\ FilesFormed /\ Order[next] \in Mods
      /\ ttm = [n \in Mods |-> ttm[n]]
  BY OrderFacts DEF BuildInv, TypeOK
<1>1. ASSUME UNCHANGED <<ttc, ttm, crashes>>, UNCHANGED <<stage, next>> \/ stage # "write_ttm"
      PROVE  CrashInv'
  BY <1>0, <1>1 DEF CrashInv
<1>2. CASE WriteTTC
  <2>1. /\ stage = "write_ttc" /\ stage' = "write_ttm"
        /\ UNCHANGED <<next, ttm, crashes>>
    BY <1>2 DEF WriteTTC
  <2>2. PICK m : m = Order[next]
    OBVIOUS
  <2>3. ttc'[m].state = "whole" /\ \A n \in Mods : n # m => ttc'[n] = ttc[n]
    BY <1>2, <2>2, WriteFacts DEF Whole
  <2>4. QED
    BY <1>0, <2>1, <2>2, <2>3 DEF CrashInv
<1>3. CASE WriteTTM
  <2>1. /\ stage = "write_ttm" /\ UNCHANGED <<ttc, crashes>>
        /\ ttm' = [ttm EXCEPT ![Order[next]] = text]
    BY <1>3 DEF WriteTTM, Quietly
  <2>2. ttm'[Order[next]] = ttc[Order[next]].content
    BY <1>0, <2>1 DEF TextInv
  <2>3. \A n \in Mods : n # Order[next] => ttm'[n] = ttm[n]
    BY <1>0, <2>1
  <2>4. QED
    BY <1>0, <2>1, <2>2, <2>3 DEF CrashInv
<1>4. CASE Crash
  <2>1. crashes' = crashes + 1 /\ crashes \in Nat
    BY <1>0, <1>4 DEF Crash, CrashInv
  <2>2. QED
    BY <2>1 DEF CrashInv
<1>5. ASSUME NEW m \in Mods, NEW c \in Contents, Edit(m, c) PROVE CrashInv'
  BY <1>1, <1>5 DEF Edit, run
<1>6. CASE Compile /\ ~WriteTTC /\ ~WriteTTM
  BY <1>1, <1>6 DEF Compile, BuildModSkip, Read, ProcessSkip, ElaborateFails, Elaborate,
                    LoadMain, Quietly
<1>7. CASE Tick \/ StartBuild \/ UNCHANGED vars
  BY <1>1, <1>7 DEF Tick, StartBuild, vars, disk, run
<1>8. QED
  BY <1>2, <1>3, <1>4, <1>5, <1>6, <1>7 DEF Next

\* Elaborate is the way to the writing of a module.
LEMMA OutdatedStep ==
  ASSUME BuildInv, [Next]_vars, stage' = "write_ttc"
  PROVE  Outdated(Order[next])'
<1>0. PICK m : m = Order[next]
  OBVIOUS
<1>1. /\ m \in Mods /\ FilesFormed
      /\ stage = "write_ttc" => Outdated(m)
  BY <1>0, OrderFacts DEF BuildInv, TypeOK
<1>2. src[m].time \in Nat /\ ttc[m].time \in Nat /\ clock \in Nat /\ src[m].time <= clock
  <2>1. clock \in Nat /\ src[m].time \in 1..clock /\ ttc[m].time \in 0..clock
    BY <1>1 DEF BuildInv, TypeOK
  <2>2. QED
    BY <2>1
<1>3. CASE UNCHANGED <<session, src, ttc, stage, next, racing>>
  BY <1>0, <1>1, <1>3 DEF Outdated, ImportHashes
<1>4. CASE Elaborate
  <2>1. ~Unchanged(m) /\ UNCHANGED <<session, src, ttc, next, racing>>
    BY <1>0, <1>4 DEF Elaborate, Quietly
  <2>2. Outdated(m)
    BY <1>2, <2>1 DEF Unchanged, SourceUnchanged, Outdated
  <2>3. QED
    BY <1>0, <2>1, <2>2 DEF Outdated, ImportHashes
<1>5. ASSUME NEW n \in Mods, NEW c \in Contents, Edit(n, c)
      PROVE  Outdated(Order[next])'
  <2>1. /\ UNCHANGED <<session, ttc, stage, next>>
        /\ racing' = (racing \/ (stage \in {"elaborate", "write_ttc"} /\ Order[next] = n))
        /\ src'[n].time = clock
        /\ n # m => src'[m] = src[m]
    BY <1>1, <1>5 DEF Edit, FilesFormed, run
  <2>2. Outdated(m) /\ stage = "write_ttc"
    BY <1>1, <2>1
  <2>3. CASE n = m
    <3>1. racing'
      BY <1>0, <2>1, <2>2, <2>3
    <3>2. src[m].time > ttc[m].time => src'[m].time > ttc'[m].time
      BY <1>2, <2>1, <2>3
    <3>3. QED
      BY <1>0, <2>1, <2>2, <3>1, <3>2 DEF Outdated, ImportHashes
  <2>4. CASE n # m
    BY <1>0, <2>1, <2>2, <2>4 DEF Outdated, ImportHashes
  <2>5. QED
    BY <2>3, <2>4
<1>6. CASE Tick \/ UNCHANGED vars
  BY <1>3, <1>6 DEF Tick, vars, disk, run
<1>7. CASE StartBuild \/ Crash \/ (Compile /\ ~Elaborate)
  BY <1>7 DEF StartBuild, Crash, Compile, BuildModSkip, Read, ProcessSkip, ElaborateFails,
              GiveUp, WriteTTC, WriteTTM, LoadMain, Advance
<1>8. QED
  BY <1>4, <1>5, <1>6, <1>7 DEF Next

-----------------------------------------------------------------------------
(* How a run ends *)

LEMMA MainReachesAll == Closure({Main}, Imports) = Mods
<1>1. ASSUME NEW m \in Mods, NEW T \in SUBSET Mods,
             {Main} \subseteq T, \A d \in T : Imports[d] \subseteq T
      PROVE  m \in T
  BY <1>1, BuildAssumption
<1>2. QED
  BY <1>1 DEF Closure

\* What a module loads are modules that were dealt with before it.
LEMMA LoadsEarlier ==
  ASSUME NEW k \in 1..Len(Order), NEW d \in Closure(Imports[Order[k]], Reexports)
  PROVE  \E j \in 1..Len(Order) : j < k /\ Order[j] = d
<1> DEFINE T == {Order[j] : j \in {j \in 1..Len(Order) : j < k}}
<1>1. T \in SUBSET Mods
  BY OrderFacts
<1>2. Imports[Order[k]] \subseteq T
  BY EarlierImports
<1>3. ASSUME NEW e \in T, NEW f \in Reexports[e] PROVE f \in T
  <2>1. PICK j \in 1..Len(Order) : j < k /\ Order[j] = e
    OBVIOUS
  <2>2. f \in Imports[Order[j]]
    BY <2>1, OrderFacts
  <2>3. PICK i \in 1..Len(Order) : Order[i] = f /\ i < j
    BY <2>2, EarlierImports
  <2>4. i < k
    BY <2>1, <2>3, OrderFacts
  <2>5. QED
    BY <2>3, <2>4
<1>4. d \in T
  BY <1>1, <1>2, <1>3 DEF Closure
<1>5. QED
  BY <1>4

\* What a module loads includes what its imports re-export.
LEMMA LoadsClosed ==
  ASSUME NEW m \in Mods
  PROVE  /\ Loads(m) \subseteq Mods
         /\ Imports[m] \subseteq Loads(m)
         /\ \A e \in Loads(m) : Reexports[e] \subseteq Loads(m)
         /\ \A T \in SUBSET Mods :
              Imports[m] \subseteq T /\ (\A e \in T : Reexports[e] \subseteq T) => Loads(m) \subseteq T
<1>1. \A n \in Mods : Reexports[n] \subseteq Mods /\ Imports[n] \subseteq Mods
  BY OrderFacts
<1>2. QED
  BY <1>1 DEF Loads, Closure

\* A module that was dealt with has the interfaces recorded that are on disk.
LEMMA PassedIface ==
  ASSUME BuildInv, NEW i \in Passed, Whole(Order[i]), ~session.srcdir
  PROVE  ttc[Order[i]].iface[2] = [f \in Reexports[Order[i]] |-> ttc[f].iface]
<1>1. PICK m : m = Order[i]
  OBVIOUS
<1>2. m \in Mods
  BY <1>1, OrderFacts DEF Passed
<1>3. ttc[m].imports = ImportHashes(m) /\ ttc[m].iface = Iface(m, ttc[m].content, ttc[m].imports)
  BY <1>1, <1>2 DEF BuildInv, DoneInv, FilesFormed
<1>4. ttc[m].iface[2] = [f \in Reexports[m] |-> ImportHashes(m)[f]]
  BY <1>3 DEF Iface
<1>5. \A f \in Reexports[m] : ImportHashes(m)[f] = ttc[f].iface
  BY <1>2, OrderFacts DEF ImportHashes
<1>6. QED
  BY <1>1, <1>4, <1>5

LEMMA FitsStep ==
  ASSUME BuildInv, [Next]_vars
  PROVE  FitsInv'
<1>0. FitsInv /\ next \in 1..Len(Order) /\ Order[next] \in Mods
  BY OrderFacts DEF BuildInv, TypeOK
<1>1. ASSUME UNCHANGED <<session, ttc>>, stage' # "write_ttc" \/ UNCHANGED <<stage, next, text>>
      PROVE  FitsInv'
  BY <1>0, <1>1 DEF FitsInv, Whole, SawIfaces, ElaboratesOk, Loadable
<1>2. CASE Elaborate
  <2>1. ElaboratesOk(Order[next]) /\ UNCHANGED <<session, next, text, ttc>>
    BY <1>2 DEF Elaborate, Quietly
  <2>2. QED
    BY <1>0, <2>1 DEF FitsInv, Whole, SawIfaces, ElaboratesOk, Loadable
<1>3. CASE WriteTTC
  <2>1. stage = "write_ttc" /\ stage' = "write_ttm" /\ session' = session
    BY <1>3 DEF WriteTTC
  <2>2. PICK m : m = Order[next] /\ m \in Mods
    BY <1>0
  <2>3. /\ ttc'[m].content = text /\ ttc'[m].imports = ImportHashes(m)
        /\ \A n \in Mods : n # m => ttc'[n] = ttc[n]
    BY <1>3, <2>2, WriteFacts
  <2>4. Loadable(Loads(m)) /\ Fits(text, [d \in Loads(m) |-> ttc[d].iface])
    BY <1>0, <2>1, <2>2 DEF FitsInv, ElaboratesOk
  <2>5. ASSUME ~session.srcdir PROVE \E seen : SawIfaces(m, seen)'
    <3>0. PICK seen : seen = [d \in Mods |-> ttc[d].iface]
      OBVIOUS
    <3>1. Loads(m) \subseteq Mods /\ Imports[m] \subseteq Mods
      BY <2>2, LoadsClosed, OrderFacts
    <3>2. ASSUME NEW e \in Loads(m)
          PROVE  seen[e][2] = [f \in Reexports[e] |-> seen[f]]
      <4>1. PICK j \in 1..Len(Order) : j < next /\ Order[j] = e
        BY <1>0, <2>2, LoadsEarlier DEF Loads
      <4>2. j \in Passed
        BY <2>1, <4>1 DEF Passed
      <4>3. Whole(e)
        BY <2>4 DEF Loadable, Whole
      <4>4. ttc[e].iface[2] = [f \in Reexports[e] |-> ttc[f].iface]
        BY <2>5, <4>1, <4>2, <4>3, PassedIface
      <4>5. e \in Mods /\ Reexports[e] \subseteq Mods
        BY <3>1, OrderFacts
      <4>6. QED
        BY <3>0, <4>4, <4>5
    <3>3. ttc'[m].imports = [d \in Imports[m] |-> seen[d]]
      BY <2>3, <3>0, <3>1 DEF ImportHashes
    <3>4. [d \in Loads(m) |-> ttc[d].iface] = [d \in Loads(m) |-> seen[d]]
      BY <3>0, <3>1
    <3>5. Fits(text, [d \in Loads(m) |-> seen[d]])
      BY <2>4, <3>4
    <3>6. SawIfaces(m, seen)'
      BY <2>3, <3>2, <3>3, <3>5 DEF SawIfaces
    <3>7. QED
      BY <3>6
  <2>6. ASSUME ~session.srcdir, NEW n \in Mods, Whole(n)'
        PROVE  \E seen : SawIfaces(n, seen)'
    <3>1. CASE n = m
      BY <2>5, <2>6, <3>1
    <3>2. CASE n # m
      <4>1. ttc'[n] = ttc[n]
        BY <2>3, <3>2
      <4>2. PICK seen : SawIfaces(n, seen)
        BY <1>0, <2>6, <4>1 DEF FitsInv, Whole
      <4>3. SawIfaces(n, seen)'
        BY <4>1, <4>2 DEF SawIfaces
      <4>4. QED
        BY <4>3
    <3>3. QED
      BY <3>1, <3>2
  <2>7. QED
    BY <2>1, <2>6 DEF FitsInv
<1>4. ASSUME Crash, NEW f \in CutTTC(Order[next], text), ttc' = [ttc EXCEPT ![Order[next]] = f]
      PROVE  FitsInv'
  <2> DEFINE m == Order[next]
  <2>1. /\ ttc'[m].state = "cut"
        /\ \A n \in Mods : n # m => ttc'[n] = ttc[n]
    BY <1>4, CutFacts
  <2>2. session' = session /\ stage' = "idle"
    BY <1>4 DEF Crash
  <2> HIDE DEF m
  <2>3. ASSUME NEW n \in Mods, Whole(n)', ~session.srcdir
        PROVE  \E seen : SawIfaces(n, seen)'
    <3>1. ttc'[n] = ttc[n] /\ Whole(n)
      BY <2>1, <2>3 DEF Whole
    <3>2. PICK seen : SawIfaces(n, seen)
      BY <1>0, <2>3, <3>1 DEF FitsInv
    <3>3. SawIfaces(n, seen)'
      BY <3>1, <3>2 DEF SawIfaces
    <3>4. QED
      BY <3>3
  <2>4. QED
    BY <2>2, <2>3 DEF FitsInv
<1>5. CASE Crash /\ ttc' = ttc
  BY <1>1, <1>5 DEF Crash
<1>6. ASSUME NEW m \in Mods, NEW c \in Contents, Edit(m, c) PROVE FitsInv'
  BY <1>1, <1>6 DEF Edit, run
<1>7. CASE StartBuild \/ (Compile /\ ~Elaborate /\ ~WriteTTC)
  BY <1>1, <1>7 DEF StartBuild, Compile, BuildModSkip, Read, ProcessSkip, ElaborateFails,
                    GiveUp, WriteTTM, LoadMain, Quietly, Advance, disk
<1>8. CASE Tick \/ UNCHANGED vars
  BY <1>1, <1>8 DEF Tick, vars, disk, run
<1>9. CASE Crash
  BY <1>4, <1>5, <1>9 DEF Crash
<1>10. QED
  BY <1>2, <1>3, <1>6, <1>7, <1>8, <1>9 DEF Next

LEMMA WholeStep ==
  ASSUME BuildInv, [Next]_vars, stage' = "idle", result' = "ok"
  PROVE  \A m \in Mods : Whole(m)'
<1>1. CASE UNCHANGED <<ttc, stage, result>>
  BY <1>1 DEF BuildInv, Whole
<1>2. CASE LoadMain
  <2>1. MainLoads /\ ttc' = ttc
    BY <1>2 DEF LoadMain
  <2>2. QED
    BY <2>1, MainReachesAll DEF MainLoads, Loadable, Whole
<1>3. CASE Tick \/ UNCHANGED vars
  BY <1>1, <1>3 DEF Tick, vars, disk, run
<1>4. ASSUME NEW m \in Mods, NEW c \in Contents, Edit(m, c)
      PROVE  UNCHANGED <<ttc, stage, result>>
  BY <1>4 DEF Edit, run
<1>5. CASE StartBuild \/ Crash \/ (Compile /\ ~LoadMain)
  BY <1>5 DEF StartBuild, Crash, Compile, BuildModSkip, Read, ProcessSkip, ElaborateFails,
              GiveUp, Elaborate, WriteTTC, WriteTTM, Advance
<1>6. QED
  BY <1>1, <1>2, <1>3, <1>4, <1>5 DEF Next

\* A module that was dealt with and cannot be loaded was cut short by a crash.
LEMMA PassedNotWhole ==
  ASSUME BuildInv, NEW i \in Passed, ~Whole(Order[i])
  PROVE  Order[i] \in Mods /\ ttc[Order[i]].state = "cut" /\ crashes > 0
<1>1. i \in 1..Len(Order)
  BY DEF Passed
<1>2. Order[i] \in Mods
  BY <1>1, OrderFacts
<1>3. ttc[Order[i]].state \in {"none", "whole", "cut"}
  BY <1>2 DEF BuildInv, TypeOK
<1>4. ttc[Order[i]].state = "cut"
  BY <1>3 DEF BuildInv, DoneInv, Whole
<1>5. crashes > 0
  BY <1>2, <1>4 DEF BuildInv, CrashInv
<1>6. QED
  BY <1>2, <1>4, <1>5

(* The interfaces that the sources give *)

LEMMA IfacesDefined ==
  \A i \in 0..Len(Order) :
    IfacesUpTo[i] = IF i = 0 THEN [m \in Mods |-> NoIface]
                    ELSE [IfacesUpTo[i - 1] EXCEPT ![Order[i]] =
                            Iface(Order[i], src[Order[i]].content, IfacesUpTo[i - 1])]
<1> DEFINE L == Len(Order)
           Entry(g, i) == IF i = 0 THEN [m \in Mods |-> NoIface]
                          ELSE [g[i - 1] EXCEPT ![Order[i]] =
                                  Iface(Order[i], src[Order[i]].content, g[i - 1])]
           Body(g, n) == [i \in 0..n |-> Entry(g, i)]
           Bad == {n \in 0..L : ~\E g : g = Body(g, n)}
           R == {ss \in Nat \X Nat : ss[1] < ss[2]}
<1>1. L \in Nat /\ L >= 1
  BY OrderFacts
<1>2. Bad = {}
  <2> SUFFICES ASSUME Bad # {} PROVE FALSE
    OBVIOUS
  <2>1. Bad \subseteq Nat
    BY <1>1
  <2>2. IsWellFoundedOn(R, Nat)
    BY NatLessThanWellFounded DEF OpToRel
  <2>3. PICK x \in Bad : \A y \in Bad : <<y, x>> \notin R
    <3> HIDE DEF R, Bad
    <3> QED  BY <2>1, <2>2, WFMin
  <2>4. x \in 0..L /\ ~\E g : g = Body(g, x)
    BY <2>3
  <2>5. x # 0
    <3>1. Body(<<>>, 0) = Body(Body(<<>>, 0), 0)
      OBVIOUS
    <3>2. QED
      BY <2>4, <3>1
  <2>6. x - 1 \in 0..L /\ x - 1 \in Nat /\ x \in Nat /\ x - 1 < x
    BY <1>1, <2>4, <2>5
  <2>7. x - 1 \notin Bad
    BY <2>3, <2>6
  <2>8. PICK g : g = Body(g, x - 1)
    <3>1. x - 1 \in Bad <=> ~\E g : g = Body(g, x - 1)
      BY <2>6
    <3>2. QED
      BY <2>7, <3>1
  <2> DEFINE h == [i \in 0..x |-> IF i = x THEN Entry(g, x) ELSE g[i]]
  <2>9. ASSUME NEW i \in 0..x PROVE h[i] = Entry(h, i)
    <3>1. i # 0 => h[i - 1] = g[i - 1]
      BY <2>6
    <3>2. Entry(h, i) = Entry(g, i)
      <4> HIDE DEF h
      <4>1. CASE i = 0
        BY <4>1
      <4>2. CASE i # 0
        BY <3>1, <4>2
      <4>3. QED
        BY <4>1, <4>2
    <3>3. i # x => i \in 0..(x - 1)
      BY <2>6
    <3>4. i # x => g[i] = Entry(g, i)
      <4> HIDE DEF Entry
      <4> QED  BY <2>8, <3>3
    <3> HIDE DEF Entry
    <3>5. QED
      BY <3>2, <3>4
  <2>10. h = Body(h, x)
    <3> HIDE DEF Entry
    <3>1. h = [i \in 0..x |-> h[i]]
      OBVIOUS
    <3> HIDE DEF h
    <3>2. QED
      BY <2>9, <3>1
  <2>11. QED
    <3> HIDE DEF Body, h
    <3> QED  BY <2>4, <2>10
<1>3. \E g : g = Body(g, L)
  <2>1. L \in 0..L
    BY <1>1
  <2> HIDE DEF Body
  <2>2. QED
    BY <1>2, <2>1
<1>4. IfacesUpTo = Body(IfacesUpTo, L)
  <2>1. IfacesUpTo = CHOOSE g : g = Body(g, L)
    BY DEF IfacesUpTo
  <2> HIDE DEF Body
  <2>2. QED
    BY <1>3, <2>1
<1>5. ASSUME NEW i \in 0..L PROVE IfacesUpTo[i] = Entry(IfacesUpTo, i)
  <2> HIDE DEF Entry
  <2> QED  BY <1>4
<1>6. QED
  BY <1>5

\* Where the checked forms of the first modules of the order are made from
\* their sources and from each other, they have the interfaces of the sources.
LEMMA IfacesOnDisk ==
  ASSUME NEW k \in 0..Len(Order),
         \A i \in 1..k : ttc[Order[i]].iface =
                           Iface(Order[i], src[Order[i]].content, ImportHashes(Order[i]))
  PROVE  \A i \in 1..k : TrueIface[Order[i]] = ttc[Order[i]].iface
<1> DEFINE L == Len(Order)
           Good(f, i) == /\ f = [m \in Mods |-> f[m]]
                         /\ \A j \in 1..k : j <= i => f[Order[j]] = ttc[Order[j]].iface
           Bad == {i \in 0..L : ~Good(IfacesUpTo[i], i)}
           R == {ss \in Nat \X Nat : ss[1] < ss[2]}
<1>1. L \in Nat /\ L >= 1 /\ k \in Nat /\ k <= L
  BY OrderFacts
<1>2. Bad = {}
  <2> SUFFICES ASSUME Bad # {} PROVE FALSE
    OBVIOUS
  <2>1. Bad \subseteq Nat
    BY <1>1
  <2>2. IsWellFoundedOn(R, Nat)
    BY NatLessThanWellFounded DEF OpToRel
  <2>3. PICK x \in Bad : \A y \in Bad : <<y, x>> \notin R
    <3> HIDE DEF R, Bad
    <3> QED  BY <2>1, <2>2, WFMin
  <2>4. x \in 0..L /\ ~Good(IfacesUpTo[x], x)
    BY <2>3
  <2>5. x # 0
    <3>1. IfacesUpTo[0] = [m \in Mods |-> NoIface]
      <4>1. 0 \in 0..Len(Order)
        BY OrderFacts
      <4>2. QED
        BY <4>1, IfacesDefined, Zenon
    <3>2. Good(IfacesUpTo[0], 0)
      BY <3>1
    <3> HIDE DEF Good
    <3>3. QED
      BY <2>4, <3>2
  <2>6. x - 1 \in 0..L /\ x - 1 \in Nat /\ x \in Nat /\ x - 1 < x /\ x \in 1..L
    BY <1>1, <2>4, <2>5
  <2>7. PICK f : f = IfacesUpTo[x - 1]
    OBVIOUS
  <2>8. Good(f, x - 1)
    <3>1. x - 1 \notin Bad
      BY <2>3, <2>6
    <3> HIDE DEF Good
    <3>2. QED
      BY <2>6, <2>7, <3>1
  <2>9. PICK m : m = Order[x] /\ m \in Mods
    BY <2>6, OrderFacts
  <2>10. PICK h : h = IfacesUpTo[x]
    OBVIOUS
  <2>11. h = [f EXCEPT ![m] = Iface(m, src[m].content, f)]
    <3>1. IfacesUpTo[x] = [IfacesUpTo[x - 1] EXCEPT ![Order[x]] =
                             Iface(Order[x], src[Order[x]].content, IfacesUpTo[x - 1])]
      BY <2>4, <2>5, IfacesDefined
    <3>2. QED
      BY <2>7, <2>9, <2>10, <3>1
  <2>12. h[m] = Iface(m, src[m].content, f) /\ (\A n \in Mods : n # m => h[n] = f[n])
         /\ h = [n \in Mods |-> h[n]]
    BY <2>8, <2>9, <2>11
  <2>13. ASSUME x <= k PROVE h[m] = ttc[m].iface
    <3>1. x \in 1..k
      BY <2>6, <2>13
    <3>2. ttc[m].iface = Iface(m, src[m].content, ImportHashes(m))
      BY <2>9, <3>1
    <3>3. ASSUME NEW d \in Reexports[m] PROVE f[d] = ImportHashes(m)[d]
      <4>1. d \in Imports[m]
        BY <2>9, OrderFacts
      <4>2. PICK j \in 1..L : Order[j] = d /\ j < x
        BY <2>6, <2>9, <4>1, EarlierImports
      <4>3. j \in 1..k /\ j <= x - 1
        BY <1>1, <2>6, <2>13, <4>2
      <4>4. f[d] = ttc[d].iface
        BY <2>8, <4>2, <4>3
      <4>5. QED
        BY <4>1, <4>4 DEF ImportHashes
    <3>4. [d \in Reexports[m] |-> f[d]] = [d \in Reexports[m] |-> ImportHashes(m)[d]]
      BY <3>3
    <3>5. QED
      BY <2>12, <3>2, <3>4 DEF Iface
  <2>14. ASSUME NEW j \in 1..k, j <= x PROVE h[Order[j]] = ttc[Order[j]].iface
    <3>1. CASE j = x
      BY <2>9, <2>13, <2>14, <3>1
    <3>2. CASE j # x
      <4>1. j \in 1..L /\ j <= x - 1
        BY <1>1, <2>6, <2>14, <3>2
      <4>2. Order[j] \in Mods /\ Order[j] # m
        BY <2>6, <2>9, <3>2, <4>1, OrderFacts
      <4>3. f[Order[j]] = ttc[Order[j]].iface
        BY <2>8, <4>1
      <4>4. QED
        BY <2>12, <4>2, <4>3
    <3>3. QED
      BY <3>1, <3>2
  <2>15. Good(h, x)
    BY <2>12, <2>14
  <2>16. QED
    <3> HIDE DEF Good
    <3> QED  BY <2>4, <2>10, <2>15
<1>3. Good(IfacesUpTo[L], L)
  <2>1. L \in 0..L
    BY <1>1
  <2> HIDE DEF Good
  <2>2. QED
    BY <1>2, <2>1
<1>4. QED
  BY <1>1, <1>3 DEF TrueIface

\* What a stale module takes that the run has gone past.
LEMMA PassedFresh ==
  ASSUME BuildInv, quiet, NEW i \in Passed, Whole(Order[i])
  PROVE  /\ Stale(Order[i]) => Hidden # {} \/ session.srcdir
         /\ ~Stale(Order[i]) =>
              ttc[Order[i]].iface = Iface(Order[i], src[Order[i]].content, ImportHashes(Order[i]))
<1>1. PICK m : m = Order[i] /\ m \in Mods
  BY OrderFacts DEF Passed
<1>2. /\ SourceUnchanged(m)
      /\ ~session.srcdir => ttc[m].imports = ImportHashes(m)
      /\ ttc[m].iface = Iface(m, ttc[m].content, ttc[m].imports)
  BY <1>1 DEF BuildInv, DoneInv, FilesFormed
<1>3. m \notin Hidden => ttc[m].content = src[m].content
  BY <1>1, <1>2 DEF BuildInv, FilesTell, SourceUnchanged, Hidden
<1>4. QED
  BY <1>1, <1>2, <1>3 DEF Stale

LEMMA SourceFitsFrame ==
  ASSUME src' = src, NEW m
  PROVE  SourceFits(m)' <=> SourceFits(m)
<1>1. IfacesUpTo' = IfacesUpTo
  BY DEF IfacesUpTo
<1>2. QED
  BY <1>1 DEF SourceFits, TrueIface

LEMMA ReasonFrame ==
  ASSUME UNCHANGED <<session, src, ttc, ttm, next, risky, raced, crashes>>
  PROVE  /\ \A m \in Mods : SourceFits(m)' <=> SourceFits(m)
         /\ (Hidden # {} \/ session.srcdir)' <=> Hidden # {} \/ session.srcdir
         /\ \A i \in 1..(next - 1) : Stale(Order[i])' <=> Stale(Order[i])
<1>1. \A m \in Mods : SourceFits(m)' <=> SourceFits(m)
  BY SourceFitsFrame
<1>2. QED
  BY <1>1 DEF Hidden, Stale, ImportHashes

LEMMA FailureStep ==
  ASSUME BuildInv, [Next]_vars
  PROVE  FailureHasReason'
<1>0. FailureHasReason /\ next \in 1..Len(Order) /\ Main \in Mods
  BY OrderFacts DEF BuildInv, TypeOK
<1>1. CASE UNCHANGED <<session, src, ttc, ttm, stage, next, result, quiet, risky, raced, crashes>>
  BY <1>0, <1>1, ReasonFrame DEF FailureHasReason
<1>2. CASE ElaborateFails
  <2>1. /\ stage = "elaborate" /\ ~ElaboratesOk(Order[next])
        /\ UNCHANGED <<session, src, ttc, ttm, next, quiet, risky, raced, crashes>>
    BY <1>2 DEF ElaborateFails, GiveUp, Quietly
  <2>2. next \in Nat /\ \A i \in 1..(next - 1) : i \in Passed
    BY <1>0, <2>1, OrderFacts DEF Passed
  <2>3. ASSUME NEW i \in 1..(next - 1), ~Whole(Order[i]) PROVE FailureHasReason'
    <3>1. Order[i] \in Mods /\ ttc[Order[i]].state = "cut" /\ crashes > 0
      BY <2>2, <2>3, PassedNotWhole
    <3>2. QED
      BY <2>1, <3>1 DEF FailureHasReason
  <2>4. ASSUME quiet, NEW i \in 1..(next - 1), Whole(Order[i]), Stale(Order[i])
        PROVE  FailureHasReason'
    <3>1. Hidden # {} \/ session.srcdir
      BY <2>2, <2>4, PassedFresh
    <3>2. (Hidden # {} \/ session.srcdir)' /\ Stale(Order[i])' /\ i \in 1..(next' - 1)
      BY <2>1, <2>4, <3>1, ReasonFrame
    <3>3. QED
      BY <3>2 DEF FailureHasReason
  <2>5. ASSUME quiet, \A i \in 1..(next - 1) : Whole(Order[i]) /\ ~Stale(Order[i])
        PROVE  FailureHasReason'
    <3>1. PICK m : m = Order[next] /\ m \in Mods
      BY <1>0, OrderFacts
    <3>2. \A i \in 1..(next - 1) : TrueIface[Order[i]] = ttc[Order[i]].iface
      <4>1. \A i \in 1..(next - 1) :
              ttc[Order[i]].iface = Iface(Order[i], src[Order[i]].content, ImportHashes(Order[i]))
        BY <2>2, <2>5, PassedFresh
      <4>2. next - 1 \in 0..Len(Order)
        BY <1>0, OrderFacts
      <4>3. QED
        BY <4>1, <4>2, IfacesOnDisk
    <3>3. ASSUME NEW d \in Loads(m) PROVE Whole(d) /\ TrueIface[d] = ttc[d].iface
      <4>1. PICK j \in 1..Len(Order) : j < next /\ Order[j] = d
        BY <1>0, <3>1, LoadsEarlier DEF Loads
      <4>2. j \in 1..(next - 1)
        BY <2>2, <4>1
      <4>3. QED
        BY <2>5, <3>2, <4>1, <4>2
    <3>4. ~Fits(text, [d \in Loads(m) |-> ttc[d].iface])
      BY <2>1, <3>1, <3>3 DEF ElaboratesOk, Loadable, Whole
    <3>5. text = src[m].content
      BY <2>1, <2>5, <3>1 DEF BuildInv, TextInv
    <3>6. [d \in Loads(m) |-> ttc[d].iface] = [d \in Loads(m) |-> TrueIface[d]]
      BY <3>3
    <3>7. ~SourceFits(m)
      BY <3>4, <3>5, <3>6 DEF SourceFits
    <3>8. ~SourceFits(m)'
      BY <2>1, <3>7, SourceFitsFrame
    <3>9. QED
      BY <3>1, <3>8 DEF FailureHasReason
  <2>6. CASE ~quiet
    BY <2>1, <2>6 DEF FailureHasReason
  <2>7. QED
    BY <2>3, <2>4, <2>5, <2>6
<1>3. CASE LoadMain
  <2>1. /\ stage = "load"
        /\ result' = "errors" => ~MainLoads
        /\ UNCHANGED <<src, ttc, ttm, quiet, crashes>>
    BY <1>3 DEF LoadMain, Quietly
  <2>2. ASSUME NEW m \in Mods, ttc[m].state # "whole" PROVE FailureHasReason'
    <3>1. PICK i \in 1..Len(Order) : Order[i] = m
      BY OrderFacts
    <3>2. i \in Passed
      BY <2>1 DEF Passed
    <3>3. ttc[m].state = "cut" /\ crashes > 0
      BY <2>2, <3>1, <3>2, PassedNotWhole DEF Whole
    <3>4. QED
      BY <2>1, <3>3 DEF FailureHasReason
  <2>3. ASSUME ttm[Main] = NoContent, ttc[Main].state = "whole" PROVE FailureHasReason'
    <3>1. ttc[Main].content # NoContent
      <4>1. ttc[Main].content \in Contents
        BY <1>0, <2>3 DEF BuildInv, TypeOK
      <4>2. QED
        BY <4>1, BuildAssumption
    <3>2. crashes > 0
      BY <1>0, <2>1, <2>3, <3>1 DEF BuildInv, CrashInv
    <3>3. QED
      BY <1>0, <2>1, <2>3, <3>2 DEF FailureHasReason
  <2>4. CASE MainLoads
    BY <2>1, <2>4 DEF FailureHasReason
  <2>5. QED
    BY <1>0, <2>2, <2>3, <2>4, MainReachesAll DEF MainLoads, Loadable
<1>4. CASE Tick \/ UNCHANGED vars
  BY <1>1, <1>4 DEF Tick, vars, disk, run
<1>5. ASSUME NEW m \in Mods, NEW c \in Contents, Edit(m, c) PROVE FailureHasReason'
  BY <1>5 DEF Edit, FailureHasReason
<1>6. CASE StartBuild \/ Crash \/ BuildModSkip \/ Read \/ ProcessSkip \/ Elaborate
           \/ WriteTTC \/ WriteTTM
  <2>1. stage' # "idle" \/ result' # "errors"
    BY <1>6 DEF StartBuild, Crash, BuildModSkip, Read, ProcessSkip, Elaborate, WriteTTC,
                WriteTTM, Advance
  <2>2. QED
    BY <2>1 DEF FailureHasReason
<1>7. QED
  BY <1>2, <1>3, <1>4, <1>5, <1>6 DEF Next, Compile

-----------------------------------------------------------------------------
LEMMA BuildInvStep == BuildInv /\ [Next]_vars => BuildInv'
<1> SUFFICES ASSUME BuildInv, [Next]_vars PROVE BuildInv'
  OBVIOUS
<1>1. SessionOK'
  BY DEF BuildInv, SessionOK, Next, Tick, Edit, StartBuild, Compile, BuildModSkip, Read,
         ProcessSkip, ElaborateFails, Elaborate, WriteTTC, WriteTTM, LoadMain, Quietly,
         Crash, vars
<1>2. stage' = "write_ttc" => Outdated(Order[next])'
  BY OutdatedStep
<1>3. stage' = "idle" /\ result' = "ok" => \A m \in Mods : Whole(m)'
  BY WholeStep
<1>4. /\ TypeOK' /\ FilesFormed' /\ FilesTell' /\ DoneInv' /\ TextInv' /\ FitsInv'
      /\ CrashInv' /\ FailureHasReason'
  BY TypeStep, FormedStep, TellStep, DoneStep, TextStep, FitsStep, CrashStep, FailureStep
<1>5. QED
  BY <1>1, <1>2, <1>3, <1>4 DEF BuildInv

LEMMA BuildInvHolds == Spec => []BuildInv
BY BuildInvInit, BuildInvStep, PTL DEF Spec

-----------------------------------------------------------------------------
\* After a run that reports success every module has been dealt with.
LEMMA SucceededFacts ==
  ASSUME BuildInv, Succeeded, NEW m \in Mods
  PROVE  /\ Whole(m) /\ SourceUnchanged(m)
         /\ ~session.srcdir => ttc[m].imports = ImportHashes(m)
         /\ m \notin Hidden => ttc[m].content = src[m].content
<1>1. stage = "idle" /\ result = "ok" /\ quiet
  BY DEF Succeeded
<1>2. Whole(m)
  BY <1>1 DEF BuildInv
<1>3. PICK i \in 1..Len(Order) : Order[i] = m
  BY OrderFacts
<1>4. i \in Passed
  BY <1>1 DEF Passed
<1>5. SourceUnchanged(m) /\ (~session.srcdir => ttc[m].imports = ImportHashes(m))
  BY <1>1, <1>2, <1>3, <1>4 DEF BuildInv, DoneInv
<1>6. m \notin Hidden => ttc[m].content = src[m].content
  BY <1>2, <1>5 DEF BuildInv, FilesTell, SourceUnchanged, Hidden
<1>7. QED
  BY <1>2, <1>5, <1>6

(* A run that reports success has left, of every module, a checked form    *)
(* that was made from the source on disk, whatever was edited, skipped or  *)
(* killed before: but for the edits that the comparison cannot see.        *)
THEOREM SuccessIsFresh == Spec => []SuccessMeansFresh
<1>1. BuildInv => SuccessMeansFresh
  <2> SUFFICES ASSUME BuildInv, Succeeded, NEW m \in Mods
               PROVE  /\ ttc[m].state = "whole"
                      /\ m \notin Hidden => ttc[m].content = src[m].content
                      /\ crashes = 0 => ttm[m] = ttc[m].content
    BY DEF SuccessMeansFresh
  <2>1. ttc[m].state = "whole" /\ (m \notin Hidden => ttc[m].content = src[m].content)
    BY SucceededFacts DEF Whole
  <2>2. crashes = 0 => ttm[m] = ttc[m].content
    BY DEF BuildInv, CrashInv, Succeeded
  <2>3. QED
    BY <2>1, <2>2
<1>2. QED
  BY <1>1, BuildInvHolds, PTL

(* A run during which nobody edited fails only if a source does not        *)
(* elaborate against the sources of what it imports, if it has gone past a *)
(* checked module that is stale, for which it takes an edit the comparison *)
(* cannot see or hashes with a source directory, or if an earlier run was  *)
(* cut short.                                                              *)
THEOREM FailuresHaveReasons == Spec => []FailureHasReason
<1>1. BuildInv => FailureHasReason
  BY DEF BuildInv
<1>2. QED
  BY <1>1, BuildInvHolds, PTL

(* A checked module is replaced only if its source or the interface of one *)
(* of its imports is not what is recorded in it.                           *)
THEOREM RebuildsNeeded == Spec => NoNeedlessRebuild
<1> DEFINE Needed(m) == \/ ~session.hashes /\ src[m].time > ttc[m].time
                        \/ session.hashes /\ (src[m].content # ttc[m].hash \/ racing)
                        \/ ImportHashes(m) # ttc[m].imports
<1>1. BuildInv /\ [Next]_vars => [\A m \in Mods : ttc'[m] # ttc[m] => Needed(m)]_vars
  <2> SUFFICES ASSUME BuildInv, [Next]_vars, NEW m \in Mods, ttc'[m] # ttc[m]
               PROVE  Needed(m)
    OBVIOUS
  <2>1. m = Order[next] /\ stage = "write_ttc"
    <3>1. CASE WriteTTC
      <4>1. \A n \in Mods : n # Order[next] => ttc'[n] = ttc[n]
        BY <3>1, WriteFacts
      <4>2. QED
        BY <3>1, <4>1 DEF WriteTTC
    <3>2. ASSUME stage = "write_ttc", NEW f \in CutTTC(Order[next], text),
                 ttc' = [ttc EXCEPT ![Order[next]] = f]
          PROVE  m = Order[next] /\ stage = "write_ttc"
      <4>1. \A n \in Mods : n # Order[next] => ttc'[n] = ttc[n]
        BY <3>2, CutFacts
      <4>2. QED
        BY <3>2, <4>1
    <3>3. CASE UNCHANGED ttc
      BY <3>3
    <3>4. QED
      BY <3>1, <3>2, <3>3, StepKinds DEF FilesSame, Edit
  <2>2. QED
    BY <2>1 DEF BuildInv, Outdated
<1>2. QED
  BY <1>1, BuildInvHolds, PTL DEF Spec, NoNeedlessRebuild

(* After a success every module was checked against the interfaces that    *)
(* the sources of its imports give now, those of re-exported modules       *)
(* included, though only the hashes of direct imports are compared; and    *)
(* its source elaborates against them.                                     *)
THEOREM SuccessIsConsistent == Spec => []SuccessMeansConsistent
<1>1. BuildInv => SuccessMeansConsistent
  <2> SUFFICES ASSUME BuildInv, Succeeded, Hidden = {}, ~session.srcdir, NEW m \in Mods
               PROVE  /\ ttc[m].imports = [d \in Imports[m] |-> TrueIface[d]]
                      /\ SourceFits(m)
    BY DEF SuccessMeansConsistent, BuildInv
  <2>1. ASSUME NEW n \in Mods
        PROVE  /\ Whole(n) /\ ttc[n].imports = ImportHashes(n)
               /\ ttc[n].content = src[n].content
               /\ ttc[n].iface = Iface(n, src[n].content, ImportHashes(n))
    <3>1. /\ Whole(n) /\ ttc[n].imports = ImportHashes(n)
          /\ ttc[n].content = src[n].content
      BY SucceededFacts
    <3>2. QED
      BY <3>1 DEF BuildInv, FilesFormed
  <2>2. ASSUME NEW n \in Mods PROVE TrueIface[n] = ttc[n].iface
    <3>1. Len(Order) \in 0..Len(Order)
      BY OrderFacts
    <3>2. \A i \in 1..Len(Order) : TrueIface[Order[i]] = ttc[Order[i]].iface
      BY <2>1, <3>1, OrderFacts, IfacesOnDisk
    <3>3. QED
      BY <3>2, OrderFacts
  <2>3. ttc[m].imports = [d \in Imports[m] |-> TrueIface[d]]
    <3>1. \A d \in Imports[m] : TrueIface[d] = ttc[d].iface
      BY <2>2, OrderFacts
    <3>2. QED
      BY <2>1, <3>1 DEF ImportHashes
  <2>4. PICK seen : SawIfaces(m, seen)
    BY <2>1 DEF BuildInv, FitsInv
  <2> DEFINE T == {d \in Loads(m) : seen[d] = ttc[d].iface}
  <2>5. Loads(m) \subseteq T
    <3>1. T \in SUBSET Mods
      BY LoadsClosed
    <3>2. ASSUME NEW d \in Imports[m] PROVE d \in T
      <4>1. [e \in Imports[m] |-> seen[e]] = [e \in Imports[m] |-> ttc[e].iface]
        BY <2>1, <2>4 DEF SawIfaces, ImportHashes
      <4>2. seen[d] = [e \in Imports[m] |-> seen[e]][d] /\ ttc[d].iface = [e \in Imports[m] |-> ttc[e].iface][d]
        OBVIOUS
      <4>3. QED
        BY <4>1, <4>2, LoadsClosed
    <3>3. ASSUME NEW e \in T, NEW f \in Reexports[e] PROVE f \in T
      <4>1. e \in Mods /\ e \in Loads(m) /\ f \in Loads(m) /\ seen[e] = ttc[e].iface
        BY LoadsClosed
      <4>2. seen[e][2] = [g \in Reexports[e] |-> seen[g]]
        BY <2>4, <4>1 DEF SawIfaces
      <4>3. ttc[e].iface[2] = [g \in Reexports[e] |-> ImportHashes(e)[g]]
        BY <2>1, <4>1 DEF Iface
      <4>4. f \in Imports[e]
        BY <4>1, OrderFacts
      <4>5. seen[f] = ImportHashes(e)[f]
        <5>1. seen[f] = [g \in Reexports[e] |-> seen[g]][f]
              /\ ImportHashes(e)[f] = [g \in Reexports[e] |-> ImportHashes(e)[g]][f]
          OBVIOUS
        <5>2. QED
          BY <4>1, <4>2, <4>3, <5>1
      <4>6. QED
        BY <4>1, <4>4, <4>5 DEF ImportHashes
    <3>4. QED
      BY <3>1, <3>2, <3>3, LoadsClosed
  <2>6. [d \in Loads(m) |-> seen[d]] = [d \in Loads(m) |-> TrueIface[d]]
    BY <2>2, <2>5, LoadsClosed
  <2>7. SourceFits(m)
    BY <2>1, <2>4, <2>6 DEF SawIfaces, SourceFits
  <2>8. QED
    BY <2>3, <2>7
<1>2. QED
  BY <1>1, BuildInvHolds, PTL

-----------------------------------------------------------------------------
(* The graph of the imports. *)

USE DEF NoTree

LEMMA BelowIn == ASSUME NEW S \in SUBSET Modules PROVE S \subseteq Below(S)
  BY DEF Below

LEMMA BelowClosed ==
  ASSUME NEW S, NEW a \in Below(S), NEW b \in Modules, Import(a, b)
  PROVE  b \in Below(S)
<1>1. SUFFICES ASSUME NEW T \in SUBSET Modules, S \subseteq T, Closed(T)
               PROVE  b \in T
  BY DEF Below
<1>2. a \in T
  BY <1>1 DEF Below
<1>3. QED
  BY <1>1, <1>2 DEF Closed

LEMMA BelowLeast ==
  ASSUME NEW S, NEW T \in SUBSET Modules, S \subseteq T, Closed(T)
  PROVE  Below(S) \subseteq T
BY DEF Below

LEMMA BelowMonotone ==
  ASSUME NEW S, NEW R, S \subseteq Below(R)
  PROVE  Below(S) \subseteq Below(R)
<1>1. Below(R) \in SUBSET Modules
  BY DEF Below
<1>2. Closed(Below(R))
  BY BelowClosed DEF Closed
<1>3. QED
  BY <1>1, <1>2, BelowLeast

LEMMA ImportIsBelow ==
  ASSUME NEW a \in Modules, NEW b \in Modules, Import(a, b)
  PROVE  b \in StrictlyBelow(a)
<1>1. {c \in Modules : Import(a, c)} \in SUBSET Modules
  OBVIOUS
<1>2. QED
  BY <1>1, BelowIn DEF StrictlyBelow

LEMMA BelowImport ==
  ASSUME NEW a, NEW b \in StrictlyBelow(a), NEW c \in Modules, Import(b, c)
  PROVE  c \in StrictlyBelow(a)
BY BelowClosed DEF StrictlyBelow

(* A module whose imports are in a closed set without it is on no cycle. *)
LEMMA OnNoCycle ==
  ASSUME NEW T \in SUBSET Modules, Closed(T), NEW m, m \notin T,
         \A b \in Modules : Import(m, b) => b \in T
  PROVE  m \notin StrictlyBelow(m)
<1>1. {b \in Modules : Import(m, b)} \subseteq T
  OBVIOUS
<1>2. QED
  BY <1>1, BelowLeast DEF StrictlyBelow

-----------------------------------------------------------------------------
(* Sequences. *)

LEMMA Pushed ==
  ASSUME NEW T, NEW x \in T, NEW s \in Seq(T), NEW n \in Nat, n = Len(s),
         NEW r, r = <<x>> \o s
  PROVE  /\ r \in Seq(T) /\ Len(r) = n + 1 /\ r[1] = x /\ r # <<>>
         /\ \A i \in 1 .. n : r[i + 1] = s[i]
<1>1. PICK z : z = <<x>>
  OBVIOUS
<1>2. z \in Seq(T) /\ Len(z) = 1 /\ z[1] = x
  BY <1>1
<1>3. r = z \o s
  BY <1>1
<1>4. z \o s \in Seq(T) /\ Len(z \o s) = 1 + n
  <2>1. z \o s \in Seq(T) /\ Len(z \o s) = Len(z) + Len(s)
    BY <1>2, ConcatProperties, Zenon
  <2>2. QED
    BY <1>2, <2>1
<1>5. \A i \in 1 .. Len(z) + Len(s) :
        (z \o s)[i] = IF i <= Len(z) THEN z[i] ELSE s[i - Len(z)]
  BY <1>2, ConcatProperties, Zenon
<1>6. \A i \in 1 .. n + 1 : r[i] = IF i <= 1 THEN z[i] ELSE s[i - 1]
  BY <1>2, <1>3, <1>5
<1>7. r[1] = x
  BY <1>2, <1>6
<1>8. ASSUME NEW i \in 1 .. n PROVE r[i + 1] = s[i]
  <2>1. i + 1 \in 1 .. n + 1 /\ ~(i + 1 <= 1) /\ (i + 1) - 1 = i
    OBVIOUS
  <2>2. QED
    BY <1>6, <2>1
<1>9. QED
  BY <1>3, <1>4, <1>7, <1>8

LEMMA Popped ==
  ASSUME NEW T, NEW s \in Seq(T), s # <<>>, NEW n \in Nat, n = Len(s), NEW r, r = Tail(s)
  PROVE  /\ n \in Nat \ {0} /\ Head(s) = s[1] /\ s[1] \in T
         /\ r \in Seq(T) /\ Len(r) = n - 1
         /\ \A i \in 1 .. n - 1 : r[i] = s[i + 1]
<1>1. n # 0
  BY EmptySeq
<1>2. QED
  BY <1>1, HeadTailProperties, ElementOfSeq

LEMMA RangeOf ==
  ASSUME NEW T, NEW s \in Seq(T), NEW n \in Nat, n = Len(s)
  PROVE  /\ Range(s) \in SUBSET T
         /\ \A x : x \in Range(s) <=> \E i \in 1 .. n : x = s[i]
<1>1. s \in [1 .. n -> T] /\ DOMAIN s = 1 .. n
  BY LenProperties
<1>2. QED
  BY <1>1 DEF Range

LEMMA RangeEmpty == Range(<<>>) = {}
BY DEF Range

LEMMA RangePopped ==
  ASSUME NEW T, NEW s \in Seq(T), s # <<>>
  PROVE  Range(s) = {Head(s)} \cup Range(Tail(s))
<1>1. PICK n \in Nat : n = Len(s)
  BY LenProperties
<1>2. PICK r : r = Tail(s)
  OBVIOUS
<1>3. /\ n \in Nat \ {0} /\ Head(s) = s[1] /\ r \in Seq(T) /\ Len(r) = n - 1
      /\ \A i \in 1 .. n - 1 : r[i] = s[i + 1]
  BY <1>1, <1>2, Popped
<1>4. \A x : x \in Range(s) <=> \E i \in 1 .. n : x = s[i]
  BY <1>1, RangeOf
<1>5. \A x : x \in Range(r) <=> \E i \in 1 .. n - 1 : x = r[i]
  <2>1. n - 1 \in Nat
    BY <1>3
  <2>2. QED
    BY <1>3, <2>1, RangeOf
<1>6. ASSUME NEW x \in Range(s) PROVE x = s[1] \/ x \in Range(r)
  <2>1. PICK i \in 1 .. n : x = s[i]
    BY <1>4
  <2>2. CASE i = 1
    BY <2>1, <2>2
  <2>3. CASE i # 1
    <3>1. i - 1 \in 1 .. n - 1 /\ (i - 1) + 1 = i
      BY <2>3
    <3>2. QED
      BY <1>3, <1>5, <2>1, <3>1
  <2>4. QED
    BY <2>2, <2>3
<1>7. s[1] \in Range(s)
  BY <1>3, <1>4
<1>8. ASSUME NEW x \in Range(r) PROVE x \in Range(s)
  <2>1. PICK i \in 1 .. n - 1 : x = r[i]
    BY <1>5
  <2>2. i + 1 \in 1 .. n
    BY <1>3
  <2>3. QED
    BY <1>3, <1>4, <2>1, <2>2
<1>9. QED
  BY <1>2, <1>3, <1>6, <1>7, <1>8

LEMMA RangeAppend ==
  ASSUME NEW T, NEW s \in Seq(T), NEW x \in T
  PROVE  Range(Append(s, x)) = Range(s) \cup {x}
<1>1. PICK n \in Nat : n = Len(s)
  BY LenProperties
<1>2. PICK r : r = Append(s, x)
  OBVIOUS
<1>3. r \in Seq(T) /\ Len(r) = n + 1 /\ r[n + 1] = x /\ \A i \in 1 .. n : r[i] = s[i]
  BY <1>1, <1>2, AppendProperties
<1>4. \A y : y \in Range(s) <=> \E i \in 1 .. n : y = s[i]
  BY <1>1, RangeOf
<1>5. \A y : y \in Range(r) <=> \E i \in 1 .. n + 1 : y = r[i]
  BY <1>3, RangeOf
<1>6. QED
  BY <1>2, <1>3, <1>4, <1>5

-----------------------------------------------------------------------------
(* What holds of the stack s when the modules of A are dealt with. *)

Frames == [mod : Modules, rest : Seq(Modules)]

FrameOK(f, A) ==
  /\ header[f.mod] = "ok" /\ f.mod \notin A /\ f.mod \in Below({Root})
  /\ Range(f.rest) \subseteq Range(imps[f.mod])

\* An import of f's module is missing, still to visit, in work or dealt with.
Handled(f, up, A) ==
  \A d \in Range(imps[f.mod]) :
    NoTree(d) \/ d \in Range(f.rest) \/ d \in up \/ d \in A

Up(s, i) == IF i = 1 THEN {} ELSE {s[i - 1].mod}

StackOK(s, A) ==
  /\ s \in Seq(Frames)
  /\ \A i \in 1 .. Len(s) : FrameOK(s[i], A) /\ Handled(s[i], Up(s, i), A)
  /\ \A i \in 1 .. Len(s), j \in 1 .. Len(s) : i < j =>
       s[i].mod # s[j].mod /\ s[i].mod \in StrictlyBelow(s[j].mod)
  /\ \A i \in 1 .. Len(s) - 1 : Import(s[i + 1].mod, s[i].mod)
  /\ s # <<>> => s[Len(s)].mod = Root

PackageOK ==
  /\ header \in [Modules -> {"ok", "unparsable", "missing", "unreadable"}]
  /\ imps \in [Modules -> Seq(Modules)]
  /\ files \in Seq(Modules)

\* The top of the stack and what is next in it.
LEMMA TopFacts ==
  ASSUME PackageOK, NEW A, StackOK(stack, A), stack # <<>>,
         NEW n \in Nat, n = Len(stack)
  PROVE  /\ n # 0 /\ Head(stack) = stack[1] /\ stack[1] \in Frames
         /\ FrameOK(stack[1], A) /\ Handled(stack[1], {}, A)
<1>1. n \in Nat \ {0} /\ Head(stack) = stack[1] /\ stack[1] \in Frames
  BY Popped DEF StackOK
<1>2. 1 \in 1 .. n /\ Up(stack, 1) = {}
  BY <1>1 DEF Up
<1>3. FrameOK(stack[1], A) /\ Handled(stack[1], Up(stack, 1), A)
  BY <1>1, <1>2 DEF StackOK
<1>4. QED
  BY <1>1, <1>2, <1>3

LEMMA VisitedFacts ==
  ASSUME PackageOK, NEW A, StackOK(stack, A), stack # <<>>, Head(stack).rest # <<>>
  PROVE  /\ Visited \in Modules /\ Visited \in Range(imps[stack[1].mod])
         /\ ~NoTree(Visited) => Import(stack[1].mod, Visited)
         /\ ~NoTree(Visited) => Visited \in Below({Root})
<1>1. PICK n \in Nat : n = Len(stack)
  BY LenProperties DEF StackOK
<1>2. PICK f : f = stack[1]
  OBVIOUS
<1>3. Head(stack) = f /\ f \in Frames /\ FrameOK(f, A)
  BY <1>1, <1>2, TopFacts
<1>4. f.rest \in Seq(Modules) /\ f.rest # <<>> /\ f.mod \in Modules
  BY <1>3 DEF Frames
<1>5. Visited = Head(f.rest) /\ Head(f.rest) \in Range(f.rest)
  BY <1>3, <1>4, RangePopped DEF Visited
<1>6. Visited \in Range(imps[f.mod]) /\ imps[f.mod] \in Seq(Modules)
  BY <1>3, <1>4, <1>5 DEF FrameOK, PackageOK
<1>7. Visited \in Modules
  <2>1. PICK k \in Nat : k = Len(imps[f.mod])
    BY <1>6, LenProperties
  <2>2. QED
    BY <1>6, <2>1, RangeOf
<1>8. ~NoTree(Visited) => Import(f.mod, Visited)
  BY <1>3, <1>6 DEF Import, FrameOK
<1>9. ~NoTree(Visited) => Visited \in Below({Root})
  BY <1>3, <1>7, <1>8, BelowClosed DEF FrameOK
<1>10. QED
  BY <1>2, <1>6, <1>7, <1>8, <1>9

\* A module that is met again on the path is on a cycle.
LEMMA MetAgain ==
  ASSUME PackageOK, NEW A, StackOK(stack, A), stack # <<>>, Head(stack).rest # <<>>,
         NEW i \in 1 .. Len(stack), Visited = stack[i].mod
  PROVE  Visited \in StrictlyBelow(Visited)
<1>1. PICK n \in Nat : n = Len(stack)
  BY LenProperties DEF StackOK
<1>2. n # 0 /\ 1 \in 1 .. n /\ i \in 1 .. n
  BY <1>1
<1>3. FrameOK(stack[i], A) /\ stack[1] \in Frames
  BY <1>1, <1>2, ElementOfSeq DEF StackOK
<1>4. ~NoTree(Visited)
  BY <1>3 DEF FrameOK
<1>5. Import(stack[1].mod, Visited) /\ Visited \in Modules /\ stack[1].mod \in Modules
  BY <1>3, <1>4, VisitedFacts DEF Frames
<1>6. CASE i = 1
  BY <1>5, <1>6, ImportIsBelow
<1>7. CASE i # 1
  <2>1. 1 < i
    BY <1>2, <1>7
  <2>2. stack[1].mod \in StrictlyBelow(stack[i].mod)
    BY <1>1, <1>2, <2>1 DEF StackOK
  <2>3. QED
    BY <1>5, <2>2, BelowImport
<1>8. QED
  BY <1>6, <1>7

\* The next import needs no visit: it is left behind.
LEMMA TakeStep ==
  ASSUME PackageOK, NEW A, StackOK(stack, A), stack # <<>>, Head(stack).rest # <<>>,
         Visited \in A \/ NoTree(Visited)
  PROVE  StackOK(Taken, A) /\ Len(Taken) = Len(stack)
         /\ \A i \in 1 .. Len(stack) : Taken[i].mod = stack[i].mod
<1>1. PICK n \in Nat : n = Len(stack)
  BY LenProperties DEF StackOK
<1>2. PICK f : f = stack[1]
  OBVIOUS
<1>3. Head(stack) = f /\ f \in Frames /\ FrameOK(f, A) /\ Handled(f, {}, A) /\ n # 0
  BY <1>1, <1>2, TopFacts
<1>4. PICK g : g = [f EXCEPT !.rest = Tail(f.rest)]
  OBVIOUS
<1>5. /\ f.rest \in Seq(Modules) /\ f.rest # <<>> /\ f.mod \in Modules
      /\ g = [mod |-> f.mod, rest |-> Tail(f.rest)]
  BY <1>3, <1>4 DEF Frames
<1>6. Visited = Head(f.rest)
  BY <1>3 DEF Visited
<1>7. Range(f.rest) = {Visited} \cup Range(g.rest) /\ g \in Frames /\ g.mod = f.mod
  BY <1>5, <1>6, RangePopped, HeadTailProperties DEF Frames
<1>8. FrameOK(g, A) /\ Handled(g, {}, A)
  <2>1. FrameOK(g, A)
    BY <1>3, <1>7 DEF FrameOK
  <2>2. Handled(g, {}, A)
    BY <1>3, <1>7 DEF Handled
  <2>3. QED
    BY <2>1, <2>2
<1>9. PICK r : r = Tail(stack)
  OBVIOUS
<1>10. r \in Seq(Frames) /\ Len(r) = n - 1 /\ \A i \in 1 .. n - 1 : r[i] = stack[i + 1]
  BY <1>1, <1>9, Popped DEF StackOK
<1>11. PICK t : t = <<g>> \o r
  OBVIOUS
<1>12. Taken = t
  BY <1>3, <1>4, <1>9, <1>11 DEF Taken
<1>13. t \in Seq(Frames) /\ Len(t) = n /\ t[1] = g /\ \A i \in 2 .. n : t[i] = stack[i]
  <2>1. n - 1 \in Nat /\ (n - 1) + 1 = n
    BY <1>3
  <2>2. t \in Seq(Frames) /\ Len(t) = (n - 1) + 1 /\ t[1] = g
        /\ \A i \in 1 .. n - 1 : t[i + 1] = r[i]
    BY <1>7, <1>10, <1>11, <2>1, Pushed
  <2>3. ASSUME NEW i \in 2 .. n PROVE t[i] = stack[i]
    <3>1. i - 1 \in 1 .. n - 1 /\ (i - 1) + 1 = i
      OBVIOUS
    <3>2. QED
      BY <1>10, <2>2, <3>1
  <2>4. QED
    BY <2>1, <2>2, <2>3
<1>14. \A i \in 1 .. n : t[i].mod = stack[i].mod
  <2>1. \A i \in 1 .. n : i = 1 \/ i \in 2 .. n
    OBVIOUS
  <2>2. QED
    BY <1>2, <1>7, <1>13, <2>1
<1>15. \A i \in 1 .. n : FrameOK(t[i], A) /\ Handled(t[i], Up(t, i), A)
  <2>1. ASSUME NEW i \in 1 .. n PROVE FrameOK(t[i], A) /\ Handled(t[i], Up(t, i), A)
    <3>1. CASE i = 1
      BY <1>8, <1>13, <3>1 DEF Up
    <3>2. CASE i # 1
      <4>1. i \in 2 .. n /\ i - 1 \in 1 .. n
        BY <3>2
      <4>2. Up(t, i) = Up(stack, i)
        BY <1>14, <3>2, <4>1 DEF Up
      <4>3. FrameOK(stack[i], A) /\ Handled(stack[i], Up(stack, i), A)
        BY <1>1 DEF StackOK
      <4>4. QED
        BY <1>13, <4>1, <4>2, <4>3
    <3>3. QED
      BY <3>1, <3>2
  <2>2. QED
    BY <2>1
<1>16. \A i \in 1 .. n, j \in 1 .. n : i < j =>
         t[i].mod # t[j].mod /\ t[i].mod \in StrictlyBelow(t[j].mod)
  BY <1>1, <1>14 DEF StackOK
<1>17. \A i \in 1 .. n - 1 : Import(t[i + 1].mod, t[i].mod)
  <2>1. ASSUME NEW i \in 1 .. n - 1 PROVE Import(t[i + 1].mod, t[i].mod)
    <3>1. i \in 1 .. n /\ i + 1 \in 1 .. n
      OBVIOUS
    <3>2. Import(stack[i + 1].mod, stack[i].mod)
      BY <1>1 DEF StackOK
    <3>3. QED
      BY <1>14, <3>1, <3>2
  <2>2. QED
    BY <2>1
<1>18. t[n].mod = Root
  <2>1. n \in 1 .. n
    BY <1>3
  <2>2. QED
    BY <1>1, <1>14, <2>1 DEF StackOK
<1>19. StackOK(t, A)
  BY <1>13, <1>15, <1>16, <1>17, <1>18 DEF StackOK
<1>20. QED
  BY <1>1, <1>12, <1>13, <1>14, <1>19

\* The next import is visited: it is imported by what is below it.
LEMMA PushStep ==
  ASSUME PackageOK, NEW A, StackOK(stack, A), stack # <<>>, Head(stack).rest # <<>>,
         Visited \notin A, header[Visited] = "ok",
         \A i \in 1 .. Len(stack) : Visited # stack[i].mod,
         NEW t, t = <<Frame(Visited)>> \o Taken
  PROVE  StackOK(t, A) /\ Len(t) = Len(stack) + 1 /\ t[1].mod = Visited
         /\ \A i \in 1 .. Len(stack) : t[i + 1].mod = stack[i].mod
<1>1. PICK n \in Nat : n = Len(stack)
  BY LenProperties DEF StackOK
<1>2. PICK f : f = stack[1]
  OBVIOUS
<1>3. Head(stack) = f /\ f \in Frames /\ FrameOK(f, A) /\ Handled(f, {}, A) /\ n # 0
  BY <1>1, <1>2, TopFacts
<1>4. PICK d \in Modules : d = Visited /\ Import(f.mod, d) /\ d \in Below({Root})
  BY <1>2, VisitedFacts
<1>5. PICK g : g = [f EXCEPT !.rest = Tail(f.rest)]
  OBVIOUS
<1>6. /\ f.rest \in Seq(Modules) /\ f.rest # <<>> /\ f.mod \in Modules
      /\ g = [mod |-> f.mod, rest |-> Tail(f.rest)]
  BY <1>3, <1>5 DEF Frames
<1>7. d = Head(f.rest)
  BY <1>3, <1>4 DEF Visited
<1>8. Range(f.rest) = {d} \cup Range(g.rest) /\ g \in Frames /\ g.mod = f.mod
  BY <1>6, <1>7, RangePopped, HeadTailProperties DEF Frames
<1>9. FrameOK(g, A) /\ Handled(g, {d}, A)
  <2>1. FrameOK(g, A)
    BY <1>3, <1>8 DEF FrameOK
  <2>2. Handled(g, {d}, A)
    BY <1>3, <1>8 DEF Handled
  <2>3. QED
    BY <2>1, <2>2
<1>10. PICK h : h = Frame(d)
  OBVIOUS
<1>11. h \in Frames /\ h.mod = d /\ h.rest = imps[d]
  BY <1>4, <1>10 DEF Frame, Frames, PackageOK
<1>12. FrameOK(h, A) /\ Handled(h, {}, A)
  <2>1. FrameOK(h, A)
    BY <1>4, <1>11 DEF FrameOK
  <2>2. Handled(h, {}, A)
    BY <1>11 DEF Handled
  <2>3. QED
    BY <2>1, <2>2
<1>13. PICK r : r = Tail(stack)
  OBVIOUS
<1>14. r \in Seq(Frames) /\ Len(r) = n - 1 /\ \A i \in 1 .. n - 1 : r[i] = stack[i + 1]
  BY <1>1, <1>13, Popped DEF StackOK
<1>15. PICK q : q = <<g>> \o r
  OBVIOUS
<1>16. q \in Seq(Frames) /\ Len(q) = n /\ q[1] = g /\ \A i \in 1 .. n - 1 : q[i + 1] = r[i]
  <2>1. n - 1 \in Nat /\ (n - 1) + 1 = n
    BY <1>3
  <2>2. QED
    BY <1>8, <1>14, <1>15, <2>1, Pushed
<1>17. PICK u : u = <<h>> \o q
  OBVIOUS
<1>29. t = u
  BY <1>3, <1>4, <1>5, <1>10, <1>13, <1>15, <1>17 DEF Taken
<1>18. t \in Seq(Frames) /\ Len(t) = n + 1 /\ t[1] = h /\ \A i \in 1 .. n : t[i + 1] = q[i]
  <2>1. /\ u \in Seq(Frames) /\ Len(u) = n + 1 /\ u[1] = h
        /\ \A i \in 1 .. n : u[i + 1] = q[i]
    BY <1>11, <1>16, <1>17, Pushed
  <2>2. QED
    BY <1>29, <2>1
<1>19. t[2] = g /\ \A i \in 3 .. n + 1 : t[i] = stack[i - 1]
  <2>1. 1 \in 1 .. n /\ 1 + 1 = 2
    BY <1>3
  <2>2. t[2] = g
    BY <1>16, <1>18, <2>1
  <2>3. ASSUME NEW i \in 3 .. n + 1 PROVE t[i] = stack[i - 1]
    <3>0. i - 1 \in 1 .. n /\ (i - 1) + 1 = i
      OBVIOUS
    <3>1. i - 2 \in 1 .. n - 1 /\ (i - 2) + 1 = i - 1
      OBVIOUS
    <3>2. t[i] = q[i - 1] /\ q[i - 1] = r[i - 2] /\ r[i - 2] = stack[i - 1]
      BY <1>14, <1>16, <1>18, <3>0, <3>1
    <3>3. QED
      BY <3>2
  <2>4. QED
    BY <2>2, <2>3
<1>20. \A i \in 2 .. n + 1 : t[i].mod = stack[i - 1].mod
  <2>1. \A i \in 2 .. n + 1 : i = 2 \/ i \in 3 .. n + 1
    OBVIOUS
  <2>2. t[2].mod = f.mod
    BY <1>8, <1>19
  <2>3. ASSUME NEW i \in 2 .. n + 1, i = 2 PROVE t[i].mod = stack[i - 1].mod
    <3>1. i - 1 = 1
      BY <2>3
    <3>2. QED
      BY <1>2, <2>2, <2>3, <3>1
  <2>4. ASSUME NEW i \in 3 .. n + 1 PROVE t[i].mod = stack[i - 1].mod
    BY <1>19
  <2>5. QED
    BY <2>1, <2>3, <2>4
<1>21. \A i \in 1 .. n + 1 : FrameOK(t[i], A) /\ Handled(t[i], Up(t, i), A)
  <2>1. ASSUME NEW i \in 1 .. n + 1 PROVE FrameOK(t[i], A) /\ Handled(t[i], Up(t, i), A)
    <3>1. CASE i = 1
      BY <1>12, <1>18, <3>1 DEF Up
    <3>2. CASE i = 2
      <4>1. Up(t, i) = {d}
        BY <1>11, <1>18, <3>2 DEF Up
      <4>2. QED
        BY <1>9, <1>19, <3>2, <4>1
    <3>3. CASE i \in 3 .. n + 1
      <4>1. i - 1 \in 1 .. n /\ i - 1 # 1 /\ i # 1 /\ i - 1 \in 2 .. n + 1
        BY <3>3
      <4>2. Up(t, i) = Up(stack, i - 1)
        BY <1>20, <4>1 DEF Up
      <4>3. FrameOK(stack[i - 1], A) /\ Handled(stack[i - 1], Up(stack, i - 1), A)
        BY <1>1, <4>1 DEF StackOK
      <4>4. t[i] = stack[i - 1]
        BY <1>19, <3>3
      <4>5. QED
        BY <4>2, <4>3, <4>4
    <3>4. i = 1 \/ i = 2 \/ i \in 3 .. n + 1
      OBVIOUS
    <3>5. QED
      BY <3>1, <3>2, <3>3, <3>4
  <2>2. QED
    BY <2>1
<1>22. \A j \in 1 .. n : d # stack[j].mod /\ d \in StrictlyBelow(stack[j].mod)
  <2>1. ASSUME NEW j \in 1 .. n PROVE d \in StrictlyBelow(stack[j].mod)
    <3>1. CASE j = 1
      BY <1>2, <1>4, <1>6, <3>1, ImportIsBelow
    <3>2. CASE j # 1
      <4>1. 1 \in 1 .. n /\ 1 < j
        BY <3>2
      <4>2. stack[1].mod \in StrictlyBelow(stack[j].mod)
        BY <1>1, <4>1 DEF StackOK
      <4>3. QED
        BY <1>2, <1>4, <4>2, BelowImport
    <3>3. QED
      BY <3>1, <3>2
  <2>2. QED
    BY <1>1, <1>4, <2>1
<1>23. \A i \in 1 .. n + 1, j \in 1 .. n + 1 : i < j =>
         t[i].mod # t[j].mod /\ t[i].mod \in StrictlyBelow(t[j].mod)
  <2>1. ASSUME NEW i \in 1 .. n + 1, NEW j \in 1 .. n + 1, i < j
        PROVE  t[i].mod # t[j].mod /\ t[i].mod \in StrictlyBelow(t[j].mod)
    <3>1. j \in 2 .. n + 1 /\ j - 1 \in 1 .. n
      BY <2>1
    <3>2. t[j].mod = stack[j - 1].mod
      BY <1>20, <3>1
    <3>3. CASE i = 1
      <4>1. t[i].mod = d
        BY <1>11, <1>18, <3>3
      <4>2. QED
        BY <1>22, <3>1, <3>2, <4>1
    <3>4. CASE i # 1
      <4>1. i \in 2 .. n + 1 /\ i - 1 \in 1 .. n /\ i - 1 < j - 1
        BY <2>1, <3>4
      <4>2. t[i].mod = stack[i - 1].mod
        BY <1>20, <4>1
      <4>3. /\ stack[i - 1].mod # stack[j - 1].mod
            /\ stack[i - 1].mod \in StrictlyBelow(stack[j - 1].mod)
        BY <1>1, <3>1, <4>1 DEF StackOK
      <4>4. QED
        BY <3>2, <4>2, <4>3
    <3>5. QED
      BY <3>3, <3>4
  <2>2. QED
    BY <2>1
<1>24. \A i \in 1 .. n : Import(t[i + 1].mod, t[i].mod)
  <2>1. ASSUME NEW i \in 1 .. n PROVE Import(t[i + 1].mod, t[i].mod)
    <3>1. i + 1 \in 2 .. n + 1 /\ (i + 1) - 1 = i
      OBVIOUS
    <3>2. t[i + 1].mod = stack[i].mod
      BY <1>20, <3>1
    <3>3. CASE i = 1
      BY <1>2, <1>4, <1>11, <1>18, <3>2, <3>3
    <3>4. CASE i # 1
      <4>1. i \in 2 .. n + 1 /\ i - 1 \in 1 .. n - 1 /\ (i - 1) + 1 = i
        BY <3>4
      <4>2. t[i].mod = stack[i - 1].mod
        BY <1>20, <4>1
      <4>3. Import(stack[(i - 1) + 1].mod, stack[i - 1].mod)
        BY <1>1, <4>1 DEF StackOK
      <4>4. QED
        BY <3>2, <4>1, <4>2, <4>3
    <3>5. QED
      BY <3>3, <3>4
  <2>2. QED
    BY <2>1
<1>25. t[n + 1].mod = Root
  <2>1. n + 1 \in 2 .. n + 1 /\ (n + 1) - 1 = n
    BY <1>3
  <2>2. t[n + 1].mod = stack[n].mod
    BY <1>20, <2>1
  <2>3. QED
    BY <1>1, <2>2 DEF StackOK
<1>26. StackOK(t, A)
  <2>1. (n + 1) - 1 = n
    OBVIOUS
  <2>2. QED
    BY <1>18, <1>21, <1>23, <1>24, <1>25, <2>1 DEF StackOK
<1>27. \A i \in 1 .. n : t[i + 1].mod = stack[i].mod
  <2>1. ASSUME NEW i \in 1 .. n PROVE t[i + 1].mod = stack[i].mod
    <3>1. i + 1 \in 2 .. n + 1 /\ (i + 1) - 1 = i
      OBVIOUS
    <3>2. QED
      BY <1>20, <3>1
  <2>2. QED
    BY <2>1
<1>28. QED
  BY <1>1, <1>4, <1>11, <1>18, <1>26, <1>27

\* A visit ends: its module is dealt with, and so are its imports.
LEMMA PopStep ==
  ASSUME PackageOK, NEW A, StackOK(stack, A), stack # <<>>, Head(stack).rest = <<>>,
         NEW t, t = Tail(stack), NEW m, m = Head(stack).mod
  PROVE  /\ StackOK(t, A \cup {m})
         /\ Len(t) = Len(stack) - 1 /\ \A i \in 1 .. Len(stack) - 1 : t[i] = stack[i + 1]
         /\ m \in Modules /\ FrameOK(stack[1], A) /\ m = stack[1].mod
         /\ \A d \in Range(imps[m]) : NoTree(d) \/ d \in A
         /\ t = <<>> => m = Root
<1>1. PICK n \in Nat : n = Len(stack)
  BY LenProperties DEF StackOK
<1>2. PICK f : f = stack[1]
  OBVIOUS
<1>3. Head(stack) = f /\ f \in Frames /\ FrameOK(f, A) /\ Handled(f, {}, A) /\ n # 0
  BY <1>1, <1>2, TopFacts
<1>4. m = f.mod /\ m \in Modules /\ f.rest = <<>>
  BY <1>3 DEF Frames
<1>5. \A d \in Range(imps[m]) : NoTree(d) \/ d \in A
  BY <1>3, <1>4, RangeEmpty DEF Handled
<1>6. t \in Seq(Frames) /\ Len(t) = n - 1 /\ \A i \in 1 .. n - 1 : t[i] = stack[i + 1]
  BY <1>1, Popped DEF StackOK
<1>7. ASSUME NEW i \in 1 .. n - 1
      PROVE  FrameOK(t[i], A \cup {m}) /\ Handled(t[i], Up(t, i), A \cup {m})
  <2>1. i + 1 \in 1 .. n /\ 1 \in 1 .. n /\ 1 < i + 1 /\ i + 1 # 1 /\ (i + 1) - 1 = i
    OBVIOUS
  <2>2. FrameOK(stack[i + 1], A) /\ Handled(stack[i + 1], Up(stack, i + 1), A)
    BY <1>1, <2>1 DEF StackOK
  <2>3. stack[1].mod # stack[i + 1].mod
    BY <1>1, <2>1 DEF StackOK
  <2>4. FrameOK(t[i], A \cup {m})
    BY <1>2, <1>4, <1>6, <2>2, <2>3 DEF FrameOK
  <2>5. Up(stack, i + 1) \subseteq Up(t, i) \cup {m}
    <3>1. CASE i = 1
      BY <1>2, <1>4, <2>1, <3>1 DEF Up
    <3>2. CASE i # 1
      <4>1. i - 1 \in 1 .. n - 1 /\ (i - 1) + 1 = i
        BY <3>2
      <4>2. t[i - 1] = stack[i]
        BY <1>6, <4>1
      <4>3. QED
        BY <2>1, <3>2, <4>2 DEF Up
    <3>3. QED
      BY <3>1, <3>2
  <2>6. Handled(t[i], Up(t, i), A \cup {m})
    BY <1>6, <2>2, <2>5 DEF Handled
  <2>7. QED
    BY <2>4, <2>6
<1>8. ASSUME NEW i \in 1 .. n - 1, NEW j \in 1 .. n - 1, i < j
      PROVE  t[i].mod # t[j].mod /\ t[i].mod \in StrictlyBelow(t[j].mod)
  <2>1. i + 1 \in 1 .. n /\ j + 1 \in 1 .. n /\ i + 1 < j + 1
    BY <1>8
  <2>2. /\ stack[i + 1].mod # stack[j + 1].mod
        /\ stack[i + 1].mod \in StrictlyBelow(stack[j + 1].mod)
    BY <1>1, <2>1 DEF StackOK
  <2>3. QED
    BY <1>6, <2>2
<1>9. ASSUME NEW i \in 1 .. (n - 1) - 1 PROVE Import(t[i + 1].mod, t[i].mod)
  <2>1. i \in 1 .. n - 1 /\ i + 1 \in 1 .. n - 1
    OBVIOUS
  <2>2. Import(stack[(i + 1) + 1].mod, stack[i + 1].mod)
    BY <1>1, <2>1 DEF StackOK
  <2>3. QED
    BY <1>6, <2>1, <2>2
<1>10. t # <<>> => t[n - 1].mod = Root
  <2>1. SUFFICES ASSUME t # <<>> PROVE t[n - 1].mod = Root
    OBVIOUS
  <2>2. n - 1 # 0
    BY <1>6, <2>1, EmptySeq
  <2>3. n - 1 \in 1 .. n - 1 /\ (n - 1) + 1 = n
    BY <1>3, <2>2
  <2>4. t[n - 1] = stack[n]
    BY <1>6, <2>3
  <2>5. QED
    BY <1>1, <2>4 DEF StackOK
<1>11. StackOK(t, A \cup {m})
  BY <1>6, <1>7, <1>8, <1>9, <1>10 DEF StackOK
<1>12. t = <<>> => m = Root
  <2>1. SUFFICES ASSUME t = <<>> PROVE m = Root
    OBVIOUS
  <2>3. Len(<<>>) = 0
    OBVIOUS
  <2>0. Len(t) = 0
    BY <2>1, <2>3, Zenon
  <2>2. n = 1
    BY <1>3, <1>6, <2>0
  <2>4. QED
    BY <1>1, <1>2, <1>4, <2>2 DEF StackOK
<1>13. QED
  BY <1>1, <1>2, <1>3, <1>4, <1>5, <1>6, <1>11, <1>12

LEMMA FirstFrame ==
  ASSUME PackageOK, Root \in Modules, header[Root] = "ok", NEW A, Root \notin A,
         NEW t, t = <<Frame(Root)>>
  PROVE  StackOK(t, A) /\ Len(t) = 1 /\ t[1].mod = Root /\ t # <<>>
<1>1. PICK h : h = Frame(Root)
  OBVIOUS
<1>2. h \in Frames /\ h.mod = Root /\ h.rest = imps[Root]
  BY <1>1 DEF Frame, Frames, PackageOK
<1>3. t \in Seq(Frames) /\ Len(t) = 1 /\ t[1] = h /\ t # <<>>
  BY <1>1, <1>2
<1>4. Root \in Below({Root})
  BY BelowIn
<1>5. FrameOK(h, A) /\ Handled(h, {}, A)
  <2>1. FrameOK(h, A)
    BY <1>2, <1>4 DEF FrameOK
  <2>2. Handled(h, {}, A)
    BY <1>2 DEF Handled
  <2>3. QED
    BY <2>1, <2>2
<1>6. \A i \in 1 .. 1 : FrameOK(t[i], A) /\ Handled(t[i], Up(t, i), A)
  BY <1>3, <1>5 DEF Up
<1>7. QED
  BY <1>2, <1>3, <1>6 DEF StackOK

LEMMA NoFrames == ASSUME NEW A PROVE StackOK(<<>>, A)
BY DEF StackOK

-----------------------------------------------------------------------------
(* Lists of modules in which imports come first. *)

LEMMA InOrderOf ==
  ASSUME NEW s \in Seq(Modules), NEW n \in Nat, n = Len(s)
  PROVE  InOrder(s) <=>
           \A i \in 1 .. n : \A d \in Range(imps[s[i]]) :
             ~NoTree(d) => \E j \in 1 .. i - 1 : s[j] = d
<1>1. DOMAIN s = 1 .. n
  BY LenProperties
<1>2. QED
  BY <1>1 DEF InOrder

LEMMA AppendInOrder ==
  ASSUME NEW s \in Seq(Modules), InOrder(s), NEW m \in Modules,
         \A d \in Range(imps[m]) : NoTree(d) \/ d \in Range(s)
  PROVE  InOrder(Append(s, m))
<1>1. PICK n \in Nat : n = Len(s)
  BY LenProperties
<1>2. PICK r : r = Append(s, m)
  OBVIOUS
<1>3. r \in Seq(Modules) /\ Len(r) = n + 1 /\ r[n + 1] = m /\ \A i \in 1 .. n : r[i] = s[i]
  BY <1>1, <1>2, AppendProperties
<1>4. ASSUME NEW i \in 1 .. n + 1, NEW d \in Range(imps[r[i]]), ~NoTree(d)
      PROVE  \E j \in 1 .. i - 1 : r[j] = d
  <2>1. CASE i \in 1 .. n
    <3>1. PICK j \in 1 .. i - 1 : s[j] = d
      <4>1. d \in Range(imps[s[i]])
        BY <1>3, <1>4, <2>1
      <4>2. QED
        BY <1>1, <1>4, <2>1, <4>1, InOrderOf
    <3>2. j \in 1 .. n
      BY <2>1
    <3>3. QED
      BY <1>3, <3>1, <3>2
  <2>2. CASE i = n + 1
    <3>1. d \in Range(s)
      BY <1>3, <1>4, <2>2
    <3>2. PICK j \in 1 .. n : d = s[j]
      BY <1>1, <3>1, RangeOf
    <3>3. j \in 1 .. i - 1
      BY <2>2
    <3>4. QED
      BY <1>3, <3>2, <3>3
  <2>3. QED
    BY <2>1, <2>2
<1>5. InOrder(r)
  <2>1. n + 1 \in Nat
    OBVIOUS
  <2>2. QED
    BY <1>3, <1>4, <2>1, InOrderOf
<1>6. QED
  BY <1>2, <1>5

LEMMA ConcatInOrder ==
  ASSUME NEW s \in Seq(Modules), InOrder(s), NEW t \in Seq(Modules), InOrder(t)
  PROVE  /\ InOrder(s \o t) /\ s \o t \in Seq(Modules)
         /\ Range(s \o t) = Range(s) \cup Range(t)
<1>1. PICK n \in Nat, k \in Nat : n = Len(s) /\ k = Len(t)
  BY LenProperties
<1>2. PICK r : r = s \o t
  OBVIOUS
<1>3. r \in Seq(Modules) /\ Len(r) = n + k
  <2>1. s \o t \in Seq(Modules) /\ Len(s \o t) = Len(s) + Len(t)
    BY ConcatProperties, Zenon
  <2>2. QED
    BY <1>1, <1>2, <2>1
<1>4. \A i \in 1 .. n + k : r[i] = IF i <= n THEN s[i] ELSE t[i - n]
  <2>1. \A i \in 1 .. Len(s) + Len(t) :
          (s \o t)[i] = IF i <= Len(s) THEN s[i] ELSE t[i - Len(s)]
    BY ConcatProperties, Zenon
  <2>2. QED
    BY <1>1, <1>2, <2>1
<1>5. \A i \in 1 .. n : i \in 1 .. n + k /\ r[i] = s[i]
  BY <1>4
<1>6. \A i \in 1 .. k : i + n \in 1 .. n + k /\ r[i + n] = t[i]
  <2>1. ASSUME NEW i \in 1 .. k PROVE i + n \in 1 .. n + k /\ r[i + n] = t[i]
    <3>1. i + n \in 1 .. n + k /\ ~(i + n <= n) /\ (i + n) - n = i
      OBVIOUS
    <3>2. QED
      BY <1>4, <3>1
  <2>2. QED
    BY <2>1
<1>7. \A i \in 1 .. n + k : i \in 1 .. n \/ (i - n \in 1 .. k /\ (i - n) + n = i)
  OBVIOUS
<1>8. ASSUME NEW i \in 1 .. n + k, NEW d \in Range(imps[r[i]]), ~NoTree(d)
      PROVE  \E j \in 1 .. i - 1 : r[j] = d
  <2>1. CASE i \in 1 .. n
    <3>1. PICK j \in 1 .. i - 1 : s[j] = d
      <4>1. d \in Range(imps[s[i]])
        BY <1>5, <1>8, <2>1
      <4>2. QED
        BY <1>1, <1>8, <2>1, <4>1, InOrderOf
    <3>2. j \in 1 .. n
      BY <2>1
    <3>3. QED
      BY <1>5, <3>1, <3>2
  <2>2. CASE i - n \in 1 .. k /\ (i - n) + n = i
    <3>0. PICK x \in 1 .. k : x = i - n /\ x + n = i
      BY <2>2
    <3>1. PICK j \in 1 .. x - 1 : t[j] = d
      <4>1. d \in Range(imps[t[x]])
        BY <1>6, <1>8, <3>0
      <4>2. QED
        BY <1>1, <1>8, <4>1, InOrderOf
    <3>2. j \in 1 .. k
      BY <3>0
    <3>4. j + n \in 1 .. (x + n) - 1
      BY <3>0
    <3>3. QED
      BY <1>6, <3>0, <3>1, <3>2, <3>4
  <2>3. QED
    BY <1>7, <2>1, <2>2
<1>9. InOrder(r)
  <2>1. n + k \in Nat
    OBVIOUS
  <2>2. QED
    BY <1>3, <1>8, <2>1, InOrderOf
<1>10. Range(r) = Range(s) \cup Range(t)
  <2>1. \A y : y \in Range(s) <=> \E i \in 1 .. n : y = s[i]
    BY <1>1, RangeOf
  <2>2. \A y : y \in Range(t) <=> \E i \in 1 .. k : y = t[i]
    BY <1>1, RangeOf
  <2>3. \A y : y \in Range(r) <=> \E i \in 1 .. n + k : y = r[i]
    <3>1. n + k \in Nat
      OBVIOUS
    <3>2. QED
      BY <1>3, <3>1, RangeOf
  <2>4. Range(s) \subseteq Range(r) /\ Range(t) \subseteq Range(r)
    BY <1>5, <1>6, <2>1, <2>2, <2>3
  <2>5. Range(r) \subseteq Range(s) \cup Range(t)
    <3>1. SUFFICES ASSUME NEW y \in Range(r) PROVE y \in Range(s) \/ y \in Range(t)
      OBVIOUS
    <3>2. PICK i \in 1 .. n + k : y = r[i]
      BY <2>3
    <3>3. CASE i \in 1 .. n
      BY <1>5, <2>1, <3>2, <3>3
    <3>4. CASE i - n \in 1 .. k /\ (i - n) + n = i
      BY <1>6, <2>2, <3>2, <3>4
    <3>5. QED
      BY <1>7, <3>3, <3>4
  <2>6. QED
    BY <2>4, <2>5
<1>11. QED
  BY <1>2, <1>3, <1>9, <1>10

\* One more element of the list.
KeepFirst(s, m) == IF m \in Range(s) THEN s ELSE Append(s, m)

\* s is the list of the first i elements of ms without the later duplicates.
KeptOf(s, ms, i) ==
  /\ s \in Seq(Modules) /\ IsInjective(s) /\ InOrder(s)
  /\ Range(s) = {ms[j] : j \in 1 .. i}

LEMMA KeepFirstStep ==
  ASSUME NEW ms \in Seq(Modules), NEW n \in Nat, n = Len(ms), InOrder(ms),
         NEW i \in 1 .. n, NEW s, KeptOf(s, ms, i - 1)
  PROVE  KeptOf(KeepFirst(s, ms[i]), ms, i)
<1>1. PICK m \in Modules : m = ms[i]
  BY ElementOfSeq
<1>2. PICK R : R = Range(s) /\ R = {ms[j] : j \in 1 .. i - 1}
  BY DEF KeptOf
<1>3. {ms[j] : j \in 1 .. i} = R \cup {m}
  <2>1. \A j \in 1 .. i : j \in 1 .. i - 1 \/ j = i
    OBVIOUS
  <2>2. \A j \in 1 .. i - 1 : j \in 1 .. i
    OBVIOUS
  <2>3. i \in 1 .. i
    OBVIOUS
  <2>4. QED
    BY <1>1, <1>2, <2>1, <2>2, <2>3
<1>4. s \in Seq(Modules) /\ IsInjective(s) /\ InOrder(s)
  BY DEF KeptOf
<1>5. CASE m \in R
  <2>1. KeepFirst(s, m) = s
    BY <1>2, <1>5 DEF KeepFirst
  <2>2. R \cup {m} = R
    BY <1>5
  <2>3. QED
    BY <1>1, <1>2, <1>3, <1>4, <2>1, <2>2 DEF KeptOf
<1>6. CASE m \notin R
  <2>1. PICK r : r = Append(s, m)
    OBVIOUS
  <2>2. KeepFirst(s, m) = r
    BY <1>2, <1>6, <2>1 DEF KeepFirst
  <2>3. PICK k \in Nat : k = Len(s)
    BY <1>4, LenProperties
  <2>4. r \in Seq(Modules) /\ Len(r) = k + 1 /\ r[k + 1] = m /\ \A j \in 1 .. k : r[j] = s[j]
    BY <1>4, <2>1, <2>3, AppendProperties
  <2>5. Range(r) = R \cup {m}
    <3>0. s \in Seq(Modules)
      BY <1>4
    <3>1. Range(Append(s, m)) = Range(s) \cup {m}
      BY <3>0, RangeAppend
    <3>2. QED
      BY <1>2, <2>1, <3>1
  <2>6. IsInjective(r)
    <3>1. DOMAIN r = 1 .. k + 1 /\ DOMAIN s = 1 .. k
      BY <1>4, <2>3, <2>4, LenProperties
    <3>2. \A j \in 1 .. k : s[j] # m
      <4>1. \A x : x \in Range(s) <=> \E j \in 1 .. k : x = s[j]
        BY <1>4, <2>3, RangeOf
      <4>2. QED
        BY <1>2, <1>6, <4>1
    <3>3. \A a, b \in 1 .. k : s[a] = s[b] => a = b
      BY <1>4, <3>1 DEF IsInjective
    <3>4. \A a \in 1 .. k + 1 : a \in 1 .. k \/ a = k + 1
      OBVIOUS
    <3>5. \A a, b \in 1 .. k + 1 : r[a] = r[b] => a = b
      BY <2>4, <3>2, <3>3, <3>4
    <3>6. QED
      BY <3>1, <3>5 DEF IsInjective
  <2>7. InOrder(r)
    <3>1. ASSUME NEW d \in Range(imps[m]), ~NoTree(d) PROVE d \in R
      <4>1. PICK j \in 1 .. i - 1 : ms[j] = d
        BY <1>1, <3>1, InOrderOf
      <4>2. QED
        BY <1>2, <4>1
    <3>2. QED
      BY <1>2, <1>4, <2>1, <3>1, AppendInOrder
  <2>8. QED
    BY <1>1, <1>3, <2>2, <2>4, <2>5, <2>6, <2>7 DEF KeptOf
<1>7. QED
  BY <1>5, <1>6

LEMMA LeastNumber ==
  ASSUME NEW S \in SUBSET Nat, S # {}
  PROVE  \E x \in S : \A y \in S : x <= y
<1> DEFINE R == {ss \in Nat \X Nat : ss[1] < ss[2]}
<1>1. IsWellFoundedOn(R, Nat)
  BY NatLessThanWellFounded DEF OpToRel
<1>2. PICK x \in S : \A y \in S : <<y, x>> \notin R
  <2> HIDE DEF R
  <2> QED  BY <1>1, WFMin
<1>3. \A y \in S : x <= y
  <2> SUFFICES ASSUME NEW y \in S PROVE x <= y
    OBVIOUS
  <2>1. x \in Nat /\ y \in Nat /\ <<y, x>> \notin R
    BY <1>2
  <2>2. ~(y < x)
    BY <2>1
  <2>3. QED
    BY <2>1, <2>2
<1>4. QED
  BY <1>3


LEMMA Induction ==
  ASSUME NEW S, NEW m \in Nat, 0 \in S, \A n \in 0 .. m - 1 : n \in S => n + 1 \in S
  PROVE  \A n \in 0 .. m : n \in S
<1> DEFINE B == {n \in 0 .. m : n \notin S}
<1>1. SUFFICES ASSUME B # {} PROVE FALSE
  OBVIOUS
<1>2. B \in SUBSET Nat
  OBVIOUS
<1>3. PICK x \in B : \A y \in B : x <= y
  BY <1>1, <1>2, LeastNumber
<1>4. x \in 1 .. m
  BY <1>3
<1>5. x - 1 \in 0 .. m - 1 /\ x - 1 \notin B /\ (x - 1) + 1 = x
  BY <1>3, <1>4
<1>6. x - 1 \in S
  BY <1>5
<1>7. x \in S
  BY <1>5, <1>6
<1>8. QED
  BY <1>3, <1>7

(* f is what step does to a, m times; step is told which time it is. *)
Rounds(f, Dom, a, step, m) ==
  f \in [0 .. m -> Dom] /\ f[0] = a /\ \A n \in 1 .. m : f[n] = step[<<n, f[n - 1]>>]

LEMMA RoundsExist ==
  ASSUME NEW m \in Nat, NEW Dom, NEW a \in Dom, NEW step,
         \A n \in 1 .. m : \A x \in Dom : step[<<n, x>>] \in Dom
  PROVE  \E f : Rounds(f, Dom, a, step, m)
<1> DEFINE Ok(n) == \E f \in [0 .. n -> Dom] :
                      f[0] = a /\ \A i \in 1 .. n : f[i] = step[<<i, f[i - 1]>>]
           S == {n \in 0 .. m : Ok(n)}
<1>1. 0 \in S
  <2>1. PICK f : f = [i \in 0 .. 0 |-> a]
    OBVIOUS
  <2>2. f \in [0 .. 0 -> Dom] /\ f[0] = a /\ 1 .. 0 = {}
    BY <2>1
  <2>3. Ok(0)
    BY <2>2
  <2>4. QED
    BY <2>3
<1>2. ASSUME NEW n \in 0 .. m - 1, n \in S PROVE n + 1 \in S
  <2>1. PICK f \in [0 .. n -> Dom] : f[0] = a /\ \A i \in 1 .. n : f[i] = step[<<i, f[i - 1]>>]
    BY <1>2
  <2>2. PICK x \in Dom : x = step[<<n + 1, f[n]>>]
    <3>1. n + 1 \in 1 .. m /\ f[n] \in Dom
      BY <2>1
    <3>2. QED
      BY <3>1
  <2>3. PICK g : g = [i \in 0 .. n + 1 |-> IF i \in 0 .. n THEN f[i] ELSE x]
    OBVIOUS
  <2>4. (\A i \in 0 .. n : g[i] = f[i]) /\ g[n + 1] = x
    BY <2>3
  <2>5. g \in [0 .. n + 1 -> Dom]
    BY <2>1, <2>3
  <2>6. ASSUME NEW i \in 1 .. n + 1 PROVE g[i] = step[<<i, g[i - 1]>>]
    <3>1. CASE i = n + 1
      <4>1. i - 1 = n /\ g[n] = f[n] /\ g[i] = x
        BY <2>4, <3>1
      <4>2. QED
        BY <2>2, <3>1, <4>1
    <3>2. CASE i \in 1 .. n
      <4>1. g[i] = f[i] /\ g[i - 1] = f[i - 1]
        BY <2>4, <3>2
      <4>2. QED
        BY <2>1, <3>2, <4>1
    <3>3. QED
      BY <3>1, <3>2
  <2>7. g[0] = a
    BY <2>1, <2>4
  <2>8. Ok(n + 1)
    BY <2>5, <2>6, <2>7
  <2>9. QED
    BY <2>8
<1>3. \A n \in 0 .. m : n \in S
  <2> HIDE DEF S
  <2> QED BY <1>1, <1>2, Induction
<1>4. PICK f \in [0 .. m -> Dom] : f[0] = a /\ \A i \in 1 .. m : f[i] = step[<<i, f[i - 1]>>]
  BY <1>3
<1>5. QED
  BY <1>4 DEF Rounds

\* dropLater keeps every module once, and imports still come first.
LEMMA DropLaterFacts ==
  ASSUME NEW ms \in Seq(Modules), InOrder(ms)
  PROVE  /\ DropLater(ms) \in Seq(Modules) /\ IsInjective(DropLater(ms))
         /\ InOrder(DropLater(ms)) /\ Range(DropLater(ms)) = Range(ms)
<1>1. PICK n \in Nat : n = Len(ms)
  BY LenProperties
<1> DEFINE Body(f) == [i \in 0 .. n |->
             IF i = 0 THEN <<>>
             ELSE IF ms[i] \in Range(f[i - 1]) THEN f[i - 1] ELSE Append(f[i - 1], ms[i])]
<1>2. DropLater(ms) = (CHOOSE f : f = Body(f))[n]
  BY <1>1 DEF DropLater
<1>3. PICK step : step = [p \in (1 .. n) \X Seq(Modules) |-> KeepFirst(p[2], ms[p[1]])]
  OBVIOUS
<1>4. \A i \in 1 .. n : \A s \in Seq(Modules) :
        step[<<i, s>>] = KeepFirst(s, ms[i]) /\ KeepFirst(s, ms[i]) \in Seq(Modules)
  <2>1. ASSUME NEW i \in 1 .. n, NEW s \in Seq(Modules)
        PROVE  /\ step[<<i, s>>] = KeepFirst(s, ms[i])
               /\ KeepFirst(s, ms[i]) \in Seq(Modules)
    <3>2. PICK m \in Modules : m = ms[i]
      BY <1>1, ElementOfSeq
    <3>3. Append(s, m) \in Seq(Modules)
      BY AppendProperties
    <3>4. KeepFirst(s, m) \in Seq(Modules)
      BY <3>3 DEF KeepFirst
    <3>5. <<i, s>> \in (1 .. n) \X Seq(Modules) /\ <<i, s>>[1] = i /\ <<i, s>>[2] = s
      OBVIOUS
    <3>6. step[<<i, s>>] = KeepFirst(s, ms[i])
      BY <1>3, <3>5
    <3>7. QED
      BY <3>2, <3>4, <3>6
  <2>2. QED
    BY <2>1, Zenon
<1>5. <<>> \in Seq(Modules)
  OBVIOUS
<1>6. PICK g : Rounds(g, Seq(Modules), <<>>, step, n)
  BY <1>4, <1>5, RoundsExist
<1>7. /\ g \in [0 .. n -> Seq(Modules)] /\ g[0] = <<>>
      /\ \A i \in 1 .. n : g[i] = step[<<i, g[i - 1]>>]
  BY <1>6 DEF Rounds
<1>8. g = Body(g)
  <2>1. ASSUME NEW i \in 0 .. n
        PROVE  g[i] = IF i = 0 THEN <<>> ELSE KeepFirst(g[i - 1], ms[i])
    <3>1. CASE i = 0
      BY <1>7, <3>1
    <3>2. CASE i # 0
      <4>1. i \in 1 .. n /\ i - 1 \in 0 .. n
        BY <3>2
      <4>2. g[i - 1] \in Seq(Modules)
        BY <1>7, <4>1
      <4>3. g[i] = KeepFirst(g[i - 1], ms[i])
        BY <1>4, <1>7, <4>1, <4>2
      <4>4. QED
        BY <3>2, <4>3
    <3>3. QED
      BY <3>1, <3>2
  <2>2. g = [i \in 0 .. n |-> g[i]]
    BY <1>7
  <2>3. QED
    BY <2>1, <2>2 DEF KeepFirst
<1>9. PICK f : f = Body(f) /\ DropLater(ms) = f[n]
  BY <1>2, <1>8
<1>10. \A i \in 0 .. n : f[i] = IF i = 0 THEN <<>> ELSE KeepFirst(f[i - 1], ms[i])
  BY <1>9 DEF KeepFirst
<1> HIDE DEF Body
<1> DEFINE T == {i \in 0 .. n : KeptOf(f[i], ms, i)}
<1>11. 0 \in T
  <2>1. f[0] = <<>>
    BY <1>10
  <2>2. DOMAIN <<>> = {} /\ 1 .. 0 = {}
    OBVIOUS
  <2>3. {ms[j] : j \in 1 .. 0} = {}
    BY <2>2
  <2>4. IsInjective(<<>>) /\ InOrder(<<>>)
    BY <2>2 DEF IsInjective, InOrder
  <2>5. KeptOf(f[0], ms, 0)
    BY <1>5, <2>1, <2>3, <2>4, RangeEmpty DEF KeptOf
  <2>6. QED
    BY <2>5
<1>12. ASSUME NEW i \in 0 .. n - 1, i \in T PROVE i + 1 \in T
  <2>1. PICK k \in 1 .. n : k = i + 1 /\ k - 1 = i /\ k # 0
    OBVIOUS
  <2>2. KeptOf(f[k - 1], ms, k - 1)
    BY <1>12, <2>1
  <2>3. KeptOf(KeepFirst(f[k - 1], ms[k]), ms, k)
    BY <1>1, <2>2, KeepFirstStep
  <2>4. k \in 0 .. n
    OBVIOUS
  <2>5. f[k] = KeepFirst(f[k - 1], ms[k])
    BY <1>10, <2>1, <2>4
  <2>6. k \in T
    BY <2>3, <2>4, <2>5
  <2>7. QED
    BY <2>1, <2>6
<1>13. \A i \in 0 .. n : i \in T
  <2> HIDE DEF T
  <2> QED  BY <1>11, <1>12, Induction
<1>14. KeptOf(f[n], ms, n)
  <2>1. n \in 0 .. n
    OBVIOUS
  <2>2. QED
    BY <1>13, <2>1
<1>15. Range(ms) = {ms[j] : j \in 1 .. n}
  BY <1>1, RangeOf
<1>16. QED
  BY <1>9, <1>14, <1>15 DEF KeptOf

-----------------------------------------------------------------------------
(* The invariant. *)

\* The modules of A have been read, with all they import: none is on a cycle.
KnownOK(A) ==
  /\ A \in SUBSET Modules
  /\ \A a \in A : /\ header[a] = "ok" /\ a \in Below({Root}) /\ a \notin StrictlyBelow(a)
                  /\ \A d \in Range(imps[a]) : NoTree(d) \/ d \in A

ListOK(ms) ==
  /\ ms \in Seq(Modules) /\ InOrder(ms)
  /\ \A m \in Range(ms) : header[m] = "ok" /\ m \notin StrictlyBelow(m)

\* The tree of a file is being made.
TreePhase ==
  /\ KnownOK(all) /\ StackOK(stack, all) /\ order = <<>>
  /\ stack = <<>> => Root \in all

\* The build modules of a file are being listed.
OrderPhase ==
  /\ KnownOK(all) /\ Root \in all
  /\ StackOK(stack, Range(order)) /\ \A i \in 1 .. Len(stack) : stack[i].mod \in all
  /\ ListOK(order) /\ Range(order) \subseteq all
  /\ stack = <<>> => Root \in Range(order)

FilesOK ==
  /\ PackageOK
  /\ at \in Nat \ {0} /\ at <= Len(files) + 1

DoneOK ==
  /\ ListOK(done) /\ Range(done) \subseteq Below(WithTree)
  /\ \A i \in 1 .. at - 1 : NoTree(files[i]) \/ files[i] \in Range(done)

TreeInv ==
  /\ FilesOK /\ DoneOK
  /\ phase \in {"next", "tree", "order"}
  /\ phase # "next" => at <= Len(files)
  /\ phase = "next" => stack = <<>> /\ all = {} /\ order = <<>>
  /\ phase = "tree" => TreePhase
  /\ phase = "order" => OrderPhase

\* What an error says, while the file it is about is the next one.
ErrorOK ==
  /\ error.kind = "CyclicImports" =>
       LET names == error.names
           n     == Len(names)
       IN  /\ Cyclic({Root})
           /\ \A i \in 1..n - 2 : Import(names[i + 1], names[i])
           /\ Import(names[1], names[n]) /\ \E i \in 1..n - 1 : names[i] = names[n]
  /\ error.kind = "ParseFail" => error.mod \in Below({Root}) /\ header[error.mod] = "unparsable"

\* The graph stays as it is.
LEMMA GraphSame ==
  ASSUME UNCHANGED package
  PROVE  /\ \A T : Closed(T)' <=> Closed(T)
         /\ \A S : Below(S)' = Below(S)
         /\ \A m : StrictlyBelow(m)' = StrictlyBelow(m)
<1>1. header' = header /\ imps' = imps
  BY DEF package
<1>2. \A T : Closed(T)' <=> Closed(T)
  BY <1>1 DEF Closed, Import
<1>3. \A S : Below(S)' = Below(S)
  BY <1>1 DEF Below, Closed, Import
<1>4. \A m : StrictlyBelow(m)' = StrictlyBelow(m)
  BY <1>1 DEF StrictlyBelow, Below, Closed, Import
<1>5. QED
  BY <1>2, <1>3, <1>4

LEMMA ListsSame ==
  ASSUME UNCHANGED package
  PROVE  /\ ListOK(done') => ListOK(done)'
         /\ ListOK(order') => ListOK(order)'
<1>1. header' = header /\ imps' = imps
  BY DEF package
<1>2. ListOK(done') => ListOK(done)'
  BY <1>1 DEF ListOK, InOrder, StrictlyBelow, Below, Closed, Import
<1>3. ListOK(order') => ListOK(order)'
  BY <1>1 DEF ListOK, InOrder, StrictlyBelow, Below, Closed, Import
<1>4. QED
  BY <1>2, <1>3

LEMMA PhasesSame ==
  ASSUME UNCHANGED package, Root' = Root
  PROVE  /\ KnownOK(all') => KnownOK(all)'
         /\ StackOK(stack', all') => StackOK(stack, all)'
         /\ StackOK(stack', Range(order')) => StackOK(stack, Range(order))'
<1>1. header' = header /\ imps' = imps
  BY DEF package
<1>2. KnownOK(all') => KnownOK(all)'
  BY <1>1 DEF KnownOK, StrictlyBelow, Below, Closed, Import
<1>3. StackOK(stack', all') => StackOK(stack, all)'
  BY <1>1 DEF StackOK, FrameOK, Handled, Up, StrictlyBelow, Below, Closed, Import
<1>4. StackOK(stack', Range(order')) => StackOK(stack, Range(order))'
  BY <1>1 DEF StackOK, FrameOK, Handled, Up, StrictlyBelow, Below, Closed, Import
<1>5. QED
  BY <1>2, <1>3, <1>4

LEMMA KnownClosed ==
  ASSUME NEW A, KnownOK(A)
  PROVE  Closed(A) /\ A \in SUBSET Modules
<1>1. ASSUME NEW a \in A, NEW b \in Modules, Import(a, b) PROVE b \in A
  BY <1>1 DEF KnownOK, Import
<1>2. QED
  BY <1>1 DEF Closed, KnownOK

LEMMA KnownPut ==
  ASSUME NEW A, KnownOK(A), NEW m \in Modules, header[m] = "ok", m \notin A,
          m \in Below({Root}),
         \A d \in Range(imps[m]) : NoTree(d) \/ d \in A
  PROVE  KnownOK(A \cup {m})
<1>2. \A b \in Modules : Import(m, b) => b \in A
  BY DEF Import
<1>3. m \notin StrictlyBelow(m)
  BY <1>2, KnownClosed, OnNoCycle
<1>4. QED
  BY <1>3 DEF KnownOK

LEMMA ListAppend ==
  ASSUME NEW s, ListOK(s), NEW m \in Modules, header[m] = "ok", m \notin StrictlyBelow(m),
         \A d \in Range(imps[m]) : NoTree(d) \/ d \in Range(s)
  PROVE  ListOK(Append(s, m)) /\ Range(Append(s, m)) = Range(s) \cup {m}
<1>1. s \in Seq(Modules) /\ InOrder(s)
  BY DEF ListOK
<1>2. InOrder(Append(s, m))
  BY <1>1, AppendInOrder
<1>3. Range(Append(s, m)) = Range(s) \cup {m} /\ Append(s, m) \in Seq(Modules)
  BY <1>1, RangeAppend, AppendProperties
<1>4. QED
  BY <1>2, <1>3 DEF ListOK

LEMMA ListConcat ==
  ASSUME NEW s, ListOK(s), NEW t, ListOK(t)
  PROVE  ListOK(s \o t) /\ Range(s \o t) = Range(s) \cup Range(t)
<1>1. s \in Seq(Modules) /\ InOrder(s) /\ t \in Seq(Modules) /\ InOrder(t)
  BY DEF ListOK
<1>2. InOrder(s \o t) /\ s \o t \in Seq(Modules) /\ Range(s \o t) = Range(s) \cup Range(t)
  BY <1>1, ConcatInOrder
<1>3. QED
  BY <1>2 DEF ListOK

LEMMA EmptyList == ListOK(<<>>)
<1>1. DOMAIN <<>> = {}
  OBVIOUS
<1>2. QED
  BY <1>1, RangeEmpty DEF ListOK, InOrder

LEMMA RootFacts ==
  ASSUME FilesOK, at <= Len(files)
  PROVE  Root \in Modules /\ Root \in Range(files)
<1>1. PICK n \in Nat : n = Len(files)
  BY LenProperties DEF FilesOK, PackageOK
<1>2. files \in Seq(Modules) /\ at \in 1 .. n
  BY <1>1 DEF FilesOK, PackageOK
<1>3. QED
  BY <1>1, <1>2, ElementOfSeq, RangeOf DEF Root

\* The files and what was found for them stay as they are.
LEMMA PackageStays ==
  ASSUME FilesOK, DoneOK, UNCHANGED <<package, at, done>>
  PROVE  FilesOK' /\ DoneOK' /\ Root' = Root /\ UNCHANGED package
<1>1. header' = header /\ imps' = imps /\ files' = files /\ at' = at /\ done' = done
  BY DEF package
<1>2. FilesOK'
  BY <1>1 DEF FilesOK, PackageOK
<1>3. ListOK(done)' /\ Below(WithTree)' = Below(WithTree)
  <2>1. ListOK(done')
    BY <1>1 DEF DoneOK
  <2>2. Below(WithTree)' = Below(WithTree)
    BY <1>1 DEF Below, Closed, Import, WithTree
  <2>3. QED
    BY <2>1, <2>2, ListsSame
<1>4. DoneOK'
  BY <1>1, <1>3 DEF DoneOK
<1>5. QED
  BY <1>1, <1>2, <1>4 DEF Root

LEMMA TreeStays ==
  ASSUME FilesOK, DoneOK, UNCHANGED <<package, at, done>>, at <= Len(files),
         phase' = "tree", order' = <<>>,
         KnownOK(all'), StackOK(stack', all'), stack' = <<>> => Root \in all'
  PROVE  TreeInv'
<1>1. FilesOK' /\ DoneOK' /\ Root' = Root /\ UNCHANGED package
  BY PackageStays
<1>2. KnownOK(all)' /\ StackOK(stack, all)'
  BY <1>1, PhasesSame
<1>3. TreePhase'
  BY <1>1, <1>2 DEF TreePhase
<1>4. QED
  BY <1>1, <1>3 DEF TreeInv, package

LEMMA OrderStays ==
  ASSUME FilesOK, DoneOK, UNCHANGED <<package, at, done>>, at <= Len(files),
         phase' = "order", KnownOK(all'), Root \in all',
         StackOK(stack', Range(order')), \A i \in 1 .. Len(stack') : stack'[i].mod \in all',
         ListOK(order'), Range(order') \subseteq all', stack' = <<>> => Root \in Range(order')
  PROVE  TreeInv'
<1>1. FilesOK' /\ DoneOK' /\ Root' = Root /\ UNCHANGED package
  BY PackageStays
<1>2. KnownOK(all)' /\ StackOK(stack, Range(order))' /\ ListOK(order)'
  BY <1>1, PhasesSame, ListsSame
<1>3. OrderPhase'
  BY <1>1, <1>2 DEF OrderPhase
<1>4. QED
  BY <1>1, <1>3 DEF TreeInv, package

(* The steps of mkModTree. *)

LEMMA ReadFileStep == TreeInv /\ ReadFile => TreeInv'
<1> SUFFICES ASSUME TreeInv, ReadFile PROVE TreeInv'
  OBVIOUS
<1>1. /\ FilesOK /\ DoneOK /\ PackageOK /\ at <= Len(files)
      /\ all = {} /\ order = <<>> /\ header[Root] = "ok"
  BY DEF TreeInv, ReadFile, NextFile, FilesOK
<1>2. Root \in Modules
  BY <1>1, RootFacts
<1>3. PICK t : t = <<Frame(Root)>>
  OBVIOUS
<1>4. StackOK(t, {}) /\ t # <<>>
  BY <1>1, <1>2, <1>3, FirstFrame
<1>5. stack' = t /\ all' = {} /\ phase' = "tree" /\ order' = <<>> /\ UNCHANGED <<package, at, done>>
  BY <1>1, <1>3 DEF ReadFile
<1>6. KnownOK({})
  BY DEF KnownOK
<1>7. QED
  BY <1>1, <1>4, <1>5, <1>6, TreeStays

\* In the middle of mkModTree.
LEMMA TreeVisit ==
  ASSUME TreeInv, Visiting("tree")
  PROVE  /\ FilesOK /\ DoneOK /\ PackageOK /\ at <= Len(files) /\ order = <<>>
         /\ KnownOK(all) /\ StackOK(stack, all) /\ stack # <<>> /\ Head(stack).rest # <<>>
         /\ \A i \in 1 .. Len(stack) : stack[i].mod \in Range(Path)
<1>1. /\ FilesOK /\ DoneOK /\ PackageOK /\ at <= Len(files) /\ order = <<>>
      /\ KnownOK(all) /\ StackOK(stack, all) /\ stack # <<>> /\ Head(stack).rest # <<>>
  BY DEF TreeInv, Visiting, TreePhase, FilesOK
<1>2. PICK n \in Nat : n = Len(stack) /\ DOMAIN stack = 1 .. n
  BY <1>1, LenProperties DEF StackOK
<1>3. DOMAIN Path = 1 .. n /\ \A i \in 1 .. n : Path[i] = stack[i].mod
  BY <1>2 DEF Path
<1>4. \A i \in 1 .. n : stack[i].mod \in Range(Path)
  BY <1>3 DEF Range
<1>5. QED
  BY <1>1, <1>2, <1>4

LEMMA KnownTreeStep == TreeInv /\ KnownTree => TreeInv'
<1> SUFFICES ASSUME TreeInv, KnownTree PROVE TreeInv'
  OBVIOUS
<1>1. /\ FilesOK /\ DoneOK /\ PackageOK /\ at <= Len(files) /\ order = <<>> /\ KnownOK(all)
      /\ StackOK(stack, all) /\ stack # <<>> /\ Head(stack).rest # <<>>
  BY TreeVisit DEF KnownTree
<1>2. Visited \in all \/ NoTree(Visited)
  BY DEF KnownTree
<1>3. PICK t : t = Taken
  OBVIOUS
<1>4. StackOK(t, all) /\ t # <<>>
  <2>1. StackOK(Taken, all)
    BY <1>1, <1>2, TakeStep
  <2>2. Taken # <<>>
    <3>1. PICK n \in Nat : n = Len(stack)
      BY <1>1, LenProperties DEF StackOK
    <3>2. n # 0
      BY <1>1, <3>1, TopFacts
    <3>3. Len(Taken) = n
      BY <1>1, <1>2, <3>1, TakeStep
    <3>4. Len(<<>>) = 0
      OBVIOUS
    <3>5. QED
      BY <3>2, <3>3, <3>4
  <2>3. QED
    BY <1>3, <2>1, <2>2
<1>5. stack' = t /\ all' = all /\ phase' = "tree" /\ order' = <<>>
      /\ UNCHANGED <<package, at, done>>
  BY <1>1, <1>3 DEF KnownTree, Visiting
<1>6. QED
  BY <1>1, <1>4, <1>5, TreeStays

LEMMA ReadHeaderStep == TreeInv /\ ReadHeader => TreeInv'
<1> SUFFICES ASSUME TreeInv, ReadHeader PROVE TreeInv'
  OBVIOUS
<1>1. /\ FilesOK /\ DoneOK /\ PackageOK /\ at <= Len(files) /\ order = <<>> /\ KnownOK(all)
      /\ StackOK(stack, all) /\ stack # <<>> /\ Head(stack).rest # <<>>
      /\ \A i \in 1 .. Len(stack) : stack[i].mod \in Range(Path)
  BY TreeVisit DEF ReadHeader
<1>2. Visited \notin all /\ header[Visited] = "ok" /\ Visited \notin Range(Path)
  BY DEF ReadHeader, OnCycle
<1>3. PICK t : t = <<Frame(Visited)>> \o Taken
  OBVIOUS
<1>4. StackOK(t, all) /\ t # <<>>
  <2>1. \A i \in 1 .. Len(stack) : Visited # stack[i].mod
    BY <1>1, <1>2
  <2>2. StackOK(t, all) /\ Len(t) = Len(stack) + 1
    BY <1>1, <1>2, <1>3, <2>1, PushStep
  <2>3. Len(stack) \in Nat
    BY <1>1, LenProperties DEF StackOK
  <2>4. Len(<<>>) = 0
    OBVIOUS
  <2>5. QED
    BY <2>2, <2>3, <2>4
<1>5. stack' = t /\ all' = all /\ phase' = "tree" /\ order' = <<>>
      /\ UNCHANGED <<package, at, done>>
  BY <1>1, <1>3 DEF ReadHeader, Visiting
<1>6. QED
  BY <1>1, <1>4, <1>5, TreeStays

LEMMA PutTreeStep == TreeInv /\ PutTree => TreeInv'
<1> SUFFICES ASSUME TreeInv, PutTree PROVE TreeInv'
  OBVIOUS
<1>1. /\ FilesOK /\ DoneOK /\ PackageOK /\ at <= Len(files) /\ order = <<>> /\ KnownOK(all)
      /\ StackOK(stack, all) /\ stack # <<>> /\ Head(stack).rest = <<>>
  BY DEF TreeInv, PutTree, Returning, TreePhase, FilesOK
<1>2. PICK t, m : t = Tail(stack) /\ m = Head(stack).mod
  OBVIOUS
<1>3. /\ StackOK(t, all \cup {m}) /\ m \in Modules /\ FrameOK(stack[1], all)
      /\ m = stack[1].mod /\ \A d \in Range(imps[m]) : NoTree(d) \/ d \in all
      /\ t = <<>> => m = Root
  BY <1>1, <1>2, PopStep
<1>4. header[m] = "ok" /\ m \notin all /\ m \in Below({Root})
  BY <1>3 DEF FrameOK
<1>5. KnownOK(all \cup {m})
  BY <1>1, <1>3, <1>4, KnownPut
<1>6. /\ stack' = t /\ all' = all \cup {m} /\ phase' = "tree"
      /\ order' = <<>> /\ UNCHANGED <<package, at, done>>
  BY <1>1, <1>2 DEF PutTree, Returning
<1>7. QED
  BY <1>1, <1>3, <1>5, <1>6, TreeStays

LEMMA TreeMadeStep == TreeInv /\ TreeMade => TreeInv'
<1> SUFFICES ASSUME TreeInv, TreeMade PROVE TreeInv'
  OBVIOUS
<1>1. /\ FilesOK /\ DoneOK /\ PackageOK /\ at <= Len(files) /\ KnownOK(all)
      /\ Root \in all /\ order = <<>>
  BY DEF TreeInv, TreeMade, TreePhase, FilesOK
<1>2. Root \in Modules /\ header[Root] = "ok"
  BY <1>1 DEF KnownOK
<1>3. PICK t : t = <<Frame(Root)>>
  OBVIOUS
<1>4. PICK o : o = <<>>
  OBVIOUS
<1>5. Range(o) = {} /\ ListOK(o)
  BY <1>4, RangeEmpty, EmptyList
<1>6. StackOK(t, Range(o)) /\ Len(t) = 1 /\ t[1].mod = Root /\ t # <<>>
  BY <1>1, <1>2, <1>3, <1>5, FirstFrame
<1>7. \A i \in 1 .. Len(t) : t[i].mod \in all
  BY <1>1, <1>6
<1>8. /\ stack' = t /\ all' = all /\ order' = o /\ phase' = "order"
      /\ UNCHANGED <<package, at, done>>
  BY <1>1, <1>3, <1>4 DEF TreeMade
<1>9. QED
  BY <1>1, <1>5, <1>6, <1>7, <1>8, OrderStays

(* The steps of mkBuildMods. *)

\* In the middle of mkBuildMods, at an import that has to be built.
LEMMA OrderVisit ==
  ASSUME TreeInv, Visiting("order")
  PROVE  /\ FilesOK /\ DoneOK /\ PackageOK /\ at <= Len(files)
         /\ KnownOK(all) /\ Root \in all /\ ListOK(order) /\ Range(order) \subseteq all
         /\ StackOK(stack, Range(order)) /\ stack # <<>> /\ Head(stack).rest # <<>>
         /\ \A i \in 1 .. Len(stack) : stack[i].mod \in all
BY DEF TreeInv, Visiting, OrderPhase, FilesOK

LEMMA SkipImportStep == TreeInv /\ SkipImport => TreeInv'
<1> SUFFICES ASSUME TreeInv, SkipImport PROVE TreeInv'
  OBVIOUS
<1>1. /\ FilesOK /\ DoneOK /\ PackageOK /\ at <= Len(files)
      /\ KnownOK(all) /\ Root \in all /\ ListOK(order) /\ Range(order) \subseteq all
      /\ StackOK(stack, Range(order)) /\ stack # <<>> /\ Head(stack).rest # <<>>
      /\ \A i \in 1 .. Len(stack) : stack[i].mod \in all
  BY OrderVisit DEF SkipImport
<1>2. Visited \in Range(order) \/ NoTree(Visited)
  BY DEF SkipImport
<1>3. PICK t : t = Taken
  OBVIOUS
<1>4. /\ StackOK(t, Range(order)) /\ Len(t) = Len(stack)
      /\ \A i \in 1 .. Len(stack) : t[i].mod = stack[i].mod
  BY <1>1, <1>2, <1>3, TakeStep
<1>5. t # <<>> /\ \A i \in 1 .. Len(t) : t[i].mod \in all
  <2>1. PICK n \in Nat : n = Len(stack)
    BY <1>1, LenProperties DEF StackOK
  <2>2. n # 0
    BY <1>1, <2>1, TopFacts
  <2>3. Len(<<>>) = 0
    OBVIOUS
  <2>4. QED
    BY <1>1, <1>4, <2>1, <2>2, <2>3
<1>6. /\ stack' = t /\ all' = all /\ order' = order /\ phase' = "order"
      /\ UNCHANGED <<package, at, done>>
  BY <1>3 DEF SkipImport, Visiting
<1>7. QED
  BY <1>1, <1>4, <1>5, <1>6, OrderStays

\* What is known has no cycle: the import is not being visited already.
LEMMA BuildImportStep == TreeInv /\ BuildImport => TreeInv'
<1> SUFFICES ASSUME TreeInv, BuildImport PROVE TreeInv'
  OBVIOUS
<1>1. /\ FilesOK /\ DoneOK /\ PackageOK /\ at <= Len(files)
      /\ KnownOK(all) /\ Root \in all /\ ListOK(order) /\ Range(order) \subseteq all
      /\ StackOK(stack, Range(order)) /\ stack # <<>> /\ Head(stack).rest # <<>>
      /\ \A i \in 1 .. Len(stack) : stack[i].mod \in all
  BY OrderVisit DEF BuildImport
<1>2. Visited \notin Range(order) /\ ~NoTree(Visited)
  BY DEF BuildImport
<1>3. PICK n \in Nat : n = Len(stack) /\ n # 0
  <2>1. PICK n \in Nat : n = Len(stack)
    BY <1>1, LenProperties DEF StackOK
  <2>2. QED
    BY <1>1, <2>1, TopFacts
<1>4. Visited \in all
  <2>1. stack[1].mod \in all
    BY <1>1, <1>3
  <2>2. Visited \in Range(imps[stack[1].mod])
    BY <1>1, VisitedFacts
  <2>3. QED
    BY <1>1, <1>2, <2>1, <2>2 DEF KnownOK
<1>5. header[Visited] = "ok" /\ Visited \notin StrictlyBelow(Visited)
  BY <1>1, <1>4 DEF KnownOK
<1>6. \A i \in 1 .. Len(stack) : Visited # stack[i].mod
  BY <1>1, <1>5, MetAgain
<1>7. PICK t : t = <<Frame(Visited)>> \o Taken
  OBVIOUS
<1>8. /\ StackOK(t, Range(order)) /\ Len(t) = Len(stack) + 1 /\ t[1].mod = Visited
      /\ \A i \in 1 .. Len(stack) : t[i + 1].mod = stack[i].mod
  BY <1>1, <1>2, <1>5, <1>6, <1>7, PushStep
<1>9. t # <<>> /\ \A i \in 1 .. Len(t) : t[i].mod \in all
  <2>1. Len(t) = n + 1 /\ Len(<<>>) = 0
    BY <1>3, <1>8
  <2>2. ASSUME NEW i \in 1 .. n + 1 PROVE t[i].mod \in all
    <3>1. CASE i = 1
      BY <1>4, <1>8, <3>1
    <3>2. CASE i # 1
      <4>1. i - 1 \in 1 .. n /\ (i - 1) + 1 = i
        BY <3>2
      <4>2. t[i].mod = stack[i - 1].mod
        BY <1>3, <1>8, <4>1
      <4>3. QED
        BY <1>1, <1>3, <4>1, <4>2
    <3>3. QED
      BY <3>1, <3>2
  <2>3. QED
    BY <2>1, <2>2
<1>10. /\ stack' = t /\ all' = all /\ order' = order /\ phase' = "order"
       /\ UNCHANGED <<package, at, done>>
  BY <1>7 DEF BuildImport, Visiting
<1>11. QED
  BY <1>1, <1>8, <1>9, <1>10, OrderStays

LEMMA PutBuildModStep == TreeInv /\ PutBuildMod => TreeInv'
<1> SUFFICES ASSUME TreeInv, PutBuildMod PROVE TreeInv'
  OBVIOUS
<1>1. /\ FilesOK /\ DoneOK /\ PackageOK /\ at <= Len(files)
      /\ KnownOK(all) /\ Root \in all /\ ListOK(order) /\ Range(order) \subseteq all
      /\ StackOK(stack, Range(order)) /\ stack # <<>> /\ Head(stack).rest = <<>>
      /\ \A i \in 1 .. Len(stack) : stack[i].mod \in all
  BY DEF TreeInv, PutBuildMod, Returning, OrderPhase, FilesOK
<1>2. PICK t, m : t = Tail(stack) /\ m = Head(stack).mod
  OBVIOUS
<1>3. /\ StackOK(t, Range(order) \cup {m}) /\ m \in Modules
      /\ Len(t) = Len(stack) - 1 /\ \A i \in 1 .. Len(stack) - 1 : t[i] = stack[i + 1]
      /\ m = stack[1].mod
      /\ \A d \in Range(imps[m]) : NoTree(d) \/ d \in Range(order)
      /\ t = <<>> => m = Root
  BY <1>1, <1>2, PopStep
<1>4. PICK n \in Nat : n = Len(stack) /\ n # 0
  <2>1. PICK n \in Nat : n = Len(stack)
    BY <1>1, LenProperties DEF StackOK
  <2>2. QED
    BY <1>1, <2>1, TopFacts
<1>5. m \in all
  BY <1>1, <1>3, <1>4
<1>6. header[m] = "ok" /\ m \notin StrictlyBelow(m)
  BY <1>1, <1>5 DEF KnownOK
<1>7. PICK o : o = Append(order, m)
  OBVIOUS
<1>8. ListOK(o) /\ Range(o) = Range(order) \cup {m}
  BY <1>1, <1>3, <1>6, <1>7, ListAppend
<1>9. \A i \in 1 .. Len(t) : t[i].mod \in all
  <2>1. ASSUME NEW i \in 1 .. n - 1 PROVE t[i].mod \in all
    <3>1. i + 1 \in 1 .. n
      OBVIOUS
    <3>2. QED
      BY <1>1, <1>3, <1>4, <3>1
  <2>2. QED
    BY <1>3, <1>4, <2>1
<1>10. /\ stack' = t /\ all' = all /\ order' = o /\ phase' = "order"
       /\ UNCHANGED <<package, at, done>>
  BY <1>2, <1>7 DEF PutBuildMod, Returning
<1>11. StackOK(t, Range(o)) /\ Range(o) \subseteq all /\ (t = <<>> => Root \in Range(o))
  BY <1>1, <1>3, <1>5, <1>8
<1>12. QED
  BY <1>1, <1>8, <1>9, <1>10, <1>11, OrderStays

(* The steps from file to file. *)

LEMMA NextFileStays ==
  ASSUME FilesOK', DoneOK', phase' = "next", stack' = <<>>, all' = {}, order' = <<>>
  PROVE  TreeInv'
BY DEF TreeInv

\* The next file is reached: this one is among the build modules, if it has a
\* tree.
LEMMA FilesGoOn ==
  ASSUME FilesOK, DoneOK, UNCHANGED package, at <= Len(files), at' = at + 1,
         ListOK(done'), Range(done') \subseteq Below(WithTree),
         Range(done) \subseteq Range(done'), NoTree(Root) \/ Root \in Range(done')
  PROVE  FilesOK' /\ DoneOK'
<1>1. header' = header /\ imps' = imps /\ files' = files
  BY DEF package
<1>2. at \in Nat \ {0} /\ PackageOK
  BY DEF FilesOK
<1>3. PICK n \in Nat : n = Len(files)
  BY <1>2, LenProperties DEF PackageOK
<1>4. PackageOK'
  BY <1>1, <1>2 DEF PackageOK
<1>5. at' \in Nat \ {0} /\ at' <= Len(files') + 1
  BY <1>1, <1>2, <1>3
<1>6. FilesOK'
  BY <1>1, <1>2, <1>4, <1>5 DEF FilesOK
<1>7. ListOK(done)'
  BY ListsSame
<1>8. Below(WithTree)' = Below(WithTree)
  BY <1>1 DEF Below, Closed, Import, WithTree
<1>9. ASSUME NEW i \in 1 .. at' - 1 PROVE NoTree(files[i]) \/ files'[i] \in Range(done')
  <2>1. i = at \/ i \in 1 .. at - 1
    BY <1>2
  <2>2. CASE i = at
    BY <1>1, <2>2 DEF Root
  <2>3. CASE i \in 1 .. at - 1
    BY <1>1, <2>3 DEF DoneOK
  <2>4. QED
    BY <2>1, <2>2, <2>3
<1>10. DoneOK'
  <2>1. \A m : NoTree(m)' <=> NoTree(m)
    BY <1>1
  <2>2. QED
    BY <1>1, <1>7, <1>8, <1>9, <2>1 DEF DoneOK
<1>11. QED
  BY <1>6, <1>10

LEMMA AlreadyDoneStep == TreeInv /\ AlreadyDone => TreeInv'
<1> SUFFICES ASSUME TreeInv, AlreadyDone PROVE TreeInv'
  OBVIOUS
<1>1. /\ FilesOK /\ DoneOK /\ at <= Len(files) /\ Root \in Range(done)
      /\ phase = "next" /\ stack = <<>> /\ all = {} /\ order = <<>>
  BY DEF TreeInv, AlreadyDone, NextFile
<1>2. at' = at + 1 /\ UNCHANGED <<package, done, phase, stack, all, order>>
  BY DEF AlreadyDone
<1>3. ListOK(done') /\ Range(done') = Range(done) /\ Range(done) \subseteq Below(WithTree)
  BY <1>1, <1>2 DEF DoneOK
<1>4. FilesOK' /\ DoneOK'
  BY <1>1, <1>2, <1>3, FilesGoOn
<1>5. QED
  BY <1>1, <1>2, <1>4, NextFileStays

LEMMA FileSkippedStep == TreeInv /\ FileSkipped => TreeInv'
<1> SUFFICES ASSUME TreeInv, FileSkipped PROVE TreeInv'
  OBVIOUS
<1>1. /\ FilesOK /\ DoneOK /\ at <= Len(files) /\ NoTree(Root)
      /\ phase = "next" /\ stack = <<>> /\ all = {} /\ order = <<>>
  BY DEF TreeInv, FileSkipped, NextFile
<1>2. at' = at + 1 /\ UNCHANGED <<package, done, phase, stack, all, order>>
  BY DEF FileSkipped
<1>3. ListOK(done') /\ Range(done') = Range(done) /\ Range(done) \subseteq Below(WithTree)
  BY <1>1, <1>2 DEF DoneOK
<1>4. FilesOK' /\ DoneOK'
  BY <1>1, <1>2, <1>3, FilesGoOn
<1>5. QED
  BY <1>1, <1>2, <1>4, NextFileStays

LEMMA FileDoneStep == TreeInv /\ FileDone => TreeInv'
<1> SUFFICES ASSUME TreeInv, FileDone PROVE TreeInv'
  OBVIOUS
<1>1. /\ FilesOK /\ DoneOK /\ at <= Len(files) /\ stack = <<>>
      /\ KnownOK(all) /\ ListOK(order) /\ Range(order) \subseteq all
      /\ Root \in Range(order)
  BY DEF TreeInv, FileDone, OrderPhase
<1>2. /\ done' = order \o done /\ at' = at + 1 /\ phase' = "next" /\ all' = {}
      /\ order' = <<>> /\ stack' = stack /\ UNCHANGED package
  BY DEF FileDone
<1>3. ListOK(done) /\ Range(done) \subseteq Below(WithTree)
  BY <1>1 DEF DoneOK
<1>4. ListOK(done') /\ Range(done') = Range(order) \cup Range(done)
  BY <1>1, <1>2, <1>3, ListConcat
<1>5. Below({Root}) \subseteq Below(WithTree)
  <2>0. WithTree \subseteq Range(files) /\ Root \in WithTree
    BY <1>1, RootFacts DEF ListOK, WithTree
  <2>1. Range(files) \in SUBSET Modules
    <3>1. PICK n \in Nat : n = Len(files)
      BY <1>1, LenProperties DEF FilesOK, PackageOK
    <3>2. QED
      BY <1>1, <3>1, RangeOf DEF FilesOK, PackageOK
  <2>2. {Root} \subseteq Below(WithTree)
    BY <2>0, <2>1, BelowIn
  <2>3. QED
    BY <2>2, BelowMonotone
<1>6. Range(order) \subseteq Below({Root})
  BY <1>1 DEF KnownOK
<1>7. Range(done') \subseteq Below(WithTree)
  BY <1>3, <1>4, <1>5, <1>6
<1>8. FilesOK' /\ DoneOK'
  BY <1>1, <1>2, <1>4, <1>7, FilesGoOn
<1>9. QED
  BY <1>1, <1>2, <1>8, NextFileStays

\* A step that throws an error changes nothing else.
LEMMA NothingElse ==
  ASSUME TreeInv, UNCHANGED <<package, at, done, phase, stack, all, order>>
  PROVE  TreeInv'
<1>1. FilesOK /\ DoneOK /\ phase \in {"next", "tree", "order"}
  BY DEF TreeInv
<1>2. CASE phase = "next"
  <2>1. FilesOK' /\ DoneOK'
    BY <1>1, PackageStays
  <2>2. stack = <<>> /\ all = {} /\ order = <<>>
    BY <1>2 DEF TreeInv
  <2>3. QED
    BY <1>2, <2>1, <2>2, NextFileStays
<1>3. CASE phase = "tree"
  <2>1. /\ at <= Len(files) /\ KnownOK(all) /\ StackOK(stack, all) /\ order = <<>>
        /\ stack = <<>> => Root \in all
    BY <1>3 DEF TreeInv, TreePhase
  <2>2. KnownOK(all') /\ StackOK(stack', all') /\ (stack' = <<>> => Root \in all')
    BY <2>1
  <2>3. QED
    BY <1>1, <1>3, <2>1, <2>2, TreeStays
<1>4. CASE phase = "order"
  <2>1. /\ at <= Len(files) /\ KnownOK(all) /\ Root \in all /\ StackOK(stack, Range(order))
        /\ \A i \in 1 .. Len(stack) : stack[i].mod \in all
        /\ ListOK(order) /\ Range(order) \subseteq all
        /\ stack = <<>> => Root \in Range(order)
    BY <1>4 DEF TreeInv, OrderPhase
  <2>2. /\ KnownOK(all') /\ Root \in all' /\ StackOK(stack', Range(order'))
        /\ \A i \in 1 .. Len(stack') : stack'[i].mod \in all'
        /\ ListOK(order') /\ Range(order') \subseteq all'
        /\ stack' = <<>> => Root \in Range(order')
    BY <2>1
  <2>3. QED
    BY <1>1, <1>4, <2>1, <2>2, OrderStays
<1>5. QED
  BY <1>1, <1>2, <1>3, <1>4

LEMMA TreeInvStep == TreeInv /\ [TreeNext]_treeVars => TreeInv'
<1> SUFFICES ASSUME TreeInv, [TreeNext]_treeVars PROVE TreeInv'
  OBVIOUS
<1>1. CASE AlreadyDone
  BY <1>1, AlreadyDoneStep
<1>2. CASE ReadFile
  BY <1>2, ReadFileStep
<1>3. CASE FileFails \/ ThrowCycle \/ HeaderFails
  BY <1>3, NothingElse DEF FileFails, ThrowCycle, HeaderFails
<1>4. CASE KnownTree
  BY <1>4, KnownTreeStep
<1>5. CASE ReadHeader
  BY <1>5, ReadHeaderStep
<1>6. CASE PutTree
  BY <1>6, PutTreeStep
<1>7. CASE TreeMade
  BY <1>7, TreeMadeStep
<1>8. CASE SkipImport
  BY <1>8, SkipImportStep
<1>9. CASE BuildImport
  BY <1>9, BuildImportStep
<1>10. CASE PutBuildMod
  BY <1>10, PutBuildModStep
<1>11. CASE FileDone
  BY <1>11, FileDoneStep
<1>12. CASE FileSkipped
  BY <1>12, FileSkippedStep
<1>13. CASE UNCHANGED treeVars
  BY <1>13, NothingElse DEF treeVars, package
<1>14. QED
  BY <1>1, <1>2, <1>3, <1>4, <1>5, <1>6, <1>7, <1>8, <1>9, <1>10, <1>11, <1>12, <1>13
     DEF TreeNext

LEMMA SeqOfSeq ==
  ASSUME NEW S, NEW n \in Nat, NEW s \in SeqOf(S, n)
  PROVE  s \in Seq(S)
BY DEF SeqOf

LEMMA TreeInvStart == TreeInit => TreeInv /\ error = NoError
<1> SUFFICES ASSUME TreeInit PROVE TreeInv /\ error = NoError
  OBVIOUS
<1>1. MaxImports \in Nat /\ MaxFiles \in Nat
  BY TreeAssumption
<1>2. header \in [Modules -> {"ok", "unparsable", "missing", "unreadable"}]
  BY DEF TreeInit, Headers
<1>3. imps \in [Modules -> Seq(Modules)]
  <2>1. imps \in [Modules -> SeqOf(Modules, MaxImports)]
    BY DEF TreeInit
  <2>2. \A m \in Modules : imps[m] \in Seq(Modules)
    BY <1>1, <2>1, SeqOfSeq
  <2>3. QED
    BY <2>1, <2>2
<1>4. files \in Seq(Modules)
  <2>1. files \in SeqOf(Modules, MaxFiles)
    BY DEF TreeInit
  <2>2. QED
    BY <1>1, <2>1, SeqOfSeq
<1>5. /\ at = 1 /\ done = <<>> /\ phase = "next" /\ stack = <<>> /\ all = {} /\ order = <<>>
      /\ error = NoError
  BY DEF TreeInit
<1>6. at <= Len(files) + 1
  <2>1. Len(files) \in Nat
    BY <1>4, LenProperties
  <2>2. QED
    BY <1>5, <2>1
<1>7. FilesOK
  BY <1>2, <1>3, <1>4, <1>5, <1>6 DEF FilesOK, PackageOK
<1>8. DoneOK
  <2>1. Range(done) = {} /\ ListOK(done)
    BY <1>5, EmptyList, RangeEmpty
  <2>2. 1 .. at - 1 = {}
    BY <1>5
  <2>3. QED
    BY <2>1, <2>2 DEF DoneOK
<1>9. QED
  BY <1>5, <1>7, <1>8 DEF TreeInv

-----------------------------------------------------------------------------
(* What the errors say. *)

LEMMA CycleIsReal ==
  ASSUME TreeInv, Visiting("tree"), OnCycle(Visited),
         NEW names, names = Append(Path, Visited)
  PROVE  /\ Cyclic({Root}) /\ Import(names[1], names[Len(names)])
         /\ \A i \in 1 .. Len(names) - 2 : Import(names[i + 1], names[i])
         /\ \E i \in 1 .. Len(names) - 1 : names[i] = names[Len(names)]
<1>1. /\ PackageOK /\ StackOK(stack, all) /\ stack # <<>> /\ Head(stack).rest # <<>>
  BY TreeVisit
<1>2. PICK n \in Nat : n = Len(stack) /\ DOMAIN stack = 1 .. n /\ n # 0
  <2>1. PICK n \in Nat : n = Len(stack) /\ DOMAIN stack = 1 .. n
    BY <1>1, LenProperties DEF StackOK
  <2>2. QED
    BY <1>1, <2>1, TopFacts
<1>3. PICK v : v = Visited
  OBVIOUS
<1>4. v \in Modules /\ (~NoTree(v) => Import(stack[1].mod, v) /\ v \in Below({Root}))
  BY <1>1, <1>3, VisitedFacts
<1>5. PICK p : p = Path
  OBVIOUS
<1>6. p \in Seq(Modules) /\ Len(p) = n /\ \A i \in 1 .. n : p[i] = stack[i].mod
  <2>1. \A i \in 1 .. n : stack[i].mod \in Modules
    <3>1. ASSUME NEW i \in 1 .. n PROVE stack[i].mod \in Modules
      <4>1. stack[i] \in Frames
        BY <1>1, <1>2, ElementOfSeq DEF StackOK
      <4>2. QED
        BY <4>1 DEF Frames
    <3>2. QED
      BY <3>1
  <2>2. p = [i \in 1 .. n |-> stack[i].mod]
    BY <1>2, <1>5 DEF Path
  <2>3. p \in [1 .. n -> Modules]
    BY <2>1, <2>2
  <2>4. p \in Seq(Modules) /\ Len(p) = n
    BY <2>3, IsASeq, LenProperties
  <2>5. QED
    BY <2>2, <2>4
<1>7. Len(names) = n + 1 /\ names[n + 1] = v /\ \A i \in 1 .. n : names[i] = stack[i].mod
  BY <1>3, <1>4, <1>5, <1>6, AppendProperties
<1>8. PICK i \in 1 .. n : v = stack[i].mod
  <2>1. DOMAIN p = 1 .. n
    BY <1>2, <1>5 DEF Path
  <2>2. QED
    BY <1>3, <1>5, <1>6, <2>1 DEF OnCycle, Range
<1>9. ~NoTree(v)
  BY <1>1, <1>2, <1>8 DEF StackOK, FrameOK
<1>10. Cyclic({Root})
  <2>1. v \in StrictlyBelow(v)
    BY <1>1, <1>2, <1>3, <1>8, MetAgain
  <2>2. QED
    BY <1>4, <1>9, <2>1 DEF Cyclic
<1>11. Import(names[1], names[n + 1])
  BY <1>2, <1>4, <1>7, <1>9
<1>12. ASSUME NEW j \in 1 .. n - 1 PROVE Import(names[j + 1], names[j])
  <2>1. j \in 1 .. n /\ j + 1 \in 1 .. n
    OBVIOUS
  <2>2. Import(stack[j + 1].mod, stack[j].mod)
    BY <1>1, <1>2 DEF StackOK
  <2>3. QED
    BY <1>7, <2>1, <2>2
<1>13. \E j \in 1 .. n : names[j] = names[n + 1]
  BY <1>7, <1>8
<1>14. (n + 1) - 2 = n - 1 /\ (n + 1) - 1 = n
  OBVIOUS
<1>15. QED
  BY <1>7, <1>10, <1>11, <1>12, <1>13, <1>14

\* The thrown error is about the file at hand.
LEMMA ErrorThrown ==
  ASSUME UNCHANGED package, at' = at,
         error' = NoError \/ (error'.kind = "ParseFail" /\ error'.mod \in Below({Root})
                              /\ header[error'.mod] = "unparsable")
  PROVE  ErrorOK'
<1>1. header' = header /\ imps' = imps /\ Root' = Root
  BY DEF package, Root
<1>2. Below({Root})' = Below({Root})
  BY <1>1 DEF Below, Closed, Import
<1>3. error'.kind # "CyclicImports"
  BY DEF NoError
<1>4. error'.kind = "ParseFail" => error'.mod \in Below({Root}) /\ header[error'.mod] = "unparsable"
  BY DEF NoError
<1>5. QED
  BY <1>1, <1>2, <1>3, <1>4 DEF ErrorOK

LEMMA NoErrorOK == ASSUME error' = NoError PROVE ErrorOK'
BY DEF ErrorOK, NoError

LEMMA CycleThrown ==
  ASSUME UNCHANGED package, at' = at, NEW names, error' = CyclicImports(names),
         Cyclic({Root}), Import(names[1], names[Len(names)]),
         \A i \in 1 .. Len(names) - 2 : Import(names[i + 1], names[i]),
         \E i \in 1 .. Len(names) - 1 : names[i] = names[Len(names)]
  PROVE  ErrorOK'
<1>1. header' = header /\ imps' = imps /\ Root' = Root
  BY DEF package, Root
<1>2. Cyclic({Root})'
  BY <1>1 DEF Cyclic, StrictlyBelow, Below, Closed, Import
<1>3. Import(names[1], names[Len(names)])'
  BY <1>1 DEF Import
<1>4. \A i \in 1 .. Len(names) - 2 : Import(names[i + 1], names[i])'
  BY <1>1 DEF Import
<1>5. error'.kind = "CyclicImports" /\ error'.names = names
  BY DEF CyclicImports
<1>6. QED
  BY <1>2, <1>3, <1>4, <1>5 DEF ErrorOK

LEMMA ErrorOKStep == TreeInv /\ ErrorOK /\ [TreeNext]_treeVars => ErrorOK'
<1> SUFFICES ASSUME TreeInv, ErrorOK, [TreeNext]_treeVars PROVE ErrorOK'
  OBVIOUS
<1>1. CASE AlreadyDone \/ ReadFile \/ FileSkipped
  BY <1>1, NoErrorOK DEF AlreadyDone, ReadFile, FileSkipped, NextFile
<1>2. CASE KnownTree \/ ReadHeader
  BY <1>2, NoErrorOK DEF KnownTree, ReadHeader, Visiting
<1>3. CASE SkipImport \/ BuildImport
  BY <1>3, NoErrorOK DEF SkipImport, BuildImport, Visiting
<1>4. CASE PutTree \/ PutBuildMod
  BY <1>4, NoErrorOK DEF PutTree, PutBuildMod, Returning
<1>5. CASE TreeMade \/ FileDone
  BY <1>5, NoErrorOK DEF TreeMade, FileDone
<1>6. CASE FileFails
  <2>1. FilesOK /\ at <= Len(files) /\ header[Root] = "unparsable"
    BY <1>6 DEF TreeInv, FileFails, NextFile
  <2>2. Root \in Below({Root})
    BY <2>1, RootFacts, BelowIn
  <2>3. PICK r : r = Root /\ error' = [kind |-> "ParseFail", mod |-> r]
    BY <1>6 DEF FileFails, ParseFail
  <2>4. UNCHANGED package /\ at' = at
    BY <1>6 DEF FileFails
  <2>5. QED
    BY <2>1, <2>2, <2>3, <2>4, ErrorThrown
<1>7. CASE HeaderFails
  <2>1. PackageOK /\ StackOK(stack, all) /\ stack # <<>> /\ Head(stack).rest # <<>>
    BY <1>7, TreeVisit DEF HeaderFails
  <2>2. PICK v : v = Visited /\ error' = [kind |-> "ParseFail", mod |-> v]
    BY <1>7 DEF HeaderFails, ParseFail
  <2>3. header[v] = "unparsable" /\ UNCHANGED package /\ at' = at
    BY <1>7, <2>2 DEF HeaderFails
  <2>4. v \in Below({Root})
    BY <2>1, <2>2, <2>3, VisitedFacts
  <2>5. QED
    BY <2>2, <2>3, <2>4, ErrorThrown
<1>8. CASE ThrowCycle
  <2>1. PICK names : names = Append(Path, Visited)
    OBVIOUS
  <2>2. error' = CyclicImports(names) /\ UNCHANGED package /\ at' = at
    BY <1>8, <2>1 DEF ThrowCycle
  <2>3. /\ Cyclic({Root}) /\ Import(names[1], names[Len(names)])
        /\ \A i \in 1 .. Len(names) - 2 : Import(names[i + 1], names[i])
        /\ \E i \in 1 .. Len(names) - 1 : names[i] = names[Len(names)]
    BY <1>8, <2>1, CycleIsReal DEF ThrowCycle
  <2>4. QED
    BY <2>2, <2>3, CycleThrown
<1>9. CASE UNCHANGED treeVars
  <2>1. header' = header /\ imps' = imps /\ Root' = Root /\ error' = error
    BY <1>9 DEF treeVars, Root
  <2>2. Cyclic({Root})' <=> Cyclic({Root})
    BY <2>1 DEF Cyclic, StrictlyBelow, Below, Closed, Import
  <2>3. Below({Root})' = Below({Root})
    BY <2>1 DEF Below, Closed, Import
  <2>4. \A a, b : Import(a, b)' <=> Import(a, b)
    BY <2>1 DEF Import
  <2>5. QED
    BY <2>1, <2>2, <2>3, <2>4 DEF ErrorOK
<1>10. QED
  BY <1>1, <1>2, <1>3, <1>4, <1>5, <1>6, <1>7, <1>8, <1>9 DEF TreeNext

LEMMA TreeInvariant == TreeSpec => [](TreeInv /\ ErrorOK)
<1>1. TreeInit => TreeInv /\ ErrorOK
  BY TreeInvStart DEF ErrorOK, NoError
<1>2. TreeInv /\ ErrorOK /\ [TreeNext]_treeVars => (TreeInv /\ ErrorOK)'
  BY TreeInvStep, ErrorOKStep
<1>3. QED
  BY <1>1, <1>2, PTL DEF TreeSpec

\* What is done is closed under imports, and no module of it is on a cycle.
LEMMA DoneClosed ==
  ASSUME TreeInv
  PROVE  /\ Range(done) \in SUBSET Modules /\ Closed(Range(done))
         /\ Below(Range(done)) = Range(done)
<1>1. ListOK(done)
  BY DEF TreeInv, DoneOK
<1>2. PICK n \in Nat : n = Len(done)
  BY <1>1, LenProperties DEF ListOK
<1>3. Range(done) \in SUBSET Modules /\ \A x : x \in Range(done) <=> \E i \in 1 .. n : x = done[i]
  BY <1>1, <1>2, RangeOf DEF ListOK
<1>4. ASSUME NEW a \in Range(done), NEW b \in Modules, Import(a, b) PROVE b \in Range(done)
  <2>1. PICK i \in 1 .. n : a = done[i]
    BY <1>3
  <2>2. PICK j \in 1 .. i - 1 : done[j] = b
    BY <1>1, <1>2, <1>4, <2>1, InOrderOf DEF ListOK, Import
  <2>3. j \in 1 .. n
    OBVIOUS
  <2>4. QED
    BY <1>3, <2>2, <2>3
<1>5. Closed(Range(done))
  BY <1>4 DEF Closed
<1>6. QED
  BY <1>3, <1>5, BelowIn, BelowLeast

\* Every error is justified and every problem is reported: a cycle error only
\* if the imports below the file are cyclic, and then with the names of a path
\* into the cycle; a parse error only for an unparsable header below the file;
\* and no module of the build order is on a cycle or has no header.
THEOREM ModuleErrorsExact == TreeSpec => []ErrorsExact
<1>1. ASSUME TreeInv, ErrorOK PROVE ErrorsExact
  <2>1. ~Cyclic(Range(done)) /\ \A m \in Range(done) : header[m] = "ok"
    BY <1>1, DoneClosed DEF TreeInv, DoneOK, ListOK, Cyclic
  <2>2. QED
    BY <1>1, <2>1 DEF ErrorsExact, ErrorOK
<1>2. QED
  BY <1>1, TreeInvariant, PTL

\* Whatever the headers, the files and their order, the build order has every
\* module below the files whose header can be read, exactly once, and after all
\* the modules it imports; files and imports without a tree, and what only those
\* import, are left out.
THEOREM BuildOrderIsTopological == TreeSpec => []OrderIsTopological
<1>1. ASSUME TreeInv, at > Len(files)
      PROVE  /\ IsInjective(BuildOrder) /\ InOrder(BuildOrder)
             /\ Range(BuildOrder) = Below(WithTree)
  <2>1. FilesOK /\ ListOK(done) /\ Range(done) \subseteq Below(WithTree)
        /\ \A i \in 1 .. at - 1 : NoTree(files[i]) \/ files[i] \in Range(done)
    BY <1>1 DEF TreeInv, DoneOK
  <2>2. PICK n \in Nat : n = Len(files)
    BY <2>1, LenProperties DEF FilesOK, PackageOK
  <2>3. at = n + 1
    BY <1>1, <2>1, <2>2 DEF FilesOK
  <2>4. WithTree \subseteq Range(done)
    <3>1. files \in Seq(Modules)
      BY <2>1 DEF FilesOK, PackageOK
    <3>2. \A x : x \in Range(files) <=> \E i \in 1 .. n : x = files[i]
      BY <2>2, <3>1, RangeOf
    <3>3. \A i \in 1 .. n : NoTree(files[i]) \/ files[i] \in Range(done)
      BY <2>1, <2>3
    <3>4. QED
      BY <3>2, <3>3 DEF WithTree
  <2>5. Below(WithTree) \subseteq Range(done)
    BY <1>1, <2>4, DoneClosed, BelowLeast
  <2>6. Range(done) = Below(WithTree)
    BY <2>1, <2>5
  <2>7. done \in Seq(Modules) /\ InOrder(done)
    BY <2>1 DEF ListOK
  <2>8. IsInjective(DropLater(done)) /\ InOrder(DropLater(done))
        /\ Range(DropLater(done)) = Range(done)
    BY <2>7, DropLaterFacts
  <2>9. QED
    BY <2>6, <2>8 DEF BuildOrder
<1>2. TreeInv => OrderIsTopological
  BY <1>1 DEF OrderIsTopological
<1>3. QED
  BY <1>2, TreeInvariant, PTL

\* The imports of m that have a tree.
Sources(m) == {d \in Range(imps[m]) : ~NoTree(d)}

\* What IncrementalBuild assumes of the order of a build (BuildAssumption), with
\* Sources for the imports: the modules are in it once, with all they import
\* and after it, and with one main file that file, if it has a tree, is the last,
\* all others being below it.
AsAssumed(Ord) ==
  LET Built == Range(Ord)
  IN  /\ Ord \in Seq(Built)
      /\ \A i, j \in 1 .. Len(Ord) : Ord[i] = Ord[j] => i = j
      /\ \A m \in Built : Sources(m) \subseteq Built
      /\ \A i, j \in 1 .. Len(Ord) : Ord[j] \in Sources(Ord[i]) => j < i
      /\ Len(files) = 1 /\ ~NoTree(files[1]) =>
           /\ Ord # <<>> /\ Ord[Len(Ord)] = files[1]
           /\ \A T \in SUBSET Built :
                files[1] \in T /\ (\A m \in T : Sources(m) \subseteq T) => T = Built

LEMMA OrderAsAssumed ==
  ASSUME FilesOK, NEW Ord, Ord \in Seq(Modules), IsInjective(Ord), InOrder(Ord),
         Range(Ord) = Below(WithTree), \A m \in Range(Ord) : header[m] = "ok"
  PROVE  AsAssumed(Ord)
<1>1. PICK n \in Nat : n = Len(Ord) /\ DOMAIN Ord = 1 .. n
  BY LenProperties
<1>2. PICK B : B = Range(Ord)
  OBVIOUS
<1>3. B \in SUBSET Modules /\ \A x : x \in B <=> \E i \in 1 .. n : x = Ord[i]
  BY <1>1, <1>2, RangeOf
<1>4. Ord \in Seq(B)
  <2>1. \A i \in 1 .. n : Ord[i] \in B
    BY <1>3
  <2>2. Ord \in [1 .. n -> B]
    BY <1>1, <2>1, LenProperties
  <2>3. QED
    BY <2>2, IsASeq
<1>5. \A i, j \in 1 .. n : Ord[i] = Ord[j] => i = j
  BY <1>1 DEF IsInjective
<1>6. ASSUME NEW i \in 1 .. n, NEW d \in Sources(Ord[i])
      PROVE  d \in B /\ \E k \in 1 .. i - 1 : Ord[k] = d
  <2>1. PICK k \in 1 .. i - 1 : Ord[k] = d
    BY <1>1, <1>6, InOrderOf DEF Sources
  <2>2. k \in 1 .. n
    OBVIOUS
  <2>3. QED
    BY <1>3, <2>1, <2>2
<1>7. \A m \in B : Sources(m) \subseteq B
  BY <1>3, <1>6
<1>8. ASSUME NEW i \in 1 .. n, NEW j \in 1 .. n, Ord[j] \in Sources(Ord[i]) PROVE j < i
  <2>1. PICK k \in 1 .. i - 1 : Ord[k] = Ord[j]
    BY <1>6, <1>8
  <2>2. k \in 1 .. n
    OBVIOUS
  <2>3. k = j
    BY <1>5, <2>1, <2>2
  <2>4. QED
    BY <2>3
<1>9. ASSUME Len(files) = 1, ~NoTree(files[1])
      PROVE  /\ Ord # <<>> /\ Ord[n] = files[1]
             /\ \A T \in SUBSET B :
                  files[1] \in T /\ (\A m \in T : Sources(m) \subseteq T) => T = B
  <2>1. PICK f : f = files[1]
    OBVIOUS
  <2>2. f \in Modules /\ WithTree = {f}
    <3>1. files \in Seq(Modules) /\ 1 \in 1 .. 1
      BY DEF FilesOK, PackageOK
    <3>2. \A x : x \in Range(files) <=> \E i \in 1 .. 1 : x = files[i]
      BY <1>9, <3>1, RangeOf
    <3>3. f \in Modules
      BY <1>9, <2>1, <3>1, ElementOfSeq
    <3>4. Range(files) = {f}
      BY <2>1, <3>2
    <3>5. QED
      BY <1>9, <2>1, <3>3, <3>4 DEF WithTree
  <2>3. ASSUME NEW T \in SUBSET B, f \in T, \A m \in T : Sources(m) \subseteq T PROVE T = B
    <3>1. \A m \in T : header[m] = "ok"
      BY <1>2
    <3>2. Closed(T)
      BY <2>3 DEF Closed, Import, Sources
    <3>3. {f} \subseteq T
      BY <2>3
    <3>4. Below({f}) \subseteq T
      BY <1>3, <3>2, <3>3, BelowLeast
    <3>5. QED
      BY <1>2, <2>2, <3>4
  <2>4. f \in B
    BY <1>2, <2>2, BelowIn
  <2>5. n # 0
    BY <1>3, <2>4
  <2>6. Ord[n] = f
    <3>1. SUFFICES ASSUME Ord[n] # f PROVE FALSE
      OBVIOUS
    <3>2. PICK T \in SUBSET B : T = B \ {Ord[n]}
      OBVIOUS
    <3>3. n \in 1 .. n
      BY <2>5
    <3>4. ASSUME NEW m \in T, NEW d \in Sources(m) PROVE d \in T
      <4>1. PICK i \in 1 .. n : m = Ord[i]
        BY <1>3
      <4>2. d # Ord[n]
        BY <1>8, <3>3, <3>4, <4>1
      <4>3. QED
        BY <1>7, <3>2, <3>4, <4>2
    <3>5. T = B
      BY <2>3, <2>4, <3>1, <3>2, <3>4
    <3>6. Ord[n] \in B
      BY <1>3, <3>3
    <3>7. QED
      BY <3>2, <3>5, <3>6
  <2>7. Ord # <<>>
    <3>1. Len(<<>>) = 0
      OBVIOUS
    <3>2. QED
      BY <1>1, <2>5, <3>1
  <2>8. QED
    BY <2>1, <2>3, <2>6, <2>7
<1>10. QED
  BY <1>1, <1>2, <1>4, <1>5, <1>7, <1>8, <1>9 DEF AsAssumed

\* The order that getBuildMods hands to buildMods, for one main file or several,
\* is one that IncrementalBuild may assume.
THEOREM BuildOrderAsAssumed ==
  TreeSpec => [](at > Len(files) /\ error = NoError => AsAssumed(BuildOrder))
<1>1. ASSUME TreeInv, OrderIsTopological, at > Len(files), error = NoError
      PROVE  AsAssumed(BuildOrder)
  <2>1. FilesOK /\ ListOK(done)
    BY <1>1 DEF TreeInv, DoneOK
  <2>2. /\ IsInjective(BuildOrder) /\ InOrder(BuildOrder)
        /\ Range(BuildOrder) = Below(WithTree)
    BY <1>1 DEF OrderIsTopological
  <2>3. BuildOrder \in Seq(Modules) /\ Range(BuildOrder) = Range(done)
    BY <2>1, DropLaterFacts DEF ListOK, BuildOrder
  <2>4. \A m \in Range(BuildOrder) : header[m] = "ok"
    BY <2>1, <2>3 DEF ListOK
  <2>5. QED
    BY <2>1, <2>2, <2>3, <2>4, OrderAsAssumed
<1>2. TreeInv /\ OrderIsTopological =>
        (at > Len(files) /\ error = NoError => AsAssumed(BuildOrder))
  BY <1>1
<1>3. QED
  BY <1>2, TreeInvariant, BuildOrderIsTopological, PTL
=============================================================================
