-------------------------- MODULE IncrementalBuild --------------------------
(***************************************************************************)
(* The incremental build of the Idris 2 compiler: which of the modules a   *)
(* main file depends on are elaborated again, and what is left on disk     *)
(* (src/Idris/ModTree.idr buildDeps, buildMods, buildMod,                  *)
(* needsBuildingTime, needsBuildingHash; src/Idris/ProcessIdr.idr process, *)
(* processMod;                                                             *)
(* src/Core/Binary.idr writeToTTC, readHashes, readImportHashes;           *)
(* src/Core/Metadata.idr writeToTTM, readFromTTM).                         *)
(*                                                                         *)
(* One compiler runs at a time.  The user may edit a source file at any    *)
(* moment, the clock that stamps files ticks in whole seconds, and the     *)
(* compiler may be killed between two steps or inside a write.  It tells   *)
(* what is out of date by time stamps or, with -Xcheck-hashes, by hashes.  *)
(***************************************************************************)
EXTENDS Naturals, Sequences, FiniteSets

CONSTANTS
  Mods,        \* the modules below the main file, itself included
  Order,       \* the build order that getBuildMods found, the main file last
  Imports,     \* Imports[m]: the modules m imports
  Reexports,   \* Reexports[m]: those it imports publicly
  Contents,    \* what a source file may contain: its header can be read, its
               \* imports do not change
  Public,      \* Public[c]: the part of c that enters the interface hash
  Fits(_, _),  \* Fits(c, ifaces): c elaborates where the modules it loads have
               \* these interfaces; no interfaces suit a text that is broken
  FirstContent,\* what every file contains at the start
  NoContent,   \* "there is no such file, or it cannot be decoded"
  NoIface,     \* the interface hash of a file that cannot be read
  MaxClock,    \* bound: seconds that pass
  MaxEdits,    \* bound: edits
  MaxBuilds,   \* bound: runs of the compiler
  MaxCrashes   \* bound: runs that are killed, or whose write fails

Main == Order[Len(Order)]

ASSUME BuildAssumption ==
  /\ IsFiniteSet(Mods)
  /\ Order \in Seq(Mods) /\ Order # <<>>
  /\ \A m \in Mods : \E i \in 1..Len(Order) : Order[i] = m
  /\ \A i, j \in 1..Len(Order) : Order[i] = Order[j] => i = j
  /\ Imports \in [Mods -> SUBSET Mods]
  /\ Reexports \in [Mods -> SUBSET Mods]
  /\ \A m \in Mods : Reexports[m] \subseteq Imports[m]
  /\ \A i, j \in 1..Len(Order) : Order[j] \in Imports[Order[i]] => j < i
  /\ \A T \in SUBSET Mods : Main \in T /\ (\A m \in T : Imports[m] \subseteq T) => T = Mods
  /\ FirstContent \in Contents
  /\ NoContent \notin Contents
  /\ MaxClock \in Nat \ {0}
  /\ {MaxEdits, MaxBuilds, MaxCrashes} \subseteq Nat

VARIABLES
  session,   \* the options: compare hashes; the sources have a directory
  clock,     \* the current second; 0 is the Epoch
  src,       \* the source files: content and modification time
  ttc,       \* the checked modules on disk
  ttm,       \* the metadata files: the content each was made from
  stage,     \* what the compiler is doing
  next,      \* the position in Order it has reached
  text,      \* the source text it has read for that module
  result,    \* how the last run ended
  quiet,     \* history: no edit since the last run began
  racing,    \* history: the module in work was edited after it was read
  risky,     \* history: modules edited behind the back of the time stamps
  raced,     \* history: modules written from a text that was edited meanwhile
  edits, builds, crashes

disk == <<src, ttc, ttm>>
run == <<stage, next, text, result>>
vars == <<session, clock, disk, run, quiet, racing, risky, raced, edits, builds, crashes>>

-----------------------------------------------------------------------------
(* Files *)

\* modTime of a missing file is 0, readHashes gives ("", 0), readImportHashes [].
NoTTC == [state |-> "none", time |-> 0, content |-> NoContent,
          hash |-> NoContent, iface |-> NoIface, imports |-> <<>>]

\* The interface hash covers the public part of the module and, by
\* addPublicHash, the hashes of the imports it re-exports.
Iface(m, c, imports) == <<Public[c], [d \in Reexports[m] |-> imports[d]]>>

ImportHashes(m) == [d \in Imports[m] |-> ttc[d].iface]

\* writeToTTC hashes the source file that is there when it writes.
WholeTTC(m, c) == [state |-> "whole", time |-> clock, content |-> c,
                   hash |-> src[m].content,
                   iface |-> Iface(m, c, ImportHashes(m)), imports |-> ImportHashes(m)]

\* A write that stops before, or after, the hashes at the head of the file.
CutTTC(m, c) == {[NoTTC EXCEPT !.state = "cut", !.time = clock],
                 [WholeTTC(m, c) EXCEPT !.state = "cut"]}

\* The modules reached from S along R: loading a module loads, transitively,
\* what it re-exports; loading the main file loads everything.
Closure(S, R) ==
  {m \in Mods : \A T \in SUBSET Mods :
                  S \subseteq T /\ (\A d \in T : R[d] \subseteq T) => m \in T}

Loadable(S) == \A m \in S : ttc[m].state = "whole"

\* What the elaboration of m sees of other modules.
Loads(m) == Closure(Imports[m], Reexports)

-----------------------------------------------------------------------------
Init ==
  /\ session \in [hashes : BOOLEAN, srcdir : BOOLEAN]
  /\ session.srcdir => session.hashes \* it makes no difference to time stamps
  /\ clock = 1
  /\ src = [m \in Mods |-> [content |-> FirstContent, time |-> 1]]
  /\ ttc = [m \in Mods |-> NoTTC]
  /\ ttm = [m \in Mods |-> NoContent]
  /\ stage = "idle" /\ next = 1 /\ text = NoContent /\ result = "none"
  /\ quiet = TRUE /\ racing = FALSE /\ risky = {} /\ raced = {}
  /\ edits = 0 /\ builds = 0 /\ crashes = 0

\* Nothing reads the clock when hashes are compared.
ClockBound == IF session.hashes THEN 1 ELSE MaxClock

Tick ==
  /\ clock < ClockBound
  /\ clock' = clock + 1
  /\ UNCHANGED <<session, disk, run, quiet, racing, risky, raced, edits, builds, crashes>>

\* The user saves another content.  The time stamps cannot show it when the
\* checked module was written in this very second; nor when the compiler has
\* read the old text and has still to write.
Edit(m, c) ==
  /\ edits < MaxEdits
  /\ c # src[m].content
  /\ src' = [src EXCEPT ![m] = [content |-> c, time |-> clock]]
  /\ risky' = IF ttc[m].time = clock THEN risky \cup {m} ELSE risky \ {m}
  /\ racing' = (racing \/ (stage \in {"elaborate", "write_ttc"} /\ Order[next] = m))
  /\ quiet' = FALSE
  /\ edits' = edits + 1
  /\ UNCHANGED <<session, clock, ttc, ttm, run, raced, builds, crashes>>

Quietly == UNCHANGED <<session, clock, src, quiet, risky, raced, edits, builds, crashes>>

\* buildDeps begins.
StartBuild ==
  /\ stage = "idle"
  /\ builds < MaxBuilds
  /\ builds' = builds + 1
  /\ stage' = "check"
  /\ next' = 1
  /\ text' = NoContent
  /\ result' = "none"
  /\ quiet' = TRUE
  /\ UNCHANGED <<session, clock, disk, racing, risky, raced, edits, crashes>>

\* buildMods goes on to the next module, or to loading the main file.
Advance ==
  /\ text' = NoContent
  /\ UNCHANGED result
  /\ \/ next < Len(Order) /\ next' = next + 1 /\ stage' = "check"
     \/ next = Len(Order) /\ next' = next /\ stage' = "load"

\* Errors: the rest of the build is given up.
GiveUp ==
  /\ stage' = "idle"
  /\ result' = "errors"
  /\ text' = NoContent
  /\ UNCHANGED next

\* Mutant: out of date only if everything is newer.
NeedsBuildingAll(m) ==
  \A t \in {src[m].time} \cup {ttc[d].time : d \in Imports[m]} : t >= ttc[m].time

NeedsBuildingTime(m) ==
  \/ src[m].time >= ttc[m].time
  \/ \E d \in Imports[m] : ttc[d].time >= ttc[m].time

\* It is given the checked module of an import, and looks for the hash that
\* was stored with it under the name of the checked module of THAT file.
\* Where the sources have no directory there is no such file, and the hashes
\* differ; else the name is an error, which counts as no difference.
CheckDepHashes == ~session.srcdir

NeedsBuildingHash(m) ==
  \/ src[m].content # ttc[m].hash
  \/ CheckDepHashes /\ \E d \in Imports[m] : ttc[d].state # "none"

NeedsBuilding(m) ==
  IF session.hashes THEN NeedsBuildingHash(m) ELSE NeedsBuildingTime(m)

\* buildMod up to date: nothing to do.
BuildModSkip ==
  /\ stage = "check"
  /\ ~NeedsBuilding(Order[next])
  /\ Advance
  /\ UNCHANGED <<ttc, ttm, racing>>
  /\ Quietly

\* buildMod calls process, which reads the source file.
Read ==
  /\ stage = "check"
  /\ NeedsBuilding(Order[next])
  /\ text' = src[Order[next]].content
  /\ stage' = "elaborate"
  /\ racing' = FALSE
  /\ UNCHANGED <<next, result, ttc, ttm>>
  /\ Quietly

SourceUnchanged(m) ==
  IF session.hashes THEN src[m].content = ttc[m].hash
                    ELSE src[m].time <= ttc[m].time

\* Mutants of the test in processMod: the import hashes are not compared, the
\* test never succeeds.
UnchangedSourceOnly(m) == SourceUnchanged(m)
NeverUnchanged(m) == FALSE

\* processMod: neither the source nor the interfaces of the imports changed.
Unchanged(m) ==
  /\ SourceUnchanged(m)
  /\ ImportHashes(m) = ttc[m].imports

ProcessSkip ==
  /\ stage = "elaborate"
  /\ Unchanged(Order[next])
  /\ Advance
  /\ UNCHANGED <<ttc, ttm, racing>>
  /\ Quietly

\* The text is elaborated against the checked forms of what it imports, even
\* where those are not what their sources say now.
ElaboratesOk(m) ==
  /\ Loadable(Loads(m))
  /\ Fits(text, [d \in Loads(m) |-> ttc[d].iface])

\* readImport or the declarations fail: the old checked module stays.
ElaborateFails ==
  /\ stage = "elaborate"
  /\ ~Unchanged(Order[next])
  /\ ~ElaboratesOk(Order[next])
  /\ GiveUp
  /\ UNCHANGED <<ttc, ttm, racing>>
  /\ Quietly

Elaborate ==
  /\ stage = "elaborate"
  /\ ~Unchanged(Order[next])
  /\ ElaboratesOk(Order[next])
  /\ stage' = "write_ttc"
  /\ UNCHANGED <<next, text, result, ttc, ttm, racing>>
  /\ Quietly

WriteTTC ==
  /\ stage = "write_ttc"
  /\ ttc' = [ttc EXCEPT ![Order[next]] = WholeTTC(Order[next], text)]
  /\ risky' = IF racing THEN risky \cup {Order[next]} ELSE risky \ {Order[next]}
  /\ raced' = IF racing THEN raced \cup {Order[next]} ELSE raced \ {Order[next]}
  /\ stage' = "write_ttm"
  /\ UNCHANGED <<session, next, text, result, clock, src, ttm, quiet, racing, edits,
                 builds, crashes>>

\* Mutant: the metadata is not written.
WriteTTMForgotten ==
  /\ stage = "write_ttm"
  /\ Advance
  /\ UNCHANGED <<ttc, ttm, racing>>
  /\ Quietly

WriteTTM ==
  /\ stage = "write_ttm"
  /\ ttm' = [ttm EXCEPT ![Order[next]] = text]
  /\ Advance
  /\ UNCHANGED <<ttc, racing>>
  /\ Quietly

MainLoads ==
  /\ Loadable(Closure({Main}, Imports))
  /\ ttm[Main] # NoContent

\* buildDeps reloads the main module, all it imports, and its metadata.
LoadMain ==
  /\ stage = "load"
  /\ stage' = "idle"
  /\ result' = IF MainLoads THEN "ok" ELSE "errors"
  /\ UNCHANGED <<next, text, ttc, ttm, racing>>
  /\ Quietly

\* The compiler is killed, between two steps or inside a write; a write that
\* fails (a full disk) leaves the same files.
Crash ==
  /\ stage # "idle"
  /\ crashes < MaxCrashes
  /\ crashes' = crashes + 1
  /\ stage' = "idle"
  /\ result' = "crashed"
  /\ text' = NoContent
  /\ \/ UNCHANGED <<ttc, ttm>>
     \/ /\ stage = "write_ttc"
        /\ \E f \in CutTTC(Order[next], text) : ttc' = [ttc EXCEPT ![Order[next]] = f]
        /\ UNCHANGED ttm
     \/ /\ stage = "write_ttm"
        /\ ttm' = [ttm EXCEPT ![Order[next]] = NoContent]
        /\ UNCHANGED ttc
  /\ UNCHANGED <<session, clock, src, next, quiet, racing, risky, raced, edits, builds>>

Compile ==
  \/ BuildModSkip
  \/ Read
  \/ ProcessSkip
  \/ ElaborateFails
  \/ Elaborate
  \/ WriteTTC
  \/ WriteTTM
  \/ LoadMain

Next ==
  \/ Tick
  \/ \E m \in Mods, c \in Contents : Edit(m, c)
  \/ StartBuild
  \/ Compile
  \/ Crash

Spec == Init /\ [][Next]_vars

-----------------------------------------------------------------------------
Stages == {"idle", "check", "elaborate", "write_ttc", "write_ttm", "load"}

\* The state of the build is well formed, and time stamps lie in the past.
TypeOK ==
  /\ clock \in 1..ClockBound
  /\ \A m \in Mods : src[m].content \in Contents /\ src[m].time \in 1..clock
  /\ \A m \in Mods : /\ ttc[m].state \in {"none", "whole", "cut"}
                     /\ ttc[m].time \in 0..clock
                     /\ ttc[m].state = "whole" => ttc[m].content \in Contents
  /\ ttm \in [Mods -> Contents \cup {NoContent}]
  /\ stage \in Stages
  /\ next \in 1..Len(Order)
  /\ text \in Contents \cup {NoContent}
  /\ result \in {"none", "ok", "errors", "crashed"}
  /\ risky \subseteq Mods /\ raced \subseteq Mods

\* What the interfaces of the first i modules are, computed from the sources
\* alone.
IfacesUpTo[i \in 0..Len(Order)] ==
  IF i = 0 THEN [m \in Mods |-> NoIface]
  ELSE [IfacesUpTo[i - 1] EXCEPT ![Order[i]] =
          Iface(Order[i], src[Order[i]].content, IfacesUpTo[i - 1])]

TrueIface == IfacesUpTo[Len(Order)]

Succeeded == stage = "idle" /\ result = "ok" /\ quiet

\* The edits the comparison cannot see.
Hidden == IF session.hashes THEN raced ELSE risky

\* After a run that reports success and during which nobody edited, every
\* checked module was made from the source that is on disk, except modules
\* edited while they were elaborated and, where time stamps are compared, in
\* the second of their last write.
\* The metadata belongs to the same text, unless a run was cut short between
\* the two files.
SuccessMeansFresh ==
  Succeeded =>
    \A m \in Mods : /\ ttc[m].state = "whole"
                    /\ m \notin Hidden => ttc[m].content = src[m].content
                    /\ crashes = 0 => ttm[m] = ttc[m].content

\* The source of m elaborates against what the sources of the others say.
SourceFits(m) == Fits(src[m].content, [d \in Loads(m) |-> TrueIface[d]])

\* And it was checked against what the sources of its imports, and of what
\* those re-export, say now: no interface change is missed, although a module
\* is rebuilt only when the hash of a DIRECT import changed, and so no success
\* is reported for sources that do not elaborate together.  This fails where
\* hashes are compared and the sources have a directory: a module whose own
\* source is the same is skipped whatever became of its imports.
SuccessMeansConsistent ==
  /\ TypeOK
  /\ (Succeeded /\ Hidden = {} /\ ~session.srcdir) =>
    \A m \in Mods : /\ ttc[m].imports = [d \in Imports[m] |-> TrueIface[d]]
                    /\ SourceFits(m)

\* A checked module that is not what its source and its imports make now.
Stale(m) == ttc[m].content # src[m].content \/ ttc[m].imports # ImportHashes(m)

\* An undisturbed run fails only for a reason: a source does not elaborate
\* against the sources of what it imports; or the run has gone past a module
\* whose checked form is stale, which takes an edit that the comparison cannot
\* see or hashes with a source directory; or an earlier run was cut short and
\* left a file that is newer than its source but is missing or cannot be
\* decoded.
FailureHasReason ==
  (stage = "idle" /\ result = "errors" /\ quiet) =>
    \/ \E m \in Mods : ~SourceFits(m)
    \/ /\ Hidden # {} \/ session.srcdir
       /\ \E i \in 1..(next - 1) : Stale(Order[i])
    \/ crashes > 0 /\ \E m \in Mods : ttc[m].state = "cut" \/ ttm[m] = NoContent

\* A module is written again only if its source is newer than its checked
\* form, or has another hash than the one recorded there or was edited during
\* the run, or the interface of an import is not the one recorded: a change of
\* a private definition does not cascade.
NoNeedlessRebuild ==
  [][\A m \in Mods : ttc'[m] # ttc[m] =>
       \/ ~session.hashes /\ src[m].time > ttc[m].time
       \/ session.hashes /\ (src[m].content # ttc[m].hash \/ racing)
       \/ ImportHashes(m) # ttc[m].imports]_vars
=============================================================================
