---------------------------- MODULE SupportSignal ----------------------------
(***************************************************************************)
(* Collected signals (support/c/idris_signal.c, System.Signal).            *)
(*                                                                         *)
(* A handler that the kernel may run at any moment records signals in one  *)
(* atomic word; threads fetch them one at a time with                      *)
(* handle_next_collected_signal, which loads the word, looks for a bit in  *)
(* its copy and clears that bit in the word: two atomic operations, not    *)
(* one.  The signals of this module end the process unless they are        *)
(* ignored or collected.                                                   *)
(***************************************************************************)
EXTENDS Naturals

CONSTANTS
  SigNums,  \* the signals of interest
  Threads,  \* the threads that fetch collected signals
  MaxRaises \* bound on the signals sent to the process

N_SIGNALS == 32

ASSUME SigNumsAssumption == SigNums \subseteq 0 .. N_SIGNALS - 1

ASSUME MaxRaisesAssumption == MaxRaises \in Nat

VARIABLES
  disposition, \* of each signal: "default", "ignore" or "collect"
  signals,     \* the word: the signals collected and not yet handled
  snapshot,    \* what each thread loaded; {} outside of a call
  alive,       \* the process has not been ended by a signal
  raises,      \* signals sent
  owed,        \* history: the signals collected since they were last handed out
  overtaken    \* history: what other threads handed out during a thread's call

sigVars == <<disposition, signals, snapshot, alive, raises, owed, overtaken>>

TypeOK ==
  /\ disposition \in [SigNums -> {"default", "ignore", "collect"}]
  /\ signals \subseteq SigNums
  /\ snapshot \in [Threads -> SUBSET SigNums]
  /\ alive \in BOOLEAN
  /\ raises \in 0 .. MaxRaises
  /\ owed \subseteq SigNums
  /\ overtaken \in [Threads -> SUBSET SigNums]

SignalInit ==
  /\ disposition = [s \in SigNums |-> "default"]
  /\ signals = {}
  /\ snapshot = [t \in Threads |-> {}]
  /\ alive = TRUE
  /\ raises = 0
  /\ owed = {}
  /\ overtaken = [t \in Threads |-> {}]

-----------------------------------------------------------------------------
(* ignore_signal, default_signal and collect_signal.  None of them touches *)
(* what has been collected before. *)
SetDisposition(s, d) ==
  /\ alive
  /\ disposition' = [disposition EXCEPT ![s] = d]
  /\ UNCHANGED <<signals, snapshot, alive, raises, owed, overtaken>>

ignore_signal(s)  == SetDisposition(s, "ignore")
default_signal(s) == SetDisposition(s, "default")
collect_signal(s) == SetDisposition(s, "collect")

-----------------------------------------------------------------------------
(* A signal arrives: raise_signal, send_signal of this or another process, *)
(* the terminal. *)
Arrives(s, d) ==
  /\ alive
  /\ raises < MaxRaises
  /\ disposition[s] = d
  /\ raises' = raises + 1

Terminate(s) ==
  /\ Arrives(s, "default")
  /\ alive' = FALSE
  /\ UNCHANGED <<disposition, signals, snapshot, owed, overtaken>>

Discard(s) ==
  /\ Arrives(s, "ignore")
  /\ UNCHANGED <<disposition, signals, snapshot, alive, owed, overtaken>>

(* Mutant: the handler stores its bit instead of adding it. *)
StoreBit(s) ==
  /\ Arrives(s, "collect")
  /\ signals' = {s}
  /\ owed' = owed \cup {s}
  /\ UNCHANGED <<disposition, snapshot, alive, overtaken>>

(* _collect_signal: atomic_fetch_or. *)
CollectSignal(s) ==
  /\ Arrives(s, "collect")
  /\ signals' = signals \cup {s}
  /\ owed' = owed \cup {s}
  /\ UNCHANGED <<disposition, snapshot, alive, overtaken>>

-----------------------------------------------------------------------------
(* handle_next_collected_signal. *)

InCall(t) == snapshot[t] # {}

(* The loop over the signal numbers starts at 0. *)
Lowest(S) == CHOOSE s \in S : \A r \in S : s <= r

(* atomic_load.  When the word is 0 the call is over, with -1. *)
Load(t) ==
  /\ alive /\ ~InCall(t)
  /\ signals # {}
  /\ snapshot' = [snapshot EXCEPT ![t] = signals]
  /\ UNCHANGED <<disposition, signals, alive, raises, owed, overtaken>>

(* The other calls that are under way miss that s is handed out. *)
HandOut(t, s) ==
  /\ owed' = owed \ {s}
  /\ overtaken' = [u \in Threads |-> IF u # t /\ InCall(u)
                                     THEN overtaken[u] \cup {s} ELSE
                                     IF u = t THEN {} ELSE overtaken[u]]
  /\ snapshot' = [snapshot EXCEPT ![t] = {}]

(* Mutant: the word is stored back without the bit instead of being masked. *)
StoreBack(t) ==
  LET s == Lowest(snapshot[t]) IN
  /\ alive /\ InCall(t)
  /\ signals' = snapshot[t] \ {s}
  /\ HandOut(t, s)
  /\ UNCHANGED <<disposition, alive, raises>>

(* Mutant: the bit is not cleared. *)
KeepBit(t) ==
  LET s == Lowest(snapshot[t]) IN
  /\ alive /\ InCall(t)
  /\ HandOut(t, s)
  /\ UNCHANGED <<disposition, signals, alive, raises>>

(* atomic_fetch_and with the complement of the mask; the signal is returned. *)
TakeLowest(t) ==
  LET s == Lowest(snapshot[t]) IN
  /\ alive /\ InCall(t)
  /\ signals' = signals \ {s}
  /\ HandOut(t, s)
  /\ UNCHANGED <<disposition, alive, raises>>

-----------------------------------------------------------------------------
Dispositions ==
  \E s \in SigNums : ignore_signal(s) \/ default_signal(s) \/ collect_signal(s)

Arrivals == \E s \in SigNums : Terminate(s) \/ Discard(s) \/ CollectSignal(s)

Fetches == \E t \in Threads : Load(t) \/ TakeLowest(t)

SignalNext == Dispositions \/ Arrivals \/ Fetches

(* Each thread calls handleNextCollectedSignal again and again, in each    *)
(* main loop as its documentation asks, and is scheduled. *)
SignalFairness ==
  \A t \in Threads : WF_sigVars(Load(t)) /\ WF_sigVars(TakeLowest(t))

SignalSpec == SignalInit /\ [][SignalNext]_sigVars /\ SignalFairness

-----------------------------------------------------------------------------
(* A signal that the handler recorded stays recorded until some call hands *)
(* it out, although every call clears the word on the strength of a copy   *)
(* that other calls and the handler have outdated. *)
NoSignalLost == owed \subseteq signals

(* What a call hands out has been collected and not handed out since, or   *)
(* another call that overlapped handed it out too: with one thread the     *)
(* documentation's promise, never the same signal again, holds; with two   *)
(* threads it holds for calls that do not overlap. *)
NotTwice ==
  [][\A t \in Threads :
       TakeLowest(t) => Lowest(snapshot[t]) \in owed \cup overtaken[t]]_sigVars

(* Once no more signals are sent, every collected signal is handed out,    *)
(* also those with a high number, which each call passes over as long as   *)
(* a lower one is there. *)
SignalsHandled ==
  \A s \in SigNums : (s \in owed) ~> (s \notin owed \/ ~alive)
=============================================================================
