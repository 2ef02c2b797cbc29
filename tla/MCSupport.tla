------------------------------ MODULE MCSupport ------------------------------
(***************************************************************************)
(* Two questions in one state space: threads that fetch signals in a       *)
(* process that reads nothing, with every signal and every change of its   *)
(* disposition; and every reader of every short stream, in a process that  *)
(* collects its signals, fetches them elsewhere and receives one.          *)
(***************************************************************************)
EXTENDS SupportStream

MCInit ==
  /\ StreamInit
  /\ IF kind = "none"
     THEN SignalInit
     ELSE /\ disposition = [s \in SigNums |-> "collect"]
          /\ signals = {} /\ owed = {} /\ alive = TRUE
          /\ snapshot = [t \in Threads |-> {}] /\ overtaken = snapshot
          /\ raises = MaxRaises - 1
  /\ kind \in {"none", "socket"} => newlines = {} /\ getlineOf = "libc"

MCNext ==
  \/ (IF kind = "none" THEN SignalNext ELSE Fetches) /\ UNCHANGED streamVars
  \/ (Calls \/ ReaderStep \/ Peer) /\ kind # "none" /\ UNCHANGED sigVars
  \/ InterruptedBy(Lowest(SigNums))

MCSpec == MCInit /\ [][MCNext]_vars /\ Fairness
=============================================================================
