----------------------------- MODULE ChezFuture -----------------------------
(***************************************************************************)
(* Futures of the Chez Scheme runtime (support/chez/support.ss,            *)
(* blodwen-make-future and blodwen-await-future): a forked thread computes *)
(* the work, stores it under a mutex and broadcasts; await tests the ready *)
(* flag once, sleeps if it is not set and returns the result field.        *)
(***************************************************************************)
CONSTANTS
  Awaiters,    \* threads that may await the future
  NoThread,    \* "nobody holds the mutex"
  Runner,      \* the thread forked by make-future
  Result,      \* what the work returns
  Unset        \* #f, the initial content of the result field

Threads == Awaiters \cup {Runner}

VARIABLES
  result,    \* future-internal-result
  ready,     \* future-internal-ready
  owner,     \* who holds the mutex
  pc,        \* where each thread is
  returned   \* what await returned to each awaiter, Unset before

vars == <<result, ready, owner, pc, returned>>

Init ==
  /\ result = Unset
  /\ ready = FALSE
  /\ owner = NoThread
  /\ pc = [t \in Threads |-> IF t = Runner THEN "work" ELSE "idle"]
  /\ returned = [t \in Awaiters |-> Unset]

Goto(t, l) == pc' = [pc EXCEPT ![t] = l]

\* (work) returns on the forked thread.
FinishWork ==
  /\ pc[Runner] = "work"
  /\ Goto(Runner, "store_lock")
  /\ UNCHANGED <<result, ready, owner, returned>>

CallAwait(t) ==
  /\ pc[t] = "idle"
  /\ Goto(t, "await_lock")
  /\ UNCHANGED <<result, ready, owner, returned>>

Acquire(t, from, to) ==
  /\ pc[t] = from
  /\ owner = NoThread
  /\ owner' = t
  /\ Goto(t, to)
  /\ UNCHANGED <<result, ready, returned>>

StoreAcquire == Acquire(Runner, "store_lock", "store")
AwaitAcquire(t) == Acquire(t, "await_lock", "test")
AwaitReacquire(t) == Acquire(t, "woken", "read")

\* Set the result and the flag, broadcast, release the mutex, end the thread.
Store ==
  /\ pc[Runner] = "store"
  /\ result' = Result
  /\ ready' = TRUE
  /\ pc' = [t \in Threads |-> IF t = Runner THEN "done"
                              ELSE IF pc[t] = "waiting" THEN "woken" ELSE pc[t]]
  /\ owner' = NoThread
  /\ UNCHANGED returned

Sleep(t) ==
  /\ pc[t] = "test"
  /\ ~ready
  /\ owner' = NoThread
  /\ Goto(t, "waiting")
  /\ UNCHANGED <<result, ready, returned>>

\* Mutant: the test of the ready flag is gone.
ReadUntested(t) ==
  /\ pc[t] \in {"test", "read"}
  /\ returned' = [returned EXCEPT ![t] = result]
  /\ owner' = NoThread
  /\ Goto(t, "got")
  /\ UNCHANGED <<result, ready>>

\* Ready at the test, or woken: return the result field as it is now.
Read(t) ==
  /\ (pc[t] = "test" /\ ready) \/ pc[t] = "read"
  /\ returned' = [returned EXCEPT ![t] = result]
  /\ owner' = NoThread
  /\ Goto(t, "got")
  /\ UNCHANGED <<result, ready>>

RunnerStep == FinishWork \/ StoreAcquire \/ Store
AwaitStep(t) == AwaitAcquire(t) \/ Sleep(t) \/ AwaitReacquire(t) \/ Read(t)

Next == RunnerStep \/ \E t \in Awaiters : CallAwait(t) \/ AwaitStep(t)

Spec == Init /\ [][Next]_vars /\ WF_vars(RunnerStep)
             /\ \A t \in Awaiters : WF_vars(AwaitStep(t))

-----------------------------------------------------------------------------
RunnerLabels == {"work", "store_lock", "store", "done"}
AwaitLabels == {"idle", "await_lock", "test", "waiting", "woken", "read", "got"}

\* The state is well formed, and the mutex is held by the thread that is in a
\* critical section.
TypeOK ==
  /\ result \in {Result, Unset}
  /\ ready \in BOOLEAN
  /\ owner \in Threads \cup {NoThread}
  /\ pc \in [Threads -> RunnerLabels \cup AwaitLabels]
  /\ pc[Runner] \in RunnerLabels
  /\ \A t \in Awaiters : pc[t] \in AwaitLabels
  /\ returned \in [Awaiters -> {Result, Unset}]
  /\ \A t \in Threads : pc[t] \in {"store", "test", "read"} <=> owner = t

\* await returns what the work returned and never the initial #f, although it
\* tests the flag only once; and no awaiter is left asleep once it is set.
AwaitReturnsResult ==
  \A t \in Awaiters : /\ pc[t] = "got" => returned[t] = Result
                      /\ pc[t] = "waiting" => ~ready
=============================================================================
