---------------------------- MODULE ChezBarrier ----------------------------
(***************************************************************************)
(* The barrier of the Chez Scheme runtime (support/chez/support.ss,        *)
(* blodwen-make-barrier and blodwen-barrier-wait): a counter that is only  *)
(* ever incremented, a mutex and a condition.  The thread that brings the  *)
(* counter to num-threads broadcasts; every other one sleeps once.         *)
(***************************************************************************)
EXTENDS Naturals

CONSTANTS
  Threads,      \* the threads that use the barrier
  NumThreads,   \* the argument of make-barrier
  NoThread,     \* "nobody holds the mutex"
  MaxCalls      \* bound: calls of barrier-wait by each thread

VARIABLES
  count,     \* count-box
  owner,     \* who holds the mutex
  pc,        \* where each thread is
  calls,     \* calls of barrier-wait each thread has made
  ticket     \* history: the count-new of each thread's last arrival

vars == <<count, owner, pc, calls, ticket>>

Init ==
  /\ count = 0
  /\ owner = NoThread
  /\ pc = [t \in Threads |-> "out"]
  /\ calls = [t \in Threads |-> 0]
  /\ ticket = [t \in Threads |-> 0]

Call(t) ==
  /\ pc[t] = "out"
  /\ calls[t] < MaxCalls
  /\ calls' = [calls EXCEPT ![t] = @ + 1]
  /\ pc' = [pc EXCEPT ![t] = "lock"]
  /\ UNCHANGED <<count, owner, ticket>>

\* with-mutex on entry, or the end of condition-wait.
Acquire(t) ==
  /\ pc[t] \in {"lock", "woken"}
  /\ owner = NoThread
  /\ owner' = t
  /\ pc' = [pc EXCEPT ![t] = IF @ = "lock" THEN "arrive" ELSE "leave"]
  /\ UNCHANGED <<count, calls, ticket>>

Waiting == {t \in Threads : pc[t] = "waiting"}

\* condition-broadcast releases every sleeping thread from the condition.
Broadcast(t) ==
  pc' = [u \in Threads |-> IF u = t THEN "leave"
                           ELSE IF u \in Waiting THEN "woken" ELSE pc[u]]

\* Mutant: condition-signal instead of condition-broadcast.
SignalOne(t) ==
  \/ Waiting = {} /\ pc' = [pc EXCEPT ![t] = "leave"]
  \/ \E w \in Waiting : pc' = [pc EXCEPT ![t] = "leave", ![w] = "woken"]

WakeAll(t) == Broadcast(t)

\* Mutant: the thread before the last one opens the barrier.
LastArrivalEarly(n) == n + 1 = NumThreads

LastArrival(n) == n = NumThreads

\* count-new is the last arrival: wake the others and go on.
ArriveLast(t) ==
  /\ pc[t] = "arrive"
  /\ count' = count + 1
  /\ LastArrival(count + 1)
  /\ WakeAll(t)
  /\ ticket' = [ticket EXCEPT ![t] = count + 1]
  /\ UNCHANGED <<owner, calls>>

\* Any other arrival, early or late: condition-wait.
ArriveAndSleep(t) ==
  /\ pc[t] = "arrive"
  /\ count' = count + 1
  /\ ~LastArrival(count + 1)
  /\ pc' = [pc EXCEPT ![t] = "waiting"]
  /\ owner' = NoThread
  /\ ticket' = [ticket EXCEPT ![t] = count + 1]
  /\ UNCHANGED calls

\* The end of with-mutex: release the mutex and return.
Leave(t) ==
  /\ pc[t] = "leave"
  /\ owner' = NoThread
  /\ pc' = [pc EXCEPT ![t] = "out"]
  /\ UNCHANGED <<count, calls, ticket>>

Internal(t) == Acquire(t) \/ ArriveLast(t) \/ ArriveAndSleep(t) \/ Leave(t)

Next == \E t \in Threads : Call(t) \/ Internal(t)

Spec == Init /\ [][Next]_vars /\ \A t \in Threads : WF_vars(Internal(t))

-----------------------------------------------------------------------------
Labels == {"out", "lock", "arrive", "waiting", "woken", "leave"}

\* The state is well formed, and the mutex is held by the thread that is
\* arriving or leaving.
TypeOK ==
  /\ count \in Nat
  /\ owner \in Threads \cup {NoThread}
  /\ pc \in [Threads -> Labels]
  /\ calls \in [Threads -> 0..MaxCalls]
  /\ ticket \in [Threads -> Nat]
  /\ \A t \in Threads : pc[t] \in {"arrive", "leave"} <=> owner = t

\* A thread is past its n-th barrier-wait when it has made n calls and is out.
Passed(t) == calls[t] > 0 /\ pc[t] = "out"

\* barrier-wait "Blocks the current thread until all threads have rendezvoused
\* here": nobody gets past it, or is about to, before NumThreads arrivals.
Rendezvous ==
  \A t \in Threads : Passed(t) \/ pc[t] \in {"woken", "leave"} => count >= NumThreads

\* Once NumThreads threads have arrived, none of the first NumThreads arrivals
\* sleeps: the single broadcast misses nobody.
FirstRoundReleased ==
  \A t \in Threads : pc[t] = "waiting" /\ count >= NumThreads => ticket[t] > NumThreads
=============================================================================
