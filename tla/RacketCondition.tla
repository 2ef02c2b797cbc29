--------------------------- MODULE RacketCondition ---------------------------
(***************************************************************************)
(* The condition variable of the Racket runtime (support/racket/           *)
(* support.rkt, blodwen-cv-wait, -signal, -broadcast), built from three    *)
(* Racket semaphores and a counter after a Microsoft paper, and the mutex  *)
(* it is used with (blodwen-mutex-acquire, -release).                      *)
(*                                                                         *)
(* Racket threads are preemptive: a step is one operation on a semaphore,  *)
(* with what precedes or follows it under waitersLock, where nobody else   *)
(* looks.  A thread waits while it holds the mutex, as conditionWait       *)
(* demands, and signals or broadcasts with or without it.                  *)
(***************************************************************************)
EXTENDS Naturals, FiniteSets

CONSTANTS
  Threads,        \* threads that share the condition and the mutex
  MaxWaits,       \* bound: calls of conditionWait in a behaviour
  MaxSignals,     \* bound: calls of conditionSignal
  MaxBroadcasts   \* bound: calls of conditionBroadcast

ASSUME ConditionAssumption ==
  /\ IsFiniteSet(Threads)
  /\ {MaxWaits, MaxSignals, MaxBroadcasts} \subseteq Nat

VARIABLES
  mutex,          \* the count of the mutex, a semaphore of 1
  waitersLock,    \* the count of cv-waitersLock
  waiters,        \* cv-waiters
  countingSem,    \* the count of cv-countingSem
  handshakeSem,   \* the count of cv-handshakeSem
  todo,           \* what is left of the loop of the thread that broadcasts
  pc,             \* where each thread is
  back,           \* where it goes on after a signal or a broadcast
  waits, signals, broadcasts,
  stale           \* history: a broadcast has left its waiters in the counter

sems == <<mutex, waitersLock, countingSem, handshakeSem>>
calls == <<waits, signals, broadcasts>>
vars == <<sems, waiters, todo, pc, back, calls, stale>>

At(l) == {t \in Threads : pc[t] = l}

\* Counted by cv-wait and not yet let through by the counting semaphore.
Enrolled == At("release") \cup At("sleep")

Init ==
  /\ mutex = 1 /\ waitersLock = 1 /\ countingSem = 0 /\ handshakeSem = 0
  /\ waiters = 0
  /\ todo = 0
  /\ pc = [t \in Threads |-> "idle"]
  /\ back = [t \in Threads |-> "idle"]
  /\ waits = 0 /\ signals = 0 /\ broadcasts = 0
  /\ stale = FALSE

Step(t, from, to) == pc[t] = from /\ pc' = [pc EXCEPT ![t] = to]

-----------------------------------------------------------------------------
(* The program *)

\* blodwen-mutex-acquire, outside the condition or at the end of cv-wait.
MutexAcquire(t) ==
  /\ Step(t, "idle", "hold") \/ Step(t, "relock", "hold")
  /\ mutex > 0
  /\ mutex' = mutex - 1
  /\ UNCHANGED <<waitersLock, waiters, countingSem, handshakeSem, todo, back, calls, stale>>

\* blodwen-mutex-release by the holder: the mutex is taken, so it is posted.
MutexRelease(t) ==
  /\ Step(t, "hold", "idle")
  /\ mutex' = mutex + 1
  /\ UNCHANGED <<waitersLock, waiters, countingSem, handshakeSem, todo, back, calls, stale>>

CallWait(t) ==
  /\ waits < MaxWaits
  /\ Step(t, "hold", "enrol_lock")
  /\ waits' = waits + 1
  /\ UNCHANGED <<sems, waiters, todo, back, signals, broadcasts, stale>>

CallSignal(t) ==
  /\ signals < MaxSignals
  /\ Step(t, "hold", "signal_lock") \/ Step(t, "idle", "signal_lock")
  /\ back' = [back EXCEPT ![t] = pc[t]]
  /\ signals' = signals + 1
  /\ UNCHANGED <<sems, waiters, todo, waits, broadcasts, stale>>

CallBroadcast(t) ==
  /\ broadcasts < MaxBroadcasts
  /\ Step(t, "hold", "broadcast_lock") \/ Step(t, "idle", "broadcast_lock")
  /\ back' = [back EXCEPT ![t] = pc[t]]
  /\ broadcasts' = broadcasts + 1
  /\ UNCHANGED <<sems, waiters, todo, waits, signals, stale>>

-----------------------------------------------------------------------------
\* semaphore-wait on waitersLock, which opens all three operations; the
\* broadcast reads its loop counter.
LockWaiters(t) ==
  /\ waitersLock > 0
  /\ waitersLock' = waitersLock - 1
  /\ \/ Step(t, "enrol_lock", "enrol") /\ UNCHANGED todo
     \/ Step(t, "signal_lock", "signal") /\ UNCHANGED todo
     \/ Step(t, "broadcast_lock", "post") /\ todo' = waiters
  /\ UNCHANGED <<mutex, waiters, countingSem, handshakeSem, back, calls, stale>>

(* blodwen-cv-wait *)

Enrol(t) ==
  /\ Step(t, "enrol", "release")
  /\ waiters' = waiters + 1
  /\ waitersLock' = waitersLock + 1
  /\ UNCHANGED <<mutex, countingSem, handshakeSem, todo, back, calls, stale>>

WaitRelease(t) ==
  /\ Step(t, "release", "sleep")
  /\ mutex' = mutex + 1
  /\ UNCHANGED <<waitersLock, waiters, countingSem, handshakeSem, todo, back, calls, stale>>

WaitPass(t) ==
  /\ Step(t, "sleep", "shake")
  /\ countingSem > 0
  /\ countingSem' = countingSem - 1
  /\ UNCHANGED <<mutex, waitersLock, waiters, handshakeSem, todo, back, calls, stale>>

\* Mutant: no handshake.
WaitNoHandshake(t) ==
  /\ Step(t, "shake", "relock")
  /\ UNCHANGED <<sems, waiters, todo, back, calls, stale>>

WaitHandshake(t) ==
  /\ Step(t, "shake", "relock")
  /\ handshakeSem' = handshakeSem + 1
  /\ UNCHANGED <<mutex, waitersLock, waiters, countingSem, todo, back, calls, stale>>

(* blodwen-cv-signal *)

\* Nobody is counted: unlock and return.
SignalNobody(t) ==
  /\ Step(t, "signal", back[t])
  /\ waiters = 0
  /\ waitersLock' = waitersLock + 1
  /\ UNCHANGED <<mutex, waiters, countingSem, handshakeSem, todo, back, calls, stale>>

\* Mutant: the thread that is signalled is not discounted.
SignalNoDiscount(t) ==
  /\ Step(t, "signal", "signal_shake")
  /\ waiters > 0
  /\ countingSem' = countingSem + 1
  /\ UNCHANGED <<mutex, waitersLock, waiters, handshakeSem, todo, back, calls, stale>>

SignalOne(t) ==
  /\ Step(t, "signal", "signal_shake")
  /\ waiters > 0
  /\ waiters' = waiters - 1
  /\ countingSem' = countingSem + 1
  /\ UNCHANGED <<mutex, waitersLock, handshakeSem, todo, back, calls, stale>>

SignalShake(t) ==
  /\ Step(t, "signal_shake", back[t])
  /\ handshakeSem > 0
  /\ handshakeSem' = handshakeSem - 1
  /\ waitersLock' = waitersLock + 1
  /\ UNCHANGED <<mutex, waiters, countingSem, todo, back, calls, stale>>

(* blodwen-cv-broadcast *)

\* broadcast-for-helper: one post per counted waiter.
BroadcastPost(t) ==
  /\ \/ /\ todo > 0
        /\ Step(t, "post", "post")
        /\ countingSem' = countingSem + 1
        /\ todo' = todo - 1
     \/ /\ todo = 0
        /\ Step(t, "post", "broadcast_shake")
        /\ todo' = waiters
        /\ UNCHANGED countingSem
  /\ UNCHANGED <<mutex, waitersLock, waiters, handshakeSem, back, calls, stale>>

\* broadcast-while-helper: one handshake per counted waiter.
BroadcastShake(t) ==
  /\ todo > 0
  /\ Step(t, "broadcast_shake", "broadcast_shake")
  /\ handshakeSem > 0
  /\ handshakeSem' = handshakeSem - 1
  /\ todo' = todo - 1
  /\ UNCHANGED <<mutex, waitersLock, waiters, countingSem, back, calls, stale>>

\* Mutant: the end of the second loop is not waited for.
AnyHandshakes(n) == TRUE

AllHandshakes(n) == n = 0

\* The end: waitersLock is posted, and cv-waiters is as it was.
BroadcastUnlock(t) ==
  /\ AllHandshakes(todo)
  /\ Step(t, "broadcast_shake", back[t])
  /\ todo' = 0
  /\ waitersLock' = waitersLock + 1
  /\ stale' = (stale \/ waiters > 0)
  /\ UNCHANGED <<mutex, waiters, countingSem, handshakeSem, back, calls>>

-----------------------------------------------------------------------------
Waits(t) == Enrol(t) \/ WaitRelease(t) \/ WaitPass(t) \/ WaitHandshake(t)
Signals(t) == SignalNobody(t) \/ SignalOne(t) \/ SignalShake(t)
Broadcasts(t) == BroadcastPost(t) \/ BroadcastShake(t) \/ BroadcastUnlock(t)

Internal(t) ==
  \/ LockWaiters(t)
  \/ Waits(t)
  \/ Signals(t)
  \/ Broadcasts(t)
  \/ pc[t] = "relock" /\ MutexAcquire(t)

Calls(t) == CallWait(t) \/ CallSignal(t) \/ CallBroadcast(t)

Next == \E t \in Threads :
          Calls(t) \/ MutexAcquire(t) \/ MutexRelease(t) \/ Internal(t)

\* A thread inside an operation runs on.
Fairness == \A t \in Threads : WF_vars(Internal(t))

Spec == Init /\ [][Next]_vars /\ Fairness

-----------------------------------------------------------------------------
Signalling == {"signal_lock", "signal", "signal_shake"}
Broadcasting == {"broadcast_lock", "post", "broadcast_shake"}
Labels == {"idle", "hold", "enrol_lock", "enrol", "release", "sleep", "shake", "relock"}
            \cup Signalling \cup Broadcasting

HoldsMutex(t) ==
  \/ pc[t] \in {"hold", "enrol_lock", "enrol", "release"}
  \/ pc[t] \in Signalling \cup Broadcasting /\ back[t] = "hold"
HoldsWaitersLock(t) ==
  pc[t] \in {"enrol", "signal", "signal_shake", "post", "broadcast_shake"}

\* The state is well formed, and the two binary semaphores are down exactly
\* while some one thread is in the section they guard.
TypeOK ==
  /\ {waiters, countingSem, handshakeSem, todo} \subseteq Nat
  /\ {mutex, waitersLock} \subseteq {0, 1}
  /\ pc \in [Threads -> Labels]
  /\ back \in [Threads -> {"idle", "hold"}]
  /\ waits \in 0..MaxWaits /\ signals \in 0..MaxSignals
  /\ broadcasts \in 0..MaxBroadcasts
  /\ stale \in BOOLEAN
  /\ mutex + Cardinality({t \in Threads : HoldsMutex(t)}) = 1
  /\ waitersLock + Cardinality({t \in Threads : HoldsWaitersLock(t)}) = 1

\* Both locks exclude (TypeOK), and between two operations the counter is the
\* number of threads that wait, and no permit or handshake is left over for a
\* later one; until a broadcast has found somebody.
CountsExact ==
  /\ TypeOK
  /\ (waitersLock = 1 /\ ~stale) =>
       /\ waiters = Cardinality(Enrolled)
       /\ countingSem = 0
       /\ handshakeSem = 0

\* conditionBroadcast "Releases all of the threads waiting": when the first one
\* that found somebody unlocks, everybody counted has been let through, and a
\* thread that comes to wait meanwhile is not.
BroadcastReleasesAll ==
  [][\A t \in Threads :
       (~stale /\ pc[t] = "broadcast_shake" /\ pc'[t] # pc[t]) => Enrolled = {}]_vars

\* A signal or a broadcast returns, until a broadcast has left its count behind.
NotificationsReturn ==
  \A t \in Threads : pc[t] \in Signalling \cup Broadcasting
                       ~> (pc[t] \in {"idle", "hold"} \/ stale)

\* The comment on the second loop of the broadcast, "while (waiters > 0) {
\* waiters--; h.P(); }", read together with the counting in wait and signal:
\* whenever the counter is not locked it is the number of threads that wait.
WaitersCounted == waitersLock = 1 => waiters = Cardinality(Enrolled)
=============================================================================
