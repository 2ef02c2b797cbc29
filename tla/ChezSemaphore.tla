--------------------------- MODULE ChezSemaphore ---------------------------
(***************************************************************************)
(* The counting semaphore of the Chez Scheme runtime                       *)
(* (support/chez/support.ss, blodwen-make-semaphore, -post and -wait).     *)
(*                                                                         *)
(* A semaphore is a record of a box, a mutex and a condition.  The box is  *)
(* touched only under the mutex, so a step here is either an acquisition   *)
(* of the mutex or the whole body that runs under it.  The wait tests the  *)
(* box with `when', not in a loop: a thread that is woken takes a permit   *)
(* without looking at the box again.                                       *)
(***************************************************************************)
EXTENDS Integers, FiniteSets

CONSTANTS
  Threads,     \* threads that share the semaphore
  Waiters,     \* those of them that may call semaphore-wait
  NoThread,    \* "nobody holds the mutex"
  InitCount,   \* the argument of make-semaphore: any Int is accepted
  MaxPosts,    \* bound: calls of semaphore-post that a behaviour makes
  MaxWaits     \* bound: calls of semaphore-wait that a behaviour makes

ASSUME SemaphoreAssumption ==
  /\ IsFiniteSet(Threads)
  /\ Waiters \subseteq Threads
  /\ NoThread \notin Threads
  /\ InitCount \in Int
  /\ MaxPosts \in Nat
  /\ MaxWaits \in Nat

VARIABLES
  box,         \* semaphore-box: the internal counter
  owner,       \* who holds semaphore-mutex
  pc,          \* where each thread is
  posts,       \* calls of semaphore-post so far
  waits,       \* calls of semaphore-wait so far
  overtaken    \* history: a thread passed the test of the box while another
               \* thread, already signalled, had still to reacquire the mutex

vars == <<box, owner, pc, posts, waits, overtaken>>

Waiting == {t \in Threads : pc[t] = "waiting"}
Woken == {t \in Threads : pc[t] = "woken"}
Reserved == {t \in Threads : pc[t] \in {"woken", "take"}}

Init ==
  /\ box = InitCount
  /\ owner = NoThread
  /\ pc = [t \in Threads |-> "idle"]
  /\ posts = 0
  /\ waits = 0
  /\ overtaken = FALSE

Goto(t, l) == pc' = [pc EXCEPT ![t] = l]

CallPost(t) ==
  /\ pc[t] = "idle"
  /\ posts < MaxPosts
  /\ posts' = posts + 1
  /\ Goto(t, "post_lock")
  /\ UNCHANGED <<box, owner, waits, overtaken>>

CallWait(t) ==
  /\ t \in Waiters
  /\ pc[t] = "idle"
  /\ waits < MaxWaits
  /\ waits' = waits + 1
  /\ Goto(t, "wait_lock")
  /\ UNCHANGED <<box, owner, posts, overtaken>>

\* with-mutex: the mutex is free and t gets it.
Acquire(t, from, to) ==
  /\ pc[t] = from
  /\ owner = NoThread
  /\ owner' = t
  /\ Goto(t, to)
  /\ UNCHANGED <<box, posts, waits, overtaken>>

PostAcquire(t) == Acquire(t, "post_lock", "post")
WaitAcquire(t) == Acquire(t, "wait_lock", "test")
Reacquire(t) == Acquire(t, "woken", "take")

\* condition-signal at the end of t's post: one sleeping thread, whichever, is
\* released from the condition; a signal nobody waits for is forgotten.
SignalOne(t) ==
  \/ /\ Waiting = {}
     /\ Goto(t, "idle")
  \/ \E w \in Waiting : pc' = [pc EXCEPT ![t] = "idle", ![w] = "woken"]

\* Mutants of the signal: only when the counter was zero, to everybody, to
\* nobody.
SignalFirstOnly(t) ==
  \/ /\ Waiting = {} \/ box # 0
     /\ Goto(t, "idle")
  \/ \E w \in Waiting : box = 0 /\ pc' = [pc EXCEPT ![t] = "idle", ![w] = "woken"]

BroadcastAll(t) ==
  pc' = [u \in Threads |-> IF u = t THEN "idle"
                           ELSE IF u \in Waiting THEN "woken" ELSE pc[u]]

SignalNobody(t) == Goto(t, "idle")

CondSignal(t) == SignalOne(t)

Post(t) ==
  /\ pc[t] = "post"
  /\ box' = box + 1
  /\ CondSignal(t)
  /\ owner' = NoThread
  /\ UNCHANGED <<posts, waits, overtaken>>

\* Mutant: the mutex stays locked while the thread sleeps.
SleepHoldingMutex(t) ==
  /\ pc[t] = "test"
  /\ box = 0
  /\ Goto(t, "waiting")
  /\ UNCHANGED <<box, owner, posts, waits, overtaken>>

\* The box is zero: condition-wait releases the mutex and sleeps.
Sleep(t) ==
  /\ pc[t] = "test"
  /\ box = 0
  /\ owner' = NoThread
  /\ Goto(t, "waiting")
  /\ UNCHANGED <<box, posts, waits, overtaken>>

\* The box is not zero, whatever its sign: go straight to the decrement.
PassTest(t) ==
  /\ pc[t] = "test"
  /\ box # 0
  /\ Goto(t, "take")
  /\ overtaken' = (overtaken \/ Woken # {})
  /\ UNCHANGED <<box, owner, posts, waits>>

Take(t) ==
  /\ pc[t] = "take"
  /\ box' = box - 1
  /\ owner' = NoThread
  /\ Goto(t, "idle")
  /\ UNCHANGED <<posts, waits, overtaken>>

\* What the runtime does for a thread that is inside an operation.
Internal(t) ==
  \/ PostAcquire(t)
  \/ Post(t)
  \/ WaitAcquire(t)
  \/ Sleep(t)
  \/ PassTest(t)
  \/ Reacquire(t)
  \/ Take(t)

Next == \E t \in Threads : CallPost(t) \/ CallWait(t) \/ Internal(t)

\* A thread inside an operation keeps running; nothing forces a program to
\* make further calls.
Fairness == \A t \in Threads : WF_vars(Internal(t))

Spec == Init /\ [][Next]_vars /\ Fairness

-----------------------------------------------------------------------------
Labels == {"idle", "post_lock", "post", "wait_lock", "test", "waiting", "woken", "take"}
Critical == {"post", "test", "take"}

\* The state is well formed, and the mutex is held by exactly the thread that
\* is in a critical section.
TypeOK ==
  /\ box \in Int
  /\ owner \in Threads \cup {NoThread}
  /\ pc \in [Threads -> Labels]
  /\ posts \in 0..MaxPosts
  /\ waits \in 0..MaxWaits
  /\ overtaken \in BOOLEAN
  /\ \A t \in Threads : pc[t] \in Critical <=> owner = t

\* While a thread sleeps in semaphore-wait, every permit in the box is spoken
\* for by a thread that has been woken or has passed the test and will take
\* it: blodwen-semaphore-post never loses a wakeup, though it signals once
\* per post and the wait does not retest the box.
NoLostWakeup == Waiting # {} => box <= Cardinality(Reserved)

\* As long as no thread has slipped in between the signal to a sleeping thread
\* and its wakeup, the counter covers every permit promised to a thread: in
\* particular it is never negative.  This is the exact limit of the missing
\* loop in blodwen-semaphore-wait.
PermitsCovered ==
  (InitCount >= 0 /\ ~overtaken) => box >= Cardinality(Reserved)

\* If the program lets only one thread wait (a thread handle, whose joiner is
\* unique because threadWait is linear) nobody can be overtaken.
OneWaiterIsSafe ==
  (InitCount >= 0 /\ Cardinality(Waiters) <= 1) => box >= 0

\* A permit does not stay in the box beside a sleeping thread forever.
PermitsGetUsed == (Waiting # {} /\ box > 0) ~> (Waiting = {} \/ box <= 0)

\* What System.Concurrency says of semaphoreWait: "When the counter is
\* non-zero, it is decremented".  Stated of every decrement.
DecrementOnlyNonZero == [][box' = box - 1 => box # 0]_vars
=============================================================================
