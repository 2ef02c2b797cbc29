---------------------------- MODULE ChezForkJoin ----------------------------
(***************************************************************************)
(* A fork/join program on the Chez Scheme runtime, in the shape of the     *)
(* tests under tests/chez (forkjoin001, barrier001, futures001): the       *)
(* parent makes a barrier and a future and forks the workers; every worker *)
(* waits at the barrier, awaits the future and returns; the parent joins   *)
(* one worker.                                                             *)
(*                                                                         *)
(* The thread handle (blodwen-thread, blodwen-thread-wait) is a semaphore  *)
(* that starts at 0, is posted when the forked procedure returns and is    *)
(* waited for by the joiner; threadWait is linear in the handle, so it has *)
(* one waiter.  Handles of different threads share nothing: the model      *)
(* keeps the handle of the worker Joined.                                  *)
(***************************************************************************)
EXTENDS Integers, FiniteSets

CONSTANTS Workers, Joined, Parent, Runner, NoThread, Result, Unset

ASSUME ForkJoinAssumption ==
  /\ IsFiniteSet(Workers)
  /\ Joined \in Workers
  /\ Parent \notin Workers
  /\ Runner \notin Workers
  /\ NoThread \notin Workers \cup {Parent, Runner}
  /\ Result # Unset

VARIABLES
  bCount, bOwner, bPc, bCalls, bTicket,           \* the barrier
  fResult, fReady, fOwner, fPc, fReturned,        \* the future
  hBox, hOwner, hPc, hPosts, hWaits, hOvertaken   \* the thread handle

barrierVars == <<bCount, bOwner, bPc, bCalls, bTicket>>
futureVars == <<fResult, fReady, fOwner, fPc, fReturned>>
handleVars == <<hBox, hOwner, hPc, hPosts, hWaits, hOvertaken>>
vars == <<barrierVars, futureVars, handleVars>>

Barrier == INSTANCE ChezBarrier WITH
  Threads <- Workers, NumThreads <- Cardinality(Workers), MaxCalls <- 1,
  count <- bCount, owner <- bOwner, pc <- bPc, calls <- bCalls, ticket <- bTicket

Future == INSTANCE ChezFuture WITH
  Awaiters <- Workers,
  result <- fResult, ready <- fReady, owner <- fOwner, pc <- fPc, returned <- fReturned

\* Mutant of the initial count of a thread handle.
OnePermit == 1

HandleCount == 0

Handle == INSTANCE ChezSemaphore WITH
  Threads <- {Joined, Parent}, Waiters <- {Parent}, InitCount <- HandleCount,
  MaxPosts <- 1, MaxWaits <- 1,
  box <- hBox, owner <- hOwner, pc <- hPc, posts <- hPosts, waits <- hWaits,
  overtaken <- hOvertaken

Init == Barrier!Init /\ Future!Init /\ Handle!Init

BarrierOnly(A) == A /\ UNCHANGED <<futureVars, handleVars>>
FutureOnly(A) == A /\ UNCHANGED <<barrierVars, handleVars>>
HandleOnly(A) == A /\ UNCHANGED <<barrierVars, futureVars>>

\* The worker's procedure: barrier-wait, then await.
WorkerAtBarrier(w) == BarrierOnly(Barrier!Call(w) \/ Barrier!Internal(w))
WorkerAwaits(w) ==
  \/ Barrier!Passed(w) /\ FutureOnly(Future!CallAwait(w))
  \/ FutureOnly(Future!AwaitStep(w))

ProcReturned(w) == fPc[w] = "got"

\* What blodwen-thread runs after the procedure: semaphore-post on the handle.
WorkerPostsHandle ==
  \/ ProcReturned(Joined) /\ HandleOnly(Handle!CallPost(Joined))
  \/ HandleOnly(Handle!Internal(Joined))

\* blodwen-thread-wait.
ParentJoins == HandleOnly(Handle!CallWait(Parent) \/ Handle!Internal(Parent))

RunnerStep == FutureOnly(Future!RunnerStep)

HasJoined == hWaits = 1 /\ hPc[Parent] = "idle"

\* Everybody has finished: the program stops.
Terminated ==
  /\ HasJoined
  /\ hPosts = 1 /\ hPc[Joined] = "idle"
  /\ \A w \in Workers : ProcReturned(w)
  /\ UNCHANGED vars

Next ==
  \/ \E w \in Workers : WorkerAtBarrier(w) \/ WorkerAwaits(w)
  \/ WorkerPostsHandle
  \/ ParentJoins
  \/ RunnerStep
  \/ Terminated

\* Every thread of the program runs on until it has finished.
Fairness ==
  /\ \A w \in Workers : WF_vars(WorkerAtBarrier(w)) /\ WF_vars(WorkerAwaits(w))
  /\ WF_vars(WorkerPostsHandle)
  /\ WF_vars(ParentJoins)
  /\ WF_vars(RunnerStep)

Spec == Init /\ [][Next]_vars /\ Fairness

-----------------------------------------------------------------------------
\* The barrier keeps its promise and misses nobody.
BarrierKeepsPromise == Barrier!Rendezvous /\ Barrier!FirstRoundReleased

\* The future keeps its promise to every worker.
FutureKeepsPromise == Future!AwaitReturnsResult

\* A handle has one waiter, so its counter never goes negative, and when the
\* join has returned everything the worker went through has happened: all the
\* workers reached the barrier and the future was computed.
JoinSeesEverything ==
  /\ Handle!OneWaiterIsSafe
  /\ HasJoined => /\ ProcReturned(Joined)
                  /\ fReturned[Joined] = Result
                  /\ \A w \in Workers : bTicket[w] # 0

\* The program terminates.
Terminates == <>[](HasJoined /\ \A w \in Workers : ProcReturned(w))
=============================================================================
