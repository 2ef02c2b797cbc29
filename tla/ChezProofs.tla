----------------------------- MODULE ChezProofs -----------------------------
(***************************************************************************)
(* Proofs about what the Chez runtime builds from mutexes and conditions.  *)
(* About ChezForkJoin, for any finite set of workers: the barrier, the     *)
(* future and the join keep their promises.  About ChezChannel, for any    *)
(* set of threads and values and any number of calls and spurious wakeups: *)
(* it is well formed, it loses no wakeup, and it implements the documented *)
(* one-slot channel.                                                       *)
(***************************************************************************)
EXTENDS ChezChannel, ChezForkJoin, FiniteSetTheorems, TLAPS

Arrived == {w \in Workers : bTicket[w] # 0}

\* The barrier: the counter counts the workers that have arrived, and the two
\* promises.
BarrierInv ==
  /\ bCount \in Nat
  /\ bPc \in [Workers -> Barrier!Labels]
  /\ bCalls \in [Workers -> {0, 1}]
  /\ bTicket \in [Workers -> Nat]
  /\ \A w \in Workers : bCalls[w] = 0 => bPc[w] = "out" /\ bTicket[w] = 0
  /\ \A w \in Workers : bPc[w] \in {"lock", "arrive"} => bTicket[w] = 0
  /\ bCount = Cardinality(Arrived)
  /\ BarrierKeepsPromise

\* How many threads the barrier waits for, and that it is a number.
LEMMA WorkersFinite ==
  /\ IsFiniteSet(Workers) /\ Cardinality(Workers) \in Nat
  /\ \A S \in SUBSET Workers : IsFiniteSet(S) /\ Cardinality(S) \in Nat
BY ForkJoinAssumption, FS_Subset, FS_CardinalityType

LEMMA BarrierInvInit == Init => BarrierInv
<1> SUFFICES ASSUME Init PROVE BarrierInv
  OBVIOUS
<1> USE DEF Init, Barrier!Init
<1>1. Arrived = {}
  BY DEF Arrived
<1>2. bCount = Cardinality(Arrived)
  BY <1>1, FS_EmptySet
<1>3. BarrierKeepsPromise
  BY DEF BarrierKeepsPromise, Barrier!Rendezvous, Barrier!FirstRoundReleased,
         Barrier!Passed
<1>4. QED
  BY <1>2, <1>3 DEF BarrierInv, Barrier!Labels

\* An arrival: the first ticket of a worker makes the set of the arrived grow
\* with the counter.
LEMMA OneMoreArrived ==
  ASSUME BarrierInv, NEW w \in Workers, bPc[w] = "arrive",
         bTicket' = [bTicket EXCEPT ![w] = bCount + 1], bCount' = bCount + 1
  PROVE  bCount' = Cardinality(Arrived') /\ bTicket' \in [Workers -> Nat]
<1>1. w \notin Arrived /\ bCount + 1 \in Nat \ {0}
  BY DEF BarrierInv, Arrived
<1>2. Arrived' = Arrived \cup {w}
  BY <1>1 DEF BarrierInv, Arrived
<1>3. Arrived \in SUBSET Workers
  BY DEF Arrived
<1>4. Cardinality(Arrived') = Cardinality(Arrived) + 1
  BY <1>1, <1>2, <1>3, WorkersFinite, FS_AddElement
<1>5. QED
  BY <1>1, <1>4 DEF BarrierInv

\* Every step of the program is a step of one of the three components.
LEMMA ComponentSteps ==
  ASSUME [Next]_vars
  PROVE  \/ /\ \E w \in Workers : Barrier!Call(w) \/ Barrier!Internal(w)
            /\ UNCHANGED <<futureVars, handleVars>>
         \/ /\ \/ \E w \in Workers : Barrier!Passed(w) /\ Future!CallAwait(w)
               \/ \E w \in Workers : Future!AwaitStep(w)
               \/ Future!RunnerStep
            /\ UNCHANGED <<barrierVars, handleVars>>
         \/ /\ \/ ProcReturned(Joined) /\ Handle!CallPost(Joined)
               \/ Handle!Internal(Joined)
               \/ Handle!CallWait(Parent)
               \/ Handle!Internal(Parent)
            /\ UNCHANGED <<barrierVars, futureVars>>
         \/ UNCHANGED vars
BY DEF Next, WorkerAtBarrier, WorkerAwaits, WorkerPostsHandle, ParentJoins, RunnerStep,
       Terminated, BarrierOnly, FutureOnly, HandleOnly

LEMMA BarrierInvStep == BarrierInv /\ [Next]_vars => BarrierInv'
<1> SUFFICES ASSUME BarrierInv, [Next]_vars PROVE BarrierInv'
  OBVIOUS
<1> DEFINE N == Cardinality(Workers)
<1>0. N \in Nat
  BY WorkersFinite
<1> HIDE DEF N
<1> USE DEF BarrierInv, BarrierKeepsPromise, Barrier!Rendezvous,
            Barrier!FirstRoundReleased, Barrier!Passed, Barrier!Labels
<1>1. ASSUME NEW w \in Workers, Barrier!Call(w) PROVE BarrierInv'
  BY <1>1 DEF Barrier!Call, Arrived
<1>2. ASSUME NEW w \in Workers, Barrier!Acquire(w) PROVE BarrierInv'
  BY <1>2 DEF Barrier!Acquire, Arrived
<1>3. ASSUME NEW w \in Workers, Barrier!ArriveLast(w) PROVE BarrierInv'
  <2>1. bCount' = Cardinality(Arrived') /\ bTicket' \in [Workers -> Nat]
    BY <1>3, OneMoreArrived DEF Barrier!ArriveLast
  <2>2. bCount' = bCount + 1 /\ bCount' = N
    BY <1>3 DEF Barrier!ArriveLast, Barrier!LastArrival, N
  <2>3. \A u \in Workers : bPc'[u] # "waiting"
    BY <1>3 DEF Barrier!ArriveLast, Barrier!WakeAll, Barrier!Broadcast, Barrier!Waiting
  <2>4. BarrierKeepsPromise'
    BY <1>0, <2>2, <2>3 DEF N
  <2>5. QED
    BY <1>3, <2>1, <2>2, <2>4 DEF Barrier!ArriveLast, Barrier!WakeAll,
                                  Barrier!Broadcast, Barrier!Waiting
<1>4. ASSUME NEW w \in Workers, Barrier!ArriveAndSleep(w) PROVE BarrierInv'
  <2>1. bCount' = Cardinality(Arrived') /\ bTicket' \in [Workers -> Nat]
    BY <1>4, OneMoreArrived DEF Barrier!ArriveAndSleep
  <2>2. bCount' = bCount + 1 /\ bCount' # N
    BY <1>4 DEF Barrier!ArriveAndSleep, Barrier!LastArrival, N
  <2>3. BarrierKeepsPromise'
    BY <1>0, <1>4, <2>2 DEF Barrier!ArriveAndSleep, N
  <2>4. QED
    BY <1>4, <2>1, <2>2, <2>3 DEF Barrier!ArriveAndSleep
<1>5. ASSUME NEW w \in Workers, Barrier!Leave(w) PROVE BarrierInv'
  BY <1>5 DEF Barrier!Leave, Arrived
<1>6. CASE UNCHANGED barrierVars
  BY <1>6 DEF barrierVars, Arrived
<1>7. (\E w \in Workers : Barrier!Call(w) \/ Barrier!Internal(w)) \/ UNCHANGED barrierVars
  BY ComponentSteps DEF vars
<1>8. QED
  BY <1>1, <1>2, <1>3, <1>4, <1>5, <1>6, <1>7 DEF Barrier!Internal

\* Nobody passes the barrier before all workers have come to it, and nobody
\* who came in the first round is left asleep (blodwen-barrier-wait).
THEOREM ForkJoinBarrier == Spec => []BarrierKeepsPromise
<1>1. BarrierInv => BarrierKeepsPromise
  BY DEF BarrierInv
<1>2. QED
  BY <1>1, BarrierInvInit, BarrierInvStep, PTL DEF Spec

-----------------------------------------------------------------------------
\* The future: a thread that is woken or reads finds the result, and a worker
\* that uses the future has passed the barrier and stays past it.
FutureInv ==
  /\ fPc \in [Future!Threads -> Future!RunnerLabels \cup Future!AwaitLabels]
  /\ fReturned \in [Workers -> {Result, Unset}]
  /\ fPc[Runner] \in Future!RunnerLabels
  /\ fReady => fResult = Result
  /\ \A w \in Workers : fPc[w] \in {"woken", "read", "got"} => fReady
  /\ FutureKeepsPromise

LEMMA FutureInvInit == Init => FutureInv
BY ForkJoinAssumption
DEF Init, Future!Init, FutureInv, FutureKeepsPromise, Future!AwaitReturnsResult,
    Future!Threads, Future!RunnerLabels, Future!AwaitLabels

LEMMA FutureInvStep == FutureInv /\ [Next]_vars => FutureInv'
<1> SUFFICES ASSUME FutureInv, [Next]_vars PROVE FutureInv'
  OBVIOUS
<1> USE ForkJoinAssumption
    DEF FutureInv, FutureKeepsPromise, Future!AwaitReturnsResult, Future!Threads,
        Future!RunnerLabels, Future!AwaitLabels, Future!Goto
<1>1. CASE Future!FinishWork
  BY <1>1 DEF Future!FinishWork
<1>2. CASE Future!StoreAcquire
  BY <1>2 DEF Future!StoreAcquire, Future!Acquire
<1>3. CASE Future!Store
  BY <1>3 DEF Future!Store
<1>4. ASSUME NEW w \in Workers, Future!CallAwait(w) PROVE FutureInv'
  BY <1>4 DEF Future!CallAwait
<1>5. ASSUME NEW w \in Workers, Future!AwaitAcquire(w) PROVE FutureInv'
  BY <1>5 DEF Future!AwaitAcquire, Future!Acquire
<1>6. ASSUME NEW w \in Workers, Future!Sleep(w) PROVE FutureInv'
  BY <1>6 DEF Future!Sleep
<1>7. ASSUME NEW w \in Workers, Future!AwaitReacquire(w) PROVE FutureInv'
  BY <1>7 DEF Future!AwaitReacquire, Future!Acquire
<1>8. ASSUME NEW w \in Workers, Future!Read(w) PROVE FutureInv'
  BY <1>8 DEF Future!Read
<1>9. CASE UNCHANGED futureVars
  BY <1>9 DEF futureVars
<1>10. \/ Future!RunnerStep
       \/ \E w \in Workers : Future!CallAwait(w) \/ Future!AwaitStep(w)
       \/ UNCHANGED futureVars
  BY ComponentSteps DEF vars
<1>11. QED
  BY <1>1, <1>2, <1>3, <1>4, <1>5, <1>6, <1>7, <1>8, <1>9, <1>10
  DEF Future!RunnerStep, Future!AwaitStep

\* await returns the result of the work to every worker, and no worker sleeps
\* once it is there (blodwen-make-future, blodwen-await-future).
THEOREM ForkJoinFuture == Spec => []FutureKeepsPromise
<1>1. FutureInv => FutureKeepsPromise
  BY DEF FutureInv
<1>2. QED
  BY <1>1, FutureInvInit, FutureInvStep, PTL DEF Spec

-----------------------------------------------------------------------------
\* A worker uses the future only after the barrier has let it go.
AfterBarrier == \A w \in Workers : fPc[w] # "idle" => Barrier!Passed(w)

LEMMA AfterBarrierInit == Init => AfterBarrier
BY ForkJoinAssumption DEF Init, Future!Init, AfterBarrier, Future!Threads

LEMMA AfterBarrierStep ==
  BarrierInv /\ FutureInv /\ AfterBarrier /\ [Next]_vars => AfterBarrier'
<1> SUFFICES ASSUME BarrierInv, FutureInv, AfterBarrier, [Next]_vars PROVE AfterBarrier'
  OBVIOUS
<1> USE ForkJoinAssumption DEF AfterBarrier, Barrier!Passed
<1>1. CASE /\ \E w \in Workers : Barrier!Call(w) \/ Barrier!Internal(w)
           /\ UNCHANGED futureVars
  <2>1. PICK w \in Workers : Barrier!Call(w) \/ Barrier!Internal(w)
    BY <1>1
  <2>2. \A u \in Workers : Barrier!Passed(u) => Barrier!Passed(u)'
    <3> SUFFICES ASSUME NEW u \in Workers, bCalls[u] > 0, bPc[u] = "out"
                 PROVE  bCalls'[u] > 0 /\ bPc'[u] = "out"
      OBVIOUS
    <3>1. bPc \in [Workers -> Barrier!Labels] /\ bCalls \in [Workers -> {0, 1}]
      BY DEF BarrierInv
    <3>2. CASE Barrier!Call(w)
      BY <3>1, <3>2 DEF Barrier!Call
    <3>3. CASE Barrier!Acquire(w)
      BY <3>1, <3>3 DEF Barrier!Acquire
    <3>4. CASE Barrier!ArriveLast(w)
      BY <3>1, <3>4 DEF Barrier!ArriveLast, Barrier!WakeAll, Barrier!Broadcast, Barrier!Waiting
    <3>5. CASE Barrier!ArriveAndSleep(w)
      BY <3>1, <3>5 DEF Barrier!ArriveAndSleep
    <3>6. CASE Barrier!Leave(w)
      BY <3>1, <3>6 DEF Barrier!Leave
    <3>7. QED
      BY <2>1, <3>2, <3>3, <3>4, <3>5, <3>6 DEF Barrier!Internal
  <2>3. QED
    BY <1>1, <2>2 DEF futureVars
<1>2. CASE /\ \/ \E w \in Workers : Barrier!Passed(w) /\ Future!CallAwait(w)
              \/ \E w \in Workers : Future!AwaitStep(w)
              \/ Future!RunnerStep
           /\ UNCHANGED barrierVars
  <2>1. \A u \in Workers : fPc'[u] # "idle" => fPc[u] # "idle" \/ Barrier!Passed(u)
    <3> USE DEF FutureInv, Future!Threads, Future!Goto
    <3>1. CASE \E w \in Workers : Barrier!Passed(w) /\ Future!CallAwait(w)
      BY <3>1 DEF Future!CallAwait
    <3>2. CASE \E w \in Workers : Future!AwaitStep(w)
      BY <3>2 DEF Future!AwaitStep, Future!AwaitAcquire, Future!Acquire, Future!Sleep,
                  Future!AwaitReacquire, Future!Read
    <3>3. CASE Future!RunnerStep
      BY <3>3 DEF Future!RunnerStep, Future!FinishWork, Future!StoreAcquire,
                  Future!Acquire, Future!Store
    <3>4. QED
      BY <1>2, <3>1, <3>2, <3>3
  <2>2. QED
    BY <1>2, <2>1 DEF barrierVars
<1>3. CASE UNCHANGED <<barrierVars, futureVars>>
  BY <1>3 DEF barrierVars, futureVars
<1>4. QED
  BY <1>1, <1>2, <1>3, ComponentSteps DEF vars

-----------------------------------------------------------------------------
\* The handle: the counter is the post that has been made less the wait that
\* has returned, and the wait returns only after the post.
Posted == hPosts = 1 /\ hPc[Joined] = "idle"

HandleInv ==
  /\ hPosts \in {0, 1} /\ hWaits \in {0, 1}
  /\ hPc \in [{Joined, Parent} -> Handle!Labels]
  /\ hPc[Joined] \in {"idle", "post_lock", "post"}
  /\ hPc[Parent] \in Handle!Labels \ {"post_lock", "post"}
  /\ hPosts = 0 => hPc[Joined] = "idle"
  /\ hPosts = 1 => ProcReturned(Joined)
  /\ hWaits = 0 => hPc[Parent] = "idle"
  /\ hBox = (IF Posted THEN 1 ELSE 0) - (IF HasJoined THEN 1 ELSE 0)
  /\ hPc[Parent] \in {"woken", "take"} \/ HasJoined => Posted

LEMMA HandleInvInit == Init => HandleInv
BY ForkJoinAssumption
DEF Init, Handle!Init, HandleCount, HandleInv, Handle!Labels, Posted, HasJoined

LEMMA HandleInvStep == FutureInv /\ HandleInv /\ [Next]_vars => HandleInv'
<1> SUFFICES ASSUME FutureInv, HandleInv, [Next]_vars PROVE HandleInv'
  OBVIOUS
<1>0. Joined # Parent
  BY ForkJoinAssumption
<1> USE DEF HandleInv, Handle!Labels, Posted, HasJoined, Handle!Goto
<1>1. CASE /\ \/ \E w \in Workers : Barrier!Passed(w) /\ Future!CallAwait(w)
              \/ \E w \in Workers : Future!AwaitStep(w)
              \/ Future!RunnerStep
           /\ UNCHANGED handleVars
  <2>1. ProcReturned(Joined) => ProcReturned(Joined)'
    <3> USE ForkJoinAssumption DEF FutureInv, ProcReturned, Future!Threads, Future!Goto
    <3>1. CASE \E w \in Workers : Future!CallAwait(w)
      BY <3>1 DEF Future!CallAwait
    <3>2. CASE \E w \in Workers : Future!AwaitStep(w)
      BY <3>2 DEF Future!AwaitStep, Future!AwaitAcquire, Future!Acquire, Future!Sleep,
                  Future!AwaitReacquire, Future!Read
    <3>3. CASE Future!RunnerStep
      BY <3>3 DEF Future!RunnerStep, Future!FinishWork, Future!StoreAcquire,
                  Future!Acquire, Future!Store
    <3>4. QED
      BY <1>1, <3>1, <3>2, <3>3
  <2>2. QED
    BY <1>1, <2>1 DEF handleVars
<1>2. CASE UNCHANGED <<futureVars, handleVars>>
  BY <1>2 DEF futureVars, handleVars, ProcReturned
<1>3. CASE /\ \/ ProcReturned(Joined) /\ Handle!CallPost(Joined)
              \/ Handle!Internal(Joined)
              \/ Handle!CallWait(Parent)
              \/ Handle!Internal(Parent)
           /\ UNCHANGED futureVars
  <2>0. ProcReturned(Joined)' = ProcReturned(Joined)
    BY <1>3 DEF futureVars, ProcReturned
  <2>1. CASE ProcReturned(Joined) /\ Handle!CallPost(Joined)
    BY <1>0, <2>0, <2>1 DEF Handle!CallPost
  <2>2. CASE Handle!CallWait(Parent)
    BY <1>0, <2>0, <2>2 DEF Handle!CallWait
  <2>3. CASE Handle!PostAcquire(Joined)
    BY <1>0, <2>0, <2>3 DEF Handle!PostAcquire, Handle!Acquire
  <2>4. CASE Handle!Post(Joined)
    <3>1. /\ hPc[Joined] = "post" /\ hBox' = hBox + 1
          /\ UNCHANGED <<hPosts, hWaits>>
          /\ \/ hPc' = [hPc EXCEPT ![Joined] = "idle"]
             \/ /\ hPc[Parent] = "waiting"
                /\ hPc' = [hPc EXCEPT ![Joined] = "idle", ![Parent] = "woken"]
      BY <1>0, <2>4 DEF Handle!Post, Handle!CondSignal, Handle!SignalOne, Handle!Waiting
    <3>2. QED
      BY <1>0, <2>0, <3>1
  <2>5. CASE Handle!WaitAcquire(Parent)
    BY <1>0, <2>0, <2>5 DEF Handle!WaitAcquire, Handle!Acquire
  <2>6. CASE Handle!Sleep(Parent)
    BY <1>0, <2>0, <2>6 DEF Handle!Sleep
  <2>7. CASE Handle!PassTest(Parent)
    BY <1>0, <2>0, <2>7 DEF Handle!PassTest
  <2>8. CASE Handle!Reacquire(Parent)
    BY <1>0, <2>0, <2>8 DEF Handle!Reacquire, Handle!Acquire
  <2>9. CASE Handle!Take(Parent)
    BY <1>0, <2>0, <2>9 DEF Handle!Take
  <2>10. /\ ~Handle!WaitAcquire(Joined) /\ ~Handle!Sleep(Joined) /\ ~Handle!PassTest(Joined)
         /\ ~Handle!Reacquire(Joined) /\ ~Handle!Take(Joined)
         /\ ~Handle!PostAcquire(Parent) /\ ~Handle!Post(Parent)
    BY DEF Handle!WaitAcquire, Handle!Sleep, Handle!PassTest, Handle!Reacquire,
           Handle!Take, Handle!PostAcquire, Handle!Post, Handle!Acquire
  <2>11. QED
    BY <1>3, <2>1, <2>2, <2>3, <2>4, <2>5, <2>6, <2>7, <2>8, <2>9, <2>10
    DEF Handle!Internal
<1>4. QED
  BY <1>1, <1>2, <1>3, ComponentSteps DEF vars

\* When threadWait returns, the worker has returned from its procedure; so the
\* barrier had let it go, and every worker had come to the barrier.
LEMMA JoinedAfterAll ==
  BarrierInv /\ FutureInv /\ AfterBarrier /\ HandleInv => JoinSeesEverything
<1> SUFFICES ASSUME BarrierInv, FutureInv, AfterBarrier, HandleInv
             PROVE  JoinSeesEverything
  OBVIOUS
<1>1. Handle!OneWaiterIsSafe
  BY DEF HandleInv, Handle!OneWaiterIsSafe
<1>2. ASSUME HasJoined
      PROVE  /\ ProcReturned(Joined)
             /\ fReturned[Joined] = Result
             /\ \A w \in Workers : bTicket[w] # 0
  <2>1. ProcReturned(Joined)
    BY <1>2 DEF HandleInv, Posted
  <2>2. fReturned[Joined] = Result
    BY <2>1, ForkJoinAssumption
    DEF FutureInv, FutureKeepsPromise, Future!AwaitReturnsResult, ProcReturned
  <2>3. Barrier!Passed(Joined)
    BY <2>1, ForkJoinAssumption DEF AfterBarrier, ProcReturned
  <2>4. bCount >= Cardinality(Workers)
    BY <2>3, ForkJoinAssumption DEF BarrierInv, BarrierKeepsPromise, Barrier!Rendezvous
  <2>5. Arrived \in SUBSET Workers
    BY DEF Arrived
  <2>6. Cardinality(Workers) = Cardinality(Arrived)
    BY <2>4, <2>5, WorkersFinite, FS_Subset DEF BarrierInv
  <2>7. Workers = Arrived
    BY <2>5, <2>6, WorkersFinite, FS_Subset
  <2>8. QED
    BY <2>1, <2>2, <2>7 DEF Arrived
<1>3. QED
  BY <1>1, <1>2 DEF JoinSeesEverything

\* The join of a thread (blodwen-thread, blodwen-thread-wait) comes after
\* everything the thread did and everything it had waited for.
THEOREM ForkJoinSeesEverything == Spec => []JoinSeesEverything
<1> DEFINE IInv == BarrierInv /\ FutureInv /\ AfterBarrier /\ HandleInv
<1>1. Init => IInv
  BY BarrierInvInit, FutureInvInit, AfterBarrierInit, HandleInvInit
<1>2. IInv /\ [Next]_vars => IInv'
  BY BarrierInvStep, FutureInvStep, AfterBarrierStep, HandleInvStep
<1>3. IInv => JoinSeesEverything
  BY JoinedAfterAll
<1>4. QED
  BY <1>1, <1>2, <1>3, PTL DEF Spec

-----------------------------------------------------------------------------
\* The channel.
USE ChannelAssumption

LEMMA ChannelTypeInit == ChannelInit => TypeOK
<1> SUFFICES ASSUME ChannelInit PROVE TypeOK
  OBVIOUS
<1>1. \A t \in Threads : pc[t] = "idle" /\ owner # t
  BY DEF ChannelInit
<1>2. pc \in [Threads -> Labels]
  BY DEF ChannelInit, Labels
<1>3. puts \in 0..MaxPuts /\ gets \in 0..MaxGets /\ spurious \in 0..MaxSpurious
  BY DEF ChannelInit
<1>4. arg \in [Threads -> Values \cup {Nil}]
  BY DEF ChannelInit
<1>5. sent \in Seq(Values) /\ received \in Seq(Values)
  BY DEF ChannelInit
<1>6. QED
  BY <1>1, <1>2, <1>3, <1>4, <1>5 DEF ChannelInit, TypeOK, Critical, At

\* Every step keeps the state well formed; one step per action.
LEMMA ChannelTypeStep ==
  TypeOK /\ BoxMatchesHistory /\ [ChannelNext]_channelVars => TypeOK'
<1> SUFFICES ASSUME TypeOK, BoxMatchesHistory, [ChannelNext]_channelVars PROVE TypeOK'
  OBVIOUS
<1> USE DEF TypeOK, Labels, Critical, Goto, At
<1>1. ASSUME NEW t \in Threads, CallPut(t) PROVE TypeOK'
  BY <1>1 DEF CallPut
<1>2. ASSUME NEW t \in Threads, CallGet(t) PROVE TypeOK'
  BY <1>2 DEF CallGet
<1>3. ASSUME NEW t \in Threads, PutAcquire(t) PROVE TypeOK'
  BY <1>3 DEF PutAcquire, Acquire
<1>4. ASSUME NEW t \in Threads, GetAcquire(t) PROVE TypeOK'
  BY <1>4 DEF GetAcquire, Acquire
<1>5. ASSUME NEW t \in Threads, PutSleep(t) PROVE TypeOK'
  BY <1>5 DEF PutSleep, CondWait
<1>6. ASSUME NEW t \in Threads, GetSleep(t) PROVE TypeOK'
  BY <1>6 DEF GetSleep, CondWait
<1>7. ASSUME NEW t \in Threads, Store(t) PROVE TypeOK'
  <2>1. arg[t] \in Values
    BY <1>7 DEF Store
  <2>2. Append(sent, arg[t]) \in Seq(Values)
    BY <2>1
  <2>3. QED
    BY <1>7, <2>1, <2>2 DEF Store
<1>8. ASSUME NEW t \in Threads, Take(t) PROVE TypeOK'
  <2>1. Len(sent) \in Nat /\ Len(received) \in Nat
    OBVIOUS
  <2>2. valBox = sent[Len(sent)] /\ Len(sent) \in 1..Len(sent)
    BY <1>8, <2>1 DEF Take, BoxMatchesHistory
  <2>3. valBox \in Values
    BY <2>2
  <2>4. Append(received, valBox) \in Seq(Values)
    BY <2>3
  <2>5. QED
    BY <1>8, <2>4 DEF Take
<1>9. ASSUME NEW t \in Threads, PutSignal(t) PROVE TypeOK'
  BY <1>9 DEF PutSignal, CondSignal
<1>10. ASSUME NEW t \in Threads, GetSignal(t) PROVE TypeOK'
  BY <1>10 DEF GetSignal, CondSignal
<1>11. ASSUME NEW t \in Threads, SpuriousWakeup(t) PROVE TypeOK'
  BY <1>11 DEF SpuriousWakeup
<1>12. CASE UNCHANGED channelVars
  BY <1>12 DEF channelVars
<1>13. QED
  BY <1>1, <1>2, <1>3, <1>4, <1>5, <1>6, <1>7, <1>8, <1>9, <1>10, <1>11, <1>12
     DEF ChannelNext, Internal

\* Only Store and Take touch the box, the flag and the histories.
LEMMA ChannelQuietSteps ==
  ASSUME NEW t \in Threads,
         \/ CallPut(t) \/ CallGet(t) \/ PutAcquire(t) \/ GetAcquire(t)
         \/ PutSleep(t) \/ GetSleep(t) \/ PutSignal(t) \/ GetSignal(t)
         \/ SpuriousWakeup(t)
  PROVE  UNCHANGED <<readBox, valBox, sent, received>>
BY DEF CallPut, CallGet, PutAcquire, GetAcquire, Acquire, PutSleep, GetSleep, CondWait,
       PutSignal, GetSignal, CondSignal, SpuriousWakeup

LEMMA ChannelBoxStep ==
  TypeOK /\ BoxMatchesHistory /\ [ChannelNext]_channelVars => BoxMatchesHistory'
<1> SUFFICES ASSUME TypeOK, BoxMatchesHistory, [ChannelNext]_channelVars PROVE BoxMatchesHistory'
  OBVIOUS
<1>1. sent \in Seq(Values) /\ received \in Seq(Values)
  BY DEF TypeOK
<1>2. ASSUME NEW t \in Threads, Store(t) PROVE BoxMatchesHistory'
  <2>1. arg[t] \in Values
    BY <1>2 DEF Store, TypeOK, At
  <2>2. /\ Len(sent') = Len(sent) + 1
        /\ sent'[Len(sent) + 1] = arg[t]
    BY <1>1, <1>2, <2>1 DEF Store
  <2>3. QED
    BY <1>1, <1>2, <2>2 DEF Store, BoxMatchesHistory
<1>3. ASSUME NEW t \in Threads, Take(t) PROVE BoxMatchesHistory'
  <2>1. Len(received') = Len(received) + 1
    BY <1>1, <1>3 DEF Take, TypeOK
  <2>2. QED
    BY <1>1, <1>3, <2>1 DEF Take, BoxMatchesHistory
<1>4. CASE UNCHANGED channelVars
  BY <1>4 DEF channelVars, BoxMatchesHistory
<1>5. CASE UNCHANGED <<readBox, valBox, sent, received>>
  BY <1>5 DEF BoxMatchesHistory
<1>6. QED
  BY <1>2, <1>3, <1>4, <1>5, ChannelQuietSteps DEF ChannelNext, Internal

LEMMA ChannelBoxInit == ChannelInit => BoxMatchesHistory
BY DEF ChannelInit, BoxMatchesHistory

\* The channel is always well formed, and its flag, its box and the values
\* that went through it agree.
THEOREM ChannelTypeCorrect == ChannelSpec => [](TypeOK /\ BoxMatchesHistory)
<1>1. TypeOK /\ BoxMatchesHistory /\ [ChannelNext]_channelVars => (TypeOK /\ BoxMatchesHistory)'
  BY ChannelTypeStep, ChannelBoxStep
<1>2. QED
  BY <1>1, ChannelTypeInit, ChannelBoxInit, PTL DEF ChannelSpec

-----------------------------------------------------------------------------
\* The inductive step of NoLostSignal.
LEMMA NoLostSignalStep == TypeOK /\ NoLostSignal /\ [ChannelNext]_channelVars => NoLostSignal'
<1> SUFFICES ASSUME TypeOK, NoLostSignal, [ChannelNext]_channelVars PROVE NoLostSignal'
  OBVIOUS
<1> USE DEF NoLostSignal, At, Goto, TypeOK
<1>1. ASSUME NEW t \in Threads, CallPut(t) PROVE NoLostSignal'
  BY <1>1 DEF CallPut
<1>2. ASSUME NEW t \in Threads, CallGet(t) PROVE NoLostSignal'
  BY <1>2 DEF CallGet
<1>3. ASSUME NEW t \in Threads, PutAcquire(t) PROVE NoLostSignal'
  BY <1>3 DEF PutAcquire, Acquire
<1>4. ASSUME NEW t \in Threads, GetAcquire(t) PROVE NoLostSignal'
  BY <1>4 DEF GetAcquire, Acquire
<1>5. ASSUME NEW t \in Threads, PutSleep(t) PROVE NoLostSignal'
  BY <1>5 DEF PutSleep, CondWait
<1>6. ASSUME NEW t \in Threads, GetSleep(t) PROVE NoLostSignal'
  BY <1>6 DEF GetSleep, CondWait
<1>7. ASSUME NEW t \in Threads, Store(t) PROVE NoLostSignal'
  BY <1>7 DEF Store
<1>8. ASSUME NEW t \in Threads, Take(t) PROVE NoLostSignal'
  BY <1>8 DEF Take
<1>9. ASSUME NEW t \in Threads, PutSignal(t) PROVE NoLostSignal'
  <2>1. CASE At("get_wait") = {}
    BY <1>9, <2>1 DEF PutSignal, CondSignal
  <2>2. CASE At("get_wait") # {}
    BY <1>9, <2>2 DEF PutSignal, CondSignal
  <2>3. QED
    BY <2>1, <2>2
<1>10. ASSUME NEW t \in Threads, GetSignal(t) PROVE NoLostSignal'
  <2>1. CASE At("put_wait") = {}
    BY <1>10, <2>1 DEF GetSignal, CondSignal
  <2>2. CASE At("put_wait") # {}
    BY <1>10, <2>2 DEF GetSignal, CondSignal
  <2>3. QED
    BY <2>1, <2>2
<1>11. ASSUME NEW t \in Threads, SpuriousWakeup(t) PROVE NoLostSignal'
  BY <1>11 DEF SpuriousWakeup
<1>12. CASE UNCHANGED channelVars
  BY <1>12 DEF channelVars
<1>13. QED
  BY <1>1, <1>2, <1>3, <1>4, <1>5, <1>6, <1>7, <1>8, <1>9, <1>10, <1>11, <1>12
     DEF ChannelNext, Internal

\* Although both operations signal after releasing the mutex, no thread sleeps
\* beside what it waits for without somebody on the way to it.
THEOREM ChannelLosesNoSignal == ChannelSpec => []NoLostSignal
<1>1. ChannelInit => NoLostSignal
  BY DEF ChannelInit, NoLostSignal, At
<1>2. QED
  BY <1>1, ChannelTypeCorrect, NoLostSignalStep, PTL DEF ChannelSpec

-----------------------------------------------------------------------------
\* Every step of the runtime's channel is a step of the documented one: Store
\* is its Put, Take is its Get and everything else a stutter.
LEMMA ChannelStepSimulation ==
  TypeOK /\ BoxMatchesHistory /\ [ChannelNext]_channelVars => [Documented!Next]_<<sent, received>>
<1> SUFFICES ASSUME TypeOK, BoxMatchesHistory, [ChannelNext]_channelVars
             PROVE  [Documented!Next]_<<sent, received>>
  OBVIOUS
<1>1. ASSUME NEW t \in Threads, Store(t) PROVE Documented!Next
  <2>1. arg[t] \in Values
    BY <1>1 DEF Store, TypeOK, At
  <2>2. Documented!Put(arg[t])
    BY <1>1 DEF Store, BoxMatchesHistory, Documented!Put, Documented!Empty
  <2>3. QED
    BY <2>1, <2>2 DEF Documented!Next
<1>2. ASSUME NEW t \in Threads, Take(t) PROVE Documented!Next
  <2>1. ~Documented!Empty
    BY <1>2 DEF Take, BoxMatchesHistory, Documented!Empty, TypeOK
  <2>2. Documented!Get
    BY <1>2, <2>1 DEF Take, BoxMatchesHistory, Documented!Get
  <2>3. QED
    BY <2>2 DEF Documented!Next
<1>3. CASE UNCHANGED channelVars
  BY <1>3 DEF channelVars
<1>4. QED
  BY <1>1, <1>2, <1>3, ChannelQuietSteps DEF ChannelNext, Internal

\* The runtime's channel implements the channel of System.Concurrency.
THEOREM ChannelImplementsDocumented == ChannelSpec => DocumentedSpec
<1>1. ChannelInit => Documented!Init
  BY DEF ChannelInit, Documented!Init
<1>2. QED
  BY <1>1, ChannelTypeCorrect, ChannelStepSimulation, PTL
     DEF ChannelSpec, DocumentedSpec, Documented!Spec
=============================================================================
