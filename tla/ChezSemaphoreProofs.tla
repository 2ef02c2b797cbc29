------------------------ MODULE ChezSemaphoreProofs ------------------------
(***************************************************************************)
(* Proofs about ChezSemaphore, for any finite set of threads, any initial  *)
(* count and any number of calls.                                          *)
(***************************************************************************)
EXTENDS ChezSemaphore, FiniteSetTheorems, TLAPS

USE SemaphoreAssumption

\* The record is well formed and the mutex has one holder, the thread in a
\* critical section of blodwen-semaphore-post or -wait.
LEMMA SemaphoreTypeStep == TypeOK /\ [Next]_vars => TypeOK'
<1> SUFFICES ASSUME TypeOK, [Next]_vars PROVE TypeOK'
  OBVIOUS
<1> USE DEF TypeOK, Labels, Critical, Goto
<1>1. ASSUME NEW t \in Threads, CallPost(t) PROVE TypeOK'
  BY <1>1 DEF CallPost
<1>2. ASSUME NEW t \in Threads, CallWait(t) PROVE TypeOK'
  BY <1>2 DEF CallWait
<1>3. ASSUME NEW t \in Threads, PostAcquire(t) PROVE TypeOK'
  BY <1>3 DEF PostAcquire, Acquire
<1>4. ASSUME NEW t \in Threads, Post(t) PROVE TypeOK'
  <2>1. CASE Waiting = {} /\ Goto(t, "idle")
    BY <1>4, <2>1 DEF Post
  <2>2. ASSUME NEW w \in Waiting,
               pc' = [pc EXCEPT ![t] = "idle", ![w] = "woken"]
        PROVE  TypeOK'
    <3>1. w \in Threads /\ pc[w] = "waiting" /\ w # t
      BY <1>4, <2>2 DEF Waiting, Post
    <3>2. QED
      BY <1>4, <2>2, <3>1 DEF Post
  <2>3. QED
    BY <1>4, <2>1, <2>2 DEF Post, CondSignal, SignalOne
<1>5. ASSUME NEW t \in Threads, WaitAcquire(t) PROVE TypeOK'
  BY <1>5 DEF WaitAcquire, Acquire
<1>6. ASSUME NEW t \in Threads, Sleep(t) PROVE TypeOK'
  BY <1>6 DEF Sleep
<1>7. ASSUME NEW t \in Threads, PassTest(t) PROVE TypeOK'
  BY <1>7 DEF PassTest, Woken
<1>8. ASSUME NEW t \in Threads, Reacquire(t) PROVE TypeOK'
  BY <1>8 DEF Reacquire, Acquire
<1>9. ASSUME NEW t \in Threads, Take(t) PROVE TypeOK'
  BY <1>9 DEF Take
<1>10. CASE UNCHANGED vars
  BY <1>10 DEF vars
<1>11. QED
  BY <1>1, <1>2, <1>3, <1>4, <1>5, <1>6, <1>7, <1>8, <1>9, <1>10 DEF Next, Internal

LEMMA SemaphoreTypeInit == Init => TypeOK
<1> SUFFICES ASSUME Init PROVE TypeOK
  OBVIOUS
<1>1. \A t \in Threads : pc[t] = "idle" /\ owner # t
  BY DEF Init
<1>2. pc \in [Threads -> Labels]
  BY DEF Init, Labels
<1>3. posts \in 0..MaxPosts /\ waits \in 0..MaxWaits
  BY DEF Init
<1>4. QED
  BY <1>1, <1>2, <1>3 DEF Init, TypeOK, Critical

\* The semaphore is always well formed, and its mutex excludes.
THEOREM SemaphoreTypeCorrect == Spec => []TypeOK
BY SemaphoreTypeInit, SemaphoreTypeStep, PTL DEF Spec

-----------------------------------------------------------------------------
\* The threads that hold a promise of a permit are finitely many.
LEMMA ReservedFinite == IsFiniteSet(Reserved) /\ Cardinality(Reserved) \in Nat
<1>1. Reserved \in SUBSET Threads
  BY DEF Reserved
<1>2. QED
  BY <1>1, FS_Subset, FS_CardinalityType

\* How each kind of step changes the set of promised permits and the set of
\* sleeping threads; the two invariants below both rest on this table.
LEMMA ReservedSteps ==
  ASSUME TypeOK, NEW t \in Threads
  PROVE  /\ \/ CallPost(t)
            \/ CallWait(t)
            \/ PostAcquire(t)
            \/ WaitAcquire(t)
            \/ Reacquire(t)
            => Reserved' = Reserved /\ Waiting' = Waiting
         /\ Sleep(t) => Reserved' = Reserved
         /\ PassTest(t) => /\ t \notin Reserved
                           /\ Reserved' = Reserved \cup {t}
                           /\ Waiting' = Waiting
         /\ Take(t) => /\ t \in Reserved
                       /\ Reserved' = Reserved \ {t}
                       /\ Waiting' = Waiting
         /\ Post(t) => \/ /\ Waiting = {}
                          /\ Waiting' = {}
                          /\ Reserved' = Reserved
                       \/ \E w \in Threads \ Reserved : Reserved' = Reserved \cup {w}
<1> USE DEF TypeOK, Labels, Goto, Reserved, Waiting
<1>1. ASSUME \/ CallPost(t) \/ CallWait(t) \/ PostAcquire(t)
             \/ WaitAcquire(t) \/ Reacquire(t)
      PROVE  Reserved' = Reserved /\ Waiting' = Waiting
  <2>1. \E l1, l2 \in Labels :
          /\ pc[t] = l1 /\ pc' = [pc EXCEPT ![t] = l2]
          /\ l1 # "waiting" /\ l2 # "waiting"
          /\ l1 \in {"woken", "take"} <=> l2 \in {"woken", "take"}
    BY <1>1 DEF CallPost, CallWait, PostAcquire, WaitAcquire, Reacquire, Acquire
  <2>2. \A u \in Threads : /\ pc'[u] = "waiting" <=> pc[u] = "waiting"
                           /\ pc'[u] \in {"woken", "take"} <=> pc[u] \in {"woken", "take"}
    BY <2>1
  <2>3. QED
    BY <2>2
<1>2. ASSUME Sleep(t) PROVE Reserved' = Reserved
  BY <1>2 DEF Sleep
<1>3. ASSUME PassTest(t)
      PROVE  t \notin Reserved /\ Reserved' = Reserved \cup {t} /\ Waiting' = Waiting
  BY <1>3 DEF PassTest
<1>4. ASSUME Take(t)
      PROVE  t \in Reserved /\ Reserved' = Reserved \ {t} /\ Waiting' = Waiting
  BY <1>4 DEF Take
<1>5. ASSUME Post(t)
      PROVE  \/ Waiting = {} /\ Waiting' = {} /\ Reserved' = Reserved
             \/ \E w \in Threads \ Reserved : Reserved' = Reserved \cup {w}
  <2>1. CASE Waiting = {} /\ Goto(t, "idle")
    BY <1>5, <2>1 DEF Post
  <2>2. ASSUME NEW w \in Waiting,
               pc' = [pc EXCEPT ![t] = "idle", ![w] = "woken"]
        PROVE  w \in Threads \ Reserved /\ Reserved' = Reserved \cup {w}
    BY <1>5, <2>2 DEF Post
  <2>3. QED
    BY <1>5, <2>1, <2>2 DEF Post, CondSignal, SignalOne
<1>6. QED
  BY <1>1, <1>2, <1>3, <1>4, <1>5

-----------------------------------------------------------------------------
\* The inductive step of NoLostWakeup: a post adds one permit and, if anybody
\* sleeps, one promise; a thread goes to sleep only on an empty box.
LEMMA NoLostWakeupStep ==
  TypeOK /\ NoLostWakeup /\ [Next]_vars => NoLostWakeup'
<1> SUFFICES ASSUME TypeOK, NoLostWakeup, [Next]_vars PROVE NoLostWakeup'
  OBVIOUS
<1>0. box \in Int
  BY DEF TypeOK
<1>1. ASSUME NEW t \in Threads,
             \/ CallPost(t) \/ CallWait(t) \/ PostAcquire(t)
             \/ WaitAcquire(t) \/ Reacquire(t)
      PROVE  NoLostWakeup'
  <2>1. Reserved' = Reserved /\ Waiting' = Waiting
    BY <1>1, ReservedSteps
  <2>2. box' = box
    BY <1>1 DEF CallPost, CallWait, PostAcquire, WaitAcquire, Reacquire, Acquire
  <2>3. QED
    BY <2>1, <2>2 DEF NoLostWakeup
<1>2. ASSUME NEW t \in Threads, Post(t) PROVE NoLostWakeup'
  <2>1. box' = box + 1
    BY <1>2 DEF Post
  <2>2. CASE Waiting' = {}
    BY <2>2 DEF NoLostWakeup
  <2>3. ASSUME NEW w \in Threads \ Reserved, Reserved' = Reserved \cup {w}, Waiting # {}
        PROVE  NoLostWakeup'
    <3>1. Cardinality(Reserved') = Cardinality(Reserved) + 1
      BY <2>3, ReservedFinite, FS_AddElement
    <3>2. QED
      BY <1>0, <2>1, <2>3, <3>1, ReservedFinite DEF NoLostWakeup
  <2>4. CASE Waiting = {}
    <3>1. Waiting' = {}
      BY <1>2, <2>4 DEF Post, CondSignal, SignalOne, Waiting, Goto, TypeOK
    <3>2. QED
      BY <2>2, <3>1
  <2>5. QED
    BY <1>2, <2>2, <2>3, <2>4, ReservedSteps
<1>3. ASSUME NEW t \in Threads, Sleep(t) PROVE NoLostWakeup'
  <2>1. box' = 0 /\ Reserved' = Reserved
    BY <1>3, ReservedSteps DEF Sleep
  <2>2. QED
    BY <2>1, ReservedFinite DEF NoLostWakeup
<1>4. ASSUME NEW t \in Threads, PassTest(t) PROVE NoLostWakeup'
  <2>1. box' = box /\ Waiting' = Waiting
    BY <1>4, ReservedSteps DEF PassTest
  <2>2. Cardinality(Reserved') = Cardinality(Reserved) + 1
    BY <1>4, ReservedSteps, ReservedFinite, FS_AddElement
  <2>3. QED
    BY <1>0, <2>1, <2>2, ReservedFinite DEF NoLostWakeup
<1>5. ASSUME NEW t \in Threads, Take(t) PROVE NoLostWakeup'
  <2>1. box' = box - 1 /\ Waiting' = Waiting
    BY <1>5, ReservedSteps DEF Take
  <2>2. Cardinality(Reserved') = Cardinality(Reserved) - 1
    BY <1>5, ReservedSteps, ReservedFinite, FS_RemoveElement
  <2>3. QED
    BY <1>0, <2>1, <2>2, ReservedFinite DEF NoLostWakeup
<1>6. CASE UNCHANGED vars
  BY <1>6 DEF vars, NoLostWakeup, Waiting, Reserved
<1>7. QED
  BY <1>1, <1>2, <1>3, <1>4, <1>5, <1>6 DEF Next, Internal

\* blodwen-semaphore-post never leaves a permit unclaimed beside a sleeping
\* thread, however the operations interleave.
THEOREM SemaphoreLosesNoWakeup == Spec => []NoLostWakeup
<1>1. Init => NoLostWakeup
  BY DEF Init, NoLostWakeup, Waiting
<1>2. QED
  BY <1>1, SemaphoreTypeInit, SemaphoreTypeStep, NoLostWakeupStep, PTL DEF Spec

-----------------------------------------------------------------------------
\* The inductive step of PermitsCovered: with nobody overtaken, a thread that
\* passes the test finds no promise outstanding and at least one permit.
LEMMA PermitsCoveredStep ==
  TypeOK /\ PermitsCovered /\ [Next]_vars => PermitsCovered'
<1> SUFFICES ASSUME TypeOK, PermitsCovered, [Next]_vars, InitCount >= 0, ~overtaken'
             PROVE  box' >= Cardinality(Reserved)'
  BY DEF PermitsCovered
<1>0. box \in Int
  BY DEF TypeOK
<1>00. ~overtaken
  BY DEF TypeOK, Next, Internal, CallPost, CallWait, PostAcquire, WaitAcquire, Reacquire,
         Acquire, Post, Sleep, PassTest, Take, vars
<1>000. box >= Cardinality(Reserved)
  BY <1>00 DEF PermitsCovered
<1>1. ASSUME NEW t \in Threads,
             \/ CallPost(t) \/ CallWait(t) \/ PostAcquire(t)
             \/ WaitAcquire(t) \/ Reacquire(t) \/ Sleep(t)
      PROVE  box' >= Cardinality(Reserved)'
  <2>1. Reserved' = Reserved
    BY <1>1, ReservedSteps
  <2>2. box' = box
    BY <1>1 DEF CallPost, CallWait, PostAcquire, WaitAcquire, Reacquire, Acquire, Sleep
  <2>3. QED
    BY <2>1, <2>2, <1>000
<1>2. ASSUME NEW t \in Threads, Post(t) PROVE box' >= Cardinality(Reserved)'
  <2>1. box' = box + 1
    BY <1>2 DEF Post
  <2>2. ASSUME NEW w \in Threads \ Reserved, Reserved' = Reserved \cup {w}
        PROVE  Cardinality(Reserved') = Cardinality(Reserved) + 1
    BY <2>2, ReservedFinite, FS_AddElement
  <2>3. \/ Cardinality(Reserved') = Cardinality(Reserved)
        \/ Cardinality(Reserved') = Cardinality(Reserved) + 1
    BY <1>2, <2>2, ReservedSteps
  <2>4. QED
    BY <1>0, <1>000, <2>1, <2>3, ReservedFinite
<1>3. ASSUME NEW t \in Threads, PassTest(t) PROVE box' >= Cardinality(Reserved)'
  <2>1. owner = t
    BY <1>3 DEF PassTest, TypeOK, Critical
  <2>2. Woken = {}
    BY <1>3 DEF PassTest
  <2>3. Reserved = {}
    BY <1>3, <2>1, <2>2 DEF PassTest, Woken, Reserved, TypeOK, Critical
  <2>4. Cardinality(Reserved) = 0
    BY <2>3, FS_EmptySet
  <2>5. Cardinality(Reserved') = 1
    <3>1. Reserved' = {t}
      BY <1>3, <2>3, ReservedSteps
    <3>2. QED
      BY <3>1, FS_Singleton
  <2>6. QED
    BY <1>0, <1>3, <1>000, <2>4, <2>5 DEF PassTest
<1>4. ASSUME NEW t \in Threads, Take(t) PROVE box' >= Cardinality(Reserved)'
  <2>1. box' = box - 1
    BY <1>4 DEF Take
  <2>2. Cardinality(Reserved') = Cardinality(Reserved) - 1
    BY <1>4, ReservedSteps, ReservedFinite, FS_RemoveElement
  <2>3. QED
    BY <1>0, <1>000, <2>1, <2>2, ReservedFinite
<1>5. CASE UNCHANGED vars
  BY <1>5, <1>000 DEF vars, Reserved
<1>6. QED
  BY <1>1, <1>2, <1>3, <1>4, <1>5 DEF Next, Internal

LEMMA PermitsCoveredInit == Init => PermitsCovered
<1> SUFFICES ASSUME Init, InitCount >= 0 PROVE box >= Cardinality(Reserved)
  BY DEF PermitsCovered
<1>1. Reserved = {}
  BY DEF Init, Reserved
<1>2. QED
  BY <1>1, FS_EmptySet DEF Init

\* Unless a thread slips in between a signal and the wakeup it causes, the
\* counter of a semaphore that starts at zero or above covers every promise.
THEOREM SemaphorePermitsCovered == Spec => []PermitsCovered
BY PermitsCoveredInit, PermitsCoveredStep, SemaphoreTypeInit, SemaphoreTypeStep, PTL
   DEF Spec
=============================================================================
