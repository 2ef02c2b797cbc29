------------------------ MODULE RacketConditionProofs ------------------------
(***************************************************************************)
(* For any finite set of threads and any number of calls: the locks        *)
(* exclude, and until a broadcast has found a waiter the counter of the    *)
(* condition is exact and a broadcast lets everybody through.              *)
(*                                                                         *)
(* The counts are exact only between two operations.  The invariant says   *)
(* by how much they are off while a thread holds waitersLock: a permit of  *)
(* the counting semaphore becomes a thread that is about to shake hands,   *)
(* and that thread a handshake.                                            *)
(***************************************************************************)
EXTENDS RacketCondition, FiniteSetTheorems, TLAPS

USE ConditionAssumption

MutexHolders == {t \in Threads : HoldsMutex(t)}
LockHolders == {t \in Threads : HoldsWaitersLock(t)}

\* Nobody notifies: waitersLock is free or a waiter, or a signal that has not
\* looked yet, holds it.
Notifying == At("signal_shake") \cup At("post") \cup At("broadcast_shake")

\* What is under way: permits, threads between permit and handshake, handshakes.
UnderWay == countingSem + Cardinality(At("shake")) + handshakeSem

CountInv ==
  /\ Notifying = {} => UnderWay = 0 /\ waiters = Cardinality(Enrolled)
  /\ At("signal_shake") # {} => /\ UnderWay = 1
                                /\ waiters + countingSem = Cardinality(Enrolled)
  /\ At("post") # {} =>
       /\ UnderWay + todo = waiters
       /\ Cardinality(Enrolled) + Cardinality(At("shake")) + handshakeSem = waiters
  /\ At("broadcast_shake") # {} => /\ UnderWay = todo
                                   /\ countingSem = Cardinality(Enrolled)

CondInv == TypeOK /\ (~stale => CountInv)

-----------------------------------------------------------------------------
LEMMA ThreadSets ==
  ASSUME NEW S \in SUBSET Threads
  PROVE  /\ Cardinality(S) \in Nat
         /\ Cardinality(S) = 0 <=> S = {}
         /\ \A t \in Threads : /\ t \notin S => Cardinality(S \cup {t}) = Cardinality(S) + 1
                               /\ t \in S => Cardinality(S \ {t}) = Cardinality(S) - 1
<1>1. IsFiniteSet(S)
  BY FS_Subset
<1>2. QED
  BY <1>1, FS_CardinalityType, FS_EmptySet, FS_AddElement, FS_RemoveElement

\* A set of holders that one thread joins or leaves as the semaphore goes down
\* or up.
Passes(S, T, count, countAfter, t) ==
  \/ T = S /\ countAfter = count
  \/ t \notin S /\ T = S \cup {t} /\ count > 0 /\ countAfter = count - 1
  \/ t \in S /\ T = S \ {t} /\ countAfter = count + 1

LEMMA BinarySemaphore ==
  ASSUME NEW S \in SUBSET Threads, NEW T \in SUBSET Threads, NEW t \in Threads,
         NEW count \in {0, 1}, NEW countAfter, Passes(S, T, count, countAfter, t),
         count + Cardinality(S) = 1
  PROVE  countAfter \in {0, 1} /\ countAfter + Cardinality(T) = 1
<1>1. /\ Cardinality(S) \in Nat /\ Cardinality(T) \in Nat
      /\ t \notin S => Cardinality(S \cup {t}) = Cardinality(S) + 1
      /\ t \in S => Cardinality(S \ {t}) = Cardinality(S) - 1
  BY ThreadSets
<1>2. CASE T = S /\ countAfter = count
  BY <1>2
<1>3. CASE t \notin S /\ T = S \cup {t} /\ count > 0 /\ countAfter = count - 1
  BY <1>1, <1>3
<1>4. CASE t \in S /\ T = S \ {t} /\ countAfter = count + 1
  BY <1>1, <1>4
<1>5. QED
  BY <1>2, <1>3, <1>4 DEF Passes

\* waitersLock excludes.
LEMMA OneHolder ==
  ASSUME TypeOK, NEW t \in Threads, NEW u \in Threads,
         HoldsWaitersLock(t), HoldsWaitersLock(u)
  PROVE  t = u
<1>1. LockHolders \in SUBSET Threads
  BY DEF LockHolders
<1>2. Cardinality(LockHolders) \in Nat /\ Cardinality(LockHolders) <= 1
  BY <1>1, ThreadSets DEF TypeOK, LockHolders
<1>3. Cardinality(LockHolders \ {t}) = 0
  <2>1. t \in LockHolders
    BY DEF LockHolders
  <2>2. Cardinality(LockHolders \ {t}) = Cardinality(LockHolders) - 1
    BY <1>1, <2>1, ThreadSets
  <2>3. Cardinality(LockHolders \ {t}) \in Nat
    BY <1>1, ThreadSets
  <2>4. QED
    BY <1>2, <2>2, <2>3
<1>4. LockHolders \ {t} = {}
  BY <1>1, <1>3, ThreadSets
<1>5. QED
  BY <1>4 DEF LockHolders

\* The types alone.
Typed ==
  /\ {waiters, countingSem, handshakeSem, todo} \subseteq Nat
  /\ pc \in [Threads -> Labels]
  /\ back \in [Threads -> {"idle", "hold"}]
  /\ waits \in 0..MaxWaits /\ signals \in 0..MaxSignals
  /\ broadcasts \in 0..MaxBroadcasts
  /\ stale \in BOOLEAN

Action(t) == Calls(t) \/ MutexAcquire(t) \/ MutexRelease(t) \/ Internal(t)

LEMMA TypedStep ==
  ASSUME TypeOK, NEW t \in Threads, Action(t)
  PROVE  /\ Typed'
         /\ Passes(MutexHolders, MutexHolders', mutex, mutex', t)
         /\ Passes(LockHolders, LockHolders', waitersLock, waitersLock', t)
<1> USE DEF TypeOK, Typed, Labels, Signalling, Broadcasting, Step, Passes,
            MutexHolders, LockHolders, HoldsMutex, HoldsWaitersLock
<1>1. CASE CallWait(t)
  BY <1>1 DEF CallWait, sems
<1>2. CASE CallSignal(t)
  BY <1>2 DEF CallSignal, sems
<1>3. CASE CallBroadcast(t)
  BY <1>3 DEF CallBroadcast, sems
<1>4. CASE MutexAcquire(t)
  BY <1>4 DEF MutexAcquire, calls
<1>5. CASE MutexRelease(t)
  BY <1>5 DEF MutexRelease, calls
<1>6. CASE LockWaiters(t)
  BY <1>6 DEF LockWaiters, calls
<1>7. CASE Enrol(t)
  BY <1>7 DEF Enrol, calls
<1>8. CASE WaitRelease(t)
  BY <1>8 DEF WaitRelease, calls
<1>9. CASE WaitPass(t)
  BY <1>9 DEF WaitPass, calls
<1>10. CASE WaitHandshake(t)
  BY <1>10 DEF WaitHandshake, calls
<1>11. CASE SignalNobody(t)
  BY <1>11 DEF SignalNobody, calls
<1>12. CASE SignalOne(t)
  BY <1>12 DEF SignalOne, calls
<1>13. CASE SignalShake(t)
  BY <1>13 DEF SignalShake, calls
<1>14. CASE BroadcastPost(t)
  BY <1>14 DEF BroadcastPost, calls
<1>15. CASE BroadcastShake(t)
  BY <1>15 DEF BroadcastShake, calls
<1>16. CASE BroadcastUnlock(t)
  BY <1>16 DEF BroadcastUnlock, calls
<1>17. QED
  BY <1>1, <1>2, <1>3, <1>4, <1>5, <1>6, <1>7, <1>8, <1>9, <1>10, <1>11, <1>12,
     <1>13, <1>14, <1>15, <1>16 DEF Action, Calls, Internal, Waits, Signals, Broadcasts

LEMMA CondTypeStep == TypeOK /\ [Next]_vars => TypeOK'
<1> SUFFICES ASSUME TypeOK, [Next]_vars PROVE TypeOK'
  OBVIOUS
<1>1. ASSUME NEW t \in Threads, Action(t) PROVE TypeOK'
  <2>1. /\ MutexHolders \in SUBSET Threads /\ MutexHolders' \in SUBSET Threads
        /\ LockHolders \in SUBSET Threads /\ LockHolders' \in SUBSET Threads
    BY DEF MutexHolders, LockHolders
  <2>2. mutex' \in {0, 1} /\ mutex' + Cardinality(MutexHolders') = 1
    <3>1. mutex \in {0, 1} /\ mutex + Cardinality(MutexHolders) = 1
      BY DEF TypeOK, MutexHolders
    <3>2. QED
      BY <1>1, <2>1, <3>1, TypedStep, BinarySemaphore
  <2>3. waitersLock' \in {0, 1} /\ waitersLock' + Cardinality(LockHolders') = 1
    <3>1. waitersLock \in {0, 1} /\ waitersLock + Cardinality(LockHolders) = 1
      BY DEF TypeOK, LockHolders
    <3>2. QED
      BY <1>1, <2>1, <3>1, TypedStep, BinarySemaphore
  <2>4. Typed'
    BY <1>1, TypedStep
  <2>5. QED
    BY <2>2, <2>3, <2>4 DEF TypeOK, Typed, MutexHolders, LockHolders
<1>2. CASE UNCHANGED vars
  BY <1>2 DEF vars, sems, calls, TypeOK, HoldsMutex, HoldsWaitersLock
<1>3. QED
  BY <1>1, <1>2 DEF Next, Action

-----------------------------------------------------------------------------
(* The counts *)

\* The threads counted or under way, and their numbers.
LEMMA CountedSets ==
  ASSUME TypeOK
  PROVE  /\ Enrolled \in SUBSET Threads /\ At("shake") \in SUBSET Threads
         /\ Cardinality(Enrolled) \in Nat /\ Cardinality(At("shake")) \in Nat
         /\ waiters \in Nat /\ countingSem \in Nat /\ handshakeSem \in Nat /\ todo \in Nat
BY ThreadSets DEF TypeOK, Enrolled, At

\* While a thread holds waitersLock in a section of its own, nobody else is in
\* one; while it is free, nobody is.
LEMMA LockSections ==
  ASSUME TypeOK
  PROVE  /\ waitersLock > 0 => Notifying = {}
         /\ \A t \in Threads : HoldsWaitersLock(t) =>
              \A u \in Notifying : u = t
<1>1. ASSUME waitersLock > 0 PROVE Notifying = {}
  <2>1. LockHolders \in SUBSET Threads
    BY DEF LockHolders
  <2>2. Cardinality(LockHolders) \in Nat
    BY <2>1, ThreadSets
  <2>3. Cardinality(LockHolders) = 0
    BY <1>1, <2>2 DEF TypeOK, LockHolders
  <2>4. LockHolders = {}
    BY <2>1, <2>3, ThreadSets
  <2>5. QED
    BY <2>4 DEF Notifying, At, LockHolders, HoldsWaitersLock
<1>2. ASSUME NEW t \in Threads, HoldsWaitersLock(t), NEW u \in Notifying PROVE u = t
  <2>1. u \in Threads /\ HoldsWaitersLock(u)
    BY DEF Notifying, At, HoldsWaitersLock
  <2>2. QED
    BY <1>2, <2>1, OneHolder
<1>3. QED
  BY <1>1, <1>2

\* A step that leaves the counted threads, and those that notify, where they
\* are.
Elsewhere ==
  /\ Enrolled' = Enrolled /\ At("shake")' = At("shake")
  /\ At("signal_shake")' = At("signal_shake") /\ At("post")' = At("post")
  /\ At("broadcast_shake")' = At("broadcast_shake")

LEMMA CountStep ==
  ASSUME TypeOK, NEW t \in Threads, Action(t), CountInv, ~stale'
  PROVE  CountInv'
<1> USE CountedSets DEF UnderWay
<1>1. ASSUME \/ Calls(t) \/ MutexAcquire(t) \/ MutexRelease(t) \/ WaitRelease(t)
             \/ SignalNobody(t)
             \/ LockWaiters(t) /\ pc[t] # "broadcast_lock"
      PROVE  CountInv'
  <2>1. Elsewhere /\ UNCHANGED <<waiters, countingSem, handshakeSem, todo>>
    BY <1>1 DEF Elsewhere, Enrolled, At, Calls, CallWait, CallSignal, CallBroadcast, Step,
                MutexAcquire, MutexRelease, WaitRelease, SignalNobody, LockWaiters,
                TypeOK, Labels, sems
  <2>2. QED
    BY <2>1 DEF CountInv, Elsewhere, Notifying
<1>2. ASSUME LockWaiters(t), pc[t] = "broadcast_lock" PROVE CountInv'
  <2>1. Notifying = {}
    BY <1>2, LockSections DEF LockWaiters
  <2>2. /\ Enrolled' = Enrolled /\ At("shake")' = At("shake")
        /\ At("signal_shake")' = {} /\ At("post")' = {t} /\ At("broadcast_shake")' = {}
    BY <1>2, <2>1 DEF LockWaiters, Step, TypeOK, Labels, Notifying, Enrolled, At
  <2>3. todo' = waiters /\ UNCHANGED <<waiters, countingSem, handshakeSem>>
    BY <1>2 DEF LockWaiters, Step
  <2>4. QED
    BY <2>1, <2>2, <2>3 DEF CountInv, Notifying
<1>3. ASSUME Enrol(t) PROVE CountInv'
  <2>1. \A u \in Notifying : u = t
    BY <1>3, LockSections DEF Enrol, Step, HoldsWaitersLock
  <2>2. Notifying = {}
    BY <1>3, <2>1 DEF Enrol, Step, Notifying, At
  <2>3. /\ Enrolled' = Enrolled \cup {t} /\ t \notin Enrolled
        /\ At("shake")' = At("shake") /\ Notifying' = {}
    BY <1>3, <2>2 DEF Enrol, Step, TypeOK, Labels, Notifying, Enrolled, At
  <2>4. waiters' = waiters + 1 /\ UNCHANGED <<countingSem, handshakeSem>>
    BY <1>3 DEF Enrol
  <2>5. Cardinality(Enrolled') = Cardinality(Enrolled) + 1
    BY <2>3, ThreadSets
  <2>6. QED
    BY <2>2, <2>3, <2>4, <2>5 DEF CountInv, Notifying
<1>4. ASSUME WaitPass(t) PROVE CountInv'
  <2>1. /\ Enrolled' = Enrolled \ {t} /\ t \in Enrolled
        /\ At("shake")' = At("shake") \cup {t} /\ t \notin At("shake")
        /\ At("signal_shake")' = At("signal_shake") /\ At("post")' = At("post")
        /\ At("broadcast_shake")' = At("broadcast_shake")
    BY <1>4 DEF WaitPass, Step, TypeOK, Labels, Enrolled, At
  <2>2. /\ countingSem > 0 /\ countingSem' = countingSem - 1
        /\ UNCHANGED <<waiters, handshakeSem, todo>>
    BY <1>4 DEF WaitPass
  <2>3. /\ Cardinality(Enrolled') = Cardinality(Enrolled) - 1
        /\ Cardinality(At("shake")') = Cardinality(At("shake")) + 1
    BY <2>1, ThreadSets
  <2>4. QED
    BY <2>1, <2>2, <2>3 DEF CountInv, Notifying
<1>5. ASSUME WaitHandshake(t) PROVE CountInv'
  <2>1. /\ Enrolled' = Enrolled
        /\ At("shake")' = At("shake") \ {t} /\ t \in At("shake")
        /\ At("signal_shake")' = At("signal_shake") /\ At("post")' = At("post")
        /\ At("broadcast_shake")' = At("broadcast_shake")
    BY <1>5 DEF WaitHandshake, Step, TypeOK, Labels, Enrolled, At
  <2>2. handshakeSem' = handshakeSem + 1 /\ UNCHANGED <<waiters, countingSem, todo>>
    BY <1>5 DEF WaitHandshake
  <2>3. Cardinality(At("shake")') = Cardinality(At("shake")) - 1
    BY <2>1, ThreadSets
  <2>4. UnderWay' = UnderWay /\ UnderWay # 0
    <3> DEFINE S == Cardinality(At("shake"))  T == Cardinality(At("shake")')
    <3>1. S \in Nat /\ S # 0 /\ T = S - 1
      BY <2>1, <2>3, ThreadSets
    <3>2. UnderWay = countingSem + S + handshakeSem
          /\ UnderWay' = countingSem' + T + handshakeSem'
      OBVIOUS
    <3> HIDE DEF S, T, UnderWay
    <3>3. QED
      BY <2>2, <3>1, <3>2
  <2>5. Cardinality(Enrolled') + Cardinality(At("shake")') + handshakeSem'
          = Cardinality(Enrolled) + Cardinality(At("shake")) + handshakeSem
    BY <2>1, <2>2, <2>3
  <2>6. QED
    BY <2>1, <2>2, <2>4, <2>5 DEF CountInv, Notifying
<1>6. ASSUME SignalOne(t) PROVE CountInv'
  <2>1. \A u \in Notifying : u = t
    BY <1>6, LockSections DEF SignalOne, Step, HoldsWaitersLock
  <2>2. Notifying = {}
    BY <1>6, <2>1 DEF SignalOne, Step, Notifying, At
  <2>3. /\ Enrolled' = Enrolled /\ At("shake")' = At("shake")
        /\ At("signal_shake")' = {t} /\ At("post")' = {} /\ At("broadcast_shake")' = {}
    BY <1>6, <2>2 DEF SignalOne, Step, TypeOK, Labels, Notifying, Enrolled, At
  <2>4. /\ waiters > 0 /\ waiters' = waiters - 1 /\ countingSem' = countingSem + 1
        /\ UNCHANGED handshakeSem
    BY <1>6 DEF SignalOne
  <2>5. countingSem = 0 /\ UnderWay = 0 /\ waiters = Cardinality(Enrolled)
    BY <2>2 DEF CountInv
  <2>6. UnderWay' = UnderWay + 1
    BY <2>3, <2>4
  <2>7. waiters' + countingSem' = Cardinality(Enrolled')
    BY <2>3, <2>4, <2>5
  <2>8. UnderWay' = 1
    BY <2>5, <2>6
  <2> HIDE DEF UnderWay
  <2>9. QED
    BY <2>3, <2>7, <2>8 DEF CountInv, Notifying
<1>7. ASSUME SignalShake(t) PROVE CountInv'
  <2>1. \A u \in Notifying : u = t
    BY <1>7, LockSections DEF SignalShake, Step, HoldsWaitersLock
  <2>2. At("signal_shake") # {}
    BY <1>7 DEF SignalShake, Step, At
  <2>3. Enrolled' = Enrolled /\ At("shake")' = At("shake") /\ Notifying' = {}
    BY <1>7, <2>1 DEF SignalShake, Step, TypeOK, Labels, Notifying, Enrolled, At
  <2>4. /\ handshakeSem > 0 /\ handshakeSem' = handshakeSem - 1
        /\ UNCHANGED <<waiters, countingSem>>
    BY <1>7 DEF SignalShake
  <2>5. QED
    BY <2>2, <2>3, <2>4 DEF CountInv, Notifying
<1>8. ASSUME BroadcastPost(t) PROVE CountInv'
  <2>1. \A u \in Notifying : u = t
    BY <1>8, LockSections DEF BroadcastPost, Step, HoldsWaitersLock
  <2>2. At("post") # {} /\ UNCHANGED <<waiters, handshakeSem>>
    BY <1>8 DEF BroadcastPost, Step, At
  <2>3. Enrolled' = Enrolled /\ At("shake")' = At("shake") /\ At("signal_shake")' = {}
    BY <1>8, <2>1 DEF BroadcastPost, Step, TypeOK, Labels, Notifying, Enrolled, At
  <2>4. CASE todo > 0
    <3>1. At("post")' = {t} /\ At("broadcast_shake")' = {}
      BY <1>8, <2>1, <2>4 DEF BroadcastPost, Step, TypeOK, Labels, Notifying, At
    <3>2. countingSem' = countingSem + 1 /\ todo' = todo - 1
      BY <1>8, <2>4 DEF BroadcastPost
    <3>3. /\ UnderWay' + todo' = UnderWay + todo
          /\ Cardinality(At("shake")') = Cardinality(At("shake"))
          /\ waiters' = waiters /\ handshakeSem' = handshakeSem
      BY <2>2, <2>3, <2>4, <3>2
    <3>4. QED
      BY <2>2, <2>3, <3>1, <3>3 DEF CountInv, Notifying
  <2>5. CASE todo = 0
    <3>1. At("post")' = {} /\ At("broadcast_shake")' = {t}
      BY <1>8, <2>1, <2>5 DEF BroadcastPost, Step, TypeOK, Labels, Notifying, At
    <3>2. countingSem' = countingSem /\ todo' = waiters
      BY <1>8, <2>5 DEF BroadcastPost
    <3>3. QED
      BY <2>2, <2>3, <2>5, <3>1, <3>2 DEF CountInv, Notifying
  <2>6. QED
    BY <2>4, <2>5
<1>9. ASSUME BroadcastShake(t) PROVE CountInv'
  <2>1. Elsewhere /\ At("broadcast_shake") # {}
    BY <1>9 DEF BroadcastShake, Step, TypeOK, Labels, Elsewhere, Enrolled, At
  <2>2. /\ handshakeSem > 0 /\ handshakeSem' = handshakeSem - 1
        /\ todo > 0 /\ todo' = todo - 1 /\ UNCHANGED <<waiters, countingSem>>
    BY <1>9 DEF BroadcastShake
  <2>3. At("signal_shake") = {} /\ At("post") = {}
    <3>1. \A u \in Notifying : u = t
      BY <1>9, LockSections DEF BroadcastShake, Step, HoldsWaitersLock
    <3>2. QED
      BY <1>9, <3>1 DEF BroadcastShake, Step, Notifying, At
  <2>4. QED
    BY <2>1, <2>2, <2>3 DEF CountInv, Notifying, Elsewhere
<1>10. ASSUME BroadcastUnlock(t) PROVE CountInv'
  <2>1. \A u \in Notifying : u = t
    BY <1>10, LockSections DEF BroadcastUnlock, Step, HoldsWaitersLock
  <2>2. At("broadcast_shake") # {}
    BY <1>10 DEF BroadcastUnlock, Step, At
  <2>3. Enrolled' = Enrolled /\ At("shake")' = At("shake") /\ Notifying' = {}
    BY <1>10, <2>1 DEF BroadcastUnlock, Step, TypeOK, Labels, Notifying, Enrolled, At
  <2>4. todo = 0 /\ ~(waiters > 0) /\ UNCHANGED <<waiters, countingSem, handshakeSem>>
    BY <1>10 DEF BroadcastUnlock, AllHandshakes
  <2>5. UnderWay = 0 /\ waiters = 0 /\ Cardinality(Enrolled) = 0
    BY <2>2, <2>4 DEF CountInv
  <2>6. QED
    BY <2>3, <2>4, <2>5 DEF CountInv, Notifying
<1>11. QED
  BY <1>1, <1>2, <1>3, <1>4, <1>5, <1>6, <1>7, <1>8, <1>9, <1>10
  DEF Action, Internal, Waits, Signals, Broadcasts

LEMMA CondInvInit == Init => CondInv
<1> SUFFICES ASSUME Init PROVE CondInv
  OBVIOUS
<1>1. /\ {t \in Threads : HoldsMutex(t)} = {}
      /\ {t \in Threads : HoldsWaitersLock(t)} = {}
      /\ Notifying = {} /\ Enrolled = {} /\ At("shake") = {}
  BY DEF Init, HoldsMutex, HoldsWaitersLock, Signalling, Broadcasting, Notifying, Enrolled, At
<1>2. TypeOK
  <2>1. pc \in [Threads -> Labels] /\ back \in [Threads -> {"idle", "hold"}]
    BY DEF Init, Labels
  <2>2. waits \in 0..MaxWaits /\ signals \in 0..MaxSignals /\ broadcasts \in 0..MaxBroadcasts
    BY DEF Init
  <2>3. /\ mutex + Cardinality({t \in Threads : HoldsMutex(t)}) = 1
        /\ waitersLock + Cardinality({t \in Threads : HoldsWaitersLock(t)}) = 1
    BY <1>1, FS_EmptySet DEF Init
  <2>4. /\ {waiters, countingSem, handshakeSem, todo} \subseteq Nat
        /\ {mutex, waitersLock} \subseteq {0, 1}
    BY DEF Init
  <2>5. stale \in BOOLEAN
    BY DEF Init
  <2>6. QED
    BY <2>1, <2>2, <2>3, <2>4, <2>5 DEF TypeOK
<1>3. CountInv
  BY <1>1, FS_EmptySet DEF Init, CountInv, UnderWay, Notifying
<1>4. QED
  BY <1>2, <1>3 DEF CondInv

LEMMA CondInvStep == CondInv /\ [Next]_vars => CondInv'
<1> SUFFICES ASSUME CondInv, [Next]_vars PROVE CondInv'
  OBVIOUS
<1>1. TypeOK'
  BY CondTypeStep DEF CondInv
<1>2. ASSUME NEW t \in Threads, Action(t), ~stale' PROVE CountInv'
  <2>1. ~stale
    BY <1>2 DEF Action, Calls, CallWait, CallSignal, CallBroadcast, MutexAcquire, MutexRelease,
                Internal, LockWaiters, Waits, Enrol, WaitRelease, WaitPass, WaitHandshake,
                Signals, SignalNobody, SignalOne, SignalShake,
                Broadcasts, BroadcastPost, BroadcastShake, BroadcastUnlock
  <2>2. QED
    BY <1>2, <2>1, CountStep DEF CondInv
<1>3. ASSUME UNCHANGED vars, ~stale' PROVE CountInv'
  BY <1>3 DEF CondInv, vars, sems, calls, CountInv, UnderWay, Notifying, Enrolled, At
<1>4. QED
  BY <1>1, <1>2, <1>3 DEF CondInv, Next, Action

-----------------------------------------------------------------------------
\* blodwen-mutex and waitersLock exclude; and until a broadcast has found
\* somebody, an operation finds in cv-waiters the number of threads that wait
\* and no permit or handshake that was meant for another.
THEOREM ConditionCountsExact == Spec => []CountsExact
<1>1. CondInv => CountsExact
  <2> SUFFICES ASSUME CondInv PROVE CountsExact
    OBVIOUS
  <2>1. TypeOK
    BY DEF CondInv
  <2>2. ASSUME waitersLock = 1, ~stale
        PROVE  /\ waiters = Cardinality(Enrolled) /\ countingSem = 0 /\ handshakeSem = 0
    <3>1. Notifying = {}
      BY <2>1, <2>2, LockSections
    <3>2. UnderWay = 0 /\ waiters = Cardinality(Enrolled)
      BY <2>2, <3>1 DEF CondInv, CountInv
    <3>3. QED
      BY <2>1, <3>2, CountedSets DEF UnderWay
  <2>3. QED
    BY <2>1, <2>2 DEF CountsExact
<1>2. QED
  BY <1>1, CondInvInit, CondInvStep, PTL DEF Spec

\* The first broadcast that found somebody leaves, when it unlocks, nobody of
\* those it counted behind, and lets nobody in who came later.
THEOREM BroadcastLeavesNobody == Spec => BroadcastReleasesAll
<1> DEFINE Leaves == \A t \in Threads :
             (~stale /\ pc[t] = "broadcast_shake" /\ pc'[t] # pc[t]) => Enrolled = {}
<1>1. CondInv /\ [Next]_vars => [Leaves]_vars
  <2> SUFFICES ASSUME CondInv, Next, NEW t \in Threads,
                      ~stale, pc[t] = "broadcast_shake", pc'[t] # pc[t]
               PROVE  Enrolled = {}
    BY DEF Leaves
  <2> USE DEF CondInv
  <2>1. BroadcastUnlock(t)
    <3>1. PICK u \in Threads : Action(u)
      BY DEF Next, Action
    <3>2. \E l : pc' = [pc EXCEPT ![u] = l]
      BY <3>1 DEF Action, Calls, CallWait, CallSignal, CallBroadcast, MutexAcquire,
             MutexRelease, Internal, LockWaiters, Waits, Enrol, WaitRelease, WaitPass,
             WaitHandshake, Signals, SignalNobody, SignalOne, SignalShake,
             Broadcasts, BroadcastPost, BroadcastShake, BroadcastUnlock, Step
    <3>3. u = t
      BY <3>2 DEF TypeOK
    <3>4. BroadcastShake(t) \/ BroadcastUnlock(t)
      BY <3>1, <3>3
      DEF Action, Calls, CallWait, CallSignal, CallBroadcast, MutexAcquire, MutexRelease,
          Internal, LockWaiters, Waits, Enrol, WaitRelease, WaitPass, WaitHandshake,
          Signals, SignalNobody, SignalOne, SignalShake, Broadcasts, BroadcastPost, Step
    <3>5. ~BroadcastShake(t)
      BY DEF BroadcastShake, Step, TypeOK
    <3>6. QED
      BY <3>4, <3>5
  <2>2. At("broadcast_shake") # {} /\ todo = 0
    BY <2>1 DEF At, BroadcastUnlock, AllHandshakes
  <2>3. Cardinality(Enrolled) = 0
    BY <2>2, CountedSets DEF CountInv, UnderWay
  <2>4. QED
    BY <2>3, CountedSets, ThreadSets
<1>2. QED
  BY CondInvInit, CondInvStep, <1>1, PTL DEF Spec, BroadcastReleasesAll
=============================================================================
