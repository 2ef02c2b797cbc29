---------------------------- MODULE ChezChannel ----------------------------
(***************************************************************************)
(* The channel of the Chez Scheme runtime (support/chez/support.ss,        *)
(* blodwen-make-channel, -put and -get): one mutex, a one-value box, a     *)
(* flag that says whether the value has been read, and two conditions.     *)
(*                                                                         *)
(* Both waits are loops around condition-wait, and both operations signal  *)
(* the other side AFTER they have released the mutex: between the release  *)
(* and the signal any other thread may use the channel.                    *)
(***************************************************************************)
EXTENDS Naturals, Sequences

CONSTANTS
  Threads,      \* the threads that share the channel
  Values,       \* what is sent
  NoHolder,     \* "nobody holds read-mut"
  Nil,          \* '(), the content of val-box when there is no value
  MaxPuts,      \* bound: calls of channel-put in a behaviour
  MaxGets,      \* bound: calls of channel-get in a behaviour
  MaxSpurious   \* bound: condition-waits that return without a signal

ASSUME ChannelAssumption ==
  /\ NoHolder \notin Threads
  /\ Nil \notin Values
  /\ MaxPuts \in Nat
  /\ MaxGets \in Nat
  /\ MaxSpurious \in Nat

VARIABLES
  owner,      \* who holds read-mut
  readBox,    \* read-box: TRUE when the value has been read
  valBox,     \* val-box
  pc,         \* where each thread is
  arg,        \* the value a thread is putting
  puts,       \* calls of channel-put so far
  gets,       \* calls of channel-get so far
  spurious,   \* wakeups without a signal so far
  sent,       \* history: values stored in val-box
  received    \* history: values taken out of val-box

channelVars == <<owner, readBox, valBox, pc, arg, puts, gets, spurious, sent, received>>

At(l) == {t \in Threads : pc[t] = l}

ChannelInit ==
  /\ owner = NoHolder
  /\ readBox = TRUE
  /\ valBox = Nil
  /\ pc = [t \in Threads |-> "idle"]
  /\ arg = [t \in Threads |-> Nil]
  /\ puts = 0
  /\ gets = 0
  /\ spurious = 0
  /\ sent = <<>>
  /\ received = <<>>

Goto(t, l) == pc' = [pc EXCEPT ![t] = l]

CallPut(t) ==
  /\ pc[t] = "idle"
  /\ puts < MaxPuts
  /\ puts' = puts + 1
  /\ \E v \in Values : arg' = [arg EXCEPT ![t] = v]
  /\ Goto(t, "put_lock")
  /\ UNCHANGED <<owner, readBox, valBox, gets, spurious, sent, received>>

CallGet(t) ==
  /\ pc[t] = "idle"
  /\ gets < MaxGets
  /\ gets' = gets + 1
  /\ Goto(t, "get_lock")
  /\ UNCHANGED <<owner, readBox, valBox, arg, puts, spurious, sent, received>>

\* mutex-acquire, on entry or inside condition-wait after a wakeup: either way
\* the flag is tested next.
Acquire(t, from, to) ==
  /\ pc[t] \in from
  /\ owner = NoHolder
  /\ owner' = t
  /\ Goto(t, to)
  /\ UNCHANGED <<readBox, valBox, arg, puts, gets, spurious, sent, received>>

PutAcquire(t) == Acquire(t, {"put_lock", "put_woken"}, "put_test")
GetAcquire(t) == Acquire(t, {"get_lock", "get_woken"}, "get_test")

\* condition-wait: release the mutex and sleep on the condition.
CondWait(t, l) ==
  /\ owner' = NoHolder
  /\ Goto(t, l)
  /\ UNCHANGED <<readBox, valBox, arg, puts, gets, spurious, sent, received>>

PutSleep(t) == pc[t] = "put_test" /\ ~readBox /\ CondWait(t, "put_wait")
GetSleep(t) == pc[t] = "get_test" /\ readBox /\ CondWait(t, "get_wait")

\* Mutant: the value is stored without looking at the flag again.
StoreUnchecked(t) ==
  /\ pc[t] = "put_test"
  /\ valBox' = arg[t]
  /\ readBox' = FALSE
  /\ owner' = NoHolder
  /\ sent' = Append(sent, arg[t])
  /\ Goto(t, "put_signal")
  /\ UNCHANGED <<arg, puts, gets, spurious, received>>

\* The old value has been read: store the new one and release the mutex.
Store(t) ==
  /\ pc[t] = "put_test"
  /\ readBox
  /\ valBox' = arg[t]
  /\ readBox' = FALSE
  /\ owner' = NoHolder
  /\ sent' = Append(sent, arg[t])
  /\ Goto(t, "put_signal")
  /\ UNCHANGED <<arg, puts, gets, spurious, received>>

\* Mutant: the mutex is not released after the value is taken.
TakeKeepsMutex(t) ==
  /\ pc[t] = "get_test"
  /\ ~readBox
  /\ received' = Append(received, valBox)
  /\ valBox' = Nil
  /\ readBox' = TRUE
  /\ UNCHANGED owner
  /\ Goto(t, "get_signal")
  /\ UNCHANGED <<arg, puts, gets, spurious, sent>>

\* There is a value: take it, empty the box and release the mutex.
Take(t) ==
  /\ pc[t] = "get_test"
  /\ ~readBox
  /\ received' = Append(received, valBox)
  /\ valBox' = Nil
  /\ readBox' = TRUE
  /\ owner' = NoHolder
  /\ Goto(t, "get_signal")
  /\ UNCHANGED <<arg, puts, gets, spurious, sent>>

\* condition-signal: one of the threads at `wait' is released from the
\* condition and heads for `woken'; with none there the signal is forgotten.
CondSignal(t, wait, woken) ==
  /\ \/ /\ At(wait) = {}
        /\ Goto(t, "idle")
     \/ \E u \in At(wait) : pc' = [pc EXCEPT ![t] = "idle", ![u] = woken]
  /\ UNCHANGED <<owner, readBox, valBox, arg, puts, gets, spurious, sent, received>>

\* Mutants: the two conditions are swapped.
PutSignalsReadCv(t) == pc[t] = "put_signal" /\ CondSignal(t, "put_wait", "put_woken")
GetSignalsValCv(t) == pc[t] = "get_signal" /\ CondSignal(t, "get_wait", "get_woken")

PutSignal(t) == pc[t] = "put_signal" /\ CondSignal(t, "get_wait", "get_woken")
GetSignal(t) == pc[t] = "get_signal" /\ CondSignal(t, "put_wait", "put_woken")

\* A condition-wait may return although nobody signalled.
SpuriousWakeup(t) ==
  /\ spurious < MaxSpurious
  /\ spurious' = spurious + 1
  /\ \/ pc[t] = "put_wait" /\ Goto(t, "put_woken")
     \/ pc[t] = "get_wait" /\ Goto(t, "get_woken")
  /\ UNCHANGED <<owner, readBox, valBox, arg, puts, gets, sent, received>>

Internal(t) ==
  \/ PutAcquire(t)
  \/ PutSleep(t)
  \/ Store(t)
  \/ PutSignal(t)
  \/ GetAcquire(t)
  \/ GetSleep(t)
  \/ Take(t)
  \/ GetSignal(t)

ChannelNext == \E t \in Threads :
          CallPut(t) \/ CallGet(t) \/ Internal(t) \/ SpuriousWakeup(t)

\* A thread inside an operation keeps running; calls and spurious wakeups
\* need never happen.
ChannelFairness == \A t \in Threads : WF_channelVars(Internal(t))

ChannelSpec == ChannelInit /\ [][ChannelNext]_channelVars /\ ChannelFairness

-----------------------------------------------------------------------------
Critical == {"put_test", "get_test"}
Labels == Critical \cup
  {"idle", "put_lock", "put_wait", "put_woken", "put_signal",
   "get_lock", "get_wait", "get_woken", "get_signal"}

\* The state is well formed, and read-mut is held by exactly the thread that
\* is testing the flag.
TypeOK ==
  /\ owner \in Threads \cup {NoHolder}
  /\ readBox \in BOOLEAN
  /\ valBox \in Values \cup {Nil}
  /\ pc \in [Threads -> Labels]
  /\ arg \in [Threads -> Values \cup {Nil}]
  /\ \A t \in At("put_lock") \cup At("put_test") \cup At("put_wait") \cup At("put_woken") :
       arg[t] \in Values
  /\ puts \in 0..MaxPuts
  /\ gets \in 0..MaxGets
  /\ spurious \in 0..MaxSpurious
  /\ sent \in Seq(Values)
  /\ received \in Seq(Values)
  /\ \A t \in Threads : pc[t] \in Critical <=> owner = t

\* The box and the flag agree with the histories: the channel holds a value
\* exactly when one more value was sent than received, and it is that one.
BoxMatchesHistory ==
  IF readBox
  THEN valBox = Nil /\ Len(sent) = Len(received)
  ELSE /\ Len(sent) = Len(received) + 1
       /\ valBox = sent[Len(sent)]

\* Signalling after the release loses no wakeup.  When a value waits and a
\* getter sleeps, a signal for it is still to come or a getter is awake and
\* will look at the flag; and the same for a sleeping putter and a free box.
NoLostSignal ==
  /\ (~readBox /\ At("get_wait") # {}) =>
       At("put_signal") \cup At("get_woken") \cup At("get_test") # {}
  /\ (readBox /\ At("put_wait") # {}) =>
       At("get_signal") \cup At("put_woken") \cup At("put_test") # {}

Getting == At("get_lock") \cup At("get_test") \cup At("get_wait") \cup At("get_woken")
Putting == At("put_lock") \cup At("put_test") \cup At("put_wait") \cup At("put_woken")

\* A value in the channel and a thread inside channel-get do not stay side by
\* side forever, and neither do a free channel and a thread inside channel-put.
MeetsGetter == (~readBox /\ Getting # {}) ~> readBox
MeetsPutter == (readBox /\ Putting # {}) ~> ~readBox

Progress == MeetsGetter /\ MeetsPutter

\* The channel implements the documented one-slot channel: nothing is lost,
\* duplicated, reordered or overwritten.
Documented == INSTANCE OneSlotChannel
DocumentedSpec == Documented!Spec
=============================================================================
