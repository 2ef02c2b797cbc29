------------------------- MODULE SupportProofs -------------------------------
(***************************************************************************)
(* For any signals, threads and arrivals: the types, that no collected     *)
(* signal is lost, and that none is handed out twice except to calls that  *)
(* overlap.  For any bytes, calls and interruptions: a reader of a FILE    *)
(* loses, repeats and reorders nothing.  For any requests: what recvAll    *)
(* returns.  For any bytes and however they arrive: what a page is.        *)
(*                                                                         *)
(* The invariant of the signals says that the word is exactly what is owed *)
(* and that a copy differs from the word only by what other calls have     *)
(* handed out since it was loaded, and by what the handler has added.      *)
(* That of the files says in which stages a call may have bytes in its     *)
(* hand and why a read can have failed.  That of recvAll says what it has  *)
(* after k full requests, and that of a page that the lines behind it and  *)
(* the bytes in its hand are the pieces of the bytes it has taken.         *)
(*                                                                         *)
(* InFull and Pieces are recursive functions: RoundsExist proves that such *)
(* a function exists, and what holds for each of its arguments is shown    *)
(* with Induction, which takes a set where the library's takes an operator.*)
(***************************************************************************)
EXTENDS SupportStream, SequenceTheorems, WellFoundedInduction, TLAPS

SnapshotsExplained ==
  \A t \in Threads : /\ snapshot[t] \subseteq signals \cup overtaken[t]
                     /\ ~InCall(t) => overtaken[t] = {}

SignalInv == TypeOK /\ signals = owed /\ SnapshotsExplained

-----------------------------------------------------------------------------
(* A set of numbers that is not empty has a least element. *)
LEMMA LeastNumber ==
  ASSUME NEW S \in SUBSET Nat, S # {}
  PROVE  \E x \in S : \A y \in S : x <= y
<1> DEFINE R == {ss \in Nat \X Nat : ss[1] < ss[2]}
<1>1. IsWellFoundedOn(R, Nat)
  BY NatLessThanWellFounded DEF OpToRel
<1>2. PICK x \in S : \A y \in S : <<y, x>> \notin R
  <2> HIDE DEF R
  <2> QED  BY <1>1, WFMin
<1>3. \A y \in S : x <= y
  <2> SUFFICES ASSUME NEW y \in S PROVE x <= y
    OBVIOUS
  <2>1. x \in Nat /\ y \in Nat /\ <<y, x>> \notin R
    BY <1>2
  <2>2. ~(y < x)
    BY <2>1
  <2>3. QED
    BY <2>1, <2>2
<1>4. QED
  BY <1>3

(* The loop over the signal numbers finds a bit of a word that is not 0. *)
LEMMA LowestIsIn ==
  ASSUME NEW S \in SUBSET SigNums, S # {}
  PROVE  Lowest(S) \in S
<1>1. S \in SUBSET Nat
  BY SigNumsAssumption DEF N_SIGNALS
<1>2. QED
  BY <1>1, LeastNumber DEF Lowest

LEMMA MinIsIn ==
  ASSUME NEW n \in Nat, NEW S \in SUBSET (1 .. n), S # {}
  PROVE  Min(S) \in S
<1>1. S \in SUBSET Nat
  OBVIOUS
<1>2. QED
  BY <1>1, LeastNumber DEF Min

LEMMA SignalInvInit == SignalInit => SignalInv
BY MaxRaisesAssumption
DEF SignalInit, SignalInv, TypeOK, SnapshotsExplained, InCall

LEMMA SignalInvStep == SignalInv /\ [SignalNext]_sigVars => SignalInv'
<1> SUFFICES ASSUME SignalInv, [SignalNext]_sigVars PROVE SignalInv'
  OBVIOUS
<1> USE DEF SignalInv, TypeOK, SnapshotsExplained, InCall
<1>1. ASSUME NEW s \in SigNums, NEW d \in {"default", "ignore", "collect"},
             SetDisposition(s, d)
      PROVE  SignalInv'
  BY <1>1 DEF SetDisposition
<1>2. ASSUME NEW s \in SigNums, Terminate(s) PROVE SignalInv'
  <2>1. raises' \in 0 .. MaxRaises
    BY <1>2, MaxRaisesAssumption DEF Terminate, Arrives
  <2>2. QED
    BY <1>2, <2>1 DEF Terminate
<1>3. ASSUME NEW s \in SigNums, Discard(s) PROVE SignalInv'
  <2>1. raises' \in 0 .. MaxRaises
    BY <1>3, MaxRaisesAssumption DEF Discard, Arrives
  <2>2. QED
    BY <1>3, <2>1 DEF Discard
<1>4. ASSUME NEW s \in SigNums, CollectSignal(s) PROVE SignalInv'
  <2>1. raises' \in 0 .. MaxRaises
    BY <1>4, MaxRaisesAssumption DEF CollectSignal, Arrives
  <2>2. QED
    BY <1>4, <2>1 DEF CollectSignal
<1>5. ASSUME NEW t \in Threads, Load(t) PROVE SignalInv'
  BY <1>5 DEF Load
<1>6. ASSUME NEW t \in Threads, TakeLowest(t) PROVE SignalInv'
  <2> DEFINE s == Lowest(snapshot[t])
  <2>1. s \in SigNums
    BY <1>6, LowestIsIn DEF TakeLowest
  <2>2. /\ signals' = signals \ {s} /\ owed' = owed \ {s}
        /\ snapshot' = [snapshot EXCEPT ![t] = {}]
        /\ overtaken' = [u \in Threads |-> IF u # t /\ InCall(u)
                                           THEN overtaken[u] \cup {s} ELSE
                                           IF u = t THEN {} ELSE overtaken[u]]
        /\ UNCHANGED <<disposition, alive, raises>>
    BY <1>6 DEF TakeLowest, HandOut
  <2> HIDE DEF s
  <2>3. TypeOK'
    BY <2>1, <2>2
  <2>4. SnapshotsExplained'
    BY <2>1, <2>2
  <2>5. QED
    BY <2>2, <2>3, <2>4
<1>7. CASE UNCHANGED sigVars
  BY <1>7 DEF sigVars
<1>8. QED
  BY <1>1, <1>2, <1>3, <1>4, <1>5, <1>6, <1>7
  DEF SignalNext, Dispositions, Arrivals, Fetches,
      ignore_signal, default_signal, collect_signal

-----------------------------------------------------------------------------
(* The state is well formed: in particular a copy only ever holds signals  *)
(* that can be collected, so that a call finds a bit and does not abort.   *)
THEOREM SignalTypeCorrect == SignalSpec => []TypeOK
<1>1. SignalInv => TypeOK
  BY DEF SignalInv
<1>2. QED
  BY SignalInvInit, SignalInvStep, <1>1, PTL DEF SignalSpec

(* What the handler recorded stays in the word until a call hands it out,  *)
(* for any number of threads that clear the word by outdated copies.       *)
THEOREM SignalsKept == SignalSpec => []NoSignalLost
<1>1. SignalInv => NoSignalLost
  BY DEF SignalInv, NoSignalLost
<1>2. QED
  BY SignalInvInit, SignalInvStep, <1>1, PTL DEF SignalSpec

LEMMA TakesWhatIsOwed ==
  ASSUME SignalInv, NEW t \in Threads, TakeLowest(t)
  PROVE  Lowest(snapshot[t]) \in owed \cup overtaken[t]
<1>1. Lowest(snapshot[t]) \in snapshot[t]
  BY LowestIsIn DEF TakeLowest, InCall, SignalInv, TypeOK
<1>2. QED
  BY <1>1 DEF SignalInv, SnapshotsExplained

(* A call hands out a signal that is owed, or that another call handed out *)
(* while this one was under way. *)
THEOREM SignalsHandedOutOnce == SignalSpec => NotTwice
<1> DEFINE Justified == \A t \in Threads :
             TakeLowest(t) => Lowest(snapshot[t]) \in owed \cup overtaken[t]
<1>1. SignalInv /\ [SignalNext]_sigVars => [Justified]_sigVars
  BY TakesWhatIsOwed
<1>2. QED
  BY SignalInvInit, SignalInvStep, <1>1, PTL DEF SignalSpec, NotTwice

-----------------------------------------------------------------------------
(* The stream.  What keeps a byte from getting lost is where a call may    *)
(* stop with bytes in its hand: when a read failed, which, on a stream     *)
(* that works, only an interruption makes happen.                          *)

Bytes == Seq(Nat)

Forgetful == interrupted /\ (getlineOf = "support" \/ kind = "chars")

InHand == log \o job.got \o file.buf \o wire

StreamTypes ==
  /\ written \in Nat /\ wire \in Bytes /\ log \in Bytes
  /\ DOMAIN file = {"buf", "eof", "error"} /\ file.buf \in Bytes
  /\ DOMAIN job = DOMAIN Idle /\ job.got \in Bytes

JobInv ==
  /\ job.stage \in {"none", "test", "line", "seek", "chars"}
  /\ job.stage \in {"none", "test"} => job.got = <<>>
  /\ job.call = "none" <=> job.stage = "none"
  /\ job.stage = "chars" => job.n \in Nat /\ Len(job.got) <= job.n
  /\ job.call = "char" => kind = "chars"

(* A directory gives no bytes, and nothing else makes a read fail. *)
ErrorInv ==
  /\ sick => ~open /\ wire = <<>> /\ file.buf = <<>> /\ job.got = <<>>
  /\ file.error => sick \/ interrupted

FileInv ==
  kind # "socket" =>
    /\ StreamTypes /\ JobInv /\ ErrorInv
    /\ ~Forgetful => InHand = [i \in 1 .. written |-> i]

-----------------------------------------------------------------------------
(* Concatenation under a name of its own, so that the two facts about it    *)
(* that matter here stay all that is known of it. *)
Cat(x, y) == x \o y

LEMMA Concatenates ==
  ASSUME NEW x \in Bytes, NEW y \in Bytes
  PROVE  x \o y \in Bytes
BY ConcatProperties DEF Bytes

LEMMA Associates ==
  ASSUME NEW x \in Bytes, NEW y \in Bytes, NEW z \in Bytes
  PROVE  Cat(x, y) \in Bytes /\ Cat(Cat(x, y), z) = Cat(x, Cat(y, z))
BY Concatenates, ConcatAssociative DEF Bytes, Cat

(* What a call has in its hand, and what it takes from the buffer. *)
LEMMA Shift ==
  ASSUME NEW l \in Bytes, NEW g \in Bytes, NEW t \in Bytes, NEW r \in Bytes
  PROVE  Cat(Cat(l, Cat(g, t)), r) = Cat(Cat(l, g), Cat(t, r))
BY Associates

(* Taking the first k bytes of a buffer. *)
LEMMA TakeBytes ==
  ASSUME NEW b \in Bytes, NEW k \in 0 .. Len(b)
  PROVE  /\ SubSeq(b, 1, k) \in Bytes /\ Len(SubSeq(b, 1, k)) = k
         /\ SubSeq(b, k + 1, Len(b)) \in Bytes
         /\ SubSeq(b, 1, k) \o SubSeq(b, k + 1, Len(b)) = b
<1>1. Len(b) \in Nat /\ \A i \in 1 .. Len(b) : b[i] \in Nat
  BY LenProperties, ElementOfSeq DEF Bytes
<1>2. SubSeq(b, 1, k) \in Bytes /\ Len(SubSeq(b, 1, k)) = k
  <2>1. \A i \in 1 .. k : b[i] \in Nat
    BY <1>1
  <2>2. k \in Int /\ (IF 1 <= k THEN k - 1 + 1 ELSE 0) = k
    BY <1>1
  <2>3. QED
    BY <2>1, <2>2, SubSeqProperties DEF Bytes
<1>3. SubSeq(b, k + 1, Len(b)) \in Bytes
  <2>1. \A i \in k + 1 .. Len(b) : b[i] \in Nat
    BY <1>1
  <2>2. k + 1 \in Int /\ Len(b) \in Int
    BY <1>1
  <2>3. QED
    BY <2>1, <2>2, SubSeqProperties DEF Bytes
<1>4. SubSeq(b, 1, k) \o SubSeq(b, k + 1, Len(b)) = SubSeq(b, 1, Len(b))
  <2>1. 1 \in 1 .. Len(b) + 1 /\ k \in 1 - 1 .. Len(b) /\ Len(b) \in k .. Len(b)
    BY <1>1
  <2>2. QED
    BY <2>1, ConcatAdjacentSubSeq DEF Bytes
<1>5. SubSeq(b, 1, Len(b)) = b
  BY SubSeqFull DEF Bytes
<1>6. QED
  BY <1>2, <1>3, <1>4, <1>5

(* A line, a skipped line or a chunk ends with got in the hand of the      *)
(* call. *)
LEMMA EndKeeps ==
  ASSUME StreamTypes, JobInv, job.stage \in {"line", "seek", "chars"},
         NEW got \in Bytes, NEW how, Ends(got, how), kind' = kind
  PROVE  /\ DOMAIN job' = DOMAIN Idle /\ job'.got = <<>> /\ JobInv'
         /\ log' \in Bytes
         /\ \/ got = <<>>
            \/ /\ ~(how = "error" /\ getlineOf = "support")
               /\ ~(job.call = "char" /\ file'.error)
            => log' = log \o got
<1> USE DEF StreamTypes
<1>i. /\ DOMAIN Idle = {"call", "stage", "got", "acc", "n", "offset", "fuel", "ask", "atEnd",
                        "from", "rest", "whole"}
      /\ Idle.got = <<>> /\ Idle.stage = "none" /\ Idle.call = "none"
  BY DEF Idle
<1>l. log \o got \in Bytes /\ log \o <<>> = log /\ <<>> \in Bytes
  BY Concatenates, ConcatEmptySeq, EmptySeq DEF Bytes
<1>r. job' = Idle => DOMAIN job' = DOMAIN Idle /\ job'.got = <<>> /\ JobInv'
  BY <1>i DEF JobInv
<1>1. CASE LineEnds(got, how)
  <2>1. log' = log \o LineRead(got, how)
    BY <1>1 DEF LineEnds
  <2>2. /\ LineRead(got, how) = got \/ LineRead(got, how) = <<>>
        /\ ~(how = "error" /\ getlineOf = "support") => LineRead(got, how) = got
    BY DEF LineRead
  <2>3. CASE job.call = "page"
    <3>1. /\ DOMAIN job' = DOMAIN Idle /\ job'.got = <<>> /\ job'.stage = "test"
          /\ job'.call = job.call
      BY <1>1, <1>i, <2>3 DEF LineEnds
    <3>2. JobInv'
      BY <2>3, <3>1 DEF JobInv
    <3>3. QED
      BY <1>l, <2>1, <2>2, <3>1, <3>2
  <2>4. CASE job.call # "page"
    <3>1. job' = Idle
      BY <1>1, <2>4 DEF LineEnds, Return
    <3>2. QED
      BY <1>l, <1>r, <2>1, <2>2, <3>1
  <2>5. QED
    BY <2>3, <2>4
<1>2. CASE SeekEnds(got, how)
  <2>1. log' = log \o got
    BY <1>2 DEF SeekEnds
  <2>2. CASE job.call = "page" /\ SeekOk(how)
    <3>1. /\ DOMAIN job' = DOMAIN Idle /\ job'.got = <<>> /\ job'.stage = "test"
          /\ job'.call = job.call
      BY <1>2, <1>i, <2>2 DEF SeekEnds
    <3>2. JobInv'
      BY <2>2, <3>1 DEF JobInv
    <3>3. QED
      BY <1>l, <2>1, <3>1, <3>2
  <2>3. CASE ~(job.call = "page" /\ SeekOk(how))
    <3>1. job' = Idle
      BY <1>2, <2>3 DEF SeekEnds, Return
    <3>2. QED
      BY <1>l, <1>r, <2>1, <3>1
  <2>4. QED
    BY <2>2, <2>3
<1>3. CASE CharsEnd(got, how)
  <2>1. job' = Idle
    BY <1>3 DEF CharsEnd, Return
  <2>2. /\ log' = IF IF job.call = "char" THEN ~file'.error ELSE got # <<>>
                  THEN log \o got ELSE log
    BY <1>3 DEF CharsEnd
  <2>3. QED
    BY <1>l, <1>r, <2>1, <2>2
<1>4. QED
  BY <1>1, <1>2, <1>3 DEF Ends

-----------------------------------------------------------------------------
LEMMA FileInvInit == StreamInit => FileInv
<1> SUFFICES ASSUME StreamInit, kind # "socket"
             PROVE  /\ StreamTypes /\ JobInv /\ ErrorInv
                    /\ InHand = [i \in 1 .. written |-> i]
  BY DEF FileInv
<1>1. /\ wire = <<>> /\ written = 0 /\ open = ~sick /\ log = <<>> /\ job = Idle
      /\ file = [buf |-> <<>>, eof |-> FALSE, error |-> FALSE]
      /\ <<>> \in Bytes /\ <<>> \o <<>> = <<>>
  BY EmptySeq, ConcatEmptySeq DEF StreamInit, Bytes
<1>2. Idle.got = <<>> /\ Idle.stage = "none" /\ Idle.call = "none"
  BY DEF Idle
<1>3. StreamTypes /\ JobInv /\ ErrorInv
  BY <1>1, <1>2 DEF StreamTypes, JobInv, ErrorInv
<1>4. InHand = <<>>
  BY <1>1, <1>2 DEF InHand
<1>5. [i \in 1 .. written |-> i] = <<>>
  BY <1>1
<1>6. QED
  BY <1>3, <1>4, <1>5

(* A step that changes neither the bytes nor what is in hand. *)
LEMMA InHandKept ==
  ASSUME FileInv, kind # "socket", StreamTypes',
         config' = config, written' = written,
         interrupted => interrupted',
         ~Forgetful' => InHand' = InHand
  PROVE  ~Forgetful' => InHand' = [i \in 1 .. written' |-> i]
BY DEF FileInv, Forgetful, config

(* A call ends: what was in its hand and what it took from the buffer is in *)
(* the log, or is forgotten. *)
LEMMA EndStep ==
  ASSUME FileInv, kind # "socket", job.stage \in {"line", "seek", "chars"},
         NEW taken \in Bytes, NEW left \in Bytes, NEW how,
         file.buf = taken \o left, file'.buf = left, DOMAIN file' = DOMAIN file,
         UNCHANGED <<config, wire, written, open>>,
         Ends(job.got \o taken, how),
         file'.error => file.error \/ how = "error",
         taken # <<>> => ~sick /\ how # "error",
         how = "error" => sick \/ interrupted',
         interrupted => interrupted'
  PROVE  FileInv'
<1>1. /\ StreamTypes /\ JobInv /\ ErrorInv /\ job.got \in Bytes /\ log \in Bytes
      /\ wire \in Bytes
  BY DEF FileInv, StreamTypes
<1>2. job.got \o taken \in Bytes /\ kind' = kind /\ getlineOf' = getlineOf /\ sick' = sick
  BY <1>1, Concatenates DEF config
<1>3. /\ DOMAIN job' = DOMAIN Idle /\ job'.got = <<>> /\ JobInv'
      /\ log' \in Bytes
      /\ \/ job.got \o taken = <<>>
         \/ /\ ~(how = "error" /\ getlineOf = "support")
            /\ ~(job.call = "char" /\ file'.error)
         => log' = log \o (job.got \o taken)
  BY <1>1, <1>2, EndKeeps
<1>4. <<>> \in Bytes
  BY EmptySeq DEF Bytes
<1>5. StreamTypes'
  BY <1>1, <1>3, <1>4 DEF StreamTypes
<1>6. ErrorInv'
  <2>1. sick => left = <<>>
    <3> SUFFICES ASSUME sick PROVE left = <<>>
      OBVIOUS
    <3>1. taken = <<>> /\ taken \o left = <<>>
      BY <1>1 DEF ErrorInv
    <3>2. QED
      BY <3>1, ConcatEmptySeq DEF Bytes
  <2>2. QED
    BY <1>1, <1>2, <1>3, <2>1 DEF ErrorInv
<1>7. ASSUME ~Forgetful' PROVE InHand' = InHand
  <2>1. log' = log \o (job.got \o taken)
    <3>1. CASE sick
      <4>1. job.got = <<>> /\ taken = <<>>
        BY <1>1, <3>1 DEF ErrorInv
      <4>2. job.got \o taken = <<>>
        BY <4>1
      <4>3. QED
        BY <1>3, <4>2
    <3>2. CASE ~sick
      <4>1. ~(how = "error" /\ getlineOf = "support")
        BY <1>2, <1>7, <3>2 DEF Forgetful
      <4>2. ~(job.call = "char" /\ file'.error)
        BY <1>1, <1>2, <1>7, <3>2 DEF Forgetful, ErrorInv, JobInv
      <4>3. QED
        BY <1>3, <4>1, <4>2
    <3>3. QED
      BY <3>1, <3>2
  <2>2. InHand' = ((log \o (job.got \o taken)) \o left) \o wire
    <3>1. log' \o <<>> = log'
      BY <1>3, ConcatEmptySeq DEF Bytes
    <3>2. QED
      BY <1>3, <2>1, <3>1 DEF InHand
  <2>3. InHand = ((log \o job.got) \o (taken \o left)) \o wire
    BY DEF InHand
  <2>4. (log \o (job.got \o taken)) \o left = (log \o job.got) \o (taken \o left)
    <3>1. Cat(Cat(log, Cat(job.got, taken)), left) = Cat(Cat(log, job.got), Cat(taken, left))
      BY <1>1, Shift
    <3>2. QED
      BY <3>1 DEF Cat
  <2>5. QED
    BY <2>2, <2>3, <2>4
<1>8. QED
  BY <1>3, <1>5, <1>6, <1>7, InHandKept DEF FileInv

LEMMA GetBytesStep ==
  ASSUME FileInv, kind # "socket", GetBytes
  PROVE  FileInv'
<1> DEFINE k == Wanted(file.buf)
           taken == SubSeq(file.buf, 1, k)
           left == SubSeq(file.buf, k + 1, Len(file.buf))
<1>1. /\ StreamTypes /\ JobInv /\ ErrorInv /\ job.got \in Bytes /\ log \in Bytes
      /\ wire \in Bytes /\ file.buf \in Bytes
      /\ DOMAIN file = {"buf", "eof", "error"} /\ DOMAIN job = DOMAIN Idle
  BY DEF FileInv, StreamTypes
<1>2. /\ job.stage \in {"line", "seek", "chars"} /\ file.buf # <<>>
      /\ file' = [file EXCEPT !.buf = left]
      /\ UNCHANGED <<config, wire, written, open, interrupted>>
      /\ \/ Ends(job.got \o taken, "found")
         \/ job' = [job EXCEPT !.got = job.got \o taken] /\ UNCHANGED log
            /\ ~Complete(job.got \o taken)
  BY <1>1 DEF GetBytes, Reading
<1>3. ~sick
  BY <1>1, <1>2 DEF ErrorInv
<1>4. k \in 0 .. Len(file.buf) /\ (job.stage = "chars" => k <= job.n - Len(job.got))
  <2>1. Len(file.buf) \in Nat /\ Len(job.got) \in Nat
    BY <1>1, LenProperties DEF Bytes
  <2>2. CASE job.stage = "chars"
    <3>1. k = Min({job.n - Len(job.got), Len(file.buf)})
      BY <2>2 DEF Wanted
    <3>2. job.n - Len(job.got) \in Nat
      BY <1>1, <2>1, <2>2 DEF JobInv
    <3>3. \A a, b \in Nat : Min({a, b}) \in {a, b} /\ Min({a, b}) <= a /\ Min({a, b}) <= b
      BY DEF Min
    <3>4. QED
      BY <2>1, <3>1, <3>2, <3>3
  <2>3. CASE job.stage # "chars"
    <3> DEFINE ends == {i \in DOMAIN file.buf : file.buf[i] \in newlines}
    <3>1. ends \subseteq 1 .. Len(file.buf)
      BY <1>1, LenProperties DEF Bytes
    <3>2. CASE ends = {}
      <4>1. k = Len(file.buf)
        BY <2>3, <3>2 DEF Wanted
      <4>2. QED
        BY <2>1, <2>3, <4>1
    <3>3. CASE ends # {}
      <4>1. k = Min(ends)
        BY <2>3, <3>3 DEF Wanted
      <4> HIDE DEF ends, k
      <4>2. PICK m \in Nat : m = Len(file.buf)
        BY <2>1
      <4>3. Min(ends) \in ends
        BY <3>1, <3>3, <4>2, MinIsIn
      <4>4. k \in 1 .. Len(file.buf)
        BY <3>1, <4>1, <4>3
      <4>5. QED
        BY <2>1, <2>3, <4>4
    <3>4. QED
      BY <3>2, <3>3
  <2>4. QED
    BY <2>2, <2>3
<1>5. /\ taken \in Bytes /\ Len(taken) = k /\ left \in Bytes /\ file.buf = taken \o left
  <2> HIDE DEF k
  <2> QED  BY <1>1, <1>4, TakeBytes
<1> HIDE DEF k, taken, left
<1>6. file'.buf = left /\ DOMAIN file' = DOMAIN file /\ file'.error = file.error
  BY <1>1, <1>2
<1>7. CASE Ends(job.got \o taken, "found")
  BY <1>2, <1>3, <1>5, <1>6, <1>7, EndStep
<1>8. CASE job' = [job EXCEPT !.got = job.got \o taken] /\ UNCHANGED log
  <2>1. job.got \o taken \in Bytes
    BY <1>1, <1>5, Concatenates
  <2>2. /\ DOMAIN job' = DOMAIN Idle /\ job'.got = job.got \o taken
        /\ job'.stage = job.stage /\ job'.n = job.n /\ job'.call = job.call
    BY <1>1, <1>8 DEF Idle
  <2>3. StreamTypes'
    BY <1>1, <1>2, <1>5, <1>6, <1>8, <2>1, <2>2 DEF StreamTypes
  <2>4. JobInv'
    <3>1. job.stage = "chars" => Len(job.got \o taken) <= job.n
      <4>1. Len(job.got \o taken) = Len(job.got) + Len(taken) /\ Len(job.got) \in Nat
        BY <1>1, <1>5, ConcatProperties, LenProperties DEF Bytes
      <4>2. QED
        BY <1>1, <1>4, <1>5, <4>1 DEF JobInv
    <3>2. QED
      BY <1>1, <1>2, <2>2, <3>1 DEF JobInv, config
  <2>5. ErrorInv'
    BY <1>1, <1>2, <1>3, <1>6 DEF ErrorInv, config
  <2>6. InHand' = InHand
    <3>1. InHand' = ((log \o (job.got \o taken)) \o left) \o wire
      BY <1>2, <1>6, <1>8, <2>2 DEF InHand
    <3>2. InHand = ((log \o job.got) \o (taken \o left)) \o wire
      BY <1>5 DEF InHand
    <3>3. (log \o (job.got \o taken)) \o left = (log \o job.got) \o (taken \o left)
      <4>1. Cat(Cat(log, Cat(job.got, taken)), left) = Cat(Cat(log, job.got), Cat(taken, left))
        BY <1>1, <1>5, Shift
      <4>2. QED
        BY <4>1 DEF Cat
    <3>4. QED
      BY <3>1, <3>2, <3>3
  <2>7. QED
    BY <1>2, <2>3, <2>4, <2>5, <2>6, InHandKept DEF FileInv
<1>9. QED
  BY <1>2, <1>7, <1>8
-----------------------------------------------------------------------------
(* The other steps of the reader. *)

LEMMA FillStep ==
  ASSUME FileInv, kind # "socket", Fill
  PROVE  FileInv'
<1>1. /\ StreamTypes /\ JobInv /\ ErrorInv /\ job.got \in Bytes /\ log \in Bytes
      /\ wire \in Bytes /\ DOMAIN file = {"buf", "eof", "error"}
  BY DEF FileInv, StreamTypes
<1>2. /\ file.buf = <<>> /\ wire' = <<>> /\ wire # <<>>
      /\ file' = [file EXCEPT !.buf = wire]
      /\ UNCHANGED <<config, written, open, job, log, interrupted>>
  BY DEF Fill
<1>3. file'.buf = wire /\ DOMAIN file' = DOMAIN file /\ file'.error = file.error
  BY <1>1, <1>2
<1>4. <<>> \in Bytes
  BY EmptySeq DEF Bytes
<1>5. StreamTypes' /\ JobInv' /\ ErrorInv'
  BY <1>1, <1>2, <1>3, <1>4 DEF StreamTypes, JobInv, ErrorInv, config
<1>6. InHand' = InHand
  <2>1. log \o job.got \in Bytes
    BY <1>1, Concatenates
  <2>2. (log \o job.got) \o <<>> = log \o job.got
    BY <2>1, ConcatEmptySeq DEF Bytes
  <2>3. (log \o job.got) \o wire \in Bytes
    BY <1>1, <2>1, Concatenates
  <2>4. ((log \o job.got) \o wire) \o <<>> = (log \o job.got) \o wire
    BY <2>3, ConcatEmptySeq DEF Bytes
  <2>5. QED
    BY <1>2, <1>3, <2>2, <2>4 DEF InHand
<1>7. QED
  BY <1>2, <1>5, <1>6, InHandKept DEF FileInv

LEMMA StopStep ==
  ASSUME FileInv, kind # "socket", AtEOF \/ ReadOfSick \/ ReadInterrupted
  PROVE  FileInv'
<1>1. /\ StreamTypes /\ JobInv /\ ErrorInv /\ job.got \in Bytes /\ file.buf \in Bytes
      /\ DOMAIN file = {"buf", "eof", "error"} /\ <<>> \in Bytes
  BY EmptySeq DEF FileInv, StreamTypes, Bytes
<1>2. job.got \o <<>> = job.got /\ <<>> \o file.buf = file.buf
  BY <1>1, ConcatEmptySeq DEF Bytes
<1>3. /\ job.stage \in {"line", "seek", "chars"}
      /\ UNCHANGED <<config, wire, written, open>>
  BY DEF AtEOF, ReadOfSick, ReadInterrupted, ReadFails, Reading
<1>4. CASE AtEOF
  <2>1. /\ file'.buf = file.buf /\ DOMAIN file' = DOMAIN file /\ file'.error = file.error
        /\ Ends(job.got \o <<>>, "eof") /\ interrupted' = interrupted
    BY <1>1, <1>2, <1>4 DEF AtEOF
  <2>2. PICK how : how = "eof" /\ how # "error"
    OBVIOUS
  <2>3. Ends(job.got \o <<>>, how)
    BY <2>1, <2>2
  <2>4. QED
    BY <1>1, <1>2, <1>3, <2>1, <2>2, <2>3, EndStep
<1>5. CASE ReadOfSick \/ ReadInterrupted
  <2>1. /\ file'.buf = file.buf /\ DOMAIN file' = DOMAIN file
        /\ Ends(job.got \o <<>>, "error") /\ (sick \/ interrupted')
        /\ interrupted => interrupted'
    BY <1>1, <1>2, <1>5 DEF ReadOfSick, ReadInterrupted, ReadFails
  <2>2. QED
    BY <1>1, <1>2, <1>3, <2>1, EndStep
<1>6. QED
  BY <1>4, <1>5

(* A step of the job that moves no byte. *)
LEMMA JobStep ==
  ASSUME FileInv, kind # "socket", job.got = <<>>,
         UNCHANGED <<config, wire, written, open, file, log, interrupted>>,
         DOMAIN job' = DOMAIN Idle, job'.got = <<>>, JobInv'
  PROVE  FileInv'
<1>1. StreamTypes /\ ErrorInv
  BY DEF FileInv
<1>2. StreamTypes' /\ ErrorInv'
  BY <1>1 DEF StreamTypes, ErrorInv, config
<1>3. InHand' = InHand
  BY DEF InHand
<1>4. QED
  BY <1>2, <1>3, InHandKept DEF FileInv

LEMMA PageTestStep ==
  ASSUME FileInv, kind # "socket", PageTest
  PROVE  FileInv'
<1>1. StreamTypes /\ JobInv /\ DOMAIN job = DOMAIN Idle /\ job.stage = "test"
  BY DEF FileInv, StreamTypes, PageTest
<1>2. job.got = <<>> /\ job.call # "none"
  BY <1>1 DEF JobInv
<1>i. /\ DOMAIN Idle = {"call", "stage", "got", "acc", "n", "offset", "fuel", "ask", "atEnd",
                        "from", "rest", "whole"}
      /\ Idle.got = <<>> /\ Idle.stage = "none" /\ Idle.call = "none"
  BY DEF Idle
<1>3. UNCHANGED <<config, wire, written, open, file, log, interrupted>>
  BY DEF PageTest
<1>4. DOMAIN job' = DOMAIN Idle /\ job'.got = <<>> /\ JobInv'
  <2>1. CASE job.fuel = 0 \/ fEOF(file)
    <3>1. job' = Idle
      BY <2>1 DEF PageTest, Return
    <3>2. QED
      BY <3>1, <1>i DEF JobInv
  <2>2. CASE ~(job.fuel = 0 \/ fEOF(file))
    <3>1. job' = [job EXCEPT !.stage = IF job.offset > 0 THEN "seek" ELSE "line"]
      BY <2>2 DEF PageTest
    <3>2. /\ DOMAIN job' = DOMAIN Idle /\ job'.got = <<>> /\ job'.call = job.call
          /\ job'.stage \in {"seek", "line"}
      BY <1>1, <1>2, <1>i, <3>1
    <3>3. QED
      BY <1>1, <1>2, <1>3, <3>2 DEF JobInv, config
  <2>3. QED
    BY <2>1, <2>2
<1>5. QED
  BY <1>2, <1>3, <1>4, JobStep

LEMMA CallStep ==
  ASSUME FileInv, kind # "socket", Calls
  PROVE  FileInv'
<1> DEFINE Fits(j) == /\ DOMAIN j = DOMAIN Idle /\ j.got = <<>> /\ j.call # "none"
                      /\ j.stage \in {"line", "seek", "chars", "test"}
                      /\ j.stage = "chars" => j.n \in Nat
                      /\ j.call = "char" => kind = "chars"
<1>i. /\ DOMAIN Idle = {"call", "stage", "got", "acc", "n", "offset", "fuel", "ask", "atEnd",
                        "from", "rest", "whole"}
      /\ Idle.got = <<>>
  BY DEF Idle
<1>1. PICK j : Call(j) /\ Fits(j)
  <2>1. ASSUME NEW call, NEW stage, NEW n, OfFile(call, stage, n),
               stage \in {"line", "seek", "chars"}, n \in Nat, call # "none",
               call = "char" => kind = "chars"
        PROVE  \E j : Call(j) /\ Fits(j)
    <3> DEFINE j == [Idle EXCEPT !.call = call, !.stage = stage, !.n = n]
    <3>1. Call(j)
      BY <2>1 DEF OfFile
    <3>2. Fits(j)
      BY <2>1, <1>i
    <3> HIDE DEF Fits, j
    <3>3. QED
      BY <3>1, <3>2
  <2>2. ASSUME NEW offset, NEW fuel, readFilePage(offset, fuel)
        PROVE  \E j : Call(j) /\ Fits(j)
    <3> DEFINE j == [Idle EXCEPT !.call = "page", !.stage = "test",
                       !.offset = offset, !.fuel = fuel, !.ask = <<offset, fuel>>]
    <3>1. Call(j)
      BY <2>2 DEF readFilePage
    <3>2. Fits(j)
      BY <1>i
    <3> HIDE DEF Fits, j
    <3>3. QED
      BY <3>1, <3>2
  <2> HIDE DEF Fits
  <2>3. CASE fGetLine
    BY <2>1, <2>3 DEF fGetLine
  <2>4. CASE fSeekLine
    BY <2>1, <2>4 DEF fSeekLine
  <2>5. CASE fGetChar
    BY <2>1, <2>5 DEF fGetChar
  <2>6. ASSUME NEW n \in 1 .. 2, fGetChars(n) PROVE \E j : Call(j) /\ Fits(j)
    BY <2>1, <2>6 DEF fGetChars
  <2>7. ~recvAll /\ \A n : ~recv(n)
    BY DEF recvAll, recv, OfSocket
  <2>8. QED
    BY <2>2, <2>3, <2>4, <2>5, <2>6, <2>7 DEF Calls
<1>2. job.got = <<>>
  BY <1>1 DEF Call, FileInv, JobInv
<1>3. UNCHANGED <<config, wire, written, open, file, log, interrupted>>
  BY <1>1 DEF Call
<1>4. /\ DOMAIN job' = DOMAIN Idle /\ job'.got = <<>> /\ job'.call = j.call
      /\ job'.stage = j.stage /\ job'.n = j.n
  BY <1>1, <1>i DEF Call
<1>5. JobInv'
  <2>1. Len(job'.got) = 0
    BY <1>4, EmptySeq
  <2>2. kind' = kind
    BY <1>3 DEF config
  <2>3. QED
    BY <1>1, <1>4, <2>1, <2>2 DEF JobInv
<1>6. QED
  BY <1>2, <1>3, <1>4, <1>5, JobStep

-----------------------------------------------------------------------------
(* The peer sends the next k numbers. *)
LEMMA Continues ==
  ASSUME NEW n \in Nat, NEW k \in Nat
  PROVE  /\ [i \in 1 .. k |-> n + i] \in Bytes
         /\ [i \in 1 .. n |-> i] \o [i \in 1 .. k |-> n + i] = [i \in 1 .. n + k |-> i]
<1> DEFINE s == [i \in 1 .. n |-> i]
           t == [i \in 1 .. k |-> n + i]
           u == [i \in 1 .. n + k |-> i]
<1>1. /\ s \in Seq(Nat) /\ Len(s) = n /\ t \in Seq(Nat) /\ Len(t) = k
      /\ u \in Seq(Nat) /\ Len(u) = n + k
  OBVIOUS
<1>2. s \o t \in Seq(Nat) /\ Len(s \o t) = n + k
  BY <1>1, ConcatProperties
<1>3. \A i \in 1 .. n + k : (s \o t)[i] = u[i]
  <2> SUFFICES ASSUME NEW i \in 1 .. n + k PROVE (s \o t)[i] = u[i]
    OBVIOUS
  <2>1. (s \o t)[i] = IF i <= n THEN s[i] ELSE t[i - n]
    <3> HIDE DEF s, t
    <3> QED  BY <1>1, ConcatProperties
  <2>2. QED
    BY <2>1
<1>4. s \o t = u
  <2> HIDE DEF s, t, u
  <2> QED  BY <1>1, <1>2, <1>3, SeqEqual
<1>5. QED
  BY <1>1, <1>4 DEF Bytes

LEMMA PeerStep ==
  ASSUME FileInv, kind # "socket", Peer
  PROVE  FileInv'
<1>1. /\ StreamTypes /\ JobInv /\ ErrorInv /\ job.got \in Bytes /\ log \in Bytes
      /\ wire \in Bytes /\ file.buf \in Bytes /\ written \in Nat
  BY DEF FileInv, StreamTypes
<1>2. ASSUME NEW k \in 1 .. MaxBytes, Send(k) PROVE FileInv'
  <2> DEFINE chunk == [i \in 1 .. k |-> written + i]
  <2>1. /\ open /\ wire' = wire \o chunk /\ written' = written + k
        /\ UNCHANGED <<config, open, file, job, log, interrupted>>
    BY <1>2 DEF Send
  <2>2. k \in Nat
    BY StreamAssumption
  <2>3. PICK n \in Nat : n = written
    BY <1>1
  <2>4. /\ chunk \in Bytes
        /\ [i \in 1 .. written |-> i] \o chunk = [i \in 1 .. written + k |-> i]
    BY <2>2, <2>3, Continues
  <2> HIDE DEF chunk
  <2>5. wire' \in Bytes
    BY <1>1, <2>1, <2>4, Concatenates
  <2>6. StreamTypes' /\ JobInv' /\ ErrorInv'
    BY <1>1, <2>1, <2>2, <2>5 DEF StreamTypes, JobInv, ErrorInv, config
  <2>7. InHand' = InHand \o chunk
    <3>1. (log \o job.got) \o file.buf \in Bytes
      <4>1. log \o job.got \in Bytes
        BY <1>1, Concatenates
      <4>2. QED
        BY <1>1, <4>1, Concatenates
    <3>2. PICK q \in Bytes : q = (log \o job.got) \o file.buf
      BY <3>1
    <3>3. Cat(Cat(q, wire), chunk) = Cat(q, Cat(wire, chunk))
      BY <1>1, <2>4, Associates
    <3>4. (q \o wire) \o chunk = q \o (wire \o chunk)
      BY <3>3 DEF Cat
    <3>5. QED
      BY <2>1, <3>2, <3>4 DEF InHand
  <2>8. ~Forgetful' => InHand' = [i \in 1 .. written' |-> i]
    <3>1. Forgetful' = Forgetful
      BY <2>1 DEF Forgetful, config
    <3>2. QED
      BY <2>1, <2>4, <2>7, <3>1 DEF FileInv
  <2>9. QED
    BY <2>6, <2>8 DEF FileInv
<1>3. CASE PeerCloses
  <2>1. UNCHANGED <<config, wire, written, file, job, log, interrupted>> /\ ~open'
    BY <1>3 DEF PeerCloses
  <2>2. StreamTypes' /\ JobInv' /\ ErrorInv'
    BY <1>1, <2>1 DEF StreamTypes, JobInv, ErrorInv, config
  <2>3. InHand' = InHand
    BY <2>1 DEF InHand
  <2>4. QED
    BY <2>1, <2>2, <2>3, InHandKept DEF FileInv
<1>4. QED
  BY <1>2, <1>3 DEF Peer

-----------------------------------------------------------------------------
(* Nobody turns one kind of reader into another. *)
LEMMA KindStays == [Next]_vars => kind' = kind
<1>2. ASSUME NEW j, Call(j) PROVE kind' = kind
  BY <1>2 DEF Call, config
<1>3. Calls => kind' = kind
  BY <1>2 DEF Calls, fGetLine, fSeekLine, fGetChar, fGetChars, recv, recvAll, readFilePage,
              OfFile, OfSocket
<1>4. ReaderStep => kind' = kind
  BY DEF ReaderStep, PageTest, GetBytes, Fill, AtEOF, ReadOfSick, ReadFails, Receive,
         ReceiveClosed, ReceiveNothing, config
<1>5. Peer => kind' = kind
  BY DEF Peer, Send, PeerCloses, config
<1>6. ReadInterrupted \/ ReceiveInterrupted => kind' = kind
  BY DEF ReadInterrupted, ReceiveInterrupted, ReadFails, ReceiveNothing, config
<1>7. QED
  BY <1>3, <1>4, <1>5, <1>6 DEF Next, InterruptedBy, vars, streamVars

LEMMA FileInvStep == FileInv /\ [Next]_vars => FileInv'
<1> SUFFICES ASSUME FileInv, [Next]_vars, kind # "socket" PROVE FileInv'
  BY KindStays DEF FileInv
<1>1. CASE UNCHANGED streamVars
  BY <1>1 DEF streamVars, FileInv, StreamTypes, JobInv, ErrorInv, InHand, Forgetful
<1>2. ~Receive /\ ~ReceiveNothing
  BY DEF FileInv, JobInv, Receive, ReceiveNothing, Receiving
<1>3. CASE ReaderStep
  BY <1>2, <1>3, PageTestStep, GetBytesStep, FillStep, StopStep
  DEF ReaderStep, ReceiveClosed
<1>4. ASSUME NEW s \in SigNums, InterruptedBy(s) PROVE FileInv'
  BY <1>2, <1>4, StopStep DEF InterruptedBy, ReceiveInterrupted
<1>5. QED
  BY <1>1, <1>3, <1>4, CallStep, PeerStep DEF Next, vars

(* For any bytes, any calls and any interruptions: whatever reads a FILE,  *)
(* what the program was given or skipped, what the running call holds, the *)
(* buffer and the kernel's queue are what was sent, in this order.         *)
THEOREM BytesAreAccounted == Spec => []BytesAccounted
<1>1. FileInv => BytesAccounted
  BY DEF FileInv, BytesAccounted, Forgetful, InHand
<1>2. Init => FileInv
  BY FileInvInit DEF Init
<1>3. QED
  BY <1>1, <1>2, FileInvStep, PTL DEF Spec

(* The signals are as safe in a process that reads: a step that interrupts *)
(* the reader is the handler's step as well.                               *)
THEOREM SignalsKeptWhileReading == Spec => []NoSignalLost /\ NotTwice
<1> DEFINE Justified == \A t \in Threads :
             TakeLowest(t) => Lowest(snapshot[t]) \in owed \cup overtaken[t]
<1>1. [Next]_vars => [SignalNext]_sigVars
  BY DEF Next, vars, InterruptedBy, SignalNext, Arrivals
<1>2. SignalInv => NoSignalLost
  BY DEF SignalInv, NoSignalLost
<1>3. SignalInv /\ [Next]_vars => [Justified]_sigVars
  BY TakesWhatIsOwed
<1>4. SignalInv /\ [Next]_vars => SignalInv'
  BY <1>1, SignalInvStep
<1>5. Init => SignalInv
  BY SignalInvInit DEF Init
<1>6. QED
  BY <1>2, <1>3, <1>4, <1>5, PTL DEF Spec, NotTwice

-----------------------------------------------------------------------------
(* Induction over the numbers up to a bound. *)

LEMMA Induction ==
  ASSUME NEW S, NEW m \in Nat, 0 \in S, \A n \in 0 .. m - 1 : n \in S => n + 1 \in S
  PROVE  \A n \in 0 .. m : n \in S
<1> DEFINE B == {n \in 0 .. m : n \notin S}
<1>1. SUFFICES ASSUME B # {} PROVE FALSE
  OBVIOUS
<1>2. B \in SUBSET Nat
  OBVIOUS
<1>3. PICK x \in B : \A y \in B : x <= y
  BY <1>1, <1>2, LeastNumber
<1>4. x \in 1 .. m
  BY <1>3
<1>5. x - 1 \in 0 .. m - 1 /\ x - 1 \notin B /\ (x - 1) + 1 = x
  BY <1>3, <1>4
<1>6. x - 1 \in S
  BY <1>5
<1>7. x \in S
  BY <1>5, <1>6
<1>8. QED
  BY <1>3, <1>7

(* f is what step does to a, m times; step is told which time it is. *)
Rounds(f, Dom, a, step, m) ==
  f \in [0 .. m -> Dom] /\ f[0] = a /\ \A n \in 1 .. m : f[n] = step[<<n, f[n - 1]>>]

LEMMA RoundsExist ==
  ASSUME NEW m \in Nat, NEW Dom, NEW a \in Dom, NEW step,
         \A n \in 1 .. m : \A x \in Dom : step[<<n, x>>] \in Dom
  PROVE  \E f : Rounds(f, Dom, a, step, m)
<1> DEFINE Ok(n) == \E f \in [0 .. n -> Dom] :
                      f[0] = a /\ \A i \in 1 .. n : f[i] = step[<<i, f[i - 1]>>]
           S == {n \in 0 .. m : Ok(n)}
<1>1. 0 \in S
  <2>1. PICK f : f = [i \in 0 .. 0 |-> a]
    OBVIOUS
  <2>2. f \in [0 .. 0 -> Dom] /\ f[0] = a /\ 1 .. 0 = {}
    BY <2>1
  <2>3. Ok(0)
    BY <2>2
  <2>4. QED
    BY <2>3
<1>2. ASSUME NEW n \in 0 .. m - 1, n \in S PROVE n + 1 \in S
  <2>1. PICK f \in [0 .. n -> Dom] : f[0] = a /\ \A i \in 1 .. n : f[i] = step[<<i, f[i - 1]>>]
    BY <1>2
  <2>2. PICK x \in Dom : x = step[<<n + 1, f[n]>>]
    <3>1. n + 1 \in 1 .. m /\ f[n] \in Dom
      BY <2>1
    <3>2. QED
      BY <3>1
  <2>3. PICK g : g = [i \in 0 .. n + 1 |-> IF i \in 0 .. n THEN f[i] ELSE x]
    OBVIOUS
  <2>4. (\A i \in 0 .. n : g[i] = f[i]) /\ g[n + 1] = x
    BY <2>3
  <2>5. g \in [0 .. n + 1 -> Dom]
    BY <2>1, <2>3
  <2>6. ASSUME NEW i \in 1 .. n + 1 PROVE g[i] = step[<<i, g[i - 1]>>]
    <3>1. CASE i = n + 1
      <4>1. i - 1 = n /\ g[n] = f[n] /\ g[i] = x
        BY <2>4, <3>1
      <4>2. QED
        BY <2>2, <3>1, <4>1
    <3>2. CASE i \in 1 .. n
      <4>1. g[i] = f[i] /\ g[i - 1] = f[i - 1]
        BY <2>4, <3>2
      <4>2. QED
        BY <2>1, <3>2, <4>1
    <3>3. QED
      BY <3>1, <3>2
  <2>7. g[0] = a
    BY <2>1, <2>4
  <2>8. Ok(n + 1)
    BY <2>5, <2>6, <2>7
  <2>9. QED
    BY <2>8
<1>3. \A n \in 0 .. m : n \in S
  <2> HIDE DEF S
  <2> QED BY <1>1, <1>2, Induction
<1>4. PICK f \in [0 .. m -> Dom] : f[0] = a /\ \A i \in 1 .. m : f[i] = step[<<i, f[i - 1]>>]
  BY <1>3
<1>5. QED
  BY <1>4 DEF Rounds

-----------------------------------------------------------------------------
(* What the answers of several requests make together. *)

Joins(f, s) ==
  f \in [0 .. Len(s) -> Bytes] /\ f[0] = <<>>
    /\ \A n \in 1 .. Len(s) : f[n] = Cat(f[n - 1], s[n])

LEMMA JoinsExist ==
  ASSUME NEW s \in Seq(Bytes)
  PROVE  \E f : Joins(f, s)
<1> DEFINE step == [p \in (1 .. Len(s)) \X Bytes |-> Cat(p[2], s[p[1]])]
<1>1. Len(s) \in Nat /\ \A n \in 1 .. Len(s) : s[n] \in Bytes
  BY LenProperties, ElementOfSeq
<1>2. <<>> \in Bytes
  BY EmptySeq DEF Bytes
<1>3. \A n \in 1 .. Len(s) : \A x \in Bytes : Cat(x, s[n]) \in Bytes
  BY <1>1, Associates
<1>4. \A n \in 1 .. Len(s) : \A x \in Bytes : step[<<n, x>>] = Cat(x, s[n])
  OBVIOUS
<1> HIDE DEF step
<1>5. \A n \in 1 .. Len(s) : \A x \in Bytes : step[<<n, x>>] \in Bytes
  BY <1>3, <1>4
<1>6. PICK f : Rounds(f, Bytes, <<>>, step, Len(s))
  BY <1>1, <1>2, <1>5, RoundsExist
<1>7. f \in [0 .. Len(s) -> Bytes] /\ f[0] = <<>>
      /\ \A n \in 1 .. Len(s) : f[n] = step[<<n, f[n - 1]>>]
  BY <1>6 DEF Rounds
<1>8. \A n \in 1 .. Len(s) : f[n - 1] \in Bytes
  BY <1>1, <1>7
<1>9. QED
  BY <1>4, <1>7, <1>8 DEF Joins

LEMMA JoinsFlatten ==
  ASSUME NEW s \in Seq(Bytes), NEW f, Joins(f, s)
  PROVE  FlattenSeq(s) = f[Len(s)]
<1> DEFINE m == Len(s)
<1>1. m \in Nat /\ \A n \in 1 .. m : s[n] \in Bytes
  BY LenProperties, ElementOfSeq
<1>2. /\ f \in [0 .. m -> Bytes] /\ f[0] = <<>>
      /\ \A n \in 1 .. m : f[n] = Cat(f[n - 1], s[n])
  BY DEF Joins
<1>3. CASE m = 0
  <2>1. s = <<>>
    BY <1>3, EmptySeq
  <2>2. FlattenSeq(s) = s
    BY <1>3 DEF FlattenSeq
  <2>3. QED
    BY <1>2, <1>3, <2>1, <2>2
<1>4. CASE m # 0
  <2> DEFINE flatten[i \in 1 .. m] == IF i = 1 THEN s[i] ELSE flatten[i - 1] \o s[i]
  <2>1. FlattenSeq(s) = flatten[m]
    BY <1>4 DEF FlattenSeq
  <2>2. PICK g : g = [i \in 1 .. m |-> f[i]]
    OBVIOUS
  <2>3. g = [i \in 1 .. m |-> IF i = 1 THEN s[i] ELSE g[i - 1] \o s[i]]
    <3>1. ASSUME NEW i \in 1 .. m PROVE g[i] = IF i = 1 THEN s[i] ELSE g[i - 1] \o s[i]
      <4>1. g[i] = Cat(f[i - 1], s[i])
        BY <1>2, <2>2
      <4>2. CASE i = 1
        <5>1. Cat(<<>>, s[1]) = s[1]
          BY <1>1, <4>2, ConcatEmptySeq DEF Bytes, Cat
        <5>2. QED
          BY <1>2, <4>1, <4>2, <5>1
      <4>3. CASE i # 1
        <5>1. g[i - 1] = f[i - 1]
          BY <1>1, <2>2, <4>3
        <5>2. QED
          BY <4>1, <4>3, <5>1 DEF Cat
      <4>4. QED
        BY <4>2, <4>3
    <3>2. QED
      BY <2>2, <3>1
  <2>4. flatten = [i \in 1 .. m |-> IF i = 1 THEN s[i] ELSE flatten[i - 1] \o s[i]]
    BY <2>3, Zenon
  <2> HIDE DEF flatten
  <2>5. flatten[1] = f[1]
    <3>1. flatten[1] = s[1] /\ f[1] = Cat(<<>>, s[1])
      BY <1>1, <1>2, <1>4, <2>4
    <3>2. Cat(<<>>, s[1]) = s[1]
      BY <1>1, <1>4, ConcatEmptySeq DEF Bytes, Cat
    <3>3. QED
      BY <3>1, <3>2
  <2>6. ASSUME NEW i \in 2 .. m PROVE flatten[i] = Cat(flatten[i - 1], s[i])
    <3>1. i \in 1 .. m /\ i # 1
      BY <1>1
    <3>2. flatten[i] = flatten[i - 1] \o s[i]
      BY <2>4, <3>1
    <3>3. QED
      BY <3>2 DEF Cat
  <2>7. \A n \in 0 .. m - 1 : flatten[n + 1] = f[n + 1]
    <3> DEFINE S == {n \in 0 .. m - 1 : flatten[n + 1] = f[n + 1]}
    <3>1. 0 \in S
      BY <1>1, <1>4, <2>5
    <3>2. ASSUME NEW n \in 0 .. (m - 1) - 1, n \in S PROVE n + 1 \in S
      <4>1. n + 2 \in 2 .. m /\ (n + 2) - 1 = n + 1 /\ n + 2 \in 1 .. m
        BY <1>1
      <4>2. flatten[n + 2] = Cat(flatten[n + 1], s[n + 2])
        BY <2>6, <4>1
      <4>3. f[n + 2] = Cat(f[n + 1], s[n + 2])
        BY <1>2, <4>1
      <4>4. (n + 1) + 1 = n + 2 /\ n + 1 \in 0 .. m - 1
        BY <1>1
      <4>5. QED
        BY <3>2, <4>2, <4>3, <4>4
    <3>3. \A n \in 0 .. m - 1 : n \in S
      <4>1. m - 1 \in Nat
        BY <1>1, <1>4
      <4> HIDE DEF S
      <4>2. QED
        BY <3>1, <3>2, <4>1, Induction
    <3>4. QED
      BY <3>3
  <2>8. m - 1 \in 0 .. m - 1 /\ (m - 1) + 1 = m
    BY <1>1, <1>4
  <2>9. QED
    BY <2>1, <2>7, <2>8
<1>5. QED
  BY <1>3, <1>4

LEMMA FlattenFacts ==
  /\ FlattenSeq(<<>>) = <<>>
  /\ \A s \in Seq(Bytes), x \in Bytes :
       /\ FlattenSeq(s) \in Bytes /\ Append(s, x) \in Seq(Bytes)
       /\ FlattenSeq(Append(s, x)) = Cat(FlattenSeq(s), x)
<1>1. FlattenSeq(<<>>) = <<>>
  BY EmptySeq DEF FlattenSeq
<1>2. ASSUME NEW s \in Seq(Bytes), NEW x \in Bytes
      PROVE  /\ FlattenSeq(s) \in Bytes /\ Append(s, x) \in Seq(Bytes)
             /\ FlattenSeq(Append(s, x)) = Cat(FlattenSeq(s), x)
  <2>1. PICK t \in Seq(Bytes) : /\ t = Append(s, x) /\ Len(t) = Len(s) + 1
                                /\ t[Len(s) + 1] = x /\ \A i \in 1 .. Len(s) : t[i] = s[i]
    <3>1. /\ Append(s, x) \in Seq(Bytes) /\ Len(Append(s, x)) = Len(s) + 1
          /\ Append(s, x)[Len(s) + 1] = x /\ \A i \in 1 .. Len(s) : Append(s, x)[i] = s[i]
      BY AppendProperties
    <3>2. QED
      BY <3>1
  <2>2. PICK m \in Nat : m = Len(s)
    BY LenProperties
  <2>3. PICK g : Joins(g, t)
    BY JoinsExist
  <2>4. /\ g \in [0 .. m + 1 -> Bytes] /\ g[0] = <<>>
        /\ \A n \in 1 .. m + 1 : g[n] = Cat(g[n - 1], t[n])
    BY <2>1, <2>2, <2>3 DEF Joins
  <2>5. PICK f : f = [n \in 0 .. m |-> g[n]]
    OBVIOUS
  <2>6. f \in [0 .. m -> Bytes] /\ f[0] = <<>> /\ f[m] = g[m]
    BY <2>2, <2>4, <2>5
  <2>7. ASSUME NEW n \in 1 .. m PROVE f[n] = Cat(f[n - 1], s[n])
    <3>1. f[n] = g[n] /\ f[n - 1] = g[n - 1]
      BY <2>5
    <3>2. n \in 1 .. m + 1 /\ t[n] = s[n]
      BY <2>1, <2>2
    <3>3. QED
      BY <2>4, <3>1, <3>2
  <2>8. FlattenSeq(s) = f[m]
    <3>1. Joins(f, s)
      BY <2>2, <2>6, <2>7 DEF Joins
    <3>2. QED
      BY <2>2, <3>1, JoinsFlatten
  <2>9. FlattenSeq(t) = g[m + 1]
    BY <2>1, <2>2, <2>3, JoinsFlatten
  <2>10. g[m + 1] = Cat(g[m], x)
    <3>1. m + 1 \in 1 .. m + 1 /\ (m + 1) - 1 = m
      BY <2>2
    <3>2. QED
      BY <2>1, <2>2, <2>4, <3>1
  <2>11. f[m] \in Bytes
    BY <2>2, <2>6
  <2>12. QED
    BY <2>1, <2>6, <2>8, <2>9, <2>10, <2>11
<1>3. QED
  BY <1>1, <1>2
-----------------------------------------------------------------------------
(* The socket.  What recvAll has, after k requests met in full, are the    *)
(* bytes that followed the position of its call, as many as those requests *)
(* asked for; the queue of the kernel holds the next ones.                 *)

(* The n bytes after the first a. *)
Consecutive(a, n) == [i \in 1 .. n |-> a + i]

Passed == written - Len(wire)

Requested(k) ==
  /\ FlattenSeq(job.acc) = Consecutive(job.from, InFull[k].sum)
  /\ job.n = InFull[k].n
  /\ job.from + InFull[k].sum = Passed

WireInv ==
  /\ written \in 0 .. MaxBytes /\ Len(wire) \in 0 .. written
  /\ wire = Consecutive(Passed, Len(wire))

SocketJobInv ==
  /\ DOMAIN job = DOMAIN Idle
  /\ job.call \in {"none", "recv", "recvAll"}
  /\ job.stage = IF job.call = "none" THEN "none" ELSE "recv"
  /\ job.call # "none" => job.n \in Nat \ {0}

RecvAllInv ==
  job.call = "recvAll" =>
    /\ job.acc \in Seq(Bytes) /\ job.from \in Nat
    /\ \E k \in 0 .. MaxBytes : Requested(k)
    /\ job.whole => ~open /\ job.rest = written - job.from

RecvInv ==
  kind = "socket" => WireInv /\ SocketJobInv /\ RecvAllInv /\ RecvAllExact

-----------------------------------------------------------------------------
(* InFull. *)

LEMMA MinOfTwo ==
  \A a, b \in Nat : Min({a, b}) \in {a, b} /\ Min({a, b}) <= a /\ Min({a, b}) <= b
BY DEF Min

Sums == [sum : Nat, n : Nat \ {0}]

LEMMA InFullSteps ==
  /\ InFull \in [0 .. MaxBytes -> Sums] /\ InFull[0] = [sum |-> 0, n |-> FirstLen]
  /\ \A k \in 1 .. MaxBytes :
       /\ InFull[k].sum = InFull[k - 1].sum + InFull[k - 1].n
       /\ InFull[k].n = Min({2 * InFull[k - 1].n, LastLen})
<1> DEFINE More(r) == [sum |-> r.sum + r.n, n |-> Min({2 * r.n, LastLen})]
           first == [sum |-> 0, n |-> FirstLen]
           step == [p \in (1 .. MaxBytes) \X Sums |-> More(p[2])]
<1>1. MaxBytes \in Nat /\ first \in Sums
  BY StreamAssumption, RequestAssumption DEF Sums
<1>2. \A r \in Sums : More(r) \in Sums
  <2> SUFFICES ASSUME NEW r \in Sums PROVE More(r) \in Sums
    OBVIOUS
  <2>1. r.sum + r.n \in Nat /\ 2 * r.n \in Nat \ {0}
    BY DEF Sums
  <2>2. Min({2 * r.n, LastLen}) \in Nat \ {0}
    BY <2>1, RequestAssumption, MinOfTwo
  <2>3. QED
    BY <2>1, <2>2 DEF Sums
<1>3. \A k \in 1 .. MaxBytes : \A r \in Sums : step[<<k, r>>] = More(r)
  OBVIOUS
<1>4. \A k \in 1 .. MaxBytes : \A r \in Sums : step[<<k, r>>] \in Sums
  <2> HIDE DEF step, More
  <2> QED  BY <1>2, <1>3
<1>5. PICK f \in [0 .. MaxBytes -> Sums] :
        f[0] = first /\ \A k \in 1 .. MaxBytes : f[k] = step[<<k, f[k - 1]>>]
  <2> HIDE DEF step, first
  <2>1. PICK f : Rounds(f, Sums, first, step, MaxBytes)
    BY <1>1, <1>4, RoundsExist
  <2>2. QED
    BY <2>1 DEF Rounds
<1>6. \A k \in 1 .. MaxBytes : f[k - 1] \in Sums /\ f[k] = More(f[k - 1])
  <2> SUFFICES ASSUME NEW k \in 1 .. MaxBytes
               PROVE  f[k - 1] \in Sums /\ f[k] = More(f[k - 1])
    OBVIOUS
  <2> HIDE DEF step, More
  <2>1. f[k - 1] \in Sums
    BY <1>1, <1>5
  <2>2. step[<<k, f[k - 1]>>] = More(f[k - 1])
    BY <1>3, <2>1
  <2>3. f[k] = step[<<k, f[k - 1]>>]
    BY <1>5
  <2>4. QED
    BY <2>1, <2>2, <2>3
<1>7. f = [k \in 0 .. MaxBytes |-> IF k = 0 THEN first ELSE More(f[k - 1])]
  <2> HIDE DEF step, More, first
  <2> QED  BY <1>1, <1>5, <1>6
<1>8. InFull = [k \in 0 .. MaxBytes |-> IF k = 0 THEN first ELSE More(InFull[k - 1])]
  BY <1>7, Zenon DEF InFull
<1>9. InFull[0] = first
  <2> HIDE DEF More, first
  <2> QED  BY <1>1, <1>8
<1>10. \A k \in 1 .. MaxBytes : InFull[k] = More(InFull[k - 1])
  <2> HIDE DEF More, first
  <2> QED  BY <1>1, <1>8
<1>11. \A k \in 0 .. MaxBytes : InFull[k] \in Sums
  <2> DEFINE S == {k \in 0 .. MaxBytes : InFull[k] \in Sums}
  <2> HIDE DEF More, first
  <2>1. 0 \in S
    BY <1>1, <1>9
  <2>2. ASSUME NEW k \in 0 .. MaxBytes - 1, k \in S PROVE k + 1 \in S
    <3>1. k + 1 \in 1 .. MaxBytes /\ (k + 1) - 1 = k /\ k + 1 \in 0 .. MaxBytes
      BY <1>1
    <3>2. InFull[k + 1] = More(InFull[k])
      BY <1>10, <3>1
    <3>3. QED
      BY <1>2, <2>2, <3>1, <3>2
  <2>3. \A k \in 0 .. MaxBytes : k \in S
    <3> HIDE DEF S
    <3> QED  BY <1>1, <2>1, <2>2, Induction
  <2>4. QED
    BY <2>3
<1>12. InFull \in [0 .. MaxBytes -> Sums]
  <2> HIDE DEF More, first
  <2> QED  BY <1>8, <1>11
<1>13. ASSUME NEW k \in 1 .. MaxBytes
       PROVE  /\ InFull[k].sum = InFull[k - 1].sum + InFull[k - 1].n
              /\ InFull[k].n = Min({2 * InFull[k - 1].n, LastLen})
  <2>1. PICK r : r = InFull[k - 1]
    OBVIOUS
  <2>2. InFull[k] = More(r)
    <3> HIDE DEF More
    <3> QED  BY <1>10, <2>1
  <2>3. InFull[k].sum = r.sum + r.n /\ InFull[k].n = Min({2 * r.n, LastLen})
    BY <2>2
  <2>4. QED
    BY <2>1, <2>3
<1>14. QED
  BY <1>9, <1>12, <1>13

(* Requests met in full ask for more and more. *)
LEMMA InFullGrows ==
  ASSUME NEW k \in 0 .. MaxBytes
  PROVE  /\ InFull[k].sum \in Nat /\ InFull[k].n \in Nat \ {0} /\ k <= InFull[k].sum
         /\ \A j \in 0 .. k - 1 : InFull[j].sum + InFull[j].n <= InFull[k].sum
<1> DEFINE S == {i \in 0 .. MaxBytes :
                   /\ i <= InFull[i].sum
                   /\ \A j \in 0 .. i - 1 : InFull[j].sum + InFull[j].n <= InFull[i].sum}
<1>1. MaxBytes \in Nat
  BY StreamAssumption
<1>2. \A i \in 0 .. MaxBytes : InFull[i].sum \in Nat /\ InFull[i].n \in Nat \ {0}
  BY InFullSteps DEF Sums
<1>3. 0 \in S
  BY <1>1, <1>2, InFullSteps
<1>4. ASSUME NEW i \in 0 .. MaxBytes - 1, i \in S PROVE i + 1 \in S
  <2>1. i \in 0 .. MaxBytes /\ i + 1 \in 1 .. MaxBytes /\ (i + 1) - 1 = i
        /\ i + 1 \in 0 .. MaxBytes
    BY <1>1
  <2>2. InFull[i + 1].sum = InFull[i].sum + InFull[i].n
    <3>1. PICK k1 \in 1 .. MaxBytes : k1 = i + 1 /\ k1 - 1 = i
      BY <2>1
    <3>2. InFull[k1].sum = InFull[k1 - 1].sum + InFull[k1 - 1].n
      BY InFullSteps
    <3>3. QED
      BY <3>1, <3>2
  <2>3. i + 1 <= InFull[i + 1].sum
    BY <1>2, <1>4, <2>1, <2>2
  <2>4. ASSUME NEW j \in 0 .. (i + 1) - 1
        PROVE  InFull[j].sum + InFull[j].n <= InFull[i + 1].sum
    <3>1. CASE j = i
      <4>1. InFull[i].sum + InFull[i].n \in Nat
        BY <1>2, <2>1
      <4>2. QED
        BY <2>2, <3>1, <4>1
    <3>2. CASE j \in 0 .. i - 1
      <4>1. InFull[j].sum + InFull[j].n <= InFull[i].sum
        BY <1>4, <3>2
      <4>2. j \in 0 .. MaxBytes
        BY <1>1, <3>2
      <4>3. QED
        BY <1>2, <2>1, <2>2, <4>1, <4>2
    <3>3. QED
      BY <2>1, <3>1, <3>2
  <2>5. QED
    BY <2>1, <2>3, <2>4
<1>5. \A i \in 0 .. MaxBytes : i \in S
  <2> HIDE DEF S
  <2> QED  BY <1>1, <1>3, <1>4, Induction
<1>6. k \in S
  BY <1>5
<1>7. QED
  BY <1>2, <1>6

-----------------------------------------------------------------------------
LEMMA ConsecutiveFacts ==
  ASSUME NEW a \in Nat, NEW n \in Nat
  PROVE  /\ Consecutive(a, n) \in Bytes /\ Len(Consecutive(a, n)) = n
         /\ (n = 0 => Consecutive(a, n) = <<>>)
BY DEF Consecutive, Bytes

LEMMA ConsecutiveJoin ==
  ASSUME NEW a \in Nat, NEW n \in Nat, NEW k \in Nat
  PROVE  Cat(Consecutive(a, n), Consecutive(a + n, k)) = Consecutive(a, n + k)
<1> DEFINE s == Consecutive(a, n)
           t == Consecutive(a + n, k)
           u == Consecutive(a, n + k)
<1>1. s \in Seq(Nat) /\ Len(s) = n /\ t \in Seq(Nat) /\ Len(t) = k
  BY DEF Consecutive
<1>2. u \in Seq(Nat) /\ Len(u) = n + k
  BY DEF Consecutive
<1>3. s \o t \in Seq(Nat) /\ Len(s \o t) = n + k
  BY <1>1, ConcatProperties
<1>4. \A i \in 1 .. n + k : (s \o t)[i] = u[i]
  <2> SUFFICES ASSUME NEW i \in 1 .. n + k PROVE (s \o t)[i] = u[i]
    OBVIOUS
  <2>1. (s \o t)[i] = IF i <= Len(s) THEN s[i] ELSE t[i - Len(s)]
    <3> HIDE DEF s, t
    <3>1. i \in 1 .. Len(s) + Len(t)
      BY <1>1
    <3>2. QED
      BY <1>1, <3>1, ConcatProperties
  <2>2. CASE i <= n
    <3>1. s[i] = a + i /\ u[i] = a + i
      BY <2>2 DEF Consecutive
    <3>2. QED
      BY <1>1, <2>1, <2>2, <3>1
  <2>3. CASE ~(i <= n)
    <3>1. i - n \in 1 .. k
      BY <2>3
    <3>2. t[i - n] = (a + n) + (i - n) /\ u[i] = a + i
      BY <3>1 DEF Consecutive
    <3>3. (s \o t)[i] = t[i - n]
      BY <1>1, <2>1, <2>3
    <3>4. (a + n) + (i - n) = a + i
      OBVIOUS
    <3> HIDE DEF s, t, u
    <3>5. QED
      BY <3>2, <3>3, <3>4
  <2>4. QED
    BY <2>2, <2>3
<1>5. s \o t = u
  <2> HIDE DEF s, t, u
  <2> QED  BY <1>2, <1>3, <1>4, SeqEqual
<1>6. QED
  BY <1>5 DEF Cat

(* The first k of them, and the rest. *)
LEMMA ConsecutiveParts ==
  ASSUME NEW a \in Nat, NEW n \in Nat, NEW k \in 0 .. n
  PROVE  /\ SubSeq(Consecutive(a, n), 1, k) = Consecutive(a, k)
         /\ SubSeq(Consecutive(a, n), k + 1, n) = Consecutive(a + k, n - k)
<1> DEFINE s == Consecutive(a, n)
<1>1. /\ s \in Seq(Nat) /\ Len(s) = n /\ \A i \in 1 .. n : s[i] = a + i
  BY DEF Consecutive
<1>2. \A i \in 1 .. n : s[i] \in Nat
  BY <1>1
<1> HIDE DEF s
<1>3. SubSeq(s, 1, k) = Consecutive(a, k)
  <2>1. \A i \in 1 .. k : s[i] \in Nat
    BY <1>2
  <2>2. k \in Int /\ (IF 1 <= k THEN k - 1 + 1 ELSE 0) = k
    OBVIOUS
  <2>3. /\ SubSeq(s, 1, k) \in Seq(Nat) /\ Len(SubSeq(s, 1, k)) = k
        /\ \A i \in 1 .. k : SubSeq(s, 1, k)[i] = s[1 + i - 1]
    BY <2>1, <2>2, SubSeqProperties
  <2>4. Consecutive(a, k) \in Seq(Nat) /\ Len(Consecutive(a, k)) = k
        /\ \A i \in 1 .. k : Consecutive(a, k)[i] = a + i
    BY DEF Consecutive
  <2>5. \A i \in 1 .. k : SubSeq(s, 1, k)[i] = Consecutive(a, k)[i]
    BY <1>1, <2>3, <2>4
  <2>6. QED
    BY <2>3, <2>4, <2>5, SeqEqual
<1>4. SubSeq(s, k + 1, n) = Consecutive(a + k, n - k)
  <2>1. \A i \in k + 1 .. n : s[i] \in Nat
    BY <1>2
  <2>2. k + 1 \in Int /\ n \in Int /\ (IF k + 1 <= n THEN n - (k + 1) + 1 ELSE 0) = n - k
    OBVIOUS
  <2>3. /\ SubSeq(s, k + 1, n) \in Seq(Nat) /\ Len(SubSeq(s, k + 1, n)) = n - k
        /\ \A i \in 1 .. n - k : SubSeq(s, k + 1, n)[i] = s[(k + 1) + i - 1]
    <3> HIDE DEF Consecutive
    <3> QED  BY <2>1, <2>2, SubSeqProperties
  <2>4. Consecutive(a + k, n - k) \in Seq(Nat) /\ Len(Consecutive(a + k, n - k)) = n - k
        /\ \A i \in 1 .. n - k : Consecutive(a + k, n - k)[i] = (a + k) + i
    BY DEF Consecutive
  <2>5. \A i \in 1 .. n - k : SubSeq(s, k + 1, n)[i] = Consecutive(a + k, n - k)[i]
    <3> SUFFICES ASSUME NEW i \in 1 .. n - k
                 PROVE  SubSeq(s, k + 1, n)[i] = Consecutive(a + k, n - k)[i]
      OBVIOUS
    <3>1. (k + 1) + i - 1 \in 1 .. n /\ (k + 1) + i - 1 = k + i
      OBVIOUS
    <3>2. QED
      BY <1>1, <2>3, <2>4, <3>1
  <2>6. QED
    BY <2>3, <2>4, <2>5, SeqEqual
<1>5. QED
  BY <1>3, <1>4 DEF s

-----------------------------------------------------------------------------
LEMMA IdleFields ==
  /\ DOMAIN Idle = {"call", "stage", "got", "acc", "n", "offset", "fuel", "ask", "atEnd",
                    "from", "rest", "whole"}
  /\ Idle.call = "none" /\ Idle.stage = "none" /\ Idle.acc = <<>>
BY DEF Idle

LEMMA Returns ==
  ASSUME DOMAIN job = DOMAIN Idle, NEW value, NEW ok \in BOOLEAN, NEW atEnd,
         Return(value, ok, atEnd)
  PROVE  /\ job' = Idle
         /\ job.call \notin {"page", "recvAll"} => result' = result
         /\ job.call \in {"page", "recvAll"} =>
              /\ result'.call = job.call /\ result'.acc = value
              /\ result'.stage = IF ok THEN "right" ELSE "left"
              /\ result'.from = job.from /\ result'.rest = job.rest
              /\ result'.whole = job.whole
BY IdleFields DEF Return

LEMMA RecvInvInit == StreamInit => RecvInv
<1> SUFFICES ASSUME StreamInit PROVE RecvInv
  OBVIOUS
<1>1. wire = <<>> /\ written = 0 /\ job = Idle /\ result = Idle
  BY DEF StreamInit
<1>2. Len(wire) = 0 /\ Consecutive(0, 0) = <<>>
  BY <1>1, ConsecutiveFacts
<1>3. WireInv
  BY <1>1, <1>2, StreamAssumption DEF WireInv, Passed
<1>4. SocketJobInv /\ RecvAllInv
  BY <1>1, IdleFields DEF SocketJobInv, RecvAllInv
<1>5. RecvAllExact
  BY <1>1, IdleFields DEF RecvAllExact, Returned
<1>6. QED
  BY <1>1, <1>3, <1>4, <1>5, IdleFields DEF RecvInv

(* Each kind of reader has its own calls. *)
CallsOf(how) ==
  CASE how = "path"   -> {"none", "page"}
    [] how = "socket" -> {"none", "recv", "recvAll"}
    [] OTHER          -> {"none", "line", "seek", "chars", "char"}

KindInv ==
  /\ DOMAIN job = DOMAIN Idle
  /\ job.call \in CallsOf(kind) /\ result.call \in CallsOf(kind)

LEMMA KindInvInit == StreamInit => KindInv
BY IdleFields DEF StreamInit, KindInv, CallsOf

(* A call keeps its name until it returns, and its result has the name too. *)
LEMMA KindInvStep == KindInv /\ [Next]_vars => KindInv'
<1> SUFFICES ASSUME KindInv, [Next]_vars PROVE KindInv'
  OBVIOUS
<1>1. kind' = kind
  BY KindStays
<1>2. /\ DOMAIN job = DOMAIN Idle
      /\ job.call \in CallsOf(kind) /\ result.call \in CallsOf(kind)
  BY DEF KindInv
<1>n. Idle.call \in CallsOf(kind)
  BY IdleFields DEF CallsOf
<1> DEFINE Goal == /\ DOMAIN job' = DOMAIN Idle
                   /\ job'.call \in CallsOf(kind) /\ result'.call \in CallsOf(kind)
<1> SUFFICES Goal
  BY <1>1 DEF KindInv
<1>3. ASSUME NEW value, NEW ok \in BOOLEAN, NEW atEnd, Return(value, ok, atEnd) PROVE Goal
  <2>1. job' = Idle
    BY <1>2, <1>3, Returns
  <2>2. result'.call = result.call \/ result'.call = job.call
    BY <1>2, <1>3, Returns
  <2>3. QED
    BY <1>2, <1>n, <2>1, <2>2
<1>4. ASSUME DOMAIN job' = DOMAIN job, job'.call = job.call, result' = result PROVE Goal
  BY <1>2, <1>4
<1> HIDE DEF Goal
<1>5. ASSUME NEW got, NEW how, Ends(got, how) PROVE Goal
  <2>1. CASE LineEnds(got, how)
    <3>1. CASE job.call = "page"
      <4>1. DOMAIN job' = DOMAIN job /\ job'.call = job.call /\ result' = result
        BY <1>2, <2>1, <3>1, IdleFields DEF LineEnds
      <4>2. QED
        BY <1>4, <4>1
    <3>2. CASE job.call # "page"
      <4>1. \E value : Return(value, TRUE, FALSE)
        BY <2>1, <3>2 DEF LineEnds
      <4>2. QED
        BY <1>3, <4>1
    <3>3. QED
      BY <3>1, <3>2
  <2>2. CASE SeekEnds(got, how)
    <3>1. CASE job.call = "page" /\ SeekOk(how)
      <4>1. DOMAIN job' = DOMAIN job /\ job'.call = job.call /\ result' = result
        BY <1>2, <2>2, <3>1, IdleFields DEF SeekEnds
      <4>2. QED
        BY <1>4, <4>1
    <3>2. CASE ~(job.call = "page" /\ SeekOk(how))
      <4>1. Return(<<>>, SeekOk(how), FALSE) /\ SeekOk(how) \in BOOLEAN
        BY <2>2, <3>2 DEF SeekEnds, SeekOk
      <4>2. QED
        BY <1>3, <4>1
    <3>3. QED
      BY <3>1, <3>2
  <2>3. CASE CharsEnd(got, how)
    <3>1. \E value, right : right \in BOOLEAN /\ Return(value, right, FALSE)
      <4> DEFINE ok == IF job.call = "char" THEN ~file'.error ELSE got # <<>>
      <4>1. ok \in BOOLEAN
        OBVIOUS
      <4>2. Return(IF ok THEN <<got>> ELSE <<>>, ok, FALSE)
        BY <2>3 DEF CharsEnd
      <4> HIDE DEF ok
      <4>3. QED
        BY <4>1, <4>2
    <3>2. QED
      BY <1>3, <3>1
  <2>4. QED
    BY <1>5, <2>1, <2>2, <2>3 DEF Ends
<1>6. CASE UNCHANGED streamVars
  BY <1>4, <1>6 DEF streamVars
<1>7. CASE Calls
  <2>1. ASSUME NEW j, Call(j), DOMAIN j = DOMAIN Idle, j.call \in CallsOf(kind) PROVE Goal
    BY <1>2, <2>1, IdleFields DEF Call, Goal
  <2>2. ASSUME NEW call \in CallsOf(kind), NEW stage, NEW n,
               Call([Idle EXCEPT !.call = call, !.stage = stage, !.n = n])
        PROVE  Goal
    <3> DEFINE j == [Idle EXCEPT !.call = call, !.stage = stage, !.n = n]
    <3>1. DOMAIN j = DOMAIN Idle /\ j.call = call
      BY IdleFields
    <3>2. Call(j)
      BY <2>2
    <3> HIDE DEF j
    <3>3. QED
      BY <2>1, <3>1, <3>2
  <2>3. ASSUME NEW call \in {"line", "seek", "chars", "char"}, NEW stage, NEW n,
               OfFile(call, stage, n)
        PROVE  Goal
    <3>1. call \in CallsOf(kind)
      BY <2>3 DEF OfFile, CallsOf
    <3>2. QED
      BY <2>2, <2>3, <3>1 DEF OfFile
  <2>4. ASSUME NEW call \in {"recv", "recvAll"}, NEW n, OfSocket(call, n) PROVE Goal
    <3>1. call \in CallsOf(kind)
      BY <2>4 DEF OfSocket, CallsOf
    <3>2. QED
      BY <2>2, <2>4, <3>1 DEF OfSocket
  <2>5. ASSUME NEW offset, NEW fuel, readFilePage(offset, fuel) PROVE Goal
    <3> DEFINE j == [Idle EXCEPT !.call = "page", !.stage = "test",
                       !.offset = offset, !.fuel = fuel, !.ask = <<offset, fuel>>]
    <3>1. Call(j) /\ kind = "path"
      BY <2>5 DEF readFilePage
    <3>2. DOMAIN j = DOMAIN Idle /\ j.call = "page"
      BY IdleFields
    <3> HIDE DEF j
    <3>3. QED
      BY <2>1, <3>1, <3>2 DEF CallsOf
  <2>6. fGetLine \/ fSeekLine \/ fGetChar => Goal
    BY <2>3 DEF fGetLine, fSeekLine, fGetChar
  <2>7. \A n \in 1 .. 2 : fGetChars(n) \/ recv(n) => Goal
    BY <2>3, <2>4 DEF fGetChars, recv
  <2>8. recvAll => Goal
    BY <2>4 DEF recvAll
  <2>9. QED
    BY <1>7, <2>5, <2>6, <2>7, <2>8 DEF Calls
<1>8. CASE PageTest
  <2>1. CASE job.fuel = 0 \/ fEOF(file)
    <3>1. Return(job.acc, TRUE, job.fuel > 0)
      BY <1>8, <2>1 DEF PageTest
    <3>2. QED
      BY <1>3, <3>1
  <2>2. CASE ~(job.fuel = 0 \/ fEOF(file))
    <3>1. DOMAIN job' = DOMAIN job /\ job'.call = job.call /\ result' = result
      BY <1>2, <1>8, <2>2, IdleFields DEF PageTest
    <3>2. QED
      BY <1>4, <3>1
  <2>3. QED
    BY <2>1, <2>2
<1>9. CASE GetBytes
  <2>1. \/ \E got : Ends(got, "found")
        \/ DOMAIN job' = DOMAIN job /\ job'.call = job.call /\ result' = result
    BY <1>2, <1>9, IdleFields DEF GetBytes
  <2>2. QED
    BY <1>4, <1>5, <2>1
<1>10. CASE Fill
  BY <1>4, <1>10 DEF Fill
<1>11. CASE AtEOF \/ ReadOfSick \/ ReadInterrupted
  BY <1>5, <1>11 DEF AtEOF, ReadOfSick, ReadInterrupted, ReadFails
<1>12. CASE Peer
  BY <1>4, <1>12 DEF Peer, Send, PeerCloses
<1>13. CASE Receive
  <2> DEFINE res == Min({job.n, Len(wire)})
             got == Append(job.acc, SubSeq(wire, 1, res))
  <2>1. \/ Return(got, TRUE, FALSE)
        \/ /\ job' = [job EXCEPT !.acc = got, !.n = Min({2 * @, LastLen})]
           /\ UNCHANGED result
    BY <1>13 DEF Receive
  <2> HIDE DEF got
  <2>2. CASE job' = [job EXCEPT !.acc = got, !.n = Min({2 * @, LastLen})] /\ UNCHANGED result
    <3>1. DOMAIN job' = DOMAIN job /\ job'.call = job.call
      BY <1>2, <2>2, IdleFields
    <3>2. QED
      BY <1>4, <2>2, <3>1
  <2>3. QED
    BY <1>3, <2>1, <2>2
<1>14. CASE ReceiveNothing
  BY <1>3, <1>14 DEF ReceiveNothing
<1>15. ReaderStep => Goal
  BY <1>8, <1>9, <1>10, <1>11, <1>13, <1>14 DEF ReaderStep, ReceiveClosed
<1>16. ASSUME NEW s \in SigNums, InterruptedBy(s) PROVE Goal
  BY <1>11, <1>14, <1>16 DEF InterruptedBy, ReceiveInterrupted
<1>17. QED
  BY <1>6, <1>7, <1>12, <1>15, <1>16 DEF Next, vars

-----------------------------------------------------------------------------
(* The steps of a reader of a socket. *)

LEMMA WireFacts ==
  ASSUME WireInv
  PROVE  /\ MaxBytes \in Nat /\ written \in Nat /\ Len(wire) \in Nat /\ Passed \in Nat
         /\ written <= MaxBytes /\ Passed + Len(wire) = written
         /\ wire = Consecutive(Passed, Len(wire))
         /\ (wire = <<>>) <=> (Len(wire) = 0)
<1>1. /\ MaxBytes \in Nat /\ written \in Nat /\ Len(wire) \in Nat /\ Passed \in Nat
      /\ written <= MaxBytes /\ Passed + Len(wire) = written
      /\ wire = Consecutive(Passed, Len(wire))
  BY StreamAssumption DEF WireInv, Passed
<1>2. wire = <<>> => Len(wire) = 0
  OBVIOUS
<1>3. Len(wire) = 0 => wire = <<>>
  BY <1>1, ConsecutiveFacts
<1>4. QED
  BY <1>1, <1>2, <1>3

LEMMA PeerSends ==
  ASSUME WireInv, RecvAllInv, SocketJobInv, RecvAllExact, kind = "socket", Peer
  PROVE  RecvInv'
<1>1. /\ UNCHANGED <<job, result>> /\ kind' = kind
  BY DEF Peer, Send, PeerCloses, config
<1>2. SocketJobInv' /\ RecvAllExact'
  BY <1>1 DEF SocketJobInv, RecvAllExact, Returned
<1>3. ASSUME NEW k \in 1 .. MaxBytes, Send(k) PROVE WireInv' /\ RecvAllInv'
  <2>1. /\ open /\ wire' = wire \o [i \in 1 .. k |-> written + i] /\ written' = written + k
        /\ written + k <= MaxBytes
    BY <1>3 DEF Send
  <2>2. PICK p \in Nat, m \in Nat : p = Passed /\ m = Len(wire)
    BY WireFacts
  <2>3. k \in Nat
    BY StreamAssumption
  <2>4. wire' = Consecutive(p, m + k)
    <3>1. Consecutive(p, m) \o Consecutive(p + m, k) = Consecutive(p, m + k)
      BY <2>2, <2>3, ConsecutiveJoin DEF Cat
    <3>2. wire = Consecutive(p, m) /\ p + m = written
      BY <2>2, WireFacts
    <3>3. Consecutive(p + m, k) = [i \in 1 .. k |-> written + i]
      BY <3>2 DEF Consecutive
    <3>4. QED
      BY <2>1, <3>1, <3>2, <3>3
  <2>5. Len(wire') = m + k
    BY <2>2, <2>3, <2>4, ConsecutiveFacts
  <2>6. p + m = written /\ written \in Nat /\ MaxBytes \in Nat
    BY <2>2, WireFacts
  <2>7. Passed' = p
    BY <2>1, <2>2, <2>3, <2>5, <2>6 DEF Passed
  <2>8. WireInv'
    <3>1. written' \in 0 .. MaxBytes /\ Len(wire') \in 0 .. written'
      BY <2>1, <2>2, <2>3, <2>5, <2>6
    <3>2. QED
      BY <2>4, <2>5, <2>7, <3>1 DEF WireInv
  <2>9. RecvAllInv'
    BY <1>1, <2>1, <2>2, <2>7 DEF RecvAllInv, Requested
  <2>10. QED
    BY <2>8, <2>9
<1>4. ASSUME PeerCloses PROVE WireInv' /\ RecvAllInv'
  <2>1. UNCHANGED <<wire, written>> /\ ~open'
    BY <1>4 DEF PeerCloses
  <2>2. Passed' = Passed
    BY <2>1 DEF Passed
  <2>3. WireInv'
    BY <2>1, <2>2 DEF WireInv
  <2>4. RecvAllInv'
    BY <1>1, <2>1, <2>2 DEF RecvAllInv, Requested
  <2>5. QED
    BY <2>3, <2>4
<1>5. WireInv' /\ RecvAllInv'
  BY <1>3, <1>4 DEF Peer
<1>6. QED
  BY <1>1, <1>2, <1>5 DEF RecvInv

(* A step that only changes the call. *)
LEMMA SocketJobStep ==
  ASSUME WireInv, kind = "socket", UNCHANGED <<config, wire, written>>,
         SocketJobInv', RecvAllInv', RecvAllExact'
  PROVE  RecvInv'
<1>1. Passed' = Passed /\ kind' = kind
  BY DEF Passed, config
<1>2. WireInv'
  BY <1>1 DEF WireInv
<1>3. QED
  BY <1>1, <1>2 DEF RecvInv

LEMMA SocketCalls ==
  ASSUME WireInv, RecvAllInv, SocketJobInv, RecvAllExact, kind = "socket", Calls
  PROVE  RecvInv'
<1> DEFINE Asks(call, n) == [Idle EXCEPT !.call = call, !.stage = "recv", !.n = n]
<1>1. PICK call \in {"recv", "recvAll"}, n \in Nat \ {0} :
        Call(Asks(call, n)) /\ (call = "recvAll" => n = FirstLen)
  <2> HIDE DEF Asks
  <2>1. /\ ~fGetLine /\ ~fSeekLine /\ ~fGetChar /\ \A k : ~fGetChars(k)
        /\ \A offset, fuel : ~readFilePage(offset, fuel)
    BY DEF fGetLine, fSeekLine, fGetChar, fGetChars, OfFile, readFilePage
  <2>2. CASE recvAll
    <3>1. Call(Asks("recvAll", FirstLen))
      BY <2>2 DEF recvAll, OfSocket, Asks
    <3>2. QED
      BY <3>1, RequestAssumption
  <2>3. ASSUME NEW k \in 1 .. 2, recv(k)
        PROVE  \E call \in {"recv", "recvAll"}, n \in Nat \ {0} :
                 Call(Asks(call, n)) /\ (call = "recvAll" => n = FirstLen)
    <3>1. Call(Asks("recv", k))
      BY <2>3 DEF recv, OfSocket, Asks
    <3>2. "recv" # "recvAll" /\ k \in Nat \ {0}
      OBVIOUS
    <3>3. QED
      BY <3>1, <3>2
  <2>4. QED
    BY <2>1, <2>2, <2>3 DEF Calls
<1>2. /\ job' = [Asks(call, n) EXCEPT !.from = written - Len(wire), !.rest = Len(wire),
                                      !.whole = ~open]
      /\ UNCHANGED <<config, wire, written, open, result>>
  BY <1>1 DEF Call
<1>3. /\ DOMAIN job' = DOMAIN Idle /\ job'.call = call /\ job'.stage = "recv" /\ job'.n = n
      /\ job'.acc = <<>> /\ job'.from = Passed /\ job'.rest = Len(wire)
      /\ job'.whole = ~open
  BY <1>2, IdleFields DEF Passed
<1> HIDE DEF Asks
<1>4. SocketJobInv'
  BY <1>1, <1>3 DEF SocketJobInv
<1>5. RecvAllExact'
  BY <1>2 DEF RecvAllExact, Returned
<1>6. RecvAllInv'
  <2> SUFFICES ASSUME call = "recvAll" PROVE RecvAllInv'
    BY <1>3 DEF RecvAllInv
  <2>1. PICK p \in Nat : p = Passed /\ Passed' = p
    BY <1>2, WireFacts DEF Passed
  <2>2. job'.acc \in Seq(Bytes) /\ FlattenSeq(job'.acc) = Consecutive(p, 0)
    <3>1. Consecutive(p, 0) = <<>>
      BY ConsecutiveFacts
    <3>2. QED
      BY <1>3, <3>1, FlattenFacts, EmptySeq
  <2>3. InFull[0].sum = 0 /\ InFull[0].n = FirstLen
    BY InFullSteps
  <2>4. Requested(0)'
    BY <1>1, <1>3, <2>1, <2>2, <2>3 DEF Requested
  <2>5. 0 \in 0 .. MaxBytes
    BY StreamAssumption
  <2>6. job'.whole => ~open' /\ job'.rest = written' - job'.from
    <3>1. Passed + Len(wire) = written /\ Len(wire) \in Nat /\ Passed \in Nat
      BY WireFacts
    <3>2. job'.whole => ~open'
      <4>1. open' = open
        BY <1>2
      <4>2. QED
        BY <1>3, <4>1, Zenon
    <3>3. job'.rest = written' - job'.from
      BY <1>2, <1>3, <3>1
    <3>4. QED
      BY <3>2, <3>3
  <2>7. job'.from \in Nat
    BY <1>3, <2>1
  <2>8. \E k \in 0 .. MaxBytes : Requested(k)'
    BY <2>4, <2>5
  <2>9. QED
    BY <2>2, <2>6, <2>7, <2>8 DEF RecvAllInv
<1>7. QED
  BY <1>2, <1>4, <1>5, <1>6, SocketJobStep

(* recv returned 0 or -1: when the peer had closed before the call, all of *)
(* the rest was used up by requests met in full. *)
LEMMA ReceivesNothing ==
  ASSUME WireInv, RecvAllInv, SocketJobInv, RecvAllExact, kind = "socket",
         ReceiveClosed \/ ReceiveInterrupted
  PROVE  RecvInv'
<1>1. /\ wire = <<>> /\ Return(<<>>, FALSE, FALSE) /\ DOMAIN job = DOMAIN Idle
      /\ UNCHANGED <<config, wire, written, open>>
  BY DEF ReceiveClosed, ReceiveInterrupted, ReceiveNothing, SocketJobInv
<1>2. /\ job' = Idle
      /\ job.call \notin {"page", "recvAll"} => result' = result
      /\ job.call \in {"page", "recvAll"} =>
           /\ result'.call = job.call /\ result'.stage = "left"
           /\ result'.rest = job.rest /\ result'.whole = job.whole
  BY <1>1, Returns
<1>3. SocketJobInv' /\ RecvAllInv'
  BY <1>2, IdleFields DEF SocketJobInv, RecvAllInv
<1>4. RecvAllExact'
  <2>1. CASE job.call # "recvAll"
    <3>1. result' = result
      BY <1>2, <2>1 DEF SocketJobInv
    <3>2. QED
      BY <3>1 DEF RecvAllExact, Returned
  <2>2. CASE job.call = "recvAll"
    <3>1. PICK k \in 0 .. MaxBytes : Requested(k)
      BY <2>2 DEF RecvAllInv
    <3>2. job.whole => InFull[k].sum = job.rest
      <4>1. PICK p \in Nat : p = Passed /\ p = written
        BY <1>1, WireFacts
      <4>2. job.from \in Nat /\ job.from + InFull[k].sum = p /\ InFull[k].sum \in Nat
        BY <2>2, <3>1, <4>1, InFullGrows DEF RecvAllInv, Requested
      <4>3. job.whole => job.rest = p - job.from
        BY <2>2, <4>1 DEF RecvAllInv
      <4>4. QED
        BY <4>2, <4>3
    <3>3. k \in DOMAIN InFull
      BY <3>1, InFullSteps
    <3>4. job.whole => \E j \in DOMAIN InFull : InFull[j].sum = job.rest
      BY <3>2, <3>3
    <3>5. QED
      BY <1>2, <2>2, <3>4 DEF RecvAllExact, Returned
  <2>3. QED
    BY <2>1, <2>2
<1>5. QED
  BY <1>1, <1>3, <1>4, SocketJobStep

LEMMA Receives ==
  ASSUME WireInv, RecvAllInv, SocketJobInv, RecvAllExact, kind = "socket", Receive
  PROVE  RecvInv'
<1> DEFINE res == Min({job.n, Len(wire)})
           piece == SubSeq(wire, 1, res)
           got == Append(job.acc, piece)
           ends == job.call = "recv" \/ IsShort(res, job.n)
<1>1. PICK p \in Nat, m \in Nat \ {0} :
        /\ p = Passed /\ m = Len(wire) /\ p + m = written /\ written <= MaxBytes
        /\ wire = Consecutive(p, m)
  BY WireFacts DEF Receive
<1>2. job.n \in Nat \ {0} /\ job.call \in {"recv", "recvAll"} /\ DOMAIN job = DOMAIN Idle
  BY DEF SocketJobInv, Receive, Receiving
<1>3. res \in 1 .. m /\ res \in {job.n, m} /\ res <= job.n
  BY <1>1, <1>2, MinOfTwo
<1>4. /\ wire' = SubSeq(wire, res + 1, Len(wire))
      /\ UNCHANGED <<config, written, open>>
      /\ ends => Return(got, TRUE, FALSE)
      /\ ~ends => /\ job' = [job EXCEPT !.acc = got, !.n = Min({2 * @, LastLen})]
                  /\ UNCHANGED result
  BY DEF Receive
<1> HIDE DEF res
<1>n. res \in Nat /\ res \in 0 .. m /\ m - res \in Nat /\ p + res \in Nat
  BY <1>1, <1>3
<1>5. piece = Consecutive(p, res) /\ wire' = Consecutive(p + res, m - res)
  <2>1. /\ SubSeq(Consecutive(p, m), 1, res) = Consecutive(p, res)
        /\ SubSeq(Consecutive(p, m), res + 1, m) = Consecutive(p + res, m - res)
    BY <1>1, <1>n, ConsecutiveParts
  <2>2. QED
    BY <1>1, <1>4, <2>1
<1>6. piece \in Bytes /\ Len(wire') = m - res
  BY <1>1, <1>n, <1>5, ConsecutiveFacts
<1> HIDE DEF piece
<1>7. Passed' = p + res /\ kind' = kind
  BY <1>1, <1>3, <1>4, <1>6 DEF Passed, config
<1>8. WireInv'
  <2>1. written' \in 0 .. MaxBytes /\ Len(wire') \in 0 .. written'
    BY <1>1, <1>3, <1>4, <1>6, StreamAssumption
  <2>2. QED
    BY <1>5, <1>6, <1>7, <2>1 DEF WireInv
<1> HIDE DEF got, ends
<1>9. CASE job.call = "recv"
  <2>1. job' = Idle /\ result' = result
    BY <1>2, <1>4, <1>9, Returns DEF ends
  <2>2. SocketJobInv' /\ RecvAllInv' /\ RecvAllExact'
    BY <2>1, IdleFields DEF SocketJobInv, RecvAllInv, RecvAllExact, Returned
  <2>3. QED
    BY <1>7, <1>8, <2>2 DEF RecvInv
<1>10. CASE job.call = "recvAll"
  <2>1. PICK k \in 0 .. MaxBytes : Requested(k)
    BY <1>10 DEF RecvAllInv
  <2>2. PICK from \in Nat, sum \in Nat :
          /\ from = job.from /\ sum = InFull[k].sum /\ from + sum = p
          /\ FlattenSeq(job.acc) = Consecutive(from, sum) /\ job.n = InFull[k].n
    BY <1>1, <1>10, <2>1, InFullGrows DEF RecvAllInv, Requested
  <2>3. job.acc \in Seq(Bytes) /\ (job.whole => ~open /\ job.rest = written - from)
    BY <1>10, <2>2 DEF RecvAllInv
  <2>4. got \in Seq(Bytes) /\ FlattenSeq(got) = Consecutive(from, sum + res)
    <3>1. got \in Seq(Bytes) /\ FlattenSeq(got) = Cat(FlattenSeq(job.acc), piece)
      BY <1>6, <2>3, FlattenFacts DEF got
    <3>2. Cat(Consecutive(from, sum), Consecutive(from + sum, res))
            = Consecutive(from, sum + res)
      <4>1. PICK r \in Nat : r = res
        BY <1>n
      <4>2. Cat(Consecutive(from, sum), Consecutive(from + sum, r)) = Consecutive(from, sum + r)
        BY ConsecutiveJoin
      <4>3. QED
        BY <4>1, <4>2
    <3>3. QED
      BY <1>5, <2>2, <3>1, <3>2
  <2>5. CASE ends
    <3>1. res < job.n /\ res = m
      BY <1>3, <1>10, <2>5 DEF ends, IsShort
    <3>2. /\ job' = Idle /\ result'.call = "recvAll" /\ result'.acc = got
          /\ result'.stage = "right" /\ result'.from = from /\ result'.rest = job.rest
          /\ result'.whole = job.whole
      BY <1>2, <1>4, <1>10, <2>2, <2>5, Returns
    <3>3. SocketJobInv' /\ RecvAllInv'
      BY <3>2, IdleFields DEF SocketJobInv, RecvAllInv
    <3>4. PICK bytes : bytes = FlattenSeq(got)
      OBVIOUS
    <3>5. bytes = Consecutive(from, sum + m) /\ Len(bytes) = sum + m
      <4>1. bytes = Consecutive(from, sum + m)
        BY <2>4, <3>1, <3>4
      <4>2. PICK t \in Nat : t = sum + m
        OBVIOUS
      <4>3. Len(Consecutive(from, t)) = t
        BY ConsecutiveFacts
      <4>4. QED
        BY <4>1, <4>2, <4>3
    <3>6. bytes = [i \in 1 .. Len(bytes) |-> from + i]
      BY <3>5 DEF Consecutive
    <3>7. job.whole => job.rest = sum + m
      <4>1. PICK w \in Int : w = written /\ w = p + m
        BY <1>1
      <4>2. PICK r : r = job.rest /\ (job.whole => r = w - from)
        BY <2>3, <4>1
      <4>3. from + sum = p
        BY <2>2
      <4>4. w - from = sum + m
        BY <4>1, <4>3
      <4>5. QED
        BY <4>2, <4>4
    <3>8. ASSUME NEW j \in DOMAIN InFull PROVE InFull[j].sum # sum + m
      <4>1. j \in 0 .. MaxBytes /\ MaxBytes \in Nat
        BY <3>8, InFullSteps, StreamAssumption
      <4>2. InFull[j].sum \in Nat /\ InFull[k].n \in Nat
        BY <2>1, <4>1, InFullGrows
      <4>3. CASE j <= k
        <5>1. InFull[j].sum <= sum
          <6>1. CASE j = k
            BY <2>2, <6>1
          <6>2. CASE j # k
            <7>1. j \in 0 .. k - 1
              BY <4>1, <4>3, <6>2
            <7>2. InFull[j].sum + InFull[j].n <= InFull[k].sum /\ InFull[j].n \in Nat
              BY <4>1, <7>1, InFullGrows
            <7>3. QED
              BY <2>2, <4>2, <7>2
          <6>3. QED
            BY <6>1, <6>2
        <5>2. QED
          BY <1>1, <2>2, <4>2, <5>1
      <4>4. CASE ~(j <= k)
        <5>1. k \in 0 .. j - 1
          BY <4>1, <4>4
        <5>2. InFull[k].sum + InFull[k].n <= InFull[j].sum
          BY <4>1, <5>1, InFullGrows
        <5>3. PICK n \in Nat : n = InFull[k].n /\ m < n
          BY <1>1, <2>2, <3>1, <4>2
        <5>4. PICK above \in Nat : above = InFull[j].sum
          BY <4>2
        <5>5. sum + n <= above
          BY <2>2, <5>2, <5>3, <5>4
        <5>6. QED
          BY <1>1, <2>2, <5>3, <5>4, <5>5
      <4>5. QED
        BY <4>3, <4>4
    <3>9. RecvAllExact'
      <4>1. result'.whole => ~(\E j \in DOMAIN InFull : InFull[j].sum = result'.rest)
        BY <3>2, <3>7, <3>8
      <4>2. result'.whole => Len(bytes) = result'.rest
        BY <3>2, <3>5, <3>7
      <4>3. bytes = [i \in 1 .. Len(bytes) |-> result'.from + i]
        BY <3>2, <3>6
      <4>4. FlattenSeq(result'.acc) = bytes
        BY <3>2, <3>4
      <4>5. QED
        BY <3>2, <4>1, <4>2, <4>3, <4>4 DEF RecvAllExact, Returned
    <3>10. QED
      BY <1>7, <1>8, <3>3, <3>9 DEF RecvInv
  <2>6. CASE ~ends
    <3>1. res = job.n /\ res \in Nat \ {0}
      BY <1>2, <1>3, <2>6 DEF ends, IsShort
    <3>2. /\ DOMAIN job' = DOMAIN Idle /\ job'.call = "recvAll" /\ job'.stage = "recv"
          /\ job'.acc = got /\ job'.n = Min({2 * job.n, LastLen}) /\ job'.from = job.from
          /\ job'.rest = job.rest /\ job'.whole = job.whole /\ result' = result
      BY <1>2, <1>4, <1>10, <2>6, IdleFields DEF SocketJobInv
    <3>3. k + 1 \in 1 .. MaxBytes /\ (k + 1) - 1 = k /\ k + 1 \in 0 .. MaxBytes
      <4>1. k <= sum /\ k \in Nat
        BY <2>1, <2>2, InFullGrows
      <4>2. sum + res <= MaxBytes
        BY <1>1, <1>3, <2>2, StreamAssumption
      <4>3. QED
        BY <3>1, <4>1, <4>2, <2>2, StreamAssumption
    <3>4. InFull[k + 1].sum = sum + res /\ InFull[k + 1].n = job'.n
      <4>1. PICK k1 \in 1 .. MaxBytes : k1 = k + 1 /\ k1 - 1 = k
        BY <3>3
      <4>2. /\ InFull[k1].sum = InFull[k1 - 1].sum + InFull[k1 - 1].n
            /\ InFull[k1].n = Min({2 * InFull[k1 - 1].n, LastLen})
        BY InFullSteps
      <4>3. QED
        BY <2>2, <3>1, <3>2, <4>1, <4>2
    <3>5. Requested(k + 1)'
      <4>1. from + (sum + res) = p + res
        BY <1>3, <2>2
      <4>2. QED
        BY <1>7, <2>2, <2>4, <3>2, <3>4, <4>1 DEF Requested
    <3>6. job'.n \in Nat \ {0}
      BY <3>3, <3>4, InFullGrows
    <3>7. SocketJobInv'
      BY <3>2, <3>6 DEF SocketJobInv
    <3>8. RecvAllInv'
      <4>1. job'.acc \in Seq(Bytes) /\ job'.from \in Nat
        BY <2>2, <2>4, <3>2
      <4>2. \E i \in 0 .. MaxBytes : Requested(i)'
        BY <3>3, <3>5
      <4>3. job'.whole => ~open' /\ job'.rest = written' - job'.from
        BY <1>4, <2>2, <2>3, <3>2
      <4>4. QED
        BY <4>1, <4>2, <4>3 DEF RecvAllInv
    <3>9. RecvAllExact'
      BY <3>2 DEF RecvAllExact, Returned
    <3>10. QED
      BY <1>7, <1>8, <3>7, <3>8, <3>9 DEF RecvInv
  <2>7. QED
    BY <2>5, <2>6
<1>11. QED
  BY <1>2, <1>9, <1>10

LEMMA RecvInvStep == RecvInv /\ [Next]_vars => RecvInv'
<1> SUFFICES ASSUME RecvInv, [Next]_vars PROVE RecvInv'
  OBVIOUS
<1>1. CASE kind # "socket"
  BY <1>1, KindStays DEF RecvInv
<1>2. CASE kind = "socket"
  <2>1. WireInv /\ RecvAllInv /\ SocketJobInv /\ RecvAllExact
    BY <1>2 DEF RecvInv
  <2>2. CASE UNCHANGED streamVars
    <3>1. UNCHANGED <<config, wire, written, open, job, result>>
      BY <2>2 DEF streamVars, config
    <3>2. Passed' = Passed
      BY <3>1 DEF Passed
    <3>3. SocketJobInv' /\ RecvAllInv' /\ RecvAllExact'
      BY <2>1, <3>1, <3>2 DEF SocketJobInv, RecvAllInv, Requested, RecvAllExact, Returned
    <3>4. QED
      BY <1>2, <2>1, <3>1, <3>3, SocketJobStep
  <2>3. ~PageTest /\ ~Reading
    BY <2>1 DEF SocketJobInv, PageTest, Reading
  <2>4. ReaderStep => Receive \/ ReceiveClosed
    BY <2>3 DEF ReaderStep, GetBytes, Fill, AtEOF, ReadOfSick
  <2>5. \A s \in SigNums : InterruptedBy(s) => ReceiveInterrupted
    BY <2>3 DEF InterruptedBy, ReadInterrupted
  <2>6. QED
    BY <1>2, <2>1, <2>2, <2>4, <2>5, PeerSends, SocketCalls, ReceivesNothing, Receives
    DEF Next, vars
<1>3. QED
  BY <1>1, <1>2

(* For any bytes, any lengths of the requests, and whatever the peer, the  *)
(* kernel and the signals do: what recvAll returns follows without a gap   *)
(* the position at which it was called, and when the peer had closed by    *)
(* then it is all of the rest - or an error, exactly when the rest is used *)
(* up by requests that were met in full.                                   *)
THEOREM RecvAllIsExact == Spec => []RecvAllExact
<1>1. KindInv /\ RecvInv => RecvAllExact
  BY DEF KindInv, CallsOf, RecvInv, RecvAllExact, Returned
<1>2. Init => KindInv /\ RecvInv
  BY KindInvInit, RecvInvInit DEF Init
<1>3. QED
  BY <1>1, <1>2, KindInvStep, RecvInvStep, PTL DEF Spec

-----------------------------------------------------------------------------
(* Pieces: a line grows at its end, and a newline begins the next one. *)

NextPieces(p, n) ==
  LET longer == [p EXCEPT ![Len(p)] = Append(@, n)]
  IN  IF n \in newlines THEN Append(longer, <<>>) ELSE longer

(* Whatever is before position m of p is in q as well. *)
SameUpTo(p, q, m) == \A i \in 1 .. m : p[i] = q[i]

LEMMA NextPiecesFacts ==
  ASSUME NEW p \in Seq(Bytes), NEW m \in Nat \ {0}, Len(p) = m, NEW n \in Nat
  PROVE  /\ NextPieces(p, n) \in Seq(Bytes)
         /\ Len(NextPieces(p, n)) = IF n \in newlines THEN m + 1 ELSE m
         /\ NextPieces(p, n)[m] = Append(p[m], n)
         /\ n \in newlines => NextPieces(p, n)[m + 1] = <<>>
         /\ SameUpTo(p, NextPieces(p, n), m - 1)
<1> DEFINE line == Append(p[m], n)
           longer == [p EXCEPT ![m] = line]
<1>1. p \in [1 .. m -> Bytes] /\ m \in 1 .. m
  BY LenProperties
<1>2. line \in Bytes /\ <<>> \in Bytes
  BY <1>1, AppendProperties, EmptySeq DEF Bytes
<1>3. NextPieces(p, n) = IF n \in newlines THEN Append(longer, <<>>) ELSE longer
  BY DEF NextPieces
<1> HIDE DEF line
<1>4. /\ longer \in [1 .. m -> Bytes] /\ longer[m] = line
      /\ \A i \in 1 .. m - 1 : longer[i] = p[i]
  BY <1>1, <1>2
<1>5. longer \in Seq(Bytes) /\ Len(longer) = m
  BY <1>4, SeqDef
<1> HIDE DEF longer
<1>6. /\ Append(longer, <<>>) \in Seq(Bytes) /\ Len(Append(longer, <<>>)) = m + 1
      /\ \A i \in 1 .. m : Append(longer, <<>>)[i] = longer[i]
      /\ Append(longer, <<>>)[m + 1] = <<>>
  BY <1>2, <1>5, AppendProperties
<1>7. CASE n \in newlines
  <2>1. NextPieces(p, n) = Append(longer, <<>>)
    BY <1>3, <1>7
  <2>2. \A i \in 1 .. m - 1 : Append(longer, <<>>)[i] = p[i]
    BY <1>4, <1>6
  <2>3. QED
    BY <1>1, <1>4, <1>6, <1>7, <2>1, <2>2 DEF line, SameUpTo
<1>8. CASE n \notin newlines
  <2>1. NextPieces(p, n) = longer
    BY <1>3, <1>8
  <2>2. QED
    BY <1>4, <1>5, <1>8, <2>1 DEF line, SameUpTo
<1>9. QED
  BY <1>7, <1>8

SomePieces == {p \in Seq(Bytes) : Len(p) # 0}

LEMMA NextPiecesType ==
  ASSUME NEW p \in SomePieces, NEW n \in Nat
  PROVE  NextPieces(p, n) \in SomePieces
<1>1. PICK m \in Nat \ {0} : Len(p) = m
  BY LenProperties DEF SomePieces
<1>2. /\ NextPieces(p, n) \in Seq(Bytes)
      /\ Len(NextPieces(p, n)) = IF n \in newlines THEN m + 1 ELSE m
  BY <1>1, NextPiecesFacts DEF SomePieces
<1>3. QED
  BY <1>1, <1>2 DEF SomePieces

LEMMA PiecesSteps ==
  /\ Pieces \in [0 .. MaxBytes -> SomePieces] /\ Pieces[0] = << <<>> >>
  /\ \A n \in 1 .. MaxBytes : Pieces[n] = NextPieces(Pieces[n - 1], n)
<1> DEFINE first == << <<>> >>
           step == [p \in (1 .. MaxBytes) \X SomePieces |-> NextPieces(p[2], p[1])]
<1>1. MaxBytes \in Nat /\ first \in SomePieces
  BY StreamAssumption, EmptySeq DEF SomePieces, Bytes
<1>2. \A n \in 1 .. MaxBytes : \A p \in SomePieces : step[<<n, p>>] = NextPieces(p, n)
  OBVIOUS
<1> HIDE DEF step, first
<1>3. \A n \in 1 .. MaxBytes : \A p \in SomePieces : step[<<n, p>>] \in SomePieces
  <2> SUFFICES ASSUME NEW n \in 1 .. MaxBytes, NEW p \in SomePieces
               PROVE  step[<<n, p>>] \in SomePieces
    OBVIOUS
  <2>1. n \in Nat
    BY <1>1
  <2>2. QED
    BY <1>2, <2>1, NextPiecesType
<1>4. PICK f \in [0 .. MaxBytes -> SomePieces] :
        f[0] = first /\ \A n \in 1 .. MaxBytes : f[n] = step[<<n, f[n - 1]>>]
  <2>1. PICK f : Rounds(f, SomePieces, first, step, MaxBytes)
    BY <1>1, <1>3, RoundsExist
  <2>2. QED
    BY <2>1 DEF Rounds
<1>5. ASSUME NEW n \in 1 .. MaxBytes PROVE f[n] = NextPieces(f[n - 1], n)
  <2>1. f[n - 1] \in SomePieces
    BY <1>1, <1>4
  <2>2. QED
    BY <1>2, <1>4, <2>1
<1>6. f = [n \in 0 .. MaxBytes |-> IF n = 0 THEN first ELSE NextPieces(f[n - 1], n)]
  BY <1>1, <1>4, <1>5
<1>7. Pieces = [n \in 0 .. MaxBytes |-> IF n = 0 THEN first ELSE NextPieces(Pieces[n - 1], n)]
  BY <1>6, Zenon DEF Pieces, NextPieces, first
<1>8. Pieces[0] = first
  BY <1>1, <1>7
<1>9. \A n \in 1 .. MaxBytes : Pieces[n] = NextPieces(Pieces[n - 1], n)
  BY <1>1, <1>7
<1>10. \A n \in 0 .. MaxBytes : Pieces[n] \in SomePieces
  <2> DEFINE S == {n \in 0 .. MaxBytes : Pieces[n] \in SomePieces}
  <2>1. 0 \in S
    BY <1>1, <1>8
  <2>2. ASSUME NEW n \in 0 .. MaxBytes - 1, n \in S PROVE n + 1 \in S
    <3>1. n + 1 \in 1 .. MaxBytes /\ (n + 1) - 1 = n /\ n + 1 \in 0 .. MaxBytes /\ n + 1 \in Nat
      BY <1>1
    <3>2. Pieces[n + 1] = NextPieces(Pieces[n], n + 1)
      BY <1>9, <3>1
    <3>3. QED
      BY <2>2, <3>1, <3>2, NextPiecesType
  <2>3. \A n \in 0 .. MaxBytes : n \in S
    <3> HIDE DEF S
    <3> QED  BY <1>1, <2>1, <2>2, Induction
  <2>4. QED
    BY <2>3
<1>11. Pieces \in [0 .. MaxBytes -> SomePieces]
  BY <1>7, <1>10
<1>12. QED
  BY <1>8, <1>9, <1>11 DEF first

LEMMA PiecesStay == newlines' = newlines => Pieces' = Pieces
BY DEF Pieces

(* One byte more. *)
LEMMA PiecesByte ==
  ASSUME NEW n \in 1 .. MaxBytes
  PROVE  LET m == Len(Pieces[n - 1]) IN
         /\ n - 1 \in 0 .. MaxBytes /\ m \in Nat \ {0}
         /\ Len(Pieces[n]) = IF n \in newlines THEN m + 1 ELSE m
         /\ Pieces[n][m] = Append(Pieces[n - 1][m], n)
         /\ n \in newlines => Pieces[n][m + 1] = <<>>
         /\ SameUpTo(Pieces[n - 1], Pieces[n], m - 1)
<1>1. n \in Nat /\ n - 1 \in 0 .. MaxBytes
  BY StreamAssumption
<1>2. PICK p : p = Pieces[n - 1]
  OBVIOUS
<1>3. p \in Seq(Bytes) /\ Len(p) # 0 /\ Pieces[n] = NextPieces(p, n)
  BY <1>1, <1>2, PiecesSteps DEF SomePieces
<1>4. PICK m \in Nat \ {0} : m = Len(p)
  BY <1>3, LenProperties
<1>5. PICK q : q = NextPieces(p, n)
  OBVIOUS
<1>6. /\ Len(q) = IF n \in newlines THEN m + 1 ELSE m
      /\ q[m] = Append(p[m], n)
      /\ n \in newlines => q[m + 1] = <<>>
      /\ SameUpTo(p, q, m - 1)
  BY <1>1, <1>3, <1>4, <1>5, NextPiecesFacts
<1>7. QED
  BY <1>1, <1>2, <1>3, <1>4, <1>5, <1>6

-----------------------------------------------------------------------------
(* What more bytes do to the pieces. *)

LEMMA PiecesTypes ==
  ASSUME NEW n \in 0 .. MaxBytes
  PROVE  /\ Pieces[n] \in Seq(Bytes) /\ Len(Pieces[n]) \in Nat \ {0}
         /\ \A i \in 1 .. Len(Pieces[n]) : Pieces[n][i] \in Bytes
<1>1. PICK p : p = Pieces[n]
  OBVIOUS
<1>2. p \in Seq(Bytes) /\ Len(p) # 0
  BY <1>1, PiecesSteps DEF SomePieces
<1>3. Len(p) \in Nat \ {0} /\ \A i \in 1 .. Len(p) : p[i] \in Bytes
  BY <1>2, LenProperties, ElementOfSeq
<1>4. QED
  BY <1>1, <1>2, <1>3

LEMMA PiecesFew ==
  ASSUME NEW n \in 0 .. MaxBytes
  PROVE  Len(Pieces[n]) <= n + 1
<1> DEFINE S == {i \in 0 .. MaxBytes : Len(Pieces[i]) <= i + 1}
<1>1. MaxBytes \in Nat
  BY StreamAssumption
<1>2. 0 \in S
  <2>1. Len(<< <<>> >>) = 1
    OBVIOUS
  <2>2. Len(Pieces[0]) = 1
    BY <2>1, PiecesSteps
  <2>3. Len(Pieces[0]) <= 0 + 1 /\ 0 \in 0 .. MaxBytes
    BY <1>1, <2>2
  <2>4. QED
    BY <2>3
<1>3. ASSUME NEW i \in 0 .. MaxBytes - 1, i \in S PROVE i + 1 \in S
  <2>1. i + 1 \in 1 .. MaxBytes /\ (i + 1) - 1 = i /\ i + 1 \in 0 .. MaxBytes /\ i \in 0 .. MaxBytes
    BY <1>1
  <2>2. Len(Pieces[i + 1]) = IF i + 1 \in newlines THEN Len(Pieces[i]) + 1 ELSE Len(Pieces[i])
    BY <2>1, PiecesByte
  <2>3. Len(Pieces[i]) \in Nat
    BY <2>1, PiecesTypes
  <2>4. QED
    BY <1>3, <2>1, <2>2, <2>3
<1>4. \A i \in 0 .. MaxBytes : i \in S
  <2> HIDE DEF S
  <2> QED  BY <1>1, <1>2, <1>3, Induction
<1>5. QED
  BY <1>4

(* Whole lines stay what they are. *)
LEMMA PiecesGrow ==
  ASSUME NEW c \in 0 .. MaxBytes, NEW m \in c .. MaxBytes
  PROVE  /\ Len(Pieces[c]) <= Len(Pieces[m])
         /\ SameUpTo(Pieces[c], Pieces[m], Len(Pieces[c]) - 1)
<1> DEFINE S == {j \in 0 .. MaxBytes - c :
                   /\ Len(Pieces[c]) <= Len(Pieces[c + j])
                   /\ SameUpTo(Pieces[c], Pieces[c + j], Len(Pieces[c]) - 1)}
<1>1. MaxBytes \in Nat /\ MaxBytes - c \in Nat
  BY StreamAssumption
<1>2. PICK most \in Nat : most = MaxBytes - c
  BY <1>1
<1>3. PICK size \in Nat : size = Len(Pieces[c])
  BY PiecesTypes
<1>4. 0 \in S
  BY <1>1, <1>3 DEF SameUpTo
<1>5. ASSUME NEW j \in 0 .. most - 1, j \in S PROVE j + 1 \in S
  <2>1. PICK n \in 1 .. MaxBytes : n = c + (j + 1) /\ n - 1 = c + j
    BY <1>1, <1>2
  <2>2. n - 1 \in 0 .. MaxBytes
    BY <2>1, <1>1
  <2>3. PICK m1 \in Nat : m1 = Len(Pieces[n - 1])
    BY <2>2, PiecesTypes
  <2>4. /\ Len(Pieces[n]) = IF n \in newlines THEN m1 + 1 ELSE m1
        /\ SameUpTo(Pieces[n - 1], Pieces[n], m1 - 1)
    BY <2>3, PiecesByte
  <2>5. size <= m1 /\ SameUpTo(Pieces[c], Pieces[n - 1], size - 1)
    BY <1>3, <1>5, <2>1, <2>3
  <2>6. SameUpTo(Pieces[c], Pieces[n], size - 1)
    BY <2>3, <2>4, <2>5 DEF SameUpTo
  <2>7. size <= Len(Pieces[n])
    BY <2>3, <2>4, <2>5
  <2>8. j + 1 \in 0 .. most
    OBVIOUS
  <2>9. QED
    BY <1>2, <1>3, <2>1, <2>6, <2>7, <2>8
<1>6. \A j \in 0 .. most : j \in S
  <2> HIDE DEF S
  <2> QED  BY <1>4, <1>5, Induction
<1>7. m - c \in 0 .. most /\ c + (m - c) = m
  BY <1>1, <1>2
<1>8. m - c \in S
  BY <1>6, <1>7
<1>9. QED
  BY <1>7, <1>8

(* Up to the next newline the last line grows. *)
LEMMA PiecesLengthen ==
  ASSUME NEW c \in 0 .. MaxBytes, NEW k \in 0 .. MaxBytes - c,
         \A i \in c + 1 .. c + k : i \notin newlines
  PROVE  /\ Len(Pieces[c + k]) = Len(Pieces[c])
         /\ Pieces[c + k][Len(Pieces[c])] = Cat(Pieces[c][Len(Pieces[c])], Consecutive(c, k))
<1>1. MaxBytes \in Nat /\ c \in Nat /\ k \in Nat
  BY StreamAssumption
<1>2. PICK size \in Nat \ {0} : size = Len(Pieces[c])
  BY PiecesTypes
<1>3. PICK line \in Bytes : line = Pieces[c][size]
  BY <1>2, PiecesTypes
<1> DEFINE S == {j \in 0 .. k : /\ Len(Pieces[c + j]) = size
                                /\ Pieces[c + j][size] = Cat(line, Consecutive(c, j))}
<1>4. 0 \in S
  <2>1. Consecutive(c, 0) = <<>> /\ Cat(line, <<>>) = line
    BY <1>1, ConsecutiveFacts, ConcatEmptySeq DEF Cat, Bytes
  <2>2. QED
    BY <1>1, <1>2, <1>3, <2>1
<1>5. ASSUME NEW j \in 0 .. k - 1, j \in S PROVE j + 1 \in S
  <2>1. PICK n \in 1 .. MaxBytes : n = c + (j + 1) /\ n - 1 = c + j
    BY <1>1
  <2>2. n \notin newlines
    BY <1>1, <2>1
  <2>3. Len(Pieces[n - 1]) = size /\ Pieces[n - 1][size] = Cat(line, Consecutive(c, j))
    BY <1>5, <2>1
  <2>4. Len(Pieces[n]) = size /\ Pieces[n][size] = Append(Cat(line, Consecutive(c, j)), n)
    BY <2>2, <2>3, PiecesByte
  <2>5. Append(Cat(line, Consecutive(c, j)), n) = Cat(line, Consecutive(c, j + 1))
    <3>1. PICK x \in Bytes : x = Consecutive(c, j)
      BY <1>1, ConsecutiveFacts
    <3>2. PICK y \in Bytes : y = Consecutive(c + j, 1) /\ y = <<n>>
      <4>1. Consecutive(c + j, 1) \in Bytes
        BY <1>1, ConsecutiveFacts
      <4>2. Consecutive(c + j, 1) = <<n>>
        <5>1. [i \in 1 .. 1 |-> (c + j) + i] = <<(c + j) + 1>>
          OBVIOUS
        <5>2. (c + j) + 1 = n
          BY <1>1, <2>1
        <5>3. QED
          BY <5>1, <5>2 DEF Consecutive
      <4>3. QED
        BY <4>1, <4>2
    <3>3. Cat(x, y) = Consecutive(c, j + 1)
      BY <1>1, <3>1, <3>2, ConsecutiveJoin
    <3>4. Cat(Cat(line, x), y) = Cat(line, Cat(x, y)) /\ Cat(line, x) \in Bytes
      BY Associates
    <3>5. \A s \in Bytes : Append(s, n) = Cat(s, <<n>>)
      BY AppendIsConcat, <1>1, <2>1 DEF Bytes, Cat
    <3>6. QED
      BY <3>1, <3>2, <3>3, <3>4, <3>5
  <2>6. j + 1 \in 0 .. k
    BY <1>1
  <2>7. QED
    BY <2>1, <2>4, <2>5, <2>6
<1>6. \A j \in 0 .. k : j \in S
  <2> HIDE DEF S
  <2> QED  BY <1>1, <1>4, <1>5, Induction
<1>7. k \in S
  BY <1>1, <1>6
<1>8. QED
  BY <1>2, <1>3, <1>7

-----------------------------------------------------------------------------
(* Parts of the lines. *)

LEMMA SameParts ==
  ASSUME NEW p \in Seq(Bytes), NEW q \in Seq(Bytes), NEW a \in Nat \ {0}, NEW b \in Nat,
         b <= Len(p), b <= Len(q), SameUpTo(p, q, b)
  PROVE  SubSeq(p, a, b) = SubSeq(q, a, b)
<1>1. /\ \A i \in 1 .. Len(p) : p[i] \in Bytes
      /\ \A i \in 1 .. Len(q) : q[i] \in Bytes
      /\ Len(p) \in Nat /\ Len(q) \in Nat
  BY ElementOfSeq, LenProperties
<1>2. \A i \in a .. b : p[i] \in Bytes /\ q[i] \in Bytes /\ p[i] = q[i]
  BY <1>1 DEF SameUpTo
<1>3. CASE b < a
  BY <1>3, SubSeqEmpty
<1>4. CASE ~(b < a)
  <2>1. /\ SubSeq(p, a, b) \in Seq(Bytes) /\ Len(SubSeq(p, a, b)) = b - a + 1
        /\ \A i \in 1 .. b - a + 1 : SubSeq(p, a, b)[i] = p[a + i - 1]
    BY <1>2, <1>4, SubSeqProperties
  <2>2. /\ SubSeq(q, a, b) \in Seq(Bytes) /\ Len(SubSeq(q, a, b)) = b - a + 1
        /\ \A i \in 1 .. b - a + 1 : SubSeq(q, a, b)[i] = q[a + i - 1]
    BY <1>2, <1>4, SubSeqProperties
  <2>3. ASSUME NEW i \in 1 .. b - a + 1 PROVE SubSeq(p, a, b)[i] = SubSeq(q, a, b)[i]
    <3>1. a + i - 1 \in a .. b
      BY <1>4
    <3>2. QED
      BY <1>2, <2>1, <2>2, <3>1
  <2>4. QED
    BY <1>4, <2>1, <2>2, <2>3, SeqEqual
<1>5. QED
  BY <1>3, <1>4

LEMMA OneLineMore ==
  ASSUME NEW p \in Seq(Bytes), NEW a \in Nat \ {0}, NEW b \in Nat, a <= b + 1, b < Len(p)
  PROVE  /\ SubSeq(p, a, b + 1) = Append(SubSeq(p, a, b), p[b + 1])
         /\ Len(SubSeq(p, a, b)) = (b + 1) - a
<1>1. Len(p) \in Nat /\ \A i \in 1 .. Len(p) : p[i] \in Bytes
  BY ElementOfSeq, LenProperties
<1>2. /\ \A i \in a .. b : p[i] \in Bytes
      /\ \A i \in a .. b + 1 : p[i] \in Bytes
  BY <1>1
<1>3. /\ SubSeq(p, a, b) \in Seq(Bytes) /\ Len(SubSeq(p, a, b)) = (b + 1) - a
      /\ \A i \in 1 .. b - a + 1 : SubSeq(p, a, b)[i] = p[a + i - 1]
  <2>1. (IF a <= b THEN b - a + 1 ELSE 0) = (b + 1) - a
    OBVIOUS
  <2>2. QED
    BY <1>2, <2>1, SubSeqProperties
<1>4. /\ SubSeq(p, a, b + 1) \in Seq(Bytes) /\ Len(SubSeq(p, a, b + 1)) = (b + 1) - a + 1
      /\ \A i \in 1 .. (b + 1) - a + 1 : SubSeq(p, a, b + 1)[i] = p[a + i - 1]
  <2>1. (IF a <= b + 1 THEN (b + 1) - a + 1 ELSE 0) = (b + 1) - a + 1
    OBVIOUS
  <2>2. QED
    BY <1>2, <2>1, SubSeqProperties
<1>n. PICK n \in Nat : n = (b + 1) - a
  OBVIOUS
<1>5. PICK s \in Seq(Bytes) : s = SubSeq(p, a, b) /\ Len(s) = n
  BY <1>3, <1>n
<1>6. PICK t \in Seq(Bytes) : t = SubSeq(p, a, b + 1) /\ Len(t) = n + 1
  BY <1>4, <1>n
<1>7. PICK line \in Bytes : line = p[b + 1]
  BY <1>1
<1>8. /\ Append(s, line) \in Seq(Bytes) /\ Len(Append(s, line)) = n + 1
      /\ Append(s, line)[n + 1] = line /\ \A i \in 1 .. n : Append(s, line)[i] = s[i]
  BY <1>5, AppendProperties
<1>9. ASSUME NEW i \in 1 .. n + 1 PROVE t[i] = Append(s, line)[i]
  <2>1. t[i] = p[a + i - 1]
    BY <1>4, <1>n, <1>6
  <2>2. CASE i = n + 1
    <3>1. a + i - 1 = b + 1
      BY <1>n, <2>2
    <3>2. QED
      BY <1>7, <1>8, <2>1, <2>2, <3>1
  <2>3. CASE i # n + 1
    <3>1. i \in 1 .. n
      BY <2>3
    <3>2. s[i] = p[a + i - 1]
      BY <1>3, <1>n, <1>5, <3>1
    <3>3. Append(s, line)[i] = s[i]
      BY <1>8, <3>1
    <3>4. QED
      BY <2>1, <3>2, <3>3, Zenon
  <2>4. QED
    BY <2>2, <2>3
<1>10. t = Append(s, line)
  BY <1>6, <1>8, <1>9, SeqEqual
<1>11. QED
  BY <1>n, <1>5, <1>6, <1>7, <1>10

-----------------------------------------------------------------------------
(* The page.  Every line that was skipped or recorded is one of the pieces *)
(* of the bytes handed out so far, and what the call has in its hand is    *)
(* the last piece, which the end of the file makes a line too.             *)

Taken == Len(log) + Len(job.got)

Asked(ask) == ask[1] \in Nat /\ ask[2] \in 1 .. Forever

(* The page after so many lines. *)
Began(lines) ==
  /\ job.offset = IF lines <= job.ask[1] THEN job.ask[1] - lines ELSE 0
  /\ job.fuel = IF job.ask[2] = Forever \/ lines <= job.ask[1] THEN job.ask[2]
                ELSE job.ask[2] - (lines - job.ask[1])
  /\ job.acc = SubSeq(Pieces[Taken], job.ask[1] + 1, lines)

LastPiece(n) == Pieces[n][Len(Pieces[n])]

PageInv ==
  job.call = "page" =>
    /\ Asked(job.ask) /\ result.call = "none" /\ calls = 1
    /\ job.stage \in {"test", "seek", "line"} /\ job.fuel \in Nat
    /\ job.stage = "seek" => job.offset > 0
    /\ job.stage = "line" => job.offset = 0 /\ job.fuel > 0
    /\ job.stage # "test" => ~file.eof
    /\ file.eof => Taken = written /\ ~open /\ Began(Len(Pieces[Taken]))
    /\ ~file.eof => Began(Len(Pieces[Taken]) - 1) /\ LastPiece(Taken) = job.got

PageResultInv ==
  /\ PagesAreLines
  /\ result.call = "page" =>
       /\ calls = 1 /\ job.call = "none" /\ result.stage = "right" /\ Asked(result.ask)
       /\ ~open \/ result.ask[1] + result.ask[2] < Len(Pieces[written])

PathInv ==
  kind = "path" /\ ~interrupted /\ ~sick =>
    /\ written \in 0 .. MaxBytes
    /\ calls = 0 => log = <<>> /\ result.call = "none" /\ ~file.eof
    /\ PageInv /\ PageResultInv

LEMMA PathInvInit == StreamInit => PathInv
<1> SUFFICES ASSUME StreamInit PROVE PathInv
  OBVIOUS
<1>1. job = Idle /\ result = Idle /\ log = <<>> /\ written = 0 /\ ~file.eof
  BY DEF StreamInit
<1>2. PagesAreLines
  BY <1>1, IdleFields DEF PagesAreLines, Returned
<1>3. QED
  BY <1>1, <1>2, IdleFields, StreamAssumption DEF PathInv, PageInv, PageResultInv

(* The elements of a concatenation. *)
LEMMA CatElements ==
  ASSUME NEW x \in Bytes, NEW y \in Bytes
  PROVE  /\ Cat(x, y) \in Bytes /\ Len(Cat(x, y)) = Len(x) + Len(y)
         /\ Len(x) \in Nat /\ Len(y) \in Nat
         /\ \A i \in 1 .. Len(x) : Cat(x, y)[i] = x[i]
         /\ \A i \in 1 .. Len(y) : Cat(x, y)[Len(x) + i] = y[i]
<1>1. /\ x \o y \in Seq(Nat) /\ Len(x \o y) = Len(x) + Len(y)
      /\ \A i \in 1 .. Len(x) + Len(y) :
           (x \o y)[i] = IF i <= Len(x) THEN x[i] ELSE y[i - Len(x)]
  BY ConcatProperties DEF Bytes
<1>2. PICK z : z = x \o y
  OBVIOUS
<1>3. PICK n \in Nat, m \in Nat : n = Len(x) /\ m = Len(y)
  BY LenProperties DEF Bytes
<1>4. \A i \in 1 .. n + m : z[i] = IF i <= n THEN x[i] ELSE y[i - n]
  BY <1>1, <1>2, <1>3
<1>5. \A i \in 1 .. n : z[i] = x[i]
  BY <1>4
<1>6. ASSUME NEW i \in 1 .. m PROVE z[n + i] = y[i]
  <2>1. PICK j \in 1 .. n + m : j = n + i /\ ~(j <= n) /\ j - n = i
    OBVIOUS
  <2>2. QED
    BY <1>4, <2>1
<1>7. QED
  BY <1>1, <1>2, <1>3, <1>5, <1>6 DEF Bytes, Cat

(* Reading goes on where it stopped. *)
LEMMA BufferFacts ==
  ASSUME FileInv, kind # "socket", ~Forgetful
  PROVE  /\ Taken \in Nat /\ Len(file.buf) \in Nat /\ Len(wire) \in Nat
         /\ Taken + Len(file.buf) + Len(wire) = written
         /\ file.buf = Consecutive(Taken, Len(file.buf))
<1>1. /\ log \in Bytes /\ job.got \in Bytes /\ file.buf \in Bytes /\ wire \in Bytes
      /\ written \in Nat
      /\ Cat(Cat(Cat(log, job.got), file.buf), wire) = [i \in 1 .. written |-> i]
  BY DEF FileInv, StreamTypes, InHand, Cat
<1>2. PICK x \in Bytes : x = Cat(log, job.got) /\ Len(x) = Taken
  <2>1. Cat(log, job.got) \in Bytes /\ Len(Cat(log, job.got)) = Len(log) + Len(job.got)
    BY <1>1, CatElements
  <2>2. QED
    BY <2>1 DEF Taken
<1>3. PICK n \in Nat, n3 \in Nat, n4 \in Nat :
        n = Len(x) /\ n3 = Len(file.buf) /\ n4 = Len(wire)
  BY <1>1, LenProperties DEF Bytes
<1>4. PICK y \in Bytes : y = Cat(x, file.buf)
  BY <1>1, CatElements
<1>5. Len(y) = n + n3 /\ \A i \in 1 .. n3 : y[n + i] = file.buf[i]
  <2>1. /\ Len(Cat(x, file.buf)) = Len(x) + Len(file.buf)
        /\ \A i \in 1 .. Len(file.buf) : Cat(x, file.buf)[Len(x) + i] = file.buf[i]
    BY <1>1, CatElements
  <2>2. QED
    BY <1>3, <1>4, <2>1
<1>6. PICK z \in Bytes : z = Cat(y, wire)
  BY <1>1, CatElements
<1>7. Len(z) = (n + n3) + n4 /\ \A i \in 1 .. n + n3 : z[i] = y[i]
  <2>1. /\ Len(Cat(y, wire)) = Len(y) + Len(wire)
        /\ \A i \in 1 .. Len(y) : Cat(y, wire)[i] = y[i]
    BY <1>1, CatElements
  <2>2. QED
    BY <1>3, <1>5, <1>6, <2>1
<1>8. z = [i \in 1 .. written |-> i]
  BY <1>1, <1>2, <1>4, <1>6
<1>9. written = (n + n3) + n4
  <2>1. Len([i \in 1 .. written |-> i]) = written
    BY <1>1
  <2>2. QED
    BY <1>7, <1>8, <2>1
<1>10. file.buf = Consecutive(n, n3)
  <2>1. PICK s \in Seq(Nat) : /\ s = Consecutive(n, n3) /\ Len(s) = n3
                              /\ \A i \in 1 .. n3 : s[i] = n + i
    <3>1. /\ Consecutive(n, n3) \in Seq(Nat) /\ Len(Consecutive(n, n3)) = n3
          /\ \A i \in 1 .. n3 : Consecutive(n, n3)[i] = n + i
      BY DEF Consecutive
    <3>2. QED
      BY <3>1
  <2>2. ASSUME NEW i \in 1 .. n3 PROVE file.buf[i] = s[i]
    <3>1. PICK j \in 1 .. written : j = n + i /\ j \in 1 .. n + n3
      BY <1>9
    <3>2. z[j] = j
      BY <1>8
    <3>3. QED
      BY <1>5, <1>7, <2>1, <3>1, <3>2
  <2>3. file.buf \in Seq(Nat) /\ Len(file.buf) = Len(s)
    BY <1>1, <1>3, <2>1 DEF Bytes
  <2>4. file.buf = s
    BY <1>3, <2>2, <2>3, SeqEqual
  <2>5. QED
    BY <2>1, <2>4
<1>11. QED
  BY <1>2, <1>3, <1>9, <1>10

-----------------------------------------------------------------------------
LEMMA OneLineLonger ==
  ASSUME NEW p \in Seq(Bytes), NEW q \in Seq(Bytes), NEW m \in Nat \ {0}, NEW o \in Nat,
         Len(p) = m, m <= Len(q), SameUpTo(p, q, m - 1), o <= m - 1
  PROVE  /\ SubSeq(q, o + 1, m) = Append(SubSeq(p, o + 1, m - 1), q[m])
         /\ Len(SubSeq(p, o + 1, m - 1)) = (m - 1) - o
<1>1. PICK a \in Nat \ {0}, b \in Nat : a = o + 1 /\ b = m - 1 /\ b + 1 = m /\ a <= b + 1
  OBVIOUS
<1>2. Len(q) \in Nat
  BY LenProperties
<1>3. b <= Len(p) /\ b <= Len(q) /\ b < Len(q) /\ SameUpTo(p, q, b)
  BY <1>1, <1>2
<1>4. SubSeq(p, a, b) = SubSeq(q, a, b)
  BY <1>3, SameParts
<1>5. /\ SubSeq(q, a, b + 1) = Append(SubSeq(q, a, b), q[b + 1])
      /\ Len(SubSeq(q, a, b)) = (b + 1) - a
  BY <1>1, <1>3, OneLineMore
<1>6. QED
  BY <1>1, <1>4, <1>5

(* One recorded line costs one unit of fuel. *)
LEMMA LineSpent ==
  ASSUME NEW m \in Nat, NEW o \in Nat, NEW f \in Nat, NEW g \in Nat, NEW u \in Nat,
         o <= m - 1, u = f - ((m - 1) - o), f < g
  PROVE  u # g /\ ~(m <= o) /\ u - 1 = f - (m - o)
OBVIOUS

(* A line ends: it is skipped or recorded. *)
LEMMA PageLine ==
  ASSUME DOMAIN job = DOMAIN Idle, job.call = "page", Asked(job.ask), job.fuel \in Nat,
         job.stage \in {"seek", "line"},
         job.stage = "seek" => job.offset > 0,
         job.stage = "line" => job.offset = 0 /\ job.fuel > 0,
         NEW c \in 0 .. MaxBytes, NEW d \in 0 .. MaxBytes, NEW m \in Nat \ {0},
         c = Taken, d = Taken', m = Len(Pieces[c]), Began(m - 1), newlines' = newlines,
         NEW line, NEW how, how # "error", Ends(line, how),
         m <= Len(Pieces[d]), Pieces[d][m] = line, SameUpTo(Pieces[c], Pieces[d], m - 1)
  PROVE  /\ DOMAIN job' = DOMAIN Idle /\ job'.call = "page" /\ job'.stage = "test"
         /\ job'.got = <<>> /\ job'.ask = job.ask /\ result' = result
         /\ job'.fuel \in Nat /\ Began(m)'
<1>1. PICK o \in Nat, f \in 1 .. Forever : o = job.ask[1] /\ f = job.ask[2]
  BY DEF Asked
<1>2. Forever \in Nat /\ f \in Nat
  BY StreamAssumption DEF Forever
<1>3. PICK p \in Seq(Bytes), q \in Seq(Bytes) : p = Pieces[c] /\ q = Pieces[d]
  BY PiecesTypes
<1>4. Len(p) = m /\ m <= Len(q) /\ Len(q) \in Nat /\ q[m] = line /\ SameUpTo(p, q, m - 1)
  BY <1>3, LenProperties
<1>5. /\ job.offset = IF m - 1 <= o THEN o - (m - 1) ELSE 0
      /\ job.fuel = IF f = Forever \/ m - 1 <= o THEN f ELSE f - ((m - 1) - o)
      /\ job.acc = SubSeq(p, o + 1, m - 1)
  BY <1>1, <1>3 DEF Began
<1>6. Pieces' = Pieces
  BY PiecesStay
<1>7. CASE SeekEnds(line, how)
  <2>1. /\ job.stage = "seek"
        /\ job' = [job EXCEPT !.offset = @ - 1, !.stage = "test", !.got = <<>>]
        /\ result' = result
    BY <1>7 DEF SeekEnds, SeekOk
  <2>2. /\ DOMAIN job' = DOMAIN Idle /\ job'.call = "page" /\ job'.stage = "test"
        /\ job'.got = <<>> /\ job'.ask = job.ask /\ job'.offset = job.offset - 1
        /\ job'.fuel = job.fuel /\ job'.acc = job.acc
    BY <2>1, IdleFields
  <2>3. m <= o
    BY <1>5, <2>1
  <2>4. SubSeq(p, o + 1, m - 1) = <<>> /\ SubSeq(q, o + 1, m) = <<>>
    <3>1. o + 1 \in Int /\ m - 1 \in Int /\ m \in Int /\ m - 1 < o + 1 /\ m < o + 1
      BY <2>3
    <3>2. QED
      BY <3>1, SubSeqEmpty
  <2>5. job'.offset = IF m <= o THEN o - m ELSE 0
    BY <1>5, <2>2, <2>3
  <2>6. job'.fuel = IF f = Forever \/ m <= o THEN f ELSE f - (m - o)
    BY <1>5, <2>2, <2>3
  <2>7. job'.acc = SubSeq(q, o + 1, m)
    BY <1>5, <2>2, <2>4
  <2>8. job'.ask[1] = o /\ job'.ask[2] = f /\ Pieces'[Taken'] = q /\ Forever' = Forever
    BY <1>1, <1>3, <1>6, <2>2 DEF Forever
  <2>9. Began(m)'
    BY <2>5, <2>6, <2>7, <2>8 DEF Began
  <2>10. QED
    BY <2>1, <2>2, <2>9
<1>8. CASE LineEnds(line, how)
  <2>1. /\ job.stage = "line"
        /\ job' = [job EXCEPT !.acc = Record(@, line), !.fuel = Spend(@), !.got = <<>>,
                              !.stage = "test"]
        /\ result' = result
    BY <1>8 DEF LineEnds, LineRead
  <2>2. /\ DOMAIN job' = DOMAIN Idle /\ job'.call = "page" /\ job'.stage = "test"
        /\ job'.got = <<>> /\ job'.ask = job.ask /\ job'.offset = job.offset
        /\ job'.fuel = Spend(job.fuel) /\ job'.acc = Record(job.acc, line)
    BY <2>1, IdleFields
  <2>3. o <= m - 1 /\ job.fuel \in Nat \ {0}
    BY <1>5, <2>1
  <2>4. job'.offset = IF m <= o THEN o - m ELSE 0
    BY <1>5, <2>1, <2>2, <2>3
  <2>5. /\ job'.fuel = IF f = Forever \/ m <= o THEN f ELSE f - (m - o)
        /\ job'.fuel \in Nat
    <3>1. CASE f = Forever
      BY <1>2, <1>5, <2>2, <3>1 DEF Spend
    <3>2. CASE f # Forever
      <4>1. job.fuel = f - ((m - 1) - o)
        BY <1>5, <2>3, <3>2
      <4>2. /\ job.fuel # Forever
            /\ ~(m <= o) /\ job.fuel - 1 = f - (m - o)
        <5>1. f < Forever
          BY <1>2, <3>2
        <5>2. PICK u \in Nat : u = job.fuel /\ u = f - ((m - 1) - o)
          BY <2>3, <4>1
        <5>3. PICK g \in Nat : g = Forever /\ f < g
          BY <1>2, <5>1
        <5>4. u # g /\ ~(m <= o) /\ u - 1 = f - (m - o)
          BY <1>2, <2>3, <5>2, <5>3, LineSpent
        <5>5. QED
          BY <5>2, <5>3, <5>4
      <4>3. job'.fuel = job.fuel - 1
        BY <2>2, <4>2 DEF Spend
      <4>4. job'.fuel \in Nat
        BY <2>3, <4>3
      <4>5. QED
        BY <3>2, <4>2, <4>3, <4>4
    <3>3. QED
      BY <3>1, <3>2
  <2>6. job'.acc = SubSeq(q, o + 1, m)
    <3>1. /\ SubSeq(q, o + 1, m) = Append(SubSeq(p, o + 1, m - 1), q[m])
          /\ Len(SubSeq(p, o + 1, m - 1)) = (m - 1) - o
      BY <1>4, <2>3, OneLineLonger
    <3>2. Len(job.acc) < MaxLines
      <4>1. Len(job.acc) = (m - 1) - o
        BY <1>5, <3>1
      <4>2. m <= c + 1
        BY PiecesFew
      <4>3. QED
        BY <4>1, <4>2, LinesAssumption, StreamAssumption
    <3>3. job'.acc = Append(job.acc, line)
      BY <2>2, <3>2 DEF Record
    <3>4. QED
      BY <1>4, <1>5, <3>1, <3>3
  <2>7. job'.ask[1] = o /\ job'.ask[2] = f /\ Pieces'[Taken'] = q /\ Forever' = Forever
    BY <1>1, <1>3, <1>6, <2>2 DEF Forever
  <2>8. Began(m)'
    BY <2>4, <2>5, <2>6, <2>7 DEF Began
  <2>9. QED
    BY <2>1, <2>2, <2>5, <2>8
<1>9. ~CharsEnd(line, how)
  BY DEF CharsEnd
<1>10. QED
  BY <1>7, <1>8, <1>9 DEF Ends

-----------------------------------------------------------------------------
(* The steps of a page on a stream that works. *)

OnPath == kind = "path" /\ ~interrupted /\ ~sick

LEMMA PathFacts ==
  ASSUME FileInv, KindInv, PathInv, OnPath
  PROVE  /\ MaxBytes \in Nat /\ written \in 0 .. MaxBytes /\ Taken \in 0 .. MaxBytes
         /\ Taken <= written /\ PageInv /\ PageResultInv
         /\ Taken + Len(file.buf) + Len(wire) = written
         /\ Len(file.buf) \in Nat /\ Len(wire) \in Nat
         /\ file.buf = Consecutive(Taken, Len(file.buf))
         /\ log \in Bytes /\ job.got \in Bytes /\ file.buf \in Bytes
         /\ JobInv /\ job.call \in {"none", "page"}
         /\ DOMAIN job = DOMAIN Idle /\ DOMAIN file = {"buf", "eof", "error"}
<1>1. kind # "socket" /\ ~Forgetful /\ kind = "path"
  BY DEF OnPath, Forgetful
<1>2. /\ Taken \in Nat /\ Len(file.buf) \in Nat /\ Len(wire) \in Nat
      /\ Taken + Len(file.buf) + Len(wire) = written
      /\ file.buf = Consecutive(Taken, Len(file.buf))
  BY <1>1, BufferFacts
<1>3. written \in 0 .. MaxBytes /\ PageInv /\ PageResultInv
  BY DEF PathInv, OnPath
<1>4. /\ log \in Bytes /\ job.got \in Bytes /\ file.buf \in Bytes /\ JobInv
      /\ DOMAIN file = {"buf", "eof", "error"}
  BY <1>1 DEF FileInv, StreamTypes
<1>5. job.call \in {"none", "page"} /\ DOMAIN job = DOMAIN Idle
  BY <1>1 DEF KindInv, CallsOf
<1>6. Taken \in 0 .. MaxBytes /\ Taken <= written
  BY <1>2, <1>3, StreamAssumption
<1>7. QED
  BY <1>2, <1>3, <1>4, <1>5, <1>6, StreamAssumption

LEMMA NoPageYet ==
  ASSUME result' = result, result.call # "page"
  PROVE  PageResultInv'
BY DEF PageResultInv, PagesAreLines, Returned

LEMMA PathCall ==
  ASSUME FileInv, KindInv, PathInv, OnPath, Calls
  PROVE  PathInv'
<1>1. PICK o \in 0 .. 2, f \in {1, 2, Forever} : readFilePage(o, f)
  BY DEF Calls, fGetLine, fSeekLine, fGetChar, fGetChars, recv, recvAll, OfFile, OfSocket,
         OnPath
<1>2. o \in Nat /\ f \in 1 .. Forever /\ Forever \in Nat
  BY StreamAssumption DEF Forever
<1> DEFINE j == [Idle EXCEPT !.call = "page", !.stage = "test",
                             !.offset = o, !.fuel = f, !.ask = <<o, f>>]
<1>3. Call(j) /\ calls = 0
  BY <1>1 DEF readFilePage
<1>4. /\ job' = [j EXCEPT !.from = written - Len(wire), !.rest = Len(wire), !.whole = ~open]
      /\ calls' = calls + 1
      /\ UNCHANGED <<config, wire, written, open, file, result, log, interrupted>>
  BY <1>3 DEF Call
<1>5. /\ job'.call = "page" /\ job'.stage = "test" /\ job'.got = <<>> /\ job'.acc = <<>>
      /\ job'.offset = o /\ job'.fuel = f /\ job'.ask = <<o, f>>
  BY <1>4 DEF Idle
<1> HIDE DEF j
<1>6. log = <<>> /\ result.call = "none" /\ ~file.eof /\ written \in 0 .. MaxBytes
  BY <1>3 DEF PathInv, OnPath
<1>7. Taken' = 0
  <2>1. log' = <<>> /\ Len(<<>>) = 0
    BY <1>4, <1>6
  <2>2. QED
    BY <1>5, <2>1 DEF Taken
<1>8. Pieces' = Pieces /\ Forever' = Forever
  BY <1>4, PiecesStay DEF config, Forever
<1>9. Pieces[0] = << <<>> >> /\ Len(Pieces[0]) = 1
  <2>1. Pieces[0] = << <<>> >> /\ Len(<< <<>> >>) = 1
    BY PiecesSteps
  <2>2. QED
    BY <2>1
<1>10. SubSeq(Pieces[0], o + 1, 0) = <<>>
  BY <1>2, SubSeqEmpty
<1>11. job'.ask[1] = o /\ job'.ask[2] = f
  BY <1>5
<1>12. Began(0)'
  BY <1>2, <1>5, <1>7, <1>8, <1>10, <1>11 DEF Began
<1>13. PageInv'
  <2>1. Began(Len(Pieces[Taken]) - 1)'
    <3>1. Len(Pieces'[Taken']) - 1 = 0
      BY <1>7, <1>8, <1>9
    <3>2. QED
      BY <1>12, <3>1 DEF Began
  <2>2. LastPiece(Taken)' = job'.got
    BY <1>5, <1>7, <1>8, <1>9 DEF LastPiece
  <2>3. Asked(job.ask)'
    BY <1>2, <1>8, <1>11 DEF Asked
  <2>4. ~file'.eof /\ result'.call = "none" /\ calls' = 1
    BY <1>3, <1>4, <1>6
  <2>5. job'.fuel \in Nat
    BY <1>2, <1>5
  <2>6. QED
    BY <1>5, <2>1, <2>2, <2>3, <2>4, <2>5 DEF PageInv
<1>14. PageResultInv'
  BY <1>4, <1>6, NoPageYet
<1>15. QED
  BY <1>3, <1>4, <1>6, <1>13, <1>14 DEF PathInv

(* It is over: the fuel is spent or the end of the file was met. *)
LEMMA PageReturns ==
  ASSUME FileInv, KindInv, PathInv, OnPath, PageTest, job.fuel = 0 \/ fEOF(file)
  PROVE  PathInv'
<1>1. /\ PageInv /\ MaxBytes \in Nat /\ written \in 0 .. MaxBytes /\ Taken \in 0 .. MaxBytes
      /\ Taken <= written /\ DOMAIN job = DOMAIN Idle /\ job.call = "page"
  BY PathFacts DEF PageTest, JobInv
<1>2. /\ Asked(job.ask) /\ calls = 1 /\ job.fuel \in Nat
      /\ file.eof => Taken = written /\ ~open /\ Began(Len(Pieces[Taken]))
      /\ ~file.eof => Began(Len(Pieces[Taken]) - 1)
  BY <1>1 DEF PageInv
<1>3. /\ Return(job.acc, TRUE, job.fuel > 0)
      /\ UNCHANGED <<config, wire, written, open, file, log, calls, interrupted>>
  BY DEF PageTest
<1>4. /\ job' = Idle /\ result'.call = "page" /\ result'.stage = "right"
      /\ result'.acc = job.acc /\ result'.atEnd = (job.fuel > 0) /\ result'.ask = job.ask
  BY <1>1, <1>3, IdleFields DEF Return
<1>5. PICK o \in Nat, f \in 1 .. Forever : o = job.ask[1] /\ f = job.ask[2]
  BY <1>2 DEF Asked
<1>6. Forever = MaxBytes + 9 /\ f \in Nat \ {0} /\ Forever' = Forever
  BY <1>1 DEF Forever
<1>7. Pieces' = Pieces
  BY <1>3, PiecesStay DEF config
<1>8. PICK c \in 0 .. MaxBytes, w \in 0 .. MaxBytes : c = Taken /\ w = written /\ c <= w
  BY <1>1
<1>9. PICK p \in Seq(Bytes), q \in Seq(Bytes) : p = Pieces[c] /\ q = Pieces[w]
  BY PiecesTypes
<1>10. PICK m \in Nat \ {0}, most \in Nat \ {0} : m = Len(p) /\ most = Len(q)
  BY <1>9, PiecesTypes
<1>11. most <= MaxBytes + 1
  BY <1>1, <1>9, <1>10, PiecesFew
<1> DEFINE fuel(d) == IF f = Forever \/ d <= o THEN f ELSE f - (d - o)
<1>12. \A d : Began(d) => job.fuel = fuel(d) /\ job.acc = SubSeq(p, o + 1, d)
  BY <1>5, <1>8, <1>9 DEF Began
<1> DEFINE Right == /\ job.acc = SubSeq(q, o + 1, Min({o + f, most}))
                    /\ (job.fuel > 0) <=> (f > most - o)
                    /\ ~open \/ o + f < most
<1>13. ASSUME file.eof PROVE Right
  <2>1. p = q /\ m = most /\ ~open
    BY <1>2, <1>8, <1>9, <1>10, <1>13
  <2>2. job.fuel = fuel(most) /\ job.acc = SubSeq(q, o + 1, most)
    BY <1>2, <1>8, <1>9, <1>10, <1>12, <1>13, <2>1
  <2>3. most <= o + f /\ (job.fuel > 0 <=> f > most - o)
    BY <1>1, <1>2, <1>6, <1>11, <2>2
  <2>4. Min({o + f, most}) = most
    BY <2>3, MinOfTwo
  <2>5. QED
    BY <2>1, <2>2, <2>3, <2>4
<1>14. ASSUME ~file.eof PROVE Right
  <2>1. job.fuel = fuel(m - 1) /\ job.acc = SubSeq(p, o + 1, m - 1) /\ job.fuel = 0
    BY <1>2, <1>8, <1>9, <1>10, <1>12, <1>14 DEF fEOF
  <2>2. o + f = m - 1
    <3>1. f > 0 /\ fuel(m - 1) = 0
      BY <1>6, <2>1
    <3>2. ~(f = Forever \/ m - 1 <= o)
      BY <3>1
    <3>3. f - ((m - 1) - o) = 0
      BY <3>1, <3>2
    <3>4. QED
      BY <1>6, <3>3
  <2>3. m <= most /\ SameUpTo(p, q, m - 1)
    BY <1>8, <1>9, <1>10, PiecesGrow
  <2>4. SubSeq(p, o + 1, m - 1) = SubSeq(q, o + 1, m - 1)
    <3>1. PICK a \in Nat \ {0}, b \in Nat : a = o + 1 /\ b = m - 1
      OBVIOUS
    <3>2. b <= Len(p) /\ b <= Len(q) /\ SameUpTo(p, q, b)
      BY <1>10, <2>3, <3>1
    <3>3. SubSeq(p, a, b) = SubSeq(q, a, b)
      BY <3>2, SameParts
    <3>4. QED
      BY <3>1, <3>3
  <2>5. o + f < most /\ (job.fuel > 0 <=> f > most - o)
    BY <2>1, <2>2, <2>3
  <2>6. Min({o + f, most}) = m - 1
    BY <2>2, <2>5, MinOfTwo
  <2>7. QED
    BY <2>1, <2>4, <2>5, <2>6
<1>15. Right
  BY <1>13, <1>14
<1>16. Asked(result.ask)'
  BY <1>2, <1>4, <1>6 DEF Asked
<1>17. PagesAreLines' /\ (~open' \/ result'.ask[1] + result'.ask[2] < Len(Pieces'[written']))
  <2>1. result'.ask[1] = o /\ result'.ask[2] = f /\ Pieces'[written'] = q
    BY <1>3, <1>4, <1>5, <1>7, <1>8, <1>9
  <2>2. open' = open
    BY <1>3
  <2>3. result'.atEnd = (f > most - o)
    <3>1. (job.fuel > 0) <=> (f > most - o)
      BY <1>15
    <3>2. result'.atEnd = (job.fuel > 0)
      BY <1>4
    <3>3. \A a, b \in BOOLEAN : (a <=> b) => a = b
      OBVIOUS
    <3>4. (job.fuel > 0) \in BOOLEAN /\ (f > most - o) \in BOOLEAN
      OBVIOUS
    <3>5. (job.fuel > 0) = (f > most - o)
      BY <3>1, <3>3, <3>4, Zenon
    <3>6. QED
      BY <3>2, <3>5, Zenon
  <2>4. result'.acc = SubSeq(q, o + 1, Min({o + f, most}))
    BY <1>4, <1>15
  <2>5. PagesAreLines'
    BY <1>4, <1>10, <2>1, <2>3, <2>4 DEF PagesAreLines, Returned
  <2>6. QED
    BY <1>10, <1>15, <2>1, <2>2, <2>5
<1>18. PageResultInv'
  BY <1>2, <1>3, <1>4, <1>16, <1>17, IdleFields DEF PageResultInv
<1>19. PageInv'
  BY <1>4, IdleFields DEF PageInv
<1>20. QED
  BY <1>1, <1>2, <1>3, <1>18, <1>19 DEF PathInv

(* A step of the page that hands nothing out and stays in its line. *)
LEMMA PageGoesOn ==
  ASSUME FileInv, KindInv, PathInv, OnPath, UNCHANGED <<config, written, open, result, calls>>,
         job.call = "page", job'.call = "page", job'.ask = job.ask, job'.offset = job.offset,
         job'.fuel = job.fuel, job'.acc = job.acc, ~file.eof, ~file'.eof,
         NEW c \in 0 .. MaxBytes, NEW d \in c .. MaxBytes, c = Taken, d = Taken',
         Len(Pieces[d]) = Len(Pieces[c]), LastPiece(d) = job'.got,
         job'.stage \in {"test", "seek", "line"},
         job'.stage = "seek" => job.offset > 0,
         job'.stage = "line" => job.offset = 0 /\ job.fuel > 0
  PROVE  PathInv'
<1>1. PageInv /\ MaxBytes \in Nat /\ written \in 0 .. MaxBytes
  BY PathFacts
<1>2. Asked(job.ask) /\ result.call = "none" /\ calls = 1 /\ job.fuel \in Nat
      /\ Began(Len(Pieces[c]) - 1)
  BY <1>1 DEF PageInv
<1>3. Pieces' = Pieces /\ Forever' = Forever
  BY PiecesStay DEF config, Forever
<1>4. PICK o \in Nat, m \in Nat \ {0} : o = job.ask[1] /\ m = Len(Pieces[c])
  BY <1>2, PiecesTypes DEF Asked
<1>5. SubSeq(Pieces[c], o + 1, m - 1) = SubSeq(Pieces[d], o + 1, m - 1)
  <2>1. PICK p \in Seq(Bytes), q \in Seq(Bytes) : p = Pieces[c] /\ q = Pieces[d]
    <3>1. d \in 0 .. MaxBytes
      BY <1>1
    <3>2. QED
      BY <3>1, PiecesTypes
  <2>2. SameUpTo(p, q, m - 1)
    BY <1>4, <2>1, PiecesGrow
  <2>3. PICK a \in Nat \ {0}, b \in Nat : a = o + 1 /\ b = m - 1
    OBVIOUS
  <2>4. b <= Len(p) /\ b <= Len(q)
    BY <1>4, <2>1, <2>3
  <2>5. SubSeq(p, a, b) = SubSeq(q, a, b)
    BY <2>2, <2>3, <2>4, SameParts
  <2>6. QED
    BY <2>1, <2>3, <2>5
<1>6. Began(m - 1)'
  <2>1. /\ job.offset = IF m - 1 <= job.ask[1] THEN job.ask[1] - (m - 1) ELSE 0
        /\ job.fuel = IF job.ask[2] = Forever \/ m - 1 <= job.ask[1] THEN job.ask[2]
                      ELSE job.ask[2] - ((m - 1) - job.ask[1])
        /\ job.acc = SubSeq(Pieces[c], o + 1, m - 1)
    BY <1>2, <1>4 DEF Began
  <2>2. job'.acc = SubSeq(Pieces'[Taken'], job'.ask[1] + 1, m - 1)
    BY <1>3, <1>4, <1>5, <2>1
  <2>3. QED
    BY <1>3, <2>1, <2>2 DEF Began
<1>7. Began(Len(Pieces[Taken]) - 1)' /\ LastPiece(Taken)' = job'.got
  <2>1. Len(Pieces'[Taken']) = m
    BY <1>3, <1>4
  <2>2. Began(Len(Pieces[Taken]) - 1)'
    BY <1>6, <2>1 DEF Began
  <2>3. QED
    BY <1>3, <2>2 DEF LastPiece
<1>8. PageInv'
  BY <1>2, <1>3, <1>7 DEF PageInv, Asked
<1>9. PageResultInv'
  BY <1>2, NoPageYet
<1>10. QED
  BY <1>1, <1>2, <1>8, <1>9 DEF PathInv

LEMMA PathTest ==
  ASSUME FileInv, KindInv, PathInv, OnPath, PageTest
  PROVE  PathInv'
<1>1. CASE job.fuel = 0 \/ fEOF(file)
  BY <1>1, PageReturns
<1>2. CASE ~(job.fuel = 0 \/ fEOF(file))
  <2>1. /\ PageInv /\ MaxBytes \in Nat /\ Taken \in 0 .. MaxBytes /\ DOMAIN job = DOMAIN Idle
        /\ job.call = "page" /\ job.got = <<>>
    BY PathFacts DEF PageTest, JobInv
  <2>2. job' = [job EXCEPT !.stage = IF job.offset > 0 THEN "seek" ELSE "line"]
        /\ UNCHANGED <<config, wire, written, open, file, log, calls, interrupted, result>>
    BY <1>2 DEF PageTest
  <2>3. /\ job'.call = "page" /\ job'.ask = job.ask /\ job'.offset = job.offset
        /\ job'.fuel = job.fuel /\ job'.acc = job.acc /\ job'.got = job.got
        /\ job'.stage = IF job.offset > 0 THEN "seek" ELSE "line"
    BY <2>1, <2>2, IdleFields
  <2>4. ~file.eof /\ ~file'.eof /\ Taken' = Taken
    BY <1>2, <2>2, <2>3 DEF fEOF, Taken
  <2>5. Asked(job.ask) /\ Began(Len(Pieces[Taken]) - 1) /\ LastPiece(Taken) = job.got
        /\ job.fuel \in Nat \ {0}
    BY <1>2, <2>1, <2>4 DEF PageInv
  <2>6. job.offset \in Nat
    <3>1. PICK o \in Nat, m \in Nat \ {0} : o = job.ask[1] /\ m = Len(Pieces[Taken])
      BY <2>1, <2>5, PiecesTypes DEF Asked
    <3>2. QED
      BY <2>5, <3>1 DEF Began
  <2>7. PICK c \in 0 .. MaxBytes : c = Taken /\ c \in c .. MaxBytes
    BY <2>1
  <2>8. LastPiece(c) = job'.got /\ c = Taken'
    BY <2>3, <2>4, <2>5, <2>7
  <2>9. /\ job'.stage \in {"test", "seek", "line"}
        /\ job'.stage = "seek" => job.offset > 0
        /\ job'.stage = "line" => job.offset = 0 /\ job.fuel > 0
    BY <2>3, <2>5, <2>6
  <2>10. QED
    BY <2>1, <2>2, <2>3, <2>4, <2>7, <2>8, <2>9, PageGoesOn
<1>3. QED
  BY <1>1, <1>2

(* In the middle of a line or at its end. *)
LEMMA PathGetBytes ==
  ASSUME FileInv, KindInv, PathInv, OnPath, GetBytes
  PROVE  PathInv'
<1> DEFINE k == Wanted(file.buf)
           taken == SubSeq(file.buf, 1, k)
           got == job.got \o taken
           left == SubSeq(file.buf, k + 1, Len(file.buf))
<1>1. /\ PageInv /\ MaxBytes \in Nat /\ written \in 0 .. MaxBytes /\ Taken \in 0 .. MaxBytes
      /\ Len(file.buf) \in Nat /\ Taken + Len(file.buf) <= written
      /\ DOMAIN job = DOMAIN Idle /\ DOMAIN file = {"buf", "eof", "error"}
      /\ log \in Bytes /\ job.got \in Bytes
      /\ file.buf = Consecutive(Taken, Len(file.buf))
  BY PathFacts
<1>2. job.call = "page" /\ job.stage \in {"seek", "line"} /\ file.buf # <<>>
  BY PathFacts DEF GetBytes, Reading, JobInv, PageInv
<1>3. /\ file' = [file EXCEPT !.buf = left]
      /\ UNCHANGED <<config, wire, written, open, calls, interrupted>>
      /\ Complete(got) => Ends(got, "found")
      /\ ~Complete(got) => job' = [job EXCEPT !.got = got] /\ UNCHANGED <<result, log>>
  BY DEF GetBytes
<1>4. PICK c \in 0 .. MaxBytes, size \in Nat \ {0} :
        /\ c = Taken /\ size = Len(file.buf) /\ c + size <= written
        /\ file.buf = Consecutive(c, size)
  <2>1. Len(file.buf) # 0
    BY <1>1, <1>2, ConsecutiveFacts
  <2>2. QED
    BY <1>1, <2>1
<1>5. file.buf \in Seq(Nat) /\ DOMAIN file.buf = 1 .. size /\ \A i \in 1 .. size : file.buf[i] = c + i
  BY <1>4 DEF Consecutive
<1>6. /\ k \in 1 .. size /\ \A i \in c + 1 .. c + (k - 1) : i \notin newlines
      /\ k # size => c + k \in newlines
  <2> DEFINE ends == {i \in DOMAIN file.buf : file.buf[i] \in newlines}
  <2>1. ends = {i \in 1 .. size : c + i \in newlines}
    BY <1>5
  <2>2. k = IF ends # {} THEN Min(ends) ELSE size
    BY <1>2, <1>4 DEF Wanted
  <2> HIDE DEF ends, k
  <2>3. CASE ends = {}
    <3>1. k = size
      BY <2>2, <2>3
    <3>2. ASSUME NEW i \in c + 1 .. c + (k - 1) PROVE i \notin newlines
      <4>1. PICK j \in 1 .. size : c + j = i
        <5>1. i - c \in 1 .. size /\ c + (i - c) = i
          BY <3>1
        <5>2. QED
          BY <5>1
      <4>2. j \notin ends
        BY <2>3
      <4>3. QED
        BY <2>1, <4>1, <4>2
    <3>3. k \in 1 .. size
      BY <3>1
    <3>4. QED
      BY <3>1, <3>2, <3>3
  <2>4. CASE ends # {}
    <3>1. ends \subseteq 1 .. size
      BY <2>1
    <3>2. PICK x \in ends : \A y \in ends : x <= y
      BY <2>4, <3>1, LeastNumber
    <3>3. Min(ends) \in ends /\ \A y \in ends : Min(ends) <= y
      BY <3>2 DEF Min
    <3>4. k \in 1 .. size /\ c + k \in newlines
      BY <2>1, <2>2, <2>4, <3>3
    <3>5. ASSUME NEW i \in c + 1 .. c + (k - 1) PROVE i \notin newlines
      <4>1. PICK j \in 1 .. size : c + j = i /\ j < k
        <5>1. i - c \in 1 .. size /\ c + (i - c) = i /\ i - c < k
          BY <3>4
        <5>2. QED
          BY <5>1
      <4>2. j \notin ends
        BY <2>2, <2>4, <3>3, <3>4, <4>1
      <4>3. QED
        BY <2>1, <4>1, <4>2
    <3>6. QED
      BY <3>4, <3>5
  <2>5. QED
    BY <2>3, <2>4
<1>7. taken = Consecutive(c, k)
  <2> HIDE DEF k
  <2>1. k \in 0 .. size
    BY <1>6
  <2>2. PICK k1 \in 0 .. size : k1 = k
    BY <2>1
  <2>3. SubSeq(Consecutive(c, size), 1, k1) = Consecutive(c, k1)
    <3>1. c \in Nat /\ size \in Nat
      BY <1>1
    <3>2. QED
      BY <3>1, ConsecutiveParts
  <2>4. SubSeq(file.buf, 1, k1) = Consecutive(c, k1)
    BY <1>4, <2>3
  <2>5. QED
    BY <2>2, <2>4
<1>8. PICK d \in 1 .. MaxBytes : d = c + k /\ d \in c .. MaxBytes
  <2> HIDE DEF k
  <2> QED  BY <1>1, <1>4, <1>6
<1>9. got = Cat(job.got, Consecutive(c, k)) /\ got \in Bytes /\ Len(got) = Len(job.got) + k
  <2> HIDE DEF k, taken
  <2>1. k \in Nat
    BY <1>6
  <2>2. Consecutive(c, k) \in Bytes /\ Len(Consecutive(c, k)) = k
    BY <2>1, ConsecutiveFacts
  <2>3. PICK x \in Bytes : x = Consecutive(c, k) /\ Len(x) = k
    BY <2>2
  <2>4. Cat(job.got, x) \in Bytes /\ Len(Cat(job.got, x)) = Len(job.got) + Len(x)
    BY <1>1, CatElements
  <2>5. QED
    BY <1>7, <2>3, <2>4 DEF Cat
<1>10. Complete(got) <=> d \in newlines
  <2> HIDE DEF k, taken
  <2>1. Complete(got) <=> got[Len(got)] \in newlines
    <3> HIDE DEF got
    <3> QED  BY <1>2 DEF Complete, Last
  <2>2. k \in 1 .. k /\ k \in Nat
    BY <1>6
  <2>3. PICK x \in Bytes : x = Consecutive(c, k) /\ Len(x) = k
    BY <2>2, ConsecutiveFacts
  <2>4. x[k] = d
    BY <1>8, <2>2, <2>3 DEF Consecutive
  <2>5. Cat(job.got, x)[Len(job.got) + k] = x[k]
    <3>1. \A i \in 1 .. Len(x) : Cat(job.got, x)[Len(job.got) + i] = x[i]
      BY <1>1, CatElements
    <3>2. QED
      BY <2>2, <2>3, <3>1
  <2>6. got[Len(got)] = d
    BY <1>9, <2>3, <2>4, <2>5
  <2>7. QED
    BY <2>1, <2>6
<1>11. PICK m \in Nat \ {0} : m = Len(Pieces[c])
  BY PiecesTypes
<1>12. ~file.eof /\ Began(m - 1) /\ Pieces[c][m] = job.got
  BY <1>1, <1>2, <1>4, <1>11 DEF PageInv, LastPiece
<1> HIDE DEF k
<1>13. file'.eof = file.eof
  BY <1>1, <1>3
<1>14. CASE ~Complete(got)
  <2>1. \A i \in c + 1 .. c + k : i \notin newlines
    BY <1>6, <1>8, <1>10, <1>14
  <2>2. k \in 0 .. MaxBytes - c
    BY <1>1, <1>6, <1>8
  <2>3. Len(Pieces[d]) = m /\ Pieces[d][m] = got
    BY <1>8, <1>9, <1>11, <1>12, <2>1, <2>2, PiecesLengthen
  <2> HIDE DEF got
  <2>4. job' = [job EXCEPT !.got = got] /\ UNCHANGED <<result, log>>
    BY <1>3, <1>14
  <2>5. /\ job'.call = "page" /\ job'.ask = job.ask /\ job'.offset = job.offset
        /\ job'.fuel = job.fuel /\ job'.acc = job.acc /\ job'.stage = job.stage
        /\ job'.got = got
    BY <1>1, <1>2, <2>4, IdleFields
  <2>6. Taken' = d
    <3>1. Len(log) \in Nat /\ Len(job.got) \in Nat /\ k \in Nat
      BY <1>1, <1>6, LenProperties DEF Bytes
    <3>2. QED
      BY <1>4, <1>8, <1>9, <2>4, <2>5, <3>1 DEF Taken
  <2>7. LastPiece(d) = job'.got
    BY <2>3, <2>5 DEF LastPiece
  <2>8. /\ job'.stage \in {"test", "seek", "line"}
        /\ job'.stage = "seek" => job.offset > 0
        /\ job'.stage = "line" => job.offset = 0 /\ job.fuel > 0
    BY <1>1, <1>2, <2>5 DEF PageInv
  <2>9. QED
    BY <1>2, <1>3, <1>4, <1>8, <1>11, <1>12, <1>13, <2>3, <2>4, <2>5, <2>6, <2>7, <2>8,
       PageGoesOn
<1>15. CASE Complete(got)
  <2>1. PICK e \in 0 .. MaxBytes : e = d - 1 /\ e \in c .. MaxBytes /\ e = c + (k - 1)
    BY <1>1, <1>6, <1>8
  <2>2. k - 1 \in 0 .. MaxBytes - c
    BY <1>1, <1>6, <1>8
  <2>3. PICK x \in Bytes : x = Cat(job.got, Consecutive(c, k - 1))
    <3>1. Consecutive(c, k - 1) \in Bytes
      BY <1>6, ConsecutiveFacts
    <3>2. QED
      BY <1>1, <3>1, CatElements
  <2>4. Len(Pieces[e]) = m /\ Pieces[e][m] = x
    <3>1. /\ Len(Pieces[c + (k - 1)]) = Len(Pieces[c])
          /\ Pieces[c + (k - 1)][Len(Pieces[c])]
               = Cat(Pieces[c][Len(Pieces[c])], Consecutive(c, k - 1))
      BY <1>6, <2>2, PiecesLengthen
    <3>2. QED
      BY <1>11, <1>12, <2>1, <2>3, <3>1
  <2>5. /\ Len(Pieces[d]) = m + 1 /\ Pieces[d][m] = Append(x, d)
        /\ Pieces[d][m + 1] = <<>>
    BY <1>10, <1>15, <2>1, <2>4, PiecesByte
  <2>6. Append(x, d) = got
    <3>1. k - 1 \in Nat /\ d \in Nat
      BY <1>6, <1>8
    <3>2. PICK y \in Bytes : y = Consecutive(c, k - 1)
      BY <3>1, ConsecutiveFacts
    <3>3. PICK z \in Bytes : z = Consecutive(c + (k - 1), 1) /\ z = <<d>>
      <4>1. Consecutive(e, 1) \in Bytes
        BY <2>1, ConsecutiveFacts
      <4>2. Consecutive(e, 1) = <<d>>
        <5>1. [i \in 1 .. 1 |-> e + i] = <<e + 1>>
          OBVIOUS
        <5>2. e + 1 = d
          BY <2>1, <1>8
        <5>3. QED
          BY <5>1, <5>2 DEF Consecutive
      <4>3. QED
        BY <2>1, <4>1, <4>2
    <3>4. Cat(y, z) = Consecutive(c, k)
      <4>1. PICK k1 \in Nat : k1 = k - 1 /\ k1 + 1 = k
        BY <3>1, <1>6
      <4>2. Cat(Consecutive(c, k1), Consecutive(c + k1, 1)) = Consecutive(c, k1 + 1)
        BY ConsecutiveJoin
      <4>3. QED
        BY <3>2, <3>3, <4>1, <4>2
    <3>5. Cat(Cat(job.got, y), z) = Cat(job.got, Cat(y, z))
      <4>1. PICK g \in Bytes : g = job.got
        BY <1>1
      <4>2. Cat(Cat(g, y), z) = Cat(g, Cat(y, z))
        BY Associates
      <4>3. QED
        BY <4>1, <4>2
    <3>6. Append(x, d) = Cat(x, <<d>>)
      BY <3>1, AppendIsConcat DEF Bytes, Cat
    <3>7. QED
      BY <1>9, <2>3, <3>2, <3>3, <3>4, <3>5, <3>6
  <2>7. Ends(got, "found")
    BY <1>3, <1>15
  <2>8. kind # "socket" /\ JobInv /\ StreamTypes /\ kind' = kind
    BY <1>3, PathFacts DEF OnPath, FileInv, config
  <2>9. DOMAIN job' = DOMAIN Idle /\ job'.got = <<>> /\ log' = log \o got
    <3>1. job.stage \in {"line", "seek", "chars"} /\ job.call # "char" /\ got \in Bytes
      BY <1>2, <1>9
    <3>2. PICK how : how = "found" /\ how # "error"
      OBVIOUS
    <3> HIDE DEF got
    <3>3. Ends(got, how)
      BY <2>7, <3>2
    <3>4. QED
      BY <2>8, <3>1, <3>2, <3>3, EndKeeps
  <2> HIDE DEF got
  <2>10. Taken' = d
    <3>1. Len(log) \in Nat /\ Len(job.got) \in Nat /\ k \in Nat /\ Len(<<>>) = 0
      BY <1>1, <1>6, LenProperties DEF Bytes
    <3>2. Len(log \o got) = Len(log) + Len(got)
      BY <1>1, <1>9, ConcatProperties DEF Bytes
    <3>3. Len(log') = Len(log) + Len(got) /\ Len(job'.got) = 0
      BY <2>9, <3>1, <3>2
    <3>4. c = Len(log) + Len(job.got) /\ Len(got) = Len(job.got) + k
      BY <1>4, <1>9 DEF Taken
    <3>5. Len(log') + Len(job'.got) = c + k
      BY <3>1, <3>3, <3>4
    <3>6. QED
      BY <1>8, <3>5 DEF Taken
  <2>11. m <= Len(Pieces[d]) /\ Pieces[d][m] = got /\ SameUpTo(Pieces[c], Pieces[d], m - 1)
    BY <1>8, <1>11, <2>5, <2>6, PiecesGrow
  <2>12. /\ job'.call = "page" /\ job'.stage = "test" /\ job'.ask = job.ask
         /\ result' = result /\ job'.fuel \in Nat /\ Began(m)'
    <3>1. /\ Asked(job.ask) /\ job.fuel \in Nat
          /\ job.stage = "seek" => job.offset > 0
          /\ job.stage = "line" => job.offset = 0 /\ job.fuel > 0
      BY <1>1, <1>2 DEF PageInv
    <3>2. newlines' = newlines /\ d \in 0 .. MaxBytes
      BY <1>3, <1>8 DEF config
    <3>3. PICK how : how = "found" /\ how # "error"
      OBVIOUS
    <3>4. Ends(got, how)
      BY <2>7, <3>3
    <3>5. QED
      BY <1>1, <1>2, <1>4, <1>11, <1>12, <2>10, <2>11, <3>1, <3>2, <3>3, <3>4, PageLine
  <2>13. Pieces' = Pieces /\ Forever' = Forever
    BY <1>3, PiecesStay DEF config, Forever
  <2>14. Began(Len(Pieces[Taken]) - 1)' /\ LastPiece(Taken)' = job'.got
    <3>1. Len(Pieces'[Taken']) - 1 = m
      BY <2>5, <2>10, <2>13
    <3>2. Began(Len(Pieces[Taken]) - 1)'
      BY <2>12, <3>1 DEF Began
    <3>3. QED
      BY <2>5, <2>9, <2>10, <2>13, <3>2 DEF LastPiece
  <2>15. PageInv'
    BY <1>1, <1>2, <1>3, <1>12, <1>13, <2>12, <2>13, <2>14 DEF PageInv, Asked
  <2>16. result.call = "none" /\ calls = 1
    BY <1>1, <1>2 DEF PageInv
  <2>17. PageResultInv'
    BY <2>12, <2>16, NoPageYet
  <2>18. QED
    BY <1>1, <1>3, <2>15, <2>16, <2>17 DEF PathInv
<1>16. QED
  BY <1>14, <1>15

LEMMA PathFill ==
  ASSUME FileInv, KindInv, PathInv, OnPath, Fill
  PROVE  PathInv'
<1>1. /\ PageInv /\ Taken \in 0 .. MaxBytes /\ MaxBytes \in Nat
      /\ JobInv /\ job.call \in {"none", "page"}
      /\ DOMAIN file = {"buf", "eof", "error"}
  BY PathFacts
<1>r. job.call = "page" /\ job.stage \in {"seek", "line"}
  BY <1>1 DEF Fill, Reading, JobInv, PageInv
<1>2. /\ file' = [file EXCEPT !.buf = wire]
      /\ UNCHANGED <<config, written, open, job, result, log, calls, interrupted>>
  BY DEF Fill
<1>3. ~file.eof /\ file'.eof = file.eof
  BY <1>1, <1>r, <1>2 DEF PageInv
<1>4. PICK c \in 0 .. MaxBytes : c = Taken /\ c \in c .. MaxBytes
  BY <1>1
<1>5. Taken' = c
  BY <1>2, <1>4 DEF Taken
<1>6. /\ LastPiece(c) = job.got
      /\ job.stage = "seek" => job.offset > 0
      /\ job.stage = "line" => job.offset = 0 /\ job.fuel > 0
  BY <1>1, <1>r, <1>3, <1>4 DEF PageInv
<1>7. /\ job'.call = "page" /\ job'.ask = job.ask /\ job'.offset = job.offset
      /\ job'.fuel = job.fuel /\ job'.acc = job.acc
      /\ job'.stage \in {"test", "seek", "line"} /\ LastPiece(c) = job'.got
      /\ job'.stage = "seek" => job.offset > 0
      /\ job'.stage = "line" => job.offset = 0 /\ job.fuel > 0
  BY <1>r, <1>2, <1>6
<1>8. QED
  BY <1>1, <1>r, <1>2, <1>3, <1>4, <1>5, <1>6, <1>7, PageGoesOn

(* The end of the file makes a line of the last piece. *)
LEMMA PathEOF ==
  ASSUME FileInv, KindInv, PathInv, OnPath, AtEOF
  PROVE  PathInv'
<1>1. /\ PageInv /\ MaxBytes \in Nat /\ written \in 0 .. MaxBytes /\ Taken \in 0 .. MaxBytes
      /\ Taken + Len(file.buf) + Len(wire) = written
      /\ DOMAIN job = DOMAIN Idle /\ DOMAIN file = {"buf", "eof", "error"}
      /\ log \in Bytes /\ job.got \in Bytes /\ JobInv /\ job.call \in {"none", "page"}
  BY PathFacts
<1>2. job.call = "page" /\ job.stage \in {"seek", "line"}
  BY <1>1 DEF AtEOF, Reading, JobInv, PageInv
<1>3. /\ file' = [file EXCEPT !.eof = TRUE] /\ Ends(job.got, "eof") /\ ~open
      /\ wire = <<>> /\ file.buf = <<>>
      /\ UNCHANGED <<config, wire, written, open, calls, interrupted>>
  BY DEF AtEOF, Exhausted
<1>4. PICK c \in 0 .. MaxBytes : c = Taken /\ c = written
  <2>1. Len(file.buf) = 0 /\ Len(wire) = 0
    BY <1>3
  <2>2. QED
    BY <1>1, <2>1
<1>5. PICK m \in Nat \ {0} : m = Len(Pieces[c])
  BY PiecesTypes
<1>6. /\ Asked(job.ask) /\ result.call = "none" /\ calls = 1 /\ job.fuel \in Nat
      /\ job.stage = "seek" => job.offset > 0
      /\ job.stage = "line" => job.offset = 0 /\ job.fuel > 0
      /\ Began(m - 1) /\ Pieces[c][m] = job.got
  BY <1>1, <1>2, <1>4, <1>5 DEF PageInv, LastPiece
<1>7. PICK how : how = "eof" /\ how # "error"
  OBVIOUS
<1>8. PICK got \in Bytes : got = job.got
  BY <1>1
<1>9. Ends(got, how)
  BY <1>3, <1>7, <1>8
<1>10. kind # "socket" /\ JobInv /\ StreamTypes /\ kind' = kind /\ newlines' = newlines
  BY <1>1, <1>3 DEF OnPath, FileInv, config
<1>11. DOMAIN job' = DOMAIN Idle /\ job'.got = <<>> /\ log' = log \o got
  <2>1. job.stage \in {"line", "seek", "chars"} /\ job.call # "char"
    BY <1>2
  <2>2. QED
    BY <1>7, <1>9, <1>10, <2>1, EndKeeps
<1>12. Taken' = c
  <2>1. Len(log) \in Nat /\ Len(got) \in Nat /\ Len(<<>>) = 0
    BY <1>1, LenProperties DEF Bytes
  <2>2. Len(log \o got) = Len(log) + Len(got)
    BY <1>1, ConcatProperties DEF Bytes
  <2>3. Len(log') = Len(log) + Len(got) /\ Len(job'.got) = 0
    BY <1>11, <2>1, <2>2
  <2>4. c = Len(log) + Len(got)
    BY <1>4, <1>8 DEF Taken
  <2>5. QED
    BY <2>1, <2>3, <2>4 DEF Taken
<1>13. SameUpTo(Pieces[c], Pieces[c], m - 1) /\ m <= Len(Pieces[c]) /\ Pieces[c][m] = got
  BY <1>5, <1>6, <1>8 DEF SameUpTo
<1>14. /\ job'.call = "page" /\ job'.stage = "test" /\ job'.ask = job.ask
       /\ result' = result /\ job'.fuel \in Nat /\ Began(m)'
  BY <1>1, <1>2, <1>4, <1>5, <1>6, <1>7, <1>9, <1>10, <1>12, <1>13, PageLine
<1>15. Pieces' = Pieces /\ Forever' = Forever
  BY <1>10, PiecesStay DEF Forever
<1>16. Began(Len(Pieces[Taken]))'
  <2>1. Len(Pieces'[Taken']) = m
    BY <1>5, <1>12, <1>15
  <2>2. QED
    BY <1>14, <2>1 DEF Began
<1>17. file'.eof /\ ~open' /\ Taken' = written'
  BY <1>1, <1>3, <1>4, <1>12
<1>18. PageInv'
  BY <1>3, <1>6, <1>14, <1>15, <1>16, <1>17 DEF PageInv, Asked
<1>19. PageResultInv'
  BY <1>6, <1>14, NoPageYet
<1>20. QED
  BY <1>1, <1>3, <1>6, <1>18, <1>19 DEF PathInv

(* The peer is done, or the stream is left alone. *)
LEMMA PathAlone ==
  ASSUME PathInv, OnPath,
         UNCHANGED <<config, written, file, job, result, log, calls, interrupted>>,
         open' = open \/ ~open'
  PROVE  PathInv'
<1>1. Pieces' = Pieces /\ Forever' = Forever /\ Taken' = Taken
  BY PiecesStay DEF config, Forever, Taken
<1>2. /\ written \in 0 .. MaxBytes /\ PageInv /\ PageResultInv
      /\ calls = 0 => log = <<>> /\ result.call = "none" /\ ~file.eof
  BY DEF PathInv, OnPath
<1>3. PageInv'
  BY <1>1, <1>2 DEF PageInv, Asked, Began, LastPiece
<1>4. PagesAreLines'
  BY <1>1, <1>2 DEF PageResultInv, PagesAreLines, Returned, config
<1>5. PageResultInv'
  BY <1>1, <1>2, <1>4 DEF PageResultInv, Asked
<1>6. QED
  BY <1>2, <1>3, <1>5 DEF PathInv

(* More bytes do not change the lines of a page that had enough. *)
LEMMA PathSend ==
  ASSUME PathInv, OnPath, NEW k \in 1 .. MaxBytes, Send(k)
  PROVE  PathInv'
<1>1. /\ open /\ written + k <= MaxBytes /\ written' = written + k
      /\ UNCHANGED <<config, open, file, job, result, log, calls, interrupted>>
  BY DEF Send
<1>2. /\ written \in 0 .. MaxBytes /\ PageInv /\ PageResultInv /\ MaxBytes \in Nat
      /\ calls = 0 => log = <<>> /\ result.call = "none" /\ ~file.eof
  BY StreamAssumption DEF PathInv, OnPath
<1>3. Pieces' = Pieces /\ Forever' = Forever /\ Taken' = Taken
  BY <1>1, PiecesStay DEF config, Forever, Taken
<1>4. PageInv'
  BY <1>1, <1>2, <1>3 DEF PageInv, Asked, Began, LastPiece
<1>5. PICK a \in 0 .. MaxBytes, b \in 0 .. MaxBytes :
        a = written /\ b = written' /\ b \in a .. MaxBytes
  BY <1>1, <1>2
<1>6. PICK p \in Seq(Bytes), q \in Seq(Bytes) : p = Pieces[a] /\ q = Pieces[b]
  BY PiecesTypes
<1>7. PICK most \in Nat, more \in Nat : most = Len(p) /\ more = Len(q)
  BY LenProperties
<1>8. most <= more /\ SameUpTo(p, q, most - 1)
  BY <1>5, <1>6, <1>7, PiecesGrow
<1>9. ASSUME result.call = "page" PROVE PageResultInv'
  <2>1. /\ calls = 1 /\ job.call = "none" /\ result.stage = "right" /\ Asked(result.ask)
        /\ result.ask[1] + result.ask[2] < most
    BY <1>1, <1>2, <1>5, <1>6, <1>7, <1>9 DEF PageResultInv
  <2>2. PICK o \in Nat, f \in Nat : o = result.ask[1] /\ f = result.ask[2] /\ o + f < most
    <3>1. Forever \in Nat
      BY <1>2 DEF Forever
    <3>2. QED
      BY <2>1, <3>1 DEF Asked
  <2>c. PICK s \in Nat : s = o + f /\ s < most /\ s < more
    <3>1. most <= more
      BY <1>8
    <3>2. o + f < most
      BY <2>2
    <3>3. QED
      BY <3>1, <3>2
  <2>3. Min({o + f, most}) = o + f /\ Min({o + f, more}) = o + f
    <3>1. Min({s, most}) = s /\ Min({s, more}) = s
      BY <2>c, MinOfTwo
    <3>2. QED
      BY <2>c, <3>1
  <2>4. result.acc = SubSeq(p, o + 1, o + f) /\ result.atEnd = (f > most - o)
    BY <1>2, <1>5, <1>6, <1>7, <1>9, <2>1, <2>2, <2>3
    DEF PageResultInv, PagesAreLines, Returned, OnPath
  <2>5. SubSeq(p, o + 1, o + f) = SubSeq(q, o + 1, o + f)
    <3>1. PICK x \in Nat \ {0} : x = o + 1
      OBVIOUS
    <3>2. s <= Len(p) /\ s <= Len(q) /\ 1 .. s \subseteq 1 .. most - 1
      BY <1>7, <2>c
    <3>3. SameUpTo(p, q, s)
      BY <1>8, <3>2 DEF SameUpTo
    <3>4. SubSeq(p, x, s) = SubSeq(q, x, s)
      BY <3>2, <3>3, SameParts
    <3>5. QED
      BY <2>c, <3>1, <3>4
  <2>6. result.atEnd = (f > more - o)
    <3>1. ~(f > most - o) /\ ~(f > more - o)
      BY <2>c
    <3>2. (f > most - o) = FALSE /\ (f > more - o) = FALSE
      BY <3>1
    <3>3. QED
      BY <2>4, <3>2
  <2>7. Pieces'[written'] = q /\ o + f < more
    BY <1>3, <1>5, <1>6, <2>c
  <2>8. PagesAreLines'
    BY <1>1, <1>7, <2>1, <2>2, <2>3, <2>4, <2>5, <2>6, <2>7, <1>9 DEF PagesAreLines, Returned
  <2>9. QED
    BY <1>1, <1>3, <1>7, <2>1, <2>2, <2>7, <2>8 DEF PageResultInv, Asked
<1>10. ASSUME result.call # "page" PROVE PageResultInv'
  BY <1>1, <1>10, NoPageYet
<1>11. PageResultInv'
  BY <1>9, <1>10
<1>12. written' \in 0 .. MaxBytes
  BY <1>1, <1>2
<1>13. QED
  BY <1>1, <1>2, <1>4, <1>11, <1>12 DEF PathInv

(* An interruption is not forgotten, and a stream that works keeps working. *)
LEMMA OnPathBefore == [Next]_vars /\ OnPath' => OnPath
<1> SUFFICES ASSUME [Next]_vars
             PROVE  kind' = kind /\ sick' = sick /\ (interrupted => interrupted')
  BY DEF OnPath
<1> DEFINE Goal == kind' = kind /\ sick' = sick /\ (interrupted => interrupted')
<1>1. ASSUME NEW j, Call(j) PROVE Goal
  BY <1>1 DEF Call, config
<1>2. Calls => Goal
  BY <1>1 DEF Calls, fGetLine, fSeekLine, fGetChar, fGetChars, recv, recvAll, readFilePage,
              OfFile, OfSocket
<1>3. ReaderStep => Goal
  <2>1. ReaderStep => UNCHANGED config
    BY DEF ReaderStep, PageTest, GetBytes, Fill, AtEOF, ReadOfSick, ReadFails, Receive,
           ReceiveClosed, ReceiveNothing
  <2>2. ReaderStep => UNCHANGED interrupted
    BY DEF ReaderStep, PageTest, GetBytes, Fill, AtEOF, ReadOfSick, Receive, ReceiveClosed
  <2>3. QED
    BY <2>1, <2>2 DEF config
<1>4. Peer => Goal
  BY DEF Peer, Send, PeerCloses, config
<1>5. ReadInterrupted \/ ReceiveInterrupted => Goal
  BY DEF ReadInterrupted, ReceiveInterrupted, ReadFails, ReceiveNothing, config
<1>6. QED
  BY <1>2, <1>3, <1>4, <1>5 DEF Next, InterruptedBy, vars, streamVars

LEMMA PathInvStep == FileInv /\ KindInv /\ PathInv /\ [Next]_vars => PathInv'
<1> SUFFICES ASSUME FileInv, KindInv, PathInv, [Next]_vars, OnPath, OnPath' PROVE PathInv'
  BY OnPathBefore DEF PathInv, OnPath
<1>1. CASE UNCHANGED streamVars
  <2>1. UNCHANGED <<config, written, file, job, result, log, calls, interrupted>> /\ open' = open
    BY <1>1 DEF streamVars, config
  <2>2. QED
    BY <2>1, PathAlone
<1>2. CASE Calls
  BY <1>2, PathCall
<1>3. CASE ReaderStep
  <2>1. JobInv /\ ~sick
    BY PathFacts DEF OnPath
  <2>2. ~Receive /\ ~ReceiveClosed /\ ~ReadOfSick
    BY <2>1 DEF JobInv, Receive, ReceiveClosed, ReceiveNothing, Receiving, ReadOfSick
  <2>3. QED
    BY <1>3, <2>2, PathTest, PathGetBytes, PathFill, PathEOF DEF ReaderStep
<1>4. CASE Peer
  <2>1. CASE PeerCloses
    <3>1. /\ UNCHANGED <<config, written, file, job, result, log, calls, interrupted>>
          /\ ~open'
      BY <2>1 DEF PeerCloses, config
    <3>2. QED
      BY <3>1, PathAlone
  <2>2. QED
    BY <1>4, <2>1, PathSend DEF Peer
<1>5. ~\E s \in SigNums : InterruptedBy(s)
  BY DEF InterruptedBy, ReadInterrupted, ReceiveInterrupted, OnPath
<1>6. QED
  BY <1>1, <1>2, <1>3, <1>4, <1>5 DEF Next, vars

(* For any bytes, however they arrive and whenever the peer closes: a page *)
(* is the lines from the one it was asked to start at, as many as its fuel *)
(* lasts, or up to the end of the file, which it then reports; readFile is *)
(* the page whose fuel does not run out.                                   *)
THEOREM PagesAreTheLines == Spec => []PagesAreLines
<1>1. KindInv /\ PathInv => PagesAreLines
  BY DEF KindInv, CallsOf, PathInv, PageResultInv, PagesAreLines, Returned
<1>2. Init => FileInv /\ KindInv /\ PathInv
  BY FileInvInit, KindInvInit, PathInvInit DEF Init
<1>3. QED
  BY <1>1, <1>2, FileInvStep, KindInvStep, PathInvStep, PTL DEF Spec
=============================================================================
