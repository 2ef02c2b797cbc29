---------------------------- MODULE SupportStream ----------------------------
(***************************************************************************)
(* Reading a byte stream (support/c/idris_file.c, getline.c, idris_net.c   *)
(* under System.File and Network.Socket) in a process that collects        *)
(* signals: a handler is installed without SA_RESTART, so a signal that    *)
(* arrives while read(2) or recv(2) waits makes it fail with EINTR.        *)
(*                                                                         *)
(* The bytes are numbered in the order in which the peer sends them; some  *)
(* of them are newlines.  One thread reads.  The kernel holds what has     *)
(* arrived (wire), stdio what it has taken from there (file.buf).          *)
(***************************************************************************)
EXTENDS SupportSignal, Sequences, SequencesExt, FiniteSetsExt

CONSTANTS
  MaxBytes, \* bound on the bytes sent
  MaxCalls, \* bound on the calls of the reader
  MaxLines, \* lines a page records; only an endless page reaches it
  FirstLen, \* 64: what recvAll asks for first
  LastLen   \* 65536: what it asks for at most

ASSUME StreamAssumption == MaxBytes \in Nat
ASSUME LinesAssumption == MaxLines \in Nat /\ MaxBytes < MaxLines
ASSUME RequestAssumption == FirstLen \in Nat \ {0} /\ LastLen \in Nat \ {0}

VARIABLES
  newlines,   \* which bytes are newlines
  kind,       \* "path", "handle", "chars" or "socket": how the reader reads;
              \* "none" when it does not
  getlineOf,  \* "libc", or "support" when getline.c is linked instead
  sick,       \* every read fails, as it does for a directory
  wire, written, open, \* the kernel's queue, bytes sent so far, peer not done
  file,       \* the FILE: buffer, end-of-file and error indicators
  job,        \* the call the reader is in
  result,     \* history: its last page or recvAll, with what it returned
  log,        \* history: the strings handed to the program or skipped for it
  calls, interrupted

streamVars == <<newlines, kind, getlineOf, sick, wire, written, open, file,
                job, result, log, calls, interrupted>>
config == <<newlines, kind, getlineOf, sick>>
vars   == <<sigVars, streamVars>>

Forever == MaxBytes + 9 \* the fuel of readFile

Idle == [call |-> "none", stage |-> "none", got |-> <<>>, acc |-> <<>>, n |-> 0,
         offset |-> 0, fuel |-> 0, ask |-> <<0, 0>>, atEnd |-> FALSE,
         from |-> 0, rest |-> 0, whole |-> FALSE]

StreamInit ==
  /\ newlines \in SUBSET (1 .. MaxBytes)
  /\ kind \in {"path", "handle", "chars", "socket", "none"}
  /\ getlineOf \in {"libc", "support"}
  /\ sick \in BOOLEAN /\ (sick => kind \in {"path", "handle", "chars"})
  /\ wire = <<>> /\ written = 0 /\ open = ~sick
  /\ file = [buf |-> <<>>, eof |-> FALSE, error |-> FALSE]
  /\ job = Idle /\ result = Idle
  /\ log = <<>> /\ calls = 0 /\ interrupted = FALSE

-----------------------------------------------------------------------------
(* The peer: the kernel accepts k bytes of what it sends (idrnet_send). *)
Send(k) ==
  /\ open /\ written + k <= MaxBytes
  /\ wire' = wire \o [i \in 1 .. k |-> written + i]
  /\ written' = written + k
  /\ UNCHANGED <<config, open, file, job, result, log, calls, interrupted>>

PeerCloses ==
  /\ open /\ open' = FALSE
  /\ UNCHANGED <<config, wire, written, file, job, result, log, calls, interrupted>>

-----------------------------------------------------------------------------
(* The calls. *)

Call(j) ==
  /\ alive /\ job.call = "none" /\ calls < MaxCalls
  /\ job' = [j EXCEPT !.from = written - Len(wire), !.rest = Len(wire), !.whole = ~open]
  /\ calls' = calls + 1
  /\ UNCHANGED <<config, wire, written, open, file, result, log, interrupted>>

OfFile(call, stage, n) ==
  kind \in {"handle", "chars"} /\ Call([Idle EXCEPT !.call = call, !.stage = stage, !.n = n])

OfSocket(call, n) ==
  kind = "socket" /\ Call([Idle EXCEPT !.call = call, !.stage = "recv", !.n = n])

fGetLine     == OfFile("line", "line", 0)
fSeekLine    == OfFile("seek", "seek", 0) /\ kind = "handle"
fGetChars(n) == OfFile("chars", "chars", n) /\ kind = "handle"
fGetChar     == OfFile("char", "chars", 1) /\ kind = "chars"
recv(n)      == OfSocket("recv", n)
recvAll      == OfSocket("recvAll", FirstLen)

(* It opens the path and closes it again: the only call on its stream.     *)
(* readFile is the page from line 0 that never runs out of fuel. *)
readFilePage(offset, fuel) ==
  /\ kind = "path" /\ calls = 0
  /\ Call([Idle EXCEPT !.call = "page", !.stage = "test",
                       !.offset = offset, !.fuel = fuel, !.ask = <<offset, fuel>>])

Return(value, ok, atEnd) ==
  /\ result' = IF job.call \in {"page", "recvAll"}
               THEN [job EXCEPT !.acc = value, !.atEnd = atEnd,
                                !.stage = IF ok THEN "right" ELSE "left"]
               ELSE result
  /\ job' = Idle

-----------------------------------------------------------------------------
(* readLinesOnto, between its calls of fSeekLine and fGetLine. *)

(* Mutant: the error indicator stands in for end of file. *)
FailedRead(f) == f.error

fEOF(f) == f.eof

PageTest ==
  /\ alive /\ job.stage = "test"
  /\ IF job.fuel = 0 \/ fEOF(file)
     THEN Return(job.acc, TRUE, job.fuel > 0)
     ELSE /\ job' = [job EXCEPT !.stage = IF job.offset > 0 THEN "seek" ELSE "line"]
          /\ UNCHANGED result
  /\ UNCHANGED <<config, wire, written, open, file, log, calls, interrupted>>

Spend(fuel) == IF fuel = Forever THEN fuel ELSE fuel - 1

Record(acc, line) == IF Len(acc) < MaxLines THEN Append(acc, line) ELSE acc

(* Mutant: what precedes a failed read is dropped. *)
DropOnError(got, how) == IF how = "error" THEN <<>> ELSE got

(* idris2_readLine.  When a read fails in the middle of a line, the getline *)
(* of libc returns what it has, the one of getline.c -1, and -1 makes an    *)
(* empty string.  Neither makes an error that fGetLine sees.                *)
LineRead(got, how) ==
  IF how = "error" /\ getlineOf = "support" THEN <<>> ELSE got

LineEnds(got, how) ==
  LET line == LineRead(got, how) IN
  /\ job.stage = "line"
  /\ log' = log \o line
  /\ IF job.call = "page"
     THEN /\ job' = [job EXCEPT !.acc = Record(@, line), !.fuel = Spend(@), !.got = <<>>,
                                !.stage = "test"]
          /\ UNCHANGED result
     ELSE Return(<<line>>, TRUE, FALSE)

(* Mutant: a line that ends with the file is an error. *)
SeekFound(how) == how = "found"

(* idris2_seekLine returns 0. *)
SeekOk(how) == how # "error"

SeekEnds(got, how) ==
  /\ job.stage = "seek"
  /\ log' = log \o got
  /\ IF job.call = "page" /\ SeekOk(how)
     THEN /\ job' = [job EXCEPT !.offset = @ - 1, !.stage = "test", !.got = <<>>]
          /\ UNCHANGED result
     ELSE Return(<<>>, SeekOk(how), FALSE)

(* idris2_readChars returns NULL when it has read nothing; fGetChar fails  *)
(* whenever the error indicator is set, which nothing ever clears.         *)
CharsEnd(got, how) ==
  LET ok == IF job.call = "char" THEN ~file'.error ELSE got # <<>> IN
  /\ job.stage = "chars"
  /\ log' = IF ok THEN log \o got ELSE log
  /\ Return(IF ok THEN <<got>> ELSE <<>>, ok, FALSE)

Ends(got, how) == LineEnds(got, how) \/ SeekEnds(got, how) \/ CharsEnd(got, how)

-----------------------------------------------------------------------------
(* fgetc, fread and getline of stdio. *)

Reading == alive /\ job.stage \in {"line", "seek", "chars"}

(* How many of the bytes at hand the call takes. *)
Wanted(buf) ==
  LET ends == {i \in DOMAIN buf : buf[i] \in newlines}
  IN  IF job.stage = "chars" THEN Min({job.n - Len(job.got), Len(buf)}) ELSE
      IF ends # {} THEN Min(ends) ELSE Len(buf)

Complete(got) ==
  IF job.stage = "chars" THEN Len(got) = job.n ELSE Last(got) \in newlines

GetBytes ==
  /\ Reading /\ file.buf # <<>>
  /\ LET k == Wanted(file.buf)
         got == job.got \o SubSeq(file.buf, 1, k)
     IN  /\ file' = [file EXCEPT !.buf = SubSeq(@, k + 1, Len(@))]
         /\ IF Complete(got) THEN Ends(got, "found")
            ELSE job' = [job EXCEPT !.got = got] /\ UNCHANGED <<result, log>>
  /\ UNCHANGED <<config, wire, written, open, calls, interrupted>>

(* read(2) returns what there is. *)
Fill ==
  /\ Reading /\ file.buf = <<>> /\ wire # <<>>
  /\ file' = [file EXCEPT !.buf = wire]
  /\ wire' = <<>>
  /\ UNCHANGED <<config, written, open, job, result, log, calls, interrupted>>

Exhausted == wire = <<>> /\ file.buf = <<>>

AtEOF ==
  /\ Reading /\ Exhausted /\ ~open /\ ~sick
  /\ file' = [file EXCEPT !.eof = TRUE]
  /\ Ends(job.got, "eof")
  /\ UNCHANGED <<config, wire, written, open, calls, interrupted>>

ReadFails ==
  /\ file' = [file EXCEPT !.error = TRUE]
  /\ Ends(job.got, "error")
  /\ UNCHANGED <<config, wire, written, open, calls>>

ReadOfSick == Reading /\ sick /\ ReadFails /\ UNCHANGED interrupted

ReadInterrupted == Reading /\ Exhausted /\ open /\ ReadFails /\ interrupted' = TRUE

-----------------------------------------------------------------------------
(* recv(2) under recv and recvAll. *)

Receiving == alive /\ job.stage = "recv"

(* Mutant: a request that was met in full ends it too. *)
NotMore(res, n) == res <= n

IsShort(res, n) == res < n

Receive ==
  /\ Receiving /\ wire # <<>>
  /\ LET res == Min({job.n, Len(wire)})
         got == Append(job.acc, SubSeq(wire, 1, res))
     IN  /\ wire' = SubSeq(wire, res + 1, Len(wire))
         /\ IF job.call = "recv" \/ IsShort(res, job.n) THEN Return(got, TRUE, FALSE)
            ELSE /\ job' = [job EXCEPT !.acc = got, !.n = Min({2 * @, LastLen})]
                 /\ UNCHANGED result
  /\ UNCHANGED <<config, written, open, file, log, calls, interrupted>>

(* 0 and -1 are both Left; what recvAll has received before goes with it. *)
ReceiveNothing ==
  /\ Receiving /\ wire = <<>>
  /\ Return(<<>>, FALSE, FALSE)
  /\ UNCHANGED <<config, wire, written, open, file, log, calls>>

ReceiveClosed == ReceiveNothing /\ ~open /\ UNCHANGED interrupted

ReceiveInterrupted == ReceiveNothing /\ open /\ interrupted' = TRUE

-----------------------------------------------------------------------------
Calls ==
  \/ fGetLine \/ fSeekLine \/ fGetChar \/ recvAll
  \/ \E n \in 1 .. 2 : fGetChars(n) \/ recv(n)
  \/ \E offset \in 0 .. 2, fuel \in {1, 2, Forever} : readFilePage(offset, fuel)

ReaderStep ==
  PageTest \/ GetBytes \/ Fill \/ AtEOF \/ ReadOfSick \/ Receive \/ ReceiveClosed

Peer == (\E k \in 1 .. MaxBytes : Send(k)) \/ PeerCloses

(* The handler runs while the reader waits; the signal interrupts it only  *)
(* when the handler runs on the reader's thread. *)
InterruptedBy(s) == CollectSignal(s) /\ (ReadInterrupted \/ ReceiveInterrupted)

Init == SignalInit /\ StreamInit

Next ==
  \/ SignalNext /\ UNCHANGED streamVars
  \/ (Calls \/ ReaderStep \/ Peer) /\ UNCHANGED sigVars
  \/ \E s \in SigNums : InterruptedBy(s)

(* The reader runs, and a peer that is done closes its end. *)
Fairness == SignalFairness /\ WF_vars(ReaderStep /\ UNCHANGED sigVars)

Spec == Init /\ [][Next]_vars /\ Fairness

-----------------------------------------------------------------------------
(* Reading a FILE neither loses nor repeats nor reorders a byte: what was  *)
(* handed out or skipped, what the running call has, stdio's buffer and    *)
(* the kernel's queue make up what was sent.  Interruptions leave this so, *)
(* except where getline.c forgets the line it has begun and where fGetChar *)
(* fails, now and from then on, with a character in its hand.              *)
BytesAccounted ==
  \/ kind = "socket"
  \/ interrupted /\ (getlineOf = "support" \/ kind = "chars")
  \/ log \o job.got \o file.buf \o wire = [i \in 1 .. written |-> i]

(* What the first n bytes make when they are read by lines: the last piece *)
(* may be empty. *)
Pieces[n \in 0 .. MaxBytes] ==
  IF n = 0 THEN <<<<>>>>
  ELSE LET before == Pieces[n - 1]
           longer == [before EXCEPT ![Len(before)] = Append(@, n)]
       IN  IF n \in newlines THEN Append(longer, <<>>) ELSE longer

Returned(call, stage) == result.call = call /\ result.stage = stage

(* A page holds exactly the lines that were asked for, however the bytes   *)
(* arrive, and reports the end of the file when there are fewer than that, *)
(* unless a read was interrupted: then a line may come in pieces, and each *)
(* piece counts as a line.  Only an interruption or a stream that fails    *)
(* makes an error.                                                         *)
PagesAreLines ==
  LET pieces == Pieces[written]
      offset == result.ask[1]
      fuel   == result.ask[2]
  IN  ~interrupted /\ ~sick =>
        /\ ~Returned("page", "left")
        /\ Returned("page", "right") =>
             /\ result.acc = SubSeq(pieces, offset + 1, Min({offset + fuel, Len(pieces)}))
             /\ result.atEnd = (fuel > Len(pieces) - offset)

(* What recvAll has received after k requests that were met in full. *)
InFull[k \in 0 .. MaxBytes] ==
  IF k = 0 THEN [sum |-> 0, n |-> FirstLen]
  ELSE LET r == InFull[k - 1] IN [sum |-> r.sum + r.n, n |-> Min({2 * r.n, LastLen})]

(* What recvAll returns is consecutive and starts where the stream stood.  *)
(* When the peer has sent everything and closed before the call, it is all *)
(* that remains - but only when that is not used up by requests met in     *)
(* full: then the next recv returns 0 and recvAll returns that as an       *)
(* error, and the data is gone.                                            *)
RecvAllExact ==
  LET bytes == FlattenSeq(result.acc) IN
  /\ Returned("recvAll", "right") =>
       bytes = [i \in 1 .. Len(bytes) |-> result.from + i]
  /\ result.call = "recvAll" /\ result.whole =>
       IF \E k \in DOMAIN InFull : InFull[k].sum = result.rest
       THEN result.stage = "left"
       ELSE result.stage = "right" /\ Len(bytes) = result.rest

(* Reading a page, readFile included, ends once the peer is done.  It does *)
(* not when every read fails: readLinesOnto looks for the end of the file  *)
(* only, and fGetLine reports no error. *)
ReadingEnds ==
  (job.call = "page" /\ ~open) ~> (job.call # "page" \/ sick \/ ~alive)
=============================================================================
