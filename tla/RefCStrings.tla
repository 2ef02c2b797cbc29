---------------------------- MODULE RefCStrings ----------------------------
(***************************************************************************)
(* Strings and buffers of the RefC runtime (support/refc/stringOps.c and   *)
(* support/refc/buffer.c).                                                 *)
(*                                                                         *)
(* A string is what C reads of an array: the characters before the first   *)
(* NUL (0).  A Char may be NUL, so an operation that stores one ends the   *)
(* string there.  A buffer is the sequence of its bytes, from index 1 for  *)
(* the byte at location 0; an operation that fails its range check aborts  *)
(* the program.                                                            *)
(***************************************************************************)
EXTENDS RefCNumbers, SequencesExt

(* A character and a byte have W8 bits; whole bytes make an int64_t. *)
ASSUME BytesAssumption == W64 % W8 = 0

NUL == 0

Abort == <<"abort">>

(* The string in an array of characters, up to the NUL that ends it. *)
CString(array) ==
  LET nuls == {i \in DOMAIN array : array[i] = NUL}
  IN  IF nuls = {} THEN array ELSE SubSeq(array, 1, Min(nuls) - 1)

strlen(s) == Len(s)

-----------------------------------------------------------------------------
stringLength(s) == strlen(s)
head(s)         == IF s = <<>> THEN NUL ELSE s[1]
tail(s)         == IF s = <<>> THEN <<>> ELSE SubSeq(s, 2, strlen(s))
reverse(s)      == Reverse(s)
strIndex(s, i)  == (s \o <<NUL>>)[i + 1]
strCons(c, s)   == CString(<<c>> \o s)
strAppend(a, b) == a \o b

\* Mutant: the copy starts one character late.
substrLate(start, len, s, beyond) ==
  CString(SubSeq(s, start + 2, Min({start + 1 + len, strlen(s)})))

(* The length is cut to that of the whole string, not to what is left of   *)
(* it after start: the copy may pass the NUL of the input, which then ends *)
(* the result.  `beyond' is what the memory holds there.                   *)
strSubstr(start, len, s, beyond) ==
  LET l == IF strlen(s) < len THEN strlen(s) ELSE len
      memory(i) == IF i <= strlen(s) THEN s[i]
                   ELSE IF i = strlen(s) + 1 THEN NUL ELSE beyond
  IN  CString([i \in 1 .. l |-> memory(start + i)])

fastPack(chars)  == CString(chars)
fastUnpack(s)    == [i \in 1 .. strlen(s) |-> s[i]]
fastConcat(list) == FlattenSeq(list)

cast_char_to_string(c) == CString(<<c>>)
cast_string_to_char(s) == head(s)

(* An iterator holds a copy of the string and a position it moves: the     *)
(* result is the character, or EOF at the NUL, and the position.           *)
EOF == "EOF"

stringIteratorNew(s) == [str |-> s, pos |-> 0]

stringIteratorNext(it) ==
  IF strIndex(it.str, it.pos) = NUL
  THEN <<EOF, it>>
  ELSE <<strIndex(it.str, it.pos), [it EXCEPT !.pos = @ + 1]>>

(* What is left of the string: the string at the iterator's position. *)
stringIteratorToString(it) == SubSeq(it.str, it.pos + 1, strlen(it.str))

(* The characters an iterator returns before EOF. *)
Iterated(s) ==
  LET after[n \in 0 .. strlen(s) + 1] ==
        IF n = 0 THEN [it |-> stringIteratorNew(s), out |-> <<>>]
        ELSE LET r == stringIteratorNext(after[n - 1].it)
             IN  [it |-> r[2], out |-> Append(after[n - 1].out, r[1])]
  IN  after[strlen(s) + 1].out

-----------------------------------------------------------------------------
(* Buffers.  An integer takes the bytes of an int64_t, low byte first. *)

IntBytes == W64 \div W8

newBuffer(bytes) == [i \in 1 .. bytes |-> 0]

ValidRange(b, offset, len) == offset >= 0 /\ len >= 0 /\ offset + len <= Len(b)

(* b with the bytes of s written from location loc. *)
Write(b, loc, s) ==
  IF ValidRange(b, loc, Len(s))
  THEN [i \in 1 .. Len(b) |-> IF i - loc \in DOMAIN s THEN s[i - loc] ELSE b[i]]
  ELSE Abort

Bytes(b, loc, len) == SubSeq(b, loc + 1, loc + len)

setBufferByte(b, loc, n)   == Write(b, loc, <<Unsigned(W8, n)>>)
setBufferString(b, loc, s) == Write(b, loc, s)

\* Mutant: high byte first.
setHighFirst(b, loc, n) ==
  Write(b, loc, [i \in 1 .. IntBytes |-> (n \div 2^(W8 * (IntBytes - i))) % 2^W8])

setBufferInt(b, loc, n) ==
  Write(b, loc, [i \in 1 .. IntBytes |-> (n \div 2^(W8 * (i - 1))) % 2^W8])

copyBuffer(from, fromOffset, len, to, toOffset) ==
  IF ValidRange(from, fromOffset, len)
  THEN Write(to, toOffset, Bytes(from, fromOffset, len))
  ELSE Abort

getBufferByte(b, loc) ==
  IF ValidRange(b, loc, 1) THEN b[loc + 1] ELSE Abort

(* The number in the n bytes from location loc. *)
ByteSum(b, loc, n) ==
  LET sum[i \in 0 .. n] ==
        IF i = 0 THEN 0 ELSE sum[i - 1] + (b[loc + i] * 2^(W8 * (i - 1)))
  IN  sum[n]

getBufferInt(b, loc) ==
  IF ValidRange(b, loc, IntBytes) THEN Signed(W64, ByteSum(b, loc, IntBytes)) ELSE Abort

getBufferString(b, loc, len) ==
  IF ValidRange(b, loc, len) THEN CString(Bytes(b, loc, len)) ELSE Abort
=============================================================================
