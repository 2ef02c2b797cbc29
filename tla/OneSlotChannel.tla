--------------------------- MODULE OneSlotChannel ---------------------------
(***************************************************************************)
(* What System.Concurrency promises of a channel under Chez                *)
(* (libs/base/System/Concurrency.idr): channelPut "Puts a value on the     *)
(* channel.  If there already is a value, blocks until that value has been *)
(* received", and the result of channelGet "is the sent value".            *)
(*                                                                         *)
(* The channel is two histories.  The values that were sent and not yet    *)
(* received are its content, at most one value at any time.                *)
(***************************************************************************)
EXTENDS Naturals, Sequences

CONSTANT Values

VARIABLES
  sent,       \* the values put, in the order in which they entered the channel
  received    \* the values got, in the order in which they left it

Init == sent = <<>> /\ received = <<>>

Empty == Len(sent) = Len(received)

Put(v) ==
  /\ Empty
  /\ sent' = Append(sent, v)
  /\ UNCHANGED received

Get ==
  /\ ~Empty
  /\ received' = Append(received, sent[Len(sent)])
  /\ UNCHANGED sent

Next == Get \/ \E v \in Values : Put(v)

Spec == Init /\ [][Next]_<<sent, received>>
=============================================================================
