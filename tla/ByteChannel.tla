---------------------------- MODULE ByteChannel ----------------------------
(***************************************************************************)
(* What the receiver promises a guest: a queue of the bytes the other side *)
(* has written, first in first out, from which a read of the data register *)
(* takes the oldest byte or, now and then, nothing.                        *)
(***************************************************************************)
EXTENDS Sequences, Naturals

CONSTANT Bytes           \* what may be sent

VARIABLES
  lossy,                 \* the channel is a terminal, which can be flushed
  channel,               \* written and not yet taken
  taken,                 \* taken by the guest, in order
  ended                  \* nothing more will be written

channelVars == <<lossy, channel, taken, ended>>

ChannelInit ==
  /\ lossy \in BOOLEAN
  /\ channel = <<>> /\ taken = <<>> /\ ended = FALSE

Put(b) ==
  /\ ~ended
  /\ channel' = Append(channel, b)
  /\ UNCHANGED <<lossy, taken, ended>>

End ==
  /\ ~ended
  /\ ended' = TRUE
  /\ UNCHANGED <<lossy, channel, taken>>

Take ==
  /\ channel # <<>>
  /\ taken' = Append(taken, Head(channel))
  /\ channel' = Tail(channel)
  /\ UNCHANGED <<lossy, ended>>

\* A flush loses the youngest bytes, so what is taken stays in order.
Lose ==
  /\ lossy
  /\ \E n \in 0 .. Len(channel) - 1 : channel' = SubSeq(channel, 1, n)
  /\ UNCHANGED <<lossy, taken, ended>>

ChannelNext == (\E b \in Bytes : Put(b)) \/ End \/ Take \/ Lose

ChannelSpec == ChannelInit /\ [][ChannelNext]_channelVars
=============================================================================
