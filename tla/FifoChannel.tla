---------------------------- MODULE FifoChannel ----------------------------
(***************************************************************************)
(* What the two peers of a connection promise to the application about     *)
(* commands: each one is delivered once, whole, and in the order in which  *)
(* they were sent.  Several commands may be delivered in one step, because *)
(* a packet that closes a gap releases the ones that waited behind it.     *)
(***************************************************************************)
EXTENDS Naturals, Sequences

CONSTANT Command   \* the commands

VARIABLES sent, delivered

channelVars == <<sent, delivered>>

ChannelInit == sent = <<>> /\ delivered = <<>>

Send(c) ==
    /\ sent' = Append(sent, c)
    /\ UNCHANGED delivered

Deliver(k) ==
    /\ Len(delivered) + k <= Len(sent)
    /\ delivered' = delivered \o SubSeq(sent, Len(delivered) + 1, Len(delivered) + k)
    /\ UNCHANGED sent

ChannelNext ==
    \/ \E c \in Command : Send(c)
    \/ \E k \in 1 .. Len(sent) : Deliver(k)

ChannelSpec == ChannelInit /\ [][ChannelNext]_channelVars

=============================================================================
