---------------------------- MODULE CommandLink ----------------------------
(***************************************************************************)
(* One direction of a connection: commands travel from a sender (the       *)
(* promise of the Resender, module ReliableSender) over UDP to the         *)
(* PacketCodec of the peer, which acknowledges them, puts them in order    *)
(* and joins their fragments (tsproto/src/packet_codec.rs).                *)
(*                                                                         *)
(* A packet is its number n; on the wire it has the id n % IdMod and it is *)
(* encrypted with the key of the generation n \div IdMod, so it decrypts   *)
(* exactly when the receiver's estimate of the generation is right.  UDP   *)
(* may lose, delay, reorder and duplicate: every transmitted packet may    *)
(* arrive at any later time, up to MaxArrivals times (copies made by the   *)
(* network and by the resender together).                                  *)
(***************************************************************************)
EXTENDS PacketIds, ReliableSender, Sequences, SequencesExt

CONSTANTS
    ClientSends,   \* TRUE: client to server, FALSE: server to client
    MaxArrivals,   \* bound: how often one packet arrives
    GapDuplicates, \* may a second copy arrive while the first waits behind a gap?
    LatePackets,   \* packets before FirstId, received, of which a copy is on its way
    CommandLag,    \* a packet arrives while fewer than this many newer ones were sent
    AckLag,        \* the same for acks
    MaxQueueLen,   \* MAX_QUEUE_LEN, 200 in the code
    MaxFragments,  \* MAX_FRAGMENTS_LENGTH, in packets
    CommandSizes   \* into how many packets compress_and_split may cut a command

ASSUME LinkAssumption ==
    /\ ClientSends \in BOOLEAN /\ FirstId < IdMod
    /\ MaxArrivals \in Nat /\ CommandLag \in Nat /\ AckLag \in Nat
    /\ GapDuplicates \in BOOLEAN
    /\ MaxArrivals > 0 /\ LatePackets \subseteq 0 .. FirstId - 1
    /\ MaxQueueLen \in Nat /\ MaxFragments \in Nat
    /\ CommandSizes \subseteq Nat \ {0}

VARIABLES
    sent,              \* commands handed to send_packet: sequences of packet numbers
    arrivals,          \* how often each packet has arrived
    incoming,          \* receiver: incoming_p_ids[Command]
    receive_queue,     \* receiver: out-of-order packets, in order of arrival
    fragmented_queue,  \* receiver: fragments so far, <<>> for None
    cur,               \* receiver: packet in the loop of handle_command_packet
    packets,           \* receiver: commands the loop has completed
    ack_id,            \* receiver: id that is acknowledged after the loop
    delivered,         \* commands put into stream_items
    failed,            \* receiver: handle_udp_packet returned an unrecoverable error
    acks,              \* acks in the network: [n |-> number of the ack, p_id |-> acked id]
    ack_count,         \* number of acks sent: outgoing_p_ids[Ack] without wraparound
    incoming_ack       \* sender: incoming_p_ids[Ack]

receiverVars == <<incoming, receive_queue, fragmented_queue, cur, packets,
                  ack_id, delivered, failed, arrivals>>
ackVars == <<acks, ack_count, incoming_ack>>
vars == <<senderVars, sent, receiverVars, ackVars>>

None == -1

\* The packets that can arrive
Arrivable == LatePackets \cup PacketNumber

-----------------------------------------------------------------------------
(* The sender.                                                             *)

\* compress_and_split sets FRAGMENTED on the first and on the last part.
Fragmented(n) ==
    \E i \in DOMAIN sent :
        /\ Len(sent[i]) > 1
        /\ n = Head(sent[i]) \/ n = Last(sent[i])

\* Connection::send_packet with a command of k packets
SendCommand(k) ==
    /\ Enqueue(k)
    /\ sent' = Append(sent, [i \in 1 .. k |-> queued + i - 1])
    /\ UNCHANGED <<receiverVars, ackVars>>

\* Resender::poll_resend
Transmit ==
    /\ TransmitNext
    /\ UNCHANGED <<sent, receiverVars, ackVars>>

\* The key of packet n in full_send_queue
RecordKey(n) == EncodedId(PartOf(n))

\* Mutant of AckTarget: an ack covers all packets up to its id.
AckTargetCumulative(p_id) == {n \in unacked : n % IdMod <= p_id}

\* The packets (one or none) that Resender::ack_packet removes.
AckTarget(p_id) ==
    {n \in unacked :
        \E f \in unacked :
            /\ \A m \in unacked : LessEq(RecordKey(f), RecordKey(m))
            /\ RecordKey(n) = AckedKey(RecordKey(f), p_id)}

\* The client takes initserver as the ack of clientinit and drops the ack
\* packet with id 1.
DroppedAck(a) == ClientSends /\ a.n % IdMod = 1

\* handle_udp_packet for an Ack whose own generation is estimated correctly;
\* acks are accepted outside the receive window, too.
ReceiveAck(a) ==
    /\ WindowGeneration(incoming_ack, a.n % IdMod) = PartOf(a.n).generation_id
    /\ ~DroppedAck(a)
    /\ incoming_ack' = Plus(PartOf(a.n), 1)
    /\ unacked' = unacked \ AckTarget(a.p_id)
    /\ UNCHANGED <<queued, transmitted, sent, receiverVars, acks, ack_count>>

-----------------------------------------------------------------------------
(* The receiver.                                                           *)

\* Connection::send_ack_packet: the ack takes the next Ack id and enters the
\* network, where it overtakes and is overtaken by at most AckLag acks.
SendAck(p_id) ==
    /\ ack_count' = ack_count + 1
    /\ acks' = {a \in acks : a.n + AckLag > ack_count}
                 \cup {[n |-> ack_count, p_id |-> p_id]}
    /\ UNCHANGED incoming_ack

\* A copy of packet n can arrive now.
Arriving(n) ==
    /\ \/ n \in LatePackets
       \/ /\ n \in transmitted
          /\ Cardinality({m \in transmitted : m > n}) < CommandLag
    /\ arrivals[n] < MaxArrivals
    /\ GapDuplicates \/ n \notin Range(receive_queue)
    /\ cur = None /\ ~failed

Arrives(n) ==
    /\ Arriving(n)
    /\ arrivals' = [arrivals EXCEPT ![n] = @ + 1]
    /\ UNCHANGED <<senderVars, sent, incoming, fragmented_queue, packets, delivered>>

Decrypts(n) == WindowGeneration(incoming, n % IdMod) = PartOf(n).generation_id

\* handle_udp_packet, not in the receive window: acknowledge again
ReceiveOutsideWindow(n) ==
    /\ Arrives(n)
    /\ ~InReceiveWindow(incoming, n % IdMod)
    /\ SendAck(n % IdMod)
    /\ UNCHANGED <<receive_queue, cur, ack_id, failed>>

\* handle_udp_packet, decryption fails: StreamItem::Error(WrongMac), no ack
ReceiveWrongMac(n) ==
    /\ Arrives(n)
    /\ InReceiveWindow(incoming, n % IdMod)
    /\ ~Decrypts(n)
    /\ UNCHANGED <<receive_queue, cur, ack_id, failed, ackVars>>

\* handle_command_packet, in order: enter the loop
ReceiveInOrder(n) ==
    /\ Arrives(n)
    /\ InReceiveWindow(incoming, n % IdMod)
    /\ Decrypts(n)
    /\ n % IdMod = incoming.packet_id
    /\ cur' = n
    /\ ack_id' = n % IdMod
    /\ UNCHANGED <<receive_queue, failed, ackVars>>

\* Mutant of ReceiveOutOfOrder: the packet is acknowledged but not kept.
ReceiveOutOfOrderDropped(n) ==
    /\ Arrives(n)
    /\ InReceiveWindow(incoming, n % IdMod)
    /\ Decrypts(n)
    /\ n % IdMod # incoming.packet_id
    /\ SendAck(n % IdMod)
    /\ UNCHANGED <<receive_queue, cur, ack_id, failed>>

\* handle_command_packet, out of order: keep the packet if its id is less
\* than MaxQueueLen ahead, otherwise give up the connection
ReceiveOutOfOrder(n) ==
    /\ Arrives(n)
    /\ InReceiveWindow(incoming, n % IdMod)
    /\ Decrypts(n)
    /\ n % IdMod # incoming.packet_id
    /\ UNCHANGED <<cur, ack_id>>
    /\ \/ /\ InIdWindow(incoming.packet_id, MaxQueueLen, n % IdMod)
          /\ receive_queue' = Append(receive_queue, n)
          /\ SendAck(n % IdMod)
          /\ UNCHANGED failed
       \/ /\ ~InIdWindow(incoming.packet_id, MaxQueueLen, n % IdMod)
          /\ failed' = TRUE
          /\ UNCHANGED <<receive_queue, ackVars>>

\* Mutant of FollowingPos: the id is compared before it is advanced.
FollowingPosSame(id) == SelectInSeq(receive_queue, LAMBDA m : m % IdMod = id)

\* The next packet of the loop: the first one in the queue that has the id
\* after the current one; 0 if there is none.
FollowingPos(id) ==
    SelectInSeq(receive_queue, LAMBDA m : m % IdMod = (id + 1) % IdMod)

\* Mutant of NextIteration: the completed commands are not cleared.
NextIterationKeepsPackets(done) ==
    LET pos == FollowingPos(cur % IdMod)
    IN  \/ /\ pos # 0
           /\ cur' = receive_queue[pos]
           /\ receive_queue' = RemoveAt(receive_queue, pos)
           /\ packets' = done
           /\ UNCHANGED <<ack_id, delivered, ackVars>>
        \/ /\ pos = 0
           /\ cur' = None
           /\ delivered' = delivered \o done
           /\ packets' = done
           /\ SendAck(ack_id)
           /\ ack_id' = None
           /\ UNCHANGED receive_queue

\* The tail of one iteration.  At the end of the loop handle_udp_packet
\* pushes all completed commands into stream_items and sends the ack.
\* done: the commands completed so far
NextIteration(done) ==
    LET pos == FollowingPos(cur % IdMod)
    IN  \/ /\ pos # 0
           /\ cur' = receive_queue[pos]
           /\ receive_queue' = RemoveAt(receive_queue, pos)
           /\ packets' = done
           /\ UNCHANGED <<ack_id, delivered, ackVars>>
        \/ /\ pos = 0
           /\ cur' = None
           /\ delivered' = delivered \o done
           /\ packets' = <<>>
           /\ SendAck(ack_id)
           /\ ack_id' = None
           /\ UNCHANGED receive_queue

LoopStep ==
    /\ cur # None
    /\ incoming' = Plus(incoming, 1)
    /\ UNCHANGED <<senderVars, sent, arrivals>>

\* A packet that is a whole command
HandleWhole ==
    /\ LoopStep
    /\ ~Fragmented(cur) /\ fragmented_queue = <<>>
    /\ NextIteration(Append(packets, <<cur>>))
    /\ UNCHANGED <<fragmented_queue, failed>>

\* FRAGMENTED while nothing is pending: the first fragment
HandleFirstFragment ==
    /\ LoopStep
    /\ Fragmented(cur) /\ fragmented_queue = <<>>
    /\ fragmented_queue' = <<cur>>
    /\ NextIteration(packets)
    /\ UNCHANGED failed

\* Not FRAGMENTED while fragments are pending: a fragment in the middle
HandleMiddleFragment ==
    /\ LoopStep
    /\ ~Fragmented(cur) /\ fragmented_queue # <<>>
    /\ \/ /\ Len(fragmented_queue) < MaxFragments
          /\ fragmented_queue' = Append(fragmented_queue, cur)
          /\ NextIteration(packets)
          /\ UNCHANGED failed
       \/ /\ Len(fragmented_queue) >= MaxFragments
          /\ failed' = TRUE
          /\ cur' = None /\ ack_id' = None
          /\ packets' = <<>>
          /\ UNCHANGED <<fragmented_queue, receive_queue, delivered, ackVars>>

\* FRAGMENTED while fragments are pending: the last fragment
HandleLastFragment ==
    /\ LoopStep
    /\ Fragmented(cur) /\ fragmented_queue # <<>>
    /\ fragmented_queue' = <<>>
    /\ NextIteration(Append(packets, Append(fragmented_queue, cur)))
    /\ UNCHANGED failed

-----------------------------------------------------------------------------

Init ==
    /\ SenderInit
    /\ sent = <<>>
    /\ arrivals = [n \in Arrivable |-> IF n \in LatePackets THEN MaxArrivals - 1 ELSE 0]
    /\ incoming = Part(0, FirstId)
    /\ receive_queue = <<>>
    /\ fragmented_queue = <<>>
    /\ cur = None
    /\ packets = <<>>
    /\ ack_id = None
    /\ delivered = <<>>
    /\ failed = FALSE
    /\ acks = {}
    /\ ack_count = 0
    /\ incoming_ack = Part(0, 0)

Receive(n) ==
    \/ ReceiveOutsideWindow(n)
    \/ ReceiveWrongMac(n)
    \/ ReceiveInOrder(n)
    \/ ReceiveOutOfOrder(n)

HandleCommandPacket ==
    \/ HandleWhole
    \/ HandleFirstFragment
    \/ HandleMiddleFragment
    \/ HandleLastFragment

Next ==
    \/ \E k \in CommandSizes : SendCommand(k)
    \/ Transmit
    \/ \E a \in acks : ReceiveAck(a)
    \/ \E n \in Arrivable : Receive(n)
    \/ HandleCommandPacket

Spec == Init /\ [][Next]_vars


-----------------------------------------------------------------------------
(* Properties.                                                             *)

Interval(first, last) == [i \in 1 .. last - first + 1 |-> first + i - 1]

\* A command is the sequence of its packets.
Command == {Interval(f, l) : f, l \in PacketNumber}

\* Every variable has its type; queues hold packets that were transmitted.
TypeOK ==
    /\ SenderTypeOK
    /\ sent \in Seq(Command)
    /\ arrivals \in [Arrivable -> 0 .. MaxArrivals]
    /\ incoming \in PartialPacketId
    /\ receive_queue \in Seq(transmitted)
    /\ fragmented_queue \in Seq(transmitted)
    /\ cur \in transmitted \cup {None}
    /\ packets \in Seq(Seq(PacketNumber))
    /\ ack_id \in PacketIdValue \cup {None}
    /\ delivered \in Seq(Seq(PacketNumber))
    /\ failed \in BOOLEAN
    /\ acks \in SUBSET [n : Nat, p_id : PacketIdValue]
    /\ ack_count \in Nat
    /\ incoming_ack \in PartialPacketId

\* Commands reach the application exactly once, in the order in which they
\* were sent, and each one is joined from exactly its own fragments: the
\* promise of the comment in handle_udp_packet ("guaranteed to be in the
\* right order now"), whatever the network reorders or duplicates.
\* It does not hold if a packet arrives twice while it waits behind a gap and
\* ids wrap (README, section 7).
DeliveredInOrder == IsPrefix(delivered, sent)

\* The receiver has packet n: delivered, waiting behind a gap, or a fragment.
Received ==
    (UNION {Range(delivered[i]) : i \in DOMAIN delivered})
        \cup (UNION {Range(packets[i]) : i \in DOMAIN packets})
        \cup Range(fragmented_queue) \cup Range(receive_queue) \cup {cur}

\* A packet leaves the send queue only after the peer has received it (doc of
\* Connection::send_packet), although acks carry no generation, are sent for
\* packets outside the receive window too, and arrive late and repeatedly.
AckedWereReceived ==
    ~failed => (FirstId .. queued - 1) \ unacked \subseteq Received

\* The sender has run on further than the receiver keeps packets, behind one
\* that is not acknowledged.  A sender that keeps to its window can do so:
\* selective acks let it send while an older packet is missing.
RunOn == \E n \in unacked, m \in transmitted : m - n >= MaxQueueLen

\* A command has more fragments than the receiver joins.
Oversized == \E i \in DOMAIN sent : Len(sent[i]) > MaxFragments + 1

\* The receiver gives up the connection only in these two cases.
FailsOnlyWhenOverrun == failed => RunOn \/ Oversized

\* The doc of MAX_QUEUE_LEN (tsproto/src/lib.rs): "The maximum number of
\* packets which are stored, if they are received out-of-order."  It does not
\* hold, because copies are stored too (README, section 7).
QueueBounded == Len(receive_queue) <= MaxQueueLen

\* in_receive_window never computes `gen - 1` in generation 0 (a panic in a
\* debug build, generation 2^32 - 1 in a release build) for a command of the
\* peer: only a packet from beyond the window would make it do so.
NoGenerationUnderflow ==
    \A n \in Arrivable :
        Arriving(n) => \/ incoming.generation_id > 0
                       \/ InReceiveWindow(incoming, n % IdMod)
                       \/ n % IdMod < incoming.packet_id

\* The receiver gives up and estimates generations only as above, and has the
\* types, on which this rests: a queue never holds a packet that was not
\* transmitted.
LinkSound == TypeOK /\ FailsOnlyWhenOverrun /\ NoGenerationUnderflow

\* The link is a FIFO channel for commands: a step of the link sends one
\* command, delivers the next ones in order, or leaves the channel alone.
Channel == INSTANCE FifoChannel
ImplementsChannel == Channel!ChannelSpec

\* Acks remove a packet from the send queue only as the sender's contract
\* (module ReliableSender) allows: one that is in flight.
KeepsSenderContract == SenderSpec

\* Scheduling and network, for liveness: the sender's task keeps polling, a
\* packet that is sent again and again arrives, and so do the acks; a late
\* copy of an older packet need not.
Fairness ==
    /\ WF_vars(Transmit)
    /\ WF_vars(HandleCommandPacket)
    /\ \A n \in PacketNumber : WF_vars(Receive(n))
    /\ \A n \in PacketNumber :
        WF_vars(\E a \in acks : a.p_id = n % IdMod /\ ReceiveAck(a))

FairSpec == Spec /\ Fairness

\* As long as the receiver does not give up (LinkSound says when it may),
\* every command that is sent is delivered in the end: no packet is lost by
\* the receive path, and the window never closes for good.  With a bounded
\* number of commands this is: again and again all of them are delivered.
EverythingDelivered == []~failed => []<>(Len(delivered) = Len(sent))

=============================================================================
