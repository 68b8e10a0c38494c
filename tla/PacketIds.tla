------------------------------ MODULE PacketIds ------------------------------
(***************************************************************************)
(* Packet ids of the TeamSpeak protocol.                                   *)
(*                                                                         *)
(* A packet carries 16 bits of its id on the wire; both peers extend them  *)
(* with a 32 bit generation that counts the wraparounds.  This module      *)
(* holds the arithmetic on such pairs (tsproto/src/resend.rs) and the      *)
(* receive window that reconstructs the generation of an incoming packet   *)
(* (tsproto/src/connection.rs).  IdMod stands for 2^16 and GenMod for      *)
(* 2^32, so that small moduli bring the wraparound within reach of TLC.    *)
(***************************************************************************)
EXTENDS Integers

CONSTANTS
    IdMod,   \* number of packet ids,   2^16 in the code (u16)
    GenMod   \* number of generations,  2^32 in the code (u32)

ASSUME IdModAssumption == IdMod \in Nat /\ IdMod >= 4
ASSUME GenModAssumption == GenMod \in Nat /\ GenMod >= 2

PacketIdValue == 0 .. IdMod - 1
GenerationValue == 0 .. GenMod - 1

\* struct PartialPacketId
PartialPacketId == [generation_id : GenerationValue, packet_id : PacketIdValue]

Part(gen, id) == [generation_id |-> gen, packet_id |-> id]

\* impl Ord for PartialPacketId
Less(a, b) ==
    \/ a.generation_id < b.generation_id
    \/ a.generation_id = b.generation_id /\ a.packet_id < b.packet_id

LessEq(a, b) == a = b \/ Less(a, b)

\* impl Add<u16> for PartialPacketId
Plus(p, n) ==
    Part(IF p.packet_id + n >= IdMod
            THEN (p.generation_id + 1) % GenMod
            ELSE p.generation_id,
         (p.packet_id + n) % IdMod)

\* impl Sub<u16> for PartialPacketId
Minus(p, n) ==
    Part(IF p.packet_id < n
            THEN (p.generation_id - 1) % GenMod
            ELSE p.generation_id,
         (p.packet_id - n) % IdMod)

\* impl Sub<PartialPacketId> for PartialPacketId.  One generation is counted
\* as u16::MAX = IdMod - 1 ids.
Diff(a, b) ==
    (a.generation_id - b.generation_id) * (IdMod - 1)
        + (a.packet_id - b.packet_id)

\* u16::MAX / 2, the size of the receive window
Half == (IdMod - 1) \div 2

\* The interval of `size` ids that starts at `cur_next`, as both
\* Connection::in_receive_window and handle_command_packet compute it:
\* overflowing_add, then one comparison or the other.
WindowLimit(cur_next, size) == (cur_next + size) % IdMod

WindowOverflows(cur_next, size) == cur_next + size >= IdMod

\* Mutant of InIdWindow: a window that wraps is not recognised.
InIdWindowWithoutWrap(cur_next, size, p_id) ==
    p_id >= cur_next /\ p_id < WindowLimit(cur_next, size)

InIdWindow(cur_next, size, p_id) ==
    LET limit == WindowLimit(cur_next, size)
    IN  \/ /\ ~WindowOverflows(cur_next, size)
           /\ p_id >= cur_next /\ p_id < limit
        \/ /\ WindowOverflows(cur_next, size)
           /\ p_id >= cur_next \/ p_id < limit

\* Connection::in_receive_window, first component of the result
InReceiveWindow(next, p_id) == InIdWindow(next.packet_id, Half, p_id)

\* Connection::in_receive_window, second component: the generation the packet
\* is decrypted with.  `gen + 1` and `gen - 1` wrap in a release build.
WindowGeneration(next, p_id) ==
    LET gen == next.generation_id
        limit == WindowLimit(next.packet_id, Half)
    IN  IF InReceiveWindow(next, p_id)
        THEN IF WindowOverflows(next.packet_id, Half) /\ p_id < limit
             THEN (gen + 1) % GenMod
             ELSE gen
        ELSE IF p_id < next.packet_id
             THEN gen
             ELSE (gen - 1) % GenMod

\* The n-th packet of a type, counted without wraparound: what the pair
\* (generation, id) stands for.
PartOf(n) == Part((n \div IdMod) % GenMod, n % IdMod)

\* PacketCodec::encode_packet: the id under which a packet with the number
\* `next` is queued and returned.  The generation is taken after the increment.
EncodedId(next) == Part(Plus(next, 1).generation_id, next.packet_id)

\* Mutant of AckedKey: acks are taken to arrive in order.
AckedKeyFirst(first, p_id) == first

\* Resender::ack_packet: the id that an ack for p_id removes from the queue
\* whose smallest id is `first`.
AckedKey(first, p_id) ==
    IF first.packet_id = p_id
    THEN first
    ELSE Part(IF p_id < first.packet_id
                 THEN (first.generation_id + 1) % GenMod
                 ELSE first.generation_id,
              p_id)

=============================================================================
