------------------------- MODULE CommandLinkProofs -------------------------
(***************************************************************************)
(* Proofs about one direction of a connection, for every number of packets *)
(* and fragments, every size of the ids, the windows and the queues, and   *)
(* whatever the network loses, repeats, delays or reorders.                *)
(*                                                                         *)
(* The argument.  Number the packets without wraparound.  The receiver has *)
(* always consumed exactly the packets before Position, which is a         *)
(* function of what it has delivered, completed and joined so far, and     *)
(* incoming is the pair (generation, id) of Position.  Because of          *)
(* WindowOnly a packet that is accepted lies less than Half behind         *)
(* Position, so that an id names one packet only; the loop therefore goes  *)
(* on with the packet at Position and with no other one, and the           *)
(* FRAGMENTED flags of the packets before it tell where it belongs.        *)
(*                                                                         *)
(* The acknowledgements, in one generation.  While the connection lives    *)
(* (AckInv), an ack on its way is for a packet that the receiver has, and  *)
(* the packet at Position is in the send queue.  The receiver gives up     *)
(* either because a packet arrives that lies MaxQueueLen ahead of          *)
(* Position, or because a command is too long; as Position is never        *)
(* acknowledged after that, both can still be seen later (FailedInv).      *)
(***************************************************************************)
EXTENDS CommandLink, SequenceTheorems, WellFoundedInduction, TLAPS

-----------------------------------------------------------------------------
(* Packet ids.                                                             *)

\* impl Add<u16>: the next id is an id.
LEMMA NextId ==
    ASSUME NEW p \in PartialPacketId
    PROVE  Plus(p, 1) \in PartialPacketId
  <1>1. \A x \in Int : x % IdMod \in PacketIdValue /\ x % GenMod \in GenerationValue
    BY IdModAssumption, GenModAssumption DEF PacketIdValue, GenerationValue
  <1>2. p.generation_id \in GenerationValue /\ p.packet_id \in PacketIdValue
    BY DEF PartialPacketId
  <1>3. p.generation_id + 1 \in Int /\ p.packet_id + 1 \in Int
    BY <1>2, IdModAssumption, GenModAssumption DEF PacketIdValue, GenerationValue
  <1>4. (p.generation_id + 1) % GenMod \in GenerationValue /\ (p.packet_id + 1) % IdMod \in PacketIdValue
    BY <1>1, <1>3
  <1> QED
    BY <1>2, <1>4 DEF Plus, Part, PartialPacketId

\* A set of numbers has a smallest one.
LEMMA SmallestNumber ==
    ASSUME NEW S, S \subseteq Nat, S # {}
    PROVE  \E n \in S : \A m \in S : n <= m
  <1>1. PICK n \in S : \A m \in S : ~(<<m, n>> \in OpToRel(<, Nat))
    BY WFMin, NatLessThanWellFounded
  <1>2. \A m \in S : ~(m < n)
    BY <1>1 DEF OpToRel
  <1> QED
    BY <1>2

-----------------------------------------------------------------------------
(* The receive window.                                                     *)

\* Half of the ids, rounded down, is what in_receive_window looks ahead.
LEMMA HalfFacts == Half \in Nat /\ Half >= 1 /\ 2 * Half <= IdMod - 1
  BY IdModAssumption DEF Half

\* What the pair (generation, id) of packet n stands for.
LEMMA PartOfFacts ==
    ASSUME NEW n \in Nat, n < IdMod * GenMod
    PROVE  /\ n \div IdMod \in Nat /\ n % IdMod \in PacketIdValue
           /\ n = IdMod * (n \div IdMod) + (n % IdMod)
           /\ n \div IdMod \in GenerationValue
           /\ PartOf(n).generation_id = n \div IdMod
           /\ PartOf(n).packet_id = n % IdMod
  <1> DEFINE q == n \div IdMod  r == n % IdMod
  <1>1. q \in Nat /\ r \in 0 .. IdMod - 1 /\ n = IdMod * q + r
    BY IdModAssumption
  <1>2. q < GenMod
    <2>1. q >= GenMod => IdMod * q >= IdMod * GenMod
      BY <1>1, IdModAssumption, GenModAssumption
    <2> QED
      BY <1>1, <2>1, IdModAssumption, GenModAssumption
  <1>3. q % GenMod = q
    BY <1>1, <1>2, GenModAssumption
  <1> QED
    BY <1>1, <1>2, <1>3, GenModAssumption
    DEF PartOf, Part, PacketIdValue, GenerationValue

\* Packets less than IdMod apart are at most one generation apart.
LEMMA Adjacent ==
    ASSUME NEW a \in Nat, NEW n \in Nat, a < IdMod * GenMod, n < IdMod * GenMod,
           n < a + IdMod, a < n + IdMod
    PROVE  \/ n \div IdMod = a \div IdMod
           \/ n \div IdMod = (a \div IdMod) + 1
           \/ n \div IdMod = (a \div IdMod) - 1
  <1> DEFINE p == a \div IdMod  q == n \div IdMod
  <1>1. /\ p \in Nat /\ q \in Nat
        /\ a % IdMod \in 0 .. IdMod - 1 /\ n % IdMod \in 0 .. IdMod - 1
        /\ a = IdMod * p + (a % IdMod) /\ n = IdMod * q + (n % IdMod)
    BY PartOfFacts DEF PacketIdValue
  <1>2. ASSUME NEW x \in Nat, NEW y \in Nat, x >= y + 2
        PROVE  IdMod * x >= IdMod * y + 2 * IdMod
    <2>1. PICK d \in Nat : x = y + 2 + d
      <3>1. x - y - 2 \in Nat /\ x = y + 2 + (x - y - 2)
        BY <1>2
      <3> QED
        BY <3>1
    <2>2. IdMod * x = IdMod * y + 2 * IdMod + IdMod * d /\ IdMod * d >= 0
      BY <2>1, IdModAssumption
    <2> QED
      BY <2>2, IdModAssumption
  <1>3. ~(q >= p + 2)
    BY <1>1, <1>2, IdModAssumption
  <1>4. ~(p >= q + 2)
    BY <1>1, <1>2, IdModAssumption
  <1> QED
    BY <1>1, <1>3, <1>4

\* Connection::in_receive_window accepts the next Half packets and estimates
\* their generation correctly, so that they decrypt, across a wraparound of
\* the id as well.
THEOREM WindowAhead ==
    ASSUME NEW a \in Nat, NEW n \in Nat, a < IdMod * GenMod, n < IdMod * GenMod,
           a <= n, n < a + Half
    PROVE  /\ InReceiveWindow(PartOf(a), n % IdMod)
           /\ WindowGeneration(PartOf(a), n % IdMod) = PartOf(n).generation_id
  <1> DEFINE p == a \div IdMod  i == a % IdMod  q == n \div IdMod  j == n % IdMod
  <1>1. /\ p \in Nat /\ q \in Nat /\ i \in 0 .. IdMod - 1 /\ j \in 0 .. IdMod - 1
        /\ a = IdMod * p + i /\ n = IdMod * q + j
        /\ p \in 0 .. GenMod - 1 /\ q \in 0 .. GenMod - 1
        /\ PartOf(a).generation_id = p /\ PartOf(a).packet_id = i
        /\ PartOf(n).generation_id = q
    BY PartOfFacts DEF PacketIdValue, GenerationValue
  <1>2. q = p \/ q = p + 1 \/ q = p - 1
    BY HalfFacts, Adjacent, IdModAssumption
  <1>3. IdMod * (p + 1) = IdMod * p + IdMod /\ IdMod * (p - 1) = IdMod * p - IdMod
    BY <1>1, IdModAssumption
  <1>4. \/ i + Half < IdMod /\ (i + Half) % IdMod = i + Half
        \/ i + Half >= IdMod /\ (i + Half) % IdMod = i + Half - IdMod
    BY <1>1, HalfFacts, IdModAssumption
  <1>5. \/ q = p /\ i <= j /\ j < i + Half
        \/ q = p + 1 /\ j + IdMod < i + Half
    BY <1>1, <1>2, <1>3, HalfFacts, IdModAssumption
  <1>6. (p + 1 <= GenMod - 1) => (p + 1) % GenMod = p + 1
    BY <1>1, GenModAssumption
  <1> HIDE DEF p, i, q, j
  <1> QED
    BY <1>1, <1>4, <1>5, <1>6, HalfFacts, IdModAssumption, GenModAssumption
    DEF InReceiveWindow, InIdWindow, WindowGeneration, WindowLimit,
        WindowOverflows, i, j

\* Connection::in_receive_window rejects the packets before the next one,
\* which were handled already, and estimates their generation correctly: a
\* duplicate is acknowledged again and never mistaken for a new packet.
THEOREM WindowBehind ==
    ASSUME NEW a \in Nat, NEW n \in Nat, a < IdMod * GenMod, n < IdMod * GenMod,
           a <= n + IdMod - Half, n < a
    PROVE  /\ ~InReceiveWindow(PartOf(a), n % IdMod)
           /\ WindowGeneration(PartOf(a), n % IdMod) = PartOf(n).generation_id
  <1> DEFINE p == a \div IdMod  i == a % IdMod  q == n \div IdMod  j == n % IdMod
  <1>1. /\ p \in Nat /\ q \in Nat /\ i \in 0 .. IdMod - 1 /\ j \in 0 .. IdMod - 1
        /\ a = IdMod * p + i /\ n = IdMod * q + j
        /\ p \in 0 .. GenMod - 1 /\ q \in 0 .. GenMod - 1
        /\ PartOf(a).generation_id = p /\ PartOf(a).packet_id = i
        /\ PartOf(n).generation_id = q
    BY PartOfFacts DEF PacketIdValue, GenerationValue
  <1>2. q = p \/ q = p + 1 \/ q = p - 1
    BY HalfFacts, Adjacent, IdModAssumption
  <1>3. IdMod * (p + 1) = IdMod * p + IdMod /\ IdMod * (p - 1) = IdMod * p - IdMod
    BY <1>1, IdModAssumption
  <1>4. \/ i + Half < IdMod /\ (i + Half) % IdMod = i + Half
        \/ i + Half >= IdMod /\ (i + Half) % IdMod = i + Half - IdMod
    BY <1>1, HalfFacts, IdModAssumption
  <1>5. \/ q = p /\ j < i /\ i + Half <= j + IdMod
        \/ q = p - 1 /\ i + Half <= j
    BY <1>1, <1>2, <1>3, HalfFacts, IdModAssumption
  <1>6. q = p - 1 => (p - 1) % GenMod = p - 1
    BY <1>1, GenModAssumption
  <1> HIDE DEF p, i, q, j
  <1> QED
    BY <1>1, <1>4, <1>5, <1>6, HalfFacts, IdModAssumption, GenModAssumption
    DEF InReceiveWindow, InIdWindow, WindowGeneration, WindowLimit,
        WindowOverflows, i, j

\* A packet less than IdMod ahead has an id of its own.
LEMMA SameId ==
    ASSUME NEW a \in Nat, NEW n \in Nat, a < IdMod * GenMod, n < IdMod * GenMod,
           a <= n, n < a + IdMod, a % IdMod = n % IdMod
    PROVE  n = a
  <1> DEFINE p == a \div IdMod  q == n \div IdMod
  <1>1. /\ p \in Nat /\ q \in Nat /\ a = IdMod * p + (a % IdMod) /\ n = IdMod * q + (n % IdMod)
        /\ a % IdMod \in 0 .. IdMod - 1 /\ n % IdMod \in 0 .. IdMod - 1
    BY PartOfFacts DEF PacketIdValue
  <1>2. q = p \/ q = p + 1 \/ q = p - 1
    BY Adjacent, IdModAssumption
  <1>3. IdMod * (p + 1) = IdMod * p + IdMod /\ IdMod * (p - 1) = IdMod * p - IdMod
    BY <1>1, IdModAssumption
  <1> QED
    BY <1>1, <1>2, <1>3, IdModAssumption

\* impl Add<u16>: adding one leads to the pair of the next packet.
LEMMA PartOfNext ==
    ASSUME NEW n \in Nat, n + 1 < IdMod * GenMod
    PROVE  Plus(PartOf(n), 1) = PartOf(n + 1)
  <1> DEFINE p == n \div IdMod  i == n % IdMod
             q == (n + 1) \div IdMod  j == (n + 1) % IdMod
  <1>0. n < IdMod * GenMod /\ n + 1 \in Nat
    BY IdModAssumption, GenModAssumption
  <1>1. /\ p \in Nat /\ i \in 0 .. IdMod - 1 /\ n = IdMod * p + i /\ p \in 0 .. GenMod - 1
    BY <1>0, PartOfFacts DEF PacketIdValue, GenerationValue
  <1>2. /\ q \in Nat /\ j \in 0 .. IdMod - 1 /\ n + 1 = IdMod * q + j /\ q \in 0 .. GenMod - 1
    BY <1>0, PartOfFacts DEF PacketIdValue, GenerationValue
  <1>3. q = p \/ q = p + 1 \/ q = p - 1
    BY <1>0, Adjacent, IdModAssumption
  <1>4. IdMod * (p + 1) = IdMod * p + IdMod /\ IdMod * (p - 1) = IdMod * p - IdMod
    BY <1>1, IdModAssumption
  <1>5. p % GenMod = p /\ q % GenMod = q
    BY <1>1, <1>2, GenModAssumption
  <1>6. PartOf(n) = Part(p, i) /\ PartOf(n + 1) = Part(q, j)
    BY <1>5 DEF PartOf
  <1> HIDE DEF p, i, q, j
  <1>7. \/ i + 1 < IdMod /\ q = p /\ j = i + 1
        \/ i + 1 = IdMod /\ q = p + 1 /\ j = 0
    BY <1>1, <1>2, <1>3, <1>4, IdModAssumption
  <1>8. \/ i + 1 < IdMod /\ (i + 1) % IdMod = i + 1
        \/ i + 1 = IdMod /\ (i + 1) % IdMod = 0
    BY <1>1, IdModAssumption
  <1>9. Plus(Part(p, i), 1) = Part(q, j)
    <2>1. Part(p, i).packet_id = i /\ Part(p, i).generation_id = p
      BY DEF Part
    <2>2. (IF i + 1 >= IdMod THEN (p + 1) % GenMod ELSE p) = q /\ (i + 1) % IdMod = j
      BY <1>1, <1>5, <1>7, <1>8, IdModAssumption
    <2> QED
      BY <2>1, <2>2 DEF Plus
  <1> QED
    BY <1>6, <1>9

\* The converse of WindowAhead: whatever the network delivers, a packet that
\* in_receive_window accepts and that decrypts with the generation it returns
\* is one of the next Half packets.  No old packet is taken for a new one.
THEOREM WindowOnly ==
    ASSUME NEW a \in Nat, NEW n \in Nat, a + Half <= IdMod * GenMod, n < IdMod * GenMod,
           InReceiveWindow(PartOf(a), n % IdMod),
           WindowGeneration(PartOf(a), n % IdMod) = PartOf(n).generation_id
    PROVE  a <= n /\ n < a + Half
  <1> DEFINE p == a \div IdMod  i == a % IdMod  q == n \div IdMod  j == n % IdMod
  <1>0. a < IdMod * GenMod
    BY HalfFacts, IdModAssumption, GenModAssumption
  <1>1. /\ p \in Nat /\ q \in Nat /\ i \in 0 .. IdMod - 1 /\ j \in 0 .. IdMod - 1
        /\ a = IdMod * p + i /\ n = IdMod * q + j
        /\ p \in 0 .. GenMod - 1 /\ q \in 0 .. GenMod - 1
        /\ PartOf(a).generation_id = p /\ PartOf(a).packet_id = i
        /\ PartOf(n).generation_id = q
    BY <1>0, PartOfFacts DEF PacketIdValue, GenerationValue
  <1>2. IdMod * (p + 1) = IdMod * p + IdMod
    BY <1>1, IdModAssumption
  <1>3. \/ i + Half < IdMod /\ (i + Half) % IdMod = i + Half
        \/ i + Half >= IdMod /\ (i + Half) % IdMod = i + Half - IdMod
    BY <1>1, HalfFacts, IdModAssumption
  <1>4. i + Half > IdMod => p + 1 < GenMod
    <2>1. p + 1 >= GenMod => IdMod * (p + 1) >= IdMod * GenMod
      BY <1>1, IdModAssumption, GenModAssumption
    <2> QED
      BY <1>1, <1>2, <2>1, HalfFacts, IdModAssumption, GenModAssumption
  <1>5. p + 1 < GenMod => (p + 1) % GenMod = p + 1
    BY <1>1, GenModAssumption
  <1> HIDE DEF p, i, q, j
  <1>6. \/ q = p /\ i <= j /\ j < i + Half
        \/ q = p + 1 /\ j + IdMod < i + Half
    BY <1>1, <1>3, <1>4, <1>5, HalfFacts, IdModAssumption, GenModAssumption
    DEF InReceiveWindow, InIdWindow, WindowGeneration, WindowLimit, WindowOverflows, i, j
  <1> QED
    BY <1>1, <1>2, <1>6, HalfFacts, IdModAssumption

-----------------------------------------------------------------------------
(* What the theorems assume.                                               *)

\* The generation does not wrap (in the code after 2^48 packets).
NumbersFit == FirstId + MaxPackets + Half <= IdMod * GenMod

\* The ids do not wrap (in the code after 2^16 packets).
OneGeneration == FirstId + MaxPackets <= IdMod

\* No packet is left in receive_queue after its number was consumed and then
\* taken for a packet of a later generation: copies are not kept, or no two
\* packets have the same id.  README, section 7, shows what happens otherwise.
IdsDiffer == MaxPackets <= IdMod
NoStaleCopies == ~GapDuplicates \/ IdsDiffer

-----------------------------------------------------------------------------
(* The invariant of the receive path.                                      *)

\* The number of the first packet of the i-th command
Start(i) == IF i <= Len(sent) THEN sent[i][1] ELSE queued

\* Every command is the interval from its first packet to the next command.
Numbered ==
    /\ sent \in Seq(Seq(Nat))
    /\ Start(1) = FirstId
    /\ \A i \in 1 .. Len(sent) + 1 : Start(i) \in Nat
    /\ \A i, j \in 1 .. Len(sent) + 1 : i < j => Start(i) < Start(j)
    /\ \A i \in 1 .. Len(sent) : sent[i] = Interval(Start(i), Start(i + 1) - 1)

\* The commands that are complete, and the number of the packet that comes
\* next.
Finished == Len(delivered) + Len(packets)
Position == Start(Finished + 1) + Len(fragmented_queue)

\* What was delivered is what was sent, in this order.
DeliveredPart ==
    /\ delivered \in Seq(Seq(Nat))
    /\ Len(delivered) <= Len(sent)
    /\ \A i \in 1 .. Len(delivered) : delivered[i] = sent[i]

\* The same for what the loop has completed.
Continues(done) ==
    /\ done \in Seq(Seq(Nat))
    /\ Len(delivered) + Len(done) <= Len(sent)
    /\ \A i \in 1 .. Len(done) : done[i] = sent[Len(delivered) + i]

CompletedPart == Continues(packets)

\* The fragments so far are a proper beginning of the next command.
FragmentPart ==
    /\ fragmented_queue \in Seq(Nat)
    /\ fragmented_queue = Interval(Start(Finished + 1), Position - 1)
    /\ fragmented_queue # <<>> =>
         Finished < Len(sent) /\ Position < Start(Finished + 2)

\* The packet of the loop is the next one.
CurrentPart ==
    /\ incoming = PartOf(Position)
    /\ cur # None => cur = Position /\ cur \in transmitted

\* Packets wait behind a gap, each one once if copies are excluded.
WaitingPart ==
    /\ receive_queue \in Seq(transmitted)
    /\ \A i \in 1 .. Len(receive_queue) : receive_queue[i] > FirstId
    /\ \/ IdsDiffer
       \/ /\ \A i \in 1 .. Len(receive_queue) :
               receive_queue[i] > Position /\ receive_queue[i] < Position + Half
          /\ \A i, j \in 1 .. Len(receive_queue) : receive_queue[i] = receive_queue[j] => i = j

OrderInv ==
    /\ SenderTypeOK
    /\ Numbered
    /\ DeliveredPart
    /\ failed \in BOOLEAN /\ (failed => cur = None)
    /\ ~failed => CompletedPart /\ FragmentPart /\ CurrentPart /\ WaitingPart

-----------------------------------------------------------------------------
(* The invariant of the acknowledgements, before the ids wrap.             *)

\* The send queue never spans more than half of the ids. It may span more than
\* the receiver keeps.
Sized ==
    /\ OneGeneration
    /\ Backlog <= Half
    /\ \A k \in CommandSizes : k <= Backlog

\* The packets that the receiver has.
Got(n) ==
    \/ n \in FirstId .. Position - 1
    \/ n = cur /\ cur # None
    \/ \E i \in 1 .. Len(receive_queue) : n = receive_queue[i]

\* An ack on its way is for a packet that the receiver has, or for one from
\* before; and so is the one that is sent after the loop.
AcksKnown ==
    /\ \A a \in acks : /\ a \in [n : Nat, p_id : PacketIdValue]
                       /\ a.p_id < FirstId \/ Got(a.p_id)
    /\ cur # None => ack_id \in FirstId .. cur
    /\ cur = None => ack_id = None

\* A packet that left the send queue was received.  The queue is bounded.
SenderKnows ==
    /\ \A n \in FirstId .. queued - 1 : n \in unacked \/ Got(n)
    /\ \A n \in unacked : queued - n <= Backlog

\* What was consumed was transmitted; between two calls the next packet is
\* not in receive_queue.
GapIsReal ==
    /\ \A n \in FirstId .. Position - 1 : n \in transmitted
    /\ cur = None =>
         \A i \in 1 .. Len(receive_queue) : receive_queue[i] # Position

\* The types of what plays no part in the argument
CountersTyped ==
    /\ arrivals \in [Arrivable -> 0 .. MaxArrivals]
    /\ ack_count \in Nat /\ incoming_ack \in PartialPacketId

\* While the connection lives
AckInv == OrderInv /\ ~failed /\ AcksKnown /\ SenderKnows /\ GapIsReal /\ CountersTyped

\* What a receiver that has given up leaves behind
LeftTyped ==
    /\ incoming \in PartialPacketId
    /\ receive_queue \in Seq(transmitted) /\ fragmented_queue \in Seq(transmitted)
    /\ packets \in Seq(Seq(PacketNumber)) /\ ack_id \in PacketIdValue \cup {None}

\* The acks on their way are for packets that were sent.
AcksOld ==
    \A a \in acks : /\ a \in [n : Nat, p_id : PacketIdValue]
                    /\ a.p_id < FirstId \/ a.p_id \in transmitted

\* A packet that the receiver waited for is not acknowledged, and never will
\* be, while one was sent that lies MaxQueueLen ahead.
Overrun ==
    \E n \in unacked, m \in transmitted :
        m - n >= MaxQueueLen /\ \A a \in acks : a.p_id # n

TooLong == \E i \in 1 .. Len(sent) : Len(sent[i]) > MaxFragments + 1

\* After the receiver has given up
FailedInv ==
    /\ OrderInv /\ failed
    /\ CountersTyped /\ LeftTyped /\ AcksOld
    /\ Overrun \/ TooLong

LinkInv == AckInv \/ FailedInv

-----------------------------------------------------------------------------
(* The operators that the model is built from.                             *)

\* compress_and_split: the packets of a command have consecutive numbers.
LEMMA IntervalFacts ==
    ASSUME NEW f \in Nat, NEW l \in Int, l >= f - 1
    PROVE  /\ Interval(f, l) \in Seq(Nat)
           /\ Len(Interval(f, l)) = l - f + 1
           /\ \A i \in 1 .. l - f + 1 : Interval(f, l)[i] = f + i - 1
  <1>1. l - f + 1 \in Nat
    OBVIOUS
  <1>2. Interval(f, l) \in [1 .. l - f + 1 -> Nat]
    BY <1>1 DEF Interval
  <1>3. Interval(f, l) \in Seq(Nat)
    BY <1>1, <1>2, SeqDef
  <1> QED
    BY <1>1, <1>2, <1>3 DEF Interval

\* The next packet is appended.
LEMMA AppendInterval ==
    ASSUME NEW f \in Nat, NEW n \in Nat, f <= n
    PROVE  /\ Append(Interval(f, n - 1), n) = Interval(f, n)
           /\ Append(Interval(f, n - 1), n) \in Seq(Nat)
           /\ Len(Append(Interval(f, n - 1), n)) = Len(Interval(f, n - 1)) + 1
  <1> DEFINE s == Interval(f, n - 1)  t == Interval(f, n)
  <1>1. /\ s \in Seq(Nat) /\ Len(s) = n - f
        /\ \A i \in 1 .. n - f : s[i] = f + i - 1
    <2>1. n - 1 \in Int /\ n - 1 >= f - 1 /\ (n - 1) - f + 1 = n - f
      OBVIOUS
    <2>2. /\ s \in Seq(Nat) /\ Len(s) = (n - 1) - f + 1
          /\ \A i \in 1 .. (n - 1) - f + 1 : s[i] = f + i - 1
      BY <2>1, IntervalFacts
    <2> QED
      BY <2>1, <2>2
  <1>2. /\ t \in Seq(Nat) /\ Len(t) = n - f + 1
        /\ \A i \in 1 .. n - f + 1 : t[i] = f + i - 1
    BY IntervalFacts
  <1> HIDE DEF s, t
  <1>3. /\ Append(s, n) \in Seq(Nat) /\ Len(Append(s, n)) = n - f + 1
        /\ \A i \in 1 .. n - f : Append(s, n)[i] = s[i]
        /\ Append(s, n)[n - f + 1] = n
    BY <1>1, AppendProperties
  <1>4. \A i \in 1 .. n - f + 1 : Append(s, n)[i] = t[i]
    BY <1>1, <1>2, <1>3
  <1>5. Append(s, n) = t
    BY <1>2, <1>3, <1>4, SeqEqual
  <1> QED
    BY <1>1, <1>3, <1>5 DEF s, t

\* The search of handle_command_packet in receive_queue: it finds a packet
\* with the next id, or there is none.
LEMMA FollowingFacts ==
    ASSUME NEW S, receive_queue \in Seq(S), NEW id
    PROVE  \/ /\ FollowingPos(id) = 0
              /\ \A i \in 1 .. Len(receive_queue) :
                   receive_queue[i] % IdMod # (id + 1) % IdMod
           \/ /\ FollowingPos(id) # 0
              /\ FollowingPos(id) \in 1 .. Len(receive_queue)
              /\ receive_queue[FollowingPos(id)] % IdMod = (id + 1) % IdMod
  <1> DEFINE I == {i \in 1 .. Len(receive_queue) :
                     receive_queue[i] % IdMod = (id + 1) % IdMod}
  <1>1. FollowingPos(id) = IF I # {} THEN Min(I) ELSE 0
    BY DEF FollowingPos, SelectInSeq
  <1>2. CASE I = {}
    BY <1>1, <1>2
  <1>3. CASE I # {}
    <2>1. I \subseteq Nat
      OBVIOUS
    <2>2. \E n \in I : \A m \in I : n <= m
      BY <1>3, <2>1, SmallestNumber
    <2>3. Min(I) \in I
      BY <2>2 DEF Min
    <2> QED
      BY <1>1, <1>3, <2>3
  <1> QED
    BY <1>2, <1>3

\* Taking the packet at position p out of receive_queue.
LEMMA RemoveFacts ==
    ASSUME NEW S, NEW s \in Seq(S), NEW p \in 1 .. Len(s)
    PROVE  /\ RemoveAt(s, p) \in Seq(S)
           /\ Len(RemoveAt(s, p)) = Len(s) - 1
           /\ \A i \in 1 .. Len(s) - 1 :
                RemoveAt(s, p)[i] = IF i < p THEN s[i] ELSE s[i + 1]
  <1>1. Len(s) \in Nat
    BY LenProperties
  <1>2. /\ SubSeq(s, 1, p - 1) \in Seq(S)
        /\ Len(SubSeq(s, 1, p - 1)) = p - 1
        /\ \A i \in 1 .. p - 1 : SubSeq(s, 1, p - 1)[i] = s[i]
    BY <1>1, SubSeqProperties, ElementOfSeq
  <1>3. /\ SubSeq(s, p + 1, Len(s)) \in Seq(S)
        /\ Len(SubSeq(s, p + 1, Len(s))) = Len(s) - p
        /\ \A i \in 1 .. Len(s) - p : SubSeq(s, p + 1, Len(s))[i] = s[p + i]
    BY <1>1, SubSeqProperties, ElementOfSeq
  <1> DEFINE a == SubSeq(s, 1, p - 1)  b == SubSeq(s, p + 1, Len(s))
  <1> HIDE DEF a, b
  <1>4. RemoveAt(s, p) = a \o b
    BY DEF RemoveAt, a, b
  <1>5. /\ a \in Seq(S) /\ Len(a) = p - 1 /\ \A i \in 1 .. p - 1 : a[i] = s[i]
        /\ b \in Seq(S) /\ Len(b) = Len(s) - p /\ \A i \in 1 .. Len(s) - p : b[i] = s[p + i]
    BY <1>2, <1>3 DEF a, b
  <1>6. /\ a \o b \in Seq(S) /\ Len(a \o b) = Len(a) + Len(b)
        /\ \A i \in 1 .. Len(a) + Len(b) : (a \o b)[i] =
             IF i <= Len(a) THEN a[i] ELSE b[i - Len(a)]
    BY <1>5, ConcatProperties
  <1>7. ASSUME NEW i \in 1 .. Len(s) - 1
        PROVE  (a \o b)[i] = IF i < p THEN s[i] ELSE s[i + 1]
    <2>1. CASE i < p
      BY <1>1, <1>5, <1>6, <2>1
    <2>2. CASE i >= p
      <3>1. i - Len(a) = i - p + 1 /\ i - p + 1 \in 1 .. Len(s) - p /\ p + (i - p + 1) = i + 1
        BY <1>1, <1>5, <2>2
      <3>2. (a \o b)[i] = b[i - p + 1] /\ b[i - p + 1] = s[p + (i - p + 1)]
        BY <1>1, <1>5, <1>6, <2>2, <3>1
      <3> QED
        BY <1>1, <2>2, <3>1, <3>2
    <2>3. i < p \/ i >= p
      BY <1>1
    <2> QED
      BY <2>1, <2>2, <2>3
  <1> QED
    BY <1>1, <1>4, <1>5, <1>6, <1>7

\* The commands follow each other without a gap.
LEMMA StartFacts ==
    ASSUME Numbered
    PROVE  /\ Len(sent) \in Nat /\ DOMAIN sent = 1 .. Len(sent)
           /\ Start(1) = FirstId /\ Start(Len(sent) + 1) = queued
           /\ \A i \in 1 .. Len(sent) + 1 : Start(i) \in Nat
           /\ \A i, j \in 1 .. Len(sent) + 1 : i < j => Start(i) < Start(j)
           /\ \A i \in 1 .. Len(sent) :
                /\ sent[i] \in Seq(Nat) /\ Len(sent[i]) = Start(i + 1) - Start(i)
                /\ \A j \in 1 .. Len(sent[i]) : sent[i][j] = Start(i) + j - 1
  <1>1. Len(sent) \in Nat /\ DOMAIN sent = 1 .. Len(sent)
    BY LenProperties DEF Numbered
  <1>2. Start(Len(sent) + 1) = queued
    BY <1>1 DEF Start
  <1>3. /\ Start(1) = FirstId
        /\ \A i \in 1 .. Len(sent) + 1 : Start(i) \in Nat
        /\ \A i, j \in 1 .. Len(sent) + 1 : i < j => Start(i) < Start(j)
        /\ \A i \in 1 .. Len(sent) : sent[i] = Interval(Start(i), Start(i + 1) - 1)
    BY DEF Numbered
  <1>4. ASSUME NEW i \in 1 .. Len(sent)
        PROVE  /\ sent[i] \in Seq(Nat) /\ Len(sent[i]) = Start(i + 1) - Start(i)
               /\ \A j \in 1 .. Len(sent[i]) : sent[i][j] = Start(i) + j - 1
    <2>1. i \in 1 .. Len(sent) + 1 /\ i + 1 \in 1 .. Len(sent) + 1 /\ i < i + 1
      BY <1>1
    <2>2. Start(i) \in Nat /\ Start(i + 1) \in Nat /\ Start(i) < Start(i + 1)
      BY <1>3, <2>1
    <2> DEFINE f == Start(i)  l == Start(i + 1) - 1
    <2>3. f \in Nat /\ l \in Int /\ l >= f - 1 /\ sent[i] = Interval(f, l)
      BY <1>3, <2>2
    <2> HIDE DEF f, l
    <2>4. /\ sent[i] \in Seq(Nat) /\ Len(sent[i]) = l - f + 1
          /\ \A j \in 1 .. l - f + 1 : sent[i][j] = f + j - 1
      BY <2>3, IntervalFacts
    <2>5. l - f + 1 = Start(i + 1) - Start(i)
      BY <2>2 DEF f, l
    <2> QED
      BY <2>4, <2>5 DEF f
  <1> QED
    BY <1>1, <1>2, <1>3, <1>4

\* What FRAGMENTED on packet n says about the command that n belongs to, here
\* the one after the first k: it has several packets, and n is the first or
\* the last one.
LEMMA FlagFacts ==
    ASSUME Numbered, NEW k \in Nat, k < Len(sent), NEW n \in Nat,
           Start(k + 1) <= n, n < Start(k + 2)
    PROVE  Fragmented(n) <=> /\ Start(k + 2) > Start(k + 1) + 1
                             /\ n = Start(k + 1) \/ n = Start(k + 2) - 1
  <1>1. Len(sent) \in Nat /\ DOMAIN sent = 1 .. Len(sent)
    BY StartFacts
  <1>2. /\ \A i \in 1 .. Len(sent) + 1 : Start(i) \in Nat
        /\ \A i, j \in 1 .. Len(sent) + 1 : i < j => Start(i) < Start(j)
    BY StartFacts
  <1>3. k + 1 \in 1 .. Len(sent) + 1 /\ k + 2 \in 1 .. Len(sent) + 1 /\ (k + 1) + 1 = k + 2
    BY <1>1
  <1>4. ASSUME NEW i \in 1 .. Len(sent)
        PROVE  /\ Len(sent[i]) = Start(i + 1) - Start(i)
               /\ Head(sent[i]) = Start(i) /\ Last(sent[i]) = Start(i + 1) - 1
    <2>1. i \in 1 .. Len(sent) + 1 /\ i + 1 \in 1 .. Len(sent) + 1
      BY <1>1
    <2>2. Start(i) \in Nat /\ Start(i + 1) \in Nat /\ Start(i) < Start(i + 1)
      BY <1>2, <2>1
    <2>3. /\ sent[i] \in Seq(Nat) /\ Len(sent[i]) = Start(i + 1) - Start(i)
          /\ \A j \in 1 .. Len(sent[i]) : sent[i][j] = Start(i) + j - 1
      BY StartFacts
    <2>4. sent[i][1] = Start(i) /\ sent[i][Len(sent[i])] = Start(i + 1) - 1
      <3>1. 1 \in 1 .. Len(sent[i]) /\ Len(sent[i]) \in 1 .. Len(sent[i])
        BY <2>2, <2>3
      <3>2. sent[i][1] = Start(i) + 1 - 1
        BY <2>3, <3>1
      <3>3. sent[i][Len(sent[i])] = Start(i) + Len(sent[i]) - 1
        BY <2>3, <3>1
      <3> QED
        BY <2>2, <2>3, <3>2, <3>3
    <2>5. Head(sent[i]) = sent[i][1]
      OBVIOUS
    <2> QED
      BY <2>3, <2>4, <2>5 DEF Last
  <1>5. ASSUME NEW i \in 1 .. Len(sent), n = Start(i) \/ n = Start(i + 1) - 1
        PROVE  i = k + 1
    <2>1. i \in 1 .. Len(sent) + 1 /\ i + 1 \in 1 .. Len(sent) + 1
      BY <1>1
    <2>2. Start(i) \in Nat /\ Start(i + 1) \in Nat /\ Start(i) < Start(i + 1)
      BY <1>2, <2>1
    <2>3. i + 1 < k + 1 => Start(i + 1) < Start(k + 1)
      BY <1>2, <1>3, <2>1
    <2>4. k + 2 < i => Start(k + 2) < Start(i)
      BY <1>2, <1>3, <2>1
    <2>5. Start(k + 1) \in Nat /\ Start(k + 2) \in Nat
      BY <1>2, <1>3
    <2>6. CASE i < k + 1
      <3>1. Start(i + 1) <= Start(k + 1)
        BY <2>2, <2>3, <2>5, <2>6
      <3> QED
        BY <1>5, <2>2, <2>5, <3>1
    <2>7. CASE i > k + 1
      <3>1. Start(k + 2) <= Start(i)
        BY <2>2, <2>4, <2>5, <2>7
      <3> QED
        BY <1>5, <2>2, <2>5, <3>1
    <2> QED
      BY <2>6, <2>7
  <1>6. Fragmented(n) <=> \E i \in 1 .. Len(sent) :
                             /\ Start(i + 1) - Start(i) > 1
                             /\ n = Start(i) \/ n = Start(i + 1) - 1
    BY <1>1, <1>4 DEF Fragmented
  <1>7. k + 1 \in 1 .. Len(sent) /\ Start(k + 1) \in Nat /\ Start(k + 2) \in Nat
    BY <1>1, <1>2, <1>3
  <1> QED
    BY <1>3, <1>5, <1>6, <1>7

\* The packet that comes next, if it was queued, belongs to the first command
\* that is not complete.
LEMMA PositionFacts ==
    ASSUME OrderInv, ~failed
    PROVE  /\ Len(sent) \in Nat /\ Finished \in 0 .. Len(sent)
           /\ Start(Finished + 1) \in Nat /\ queued \in Nat
           /\ Position \in FirstId .. queued
           /\ Len(fragmented_queue) \in Nat
           /\ Position < queued => /\ Finished < Len(sent)
                                   /\ Start(Finished + 2) \in Nat
                                   /\ Position < Start(Finished + 2)
  <1>1. /\ Len(sent) \in Nat /\ Len(delivered) \in Nat /\ Len(packets) \in Nat
        /\ Len(fragmented_queue) \in Nat
        /\ fragmented_queue # <<>> <=> Len(fragmented_queue) > 0
    BY LenProperties, EmptySeq
    DEF OrderInv, Numbered, DeliveredPart, CompletedPart, Continues, FragmentPart
  <1>2. Finished \in 0 .. Len(sent)
    BY <1>1 DEF OrderInv, CompletedPart, Continues, Finished
  <1>3. /\ \A i \in 1 .. Len(sent) + 1 : Start(i) \in Nat /\ Start(i) >= FirstId
        /\ \A i \in 1 .. Len(sent) + 1 : Start(i) <= queued
        /\ Start(Len(sent) + 1) = queued /\ queued \in Nat
    <2>1. /\ Start(1) = FirstId /\ Start(Len(sent) + 1) = queued
          /\ \A i \in 1 .. Len(sent) + 1 : Start(i) \in Nat
          /\ \A i, j \in 1 .. Len(sent) + 1 : i < j => Start(i) < Start(j)
      BY StartFacts DEF OrderInv
    <2>2. 1 \in 1 .. Len(sent) + 1 /\ Len(sent) + 1 \in 1 .. Len(sent) + 1
      BY <1>1
    <2>3. \A i \in 1 .. Len(sent) + 1 :
            /\ i = 1 \/ Start(1) < Start(i)
            /\ i = Len(sent) + 1 \/ Start(i) < Start(Len(sent) + 1)
      BY <1>1, <2>1, <2>2
    <2> QED
      BY <1>1, <2>1, <2>2, <2>3, FirstIdAssumption
  <1>4. CASE fragmented_queue = <<>>
    <2>1. Position = Start(Finished + 1)
      BY <1>1, <1>2, <1>3, <1>4 DEF Position
    <2>2. Position < queued => Finished < Len(sent)
      BY <1>2, <1>3, <2>1
    <2>3. Finished < Len(sent) => Start(Finished + 2) \in Nat /\ Position < Start(Finished + 2)
      <3>1. \A i, j \in 1 .. Len(sent) + 1 : i < j => Start(i) < Start(j)
        BY StartFacts DEF OrderInv
      <3>2. Finished < Len(sent) => /\ Finished + 1 \in 1 .. Len(sent) + 1
                                    /\ Finished + 2 \in 1 .. Len(sent) + 1
                                    /\ Finished + 1 < Finished + 2
        BY <1>1, <1>2
      <3> QED
        BY <1>3, <2>1, <3>1, <3>2
    <2> QED
      BY <1>1, <1>2, <1>3, <2>1, <2>2, <2>3, FirstIdAssumption
  <1>5. CASE fragmented_queue # <<>>
    <2>1. Finished < Len(sent) /\ Position < Start(Finished + 2)
      BY <1>5 DEF OrderInv, FragmentPart
    <2>2. Start(Finished + 2) \in Nat /\ Start(Finished + 2) <= queued
      BY <1>1, <1>2, <1>3, <2>1
    <2>3. Start(Finished + 1) \in Nat /\ Start(Finished + 1) >= FirstId
      BY <1>1, <1>2, <1>3
    <2> QED
      BY <1>1, <1>2, <1>3, <2>1, <2>2, <2>3, FirstIdAssumption DEF Position
  <1> QED
    BY <1>4, <1>5

-----------------------------------------------------------------------------
(* One iteration of the loop of handle_command_packet.                     *)

\* A packet in receive_queue that has the id after the current one is the
\* packet after the current one.
LEMMA WaitingMatch ==
    ASSUME OrderInv, ~failed, NumbersFit, Position < queued,
           NEW i \in 1 .. Len(receive_queue),
           receive_queue[i] % IdMod = (Position + 1) % IdMod
    PROVE  receive_queue[i] = Position + 1
  <1> DEFINE m == receive_queue[i]
  <1>1. /\ Position \in Nat /\ queued \in Nat /\ Position >= FirstId
        /\ queued <= FirstId + MaxPackets /\ FirstId + MaxPackets \in Nat
    BY PositionFacts, FirstIdAssumption, MaxPacketsAssumption DEF OrderInv, SenderTypeOK
  <1>2. m \in transmitted /\ m \in FirstId .. queued - 1 /\ m > FirstId
    BY ElementOfSeq DEF OrderInv, WaitingPart, SenderTypeOK
  <1>3. IdMod * GenMod \in Nat /\ Half \in Nat /\ Half >= 1 /\ Half < IdMod
    BY HalfFacts, IdModAssumption, GenModAssumption
  <1>4. Position + 1 < IdMod * GenMod /\ m < IdMod * GenMod
    BY <1>1, <1>2, <1>3 DEF NumbersFit
  <1>5. CASE IdsDiffer
    <2>1. CASE m <= Position + 1
      <3>1. m \in Nat /\ Position + 1 \in Nat /\ Position + 1 < m + IdMod
        BY <1>1, <1>2, <1>5, FirstIdAssumption, MaxPacketsAssumption, IdModAssumption DEF IdsDiffer
      <3> QED
        BY <1>4, <2>1, <3>1, SameId
    <2>2. CASE Position + 1 <= m
      <3>1. m \in Nat /\ Position + 1 \in Nat /\ m < (Position + 1) + IdMod
        BY <1>1, <1>2, <1>5, FirstIdAssumption, MaxPacketsAssumption, IdModAssumption DEF IdsDiffer
      <3> QED
        BY <1>4, <2>2, <3>1, SameId
    <2> QED
      BY <1>1, <1>2, <2>1, <2>2, FirstIdAssumption
  <1>6. CASE m > Position /\ m < Position + Half
    <2>1. /\ Position + 1 \in Nat /\ m \in Nat /\ Position + 1 <= m
          /\ m < (Position + 1) + IdMod /\ Position + 1 < IdMod * GenMod
      BY <1>1, <1>2, <1>3, <1>4, <1>6, FirstIdAssumption, IdModAssumption
    <2> QED
      BY <1>4, <2>1, SameId
  <1> QED
    BY <1>5, <1>6 DEF OrderInv, WaitingPart

\* The id after the current one, as the loop computes it.
LEMMA NextIdOf ==
    ASSUME NEW n \in Nat PROVE ((n % IdMod) + 1) % IdMod = (n + 1) % IdMod
  <1> DEFINE q == n \div IdMod  r == n % IdMod
  <1>1. q \in Nat /\ r \in 0 .. IdMod - 1 /\ n = IdMod * q + r
    BY IdModAssumption
  <1>2. n + 1 = IdMod * q + (r + 1)
    BY <1>1, IdModAssumption
  <1> HIDE DEF q, r
  <1>3. (IdMod * q + (r + 1)) % IdMod = (r + 1) % IdMod
    BY <1>1, IdModAssumption
  <1> QED
    BY <1>2, <1>3 DEF r

\* The end of an iteration: the loop goes on with the packet after the current
\* one or ends, and no packet that was consumed is left behind.
LEMMA WaitingStep ==
    ASSUME OrderInv, ~failed, NumbersFit, NoStaleCopies, cur # None,
           NEW done, NextIteration(done),
           Position' = Position + 1, UNCHANGED senderVars
    PROVE  /\ WaitingPart'
           /\ cur' # None => cur' = Position' /\ cur' \in transmitted'
  <1>1. /\ cur = Position /\ Position \in Nat /\ Position < queued /\ transmitted' = transmitted
    BY PositionFacts, FirstIdAssumption DEF OrderInv, CurrentPart, SenderTypeOK, senderVars
  <1>2. /\ receive_queue \in Seq(transmitted) /\ Len(receive_queue) \in Nat
        /\ \A i \in 1 .. Len(receive_queue) : receive_queue[i] \in Nat
    <2>1. receive_queue \in Seq(transmitted) /\ transmitted \subseteq Nat
      BY FirstIdAssumption DEF OrderInv, WaitingPart, SenderTypeOK
    <2> QED
      BY <2>1, LenProperties, ElementOfSeq
  <1> DEFINE pos == FollowingPos(cur % IdMod)
  <1>3. ((cur % IdMod) + 1) % IdMod = (Position + 1) % IdMod
    BY <1>1, NextIdOf
  <1>4. \/ /\ pos = 0
           /\ \A i \in 1 .. Len(receive_queue) :
                receive_queue[i] % IdMod # (Position + 1) % IdMod
        \/ /\ pos # 0 /\ pos \in 1 .. Len(receive_queue)
           /\ receive_queue[pos] % IdMod = (Position + 1) % IdMod
    BY <1>2, <1>3, FollowingFacts
  <1> HIDE DEF pos
  <1>5. \/ pos # 0 /\ cur' = receive_queue[pos] /\ receive_queue' = RemoveAt(receive_queue, pos)
        \/ pos = 0 /\ cur' = None /\ receive_queue' = receive_queue
    BY DEF NextIteration, pos
  <1>6. CASE pos # 0
    <2>1. /\ pos \in 1 .. Len(receive_queue)
          /\ cur' = Position + 1 /\ receive_queue[pos] = Position + 1 /\ cur' \in transmitted
      BY <1>1, <1>2, <1>4, <1>5, <1>6, WaitingMatch, ElementOfSeq
    <2>2. /\ receive_queue' \in Seq(transmitted)
          /\ Len(receive_queue') = Len(receive_queue) - 1
          /\ \A i \in 1 .. Len(receive_queue) - 1 :
               receive_queue'[i] = IF i < pos THEN receive_queue[i] ELSE receive_queue[i + 1]
      BY <1>2, <1>5, <1>6, <2>1, RemoveFacts
    <2>3. \A i \in 1 .. Len(receive_queue') : \E j \in 1 .. Len(receive_queue) :
            j = (IF i < pos THEN i ELSE i + 1) /\ j # pos /\ receive_queue'[i] = receive_queue[j]
      BY <1>2, <2>1, <2>2
    <2>4. \A i \in 1 .. Len(receive_queue') : receive_queue'[i] > FirstId
      BY <2>3 DEF OrderInv, WaitingPart
    <2>5. ASSUME \A i \in 1 .. Len(receive_queue) :
                   receive_queue[i] > Position /\ receive_queue[i] < Position + Half,
                 \A i, j \in 1 .. Len(receive_queue) :
                   receive_queue[i] = receive_queue[j] => i = j
          PROVE  /\ \A i \in 1 .. Len(receive_queue') :
                      receive_queue'[i] > Position' /\ receive_queue'[i] < Position' + Half
                 /\ \A i, j \in 1 .. Len(receive_queue') :
                      receive_queue'[i] = receive_queue'[j] => i = j
      <3>1. ASSUME NEW i \in 1 .. Len(receive_queue')
            PROVE  receive_queue'[i] > Position' /\ receive_queue'[i] < Position' + Half
        <4>1. PICK j \in 1 .. Len(receive_queue) : j # pos /\ receive_queue'[i] = receive_queue[j]
          BY <2>3
        <4>2. receive_queue[j] # receive_queue[pos]
          BY <2>1, <2>5, <4>1
        <4> QED
          BY <1>1, <1>2, <2>1, <2>5, <4>1, <4>2, HalfFacts
      <3>2. ASSUME NEW i \in 1 .. Len(receive_queue'), NEW j \in 1 .. Len(receive_queue'),
                   receive_queue'[i] = receive_queue'[j]
            PROVE  i = j
        <4>1. (IF i < pos THEN i ELSE i + 1) = (IF j < pos THEN j ELSE j + 1)
          BY <2>3, <2>5, <3>2
        <4> QED
          BY <1>2, <2>1, <2>2, <4>1
      <3> QED
        BY <3>1, <3>2
    <2> QED
      BY <1>1, <2>1, <2>2, <2>4, <2>5 DEF OrderInv, WaitingPart
  <1>7. CASE pos = 0
    <2>1. /\ cur' = None /\ receive_queue' = receive_queue
          /\ \A i \in 1 .. Len(receive_queue) : receive_queue[i] # Position + 1
      BY <1>4, <1>5, <1>7
    <2>2. \A i \in 1 .. Len(receive_queue) :
            receive_queue[i] > Position /\ receive_queue[i] < Position + Half
              => receive_queue[i] > Position' /\ receive_queue[i] < Position' + Half
      BY <1>1, <1>2, <2>1, HalfFacts
    <2> QED
      BY <1>1, <2>1, <2>2 DEF OrderInv, WaitingPart
  <1> QED
    BY <1>6, <1>7

\* The end of an iteration, for the commands that are complete: they are kept
\* in packets, or all of them are delivered, as the channel allows.
LEMMA CompletedStep ==
    ASSUME Numbered, DeliveredPart, NEW done, Continues(done), NextIteration(done),
           UNCHANGED sent
    PROVE  /\ DeliveredPart' /\ CompletedPart'
           /\ Finished' = Len(delivered) + Len(done)
           /\ \/ delivered' = delivered
              \/ \E k \in 1 .. Len(sent) : Channel!Deliver(k)
  <1>1. /\ Len(delivered) \in Nat /\ Len(done) \in Nat /\ Len(sent) \in Nat
        /\ delivered \in Seq(Seq(Nat)) /\ done \in Seq(Seq(Nat)) /\ sent \in Seq(Seq(Nat))
    BY LenProperties DEF Numbered, DeliveredPart, Continues
  <1>2. CASE packets' = done /\ delivered' = delivered
    BY <1>1, <1>2 DEF DeliveredPart, CompletedPart, Continues, Finished
  <1>3. CASE packets' = <<>> /\ delivered' = delivered \o done
    <2>1. /\ delivered' \in Seq(Seq(Nat)) /\ Len(delivered') = Len(delivered) + Len(done)
          /\ \A i \in 1 .. Len(delivered) + Len(done) : delivered'[i] =
               IF i <= Len(delivered) THEN delivered[i] ELSE done[i - Len(delivered)]
      BY <1>1, <1>3, ConcatProperties
    <2>2. ASSUME NEW i \in 1 .. Len(delivered') PROVE delivered'[i] = sent[i]
      <3>1. CASE i <= Len(delivered)
        <4>1. i \in 1 .. Len(delivered) /\ delivered'[i] = delivered[i]
          BY <1>1, <2>1, <3>1
        <4> QED
          BY <4>1 DEF DeliveredPart
      <3>2. CASE i > Len(delivered)
        <4>1. /\ i - Len(delivered) \in 1 .. Len(done)
              /\ Len(delivered) + (i - Len(delivered)) = i
          BY <1>1, <2>1, <3>2
        <4>2. delivered'[i] = done[i - Len(delivered)]
          BY <1>1, <2>1, <3>2
        <4> QED
          BY <4>1, <4>2 DEF Continues
      <3> QED
        BY <1>1, <2>1, <3>1, <3>2
    <2>3. DeliveredPart'
      BY <1>1, <2>1, <2>2 DEF DeliveredPart, Continues
    <2>4. packets' \in Seq(Seq(Nat)) /\ Len(packets') = 0
      BY <1>3, EmptySeq
    <2>5. CompletedPart' /\ Finished' = Len(delivered) + Len(done)
      BY <1>1, <2>1, <2>4 DEF CompletedPart, Continues, Finished
    <2>6. CASE Len(done) = 0
      <3>1. done = <<>>
        BY <1>1, <2>6, EmptySeq
      <3>2. delivered' = delivered
        BY <1>1, <1>3, <3>1, ConcatEmptySeq
      <3> QED
        BY <2>3, <2>5, <3>2
    <2>7. CASE Len(done) # 0
      <3> DEFINE part == SubSeq(sent, Len(delivered) + 1, Len(delivered) + Len(done))
      <3>1. /\ Len(done) \in 1 .. Len(sent)
            /\ Len(delivered) + Len(done) <= Len(sent)
        BY <1>1, <2>7 DEF Continues
      <3>2. \A i \in Len(delivered) + 1 .. Len(delivered) + Len(done) : sent[i] \in Seq(Nat)
        BY <1>1, <3>1, ElementOfSeq
      <3>3. /\ part \in Seq(Seq(Nat)) /\ Len(part) = Len(done)
            /\ \A i \in 1 .. Len(done) : part[i] = sent[Len(delivered) + i]
        <4> DEFINE m == Len(delivered) + 1  n == Len(delivered) + Len(done)
        <4>1. m \in Int /\ n \in Int /\ \A i \in m .. n : sent[i] \in Seq(Nat)
          BY <1>1, <3>2
        <4>2. /\ part \in Seq(Seq(Nat))
              /\ Len(part) = IF m <= n THEN n - m + 1 ELSE 0
              /\ \A i \in 1 .. n - m + 1 : part[i] = sent[m + i - 1]
          BY <4>1, SubSeqProperties
        <4>3. m <= n /\ n - m + 1 = Len(done) /\ \A i \in Int : m + i - 1 = Len(delivered) + i
          BY <1>1, <3>1
        <4> QED
          BY <1>1, <4>2, <4>3
      <3>4. part = done
        BY <1>1, <3>3, SeqEqual DEF Continues
      <3>5. Channel!Deliver(Len(done))
        BY <1>3, <3>1, <3>4 DEF Channel!Deliver
      <3> QED
        BY <2>3, <2>5, <3>1, <3>5
    <2> QED
      BY <2>6, <2>7
  <1> QED
    BY <1>2, <1>3 DEF NextIteration

\* An iteration that consumes the packet at Position, whatever it does with
\* it, keeps the invariant if the fragments fit.
LEMMA IterationKeeps ==
    ASSUME OrderInv, ~failed, NumbersFit, NoStaleCopies, LoopStep, UNCHANGED failed,
           NEW done, Continues(done), NextIteration(done),
           NEW start, start = Start(Len(delivered) + Len(done) + 1),
           fragmented_queue' \in Seq(Nat),
           start + Len(fragmented_queue') = Position + 1,
           fragmented_queue' = Interval(start, Position),
           fragmented_queue' # <<>> =>
             /\ Len(delivered) + Len(done) < Len(sent)
             /\ Position + 1 < Start(Len(delivered) + Len(done) + 2)
    PROVE  /\ OrderInv' /\ Position' = Position + 1
           /\ \/ delivered' = delivered
              \/ \E k \in 1 .. Len(sent) : Channel!Deliver(k)
  <1>1. /\ sent' = sent /\ queued' = queued /\ senderVars' = senderVars /\ cur # None
        /\ unacked' = unacked /\ transmitted' = transmitted
        /\ incoming' = Plus(incoming, 1) /\ failed' = failed
    BY DEF LoopStep, senderVars
  <1>2. /\ DeliveredPart' /\ CompletedPart' /\ Finished' = Len(delivered) + Len(done)
        /\ \/ delivered' = delivered
           \/ \E k \in 1 .. Len(sent) : Channel!Deliver(k)
    BY <1>1, CompletedStep DEF OrderInv
  <1>3. SenderTypeOK' /\ Numbered'
    BY <1>1 DEF OrderInv, SenderTypeOK, Numbered, Start
  <1>4. /\ Start(Finished + 1)' = start
        /\ Start(Finished + 2)' = Start(Len(delivered) + Len(done) + 2)
        /\ Position' = Position + 1
    BY <1>1, <1>2 DEF Start, Position
  <1>5. Position \in Nat /\ Position + 1 - 1 = Position
    BY PositionFacts, FirstIdAssumption
  <1>6. FragmentPart'
    BY <1>1, <1>2, <1>4, <1>5 DEF FragmentPart
  <1>7. incoming' = PartOf(Position')
    <2>1. Position < queued
      <3>1. Position \in FirstId .. queued - 1 /\ queued \in Nat
        BY <1>1, PositionFacts DEF OrderInv, CurrentPart, SenderTypeOK
      <3> QED
        BY <3>1, FirstIdAssumption
    <2>2. Position + 1 < IdMod * GenMod
      BY <1>5, <2>1, HalfFacts, FirstIdAssumption, MaxPacketsAssumption, IdModAssumption,
         GenModAssumption DEF OrderInv, SenderTypeOK, NumbersFit
    <2> QED
      BY <1>1, <1>4, <1>5, <2>2, PartOfNext DEF OrderInv, CurrentPart
  <1>8. WaitingPart' /\ (cur' # None => cur' = Position' /\ cur' \in transmitted')
    BY <1>1, <1>4, WaitingStep
  <1> QED
    BY <1>1, <1>2, <1>3, <1>4, <1>6, <1>7, <1>8 DEF OrderInv, CurrentPart

\* What the loop knows about the packet it handles: where its command starts
\* and ends, and what its FRAGMENTED flag says.
LEMMA CurrentFacts ==
    ASSUME OrderInv, ~failed, cur # None
    PROVE  LET first == Start(Finished + 1)  next == Start(Finished + 2)
           IN  /\ cur = Position /\ Finished \in Nat /\ Finished < Len(sent)
               /\ Len(sent) \in Nat /\ Len(fragmented_queue) \in Nat
               /\ first \in Nat /\ next \in Nat /\ first <= cur /\ cur < next
               /\ cur = first + Len(fragmented_queue)
               /\ Finished = Len(delivered) + Len(packets)
               /\ Len(delivered) \in Nat /\ Len(packets) \in Nat
               /\ Fragmented(cur) <=> next > first + 1 /\ (cur = first \/ cur = next - 1)
  <1>1. cur = Position /\ Position < queued
    <2>1. cur = Position /\ Position \in FirstId .. queued - 1 /\ queued \in Nat
      BY PositionFacts DEF OrderInv, CurrentPart, SenderTypeOK
    <2> QED
      BY <2>1, FirstIdAssumption
  <1>2. /\ Len(sent) \in Nat /\ Finished \in Nat /\ Finished < Len(sent)
        /\ Start(Finished + 1) \in Nat /\ Start(Finished + 2) \in Nat
        /\ Position < Start(Finished + 2) /\ Len(fragmented_queue) \in Nat
    BY <1>1, PositionFacts
  <1>3. cur = Start(Finished + 1) + Len(fragmented_queue)
    BY <1>1 DEF Position
  <1>4. Start(Finished + 1) <= cur /\ cur \in Nat
    BY <1>2, <1>3
  <1>5. Len(delivered) \in Nat /\ Len(packets) \in Nat
    BY LenProperties DEF OrderInv, DeliveredPart, CompletedPart, Continues
  <1>6. Fragmented(cur) <=> /\ Start(Finished + 2) > Start(Finished + 1) + 1
                            /\ cur = Start(Finished + 1) \/ cur = Start(Finished + 2) - 1
    BY <1>1, <1>2, <1>4, FlagFacts DEF OrderInv
  <1> QED
    BY <1>1, <1>2, <1>3, <1>4, <1>5, <1>6 DEF Finished

\* A command that is complete is appended to packets.
LEMMA OneMore ==
    ASSUME OrderInv, ~failed, Finished < Len(sent), NEW c, c = sent[Finished + 1]
    PROVE  Continues(Append(packets, c)) /\ Len(Append(packets, c)) = Len(packets) + 1
  <1>1. /\ packets \in Seq(Seq(Nat)) /\ Len(packets) \in Nat /\ Len(delivered) \in Nat
        /\ Len(sent) \in Nat /\ sent \in Seq(Seq(Nat))
        /\ \A i \in 1 .. Len(packets) : packets[i] = sent[Len(delivered) + i]
        /\ Finished = Len(delivered) + Len(packets)
    BY LenProperties
    DEF OrderInv, DeliveredPart, CompletedPart, Continues, Numbered, Finished
  <1>2. c \in Seq(Nat)
    BY <1>1, ElementOfSeq
  <1>3. /\ Append(packets, c) \in Seq(Seq(Nat)) /\ Len(Append(packets, c)) = Len(packets) + 1
        /\ \A i \in 1 .. Len(packets) : Append(packets, c)[i] = packets[i]
        /\ Append(packets, c)[Len(packets) + 1] = c
    BY <1>1, <1>2, AppendProperties
  <1>4. ASSUME NEW i \in 1 .. Len(packets) + 1
        PROVE  Append(packets, c)[i] = sent[Len(delivered) + i]
    <2>1. CASE i = Len(packets) + 1
      <3>1. Len(delivered) + i = Finished + 1
        BY <1>1, <2>1
      <3> QED
        BY <1>3, <2>1, <3>1
    <2>2. CASE i \in 1 .. Len(packets)
      BY <1>1, <1>3, <2>2
    <2> QED
      BY <1>1, <2>1, <2>2
  <1>5. Len(delivered) + (Len(packets) + 1) <= Len(sent)
    BY <1>1
  <1> QED
    BY <1>3, <1>4, <1>5 DEF Continues

\* handle_command_packet keeps the invariant and delivers in order.  It
\* consumes one packet, or fails because a command has too many fragments.
LEMMA HandleKeeps ==
    ASSUME OrderInv, NumbersFit, NoStaleCopies, HandleCommandPacket
    PROVE  /\ OrderInv' /\ UNCHANGED sent
           /\ \/ delivered' = delivered
              \/ \E k \in 1 .. Len(sent) : Channel!Deliver(k)
           /\ \/ /\ UNCHANGED failed /\ Position' = Position + 1
                 /\ \E done : NextIteration(done)
              \/ /\ failed' = TRUE /\ cur' = None /\ ack_id' = None /\ packets' = <<>>
                 /\ UNCHANGED <<fragmented_queue, receive_queue, delivered, ackVars>>
                 /\ TooLong
  <1> DEFINE first == Start(Finished + 1)  next == Start(Finished + 2)
  <1>1. LoopStep /\ cur # None /\ ~failed /\ UNCHANGED sent
    BY DEF HandleCommandPacket, HandleWhole, HandleFirstFragment, HandleMiddleFragment,
       HandleLastFragment, LoopStep, OrderInv
  <1>2. /\ cur = Position /\ Finished \in Nat /\ Finished < Len(sent)
        /\ Len(sent) \in Nat /\ Len(fragmented_queue) \in Nat
        /\ first \in Nat /\ next \in Nat /\ first <= cur /\ cur < next
        /\ cur = first + Len(fragmented_queue)
        /\ Finished = Len(delivered) + Len(packets)
        /\ Len(delivered) \in Nat /\ Len(packets) \in Nat
        /\ Fragmented(cur) <=> next > first + 1 /\ (cur = first \/ cur = next - 1)
    BY <1>1, CurrentFacts
  <1>3. /\ fragmented_queue \in Seq(Nat) /\ fragmented_queue = Interval(first, cur - 1)
        /\ fragmented_queue = <<>> <=> Len(fragmented_queue) = 0
    BY <1>1, <1>2, EmptySeq DEF OrderInv, FragmentPart
  <1>4. sent[Finished + 1] = Interval(first, next - 1)
    BY <1>2 DEF OrderInv, Numbered
  <1>5. Continues(packets)
    BY <1>1 DEF OrderInv, CompletedPart
  <1> HIDE DEF first, next
  <1>11. /\ ~Fragmented(cur) => next = first + 1 \/ (cur # first /\ cur # next - 1)
         /\ Fragmented(cur) => next > first + 1 /\ (cur = first \/ cur = next - 1)
    BY <1>2
  <1>12. /\ Append(fragmented_queue, cur) = Interval(first, cur)
         /\ Append(fragmented_queue, cur) \in Seq(Nat)
         /\ Len(Append(fragmented_queue, cur)) = Len(fragmented_queue) + 1
    <2>1. cur \in Nat
      BY <1>2
    <2> QED
      BY <1>2, <1>3, <2>1, AppendInterval
  <1>6. CASE HandleWhole
    <2>1. next = first + 1 /\ cur = first /\ fragmented_queue = <<>>
      <3>1. ~Fragmented(cur) /\ fragmented_queue = <<>>
        BY <1>6 DEF HandleWhole
      <3>2. Len(fragmented_queue) = 0
        BY <1>3, <3>1
      <3>3. cur = first
        BY <1>2, <3>2
      <3> QED
        BY <1>11, <3>1, <3>3
    <2>2. <<cur>> = sent[Finished + 1]
      BY <1>2, <1>4, <2>1 DEF Interval
    <2> DEFINE done == Append(packets, <<cur>>)
    <2>3. Continues(done) /\ Len(done) = Len(packets) + 1
      BY <1>1, <1>2, <2>2, OneMore
    <2>4. /\ NextIteration(done) /\ fragmented_queue' = <<>> /\ UNCHANGED failed
      BY <1>6, <2>1 DEF HandleWhole
    <2>5. next = Start(Len(delivered) + Len(done) + 1)
      <3>1. Len(delivered) + Len(done) + 1 = Finished + 2
        BY <1>2, <2>3
      <3> QED
        BY <3>1 DEF next
    <2>6. /\ fragmented_queue' \in Seq(Nat) /\ Len(fragmented_queue') = 0
      BY <2>4, EmptySeq
    <2>7. fragmented_queue' = Interval(next, Position)
      BY <1>2, <2>1, <2>4 DEF Interval
    <2>8. next + Len(fragmented_queue') = Position + 1
      BY <1>2, <2>1, <2>6
    <2> HIDE DEF done
    <2> QED
      BY <1>1, <2>3, <2>4, <2>5, <2>6, <2>7, <2>8, IterationKeeps
  <1>7. CASE HandleFirstFragment
    <2>1. next > first + 1 /\ cur = first /\ fragmented_queue = <<>>
      <3>1. Fragmented(cur) /\ fragmented_queue = <<>>
        BY <1>7 DEF HandleFirstFragment
      <3>2. Len(fragmented_queue) = 0
        BY <1>3, <3>1
      <3>3. cur = first
        BY <1>2, <3>2
      <3> QED
        BY <1>11, <3>1, <3>3
    <2>2. /\ NextIteration(packets) /\ fragmented_queue' = <<cur>> /\ UNCHANGED failed
      BY <1>7 DEF HandleFirstFragment
    <2>3. /\ Start(Len(delivered) + Len(packets) + 1) = first
          /\ Start(Len(delivered) + Len(packets) + 2) = next
      BY <1>2 DEF first, next
    <2>4. /\ fragmented_queue' \in Seq(Nat) /\ Len(fragmented_queue') = 1
      BY <1>2, <2>2
    <2>5. fragmented_queue' = Interval(first, Position)
      BY <1>2, <2>1, <2>2 DEF Interval
    <2>6. first + Len(fragmented_queue') = Position + 1 /\ Position + 1 < next
      BY <1>2, <2>1, <2>4
    <2> QED
      BY <1>1, <1>2, <1>5, <2>2, <2>3, <2>4, <2>5, <2>6, IterationKeeps
  <1>8. CASE HandleMiddleFragment /\ Len(fragmented_queue) < MaxFragments
    <2>1. next > cur + 1 /\ Len(fragmented_queue) > 0
      <3>1. ~Fragmented(cur) /\ fragmented_queue # <<>>
        BY <1>8 DEF HandleMiddleFragment
      <3> QED
        BY <1>2, <1>3, <1>11, <3>1
    <2>2. /\ NextIteration(packets) /\ fragmented_queue' = Append(fragmented_queue, cur)
          /\ UNCHANGED failed
      BY <1>2, <1>8, LinkAssumption DEF HandleMiddleFragment
    <2>3. /\ Start(Len(delivered) + Len(packets) + 1) = first
          /\ Start(Len(delivered) + Len(packets) + 2) = next
      BY <1>2 DEF first, next
    <2>4. /\ fragmented_queue' \in Seq(Nat)
          /\ Len(fragmented_queue') = Len(fragmented_queue) + 1
          /\ fragmented_queue' = Interval(first, Position)
      BY <1>2, <1>12, <2>2
    <2>5. first + Len(fragmented_queue') = Position + 1 /\ Position + 1 < next
      BY <1>2, <2>1, <2>4
    <2> QED
      BY <1>1, <1>2, <1>5, <2>2, <2>3, <2>4, <2>5, IterationKeeps
  <1>9. CASE HandleMiddleFragment /\ Len(fragmented_queue) >= MaxFragments
    <2>1. /\ failed' = TRUE /\ cur' = None /\ UNCHANGED <<delivered, senderVars, sent>>
          /\ ack_id' = None /\ packets' = <<>>
          /\ UNCHANGED <<fragmented_queue, receive_queue, delivered, ackVars>>
      BY <1>1, <1>2, <1>9, LinkAssumption DEF HandleMiddleFragment, LoopStep
    <2>2. OrderInv'
      BY <2>1 DEF OrderInv, SenderTypeOK, Numbered, Start, DeliveredPart, senderVars
    <2>3. next > cur + 1
      <3>1. ~Fragmented(cur) /\ fragmented_queue # <<>>
        BY <1>9 DEF HandleMiddleFragment
      <3> QED
        BY <1>2, <1>3, <1>11, <3>1
    <2>4. Finished + 1 \in 1 .. Len(sent) /\ Len(sent[Finished + 1]) = next - first
      <3>1. Finished + 1 \in 1 .. Len(sent) /\ (Finished + 1) + 1 = Finished + 2
        BY <1>2
      <3> QED
        BY <3>1, StartFacts DEF OrderInv, first, next
    <2>5. Len(sent[Finished + 1]) > MaxFragments + 1
      BY <1>2, <1>9, <2>3, <2>4, LinkAssumption
    <2>6. TooLong
      BY <2>4, <2>5 DEF TooLong
    <2> QED
      BY <1>1, <2>1, <2>2, <2>6
  <1>10. CASE HandleLastFragment
    <2>1. next = cur + 1 /\ Len(fragmented_queue) > 0
      <3>1. Fragmented(cur) /\ fragmented_queue # <<>>
        BY <1>10 DEF HandleLastFragment
      <3> QED
        BY <1>2, <1>3, <1>11, <3>1
    <2> DEFINE c == Append(fragmented_queue, cur)  done == Append(packets, c)
    <2>2. c = sent[Finished + 1]
      <3>1. next - 1 = cur
        BY <1>2, <2>1
      <3> QED
        BY <1>4, <1>12, <3>1
    <2>3. Continues(done) /\ Len(done) = Len(packets) + 1
      BY <1>1, <1>2, <2>2, OneMore
    <2>4. /\ NextIteration(done) /\ fragmented_queue' = <<>> /\ UNCHANGED failed
      BY <1>10 DEF HandleLastFragment
    <2>5. next = Start(Len(delivered) + Len(done) + 1)
      <3>1. Len(delivered) + Len(done) + 1 = Finished + 2
        BY <1>2, <2>3
      <3> QED
        BY <3>1 DEF next
    <2>6. /\ fragmented_queue' \in Seq(Nat) /\ Len(fragmented_queue') = 0
      BY <2>4, EmptySeq
    <2>7. fragmented_queue' = Interval(next, Position)
      BY <1>2, <2>1, <2>4 DEF Interval
    <2>8. next + Len(fragmented_queue') = Position + 1
      BY <1>2, <2>1, <2>6
    <2> HIDE DEF done
    <2> QED
      BY <1>1, <2>3, <2>4, <2>5, <2>6, <2>7, <2>8, IterationKeeps
  <1>13. Len(fragmented_queue) < MaxFragments \/ Len(fragmented_queue) >= MaxFragments
    BY <1>2, LinkAssumption
  <1>14. HandleWhole \/ HandleFirstFragment \/ HandleMiddleFragment \/ HandleLastFragment
    BY DEF HandleCommandPacket
  <1> QED
    BY <1>6, <1>7, <1>8, <1>9, <1>10, <1>13, <1>14

-----------------------------------------------------------------------------
(* The other steps.                                                        *)

\* Connection::send_packet numbers the packets of a command consecutively.
LEMMA SendKeeps ==
    ASSUME OrderInv, NEW k \in CommandSizes, SendCommand(k)
    PROVE  /\ OrderInv' /\ \E c \in Command : Channel!Send(c)
           /\ ~failed => Position' = Position
  <1> DEFINE c == [i \in 1 .. k |-> queued + i - 1]
  <1>1. /\ k \in Nat \ {0} /\ queued \in Nat /\ queued \in FirstId .. FirstId + MaxPackets
        /\ transmitted \subseteq FirstId .. queued - 1 /\ unacked \subseteq FirstId .. queued - 1
    BY LinkAssumption, FirstIdAssumption DEF OrderInv, SenderTypeOK
  <1>2. /\ queued' = queued + k /\ queued + k <= FirstId + MaxPackets
        /\ unacked' = unacked \cup (queued .. queued + k - 1) /\ transmitted' = transmitted
        /\ sent' = Append(sent, c) /\ UNCHANGED receiverVars
    BY DEF SendCommand, Enqueue
  <1>3. SenderTypeOK'
    BY <1>1, <1>2, FirstIdAssumption, MaxPacketsAssumption DEF SenderTypeOK
  <1>4. c = Interval(queued, queued + k - 1) /\ c \in Seq(Nat) /\ c[1] = queued
    <2>1. (queued + k - 1) - queued + 1 = k /\ queued + k - 1 \in Int /\ queued + k - 1 >= queued - 1
      BY <1>1
    <2>2. c = Interval(queued, queued + k - 1)
      BY <2>1 DEF Interval
    <2>3. Interval(queued, queued + k - 1) \in Seq(Nat)
      BY <1>1, <2>1, IntervalFacts
    <2> QED
      BY <1>1, <2>2, <2>3
  <1> HIDE DEF c
  <1>5. c \in Command
    <2>1. queued \in PacketNumber /\ queued + k - 1 \in PacketNumber
      BY <1>1, <1>2, FirstIdAssumption, MaxPacketsAssumption DEF PacketNumber
    <2> QED
      BY <1>4, <2>1 DEF Command
  <1>6. /\ Len(sent) \in Nat /\ sent \in Seq(Seq(Nat))
        /\ Start(1) = FirstId /\ Start(Len(sent) + 1) = queued
        /\ \A i \in 1 .. Len(sent) + 1 : Start(i) \in Nat
        /\ \A i, j \in 1 .. Len(sent) + 1 : i < j => Start(i) < Start(j)
        /\ \A i \in 1 .. Len(sent) : sent[i] = Interval(Start(i), Start(i + 1) - 1)
    BY StartFacts DEF OrderInv, Numbered
  <1>7. /\ sent' \in Seq(Seq(Nat)) /\ Len(sent') = Len(sent) + 1
        /\ \A i \in 1 .. Len(sent) : sent'[i] = sent[i]
        /\ sent'[Len(sent) + 1] = c
    BY <1>2, <1>4, <1>6, AppendProperties
  <1>8. /\ \A i \in 1 .. Len(sent) + 1 : Start(i)' = Start(i)
        /\ \A i : i = Len(sent) + 2 => Start(i)' = queued + k
    <2>1. Len(sent) \in Nat
      BY <1>6
    <2>2. ASSUME NEW i \in 1 .. Len(sent) PROVE Start(i)' = Start(i)
      BY <1>7, <2>1, <2>2 DEF Start
    <2>3. ASSUME NEW i, i = Len(sent) + 1 PROVE Start(i)' = queued /\ Start(i) = queued
      BY <1>4, <1>7, <2>1, <2>3 DEF Start
    <2>4. ASSUME NEW i, i = Len(sent) + 2 PROVE Start(i)' = queued + k
      BY <1>2, <1>7, <2>1, <2>4 DEF Start
    <2>5. \A i \in 1 .. Len(sent) + 1 : i \in 1 .. Len(sent) \/ i = Len(sent) + 1
      BY <2>1
    <2> QED
      BY <2>2, <2>3, <2>4, <2>5
  <1>9. Numbered'
    <2>1. Start(1)' = FirstId
      BY <1>6, <1>8
    <2>2. \A i \in 1 .. Len(sent) + 1 : Start(i) <= queued
      <3>1. Len(sent) + 1 \in 1 .. Len(sent) + 1
        BY <1>6
      <3>2. \A i \in 1 .. Len(sent) + 1 : i = Len(sent) + 1 \/ Start(i) < Start(Len(sent) + 1)
        BY <1>6, <3>1
      <3> QED
        BY <1>1, <1>6, <3>2
    <2>3. \A i \in 1 .. Len(sent') + 1 : i \in 1 .. Len(sent) + 1 \/ i = Len(sent) + 2
      BY <1>6, <1>7
    <2>4. \A i \in 1 .. Len(sent') + 1 : Start(i)' \in Nat
      BY <1>1, <1>6, <1>8, <2>3
    <2>5. ASSUME NEW i \in 1 .. Len(sent') + 1, NEW j \in 1 .. Len(sent') + 1, i < j
          PROVE  Start(i)' < Start(j)'
      <3>1. CASE j \in 1 .. Len(sent) + 1
        <4>1. i \in 1 .. Len(sent) + 1
          BY <1>6, <1>7, <2>5, <3>1
        <4> QED
          BY <1>6, <1>8, <2>5, <3>1, <4>1
      <3>2. CASE j = Len(sent) + 2
        <4>1. i \in 1 .. Len(sent) + 1
          BY <1>6, <1>7, <2>5, <3>2
        <4>2. Start(i)' = Start(i) /\ Start(i) <= queued /\ Start(i) \in Nat
          BY <1>6, <1>8, <2>2, <4>1
        <4> QED
          BY <1>1, <1>8, <3>2, <4>2
      <3> QED
        BY <2>3, <3>1, <3>2
    <2>6. ASSUME NEW i \in 1 .. Len(sent')
          PROVE  sent'[i] = Interval(Start(i)', Start(i + 1)' - 1)
      <3>1. CASE i \in 1 .. Len(sent)
        <4>1. i \in 1 .. Len(sent) + 1 /\ i + 1 \in 1 .. Len(sent) + 1
          BY <1>6, <3>1
        <4>2. Start(i)' = Start(i) /\ Start(i + 1)' = Start(i + 1)
          BY <1>8, <4>1
        <4> QED
          BY <1>6, <1>7, <3>1, <4>2
      <3>2. CASE i = Len(sent) + 1
        <4>1. Start(i)' = queued /\ Start(i + 1)' = queued + k
          <5>1. i \in 1 .. Len(sent) + 1 /\ i + 1 = Len(sent) + 2
            BY <1>6, <3>2
          <5>2. Start(i)' = Start(i) /\ Start(i + 1)' = queued + k
            BY <1>8, <5>1
          <5> QED
            BY <1>6, <3>2, <5>2
        <4> QED
          <5>1. sent'[i] = c
            BY <1>7, <3>2
          <5>2. Start(i)' = queued /\ Start(i + 1)' - 1 = queued + k - 1
            BY <1>1, <4>1
          <5> QED
            BY <1>4, <5>1, <5>2
      <3> QED
        BY <1>6, <1>7, <3>1, <3>2
    <2> QED
      BY <1>7, <2>1, <2>4, <2>5, <2>6 DEF Numbered
  <1>10. DeliveredPart'
    BY <1>2, <1>6, <1>7 DEF OrderInv, DeliveredPart, receiverVars
  <1>11. ASSUME ~failed
         PROVE  /\ (CompletedPart /\ FragmentPart /\ CurrentPart /\ WaitingPart)'
                /\ Position' = Position
    <2>1. /\ Finished' = Finished /\ Finished \in 0 .. Len(sent)
          /\ Len(fragmented_queue)' = Len(fragmented_queue)
          /\ Len(delivered) \in Nat /\ Len(packets) \in Nat
      BY <1>2, <1>11, PositionFacts, LenProperties
      DEF OrderInv, CompletedPart, Continues, DeliveredPart, Finished, receiverVars
    <2>2. Start(Finished + 1)' = Start(Finished + 1) /\ Position' = Position
      <3>1. Finished + 1 \in 1 .. Len(sent) + 1
        BY <1>6, <2>1
      <3>2. Start(Finished + 1)' = Start(Finished + 1)
        BY <1>8, <2>1, <3>1 DEF Start
      <3> QED
        BY <2>1, <3>2 DEF Position
    <2>3. Finished < Len(sent) => Start(Finished + 2)' = Start(Finished + 2)
      <3>1. Finished < Len(sent) => Finished + 2 \in 1 .. Len(sent) + 1
        BY <1>6, <2>1
      <3> QED
        BY <1>8, <2>1, <3>1 DEF Start
    <2>4. CompletedPart'
      <3>1. \A i \in 1 .. Len(packets) : Len(delivered) + i \in 1 .. Len(sent)
        BY <1>6, <2>1 DEF Finished
      <3> QED
        BY <1>2, <1>6, <1>7, <1>11, <2>1, <3>1
        DEF OrderInv, CompletedPart, Continues, receiverVars
    <2>5. FragmentPart'
      <3>1. fragmented_queue # <<>> => Finished < Len(sent) /\ Position < Start(Finished + 2)
        BY <1>11 DEF OrderInv, FragmentPart
      <3>2. Len(sent) < Len(sent')
        BY <1>6, <1>7
      <3> QED
        BY <1>2, <1>6, <1>7, <1>11, <2>1, <2>2, <2>3, <3>1, <3>2
        DEF OrderInv, FragmentPart, receiverVars
    <2>6. CurrentPart'
      BY <1>2, <1>11, <2>2 DEF OrderInv, CurrentPart, receiverVars
    <2>7. WaitingPart'
      BY <1>2, <1>11, <2>2 DEF OrderInv, WaitingPart, receiverVars
    <2> QED
      BY <2>2, <2>4, <2>5, <2>6, <2>7
  <1>12. OrderInv'
    BY <1>2, <1>3, <1>9, <1>10, <1>11 DEF OrderInv, receiverVars
  <1>13. Channel!Send(c)
    BY <1>2 DEF Channel!Send, receiverVars
  <1> QED
    BY <1>5, <1>11, <1>12, <1>13

\* What is transmitted or acknowledged does not concern the receiver.
LEMMA SenderKeeps ==
    ASSUME OrderInv, Transmit \/ \E a \in acks : ReceiveAck(a)
    PROVE  OrderInv' /\ UNCHANGED <<sent, delivered>>
  <1>1. /\ UNCHANGED <<sent, receiverVars, queued>>
        /\ transmitted \subseteq transmitted' /\ transmitted' \subseteq transmitted \cup unacked
        /\ unacked' \subseteq unacked
    BY DEF Transmit, TransmitNext, ReceiveAck
  <1>2. SenderTypeOK'
    BY <1>1 DEF OrderInv, SenderTypeOK
  <1>3. Numbered' /\ DeliveredPart'
    BY <1>1 DEF OrderInv, Numbered, Start, DeliveredPart, receiverVars
  <1>4. Finished' = Finished /\ Position' = Position /\ \A i \in Nat : Start(i)' = Start(i)
    BY <1>1 DEF Finished, Position, Start, receiverVars
  <1>5. ~failed => CompletedPart' /\ FragmentPart' /\ CurrentPart'
    BY <1>1, <1>4
    DEF OrderInv, CompletedPart, Continues, FragmentPart, CurrentPart, receiverVars, Finished,
        Start
  <1>6. ~failed => WaitingPart'
    <2>1. ~failed => receive_queue' \in Seq(transmitted')
      BY <1>1, SeqMonotonic DEF OrderInv, WaitingPart, receiverVars
    <2> QED
      BY <1>1, <1>4, <2>1 DEF OrderInv, WaitingPart, receiverVars
  <1> QED
    BY <1>1, <1>2, <1>3, <1>5, <1>6 DEF OrderInv, receiverVars

\* handle_udp_packet: a packet that is in the receive window and decrypts was
\* sent on this link and is one of the next Half packets.
LEMMA AcceptedIsAhead ==
    ASSUME OrderInv, NumbersFit, NEW n \in Arrivable, Arriving(n),
           InReceiveWindow(incoming, n % IdMod), Decrypts(n)
    PROVE  /\ n \in transmitted /\ n \in Nat /\ Position \in Nat /\ FirstId <= Position
           /\ Position <= n /\ n < Position + Half /\ Half < IdMod
           /\ Position < IdMod * GenMod /\ n < IdMod * GenMod
           /\ ~failed /\ cur = None
           /\ n % IdMod = incoming.packet_id => n = Position
  <1>1. ~failed /\ cur = None
    BY DEF Arriving
  <1>2. Position \in Nat /\ FirstId <= Position /\ Position <= queued /\ queued \in Nat
    BY <1>1, PositionFacts, FirstIdAssumption
  <1>3. queued <= FirstId + MaxPackets /\ FirstId + MaxPackets \in Nat
    BY FirstIdAssumption, MaxPacketsAssumption DEF OrderInv, SenderTypeOK
  <1>4. n \in LatePackets \/ n \in transmitted
    BY DEF Arriving
  <1>5. n \in Nat /\ n < FirstId + MaxPackets
    <2>1. n \in LatePackets => n \in Nat /\ n < FirstId + MaxPackets
      BY LinkAssumption, FirstIdAssumption, MaxPacketsAssumption
    <2>2. n \in transmitted => n \in Nat /\ n < FirstId + MaxPackets
      BY <1>2, <1>3, FirstIdAssumption DEF OrderInv, SenderTypeOK
    <2> QED
      BY <1>4, <2>1, <2>2
  <1>6. Half \in Nat /\ Half >= 1 /\ Half < IdMod /\ IdMod * GenMod \in Nat
    BY HalfFacts, IdModAssumption, GenModAssumption
  <1>7. /\ n < IdMod * GenMod /\ Position + Half <= IdMod * GenMod /\ n \in Nat
        /\ Position < IdMod * GenMod
    BY <1>2, <1>3, <1>5, <1>6, FirstIdAssumption, MaxPacketsAssumption DEF NumbersFit
  <1>8. incoming = PartOf(Position)
    BY <1>1 DEF OrderInv, CurrentPart
  <1>9. Position <= n /\ n < Position + Half
    BY <1>2, <1>7, <1>8, WindowOnly DEF Decrypts
  <1>10. n \in transmitted
    <2>1. n \in LatePackets => n < FirstId
      BY LinkAssumption, FirstIdAssumption
    <2> QED
      BY <1>2, <1>4, <1>5, <1>9, <2>1, FirstIdAssumption
  <1>11. ASSUME n % IdMod = incoming.packet_id PROVE n = Position
    <2>1. Position % IdMod = n % IdMod
      BY <1>8, <1>11 DEF PartOf, Part
    <2>2. n < Position + IdMod
      BY <1>2, <1>6, <1>7, <1>9, IdModAssumption
    <2> QED
      BY <1>2, <1>7, <1>9, <2>1, <2>2, SameId
  <1> QED
    BY <1>1, <1>2, <1>6, <1>7, <1>9, <1>10, <1>11

\* Nothing that the receive path keeps has changed.
LEMMA QuietReceiver ==
    ASSUME OrderInv, UNCHANGED <<senderVars, sent, incoming, fragmented_queue, packets,
                                 delivered, receive_queue, cur, failed>>
    PROVE  OrderInv'
  BY DEF OrderInv, SenderTypeOK, Numbered, DeliveredPart, CompletedPart, Continues,
         FragmentPart, CurrentPart, WaitingPart, Start, Finished, Position, senderVars

\* handle_udp_packet keeps the invariant, whatever arrives.
LEMMA ReceiveKeeps ==
    ASSUME OrderInv, NumbersFit, NoStaleCopies, NEW n \in Arrivable, Receive(n)
    PROVE  OrderInv' /\ UNCHANGED <<sent, delivered>>
  <1>1. /\ Arriving(n) /\ ~failed /\ cur = None
        /\ UNCHANGED <<senderVars, sent, incoming, fragmented_queue, packets, delivered>>
    BY DEF Receive, ReceiveOutsideWindow, ReceiveWrongMac, ReceiveInOrder, ReceiveOutOfOrder,
       Arrives, Arriving
  <1>2. CASE ReceiveOutsideWindow(n)
    BY <1>1, <1>2, QuietReceiver DEF ReceiveOutsideWindow
  <1>3. CASE ReceiveWrongMac(n)
    BY <1>1, <1>3, QuietReceiver DEF ReceiveWrongMac
  <1>4. /\ UNCHANGED <<sent, queued, transmitted, unacked>>
        /\ Finished' = Finished /\ Position' = Position /\ \A i : Start(i)' = Start(i)
    BY <1>1 DEF Finished, Position, Start, senderVars
  <1>5. /\ SenderTypeOK' /\ Numbered' /\ DeliveredPart'
        /\ CompletedPart' /\ FragmentPart' /\ incoming' = PartOf(Position')
    BY <1>1, <1>4 DEF OrderInv, SenderTypeOK, Numbered, DeliveredPart, CompletedPart,
       Continues, FragmentPart, CurrentPart, Finished, Start, senderVars
  <1>6. CASE ReceiveInOrder(n)
    <2>1. /\ cur' = n /\ receive_queue' = receive_queue /\ failed' = failed
          /\ n = Position /\ n \in transmitted
      BY <1>6, AcceptedIsAhead DEF ReceiveInOrder, Arrives
    <2>2. WaitingPart'
      BY <1>1, <1>4, <2>1 DEF OrderInv, WaitingPart
    <2> QED
      BY <1>1, <1>4, <1>5, <2>1, <2>2 DEF OrderInv, CurrentPart
  <1>7. CASE ReceiveOutOfOrder(n)
    <2>1. /\ n \in transmitted /\ n \in Nat /\ Position \in Nat /\ FirstId <= Position
          /\ Position <= n /\ n < Position + Half /\ cur' = cur
      BY <1>7, AcceptedIsAhead DEF ReceiveOutOfOrder, Arrives
    <2>2. n > Position
      <3>1. n % IdMod # incoming.packet_id
        BY <1>7 DEF ReceiveOutOfOrder
      <3>2. incoming.packet_id = Position % IdMod
        BY <1>1 DEF OrderInv, CurrentPart, PartOf, Part
      <3> QED
        BY <2>1, <3>1, <3>2
    <2>3. CASE failed' = TRUE
      BY <1>1, <1>4, <1>5, <2>1, <2>3 DEF OrderInv
    <2>4. CASE receive_queue' = Append(receive_queue, n) /\ failed' = failed
      <3>1. /\ receive_queue \in Seq(transmitted) /\ Len(receive_queue) \in Nat
            /\ \A i \in 1 .. Len(receive_queue) : receive_queue[i] > FirstId
        BY <1>1, LenProperties DEF OrderInv, WaitingPart
      <3>2. /\ receive_queue' \in Seq(transmitted) /\ Len(receive_queue') = Len(receive_queue) + 1
            /\ \A i \in 1 .. Len(receive_queue) : receive_queue'[i] = receive_queue[i]
            /\ receive_queue'[Len(receive_queue) + 1] = n
        BY <2>1, <2>4, <3>1, AppendProperties
      <3>3. \A i \in 1 .. Len(receive_queue') :
              \/ i = Len(receive_queue) + 1 /\ receive_queue'[i] = n
              \/ i \in 1 .. Len(receive_queue) /\ receive_queue'[i] = receive_queue[i]
        BY <3>1, <3>2
      <3>4. \A i \in 1 .. Len(receive_queue') : receive_queue'[i] > FirstId
        BY <2>1, <2>2, <3>1, <3>3, FirstIdAssumption
      <3>5. ASSUME ~IdsDiffer
            PROVE  /\ \A i \in 1 .. Len(receive_queue') :
                        receive_queue'[i] > Position /\ receive_queue'[i] < Position + Half
                   /\ \A i, j \in 1 .. Len(receive_queue') :
                        receive_queue'[i] = receive_queue'[j] => i = j
        <4>1. /\ \A i \in 1 .. Len(receive_queue) :
                   receive_queue[i] > Position /\ receive_queue[i] < Position + Half
              /\ \A i, j \in 1 .. Len(receive_queue) :
                   receive_queue[i] = receive_queue[j] => i = j
          BY <1>1, <3>5 DEF OrderInv, WaitingPart
        <4>2. n \notin Range(receive_queue)
          BY <1>1, <3>5 DEF Arriving, NoStaleCopies
        <4>3. \A i \in 1 .. Len(receive_queue) : receive_queue[i] # n
          BY <3>1, <4>2, RangeEquality
        <4>4. \A i \in 1 .. Len(receive_queue') :
                receive_queue'[i] > Position /\ receive_queue'[i] < Position + Half
          BY <2>1, <2>2, <3>3, <4>1
        <4>5. \A i, j \in 1 .. Len(receive_queue') : receive_queue'[i] = receive_queue'[j] => i = j
          BY <3>3, <4>1, <4>3
        <4> QED
          BY <4>4, <4>5
      <3>6. WaitingPart'
        BY <1>4, <3>2, <3>4, <3>5 DEF WaitingPart
      <3> QED
        BY <1>1, <1>4, <1>5, <2>1, <2>4, <3>6 DEF OrderInv, CurrentPart
    <2> QED
      BY <1>1, <1>7, <2>3, <2>4 DEF ReceiveOutOfOrder
  <1> QED
    BY <1>1, <1>2, <1>3, <1>6, <1>7 DEF Receive

-----------------------------------------------------------------------------
(* The theorems about the order of commands.                               *)

\* The invariant holds at first.
LEMMA InitOrder ==
    ASSUME NumbersFit, Init PROVE OrderInv
  <1>1. /\ sent = <<>> /\ delivered = <<>> /\ packets = <<>> /\ fragmented_queue = <<>>
        /\ receive_queue = <<>> /\ cur = None /\ failed = FALSE /\ queued = FirstId
        /\ transmitted = {} /\ unacked = {} /\ incoming = Part(0, FirstId)
    BY DEF Init, SenderInit
  <1>2. Len(<<>>) = 0 /\ \A S : <<>> \in Seq(S)
    BY EmptySeq
  <1>3. Finished = 0 /\ Position = FirstId /\ \A i \in Nat : i >= 1 => Start(i) = FirstId
    BY <1>1, <1>2, FirstIdAssumption DEF Finished, Position, Start
  <1>4. SenderTypeOK
    BY <1>1, FirstIdAssumption, MaxPacketsAssumption DEF SenderTypeOK
  <1>5. Numbered
    BY <1>1, <1>2, <1>3, FirstIdAssumption DEF Numbered
  <1>6. DeliveredPart /\ CompletedPart
    BY <1>1, <1>2 DEF DeliveredPart, CompletedPart, Continues
  <1>7. FragmentPart
    <2>1. Interval(FirstId, FirstId - 1) = <<>>
      BY FirstIdAssumption DEF Interval
    <2> QED
      BY <1>1, <1>2, <1>3, <2>1 DEF FragmentPart
  <1>8. CurrentPart
    <2>1. FirstId \div IdMod = 0 /\ FirstId % IdMod = FirstId /\ 0 % GenMod = 0
      BY LinkAssumption, FirstIdAssumption, IdModAssumption, GenModAssumption
    <2>2. PartOf(FirstId) = Part(0, FirstId)
      BY <2>1 DEF PartOf
    <2> QED
      BY <1>1, <1>3, <2>2 DEF CurrentPart
  <1>9. WaitingPart
    BY <1>1, <1>2 DEF WaitingPart
  <1> QED
    BY <1>1, <1>4, <1>5, <1>6, <1>7, <1>8, <1>9 DEF OrderInv

\* Every step keeps it, and is a step of the channel.
LEMMA NextOrder ==
    ASSUME NumbersFit, NoStaleCopies, OrderInv, [Next]_vars
    PROVE  OrderInv' /\ [Channel!ChannelNext]_(Channel!channelVars)
  <1>1. ASSUME NEW k \in CommandSizes, SendCommand(k)
        PROVE  OrderInv' /\ Channel!ChannelNext
    BY <1>1, SendKeeps DEF Channel!ChannelNext
  <1>2. CASE Transmit \/ \E a \in acks : ReceiveAck(a)
    BY <1>2, SenderKeeps DEF Channel!channelVars
  <1>3. ASSUME NEW n \in Arrivable, Receive(n)
        PROVE  OrderInv' /\ UNCHANGED <<sent, delivered>>
    BY <1>3, ReceiveKeeps
  <1>4. CASE HandleCommandPacket
    BY <1>4, HandleKeeps DEF Channel!ChannelNext, Channel!channelVars
  <1>5. CASE UNCHANGED vars
    BY <1>5, QuietReceiver DEF vars, receiverVars, Channel!channelVars
  <1> QED
    BY <1>1, <1>2, <1>3, <1>4, <1>5 DEF Next, Channel!channelVars

\* For every number of packets and generations, and whatever UDP does to the
\* packets: the link is a FIFO channel for commands.  A step sends a command,
\* delivers the next ones whole and in order, or leaves the channel alone.
THEOREM LinkIsFifo ==
    ASSUME NumbersFit, NoStaleCopies
    PROVE  Spec => ImplementsChannel
  <1>1. Init => OrderInv /\ Channel!ChannelInit
    BY InitOrder DEF Init, Channel!ChannelInit
  <1>2. OrderInv /\ [Next]_vars => OrderInv' /\ [Channel!ChannelNext]_(Channel!channelVars)
    BY NextOrder
  <1> QED
    BY <1>1, <1>2, PTL DEF Spec, ImplementsChannel, Channel!ChannelSpec

\* handle_udp_packet: what the application gets is a prefix of what was sent
\* ("guaranteed to be in the right order now").
THEOREM OrderKept ==
    ASSUME NumbersFit, NoStaleCopies
    PROVE  Spec => []DeliveredInOrder
  <1>1. Init => OrderInv
    BY InitOrder
  <1>2. OrderInv /\ [Next]_vars => OrderInv'
    BY NextOrder
  <1>3. OrderInv => DeliveredInOrder
    <2> SUFFICES ASSUME OrderInv PROVE DeliveredInOrder
      OBVIOUS
    <2> DEFINE n == Len(delivered)  s == SubSeq(delivered, 1, n)  t == SubSeq(sent, 1, n)
    <2>1. /\ delivered \in Seq(Seq(Nat)) /\ sent \in Seq(Seq(Nat)) /\ n \in Nat
          /\ Len(sent) \in Nat /\ n <= Len(sent) /\ \A i \in 1 .. n : delivered[i] = sent[i]
      BY LenProperties DEF OrderInv, Numbered, DeliveredPart
    <2>2. \A i \in 1 .. n : delivered[i] \in Seq(Nat) /\ sent[i] \in Seq(Nat)
      BY <2>1, ElementOfSeq
    <2>3. s \in Seq(Seq(Nat)) /\ Len(s) = n /\ \A i \in 1 .. n : s[i] = delivered[i]
      BY <2>1, <2>2, SubSeqProperties
    <2>4. t \in Seq(Seq(Nat)) /\ Len(t) = n /\ \A i \in 1 .. n : t[i] = sent[i]
      BY <2>1, <2>2, SubSeqProperties
    <2> HIDE DEF s, t
    <2>5. s = t
      BY <2>1, <2>3, <2>4, SeqEqual
    <2> QED
      BY <2>1, <2>5 DEF DeliveredInOrder, IsPrefix, s, t
  <1> QED
    BY <1>1, <1>2, <1>3, PTL DEF Spec

-----------------------------------------------------------------------------
(* The acknowledgements, before the ids wrap.                              *)

\* One generation is less than what the numbers have to fit in.
LEMMA SizedFacts ==
    ASSUME Sized
    PROVE  /\ NumbersFit /\ NoStaleCopies
           /\ FirstId + MaxPackets <= IdMod /\ IdMod < IdMod * GenMod
  <1>1. IdMod * GenMod >= IdMod * 2
    BY IdModAssumption, GenModAssumption
  <1>2. IdMod * GenMod >= IdMod + IdMod /\ Half < IdMod /\ Half \in Nat
    BY <1>1, HalfFacts, IdModAssumption, GenModAssumption
  <1> QED
    BY <1>2, FirstIdAssumption, MaxPacketsAssumption, IdModAssumption, GenModAssumption
    DEF Sized, NumbersFit, NoStaleCopies, IdsDiffer, OneGeneration

\* What the invariant says about numbers: all of them are ids.
LEMMA NumberFacts ==
    ASSUME AckInv, Sized
    PROVE  /\ queued \in Nat /\ Position \in Nat /\ FirstId <= Position /\ Position <= queued
           /\ queued <= IdMod /\ incoming = PartOf(Position)
           /\ \A n \in transmitted : n \in Nat /\ FirstId <= n /\ n < queued
           /\ \A n \in unacked : n \in Nat /\ FirstId <= n /\ n < queued
           /\ receive_queue \in Seq(transmitted) /\ Len(receive_queue) \in Nat
           /\ \A i \in 1 .. Len(receive_queue) : receive_queue[i] \in transmitted
           /\ cur # None => cur = Position /\ cur \in transmitted
  <1>1. /\ queued \in FirstId .. FirstId + MaxPackets
        /\ transmitted \subseteq FirstId .. queued - 1 /\ unacked \subseteq FirstId .. queued - 1
    BY DEF AckInv, OrderInv, SenderTypeOK
  <1>2. Position \in FirstId .. queued /\ queued \in Nat
    BY PositionFacts DEF AckInv
  <1>3. /\ receive_queue \in Seq(transmitted) /\ incoming = PartOf(Position)
        /\ cur # None => cur = Position /\ cur \in transmitted
    BY DEF AckInv, OrderInv, WaitingPart, CurrentPart
  <1>4. Len(receive_queue) \in Nat /\ \A i \in 1 .. Len(receive_queue) : receive_queue[i] \in transmitted
    BY <1>3, LenProperties, ElementOfSeq
  <1>5. FirstId + MaxPackets <= IdMod
    BY SizedFacts
  <1> QED
    BY <1>1, <1>2, <1>3, <1>4, <1>5, FirstIdAssumption, MaxPacketsAssumption, IdModAssumption

\* A number below IdMod is its own id.
LEMMA OwnId ==
    ASSUME NEW n \in Nat, n < IdMod
    PROVE  n % IdMod = n /\ n \in PacketIdValue /\ n < IdMod * GenMod
  <1>1. IdMod * GenMod >= IdMod * 2
    BY IdModAssumption, GenModAssumption
  <1> QED
    BY <1>1, IdModAssumption, GenModAssumption DEF PacketIdValue

\* Every (generation, id) pair that a number stands for is one.
LEMMA PartOfType ==
    ASSUME NEW n \in Nat
    PROVE  PartOf(n) \in PartialPacketId /\ Plus(PartOf(n), 1) \in PartialPacketId
  <1>1. n \div IdMod \in Nat /\ n % IdMod \in PacketIdValue
    BY IdModAssumption DEF PacketIdValue
  <1>2. (n \div IdMod) % GenMod \in GenerationValue
    BY <1>1, GenModAssumption DEF GenerationValue
  <1>3. PartOf(n) \in PartialPacketId
    BY <1>1, <1>2 DEF PartOf, Part, PartialPacketId
  <1> QED
    BY <1>3, NextId

\* What the receiver has was transmitted.
LEMMA GotFacts ==
    ASSUME AckInv, Sized, NEW n, Got(n)
    PROVE  n \in transmitted
  BY NumberFacts DEF Got, AckInv, GapIsReal

\* Between two calls the next packet is missing, so it is still in the send
\* queue and everything that was sent since is close behind it.
LEMMA NextMissing ==
    ASSUME AckInv, Sized, cur = None, NEW n \in Nat, Position <= n, n < queued
    PROVE  n < Position + Half /\ Position \in unacked
  <1>1. /\ Position \in Nat /\ FirstId <= Position /\ queued \in Nat /\ Position < queued
    BY NumberFacts
  <1>2. ~Got(Position)
    BY <1>1, FirstIdAssumption DEF Got, AckInv, GapIsReal
  <1>3. Position \in unacked
    BY <1>1, <1>2, FirstIdAssumption DEF AckInv, SenderKnows
  <1>4. queued - Position <= Backlog
    BY <1>3 DEF AckInv, SenderKnows
  <1> QED
    BY <1>1, <1>3, <1>4, HalfFacts, BacklogAssumption DEF Sized

\* An arriving packet is from before, was consumed, or is in the window.
LEMMA ArrivingFacts ==
    ASSUME AckInv, Sized, NEW n \in Arrivable, Arriving(n)
    PROVE  /\ n \in Nat /\ n < IdMod /\ n % IdMod = n /\ n \in PacketIdValue
           /\ n < FirstId \/ (n \in transmitted /\ n < queued)
           /\ n < Position \/ InReceiveWindow(incoming, n % IdMod)
  <1>1. /\ queued \in Nat /\ Position \in Nat /\ FirstId <= Position /\ Position <= queued
        /\ queued <= IdMod /\ incoming = PartOf(Position) /\ FirstId < IdMod
        /\ \A m \in transmitted : m \in Nat /\ FirstId <= m /\ m < queued
    BY NumberFacts, LinkAssumption
  <1>2. n \in LatePackets \/ n \in transmitted
    BY DEF Arriving
  <1>3. n \in LatePackets => n \in Nat /\ n < FirstId
    BY LinkAssumption, FirstIdAssumption
  <1>4. n \in Nat /\ n < IdMod /\ (n < FirstId \/ (n \in transmitted /\ n < queued))
    BY <1>1, <1>2, <1>3, FirstIdAssumption, IdModAssumption
  <1>5. n % IdMod = n /\ n \in PacketIdValue /\ n < IdMod * GenMod
    BY <1>4, OwnId
  <1>6. ASSUME n >= Position PROVE InReceiveWindow(incoming, n % IdMod)
    <2>1. n < queued /\ Position <= n
      BY <1>1, <1>4, <1>6, FirstIdAssumption
    <2>2. n < Position + Half /\ Half \in Nat
      BY <1>4, <2>1, NextMissing, HalfFacts DEF Arriving
    <2>3. Position < IdMod * GenMod
      BY <1>1, <1>4, <2>1, OwnId, IdModAssumption
    <2> QED
      BY <1>1, <1>4, <1>5, <2>1, <2>2, <2>3, WindowAhead
  <1> QED
    BY <1>1, <1>4, <1>5, <1>6

\* send_ack_packet for a packet that the receiver has, or one from before.
LEMMA AckSent ==
    ASSUME AckInv, NEW p \in PacketIdValue, SendAck(p), p < FirstId \/ Got(p)',
           \A n : Got(n) => Got(n)'
    PROVE  /\ \A a \in acks' : /\ a \in [n : Nat, p_id : PacketIdValue]
                               /\ a.p_id < FirstId \/ Got(a.p_id)'
           /\ ack_count' \in Nat /\ incoming_ack' \in PartialPacketId
  <1>1. /\ ack_count \in Nat /\ ack_count' = ack_count + 1 /\ incoming_ack' = incoming_ack
        /\ incoming_ack \in PartialPacketId
    BY DEF AckInv, CountersTyped, SendAck
  <1> DEFINE new == [n |-> ack_count, p_id |-> p]
  <1>2. \A a \in acks' : a \in acks \/ a = new
    BY DEF SendAck
  <1>3. \A a \in acks : /\ a \in [n : Nat, p_id : PacketIdValue]
                        /\ a.p_id < FirstId \/ Got(a.p_id)
    BY DEF AckInv, AcksKnown
  <1>4. new \in [n : Nat, p_id : PacketIdValue] /\ new.p_id = p
    BY <1>1
  <1> HIDE DEF new
  <1>5. ASSUME NEW a \in acks'
        PROVE  /\ a \in [n : Nat, p_id : PacketIdValue]
               /\ a.p_id < FirstId \/ Got(a.p_id)'
    <2>1. CASE a = new
      BY <1>4, <2>1
    <2>2. CASE a \in acks
      BY <1>3, <2>2
    <2> QED
      BY <1>2, <2>1, <2>2
  <1> QED
    BY <1>1, <1>5

\* The sender's steps.
LEMMA AckSendCommand ==
    ASSUME AckInv, Sized, NEW k \in CommandSizes, SendCommand(k)
    PROVE  AckInv' /\ SenderNext
  <1>1. /\ OrderInv' /\ Position' = Position
    BY SendKeeps DEF AckInv
  <1>2. /\ Enqueue(k) /\ queued' = queued + k /\ queued + k <= FirstId + MaxPackets
        /\ unacked' = unacked \cup (queued .. queued + k - 1) /\ transmitted' = transmitted
        /\ \A n \in unacked : queued + k - n <= Backlog
        /\ sent' = Append(sent, [i \in 1 .. k |-> queued + i - 1])
        /\ UNCHANGED <<receiverVars, ackVars>>
    BY DEF SendCommand, Enqueue
  <1>3. /\ k \in Nat \ {0} /\ k <= Backlog /\ queued \in Nat
        /\ FirstId <= queued
    BY LinkAssumption, NumberFacts, FirstIdAssumption DEF Sized
  <1>4. \A n : Got(n) => Got(n)'
    BY <1>1, <1>2 DEF Got, receiverVars
  <1>5. AcksKnown'
    BY <1>2, <1>4 DEF AckInv, AcksKnown, receiverVars, ackVars
  <1>6. SenderKnows'
    <2>1. \A n \in FirstId .. queued' - 1 : n \in unacked' \/ Got(n)'
      <3>1. \A n \in FirstId .. queued - 1 : n \in unacked \/ Got(n)
        BY DEF AckInv, SenderKnows
      <3>2. \A n \in FirstId .. queued' - 1 :
              n \in FirstId .. queued - 1 \/ n \in queued .. queued + k - 1
        BY <1>2, <1>3, FirstIdAssumption
      <3> QED
        BY <1>2, <1>4, <3>1, <3>2
    <2>2. \A n \in unacked' : queued' - n <= Backlog
      <3>1. \A n \in queued .. queued + k - 1 : queued + k - n <= Backlog
        BY <1>3, BacklogAssumption
      <3>2. \A n \in unacked' : queued + k - n <= Backlog
        BY <1>2, <3>1
      <3>3. \A n \in unacked' : n \in Nat
        BY <1>2, <1>3, NumberFacts
      <3> QED
        BY <1>2, <1>3, <3>2, <3>3, BacklogAssumption
    <2> QED
      BY <2>1, <2>2 DEF SenderKnows
  <1>7. GapIsReal' /\ CountersTyped' /\ ~failed'
    BY <1>1, <1>2 DEF AckInv, GapIsReal, CountersTyped, receiverVars, ackVars
  <1>8. k \in 1 .. MaxPackets
    BY <1>2, <1>3, FirstIdAssumption, MaxPacketsAssumption
  <1> QED
    BY <1>1, <1>2, <1>5, <1>6, <1>7, <1>8 DEF AckInv, SenderNext

\* poll_resend
LEMMA AckTransmit ==
    ASSUME AckInv, Sized, Transmit
    PROVE  AckInv' /\ SenderNext
  <1>1. /\ TransmitNext /\ UNCHANGED <<sent, receiverVars, ackVars, queued, unacked>>
        /\ transmitted \subseteq transmitted'
    BY DEF Transmit, TransmitNext
  <1>2. OrderInv'
    BY SenderKeeps DEF AckInv
  <1>3. Position' = Position /\ \A n : Got(n) => Got(n)'
    BY <1>1 DEF Got, Position, Finished, Start, receiverVars
  <1>4. AcksKnown' /\ SenderKnows' /\ GapIsReal' /\ CountersTyped' /\ ~failed'
    BY <1>1, <1>3
    DEF AckInv, AcksKnown, SenderKnows, GapIsReal, CountersTyped, receiverVars, ackVars
  <1> QED
    BY <1>1, <1>2, <1>4 DEF AckInv, SenderNext

\* ack_packet: in one generation the record that an ack removes is the one of
\* the packet that was acknowledged.
LEMMA AckTargetFacts ==
    ASSUME AckInv, Sized, NEW p, NEW n \in AckTarget(p)
    PROVE  n = p /\ n \in unacked /\ FirstId <= n
  <1>1. PICK f \in unacked : RecordKey(n) = AckedKey(RecordKey(f), p)
    BY DEF AckTarget
  <1>2. n \in unacked /\ n \in Nat /\ FirstId <= n /\ n < IdMod
    BY NumberFacts, FirstIdAssumption, IdModAssumption DEF AckTarget
  <1>3. RecordKey(n).packet_id = n
    BY <1>2, OwnId DEF RecordKey, EncodedId, PartOf, Part
  <1>4. AckedKey(RecordKey(f), p).packet_id = p
    BY DEF AckedKey, Part
  <1> QED
    BY <1>1, <1>2, <1>3, <1>4

\* handle_udp_packet for an ack: a step of the sender's contract.
LEMMA AckReceiveAck ==
    ASSUME AckInv, Sized, NEW a \in acks, ReceiveAck(a)
    PROVE  AckInv' /\ [SenderNext]_senderVars
  <1>1. /\ UNCHANGED <<queued, transmitted, sent, receiverVars, acks, ack_count>>
        /\ unacked' = unacked \ AckTarget(a.p_id)
        /\ incoming_ack' = Plus(PartOf(a.n), 1)
    BY DEF ReceiveAck
  <1>2. OrderInv'
    BY SenderKeeps DEF AckInv
  <1>3. Position' = Position /\ \A n : Got(n) <=> Got(n)'
    BY <1>1 DEF Got, Position, Finished, Start, receiverVars
  <1>4. a.n \in Nat /\ (a.p_id < FirstId \/ Got(a.p_id))
    BY DEF AckInv, AcksKnown
  <1>5. \A n \in AckTarget(a.p_id) : n = a.p_id /\ n \in unacked /\ Got(n) /\ n \in transmitted
    <2>1. ASSUME NEW n \in AckTarget(a.p_id)
          PROVE  n = a.p_id /\ n \in unacked /\ Got(n) /\ n \in transmitted
      <3>1. n = a.p_id /\ n \in unacked /\ FirstId <= n /\ n \in Nat
        BY AckTargetFacts, NumberFacts
      <3>2. Got(n)
        BY <1>4, <3>1, FirstIdAssumption
      <3> QED
        BY <3>1, <3>2, GotFacts
    <2> QED
      BY <2>1
  <1>6. AcksKnown'
    BY <1>1, <1>3 DEF AckInv, AcksKnown, receiverVars
  <1>7. SenderKnows'
    <2>1. \A n \in FirstId .. queued - 1 : n \in unacked' \/ Got(n)
      BY <1>1, <1>5 DEF AckInv, SenderKnows
    <2> QED
      BY <1>1, <1>3, <2>1 DEF AckInv, SenderKnows
  <1>8. GapIsReal' /\ ~failed'
    BY <1>1, <1>3 DEF AckInv, GapIsReal, receiverVars
  <1>9. CountersTyped'
    BY <1>1, <1>4, PartOfType DEF AckInv, CountersTyped, receiverVars
  <1>10. [SenderNext]_senderVars
    <2>1. CASE AckTarget(a.p_id) = {}
      BY <1>1, <2>1 DEF senderVars
    <2>2. CASE AckTarget(a.p_id) # {}
      <3>1. AckTarget(a.p_id) = {a.p_id} /\ a.p_id \in InFlight
        BY <1>5, <2>2 DEF InFlight
      <3> QED
        BY <1>1, <3>1 DEF SenderNext, Acknowledge
    <2> QED
      BY <2>1, <2>2
  <1> QED
    BY <1>2, <1>6, <1>7, <1>8, <1>9, <1>10 DEF AckInv

\* A sequence is one over every set that holds its elements.
LEMMA SeqOfElements ==
    ASSUME NEW S, NEW T, NEW s \in Seq(S), \A i \in 1 .. Len(s) : s[i] \in T
    PROVE  s \in Seq(T)
  <1>1. Len(s) \in Nat /\ s \in [1 .. Len(s) -> S]
    BY LenProperties
  <1>2. s \in [1 .. Len(s) -> T]
    BY <1>1
  <1> QED
    BY <1>1, <1>2, SeqDef

\* The commands are sequences of packet numbers.
LEMMA SentTyped ==
    ASSUME OrderInv
    PROVE  /\ Len(sent) \in Nat /\ sent \in Seq(Command) /\ delivered \in Seq(Seq(PacketNumber))
           /\ \A i \in 1 .. Len(sent) : sent[i] \in Seq(PacketNumber)
  <1>1. queued \in Nat /\ queued <= FirstId + MaxPackets
    BY FirstIdAssumption, MaxPacketsAssumption DEF OrderInv, SenderTypeOK
  <1>6. Len(sent) \in Nat /\ sent \in Seq(Seq(Nat))
    BY LenProperties DEF OrderInv, Numbered
  <1>7. ASSUME NEW i \in 1 .. Len(sent)
        PROVE  sent[i] \in Command /\ sent[i] \in Seq(PacketNumber)
    <2>1. i \in 1 .. Len(sent) + 1 /\ i + 1 \in 1 .. Len(sent) + 1 /\ i < i + 1
          /\ 1 \in 1 .. Len(sent) + 1 /\ Len(sent) + 1 \in 1 .. Len(sent) + 1
      BY <1>6
    <2>2. /\ Start(i) \in Nat /\ Start(i + 1) \in Nat /\ Start(i) < Start(i + 1)
          /\ i = 1 \/ Start(1) < Start(i)
          /\ i + 1 = Len(sent) + 1 \/ Start(i + 1) < Start(Len(sent) + 1)
          /\ Start(1) = FirstId /\ Start(Len(sent) + 1) = queued
      BY <1>6, <2>1, StartFacts DEF OrderInv
    <2>3. Start(i) \in PacketNumber /\ Start(i + 1) - 1 \in PacketNumber
      BY <1>1, <2>2, FirstIdAssumption, MaxPacketsAssumption DEF PacketNumber
    <2>4. sent[i] = Interval(Start(i), Start(i + 1) - 1)
      BY DEF OrderInv, Numbered
    <2>5. sent[i] \in Command
      BY <2>3, <2>4 DEF Command
    <2>6. /\ sent[i] \in Seq(Nat) /\ Len(sent[i]) = Start(i + 1) - Start(i)
          /\ \A j \in 1 .. Len(sent[i]) : sent[i][j] = Start(i) + j - 1
      BY StartFacts DEF OrderInv
    <2>7. ASSUME NEW j \in 1 .. Len(sent[i]) PROVE sent[i][j] \in PacketNumber
      <3>1. j \in Nat /\ 1 <= j /\ j <= Start(i + 1) - Start(i)
        BY <2>2, <2>6
      <3>2. Start(i) + j - 1 \in PacketNumber
        BY <2>2, <2>3, <3>1, FirstIdAssumption, MaxPacketsAssumption DEF PacketNumber
      <3> QED
        BY <2>6, <3>2
    <2>8. sent[i] \in Seq(PacketNumber)
      BY <2>6, <2>7, SeqOfElements
    <2> QED
      BY <2>5, <2>8
  <1>8. sent \in Seq(Command)
    BY <1>6, <1>7, SeqOfElements
  <1>9. delivered \in Seq(Seq(PacketNumber))
    <2>1. /\ delivered \in Seq(Seq(Nat)) /\ Len(delivered) \in Nat /\ Len(delivered) <= Len(sent)
          /\ \A i \in 1 .. Len(delivered) : delivered[i] = sent[i]
      BY LenProperties DEF OrderInv, DeliveredPart
    <2>2. ASSUME NEW i \in 1 .. Len(delivered) PROVE delivered[i] \in Seq(PacketNumber)
      <3>1. i \in 1 .. Len(sent) /\ delivered[i] = sent[i]
        BY <1>6, <2>1
      <3> QED
        BY <1>7, <3>1
    <2> QED
      BY <2>1, <2>2, SeqOfElements
  <1> QED
    BY <1>6, <1>7, <1>8, <1>9

\* Every variable has its type.
LEMMA AckTyped ==
    ASSUME AckInv, Sized PROVE TypeOK
  <1>1. /\ queued \in Nat /\ Position \in Nat /\ FirstId <= Position /\ Position <= queued
        /\ queued <= IdMod /\ incoming = PartOf(Position)
        /\ receive_queue \in Seq(transmitted) /\ cur \in transmitted \cup {None}
        /\ queued <= FirstId + MaxPackets
    BY NumberFacts, FirstIdAssumption, MaxPacketsAssumption DEF AckInv, OrderInv, SenderTypeOK
  <1>2. /\ SenderTypeOK /\ failed \in BOOLEAN /\ arrivals \in [Arrivable -> 0 .. MaxArrivals]
        /\ ack_count \in Nat /\ incoming_ack \in PartialPacketId
    BY DEF AckInv, OrderInv, CountersTyped
  <1>3. incoming \in PartialPacketId
    BY <1>1, PartOfType
  <1>4. acks \in SUBSET [n : Nat, p_id : PacketIdValue]
    BY DEF AckInv, AcksKnown
  <1>5. ack_id \in PacketIdValue \cup {None}
    <2>1. CASE cur = None
      BY <2>1 DEF AckInv, AcksKnown
    <2>2. CASE cur # None
      <3>1. ack_id \in FirstId .. cur /\ cur \in Nat /\ cur < IdMod
        BY <1>1, <2>2, NumberFacts, IdModAssumption DEF AckInv, AcksKnown
      <3> QED
        BY <3>1, FirstIdAssumption, IdModAssumption DEF PacketIdValue
    <2> QED
      BY <2>1, <2>2
  <1>6. /\ Len(sent) \in Nat /\ sent \in Seq(Command) /\ delivered \in Seq(Seq(PacketNumber))
        /\ \A k \in 1 .. Len(sent) : sent[k] \in Seq(PacketNumber)
    BY SentTyped DEF AckInv
  <1>10. packets \in Seq(Seq(PacketNumber))
    <2>1. /\ packets \in Seq(Seq(Nat)) /\ Len(packets) \in Nat /\ Len(delivered) \in Nat
          /\ Len(delivered) + Len(packets) <= Len(sent)
          /\ \A i \in 1 .. Len(packets) : packets[i] = sent[Len(delivered) + i]
      BY LenProperties DEF AckInv, OrderInv, DeliveredPart, CompletedPart, Continues
    <2>2. ASSUME NEW i \in 1 .. Len(packets) PROVE packets[i] \in Seq(PacketNumber)
      <3>1. Len(delivered) + i \in 1 .. Len(sent)
        BY <1>6, <2>1
      <3> QED
        BY <1>6, <2>1, <3>1
    <2> QED
      BY <2>1, <2>2, SeqOfElements
  <1>11. fragmented_queue \in Seq(transmitted)
    <2> DEFINE f == Start(Finished + 1)  l == Position - 1
    <2>1. /\ f \in Nat /\ l \in Int /\ l >= f - 1 /\ fragmented_queue = Interval(f, l)
          /\ f >= FirstId /\ l = Position - 1
      <3>1. /\ f \in Nat /\ Len(fragmented_queue) \in Nat
            /\ Position = f + Len(fragmented_queue)
            /\ Len(sent) \in Nat /\ Finished \in 0 .. Len(sent)
        BY PositionFacts DEF AckInv, Position
      <3>2. f >= FirstId
        <4>1. Finished + 1 \in 1 .. Len(sent) + 1 /\ 1 \in 1 .. Len(sent) + 1
          BY <3>1
        <4>2. Finished + 1 = 1 \/ Start(1) < Start(Finished + 1)
          BY <3>1, <4>1, StartFacts DEF AckInv, OrderInv
        <4> QED
          BY <3>1, <4>2, StartFacts, FirstIdAssumption DEF AckInv, OrderInv
      <3>3. fragmented_queue = Interval(f, l)
        BY DEF AckInv, OrderInv, FragmentPart
      <3> QED
        BY <1>1, <3>1, <3>2, <3>3
    <2> HIDE DEF f, l
    <2>2. /\ fragmented_queue \in Seq(Nat) /\ Len(fragmented_queue) = l - f + 1
          /\ \A i \in 1 .. l - f + 1 : fragmented_queue[i] = f + i - 1
      BY <2>1, IntervalFacts
    <2>3. ASSUME NEW i \in 1 .. Len(fragmented_queue) PROVE fragmented_queue[i] \in transmitted
      <3>1. f + i - 1 \in FirstId .. Position - 1
        BY <1>1, <2>1, <2>2, FirstIdAssumption
      <3> QED
        BY <2>2, <3>1 DEF AckInv, GapIsReal
    <2> QED
      BY <2>2, <2>3, SeqOfElements
  <1> QED
    BY <1>1, <1>2, <1>3, <1>4, <1>5, <1>6, <1>10, <1>11 DEF TypeOK

\* handle_udp_packet for a command.
LEMMA AckReceive ==
    ASSUME AckInv, Sized, NEW n \in Arrivable, Receive(n)
    PROVE  LinkInv' /\ UNCHANGED senderVars
  <1>1. /\ Arriving(n) /\ ~failed /\ cur = None
        /\ arrivals' = [arrivals EXCEPT ![n] = @ + 1] /\ arrivals[n] < MaxArrivals
        /\ UNCHANGED <<senderVars, sent, incoming, fragmented_queue, packets, delivered>>
    BY DEF Receive, ReceiveOutsideWindow, ReceiveWrongMac, ReceiveInOrder, ReceiveOutOfOrder,
       Arrives, Arriving
  <1>2. OrderInv'
    BY ReceiveKeeps, SizedFacts DEF AckInv
  <1>3. Position' = Position /\ UNCHANGED <<queued, transmitted, unacked, sent>>
    BY <1>1 DEF Finished, Position, Start, senderVars
  <1>4. arrivals' \in [Arrivable -> 0 .. MaxArrivals]
    BY <1>1, LinkAssumption DEF AckInv, CountersTyped
  <1>5. /\ n \in Nat /\ n < IdMod /\ n % IdMod = n /\ n \in PacketIdValue
        /\ n < FirstId \/ (n \in transmitted /\ n < queued)
        /\ n < Position \/ InReceiveWindow(incoming, n % IdMod)
    BY <1>1, ArrivingFacts
  <1>6. /\ queued \in Nat /\ Position \in Nat /\ FirstId <= Position /\ Position <= queued
        /\ queued <= IdMod /\ incoming = PartOf(Position)
        /\ receive_queue \in Seq(transmitted) /\ Len(receive_queue) \in Nat
    BY NumberFacts
  <1>7. ASSUME \A m : Got(m) => Got(m)'
        PROVE  SenderKnows' /\ \A m \in FirstId .. Position' - 1 : m \in transmitted'
    BY <1>3, <1>7 DEF AckInv, SenderKnows, GapIsReal
  <1>8. ack_id = None
    BY <1>1 DEF AckInv, AcksKnown
  <1>9. CASE ReceiveOutsideWindow(n)
    <2>1. /\ SendAck(n) /\ UNCHANGED <<receive_queue, cur, ack_id, failed>>
          /\ ~InReceiveWindow(incoming, n % IdMod)
      BY <1>5, <1>9 DEF ReceiveOutsideWindow
    <2>2. \A m : Got(m) <=> Got(m)'
      BY <1>3, <2>1 DEF Got
    <2>3. n < FirstId \/ Got(n)
      BY <1>5, <1>6, <2>1, FirstIdAssumption DEF Got
    <2>4. /\ \A a \in acks' : /\ a \in [n : Nat, p_id : PacketIdValue]
                              /\ a.p_id < FirstId \/ Got(a.p_id)'
          /\ ack_count' \in Nat /\ incoming_ack' \in PartialPacketId
      BY <1>5, <2>1, <2>2, <2>3, AckSent
    <2>5. AcksKnown' /\ CountersTyped'
      BY <1>1, <1>4, <1>8, <2>1, <2>4 DEF AcksKnown, CountersTyped
    <2>6. GapIsReal' /\ ~failed'
      BY <1>1, <1>3, <1>7, <2>1, <2>2 DEF AckInv, GapIsReal
    <2> QED
      BY <1>1, <1>2, <1>7, <2>2, <2>5, <2>6 DEF AckInv, LinkInv
  <1>10. CASE ReceiveWrongMac(n)
    <2>1. UNCHANGED <<receive_queue, cur, ack_id, failed, ackVars>>
      BY <1>10 DEF ReceiveWrongMac
    <2>2. \A m : Got(m) <=> Got(m)'
      BY <1>3, <2>1 DEF Got
    <2>3. AcksKnown' /\ CountersTyped' /\ GapIsReal' /\ ~failed'
      BY <1>1, <1>3, <1>4, <1>7, <2>1, <2>2 DEF AckInv, AcksKnown, CountersTyped, GapIsReal, ackVars
    <2> QED
      BY <1>1, <1>2, <1>7, <2>2, <2>3 DEF AckInv, LinkInv
  <1>11. CASE ReceiveInOrder(n)
    <2>1. /\ cur' = n /\ ack_id' = n /\ UNCHANGED <<receive_queue, failed, ackVars>>
          /\ n = Position
      BY <1>5, <1>11, AcceptedIsAhead, SizedFacts DEF ReceiveInOrder, Arrives, AckInv
    <2>2. \A m : Got(m) => Got(m)'
      BY <1>1, <1>3, <2>1 DEF Got
    <2>3. cur' # None
      BY <1>5, <2>1 DEF None
    <2>4. AcksKnown'
      BY <1>5, <1>6, <2>1, <2>2, <2>3, FirstIdAssumption DEF AckInv, AcksKnown, ackVars
    <2>5. CountersTyped' /\ GapIsReal' /\ ~failed'
      BY <1>1, <1>4, <1>7, <2>1, <2>2, <2>3 DEF AckInv, CountersTyped, GapIsReal, ackVars
    <2> QED
      BY <1>1, <1>2, <1>7, <2>2, <2>4, <2>5 DEF AckInv, LinkInv
  <1>12. CASE ReceiveOutOfOrder(n)
    <2>1. /\ n \in transmitted /\ Position <= n /\ n < queued
      BY <1>5, <1>6, <1>12, AcceptedIsAhead, SizedFacts, FirstIdAssumption
      DEF ReceiveOutOfOrder, Arrives, AckInv
    <2>2. Position < IdMod /\ Position \in unacked
      BY <1>1, <1>5, <1>6, <2>1, NextMissing, IdModAssumption
    <2>3. incoming.packet_id = Position
      BY <1>6, <2>2, OwnId DEF PartOf, Part
    <2>13. CASE InIdWindow(incoming.packet_id, MaxQueueLen, n % IdMod)
      <3>5. /\ receive_queue' = Append(receive_queue, n) /\ SendAck(n)
            /\ UNCHANGED <<cur, ack_id, failed>> /\ n # Position
        BY <1>5, <1>12, <2>3, <2>13 DEF ReceiveOutOfOrder
      <3>6. /\ Len(receive_queue') = Len(receive_queue) + 1
            /\ \A i \in 1 .. Len(receive_queue) : receive_queue'[i] = receive_queue[i]
            /\ receive_queue'[Len(receive_queue) + 1] = n
        BY <1>6, <2>1, <3>5, AppendProperties
      <3>7. \A m : Got(m) => Got(m)'
        BY <1>1, <1>3, <1>6, <3>6 DEF Got
      <3>8. Got(n)'
        <4>1. Len(receive_queue) + 1 \in 1 .. Len(receive_queue')
          BY <1>6, <3>6
        <4> QED
          BY <3>6, <4>1 DEF Got
      <3>9. /\ \A a \in acks' : /\ a \in [n : Nat, p_id : PacketIdValue]
                                /\ a.p_id < FirstId \/ Got(a.p_id)'
            /\ ack_count' \in Nat /\ incoming_ack' \in PartialPacketId
        BY <1>5, <3>5, <3>7, <3>8, AckSent
      <3>10. AcksKnown' /\ CountersTyped'
        BY <1>1, <1>4, <1>8, <3>5, <3>9 DEF AcksKnown, CountersTyped
      <3>11. \A i \in 1 .. Len(receive_queue') : receive_queue'[i] # Position
        <4>1. \A i \in 1 .. Len(receive_queue) : receive_queue[i] # Position
          BY <1>1 DEF AckInv, GapIsReal
        <4>2. \A i \in 1 .. Len(receive_queue') : i \in 1 .. Len(receive_queue) \/ i = Len(receive_queue) + 1
          BY <1>6, <3>6
        <4> QED
          BY <3>5, <3>6, <4>1, <4>2
      <3>12. GapIsReal' /\ ~failed'
        BY <1>1, <1>3, <1>7, <3>5, <3>7, <3>11 DEF GapIsReal
      <3> QED
        BY <1>1, <1>2, <1>7, <3>7, <3>10, <3>12 DEF AckInv, LinkInv
    <2>14. CASE ~InIdWindow(incoming.packet_id, MaxQueueLen, n % IdMod)
      <3>1. n - Position >= MaxQueueLen
        <4>1. Position + MaxQueueLen < IdMod
                => (Position + MaxQueueLen) % IdMod = Position + MaxQueueLen
          BY <1>6, LinkAssumption, IdModAssumption
        <4> QED
          BY <1>5, <1>6, <2>1, <2>2, <2>3, <2>14, <4>1, LinkAssumption, IdModAssumption
          DEF InIdWindow, WindowLimit, WindowOverflows
      <3>2. failed' = TRUE /\ UNCHANGED <<receive_queue, cur, ack_id, ackVars>>
        BY <1>12, <2>14 DEF ReceiveOutOfOrder
      <3>3. \A a \in acks : a.p_id # Position
        <4>1. ~Got(Position)
          BY <1>1, <1>6, FirstIdAssumption DEF Got, AckInv, GapIsReal
        <4> QED
          BY <1>6, <4>1, FirstIdAssumption DEF AckInv, AcksKnown
      <3>4. Overrun'
        <4>1. n \in transmitted' /\ Position \in unacked' /\ acks' = acks
          BY <1>3, <2>1, <2>2, <3>2 DEF ackVars
        <4> QED
          BY <3>1, <3>3, <4>1 DEF Overrun
      <3>5. LeftTyped' /\ CountersTyped'
        BY <1>1, <1>3, <1>4, <3>2, AckTyped DEF AckInv, CountersTyped, LeftTyped, TypeOK, ackVars
      <3>6. AcksOld'
        BY <1>3, <3>2, GotFacts DEF AckInv, AcksKnown, AcksOld, ackVars
      <3> QED
        BY <1>1, <1>2, <3>2, <3>4, <3>5, <3>6 DEF FailedInv, LinkInv
    <2> QED
      BY <2>13, <2>14
  <1> QED
    BY <1>9, <1>10, <1>11, <1>12 DEF Receive

\* handle_command_packet: what was waiting is still there or was consumed.
LEMMA AckHandle ==
    ASSUME AckInv, Sized, HandleCommandPacket, UNCHANGED failed
    PROVE  AckInv' /\ UNCHANGED senderVars
  <1>1. LoopStep /\ cur # None /\ UNCHANGED <<senderVars, sent, arrivals>>
    BY DEF HandleCommandPacket, HandleWhole, HandleFirstFragment, HandleMiddleFragment,
       HandleLastFragment, LoopStep
  <1>2. OrderInv' /\ Position' = Position + 1 /\ \E done : NextIteration(done)
    BY HandleKeeps, SizedFacts DEF AckInv
  <1>3. PICK done : NextIteration(done)
    BY <1>2
  <1>4. /\ queued \in Nat /\ Position \in Nat /\ FirstId <= Position
        /\ queued <= IdMod /\ cur = Position /\ cur \in transmitted /\ Position < queued
        /\ receive_queue \in Seq(transmitted) /\ Len(receive_queue) \in Nat
        /\ \A i \in 1 .. Len(receive_queue) : receive_queue[i] \in Nat
    BY <1>1, NumberFacts
  <1> DEFINE pos == FollowingPos(cur % IdMod)
  <1>5. \/ /\ pos = 0
           /\ \A i \in 1 .. Len(receive_queue) :
                receive_queue[i] % IdMod # (Position + 1) % IdMod
        \/ /\ pos # 0 /\ pos \in 1 .. Len(receive_queue)
    <2>1. ((cur % IdMod) + 1) % IdMod = (Position + 1) % IdMod
      BY <1>4, NextIdOf
    <2> QED
      BY <1>4, <2>1, FollowingFacts
  <1>6. \/ /\ pos # 0 /\ cur' = receive_queue[pos] /\ receive_queue' = RemoveAt(receive_queue, pos)
           /\ UNCHANGED <<ack_id, ackVars>>
        \/ /\ pos = 0 /\ cur' = None /\ receive_queue' = receive_queue
           /\ SendAck(ack_id) /\ ack_id' = None
    BY <1>3 DEF NextIteration
  <1> HIDE DEF pos
  <1>7. ack_id \in FirstId .. cur /\ ack_id \in Nat /\ ack_id <= Position /\ ack_id \in PacketIdValue
    <2>1. ack_id \in FirstId .. cur
      BY <1>1 DEF AckInv, AcksKnown
    <2> QED
      BY <1>4, <2>1, FirstIdAssumption, IdModAssumption DEF PacketIdValue
  <1>8. \A n \in FirstId .. Position' - 1 : Got(n)' /\ n \in transmitted'
    <2>1. \A n \in FirstId .. Position' - 1 : n \in FirstId .. Position - 1 \/ n = cur
      BY <1>2, <1>4, FirstIdAssumption
    <2>2. \A n \in FirstId .. Position - 1 : n \in transmitted
      BY DEF AckInv, GapIsReal
    <2>3. transmitted' = transmitted
      BY <1>1 DEF senderVars
    <2> QED
      BY <1>4, <2>1, <2>2, <2>3 DEF Got
  <1>9. ASSUME \A n : Got(n) => Got(n)' PROVE SenderKnows'
    BY <1>1, <1>9 DEF AckInv, SenderKnows, senderVars
  <1>10. ASSUME NEW n, Got(n), \A i \in 1 .. Len(receive_queue) : n # receive_queue[i]
         PROVE  Got(n)'
    <2>1. n \in FirstId .. Position - 1 \/ n = cur
      BY <1>10 DEF Got
    <2>2. n \in FirstId .. Position' - 1
      BY <1>2, <1>4, <2>1, FirstIdAssumption
    <2> QED
      BY <1>8, <2>2
  <1>11. CASE pos # 0
    <2>1. /\ pos \in 1 .. Len(receive_queue) /\ cur' = receive_queue[pos]
          /\ receive_queue' = RemoveAt(receive_queue, pos) /\ UNCHANGED <<ack_id, ackVars>>
      BY <1>5, <1>6, <1>11
    <2>2. /\ Len(receive_queue') = Len(receive_queue) - 1
          /\ \A i \in 1 .. Len(receive_queue) - 1 :
               receive_queue'[i] = IF i < pos THEN receive_queue[i] ELSE receive_queue[i + 1]
      BY <1>4, <2>1, RemoveFacts
    <2>3. cur' \in Nat /\ cur' # None
      BY <1>4, <2>1 DEF None
    <2>4. ASSUME NEW i \in 1 .. Len(receive_queue), NEW n, n = receive_queue[i] PROVE Got(n)'
      <3>1. CASE i = pos
        BY <2>1, <2>3, <2>4, <3>1 DEF Got
      <3>2. CASE i < pos
        <4>1. i \in 1 .. Len(receive_queue') /\ receive_queue'[i] = receive_queue[i]
          BY <1>4, <2>1, <2>2, <3>2
        <4> QED
          BY <2>4, <4>1 DEF Got
      <3>3. CASE i > pos
        <4>1. i - 1 \in 1 .. Len(receive_queue) - 1 /\ ~(i - 1 < pos) /\ (i - 1) + 1 = i
          BY <1>4, <2>1, <3>3
        <4>2. i - 1 \in 1 .. Len(receive_queue') /\ receive_queue'[i - 1] = receive_queue[i]
          BY <2>2, <4>1
        <4> QED
          BY <2>4, <4>2 DEF Got
      <3> QED
        BY <2>1, <3>1, <3>2, <3>3
    <2>5. \A n : Got(n) => Got(n)'
      BY <1>10, <2>4
    <2>6. cur' = Position'
      BY <1>2, <2>3 DEF AckInv, OrderInv, CurrentPart
    <2>7. AcksKnown'
      <3>1. ack_id' \in FirstId .. cur'
        BY <1>2, <1>4, <1>7, <2>1, <2>6, FirstIdAssumption
      <3> QED
        BY <2>1, <2>3, <2>5, <3>1 DEF AckInv, AcksKnown, ackVars
    <2>8. CountersTyped' /\ GapIsReal' /\ ~failed'
      BY <1>1, <1>2, <1>8, <2>1, <2>3 DEF AckInv, CountersTyped, GapIsReal, ackVars
    <2> QED
      BY <1>1, <1>2, <1>9, <2>5, <2>7, <2>8 DEF AckInv
  <1>12. CASE pos = 0
    <2>1. /\ cur' = None /\ receive_queue' = receive_queue /\ SendAck(ack_id) /\ ack_id' = None
          /\ \A i \in 1 .. Len(receive_queue) : receive_queue[i] # Position + 1
      BY <1>5, <1>6, <1>12
    <2>2. \A n : Got(n) => Got(n)'
      BY <1>10, <2>1 DEF Got
    <2>3. PICK m : m = ack_id /\ m \in PacketIdValue /\ SendAck(m) /\ Got(m)'
      <3>1. PICK m : m = ack_id
        OBVIOUS
      <3>2. m \in FirstId .. Position' - 1 /\ m \in PacketIdValue
        BY <1>2, <1>4, <1>7, <3>1, FirstIdAssumption
      <3> QED
        BY <1>8, <2>1, <3>1, <3>2
    <2>4. /\ \A a \in acks' : /\ a \in [n : Nat, p_id : PacketIdValue]
                              /\ a.p_id < FirstId \/ Got(a.p_id)'
          /\ ack_count' \in Nat /\ incoming_ack' \in PartialPacketId
      BY <2>2, <2>3, AckSent
    <2>5. AcksKnown'
      BY <2>1, <2>4 DEF AcksKnown
    <2>6. CountersTyped' /\ GapIsReal' /\ ~failed'
      BY <1>1, <1>2, <1>8, <2>1, <2>4 DEF AckInv, CountersTyped, GapIsReal
    <2> QED
      BY <1>1, <1>2, <1>9, <2>2, <2>5, <2>6 DEF AckInv
  <1> QED
    BY <1>11, <1>12

\* handle_command_packet: the fragment queue overflows.
LEMMA AckHandleFails ==
    ASSUME AckInv, Sized, HandleCommandPacket, ~UNCHANGED failed
    PROVE  FailedInv' /\ UNCHANGED senderVars
  <1>1. LoopStep /\ UNCHANGED <<senderVars, sent, arrivals>>
    BY DEF HandleCommandPacket, HandleWhole, HandleFirstFragment, HandleMiddleFragment,
       HandleLastFragment, LoopStep
  <1>2. /\ OrderInv' /\ failed' = TRUE /\ cur' = None /\ ack_id' = None /\ packets' = <<>>
        /\ UNCHANGED <<fragmented_queue, receive_queue, delivered, ackVars>> /\ TooLong
    BY HandleKeeps, SizedFacts DEF AckInv
  <1>3. TypeOK
    BY AckTyped
  <1>4. incoming' \in PartialPacketId
    BY <1>1, <1>3, NextId DEF LoopStep, TypeOK
  <1>5. <<>> \in Seq(Seq(PacketNumber))
    OBVIOUS
  <1>6. LeftTyped' /\ CountersTyped'
    BY <1>1, <1>2, <1>3, <1>4, <1>5
    DEF AckInv, CountersTyped, LeftTyped, TypeOK, ackVars, senderVars
  <1>7. AcksOld'
    BY <1>1, <1>2, GotFacts DEF AckInv, AcksKnown, AcksOld, ackVars, senderVars
  <1>8. TooLong'
    BY <1>1, <1>2 DEF TooLong
  <1> QED
    BY <1>1, <1>2, <1>6, <1>7, <1>8 DEF FailedInv

\* The invariant holds at first.
LEMMA InitAck ==
    ASSUME Sized, Init PROVE AckInv
  <1>1. /\ sent = <<>> /\ delivered = <<>> /\ packets = <<>> /\ fragmented_queue = <<>>
        /\ receive_queue = <<>> /\ cur = None /\ failed = FALSE /\ queued = FirstId
        /\ transmitted = {} /\ unacked = {} /\ acks = {} /\ ack_id = None
        /\ ack_count = 0 /\ incoming_ack = Part(0, 0)
        /\ arrivals = [n \in Arrivable |-> IF n \in LatePackets THEN MaxArrivals - 1 ELSE 0]
    BY DEF Init, SenderInit
  <1>2. OrderInv
    BY InitOrder, SizedFacts
  <1>3. Len(<<>>) = 0
    BY EmptySeq
  <1>4. Position = FirstId
    BY <1>1, <1>3, FirstIdAssumption DEF Position, Finished, Start
  <1>5. FirstId .. Position - 1 = {} /\ FirstId .. queued - 1 = {}
    BY <1>1, <1>4, FirstIdAssumption
  <1>6. AcksKnown /\ SenderKnows /\ GapIsReal
    BY <1>1, <1>3, <1>5 DEF AcksKnown, SenderKnows, GapIsReal
  <1>7. CountersTyped
    <2>1. arrivals \in [Arrivable -> 0 .. MaxArrivals]
      BY <1>1, LinkAssumption
    <2>2. Part(0, 0) \in PartialPacketId
      BY IdModAssumption, GenModAssumption
      DEF Part, PartialPacketId, PacketIdValue, GenerationValue
    <2> QED
      BY <1>1, <2>1, <2>2 DEF CountersTyped
  <1> QED
    BY <1>1, <1>2, <1>6, <1>7 DEF AckInv

\* Every step keeps it, and is one that the sender's contract allows.
LEMMA NextAlive ==
    ASSUME Sized, AckInv, [Next]_vars
    PROVE  LinkInv' /\ [SenderNext]_senderVars
  <1>1. ASSUME NEW k \in CommandSizes, SendCommand(k) PROVE AckInv' /\ SenderNext
    BY <1>1, AckSendCommand
  <1>2. CASE Transmit
    BY <1>2, AckTransmit DEF LinkInv
  <1>3. ASSUME NEW a \in acks, ReceiveAck(a) PROVE AckInv' /\ [SenderNext]_senderVars
    BY <1>3, AckReceiveAck
  <1>4. ASSUME NEW n \in Arrivable, Receive(n) PROVE LinkInv' /\ UNCHANGED senderVars
    BY <1>4, AckReceive
  <1>5. CASE HandleCommandPacket
    BY <1>5, AckHandle, AckHandleFails DEF LinkInv
  <1>6. CASE UNCHANGED vars
    <2>1. UNCHANGED <<senderVars, sent, receiverVars, ackVars>>
      BY <1>6 DEF vars
    <2>2. OrderInv' /\ UNCHANGED senderVars
      BY <2>1, QuietReceiver DEF AckInv, receiverVars
    <2>3. Position' = Position /\ \A n : Got(n) <=> Got(n)'
      BY <2>1 DEF Got, Position, Finished, Start, receiverVars, senderVars
    <2>4. AcksKnown' /\ SenderKnows' /\ GapIsReal' /\ CountersTyped' /\ ~failed'
      BY <2>1, <2>3
      DEF AckInv, AcksKnown, SenderKnows, GapIsReal, CountersTyped, receiverVars, ackVars,
          senderVars
    <2> QED
      BY <2>2, <2>4 DEF AckInv, LinkInv
  <1> QED
    BY <1>1, <1>2, <1>3, <1>4, <1>5, <1>6 DEF Next, LinkInv

\* Every step after the receiver has given up
LEMMA NextFailed ==
    ASSUME Sized, FailedInv, [Next]_vars
    PROVE  FailedInv' /\ [SenderNext]_senderVars
  <1>1. /\ OrderInv /\ failed = TRUE /\ cur = None /\ queued \in Nat
        /\ \A n \in unacked : n \in Nat /\ FirstId <= n /\ n < IdMod
        /\ \A n \in transmitted : n \in Nat /\ FirstId <= n
    <2>1. FirstId + MaxPackets <= IdMod
      BY SizedFacts
    <2> QED
      BY <2>1, FirstIdAssumption, MaxPacketsAssumption, IdModAssumption
      DEF FailedInv, OrderInv, SenderTypeOK
  <1>2. ASSUME UNCHANGED <<receiverVars, acks, ack_count>>, UNCHANGED incoming_ack,
               transmitted \subseteq transmitted', unacked \subseteq unacked',
               OrderInv', TooLong => TooLong'
        PROVE  FailedInv'
    <2>1. CountersTyped' /\ AcksOld'
      BY <1>2 DEF FailedInv, CountersTyped, AcksOld, receiverVars
    <2>2. LeftTyped'
      <3>1. receive_queue \in Seq(transmitted') /\ fragmented_queue \in Seq(transmitted')
        BY <1>2 DEF FailedInv, LeftTyped
      <3> QED
        BY <1>2, <3>1 DEF FailedInv, LeftTyped, receiverVars
    <2>3. Overrun => Overrun'
      BY <1>2 DEF Overrun
    <2> QED
      BY <1>1, <1>2, <2>1, <2>2, <2>3 DEF FailedInv, receiverVars
  <1>3. ASSUME NEW k \in CommandSizes, SendCommand(k) PROVE FailedInv' /\ SenderNext
    <2>1. /\ Enqueue(k) /\ UNCHANGED <<receiverVars, ackVars, transmitted>>
          /\ unacked \subseteq unacked' /\ queued + k <= FirstId + MaxPackets
          /\ sent' = Append(sent, [i \in 1 .. k |-> queued + i - 1])
      BY <1>3 DEF SendCommand, Enqueue
    <2>2. OrderInv'
      BY <1>1, <1>3, SendKeeps
    <2>3. TooLong => TooLong'
      <3> DEFINE c == [i \in 1 .. k |-> queued + i - 1]
      <3>1. k \in Nat
        BY LinkAssumption
      <3>2. c \in [1 .. k -> Nat]
        BY <1>1, <3>1
      <3>3. c \in Seq(Nat)
        BY <3>1, <3>2, SeqDef
      <3> HIDE DEF c
      <3>4. sent \in Seq(Seq(Nat)) /\ Len(sent) \in Nat /\ sent' = Append(sent, c)
        BY <1>1, <2>1, LenProperties DEF OrderInv, Numbered, c
      <3>5. Len(sent') = Len(sent) + 1 /\ \A i \in 1 .. Len(sent) : sent'[i] = sent[i]
        BY <3>3, <3>4, AppendProperties
      <3>6. \A i \in 1 .. Len(sent) : i \in 1 .. Len(sent')
        BY <3>4, <3>5
      <3> QED
        BY <3>5, <3>6 DEF TooLong
    <2>4. k \in 1 .. MaxPackets
      <3>1. k \in Nat \ {0} /\ queued >= FirstId
        BY <1>1, LinkAssumption, FirstIdAssumption DEF OrderInv, SenderTypeOK
      <3> QED
        BY <1>1, <2>1, <3>1, FirstIdAssumption, MaxPacketsAssumption
    <2>5. FailedInv'
      BY <1>2, <2>1, <2>2, <2>3 DEF ackVars
    <2> QED
      BY <2>1, <2>4, <2>5 DEF SenderNext
  <1>4. ASSUME Transmit PROVE FailedInv' /\ SenderNext
    <2>1. /\ TransmitNext /\ UNCHANGED <<sent, receiverVars, ackVars, unacked>>
          /\ transmitted \subseteq transmitted'
      BY <1>4 DEF Transmit, TransmitNext
    <2>2. OrderInv' /\ (TooLong => TooLong')
      BY <1>1, <1>4, <2>1, SenderKeeps DEF TooLong
    <2>3. FailedInv'
      BY <1>2, <2>1, <2>2 DEF ackVars
    <2> QED
      BY <2>1, <2>3 DEF SenderNext
  <1>5. ASSUME NEW a \in acks, ReceiveAck(a) PROVE FailedInv' /\ [SenderNext]_senderVars
    <2>1. /\ UNCHANGED <<queued, transmitted, sent, receiverVars, acks, ack_count>>
          /\ unacked' = unacked \ AckTarget(a.p_id)
          /\ incoming_ack' = Plus(PartOf(a.n), 1)
      BY <1>5 DEF ReceiveAck
    <2>2. \A n \in AckTarget(a.p_id) : n = a.p_id /\ n \in unacked
      <3>1. ASSUME NEW n \in AckTarget(a.p_id) PROVE n = a.p_id /\ n \in unacked
        <4>1. PICK f \in unacked : RecordKey(n) = AckedKey(RecordKey(f), a.p_id)
          BY DEF AckTarget
        <4>2. n \in unacked /\ n \in Nat /\ n < IdMod
          BY <1>1 DEF AckTarget
        <4>3. RecordKey(n).packet_id = n
          BY <4>2, OwnId DEF RecordKey, EncodedId, PartOf, Part
        <4>4. AckedKey(RecordKey(f), a.p_id).packet_id = a.p_id
          BY DEF AckedKey, Part
        <4> QED
          BY <4>1, <4>2, <4>3, <4>4
      <3> QED
        BY <3>1
    <2>3. a.n \in Nat /\ (a.p_id < FirstId \/ a.p_id \in transmitted)
      BY DEF FailedInv, AcksOld
    <2>4. \A n \in AckTarget(a.p_id) : n \in transmitted
      BY <1>1, <2>2, <2>3, FirstIdAssumption
    <2>5. OrderInv' /\ (TooLong => TooLong')
      BY <1>1, <1>5, <2>1, SenderKeeps DEF TooLong
    <2>6. LeftTyped' /\ AcksOld'
      BY <2>1 DEF FailedInv, LeftTyped, AcksOld, receiverVars
    <2>7. CountersTyped'
      BY <2>1, <2>3, PartOfType DEF FailedInv, CountersTyped, receiverVars
    <2>8. Overrun => Overrun'
      <3> SUFFICES ASSUME Overrun PROVE Overrun'
        OBVIOUS
      <3>1. PICK n \in unacked, m \in transmitted :
              m - n >= MaxQueueLen /\ \A b \in acks : b.p_id # n
        BY DEF Overrun
      <3>2. n \in unacked' /\ acks' = acks /\ m \in transmitted'
        BY <2>1, <2>2, <3>1
      <3> QED
        BY <3>1, <3>2 DEF Overrun
    <2>9. [SenderNext]_senderVars
      <3>1. CASE AckTarget(a.p_id) = {}
        BY <2>1, <3>1 DEF senderVars
      <3>2. CASE AckTarget(a.p_id) # {}
        <4>1. AckTarget(a.p_id) = {a.p_id} /\ a.p_id \in InFlight
          BY <2>2, <2>4, <3>2 DEF InFlight
        <4> QED
          BY <2>1, <4>1 DEF SenderNext, Acknowledge
      <3> QED
        BY <3>1, <3>2
    <2> QED
      BY <1>1, <2>1, <2>5, <2>6, <2>7, <2>8, <2>9 DEF FailedInv, receiverVars
  <1>6. CASE UNCHANGED vars
    <2>1. UNCHANGED <<senderVars, sent, receiverVars, ackVars>>
      BY <1>6 DEF vars
    <2>2. OrderInv' /\ UNCHANGED senderVars
      BY <1>1, <2>1, QuietReceiver DEF receiverVars
    <2>3. FailedInv'
      BY <1>2, <2>1, <2>2 DEF ackVars, senderVars, TooLong
    <2> QED
      BY <2>2, <2>3
  <1>7. ASSUME NEW n \in Arrivable, Receive(n) PROVE FALSE
    BY <1>1, <1>7 DEF Receive, ReceiveOutsideWindow, ReceiveWrongMac, ReceiveInOrder,
       ReceiveOutOfOrder, Arrives, Arriving
  <1>8. ~HandleCommandPacket
    BY <1>1 DEF HandleCommandPacket, HandleWhole, HandleFirstFragment, HandleMiddleFragment,
       HandleLastFragment, LoopStep
  <1> QED
    BY <1>3, <1>4, <1>5, <1>6, <1>7, <1>8 DEF Next

\* Every step keeps the invariant, and is one that the contract allows.
LEMMA NextLink ==
    ASSUME Sized, LinkInv, [Next]_vars
    PROVE  LinkInv' /\ [SenderNext]_senderVars
  BY NextAlive, NextFailed DEF LinkInv

\* A packet before Position is in a command that is complete, or it is one of
\* the fragments.
LEMMA ConsumedFacts ==
    ASSUME OrderInv, ~failed, NEW n \in FirstId .. Position - 1
    PROVE  \/ \E i \in 1 .. Len(delivered) : n \in Range(delivered[i])
           \/ \E i \in 1 .. Len(packets) : n \in Range(packets[i])
           \/ n \in Range(fragmented_queue)
  <1>1. /\ Len(sent) \in Nat /\ Finished \in 0 .. Len(sent) /\ Start(Finished + 1) \in Nat
        /\ Position \in Nat /\ Len(fragmented_queue) \in Nat /\ n \in Nat
        /\ Position = Start(Finished + 1) + Len(fragmented_queue)
    BY PositionFacts, FirstIdAssumption DEF Position
  <1>2. /\ Len(delivered) \in Nat /\ Len(packets) \in Nat
        /\ Finished = Len(delivered) + Len(packets)
        /\ \A i \in 1 .. Len(delivered) : delivered[i] = sent[i]
        /\ \A i \in 1 .. Len(packets) : packets[i] = sent[Len(delivered) + i]
    BY LenProperties DEF OrderInv, DeliveredPart, CompletedPart, Continues, Finished
  <1>3. CASE n >= Start(Finished + 1)
    <2> DEFINE f == Start(Finished + 1)  l == Position - 1
    <2>1. f \in Nat /\ l \in Int /\ l >= f - 1 /\ fragmented_queue = Interval(f, l)
      BY <1>1 DEF OrderInv, FragmentPart
    <2>2. n >= f /\ n <= l
      <3>1. n <= Position - 1
        BY <1>1, FirstIdAssumption
      <3> QED
        BY <1>3, <3>1
    <2> HIDE DEF f, l
    <2>3. /\ fragmented_queue \in Seq(Nat) /\ Len(fragmented_queue) = l - f + 1
          /\ \A i \in 1 .. l - f + 1 : fragmented_queue[i] = f + i - 1
      BY <2>1, IntervalFacts
    <2>4. n - f + 1 \in 1 .. Len(fragmented_queue) /\ fragmented_queue[n - f + 1] = n
      <3>1. n - f + 1 \in 1 .. l - f + 1 /\ f + (n - f + 1) - 1 = n
        BY <1>1, <2>1, <2>2
      <3> QED
        BY <2>3, <3>1
    <2> QED
      BY <2>3, <2>4, RangeEquality
  <1>4. CASE n < Start(Finished + 1)
    <2> DEFINE S == {i \in 1 .. Finished + 1 : Start(i) > n}
    <2>1. S \subseteq Nat /\ Finished + 1 \in S
      BY <1>1, <1>4
    <2>2. PICK m \in S : \A i \in S : m <= i
      BY <2>1, SmallestNumber
    <2>3. m \in 1 .. Finished + 1 /\ Start(m) > n /\ m # 1
      BY StartFacts, FirstIdAssumption DEF OrderInv
    <2> DEFINE k == m - 1
    <2>4. k \in 1 .. Finished /\ k \in 1 .. Len(sent) /\ k + 1 = m /\ k \notin S
      BY <1>1, <2>2, <2>3
    <2>5. /\ Start(k) \in Nat /\ Start(k + 1) \in Nat /\ Start(k) <= n /\ n < Start(k + 1)
      <3>1. k \in 1 .. Len(sent) + 1 /\ k + 1 \in 1 .. Len(sent) + 1 /\ k \in 1 .. Finished + 1
        BY <1>1, <2>4
      <3>2. Start(k) \in Nat /\ Start(k + 1) \in Nat
        BY <3>1, StartFacts DEF OrderInv
      <3>3. ~(Start(k) > n)
        BY <2>4, <3>1
      <3> QED
        BY <1>1, <2>3, <2>4, <3>2, <3>3
    <2> HIDE DEF k, S
    <2>6. /\ sent[k] \in Seq(Nat) /\ Len(sent[k]) = Start(k + 1) - Start(k)
          /\ \A j \in 1 .. Len(sent[k]) : sent[k][j] = Start(k) + j - 1
      BY <2>4, StartFacts DEF OrderInv
    <2>7. n - Start(k) + 1 \in 1 .. Len(sent[k]) /\ sent[k][n - Start(k) + 1] = n
      <3>1. /\ n - Start(k) + 1 \in 1 .. Start(k + 1) - Start(k)
            /\ Start(k) + (n - Start(k) + 1) - 1 = n
        BY <1>1, <2>5
      <3> QED
        BY <2>6, <3>1
    <2>8. n \in Range(sent[k])
      BY <2>6, <2>7, RangeEquality
    <2>9. CASE k <= Len(delivered)
      BY <1>2, <2>4, <2>8, <2>9
    <2>10. CASE k > Len(delivered)
      <3>1. k - Len(delivered) \in 1 .. Len(packets) /\ Len(delivered) + (k - Len(delivered)) = k
        BY <1>2, <2>4, <2>10
      <3>2. packets[k - Len(delivered)] = sent[k]
        BY <1>2, <3>1
      <3> QED
        BY <2>8, <3>1, <3>2
    <2> QED
      BY <1>2, <2>4, <2>9, <2>10
  <1>5. n >= Start(Finished + 1) \/ n < Start(Finished + 1)
    BY <1>1
  <1> QED
    BY <1>3, <1>4, <1>5

-----------------------------------------------------------------------------
(* The theorems about the acknowledgements.                                *)

\* Connection::send_packet: whatever acks are lost, repeated or late, a packet
\* leaves the send queue only after the peer has received it.
THEOREM AcksTruthful ==
    ASSUME Sized PROVE Spec => []AckedWereReceived
  <1>1. Init => LinkInv
    BY InitAck DEF LinkInv
  <1>2. LinkInv /\ [Next]_vars => LinkInv'
    BY NextLink
  <1>3. LinkInv => AckedWereReceived
    <2> SUFFICES ASSUME AckInv, NEW n \in (FirstId .. queued - 1) \ unacked
                 PROVE  n \in Received
      BY DEF AckedWereReceived, LinkInv, FailedInv
    <2>1. Got(n)
      BY DEF AckInv, SenderKnows
    <2>2. CASE n \in FirstId .. Position - 1
      <3>1. \/ \E i \in 1 .. Len(delivered) : n \in Range(delivered[i])
            \/ \E i \in 1 .. Len(packets) : n \in Range(packets[i])
            \/ n \in Range(fragmented_queue)
        BY <2>2, ConsumedFacts DEF AckInv
      <3>2. DOMAIN delivered = 1 .. Len(delivered) /\ DOMAIN packets = 1 .. Len(packets)
        BY LenProperties DEF AckInv, OrderInv, DeliveredPart, CompletedPart, Continues
      <3> QED
        BY <3>1, <3>2 DEF Received
    <2>3. CASE n = cur
      BY <2>3 DEF Received
    <2>4. CASE \E i \in 1 .. Len(receive_queue) : n = receive_queue[i]
      <3>1. n \in Range(receive_queue)
        BY <2>4, NumberFacts, RangeEquality
      <3> QED
        BY <3>1 DEF Received
    <2> QED
      BY <2>1, <2>2, <2>3, <2>4 DEF Got
  <1> QED
    BY <1>1, <1>2, <1>3, PTL DEF Spec

\* handle_udp_packet gives up the connection only if the sender has run on by
\* MAX_QUEUE_LEN packets behind one that is not acknowledged, or has sent a
\* command with too many fragments; in_receive_window never subtracts from
\* generation 0, and every variable keeps its type.
THEOREM LinkIsSound ==
    ASSUME Sized PROVE Spec => []LinkSound
  <1>1. Init => LinkInv
    BY InitAck DEF LinkInv
  <1>2. LinkInv /\ [Next]_vars => LinkInv'
    BY NextLink
  <1>3. AckInv => LinkSound
    <2> SUFFICES ASSUME AckInv PROVE LinkSound
      OBVIOUS
    <2>1. TypeOK /\ FailsOnlyWhenOverrun
      BY AckTyped DEF AckInv, FailsOnlyWhenOverrun
    <2>2. ASSUME NEW n \in Arrivable, Arriving(n)
          PROVE  \/ incoming.generation_id > 0
                 \/ InReceiveWindow(incoming, n % IdMod)
                 \/ n % IdMod < incoming.packet_id
      <3>1. /\ n \in Nat /\ n % IdMod = n
            /\ n < Position \/ InReceiveWindow(incoming, n % IdMod)
        BY <2>2, ArrivingFacts
      <3>2. Position \in Nat /\ Position <= IdMod /\ incoming = PartOf(Position)
        BY NumberFacts, IdModAssumption
      <3>3. CASE Position < IdMod
        <4>1. incoming.packet_id = Position
          BY <3>2, <3>3, OwnId DEF PartOf, Part
        <4> QED
          BY <3>1, <4>1
      <3>4. CASE Position = IdMod
        <4>1. IdMod \div IdMod = 1 /\ 1 % GenMod = 1
          BY IdModAssumption, GenModAssumption
        <4>2. PartOf(IdMod).generation_id = 1
          BY <4>1 DEF PartOf, Part
        <4> QED
          BY <3>2, <3>4, <4>2
      <3> QED
        BY <3>2, <3>3, <3>4, IdModAssumption
    <2> QED
      BY <2>1, <2>2 DEF LinkSound, NoGenerationUnderflow
  <1>4. FailedInv => LinkSound
    <2> SUFFICES ASSUME FailedInv PROVE LinkSound
      OBVIOUS
    <2>1. FailsOnlyWhenOverrun
      <3>1. DOMAIN sent = 1 .. Len(sent)
        BY StartFacts DEF FailedInv, OrderInv
      <3> QED
        BY <3>1 DEF FailedInv, Overrun, TooLong, FailsOnlyWhenOverrun, RunOn, Oversized
    <2>2. NoGenerationUnderflow
      BY DEF FailedInv, NoGenerationUnderflow, Arriving
    <2>3. TypeOK
      <3>1. acks \in SUBSET [n : Nat, p_id : PacketIdValue]
        BY DEF FailedInv, AcksOld
      <3>2. cur \in transmitted \cup {None} /\ failed \in BOOLEAN /\ SenderTypeOK
        BY DEF FailedInv, OrderInv
      <3> QED
        BY <3>1, <3>2, SentTyped DEF FailedInv, CountersTyped, LeftTyped, TypeOK
    <2> QED
      BY <2>1, <2>2, <2>3 DEF LinkSound
  <1> QED
    BY <1>1, <1>2, <1>3, <1>4, PTL DEF Spec, LinkInv

\* Every step of the link, the receipt of any ack included, is a step that
\* the resender's contract (ReliableSender) allows.
THEOREM ContractKept ==
    ASSUME Sized PROVE Spec => KeepsSenderContract
  <1>1. Init => LinkInv /\ SenderInit
    BY InitAck DEF Init, LinkInv
  <1>2. LinkInv /\ [Next]_vars => LinkInv' /\ [SenderNext]_senderVars
    BY NextLink
  <1> QED
    BY <1>1, <1>2, PTL DEF Spec, KeepsSenderContract, SenderSpec

=============================================================================
