--------------------------- MODULE KeepAliveProofs ---------------------------
(***************************************************************************)
(* Proofs about the keep-alive, for all timeouts, ping counts and          *)
(* instants of packets, commands and polls.                                *)
(*                                                                         *)
(* The argument.  While the task is not woken every deadline has an armed  *)
(* timer that expires no later, and time does not go on over an expired    *)
(* timer; so a deadline is still ahead or is now.  When a ping falls due   *)
(* that means it is sent exactly one interval after the last sign of life  *)
(* or the last ping, which makes the list of pings a measure of silence.   *)
(***************************************************************************)
EXTENDS KeepAlive, SequenceTheorems, WellFoundedInduction, TLAPS

-----------------------------------------------------------------------------
(* Packet ids.                                                             *)

\* impl Add<u16>: the next id is an id.
LEMMA NextId ==
    ASSUME NEW p \in PartialPacketId
    PROVE  Plus(p, 1) \in PartialPacketId
  <1>1. \A x \in Int : x % IdMod \in PacketIdValue /\ x % GenMod \in GenerationValue
    BY IdModAssumption, GenModAssumption DEF PacketIdValue, GenerationValue
  <1>2. p.generation_id \in GenerationValue /\ p.packet_id \in PacketIdValue
    BY DEF PartialPacketId
  <1>3. p.generation_id + 1 \in Int /\ p.packet_id + 1 \in Int
    BY <1>2, IdModAssumption, GenModAssumption DEF PacketIdValue, GenerationValue
  <1>4. (p.generation_id + 1) % GenMod \in GenerationValue /\ (p.packet_id + 1) % IdMod \in PacketIdValue
    BY <1>1, <1>3
  <1> QED
    BY <1>2, <1>4 DEF Plus, Part, PartialPacketId

\* PacketCodec::encode_packet yields an id, also when the generation wraps.
LEMMA EncodedIdType ==
    \A p \in PartialPacketId : EncodedId(p) \in PartialPacketId
  BY NextId DEF EncodedId, Part, PartialPacketId

\* A set of numbers has a smallest one.
LEMMA SmallestNumber ==
    ASSUME NEW S, S \subseteq Nat, S # {}
    PROVE  \E n \in S : \A m \in S : n <= m
  <1>1. PICK n \in S : \A m \in S : ~(<<m, n>> \in OpToRel(<, Nat))
    BY WFMin, NatLessThanWellFounded
  <1>2. \A m \in S : ~(m < n)
    BY <1>1 DEF OpToRel
  <1> QED
    BY <1>2

-----------------------------------------------------------------------------
(* The invariant.                                                          *)

Commands == [sent : 0 .. MaxTime, last : (0 .. MaxTime) \cup {None}]
Pings == [id : PartialPacketId, sent : 0 .. MaxTime]

Typed ==
    /\ state \in {"Connecting", "Connected", "Disconnecting", "Disconnected"}
    /\ now \in 0 .. MaxTime
    /\ last_receive \in 0 .. MaxTime /\ last_receive <= now
    /\ last_send \in 0 .. MaxTime /\ last_send <= now
    /\ queue \in Seq(Commands)
    /\ \A i \in DOMAIN queue : queue[i].sent <= now /\ queue[i].last <= now
    /\ last_pings \in Seq(Pings) /\ Len(last_pings) <= PingCount
    /\ \A i \in DOMAIN last_pings : last_pings[i].sent <= now
    /\ outgoing_ping \in PartialPacketId
    /\ ping_timeout \in (0 .. MaxTime + PingInterval) \cup {None}
    /\ timeout \in (0 .. MaxTime + Rto) \cup {None}
    /\ state_timeout \in (0 .. MaxTime + DisconnectTimeout) \cup {None}

WokenTyped == woken \in BOOLEAN

\* Only clientinit is queued before the connection stands.
ConnectingPart == state = "Connecting" => Len(queue) <= 1

\* The end of a disconnect is ahead, and there is a timer for it.
DisconnectPart ==
    (result = Running /\ state = "Disconnecting") =>
        /\ now <= last_send + DisconnectTimeout
        /\ woken \/ state_timeout = last_send + DisconnectTimeout

\* A command was resent at most NormalTimeout after it was queued, its next
\* resend is ahead, and there is a timer for it.
OnTime(p) ==
    \/ p.last = None /\ p.sent = now /\ woken
    \/ /\ p.last # None /\ p.last - p.sent <= NormalTimeout
       /\ now <= p.last + Rto
       /\ woken \/ (timeout # None /\ timeout <= p.last + Rto)

QueuePart ==
    (result = Running /\ state = "Connected") => \A i \in DOMAIN queue : OnTime(queue[i])

\* Nothing was received since the last ping.
Unanswered == last_pings # <<>> /\ Last(last_pings).sent > last_receive

\* The last ping, or the last sign of life if that is later.
LastSign == IF Unanswered THEN Last(last_pings).sent ELSE last_receive

\* The next ping is ahead, and there is a timer for it.
PingPart ==
    (result = Running /\ Pinging) =>
        /\ now <= LastSign + PingInterval
        /\ woken \/ (ping_timeout # None /\ ping_timeout <= LastSign + PingInterval)

\* Every ping in the list stands for an interval of silence.
ChainPart ==
    Unanswered => Last(last_pings).sent >= last_receive + Len(last_pings) * PingInterval

IInv ==
    /\ Typed /\ WokenTyped /\ ConnectingPart /\ DisconnectPart /\ QueuePart
    /\ PingPart /\ ChainPart /\ OnlySilenceTimesOut

\* The ids of the pings do not wrap while the model runs.
StartId == PartOf(FirstPing)
NoWrap == MaxTime < (IdMod - 1 - StartId.packet_id) * PingInterval

\* At most one ping was sent in every interval.
CountPart ==
    /\ outgoing_ping.generation_id = StartId.generation_id
    /\ StartId.packet_id <= outgoing_ping.packet_id
    /\ (outgoing_ping.packet_id - StartId.packet_id) * PingInterval <= LastSign

\* The pings in the list have consecutive ids, and every interval of silence
\* has a ping.
ExactPart ==
    Unanswered =>
        /\ Last(last_pings).sent = last_receive + Len(last_pings) * PingInterval
        /\ Head(last_pings).id = Part(outgoing_ping.generation_id,
                                      outgoing_ping.packet_id - Len(last_pings))
        /\ Last(last_pings).id = Part(outgoing_ping.generation_id, outgoing_ping.packet_id - 1)

SilenceInv == IInv /\ CountPart /\ ExactPart

-----------------------------------------------------------------------------
(* Operators.                                                              *)

\* The constants are numbers.
LEMMA Consts ==
    /\ PingCount \in Nat /\ PingCount >= 1 /\ PingInterval \in Nat /\ PingInterval >= 1
    /\ Rto \in Nat /\ Rto >= 1 /\ MaxTime \in Nat /\ FirstPing \in Nat
    /\ ConnectingTimeout \in Nat /\ NormalTimeout \in Nat /\ DisconnectTimeout \in Nat
    /\ DisconnectTimeout >= 1
    /\ PingCount * PingInterval \in Nat
    /\ (PingCount + 1) * PingInterval = PingCount * PingInterval + PingInterval
  BY KeepAliveAssumption

\* None is no instant.
LEMMA NoneFacts == None \in Int /\ \A n \in Nat : n # None
  BY DEF None

\* A sequence without one element has only elements of it.
LEMMA RemoveFacts ==
    ASSUME NEW S, NEW s \in Seq(S), NEW i \in DOMAIN s
    PROVE  /\ RemoveAt(s, i) \in Seq(S) /\ Len(RemoveAt(s, i)) = Len(s) - 1
           /\ \A j \in DOMAIN RemoveAt(s, i) : \E k \in DOMAIN s : RemoveAt(s, i)[j] = s[k]
  <1>1. i \in 1 .. Len(s) /\ Len(s) \in Nat /\ DOMAIN s = 1 .. Len(s)
    OBVIOUS
  <1> DEFINE a == SubSeq(s, 1, i - 1)  b == SubSeq(s, i + 1, Len(s))
  <1>2. /\ a \in Seq(S) /\ Len(a) = i - 1
        /\ \A j \in 1 .. (i - 1) : a[j] = s[j]
    BY <1>1
  <1>3. /\ b \in Seq(S) /\ Len(b) = Len(s) - i
        /\ \A j \in 1 .. (Len(s) - i) : b[j] = s[i + j]
    BY <1>1
  <1>4. RemoveAt(s, i) = a \o b
    BY DEF RemoveAt
  <1> HIDE DEF a, b
  <1>5. /\ a \o b \in Seq(S) /\ Len(a \o b) = Len(s) - 1
        /\ DOMAIN (a \o b) = 1 .. (Len(s) - 1)
        /\ \A j \in 1 .. (Len(s) - 1) : (a \o b)[j] = IF j <= i - 1 THEN a[j] ELSE b[j - (i - 1)]
    <2>1. Len(a) \in Nat /\ Len(b) \in Nat /\ Len(a) + Len(b) = Len(s) - 1
      BY <1>1, <1>2, <1>3
    <2>2. a \o b \in Seq(S) /\ Len(a \o b) = Len(a) + Len(b)
      BY <1>2, <1>3, ConcatProperties
    <2>3. \A j \in 1 .. (Len(a) + Len(b)) : (a \o b)[j] = IF j <= Len(a) THEN a[j] ELSE b[j - Len(a)]
      BY <1>2, <1>3, ConcatProperties
    <2>4. DOMAIN (a \o b) = 1 .. Len(a \o b)
      BY <2>2
    <2> QED
      BY <1>2, <2>1, <2>2, <2>3, <2>4
  <1>6. ASSUME NEW j \in 1 .. (Len(s) - 1)
        PROVE  \E k \in DOMAIN s : (a \o b)[j] = s[k]
    <2>1. CASE j <= i - 1
      <3>1. j \in DOMAIN s /\ j \in 1 .. (i - 1)
        BY <1>1, <2>1
      <3>2. (a \o b)[j] = s[j]
        BY <1>2, <1>5, <2>1, <3>1
      <3> QED
        BY <3>1, <3>2
    <2>2. CASE ~(j <= i - 1)
      <3>1. /\ j - (i - 1) \in 1 .. (Len(s) - i) /\ j + 1 \in DOMAIN s
            /\ i + (j - (i - 1)) = j + 1
        BY <1>1, <2>2
      <3>2. (a \o b)[j] = b[j - (i - 1)]
        BY <1>5, <2>2
      <3>3. b[j - (i - 1)] = s[i + (j - (i - 1))]
        BY <1>3, <3>1
      <3> QED
        BY <3>1, <3>2, <3>3
    <2> QED
      BY <2>1, <2>2
  <1> QED
    BY <1>4, <1>5, <1>6

\* What the ping timer is computed from.
LEMMA SignFacts ==
    ASSUME Typed
    PROVE  /\ Len(last_pings) \in Nat
           /\ last_pings # <<>> =>
                /\ Len(last_pings) >= 1 /\ Last(last_pings) \in Pings
                /\ Last(last_pings).sent \in 0 .. MaxTime /\ Last(last_pings).sent <= now
           /\ LastSign \in 0 .. MaxTime /\ last_receive <= LastSign /\ LastSign <= now
           /\ KeptPings = (IF Unanswered THEN last_pings ELSE <<>>)
           /\ NextPing = LastSign + PingInterval
  <1>1. /\ last_pings \in Seq(Pings) /\ last_receive \in 0 .. MaxTime /\ last_receive <= now
        /\ now \in 0 .. MaxTime
    BY DEF Typed
  <1>2. Len(last_pings) \in Nat /\ DOMAIN last_pings = 1 .. Len(last_pings)
    BY <1>1
  <1>3. ASSUME last_pings # <<>>
        PROVE  /\ Len(last_pings) >= 1 /\ Last(last_pings) \in Pings
               /\ Last(last_pings).sent \in 0 .. MaxTime /\ Last(last_pings).sent <= now
    <2>1. Len(last_pings) \in DOMAIN last_pings /\ Len(last_pings) >= 1
      BY <1>1, <1>3
    <2>2. last_pings[Len(last_pings)] \in Pings
      BY <1>1, <2>1
    <2> QED
      BY <2>1, <2>2 DEF Last, Typed, Pings
  <1>4. LastSign \in 0 .. MaxTime /\ last_receive <= LastSign /\ LastSign <= now
    BY <1>1, <1>3, Consts DEF LastSign, Unanswered
  <1>5. KeptPings = (IF Unanswered THEN last_pings ELSE <<>>)
    BY <1>1, <1>3, Consts DEF KeptPings, Unanswered
  <1>6. NextPing = LastSign + PingInterval
    BY <1>5 DEF NextPing, LastSign, Unanswered
  <1> QED
    BY <1>2, <1>3, <1>4, <1>5, <1>6

\* A packet was received: nothing older counts any more.
LEMMA SignReceived ==
    ASSUME Typed', last_receive' = now'
    PROVE  ~Unanswered' /\ LastSign' = now'
  <1>1. last_pings' # <<>> => Last(last_pings)'.sent \in 0 .. MaxTime /\ Last(last_pings)'.sent <= now'
    <2>1. last_pings' \in Seq(Pings)
      BY DEF Typed
    <2> SUFFICES ASSUME last_pings' # <<>>
                 PROVE  Last(last_pings)'.sent \in 0 .. MaxTime /\ Last(last_pings)'.sent <= now'
      OBVIOUS
    <2>2. Len(last_pings') \in DOMAIN last_pings'
      BY <2>1
    <2>3. last_pings'[Len(last_pings')] \in Pings
      BY <2>1, <2>2
    <2> QED
      BY <2>2, <2>3 DEF Last, Typed, Pings
  <1>2. now' \in 0 .. MaxTime
    BY DEF Typed
  <1> QED
    BY <1>1, <1>2, Consts DEF Unanswered, LastSign

\* poll_resend: the timer is armed for the first packet.
LEMMA ResendTimeFacts ==
    ASSUME Typed
    PROVE  /\ Resent \in Seq(Commands) /\ Len(Resent) = Len(queue)
           /\ DOMAIN Resent = DOMAIN queue
           /\ \A i \in DOMAIN queue :
                /\ Resent[i].sent = queue[i].sent
                /\ Resent[i].last = IF i \in Due THEN now ELSE queue[i].last
                /\ Resent[i].last \in 0 .. MaxTime /\ Resent[i].last <= now
                /\ i \notin Due => queue[i].last # None /\ now < queue[i].last + Rto
                /\ ResendTime # None /\ ResendTime <= Resent[i].last + Rto
           /\ ResendTime \in (0 .. MaxTime + Rto) \cup {None}
  <1>1. /\ queue \in Seq(Commands) /\ now \in 0 .. MaxTime /\ DOMAIN queue = 1 .. Len(queue)
        /\ Len(queue) \in Nat
    BY DEF Typed
  <1>2. \A i \in DOMAIN queue :
          /\ queue[i] \in Commands /\ queue[i].last <= now
          /\ queue[i].last \in (0 .. MaxTime) \cup {None} /\ queue[i].sent \in 0 .. MaxTime
    <2> SUFFICES ASSUME NEW i \in DOMAIN queue
                 PROVE  /\ queue[i] \in Commands /\ queue[i].last <= now
                        /\ queue[i].last \in (0 .. MaxTime) \cup {None}
                        /\ queue[i].sent \in 0 .. MaxTime
      OBVIOUS
    <2>1. queue[i] \in Commands
      BY <1>1
    <2> QED
      BY <2>1 DEF Typed, Commands
  <1>3. ASSUME NEW i \in DOMAIN queue
        PROVE  /\ Resent[i] \in Commands /\ Resent[i].sent = queue[i].sent
               /\ Resent[i].last = IF i \in Due THEN now ELSE queue[i].last
    <2>1. Resent[i] = IF i \in Due THEN [queue[i] EXCEPT !.last = now] ELSE queue[i]
      BY DEF Resent
    <2> QED
      BY <1>1, <1>2, <2>1 DEF Commands
  <1>4. ASSUME NEW i \in DOMAIN queue
        PROVE  /\ Resent[i].last \in 0 .. MaxTime /\ Resent[i].last <= now
               /\ i \notin Due => queue[i].last # None /\ now < queue[i].last + Rto
    <2>1. i \notin Due => queue[i].last # None /\ ~(queue[i].last + Rto <= now)
      BY DEF Due
    <2> QED
      BY <1>1, <1>2, <1>3, <2>1, Consts, NoneFacts
  <1>5. DOMAIN Resent = DOMAIN queue /\ Resent \in Seq(Commands) /\ Len(Resent) = Len(queue)
    <2>1. Resent = [i \in 1 .. Len(queue) |-> Resent[i]]
      BY <1>1 DEF Resent
    <2>2. \A i \in 1 .. Len(queue) : Resent[i] \in Commands
      BY <1>1, <1>3
    <2> HIDE DEF Resent
    <2>3. Resent \in [1 .. Len(queue) -> Commands]
      BY <2>1, <2>2
    <2> QED
      BY <1>1, <2>3
  <1> DEFINE times == {Resent[i].last + Rto : i \in DOMAIN queue}
  <1>6. CASE queue = <<>>
    <2>1. DOMAIN queue = {} /\ ResendTime = None
      BY <1>6 DEF ResendTime
    <2> QED
      BY <1>3, <1>4, <1>5, <2>1
  <1>7. CASE queue # <<>>
    <2>1. times \subseteq Nat /\ times # {}
      <3>1. 1 \in DOMAIN queue
        BY <1>1, <1>7
      <3>2. Resent[1].last + Rto \in times
        BY <3>1
      <3>3. \A i \in DOMAIN queue : Resent[i].last + Rto \in Nat
        BY <1>4, Consts
      <3> QED
        BY <3>2, <3>3
    <2>2. ResendTime = Min(times)
      BY <1>7 DEF ResendTime
    <2> HIDE DEF times
    <2>3. ResendTime \in times /\ \A n \in times : ResendTime <= n
      <3>1. \E n \in times : \A m \in times : n =< m
        BY <2>1, SmallestNumber
      <3> QED
        BY <2>2, <3>1 DEF Min
    <2>4. \A i \in DOMAIN queue : Resent[i].last + Rto \in times
      BY DEF times
    <2>5. ResendTime \in 0 .. MaxTime + Rto
      <3>1. PICK i \in DOMAIN queue : ResendTime = Resent[i].last + Rto
        BY <2>3 DEF times
      <3> QED
        BY <1>4, <3>1, Consts
    <2>6. ResendTime # None
      BY <2>5, Consts, NoneFacts
    <2> QED
      BY <1>3, <1>4, <1>5, <2>3, <2>4, <2>5, <2>6
  <1> QED
    BY <1>6, <1>7

-----------------------------------------------------------------------------
(* Packets from the peer.                                                  *)

\* The numbers that the steps compute with.
LEMMA Numbers ==
    ASSUME Typed
    PROVE  /\ now \in Nat /\ last_receive \in Nat /\ last_send \in Nat
           /\ last_receive <= now /\ last_send <= now /\ LastSign \in Nat /\ LastSign <= now
           /\ ping_timeout \in Int /\ timeout \in Int /\ state_timeout \in Int
           /\ \A i \in DOMAIN queue :
                /\ queue[i].sent \in Nat /\ queue[i].last \in Int
                /\ queue[i].sent <= now /\ queue[i].last <= now
  <1>1. /\ now \in Nat /\ last_receive \in Nat /\ last_send \in Nat
        /\ last_receive <= now /\ last_send <= now
        /\ ping_timeout \in Int /\ timeout \in Int /\ state_timeout \in Int
    BY Consts, NoneFacts DEF Typed
  <1>2. LastSign \in Nat /\ LastSign <= now
    BY SignFacts
  <1>3. ASSUME NEW i \in DOMAIN queue
        PROVE  /\ queue[i].sent \in Nat /\ queue[i].last \in Int
               /\ queue[i].sent <= now /\ queue[i].last <= now
    <2>1. queue[i] \in Commands
      BY <1>3 DEF Typed
    <2> QED
      BY <2>1, NoneFacts DEF Commands, Typed
  <1> QED
    BY <1>1, <1>2, <1>3

\* An ack takes a command out of the queue, the others stay as they are.
LEMMA QueueShrinks ==
    ASSUME Typed, NEW q,
           \/ q = queue
           \/ \E i \in DOMAIN queue : q = RemoveAt(queue, i)
           \/ queue # <<>> /\ q = Tail(queue)
    PROVE  /\ q \in Seq(Commands) /\ Len(q) <= Len(queue)
           /\ \A j \in DOMAIN q : \E k \in DOMAIN queue : q[j] = queue[k]
  <1>1. queue \in Seq(Commands) /\ Len(queue) \in Nat
    BY DEF Typed
  <1>2. CASE q = queue
    BY <1>1, <1>2
  <1>3. CASE \E i \in DOMAIN queue : q = RemoveAt(queue, i)
    BY <1>1, <1>3, RemoveFacts
  <1>4. CASE queue # <<>> /\ q = Tail(queue)
    <2>1. q \in Seq(Commands) /\ Len(q) = Len(queue) - 1
      BY <1>1, <1>4
    <2>2. ASSUME NEW j \in DOMAIN q PROVE \E k \in DOMAIN queue : q[j] = queue[k]
      <3>1. j \in 1 .. Len(q)
        BY <2>1
      <3>2. q[j] = queue[j + 1]
        BY <1>1, <1>4, <2>1, <3>1, HeadTailProperties
      <3>3. j + 1 \in DOMAIN queue
        BY <1>1, <2>1, <3>1
      <3> QED
        BY <3>2, <3>3
    <2> QED
      BY <1>1, <2>1, <2>2
  <1> QED
    BY <1>2, <1>3, <1>4

\* What a packet from the peer leaves behind has its types.
LEMMA ReceiveTyped ==
    ASSUME Typed, last_receive' = now, UNCHANGED <<outgoing_ping, timerVars, now>>,
           \/ queue' = queue
           \/ \E i \in DOMAIN queue : queue' = RemoveAt(queue, i)
           \/ queue # <<>> /\ queue' = Tail(queue),
           \/ last_pings' = last_pings
           \/ \E i \in DOMAIN last_pings : last_pings' = RemoveAt(last_pings, i),
           last_send' \in {last_send, now},
           state' \in {"Connecting", "Connected", "Disconnecting", "Disconnected"}
    PROVE  Typed'
  <1>1. /\ queue' \in Seq(Commands)
        /\ \A j \in DOMAIN queue' : queue'[j].sent <= now /\ queue'[j].last <= now
    BY QueueShrinks DEF Typed
  <1>2. /\ last_pings' \in Seq(Pings) /\ Len(last_pings') <= PingCount
        /\ \A j \in DOMAIN last_pings' : last_pings'[j].sent <= now
    <2>1. last_pings \in Seq(Pings) /\ Len(last_pings) <= PingCount /\ Len(last_pings) \in Nat
      BY DEF Typed
    <2>2. CASE last_pings' = last_pings
      BY <2>2 DEF Typed
    <2>3. CASE \E i \in DOMAIN last_pings : last_pings' = RemoveAt(last_pings, i)
      <3>1. /\ last_pings' \in Seq(Pings) /\ Len(last_pings') = Len(last_pings) - 1
            /\ \A j \in DOMAIN last_pings' : \E k \in DOMAIN last_pings :
                 last_pings'[j] = last_pings[k]
        BY <2>1, <2>3, RemoveFacts
      <3> QED
        BY <2>1, <3>1, Consts DEF Typed
    <2> QED
      BY <2>2, <2>3
  <1>3. /\ now' = now /\ now \in 0 .. MaxTime /\ last_send \in 0 .. MaxTime /\ last_send <= now
        /\ now <= now
    BY DEF Typed
  <1> QED
    BY <1>1, <1>2, <1>3 DEF Typed, timerVars

\* Connection::handle_udp_packet: the silence is over.
LEMMA ReceiveStep ==
    ASSUME IInv, Typed', WokenTyped', result = Running, last_receive' = now,
           UNCHANGED <<timerVars, result, now>>,
           ConnectingPart', DisconnectPart', QueuePart',
           woken' = TRUE \/ UNCHANGED <<woken, queue, state>>
    PROVE  IInv'
  <1>1. ~Unanswered' /\ LastSign' = now /\ now' = now
    BY SignReceived
  <1>2. now \in Nat /\ LastSign \in Nat /\ LastSign <= now /\ ping_timeout \in Int
    BY Numbers DEF IInv
  <1>3. PingPart'
    <2>1. CASE woken' = TRUE
      BY <1>1, <1>2, <2>1, Consts DEF PingPart
    <2>2. CASE UNCHANGED <<woken, queue, state>>
      <3> SUFFICES ASSUME Pinging'
                   PROVE  /\ now' <= LastSign' + PingInterval
                          /\ woken' \/ (ping_timeout' # None /\ ping_timeout' <= LastSign' + PingInterval)
        BY DEF PingPart
      <3>1. woken \/ (ping_timeout # None /\ ping_timeout <= LastSign + PingInterval)
        BY <2>2 DEF IInv, PingPart, Pinging
      <3>2. woken' = woken /\ ping_timeout' = ping_timeout
        BY <2>2 DEF timerVars
      <3>3. ping_timeout <= LastSign + PingInterval => ping_timeout <= now + PingInterval
        BY <1>2, Consts
      <3>4. now <= now + PingInterval
        BY <1>2, Consts
      <3> QED
        BY <1>1, <3>1, <3>2, <3>3, <3>4
    <2> QED
      BY <2>1, <2>2
  <1>4. ChainPart'
    BY <1>1 DEF ChainPart
  <1>5. OnlySilenceTimesOut'
    BY DEF OnlySilenceTimesOut, Running
  <1> QED
    BY <1>3, <1>4, <1>5 DEF IInv

\* A packet that becomes a StreamItem.
LEMMA ReceiveItemKeeps == ASSUME IInv, ReceiveItem PROVE IInv'
  <1>1. /\ result = Running /\ last_receive' = now /\ woken' = TRUE
        /\ UNCHANGED <<outgoing_ping, timerVars, result, now, state, queue, last_pings, last_send>>
    BY DEF ReceiveItem, Received
  <1>2. Typed'
    BY <1>1, ReceiveTyped DEF IInv, Typed
  <1>3. WokenTyped' /\ ConnectingPart'
    BY <1>1 DEF IInv, WokenTyped, ConnectingPart
  <1>4. DisconnectPart'
    BY <1>1 DEF IInv, DisconnectPart
  <1>5. QueuePart'
    BY <1>1 DEF IInv, QueuePart, OnTime, timerVars
  <1> QED
    BY <1>1, <1>2, <1>3, <1>4, <1>5, ReceiveStep

\* Resender::ack_packet
LEMMA ReceiveAckKeeps == ASSUME IInv, NEW i \in DOMAIN queue, ReceiveAck(i) PROVE IInv'
  <1>1. /\ result = Running /\ last_receive' = now /\ woken' = TRUE
        /\ queue' = RemoveAt(queue, i)
        /\ UNCHANGED <<outgoing_ping, timerVars, result, now, state, last_pings, last_send>>
    BY DEF ReceiveAck, Received
  <1>2. Typed'
    BY <1>1, ReceiveTyped DEF IInv, Typed
  <1>3. /\ Len(queue') <= Len(queue) /\ Len(queue') \in Nat /\ Len(queue) \in Nat
        /\ \A j \in DOMAIN queue' : \E k \in DOMAIN queue : queue'[j] = queue[k]
    <2>1. PICK q : q = queue'
      OBVIOUS
    <2>2. \E k \in DOMAIN queue : q = RemoveAt(queue, k)
      BY <1>1, <2>1
    <2>3. /\ q \in Seq(Commands) /\ Len(q) <= Len(queue)
          /\ \A j \in DOMAIN q : \E k \in DOMAIN queue : q[j] = queue[k]
      BY <2>2, QueueShrinks DEF IInv
    <2>4. Len(q) \in Nat /\ Len(queue) \in Nat
      BY <2>3 DEF IInv, Typed
    <2> QED
      BY <2>1, <2>3, <2>4
  <1>4. WokenTyped' /\ ConnectingPart'
    BY <1>1, <1>3 DEF IInv, WokenTyped, ConnectingPart
  <1>5. DisconnectPart'
    BY <1>1 DEF IInv, DisconnectPart
  <1>6. QueuePart'
    BY <1>1, <1>3 DEF IInv, QueuePart, OnTime, timerVars
  <1> QED
    BY <1>1, <1>2, <1>4, <1>5, <1>6, ReceiveStep

\* Resender::ack_ping
LEMMA ReceivePongKeeps == ASSUME IInv, NEW i \in DOMAIN last_pings, ReceivePong(i) PROVE IInv'
  <1>1. /\ result = Running /\ last_receive' = now
        /\ last_pings' = RemoveAt(last_pings, i) \/ last_pings' = last_pings
        /\ UNCHANGED <<outgoing_ping, timerVars, result, now, state, queue, last_send, woken>>
    BY DEF ReceivePong, Received
  <1>2. Typed'
    BY <1>1, ReceiveTyped DEF IInv, Typed
  <1>3. WokenTyped' /\ ConnectingPart'
    BY <1>1 DEF IInv, WokenTyped, ConnectingPart
  <1>4. DisconnectPart'
    BY <1>1 DEF IInv, DisconnectPart, timerVars
  <1>5. QueuePart'
    BY <1>1 DEF IInv, QueuePart, OnTime, timerVars
  <1> QED
    BY <1>1, <1>2, <1>3, <1>4, <1>5, ReceiveStep

\* Client::handle_command, initserver: the queue is empty afterwards.
LEMMA ReceiveInitserverKeeps == ASSUME IInv, ReceiveInitserver PROVE IInv'
  <1>1. /\ result = Running /\ last_receive' = now /\ woken' = TRUE
        /\ state = "Connecting" /\ state' = "Connected" /\ last_send' = now
        /\ queue # <<>> /\ queue' = Tail(queue)
        /\ UNCHANGED <<outgoing_ping, timerVars, result, now, last_pings>>
    BY DEF ReceiveInitserver, Received, SetState
  <1>2. Typed'
    BY <1>1, ReceiveTyped DEF IInv
  <1>3. WokenTyped' /\ ConnectingPart' /\ DisconnectPart'
    BY <1>1 DEF WokenTyped, ConnectingPart, DisconnectPart
  <1>4. queue' = <<>>
    <2>1. queue \in Seq(Commands) /\ Len(queue) <= 1 /\ Len(queue) \in Nat
      BY <1>1 DEF IInv, Typed, ConnectingPart
    <2>2. Len(queue) = 1
      BY <1>1, <2>1, EmptySeq
    <2> QED
      BY <1>1, <2>1, <2>2
  <1>5. QueuePart'
    BY <1>4 DEF QueuePart
  <1> QED
    BY <1>1, <1>2, <1>3, <1>5, ReceiveStep

\* Client::handle_command, notifyclientleftview
LEMMA ReceiveLeftViewKeeps == ASSUME IInv, ReceiveLeftView PROVE IInv'
  <1>1. /\ result = Running /\ last_receive' = now /\ woken' = TRUE
        /\ state' = "Disconnected" /\ last_send' = now
        /\ UNCHANGED <<outgoing_ping, timerVars, result, now, queue, last_pings>>
    BY DEF ReceiveLeftView, Received, SetState
  <1>2. Typed'
    BY <1>1, ReceiveTyped DEF IInv
  <1>3. WokenTyped' /\ ConnectingPart' /\ DisconnectPart' /\ QueuePart'
    BY <1>1 DEF WokenTyped, ConnectingPart, DisconnectPart, QueuePart
  <1> QED
    BY <1>1, <1>2, <1>3, ReceiveStep

-----------------------------------------------------------------------------
(* The application and time.                                               *)

\* Resender::send_packet: a command is queued and the task is woken.
LEMMA QueueStep ==
    ASSUME IInv, result = Running, state \in {"Connected", "Disconnecting"},
           state' \in {state, "Disconnecting"}, queue' = Queued, last_send' = now, woken' = TRUE,
           UNCHANGED <<last_pings, outgoing_ping, last_receive, timerVars, result, now>>
    PROVE  IInv'
  <1> DEFINE new == [sent |-> now, last |-> None]
  <1>1. /\ queue \in Seq(Commands) /\ now \in 0 .. MaxTime /\ now \in Nat /\ None <= now
        /\ queue' = Append(queue, new) /\ timeout' = timeout
    BY NoneFacts DEF IInv, Typed, Queued, timerVars, None
  <1>2. new \in Commands
    BY <1>1 DEF Commands
  <1>3. /\ queue' \in Seq(Commands) /\ Len(queue') = Len(queue) + 1 /\ queue' # <<>>
        /\ \A i \in DOMAIN queue' : (i \in DOMAIN queue /\ queue'[i] = queue[i]) \/ queue'[i] = new
    <2>1. /\ queue' \in Seq(Commands) /\ Len(queue') = Len(queue) + 1 /\ queue' # <<>>
          /\ DOMAIN queue' = 1 .. Len(queue) + 1 /\ DOMAIN queue = 1 .. Len(queue)
          /\ Len(queue) \in Nat
      BY <1>1, <1>2
    <2>2. \A i \in DOMAIN queue' : queue'[i] = IF i = Len(queue) + 1 THEN new ELSE queue[i]
      BY <1>1, <2>1
    <2> QED
      BY <2>1, <2>2
  <1>4. Typed'
    <2>1. \A i \in DOMAIN queue' : queue'[i].sent <= now /\ queue'[i].last <= now
      BY <1>1, <1>3 DEF IInv, Typed
    <2> HIDE DEF new
    <2> QED
      BY <1>1, <1>3, <2>1 DEF IInv, Typed, timerVars
  <1>5. WokenTyped' /\ ConnectingPart'
    BY DEF WokenTyped, ConnectingPart
  <1>6. DisconnectPart'
    BY <1>1, Consts DEF DisconnectPart
  <1>7. QueuePart'
    <2> SUFFICES ASSUME state' = "Connected", NEW i \in DOMAIN queue'
                 PROVE  OnTime(queue[i])'
      BY DEF QueuePart
    <2>1. CASE queue'[i] = new
      BY <2>1 DEF OnTime
    <2>2. CASE i \in DOMAIN queue /\ queue'[i] = queue[i]
      <3>1. OnTime(queue[i])
        BY <2>2 DEF IInv, QueuePart
      <3> QED
        BY <2>2, <3>1 DEF OnTime, timerVars
    <2> QED
      BY <1>3, <2>1, <2>2
  <1>8. PingPart'
    BY <1>3 DEF PingPart, Pinging
  <1>9. ChainPart' /\ OnlySilenceTimesOut'
    BY DEF IInv, ChainPart, Unanswered, OnlySilenceTimesOut
  <1> QED
    BY <1>4, <1>5, <1>6, <1>7, <1>8, <1>9 DEF IInv

\* Time goes on: no timer has expired, so every deadline is still ahead.
LEMMA TickKeeps == ASSUME IInv, Tick PROVE IInv'
  <1>1. /\ result = Running /\ now < MaxTime /\ now' = now + 1
        /\ UNCHANGED <<state, queue, last_pings, outgoing_ping, last_receive, last_send,
                       timerVars, woken, result>>
    BY DEF Tick
  <1>2. /\ woken = FALSE
        /\ ping_timeout # None => ping_timeout > now
        /\ timeout # None => timeout > now
        /\ state_timeout # None => state_timeout > now
    <2>1. ~Runnable /\ woken \in BOOLEAN
      BY DEF Tick, IInv, WokenTyped
    <2>2. woken = FALSE
      BY <2>1 DEF Runnable
    <2>3. \A d \in {ping_timeout, timeout, state_timeout} : ~(d # None /\ d <= now)
      BY <2>1 DEF Runnable
    <2>4. now \in Nat /\ ping_timeout \in Int /\ timeout \in Int /\ state_timeout \in Int
      BY Numbers DEF IInv
    <2> QED
      BY <2>2, <2>3, <2>4
  <1>3. /\ now \in Nat /\ last_receive \in Nat /\ last_send \in Nat
        /\ LastSign \in Nat
        /\ ping_timeout \in Int /\ timeout \in Int /\ state_timeout \in Int
        /\ \A i \in DOMAIN queue : queue[i].sent \in Nat /\ queue[i].last \in Int
                                   /\ queue[i].sent <= now /\ queue[i].last <= now
        /\ last_receive <= now /\ last_send <= now
    BY Numbers DEF IInv
  <1>4. Typed'
    <2>1. /\ now' \in 0 .. MaxTime /\ last_receive <= now' /\ last_send <= now'
          /\ \A i \in DOMAIN queue : queue[i].sent <= now' /\ queue[i].last <= now'
      BY <1>1, <1>3, Consts
    <2>2. \A i \in DOMAIN last_pings : last_pings[i].sent <= now'
      <3> SUFFICES ASSUME NEW i \in DOMAIN last_pings PROVE last_pings[i].sent <= now'
        OBVIOUS
      <3>1. last_pings[i] \in Pings /\ last_pings[i].sent <= now
        BY DEF IInv, Typed
      <3> QED
        BY <1>1, <1>3, <3>1 DEF Pings
    <2> QED
      BY <1>1, <2>1, <2>2 DEF IInv, Typed, timerVars
  <1>5. WokenTyped' /\ ConnectingPart'
    BY <1>1 DEF IInv, WokenTyped, ConnectingPart
  <1>6. DisconnectPart'
    <2> SUFFICES ASSUME state = "Disconnecting"
                 PROVE  /\ now' <= last_send' + DisconnectTimeout
                        /\ state_timeout' = last_send' + DisconnectTimeout
      BY <1>1 DEF DisconnectPart
    <2>1. state_timeout = last_send + DisconnectTimeout
      BY <1>1, <1>2 DEF IInv, DisconnectPart
    <2>2. state_timeout # None
      BY <1>3, <2>1, Consts, NoneFacts
    <2> QED
      BY <1>1, <1>2, <1>3, <2>1, <2>2, Consts DEF timerVars
  <1>7. QueuePart'
    <2> SUFFICES ASSUME state = "Connected", NEW i \in DOMAIN queue
                 PROVE  OnTime(queue[i])'
      BY <1>1 DEF QueuePart
    <2>1. OnTime(queue[i])
      BY <1>1 DEF IInv, QueuePart
    <2>2. /\ queue[i].last # None /\ queue[i].last - queue[i].sent <= NormalTimeout
          /\ timeout # None /\ timeout <= queue[i].last + Rto
      BY <1>2, <2>1 DEF OnTime
    <2>3. now' <= queue[i].last + Rto
      BY <1>1, <1>2, <1>3, <2>2, Consts
    <2> QED
      BY <1>1, <2>2, <2>3 DEF OnTime, timerVars
  <1>8. LastSign' = LastSign /\ Unanswered' = Unanswered
    BY <1>1 DEF LastSign, Unanswered
  <1>9. PingPart'
    <2> SUFFICES ASSUME Pinging
                 PROVE  /\ now' <= LastSign' + PingInterval
                        /\ ping_timeout' # None /\ ping_timeout' <= LastSign' + PingInterval
      BY <1>1 DEF PingPart, Pinging
    <2>1. ping_timeout # None /\ ping_timeout <= LastSign + PingInterval
      BY <1>1, <1>2 DEF IInv, PingPart
    <2> QED
      BY <1>1, <1>2, <1>3, <1>8, <2>1, Consts DEF timerVars
  <1>10. ChainPart' /\ OnlySilenceTimesOut'
    BY <1>1, <1>8 DEF IInv, ChainPart, OnlySilenceTimesOut, Running
  <1> QED
    BY <1>4, <1>5, <1>6, <1>7, <1>9, <1>10 DEF IInv

\* The timer of the statistics only wakes the task.
LEMMA StatsTimerKeeps == ASSUME IInv, StatsTimer PROVE IInv'
  <1>1. /\ woken' = TRUE
        /\ UNCHANGED <<state, queue, last_pings, outgoing_ping, last_receive, last_send,
                       timerVars, result, now>>
    BY DEF StatsTimer
  <1>2. Typed' /\ WokenTyped' /\ ConnectingPart'
    BY <1>1 DEF IInv, Typed, WokenTyped, ConnectingPart, timerVars
  <1>3. DisconnectPart'
    BY <1>1 DEF IInv, DisconnectPart
  <1>4. QueuePart'
    BY <1>1 DEF IInv, QueuePart, OnTime
  <1>5. PingPart' /\ ChainPart' /\ OnlySilenceTimesOut'
    BY <1>1 DEF IInv, PingPart, Pinging, LastSign, Unanswered, ChainPart, OnlySilenceTimesOut
  <1> QED
    BY <1>2, <1>3, <1>4, <1>5 DEF IInv

-----------------------------------------------------------------------------
(* Polls.                                                                  *)

\* The stream ends: nothing is promised afterwards but that only silence has
\* ended the pings.
LEMMA EndStep ==
    ASSUME IInv, result' # Running, woken' = FALSE, OnlySilenceTimesOut',
           UNCHANGED <<state, queue, last_pings, outgoing_ping, last_receive, last_send,
                       timerVars, now>>
    PROVE  IInv'
  <1>1. Typed' /\ WokenTyped' /\ ConnectingPart'
    BY DEF IInv, Typed, WokenTyped, ConnectingPart, timerVars
  <1>2. DisconnectPart' /\ QueuePart' /\ PingPart'
    BY DEF DisconnectPart, QueuePart, PingPart
  <1>3. ChainPart'
    BY DEF IInv, ChainPart, Unanswered
  <1> QED
    BY <1>1, <1>2, <1>3 DEF IInv

\* Stream::poll_next in state Disconnected
LEMMA PollDisconnectedKeeps == ASSUME IInv, PollDisconnected PROVE IInv'
  BY EndStep DEF PollDisconnected, Running, OnlySilenceTimesOut

\* poll_ping gives up only when every ping stands for an interval of silence.
LEMMA PollErrorKeeps == ASSUME IInv, PollError PROVE IInv'
  <1>1. /\ result' # Running /\ woken' = FALSE
        /\ UNCHANGED <<state, queue, last_pings, outgoing_ping, last_receive, last_send,
                       timerVars, now>>
        /\ result' = "Server did not respond to pings" => PingsTimedOut
    BY DEF PollError, Running
  <1>2. ASSUME PingsTimedOut PROVE now - last_receive >= (PingCount + 1) * PingInterval
    <2>1. PingDue /\ Len(KeptPings) >= PingCount
      BY <1>2 DEF PingsTimedOut
    <2>2. Unanswered /\ KeptPings = last_pings
      <3>1. Len(<<>>) = 0
        OBVIOUS
      <3> QED
        BY <2>1, <3>1, SignFacts, Consts DEF IInv
    <2>3. Len(last_pings) = PingCount
      BY <2>1, <2>2, SignFacts, Consts DEF IInv, Typed
    <2>4. Last(last_pings).sent >= last_receive + PingCount * PingInterval
      BY <2>2, <2>3 DEF IInv, ChainPart
    <2>5. LastSign + PingInterval <= now /\ LastSign = Last(last_pings).sent
      BY <2>1, <2>2, SignFacts DEF IInv, PingDue, LastSign
    <2> QED
      BY <2>4, <2>5, Numbers, Consts DEF IInv
  <1>3. OnlySilenceTimesOut'
    BY <1>1, <1>2 DEF OnlySilenceTimesOut
  <1> QED
    BY <1>1, <1>3, EndStep

\* Intervals.
LEMMA Times ==
    ASSUME NEW a \in Nat, NEW b \in Nat, a <= b
    PROVE  /\ a * PingInterval \in Nat /\ b * PingInterval \in Nat
           /\ a * PingInterval <= b * PingInterval
           /\ (a + 1) * PingInterval = a * PingInterval + PingInterval
  <1>1. PICK d \in Nat : b = a + d
    <2>1. b - a \in Nat /\ b = a + (b - a)
      OBVIOUS
    <2> QED
      BY <2>1
  <1>2. /\ a * PingInterval \in Nat /\ d * PingInterval \in Nat
        /\ (a + d) * PingInterval = a * PingInterval + d * PingInterval
        /\ (a + 1) * PingInterval = a * PingInterval + PingInterval
    BY Consts
  <1> QED
    BY <1>1, <1>2

NewPing == [id |-> EncodedId(outgoing_ping), sent |-> now]

\* poll_ping: the list with one ping more, without the first if it is too
\* long.
LEMMA SentFacts ==
    ASSUME Typed
    PROVE  /\ SentPings \in Seq(Pings) /\ Len(SentPings) <= PingCount /\ Len(SentPings) \in Nat
           /\ SentPings # <<>> /\ Last(SentPings) = NewPing
           /\ Len(SentPings) <= Len(KeptPings) + 1
           /\ \A i \in DOMAIN SentPings : SentPings[i].sent <= now
           /\ Len(KeptPings) < PingCount => SentPings = Append(KeptPings, NewPing)
           /\ Len(KeptPings) \in Nat
  <1> DEFINE pings == Append(KeptPings, NewPing)
  <1>1. /\ KeptPings \in Seq(Pings) /\ Len(KeptPings) <= PingCount /\ Len(KeptPings) \in Nat
        /\ \A i \in DOMAIN KeptPings : KeptPings[i].sent <= now
    <2>1. KeptPings = last_pings \/ KeptPings = <<>>
      BY SignFacts
    <2>2. CASE KeptPings = last_pings
      BY <2>2 DEF Typed
    <2>3. CASE KeptPings = <<>>
      <3>1. <<>> \in Seq(Pings) /\ Len(<<>>) = 0 /\ DOMAIN <<>> = {}
        OBVIOUS
      <3> QED
        BY <2>3, <3>1, Consts
    <2> QED
      BY <2>1, <2>2, <2>3
  <1>2. NewPing \in Pings /\ NewPing.sent = now /\ now \in Nat
    BY EncodedIdType DEF Typed, NewPing, Pings
  <1>3. /\ pings \in Seq(Pings) /\ Len(pings) = Len(KeptPings) + 1
        /\ DOMAIN pings = 1 .. Len(KeptPings) + 1
        /\ \A i \in 1 .. Len(KeptPings) + 1 :
             pings[i] = IF i = Len(KeptPings) + 1 THEN NewPing ELSE KeptPings[i]
    BY <1>1, <1>2, AppendProperties
  <1>4. \A i \in DOMAIN pings : pings[i].sent <= now
    <2>1. DOMAIN KeptPings = 1 .. Len(KeptPings)
      BY <1>1
    <2> QED
      BY <1>1, <1>2, <1>3, <2>1
  <1>5. SentPings = IF Len(pings) > PingCount THEN Tail(pings) ELSE pings
    BY DEF SentPings, NewPing
  <1> HIDE DEF pings
  <1>6. CASE Len(pings) > PingCount
    <2>1. SentPings = Tail(pings) /\ Len(KeptPings) = PingCount /\ pings # <<>>
      BY <1>1, <1>3, <1>5, <1>6, Consts
    <2>2. /\ SentPings \in Seq(Pings) /\ Len(SentPings) = PingCount
          /\ \A i \in 1 .. PingCount : SentPings[i] = pings[i + 1]
      BY <1>1, <1>3, <2>1, HeadTailProperties
    <2>3. DOMAIN SentPings = 1 .. PingCount
      BY <2>2
    <2>4. Last(SentPings) = NewPing
      BY <1>3, <2>1, <2>2, Consts DEF Last
    <2>5. \A i \in DOMAIN SentPings : SentPings[i].sent <= now
      <3> SUFFICES ASSUME NEW i \in 1 .. PingCount PROVE SentPings[i].sent <= now
        BY <2>3
      <3>1. i + 1 \in DOMAIN pings
        BY <1>3, <2>1, Consts
      <3> QED
        BY <1>4, <2>2, <3>1
    <2>6. SentPings # <<>>
      BY <2>2, Consts
    <2> QED
      BY <1>1, <2>1, <2>2, <2>4, <2>5, <2>6, Consts
  <1>7. CASE ~(Len(pings) > PingCount)
    <2>1. SentPings = pings
      BY <1>5, <1>7
    <2>2. Last(pings) = NewPing /\ pings # <<>>
      BY <1>1, <1>3 DEF Last
    <2> QED
      BY <1>1, <1>3, <1>4, <1>7, <2>1, <2>2, Consts DEF pings
  <1> QED
    BY <1>6, <1>7

\* What one poll does.
LEMMA PollFacts ==
    ASSUME PollPending
    PROVE  /\ result = Running /\ state # "Disconnected" /\ woken' = FALSE
           /\ ~PacketTimedOut /\ ~DisconnectTimedOut /\ ~PingsTimedOut
           /\ queue' = Resent /\ timeout' = ResendTime /\ state_timeout' = DisconnectTimer
           /\ state' = state /\ last_receive' = last_receive /\ last_send' = last_send
           /\ result' = result /\ now' = now
           /\ PingDue => /\ last_pings' = SentPings /\ outgoing_ping' = Plus(outgoing_ping, 1)
                         /\ ping_timeout' = now + PingInterval
           /\ ~PingDue => outgoing_ping' = outgoing_ping
           /\ ~PingDue /\ Pinging => last_pings' = KeptPings /\ ping_timeout' = NextPing
           /\ ~PingDue /\ ~Pinging =>
                last_pings' = last_pings /\ ping_timeout' = Pending(ping_timeout)
  BY DEF PollPending

\* The ping timer and the list of pings after a poll.
LEMMA PollPings ==
    ASSUME IInv, PollPending
    PROVE  /\ last_pings' \in Seq(Pings) /\ Len(last_pings') <= PingCount
           /\ \A i \in DOMAIN last_pings' : last_pings'[i].sent <= now
           /\ PingDue => Unanswered' /\ LastSign' = now /\ now >= LastSign + PingInterval
           /\ ~PingDue => (Unanswered' <=> Unanswered) /\ LastSign' = LastSign
           /\ ~PingDue /\ Unanswered => last_pings' = last_pings
  <1>1. /\ Typed /\ now \in Nat /\ last_receive \in Nat /\ last_receive' = last_receive
        /\ LastSign \in Nat /\ last_receive <= LastSign
    BY PollFacts, Numbers, SignFacts DEF IInv
  <1>2. CASE PingDue
    <2>1. last_pings' = SentPings
      BY <1>2, PollFacts
    <2>2. now >= LastSign + PingInterval
      BY <1>1, <1>2, SignFacts, Consts DEF PingDue
    <2>3. Last(last_pings') = NewPing /\ NewPing.sent = now /\ last_pings' # <<>>
      BY <1>1, <2>1, SentFacts DEF NewPing
    <2>4. Unanswered' /\ LastSign' = now
      <3>1. Unanswered' <=> (last_pings' # <<>> /\ Last(last_pings').sent > last_receive')
        BY DEF Unanswered, Last
      <3>2. Unanswered'
        BY <1>1, <2>2, <2>3, <3>1, Consts
      <3>3. LastSign' = Last(last_pings').sent
        BY <3>2 DEF LastSign, Last
      <3> QED
        BY <2>3, <3>2, <3>3
    <2> QED
      BY <1>1, <1>2, <2>1, <2>2, <2>4, SentFacts
  <1>3. CASE ~PingDue
    <2>1. last_pings' = last_pings \/ (last_pings' = <<>> /\ ~Unanswered)
      BY <1>1, <1>3, PollFacts, SignFacts
    <2>2. CASE last_pings' = last_pings
      <3>1. Unanswered' = Unanswered /\ LastSign' = LastSign
        BY <1>1, <2>2 DEF Unanswered, LastSign
      <3> QED
        BY <1>1, <1>3, <2>2, <3>1 DEF Typed
    <2>3. CASE last_pings' = <<>> /\ ~Unanswered
      <3>1. ~Unanswered' /\ LastSign' = LastSign
        BY <1>1, <2>3 DEF Unanswered, LastSign
      <3>2. <<>> \in Seq(Pings) /\ Len(<<>>) = 0 /\ DOMAIN <<>> = {}
        OBVIOUS
      <3> QED
        BY <1>3, <2>3, <3>1, <3>2, Consts
    <2> QED
      BY <2>1, <2>2, <2>3
  <1> QED
    BY <1>2, <1>3

\* Stream::poll_next: every deadline that is ahead gets its timer.
LEMMA PollPendingKeeps == ASSUME IInv, PollPending PROVE IInv'
  <1>1. /\ Typed /\ now \in Nat /\ now \in 0 .. MaxTime /\ last_receive \in Nat
        /\ last_send \in Nat /\ last_send \in 0 .. MaxTime
        /\ LastSign \in Nat /\ LastSign \in 0 .. MaxTime /\ LastSign <= now
        /\ last_receive <= LastSign
    BY Numbers, SignFacts DEF IInv, Typed
  <1>2. /\ result = Running /\ woken' = FALSE /\ queue' = Resent /\ timeout' = ResendTime
        /\ state_timeout' = DisconnectTimer /\ state' = state /\ last_receive' = last_receive
        /\ last_send' = last_send /\ result' = result /\ now' = now
    BY PollFacts
  <1>3. Typed'
    <2>1. \A timer \in Int : Pending(timer) = timer \/ Pending(timer) = None
      BY DEF Pending
    <2>2. ping_timeout' \in (0 .. MaxTime + PingInterval) \cup {None}
      <3>1. CASE PingDue
        BY <1>1, <3>1, PollFacts, Consts
      <3>2. CASE ~PingDue /\ Pinging
        BY <1>1, <3>2, PollFacts, SignFacts, Consts
      <3>3. CASE ~PingDue /\ ~Pinging
        BY <1>1, <2>1, <3>3, PollFacts, Numbers DEF Typed
      <3> QED
        BY <3>1, <3>2, <3>3
    <2>3. state_timeout' \in (0 .. MaxTime + DisconnectTimeout) \cup {None}
      <3>1. CASE state = "Disconnecting"
        BY <1>1, <1>2, <3>1, Consts DEF DisconnectTimer
      <3>2. CASE state # "Disconnecting"
        BY <1>1, <1>2, <2>1, <3>2, Numbers DEF DisconnectTimer, Typed
      <3> QED
        BY <3>1, <3>2
    <2>4. /\ queue' \in Seq(Commands) /\ timeout' \in (0 .. MaxTime + Rto) \cup {None}
          /\ \A i \in DOMAIN queue' : queue'[i].sent <= now /\ queue'[i].last <= now
      BY <1>1, <1>2, ResendTimeFacts, Numbers
    <2>5. outgoing_ping' \in PartialPacketId
      BY <1>1, PollFacts, NextId DEF Typed
    <2> QED
      BY <1>1, <1>2, <2>2, <2>3, <2>4, <2>5, PollPings DEF Typed
  <1>4. WokenTyped' /\ ConnectingPart'
    BY <1>1, <1>2, ResendTimeFacts DEF IInv, WokenTyped, ConnectingPart
  <1>5. DisconnectPart'
    <2> SUFFICES ASSUME state = "Disconnecting"
                 PROVE  /\ now <= last_send + DisconnectTimeout
                        /\ state_timeout' = last_send + DisconnectTimeout
      BY <1>2 DEF DisconnectPart
    <2>1. ~(now - last_send >= DisconnectTimeout)
      BY PollFacts DEF DisconnectTimedOut
    <2>2. now <= last_send + DisconnectTimeout
      BY <1>1, <2>1, Consts
    <2> QED
      BY <1>2, <2>2 DEF DisconnectTimer
  <1>6. QueuePart'
    <2> SUFFICES ASSUME state = "Connected", NEW i \in DOMAIN queue'
                 PROVE  OnTime(queue[i])'
      BY <1>2 DEF QueuePart
    <2>1. i \in DOMAIN queue
      BY <1>1, <1>2, ResendTimeFacts
    <2> DEFINE new == Resent[i]
    <2>2. /\ new.sent = queue[i].sent /\ new.last = IF i \in Due THEN now ELSE queue[i].last
          /\ new.last \in 0 .. MaxTime /\ new.last <= now
          /\ i \notin Due => queue[i].last # None /\ now < queue[i].last + Rto
          /\ ResendTime # None /\ ResendTime <= new.last + Rto
      BY <1>1, <2>1, ResendTimeFacts
    <2>3. queue'[i] = new
      BY <1>2
    <2>4. queue[i].sent \in Nat /\ queue[i].last \in Int
      BY <1>1, <2>1, Numbers
    <2> HIDE DEF new
    <2>5. new.last # None
      BY <2>2, NoneFacts, Consts
    <2>6. new.last - new.sent <= NormalTimeout /\ now <= new.last + Rto
      <3>1. CASE i \in Due
        <4>1. ~(now - queue[i].sent > NormalTimeout)
          BY <3>1, PollFacts DEF PacketTimedOut, GetTimeout
        <4> QED
          BY <1>1, <2>2, <2>4, <3>1, <4>1, Consts
      <3>2. CASE i \notin Due
        <4>1. OnTime(queue[i])
          BY <1>2, <2>1 DEF IInv, QueuePart
        <4>2. queue[i].last - queue[i].sent <= NormalTimeout
          BY <2>2, <3>2, <4>1 DEF OnTime
        <4> QED
          BY <1>1, <2>2, <2>4, <3>2, <4>2, Consts
      <3> QED
        BY <3>1, <3>2
    <2> QED
      BY <1>2, <2>2, <2>3, <2>5, <2>6 DEF OnTime
  <1>7. PingPart'
    <2> SUFFICES ASSUME Pinging'
                 PROVE  /\ now <= LastSign' + PingInterval
                        /\ ping_timeout' # None /\ ping_timeout' <= LastSign' + PingInterval
      BY <1>2 DEF PingPart
    <2>1. Pinging
      <3>1. queue \in Seq(Commands) /\ Len(queue') = Len(queue) /\ queue' = <<>>
        BY <1>1, <1>2, ResendTimeFacts DEF Typed, Pinging
      <3>2. Len(queue) = 0
        BY <3>1
      <3>3. queue = <<>>
        BY <3>1, <3>2, EmptySeq
      <3> QED
        BY <1>2, <3>3 DEF Pinging
    <2>2. CASE PingDue
      <3>1. ping_timeout' = now + PingInterval /\ LastSign' = now
        BY <2>2, PollFacts, PollPings
      <3>2. now + PingInterval \in Nat /\ now <= now + PingInterval
        BY <1>1, Consts
      <3> QED
        BY <3>1, <3>2, NoneFacts
    <2>3. CASE ~PingDue
      <3>1. ping_timeout' = LastSign + PingInterval /\ LastSign' = LastSign
        BY <1>1, <2>1, <2>3, PollFacts, PollPings, SignFacts
      <3>2. ~(LastSign + PingInterval <= now)
        BY <1>1, <2>1, <2>3, SignFacts DEF PingDue
      <3>3. now <= LastSign + PingInterval /\ LastSign + PingInterval \in Nat
        BY <1>1, <3>2, Consts
      <3> QED
        BY <3>1, <3>3, NoneFacts
    <2> QED
      BY <2>2, <2>3
  <1>8. ChainPart'
    <2> SUFFICES ASSUME Unanswered'
                 PROVE  Last(last_pings').sent >= last_receive + Len(last_pings') * PingInterval
      BY <1>2 DEF ChainPart, Last
    <2>1. CASE PingDue
      <3>1. /\ last_pings' = SentPings /\ now >= LastSign + PingInterval
            /\ Last(SentPings).sent = now /\ Len(SentPings) \in Nat
            /\ Len(SentPings) <= Len(KeptPings) + 1 /\ Len(KeptPings) \in Nat
        BY <1>1, <2>1, PollFacts, PollPings, SentFacts DEF NewPing
      <3>2. LastSign >= last_receive + Len(KeptPings) * PingInterval
        <4>1. CASE Unanswered
          BY <1>1, <4>1, SignFacts DEF IInv, ChainPart, LastSign
        <4>2. CASE ~Unanswered
          <5>1. KeptPings = <<>> /\ Len(<<>>) = 0
            BY <1>1, <4>2, SignFacts
          <5>2. Len(KeptPings) * PingInterval = 0
            BY <5>1, Consts
          <5> QED
            BY <1>1, <5>2
        <4> QED
          BY <4>1, <4>2
      <3>3. /\ Len(SentPings) * PingInterval <= (Len(KeptPings) + 1) * PingInterval
            /\ Len(SentPings) * PingInterval \in Nat
            /\ Len(KeptPings) * PingInterval \in Nat
            /\ (Len(KeptPings) + 1) * PingInterval = Len(KeptPings) * PingInterval + PingInterval
        <4> DEFINE k == Len(KeptPings)  m == Len(SentPings)
        <4> HIDE DEF k, m
        <4>1. k \in Nat /\ m \in Nat /\ m <= k + 1 /\ k + 1 \in Nat /\ k <= k
          BY <3>1 DEF k, m
        <4>2. m * PingInterval <= (k + 1) * PingInterval /\ m * PingInterval \in Nat
          BY <4>1, Times
        <4>3. k * PingInterval \in Nat /\ (k + 1) * PingInterval = k * PingInterval + PingInterval
          BY <4>1, Times
        <4> QED
          BY <4>2, <4>3 DEF k, m
      <3> QED
        BY <1>1, <3>1, <3>2, <3>3, Consts
    <2>2. CASE ~PingDue
      <3>1. Unanswered /\ last_pings' = last_pings
        BY <2>2, PollPings
      <3> QED
        BY <3>1 DEF IInv, ChainPart
    <2> QED
      BY <2>1, <2>2
  <1>9. OnlySilenceTimesOut'
    BY <1>2 DEF OnlySilenceTimesOut, Running
  <1> QED
    BY <1>3, <1>4, <1>5, <1>6, <1>7, <1>8, <1>9 DEF IInv

-----------------------------------------------------------------------------
(* The theorems.                                                           *)

\* The first ping has an id, also late in a long connection.
LEMMA StartType == StartId \in PartialPacketId
  <1>1. FirstPing \div IdMod \in Int /\ FirstPing % IdMod \in PacketIdValue
    BY Consts, IdModAssumption DEF PacketIdValue
  <1>2. (FirstPing \div IdMod) % GenMod \in GenerationValue
    BY <1>1, GenModAssumption DEF GenerationValue
  <1> QED
    BY <1>1, <1>2 DEF StartId, PartOf, Part, PartialPacketId

\* clientinit was queued.
LEMMA InitKeeps == ASSUME Init PROVE IInv
  <1> DEFINE first == [sent |-> 0, last |-> None]
  <1>1. /\ state = "Connecting" /\ queue = <<first>> /\ last_pings = <<>>
        /\ outgoing_ping = StartId /\ last_receive = 0 /\ last_send = 0
        /\ ping_timeout = None /\ timeout = None /\ state_timeout = None
        /\ woken = TRUE /\ result = Running /\ now = 0
    BY DEF Init, StartId
  <1>2. first \in Commands /\ first.sent <= 0 /\ first.last <= 0
    BY Consts DEF Commands, None
  <1>3. Typed
    <2>1. /\ queue \in Seq(Commands) /\ DOMAIN queue = {1} /\ queue[1] = first
      BY <1>1, <1>2
    <2>2. last_pings \in Seq(Pings) /\ Len(last_pings) = 0 /\ DOMAIN last_pings = {}
      BY <1>1
    <2>3. /\ \A i \in DOMAIN queue : queue[i].sent <= now /\ queue[i].last <= now
          /\ \A i \in DOMAIN last_pings : last_pings[i].sent <= now
      BY <1>1, <1>2, <2>1, <2>2
    <2>4. 0 \in 0 .. MaxTime /\ 0 <= 0 /\ Len(last_pings) <= PingCount
      BY <2>2, Consts
    <2> HIDE DEF first
    <2> QED
      BY <1>1, <2>1, <2>2, <2>3, <2>4, StartType DEF Typed
  <1>4. WokenTyped /\ ConnectingPart
    BY <1>1 DEF WokenTyped, ConnectingPart
  <1>5. DisconnectPart /\ QueuePart /\ PingPart /\ ChainPart /\ OnlySilenceTimesOut
    BY <1>1 DEF DisconnectPart, QueuePart, PingPart, Pinging, ChainPart, Unanswered,
       OnlySilenceTimesOut, Running
  <1> QED
    BY <1>3, <1>4, <1>5 DEF IInv

\* Every step keeps the invariant.
LEMMA NextKeeps == ASSUME IInv, [Next]_vars PROVE IInv'
  <1>1. CASE PollDisconnected \/ PollError \/ PollPending \/ StatsTimer \/ Tick
    BY <1>1, PollDisconnectedKeeps, PollErrorKeeps, PollPendingKeeps, StatsTimerKeeps, TickKeeps
  <1>2. CASE \/ ReceiveItem \/ ReceiveInitserver \/ ReceiveLeftView
             \/ \E i \in DOMAIN queue : ReceiveAck(i)
             \/ \E i \in DOMAIN last_pings : ReceivePong(i)
    BY <1>2, ReceiveItemKeeps, ReceiveInitserverKeeps, ReceiveLeftViewKeeps, ReceiveAckKeeps,
       ReceivePongKeeps
  <1>3. CASE SendCommand \/ Disconnect
    BY <1>3, QueueStep DEF SendCommand, Disconnect, SetState
  <1>4. CASE UNCHANGED vars
    <2>1. UNCHANGED <<state, queue, last_pings, outgoing_ping, last_receive, last_send,
                      ping_timeout, timeout, state_timeout, woken, result, now>>
      BY <1>4 DEF vars, timerVars
    <2> QED
      BY <2>1 DEF IInv, Typed, WokenTyped, ConnectingPart, DisconnectPart, QueuePart, OnTime,
         PingPart, Pinging, LastSign, Unanswered, ChainPart, OnlySilenceTimesOut
  <1> QED
    BY <1>1, <1>2, <1>3, <1>4 DEF Next

\* The invariant of the keep-alive.
THEOREM KeepAliveInvariant == Spec => []IInv
  <1>1. Init => IInv
    BY InitKeeps
  <1>2. IInv /\ [Next]_vars => IInv'
    BY NextKeeps
  <1> QED
    BY <1>1, <1>2, PTL DEF Spec

\* poll_ping, state Disconnecting: a disconnect that the server never
\* confirms is over DisconnectTimeout after the last packet was queued.
THEOREM DisconnectIsBounded == Spec => []DisconnectEnds
  <1>1. IInv => DisconnectEnds
    <2> SUFFICES ASSUME IInv, result = Running, state = "Disconnecting"
                 PROVE  now - last_send <= DisconnectTimeout
      BY DEF DisconnectEnds
    <2>1. now <= last_send + DisconnectTimeout
      BY DEF IInv, DisconnectPart
    <2> QED
      BY <2>1, Numbers, Consts DEF IInv
  <1> QED
    BY <1>1, KeepAliveInvariant, PTL

\* poll_ping gives up only after PingCount + 1 intervals without any packet,
\* whatever pongs, resends and wrapped ping ids do to its list, and the state
\* stays in its bounds.
THEOREM TimersAreSound == Spec => []TimersSound
  <1>1. IInv => TimersSound
    <2> SUFFICES ASSUME IInv PROVE TypeOK
      BY DEF TimersSound, IInv
    <2>1. /\ 0 .. MaxTime + PingInterval \subseteq Timer
          /\ 0 .. MaxTime + Rto \subseteq Timer
          /\ 0 .. MaxTime + DisconnectTimeout \subseteq Timer
      BY Consts DEF Timer
    <2>2. {ping_timeout, timeout, state_timeout} \subseteq Timer \cup {None}
      BY <2>1 DEF IInv, Typed
    <2> QED
      BY <2>2 DEF TypeOK, IInv, Typed, WokenTyped, Commands, Pings
  <1> QED
    BY <1>1, KeepAliveInvariant, PTL

-----------------------------------------------------------------------------
(* Silence: the ids of the pings do not wrap.                              *)

\* A smaller product has a smaller factor.
LEMMA FewerIntervals ==
    ASSUME NEW a \in Nat, NEW b \in Int, a * PingInterval < b * PingInterval
    PROVE  a < b
  <1> SUFFICES ASSUME b <= a PROVE FALSE
    OBVIOUS
  <1>1. PICK d \in Nat : a = b + d
    <2>1. a - b \in Nat /\ a = b + (a - b)
      OBVIOUS
    <2> QED
      BY <2>1
  <1>2. /\ d * PingInterval \in Nat /\ b * PingInterval \in Int
        /\ (b + d) * PingInterval = b * PingInterval + d * PingInterval
    BY Consts
  <1> QED
    BY <1>1, <1>2

\* Nothing was sent: the list and its ids stay as they are.
LEMMA NoPingKeeps ==
    ASSUME SilenceInv, outgoing_ping' = outgoing_ping, LastSign <= LastSign', LastSign' \in Nat,
           Unanswered' => /\ Unanswered /\ last_pings' = last_pings
                          /\ last_receive' = last_receive
    PROVE  CountPart' /\ ExactPart'
  <1>1. /\ LastSign \in Nat /\ outgoing_ping.packet_id \in Nat /\ StartId.packet_id \in Nat
    BY StartType, Numbers, IdModAssumption
    DEF SilenceInv, IInv, Typed, PartialPacketId, PacketIdValue
  <1>2. CountPart'
    <2> DEFINE c == (outgoing_ping.packet_id - StartId.packet_id) * PingInterval
    <2>1. c \in Int /\ c <= LastSign
      BY <1>1, Consts DEF SilenceInv, CountPart
    <2>2. c <= LastSign'
      BY <1>1, <2>1
    <2> QED
      BY <2>2 DEF SilenceInv, CountPart, StartId
  <1>3. ExactPart'
    BY DEF SilenceInv, ExactPart
  <1> QED
    BY <1>2, <1>3

\* poll_ping sends a ping exactly one interval after the last sign.
LEMMA PingSentKeeps ==
    ASSUME NoWrap, SilenceInv, PollPending, PingDue
    PROVE  CountPart' /\ ExactPart'
  <1> DEFINE g == outgoing_ping.generation_id  o == outgoing_ping.packet_id
             s == StartId.packet_id  k == Len(KeptPings)
  <1>1. /\ IInv /\ Typed /\ outgoing_ping \in PartialPacketId
        /\ g \in GenerationValue /\ o \in PacketIdValue /\ o \in Nat
        /\ s \in Nat /\ s \in PacketIdValue
    BY StartType, IdModAssumption
    DEF SilenceInv, IInv, Typed, PartialPacketId, PacketIdValue
  <1>2. /\ now \in Nat /\ now <= MaxTime /\ LastSign \in Nat /\ last_receive \in Nat
        /\ last_receive' = last_receive /\ now >= LastSign + PingInterval
        /\ Unanswered' /\ LastSign' = now
        /\ last_pings' = SentPings /\ outgoing_ping' = Plus(outgoing_ping, 1)
    BY <1>1, Numbers, PollFacts, PollPings DEF Typed
  <1>3. now = LastSign + PingInterval
    <2>1. now <= LastSign + PingInterval
      BY <1>1, PollFacts DEF IInv, PingPart, PingDue
    <2> QED
      BY <1>2, <2>1, Consts
  <1>4. /\ s <= o /\ (o - s) * PingInterval <= LastSign /\ g = StartId.generation_id
    BY DEF SilenceInv, CountPart
  <1>5. /\ o - s \in Nat /\ (o - s) * PingInterval \in Nat
        /\ (o - s + 1) * PingInterval = (o - s) * PingInterval + PingInterval
    <2> DEFINE c == o - s
    <2>1. c \in Nat
      BY <1>1, <1>4
    <2> HIDE DEF c
    <2>2. c * PingInterval \in Nat /\ (c + 1) * PingInterval = c * PingInterval + PingInterval
      BY <2>1, Consts
    <2> QED
      BY <2>1, <2>2 DEF c
  <1>6. o + 1 < IdMod
    <2>1. (o - s + 1) * PingInterval <= MaxTime
      BY <1>2, <1>3, <1>4, <1>5, Consts
    <2>2. MaxTime < (IdMod - 1 - s) * PingInterval
      BY DEF NoWrap
    <2>3. /\ o - s + 1 \in Nat /\ IdMod - 1 - s \in Int /\ (o - s + 1) * PingInterval \in Int
          /\ (IdMod - 1 - s) * PingInterval \in Int
      BY <1>1, <1>5, IdModAssumption, Consts
    <2>4. (o - s + 1) * PingInterval < (IdMod - 1 - s) * PingInterval
      BY <2>1, <2>2, <2>3, Consts
    <2> DEFINE a == o - s + 1  b == IdMod - 1 - s
    <2>5. a \in Nat /\ b \in Int /\ a * PingInterval < b * PingInterval
      BY <2>3, <2>4
    <2> HIDE DEF a, b
    <2>6. a < b
      BY <2>5, FewerIntervals
    <2> QED
      BY <1>1, <2>6, IdModAssumption DEF a, b
  <1>7. /\ outgoing_ping' = Part(g, o + 1) /\ EncodedId(outgoing_ping) = Part(g, o)
    <2>1. (o + 1) % IdMod = o + 1
      BY <1>1, <1>6, IdModAssumption
    <2>2. Plus(outgoing_ping, 1) = Part(g, o + 1)
      BY <1>1, <1>6, <2>1, IdModAssumption DEF Plus
    <2> QED
      BY <1>2, <2>2 DEF EncodedId, Part
  <1>8. /\ outgoing_ping'.generation_id = g /\ outgoing_ping'.packet_id = o + 1
    BY <1>7 DEF Part
  <1>9. CountPart'
    <2>1. (o + 1 - s) * PingInterval <= now
      <3>1. o + 1 - s = o - s + 1
        BY <1>1
      <3> QED
        BY <1>2, <1>3, <1>4, <1>5, <3>1, Consts
    <2>2. s <= o + 1
      BY <1>1, <1>4
    <2>3. CountPart' <=>
             /\ outgoing_ping'.generation_id = StartId.generation_id
             /\ StartId.packet_id <= outgoing_ping'.packet_id
             /\ (outgoing_ping'.packet_id - StartId.packet_id) * PingInterval <= LastSign'
      BY Zenon DEF CountPart, StartId
    <2>4. (outgoing_ping'.packet_id - StartId.packet_id) * PingInterval <= LastSign'
      <3>1. outgoing_ping'.packet_id - StartId.packet_id = o + 1 - s
        BY <1>1, <1>8
      <3>2. LastSign' = now
        BY <1>2
      <3> QED
        BY <2>1, <3>1, <3>2, Zenon
    <2> QED
      BY <1>4, <1>8, <2>2, <2>3, <2>4
  <1>10. KeptPings = (IF Unanswered THEN last_pings ELSE <<>>)
    BY <1>1, SignFacts
  <1>11. k \in Nat /\ (Unanswered => k >= 1) /\ (~Unanswered => k = 0)
    <2>1. Len(<<>>) = 0
      OBVIOUS
    <2> QED
      BY <1>1, <1>10, <2>1, SignFacts DEF Unanswered
  <1>12. Unanswered =>
           /\ Last(last_pings).sent = last_receive + k * PingInterval
           /\ Head(last_pings).id = Part(g, o - k) /\ Last(last_pings).id = Part(g, o - 1)
    BY <1>10 DEF SilenceInv, ExactPart
  <1>13. k < PingCount
    <2> SUFFICES ASSUME k >= PingCount PROVE FALSE
      BY <1>11, Consts
    <2>1. Unanswered /\ KeptPings = last_pings
      BY <1>10, <1>11, Consts
    <2>2. Diff(Last(last_pings).id, Head(last_pings).id) = k - 1
      <3>1. /\ Last(last_pings).id.generation_id = g /\ Last(last_pings).id.packet_id = o - 1
            /\ Head(last_pings).id.generation_id = g /\ Head(last_pings).id.packet_id = o - k
        BY <1>12, <2>1 DEF Part
      <3>2. Diff(Last(last_pings).id, Head(last_pings).id) =
              (g - g) * (IdMod - 1) + ((o - 1) - (o - k))
        BY <3>1 DEF Diff
      <3>3. g - g = 0 /\ 0 * (IdMod - 1) = 0 /\ (o - 1) - (o - k) = k - 1
        BY <1>1, <1>11, IdModAssumption, GenModAssumption DEF GenerationValue
      <3> QED
        BY <1>11, <3>2, <3>3
    <2>3. PingsTimedOut
      BY <2>1, <2>2 DEF PingsTimedOut
    <2> QED
      BY <2>3, PollFacts
  <1>14. SentPings = Append(KeptPings, NewPing)
    BY <1>1, <1>13, SentFacts
  <1>15. /\ Len(last_pings') = k + 1 /\ Last(last_pings') = NewPing
         /\ Head(last_pings') = IF k = 0 THEN NewPing ELSE Head(last_pings)
    <2>1. KeptPings \in Seq(Pings) /\ NewPing \in Pings
      <3>1. <<>> \in Seq(Pings)
        OBVIOUS
      <3>2. NewPing \in Pings
        BY <1>1, EncodedIdType DEF Typed, NewPing, Pings
      <3> QED
        BY <1>1, <1>10, <3>1, <3>2 DEF Typed
    <2>2. /\ Len(Append(KeptPings, NewPing)) = k + 1
          /\ \A j \in 1 .. k + 1 : Append(KeptPings, NewPing)[j] =
               IF j = k + 1 THEN NewPing ELSE KeptPings[j]
      BY <2>1, AppendProperties
    <2>3. Last(last_pings') = NewPing
      BY <1>1, <1>2, SentFacts
    <2>4. Append(KeptPings, NewPing)[1] = IF k = 0 THEN NewPing ELSE KeptPings[1]
      BY <1>11, <2>2
    <2>5. Head(Append(KeptPings, NewPing)) = Append(KeptPings, NewPing)[1]
      BY <2>1
    <2>6. k # 0 => KeptPings = last_pings /\ Head(last_pings) = last_pings[1]
      BY <1>1, <1>10, <1>11 DEF Typed
    <2> QED
      BY <1>2, <1>14, <2>2, <2>3, <2>4, <2>5, <2>6
  <1>16. NewPing.sent = last_receive + (k + 1) * PingInterval
    <2>1. /\ k * PingInterval \in Nat /\ (k + 1) * PingInterval = k * PingInterval + PingInterval
      <3> HIDE DEF k
      <3> QED
        BY <1>11, Consts
    <2>2. LastSign = last_receive + k * PingInterval
      <3>1. CASE Unanswered
        BY <1>12, <3>1 DEF LastSign
      <3>2. CASE ~Unanswered
        <4>1. k * PingInterval = 0 /\ LastSign = last_receive
          BY <1>11, <3>2, Consts DEF LastSign
        <4> QED
          BY <1>2, <4>1
      <3> QED
        BY <3>1, <3>2
    <2> QED
      BY <1>2, <1>3, <2>1, <2>2, Consts DEF NewPing
  <1>17. /\ NewPing.id = Part(g, o)
         /\ Head(last_pings').id = Part(g, (o + 1) - (k + 1))
    <2>1. NewPing.id = Part(g, o)
      BY <1>7 DEF NewPing
    <2>2. CASE k = 0
      <3>1. (o + 1) - (k + 1) = o
        BY <1>1, <2>2
      <3> QED
        BY <1>15, <2>1, <2>2, <3>1
    <2>3. CASE k # 0
      <3>1. (o + 1) - (k + 1) = o - k
        BY <1>1, <1>11
      <3> QED
        BY <1>11, <1>12, <1>15, <2>1, <2>3, <3>1
    <2> QED
      BY <2>2, <2>3
  <1>18. ExactPart'
    <2>1. (o + 1) - 1 = o
      BY <1>1
    <2>2. ExactPart' <=>
            (Unanswered' =>
               /\ Last(last_pings').sent = last_receive' + Len(last_pings') * PingInterval
               /\ Head(last_pings').id = Part(outgoing_ping'.generation_id,
                                              outgoing_ping'.packet_id - Len(last_pings'))
               /\ Last(last_pings').id = Part(outgoing_ping'.generation_id,
                                              outgoing_ping'.packet_id - 1))
      BY DEF ExactPart, Last
    <2> QED
      BY <1>2, <1>8, <1>15, <1>16, <1>17, <2>1, <2>2
  <1> QED
    BY <1>9, <1>18

\* Every step keeps the list of pings a measure of silence.
LEMMA NextSilence == ASSUME NoWrap, SilenceInv, [Next]_vars PROVE SilenceInv'
  <1>1. IInv' /\ IInv
    BY NextKeeps DEF SilenceInv
  <1>2. /\ LastSign \in Nat /\ LastSign <= now /\ now \in Nat
    BY <1>1, Numbers DEF IInv
  <1>3. CASE PollPending
    <2>1. CASE PingDue
      BY <1>1, <1>3, <2>1, PingSentKeeps DEF SilenceInv
    <2>2. CASE ~PingDue
      <3>1. /\ outgoing_ping' = outgoing_ping /\ LastSign' = LastSign
            /\ last_receive' = last_receive
            /\ Unanswered' => Unanswered /\ last_pings' = last_pings
        BY <1>1, <1>3, <2>2, PollFacts, PollPings
      <3> QED
        BY <1>1, <1>2, <3>1, NoPingKeeps DEF SilenceInv
    <2> QED
      BY <2>1, <2>2
  <1>4. CASE \/ ReceiveItem \/ ReceiveInitserver \/ ReceiveLeftView
             \/ \E i \in DOMAIN queue : ReceiveAck(i)
             \/ \E i \in DOMAIN last_pings : ReceivePong(i)
    <2>1. outgoing_ping' = outgoing_ping /\ last_receive' = now /\ now' = now
      BY <1>4 DEF ReceiveItem, ReceiveInitserver, ReceiveLeftView, ReceiveAck, ReceivePong, Received
    <2>2. ~Unanswered' /\ LastSign' = now
      BY <1>1, <2>1, SignReceived DEF IInv
    <2> QED
      BY <1>1, <1>2, <2>1, <2>2, NoPingKeeps DEF SilenceInv
  <1>5. CASE \/ PollDisconnected \/ PollError \/ StatsTimer \/ Tick \/ SendCommand \/ Disconnect
             \/ UNCHANGED vars
    <2>1. UNCHANGED <<outgoing_ping, last_pings, last_receive>>
      BY <1>5 DEF PollDisconnected, PollError, StatsTimer, Tick, SendCommand, Disconnect, vars
    <2>2. Unanswered' = Unanswered /\ LastSign' = LastSign
      BY <2>1 DEF Unanswered, LastSign
    <2> QED
      BY <1>1, <1>2, <2>1, <2>2, NoPingKeeps DEF SilenceInv
  <1> QED
    BY <1>3, <1>4, <1>5 DEF Next

\* poll_ping and poll_resend: a peer that falls silent is noticed after
\* PingCount + 1 intervals, or after the timeout of the oldest command and
\* one resend, as long as the ids of the pings do not wrap.
THEOREM SilenceIsNoticed == NoWrap => (Spec => []SilenceNoticed)
  <1>1. ASSUME NoWrap PROVE Init => SilenceInv
    <2> SUFFICES ASSUME Init PROVE SilenceInv
      OBVIOUS
    <2>1. ~Unanswered /\ LastSign = 0 /\ outgoing_ping = StartId
      BY DEF Init, Unanswered, LastSign, StartId
    <2>2. StartId.packet_id \in Nat
      BY StartType, IdModAssumption DEF PartialPacketId, PacketIdValue
    <2>3. (StartId.packet_id - StartId.packet_id) * PingInterval = 0
      BY <2>2, Consts
    <2> QED
      BY <2>1, <2>2, <2>3, InitKeeps DEF SilenceInv, CountPart, ExactPart
  <1>2. ASSUME NoWrap PROVE SilenceInv /\ [Next]_vars => SilenceInv'
    BY <1>2, NextSilence
  <1>3. SilenceInv => SilenceNoticed
    <2> SUFFICES ASSUME SilenceInv, result = Running, state = "Connected"
                 PROVE  IF queue = <<>>
                        THEN now - last_receive <= (PingCount + 1) * PingInterval
                        ELSE \A i \in DOMAIN queue : now - queue[i].sent <= NormalTimeout + Rto
      BY DEF SilenceNoticed
    <2>1. IInv /\ Typed
      BY DEF SilenceInv, IInv
    <2>2. CASE queue = <<>>
      <3>1. now <= LastSign + PingInterval
        BY <2>1, <2>2 DEF IInv, PingPart, Pinging
      <3>2. LastSign <= last_receive + PingCount * PingInterval
        <4>1. CASE Unanswered
          <5> DEFINE k == Len(last_pings)
          <5>1. k \in Nat /\ k <= PingCount /\ LastSign = last_receive + k * PingInterval
            BY <2>1, <4>1, SignFacts DEF SilenceInv, ExactPart, LastSign, Typed
          <5> HIDE DEF k
          <5>2. k * PingInterval <= PingCount * PingInterval /\ k * PingInterval \in Nat
            BY <5>1, Times, Consts
          <5> QED
            BY <2>1, <5>1, <5>2, Numbers, Consts
        <4>2. CASE ~Unanswered
          BY <2>1, <4>2, Numbers, Consts DEF LastSign
        <4> QED
          BY <4>1, <4>2
      <3>3. now - last_receive <= (PingCount + 1) * PingInterval
        BY <2>1, <3>1, <3>2, Numbers, Consts
      <3> QED
        BY <2>2, <3>3
    <2>3. CASE queue # <<>>
      <3>1. ASSUME NEW i \in DOMAIN queue PROVE now - queue[i].sent <= NormalTimeout + Rto
        <4>1. OnTime(queue[i])
          BY <2>1 DEF IInv, QueuePart
        <4>2. now \in Nat /\ queue[i].sent \in Nat /\ queue[i].last \in Int
          BY <2>1, Numbers
        <4>3. \/ queue[i].sent = now
              \/ queue[i].last - queue[i].sent <= NormalTimeout /\ now <= queue[i].last + Rto
          BY <4>1 DEF OnTime
        <4> QED
          BY <4>2, <4>3, Consts
      <3> QED
        BY <2>3, <3>1
    <2> QED
      BY <2>2, <2>3
  <1>4. CASE NoWrap
    BY <1>1, <1>2, <1>3, <1>4, PTL DEF Spec
  <1> QED
    BY <1>4

=============================================================================
