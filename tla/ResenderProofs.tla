--------------------------- MODULE ResenderProofs ---------------------------
(***************************************************************************)
(* Proofs about the resender, for every number of packets, every window    *)
(* and every size of the packet ids.                                       *)
(*                                                                         *)
(* The inductive invariant is TypeOK /\ HeapFinite /\ NoPacketForgotten /\ *)
(* HeapKeepsRunning.  NeverStalls alone is not inductive: while            *)
(* fill_up_send_queue runs the heap may be empty although packets wait, so *)
(* HeapKeepsRunning says what holds there (the loop has an iteration left),*)
(* and NoPacketForgotten turns an exhausted iterator into an empty queue.  *)
(*                                                                         *)
(* The second half is about order: as long as the ids do not wrap, OrderInv*)
(* says that the commands are numbered, queued and first sent in order,    *)
(* that the heap, the records and the history agree, that a packet in      *)
(* flight has less than a window of packets before it, and how far the     *)
(* last AckPacket event reaches.  The window, the ack events and the       *)
(* refinement of ReliableSender follow from it.                            *)
(***************************************************************************)
EXTENDS Resender, FiniteSetTheorems, WellFoundedInduction, TLAPS

HeapFinite == IsFiniteSet(send_queue)

HeapKeepsRunning ==
    /\ (pc # "fill" /\ send_queue = {}) => \A t \in Types : Ids(t) = {}
    /\ (pc = "fill" /\ send_queue = {}) => room > 0

IInv == TypeOK /\ HeapFinite /\ NoPacketForgotten /\ HeapKeepsRunning

-----------------------------------------------------------------------------
(* The order of packet ids.                                                *)

\* impl Ord for PartialPacketId is irreflexive and transitive.
LEMMA LessOrder ==
    ASSUME NEW a \in PartialPacketId, NEW b \in PartialPacketId,
           NEW c \in PartialPacketId
    PROVE  /\ ~Less(a, a)
           /\ Less(a, b) /\ Less(b, c) => Less(a, c)
           /\ a = b \/ Less(a, b) \/ Less(b, a)
  BY IdModAssumption, GenModAssumption
  DEF Less, PartialPacketId, PacketIdValue, GenerationValue

\* impl Add<u16>: the successor is an id, and nothing lies in between.  At
\* the very last id the successor is Zero and nothing lies below it.
LEMMA Successor ==
    ASSUME NEW p \in PartialPacketId
    PROVE  /\ Plus(p, 1) \in PartialPacketId
           /\ \A q \in PartialPacketId : Less(q, Plus(p, 1)) => LessEq(q, p)
  <1> DEFINE g == p.generation_id  i == p.packet_id
  <1>1. g \in GenerationValue /\ i \in PacketIdValue
    BY DEF PartialPacketId
  <1>2. CASE i + 1 < IdMod
    <2>1. (i + 1) % IdMod = i + 1
      BY <1>1, <1>2, IdModAssumption DEF PacketIdValue
    <2>2. Plus(p, 1) = Part(g, i + 1)
      BY <1>1, <1>2, <2>1, IdModAssumption DEF Plus, PacketIdValue
    <2> QED
      BY <1>1, <1>2, <2>2, IdModAssumption, GenModAssumption
      DEF PartialPacketId, Part, Less, LessEq, PacketIdValue, GenerationValue
  <1>3. CASE i + 1 >= IdMod
    <2>1. i + 1 = IdMod
      BY <1>1, <1>3, IdModAssumption DEF PacketIdValue
    <2>2. (i + 1) % IdMod = 0
      BY <2>1, IdModAssumption
    <2>3. \/ g + 1 < GenMod /\ (g + 1) % GenMod = g + 1
          \/ g + 1 = GenMod /\ (g + 1) % GenMod = 0
      BY <1>1, GenModAssumption DEF GenerationValue
    <2>4. Plus(p, 1) = Part((g + 1) % GenMod, 0)
      BY <1>3, <2>2 DEF Plus
    <2> QED
      BY <1>1, <2>1, <2>3, <2>4, IdModAssumption, GenModAssumption
      DEF PartialPacketId, Part, Less, LessEq, PacketIdValue, GenerationValue
  <1> QED
    BY <1>1, <1>2, <1>3, IdModAssumption DEF PacketIdValue

\* impl Sub<u16>: the predecessor is an id.
LEMMA Predecessor ==
    /\ \A p \in PartialPacketId : Minus(p, 1) \in PartialPacketId
    /\ \A i \in PacketIdValue : Minus(Part(0, i + 1), 1) \in PartialPacketId
  <1>1. \A x \in Int : x % IdMod \in PacketIdValue /\ x % GenMod \in GenerationValue
    BY IdModAssumption, GenModAssumption DEF PacketIdValue, GenerationValue
  <1>2. ASSUME NEW p \in PartialPacketId
        PROVE  Minus(p, 1) \in PartialPacketId
    <2>1. p.generation_id \in GenerationValue /\ p.packet_id \in PacketIdValue
      BY DEF PartialPacketId
    <2>2. p.generation_id - 1 \in Int /\ p.packet_id - 1 \in Int
      BY <2>1, IdModAssumption, GenModAssumption DEF PacketIdValue, GenerationValue
    <2>3. /\ (p.generation_id - 1) % GenMod \in GenerationValue
          /\ (p.packet_id - 1) % IdMod \in PacketIdValue
      BY <1>1, <2>2
    <2> QED
      BY <2>1, <2>3 DEF Minus, Part, PartialPacketId
  <1>3. ASSUME NEW i \in PacketIdValue
        PROVE  Minus(Part(0, i + 1), 1) \in PartialPacketId
    BY <1>1, IdModAssumption, GenModAssumption
    DEF Minus, Part, PartialPacketId, PacketIdValue, GenerationValue
  <1> QED
    BY <1>2, <1>3

\* PacketCodec::encode_packet yields an id, also when the generation wraps.
LEMMA EncodedIdType ==
    \A p \in PartialPacketId : EncodedId(p) \in PartialPacketId
  BY Successor DEF EncodedId, Part, PartialPacketId

\* A set of numbers has a smallest one.
LEMMA SmallestNumber ==
    ASSUME NEW S, S \subseteq Nat, S # {}
    PROVE  \E n \in S : \A m \in S : n <= m
  <1>1. PICK n \in S : \A m \in S : ~(<<m, n>> \in OpToRel(<, Nat))
    BY WFMin, NatLessThanWellFounded
  <1>2. \A m \in S : ~(m < n)
    BY <1>1 DEF OpToRel
  <1> QED
    BY <1>2

-----------------------------------------------------------------------------
(* Helpers.                                                                *)

\* No id is less than the index that rebuild_send_queue starts from.
LEMMA NothingBelowZero ==
    ASSUME NEW p \in PartialPacketId PROVE ~Less(p, Zero)
  BY DEF Less, Zero, Part, PartialPacketId, PacketIdValue, GenerationValue

\* The BTreeMap full_send_queue has a first key whenever it has one.
LEMMA FirstExists ==
    ASSUME NEW S, S \subseteq PartialPacketId, S # {}
    PROVE  \E p \in S : IsFirst(p, S)
  <1> DEFINE G == {p.generation_id : p \in S}
  <1>1. PICK g \in G : \A h \in G : g <= h
    <2>1. G \subseteq Nat /\ G # {}
      BY DEF PartialPacketId, GenerationValue
    <2> QED
      BY <2>1, SmallestNumber
  <1> DEFINE I == {p.packet_id : p \in {q \in S : q.generation_id = g}}
  <1>2. PICK i \in I : \A j \in I : i <= j
    <2>1. I \subseteq Nat /\ I # {}
      BY DEF PartialPacketId, PacketIdValue
    <2> QED
      BY <2>1, SmallestNumber
  <1>3. PICK p \in S : p.generation_id = g /\ p.packet_id = i
    OBVIOUS
  <1>4. ASSUME NEW q \in S PROVE LessEq(p, q)
    <2>1. p \in PartialPacketId /\ q \in PartialPacketId
      OBVIOUS
    <2>2. g <= q.generation_id
      BY <1>1
    <2>3. q.generation_id = g => i <= q.packet_id
      BY <1>2
    <2> QED
      BY <1>3, <2>1, <2>2, <2>3
      DEF LessEq, Less, PartialPacketId, PacketIdValue, GenerationValue
  <1> QED
    BY <1>3, <1>4 DEF IsFirst

-----------------------------------------------------------------------------
(* The loop of fill_up_send_queue has an iteration to run when the heap it *)
(* starts from is empty, because every congestion window is at least one.  *)
LEMMA StartFillFacts ==
    ASSUME NEW size \in Nat, NEW returnTo \in {"idle", "poll"},
           StartFill(size, returnTo)
    PROVE  /\ pc' = "fill"
           /\ caller' \in {"idle", "poll"}
           /\ room' \in 0 .. MaxWindow
           /\ size = 0 => room' > 0
  BY ResenderAssumption DEF StartFill

-----------------------------------------------------------------------------
(* Resender::send_packet keeps the invariant.                              *)
LEMMA QueueKeeps ==
    ASSUME IInv, NEW t \in Types, NEW p \in PartialPacketId, Queue(t, p),
           outgoing_p_ids' \in [CommandTypes -> PartialPacketId],
           init_sent' \in {None, 0, 2, 4}
    PROVE  IInv'
  <1> USE DEF IInv
  <1>1. /\ Ids(t)' = Ids(t) \cup {p}
        /\ \A u \in Types : u # t => Ids(u)' = Ids(u)
    BY DEF TypeOK, Queue, Insert, Ids
  <1>2. /\ send_queue' = send_queue
        /\ HeapFinite'
        /\ Cardinality(send_queue) \in Nat
        /\ send_queue = {} => Cardinality(send_queue) = 0
    BY FS_CardinalityType, FS_EmptySet DEF HeapFinite, Queue
  <1>3. /\ pc' = "fill" /\ caller' \in {"idle", "poll"}
        /\ room' \in 0 .. MaxWindow
        /\ send_queue' = {} => room' > 0
    BY <1>2, StartFillFacts DEF Queue
  <1>4. TypeOK'
    <2>1. full_send_queue' = [u \in Types |-> full_send_queue'[u]]
      BY DEF TypeOK, Queue
    <2>2. clock' \in 0 .. MaxClock /\ clock + 1 \in 1 .. MaxClock
      BY ResenderAssumption DEF TypeOK, Queue
    <2>3. /\ issued' \in [Types -> SUBSET PartialPacketId]
          /\ \A u \in Types : Ids(u)' \subseteq issued'[u]
      BY <1>1 DEF TypeOK, Queue
    <2>4. ASSUME NEW u \in Types
          PROVE  full_send_queue'[u] \in [Ids(u)' -> Record]
      <3>1. CASE u = t
        <4>1. full_send_queue'[t] =
                 Insert(full_send_queue[t], p,
                        [sent |-> clock + 1, last |-> clock + 1, tries |-> 0])
          BY DEF TypeOK, Queue
        <4>2. [sent |-> clock + 1, last |-> clock + 1, tries |-> 0] \in Record
          BY <2>2 DEF Record
        <4>3. full_send_queue[t] \in [Ids(t) -> Record]
          BY DEF TypeOK
        <4> QED
          BY <3>1, <4>1, <4>2, <4>3, <1>1 DEF Insert
      <3>2. CASE u # t
        BY <3>2, <1>1 DEF TypeOK, Queue
      <3> QED
        BY <3>1, <3>2
    <2>5. send_queue_indices' \in [Types -> PartialPacketId]
      BY DEF TypeOK, Queue, LoweredIndex
    <2>6. /\ send_queue' \in SUBSET HeapEntry
          /\ transmitted' \in [Types -> SUBSET PartialPacketId]
          /\ ack_event' \in [Types -> PartialPacketId \cup {NoEvent}]
          /\ failed' \in BOOLEAN
      BY DEF TypeOK, Queue, HeapEntry
    <2> QED
      BY <1>3, <2>1, <2>2, <2>3, <2>4, <2>5, <2>6 DEF TypeOK
  <1>5. NoPacketForgotten'
    <2> SUFFICES ASSUME NEW u \in Types, NEW q \in Ids(u)',
                        Less(q, send_queue_indices'[u])
                 PROVE  Scheduled(u, q)'
      BY DEF NoPacketForgotten
    <2>1. q \in PartialPacketId /\ send_queue_indices[u] \in PartialPacketId
      BY <1>4 DEF TypeOK
    <2>2. q \in Ids(u) /\ Less(q, send_queue_indices[u])
      <3>1. CASE u = t
        <4>1. send_queue_indices'[t] = LoweredIndex(t, p)
          BY DEF TypeOK, Queue
        <4>2. q # p
          BY <3>1, <4>1, <2>1, LessOrder DEF LoweredIndex
        <4> QED
          BY <3>1, <4>1, <4>2, <1>1, <2>1, LessOrder DEF LoweredIndex
      <3>2. CASE u # t
        BY <3>2, <1>1 DEF TypeOK, Queue
      <3> QED
        BY <3>1, <3>2
    <2>3. Scheduled(u, q)
      BY <2>2 DEF NoPacketForgotten
    <2> QED
      BY <2>3, <1>2 DEF Scheduled
  <1>6. HeapKeepsRunning'
    BY <1>3 DEF HeapKeepsRunning
  <1> QED
    BY <1>2, <1>4, <1>5, <1>6

-----------------------------------------------------------------------------
(* Resender::ack_packet keeps the invariant: it only shrinks the queue.    *)
LEMMA AckPacketKeeps ==
    ASSUME IInv, NEW t \in Types, NEW p_id, AckPacket(t, p_id)
    PROVE  IInv'
  <1> USE DEF IInv
  <1>1. PICK first \in Ids(t) :
            /\ IsFirst(first, Ids(t))
            /\ ack_event' = IF first.packet_id = p_id
                            THEN [ack_event EXCEPT ![t] = Minus(AckedBefore(t, first), 1)]
                            ELSE ack_event
            /\ full_send_queue' = [full_send_queue EXCEPT ![t] =
                                       Remove(@, AckedKey(first, p_id))]
    BY DEF AckPacket
  <1>2. /\ UNCHANGED <<send_queue, send_queue_indices, outgoing_p_ids, issued,
                       transmitted, init_sent, clock, pc, caller, room, failed>>
    BY DEF AckPacket, historyVars, controlVars
  <1>3. /\ Ids(t)' = Ids(t) \ {AckedKey(first, p_id)}
        /\ \A u \in Types : u # t => Ids(u)' = Ids(u)
    BY <1>1 DEF TypeOK, Remove, Ids
  <1>4. Ids(t) \subseteq PartialPacketId
    BY DEF TypeOK
  <1>5. Minus(AckedBefore(t, first), 1) \in PartialPacketId
    <2> DEFINE rest == Ids(t) \ {first}
    <2>1. CASE rest # {}
      <3>1. \E p \in rest : IsFirst(p, rest)
        BY <1>4, <2>1, FirstExists
      <3>2. AckedBefore(t, first) \in rest
        BY <2>1, <3>1 DEF AckedBefore
      <3> QED
        BY <1>4, <3>2, Predecessor
    <2>2. CASE rest = {} /\ t = "Init"
      <3>1. first.packet_id \in PacketIdValue
        BY <1>4 DEF PartialPacketId
      <3> QED
        BY <2>2, <3>1, Predecessor DEF AckedBefore
    <2>3. CASE rest = {} /\ t # "Init"
      <3>1. outgoing_p_ids[t] \in PartialPacketId
        BY <2>3 DEF TypeOK, Types
      <3> QED
        BY <2>3, <3>1, Predecessor DEF AckedBefore
    <2> QED
      BY <2>1, <2>2, <2>3
  <1>6. TypeOK'
    <2>1. ack_event' \in [Types -> PartialPacketId \cup {NoEvent}]
      BY <1>1, <1>5 DEF TypeOK
    <2>2. full_send_queue' = [u \in Types |-> full_send_queue'[u]]
      BY <1>1 DEF TypeOK
    <2>3. ASSUME NEW u \in Types
          PROVE  /\ Ids(u)' \subseteq issued'[u]
                 /\ full_send_queue'[u] \in [Ids(u)' -> Record]
      <3>1. CASE u = t
        <4>1. full_send_queue'[t] = Remove(full_send_queue[t], AckedKey(first, p_id))
          BY <1>1 DEF TypeOK
        <4>2. full_send_queue[t] \in [Ids(t) -> Record] /\ Ids(t) \subseteq issued[t]
          BY DEF TypeOK
        <4> QED
          BY <3>1, <4>1, <4>2, <1>2, <1>3 DEF Remove
      <3>2. CASE u # t
        BY <3>2, <1>1, <1>2, <1>3 DEF TypeOK
      <3> QED
        BY <3>1, <3>2
    <2> QED
      BY <1>2, <2>1, <2>2, <2>3 DEF TypeOK
  <1>7. NoPacketForgotten'
    BY <1>2, <1>3 DEF NoPacketForgotten, Scheduled
  <1>8. HeapKeepsRunning'
    BY <1>2, <1>3 DEF HeapKeepsRunning
  <1> QED
    BY <1>2, <1>6, <1>7, <1>8 DEF HeapFinite

-----------------------------------------------------------------------------
(* One iteration of fill_up_send_queue keeps the invariant: the packets    *)
(* between the old index and the new one are the one that was chosen.      *)
LEMMA FillStepKeeps ==
    ASSUME IInv, FillStep PROVE IInv'
  <1> USE DEF IInv
  <1>1. PICK t \in Types : \E p \in Waiting(t) :
            /\ FillChoice(t, p)
            /\ Push(t, p)
            /\ send_queue_indices' = [send_queue_indices EXCEPT ![t] = Plus(p, 1)]
    BY DEF FillStep
  <1>2. PICK p \in Waiting(t) :
            /\ FillChoice(t, p)
            /\ Push(t, p)
            /\ send_queue_indices' = [send_queue_indices EXCEPT ![t] = Plus(p, 1)]
    BY <1>1
  <1>3. PICK copy \in 0 .. Cardinality(send_queue) :
            send_queue' = send_queue \cup {EntryOf(t, p, copy)}
    BY <1>2 DEF Push
  <1>4. /\ UNCHANGED <<full_send_queue, outgoing_p_ids, issued, transmitted,
                       ack_event, init_sent, clock, pc, caller, failed>>
        /\ pc = "fill" /\ room > 0 /\ room' = room - 1
        /\ \A u : Ids(u)' = Ids(u)
    BY DEF FillStep, historyVars, Ids
  <1>5. p \in Ids(t) /\ Ids(t) \subseteq PartialPacketId
    BY DEF Waiting, TypeOK
  <1>6. /\ EntryOf(t, p, copy) \in HeapEntry
        /\ EntryOf(t, p, copy).type = t /\ EntryOf(t, p, copy).part = p
    <2>1. full_send_queue[t][p] \in Record
      BY <1>5 DEF TypeOK
    <2> QED
      BY <1>5, <2>1 DEF EntryOf, HeapEntry, Record
  <1>7. TypeOK'
    <2>1. send_queue' \in SUBSET HeapEntry
      BY <1>3, <1>6 DEF TypeOK
    <2>2. send_queue_indices' \in [Types -> PartialPacketId]
      BY <1>2, <1>5, Successor DEF TypeOK
    <2>3. room' \in 0 .. MaxWindow
      BY <1>4, ResenderAssumption DEF TypeOK
    <2> QED
      BY <1>4, <2>1, <2>2, <2>3 DEF TypeOK
  <1>8. HeapFinite'
    BY <1>3, FS_AddElement DEF HeapFinite
  <1>9. NoPacketForgotten'
    <2> SUFFICES ASSUME NEW u \in Types, NEW q \in Ids(u),
                        Less(q, send_queue_indices'[u])
                 PROVE  Scheduled(u, q)'
      BY <1>4 DEF NoPacketForgotten
    <2>1. Scheduled(u, q) => Scheduled(u, q)'
      BY <1>3 DEF Scheduled
    <2>2. CASE u # t
      <3>1. Less(q, send_queue_indices[u])
        BY <1>2, <2>2 DEF TypeOK
      <3> QED
        BY <2>1, <3>1 DEF NoPacketForgotten
    <2>3. CASE u = t /\ q = p
      BY <1>3, <1>6, <2>3 DEF Scheduled
    <2>4. CASE u = t /\ q # p
      <3>1. p \in PartialPacketId /\ q \in PartialPacketId
        BY <1>5, <2>4
      <3>2. Less(q, p)
        <4>1. send_queue_indices'[t] = Plus(p, 1)
          BY <1>2 DEF TypeOK
        <4> QED
          BY <2>4, <3>1, <4>1, Successor DEF LessEq
      <3>3. q \notin Waiting(t)
        <4>1. q \in Waiting(t) => LessEq(p, q)
          BY <1>2 DEF FillChoice, IsFirst
        <4> QED
          BY <2>4, <3>1, <3>2, <4>1, LessOrder DEF LessEq
      <3>4. Less(q, send_queue_indices[t])
        BY <2>4, <3>3 DEF Waiting
      <3> QED
        BY <2>1, <2>4, <3>4 DEF NoPacketForgotten
    <2> QED
      BY <2>2, <2>3, <2>4
  <1>10. HeapKeepsRunning'
    BY <1>3, <1>4 DEF HeapKeepsRunning
  <1> QED
    BY <1>7, <1>8, <1>9, <1>10

\* The end of fill_up_send_queue keeps the invariant: if the heap is still
\* empty, the iterators were exhausted, and then nothing is queued.
LEMMA FillEndKeeps ==
    ASSUME IInv, FillEnd PROVE IInv'
  <1> USE DEF IInv
  <1>1. /\ UNCHANGED <<full_send_queue, send_queue, send_queue_indices,
                       outgoing_p_ids, issued, transmitted, ack_event,
                       init_sent, clock, failed>>
        /\ pc = "fill" /\ (room = 0 \/ Waiters = {})
        /\ pc' = caller /\ room' = 0 /\ caller' = "idle"
        /\ \A u : Ids(u)' = Ids(u)
    BY DEF FillEnd, queueVars, historyVars, Ids
  <1>2. TypeOK'
    BY <1>1, ResenderAssumption DEF TypeOK
  <1>3. NoPacketForgotten'
    BY <1>1 DEF NoPacketForgotten, Scheduled
  <1>4. ASSUME send_queue = {}, NEW t \in Types, NEW p \in Ids(t)
        PROVE  FALSE
    <2>1. Waiters = {}
      BY <1>1, <1>4 DEF HeapKeepsRunning, TypeOK
    <2>2. Less(p, send_queue_indices[t])
      BY <2>1 DEF Waiters, Waiting
    <2> QED
      BY <1>4, <2>2 DEF NoPacketForgotten, Scheduled
  <1>5. HeapKeepsRunning'
    BY <1>1, <1>4 DEF HeapKeepsRunning, TypeOK
  <1> QED
    BY <1>1, <1>2, <1>3, <1>5 DEF HeapFinite

-----------------------------------------------------------------------------
(* Resender::poll_resend keeps the invariant.                              *)

\* An acknowledged packet leaves the heap: it was not queued any more.
LEMMA PollAckedKeeps ==
    ASSUME IInv, NEW e \in send_queue, PollAcked(e) PROVE IInv'
  <1> USE DEF IInv
  <1>1. /\ UNCHANGED <<full_send_queue, send_queue_indices, outgoing_p_ids,
                       issued, transmitted, ack_event, init_sent, clock, failed>>
        /\ e.part \notin Ids(e.type)
        /\ send_queue' = send_queue \ {e}
        /\ \A u : Ids(u)' = Ids(u)
    BY DEF PollAcked, historyVars, Ids
  <1>2. /\ HeapFinite'
        /\ Cardinality(send_queue) - 1 \in Nat
        /\ send_queue' = {} => Cardinality(send_queue) - 1 = 0
    <2>1. IsFiniteSet(send_queue) /\ IsFiniteSet(send_queue')
      BY <1>1, FS_RemoveElement DEF HeapFinite
    <2>2. Cardinality(send_queue') = Cardinality(send_queue) - 1
      BY <1>1, <2>1, FS_RemoveElement
    <2> QED
      BY <2>1, <2>2, FS_CardinalityType, FS_EmptySet DEF HeapFinite
  <1>3. /\ pc' = "fill" /\ caller' \in {"idle", "poll"}
        /\ room' \in 0 .. MaxWindow
        /\ send_queue' = {} => room' > 0
    BY <1>2, StartFillFacts DEF PollAcked
  <1>4. TypeOK'
    BY <1>1, <1>3 DEF TypeOK
  <1>5. NoPacketForgotten'
    BY <1>1 DEF NoPacketForgotten, Scheduled
  <1>6. HeapKeepsRunning'
    BY <1>3 DEF HeapKeepsRunning
  <1> QED
    BY <1>2, <1>4, <1>5, <1>6

\* Sending updates the record of the packet and no other one.
LEMMA SentFacts ==
    ASSUME IInv, NEW e \in send_queue, Sent(e)
    PROVE  /\ clock + 1 \in 1 .. MaxClock /\ clock' \in 0 .. MaxClock
           /\ e \in HeapEntry /\ pc = "poll"
           /\ \A u \in Types : Ids(u)' = Ids(u)
           /\ full_send_queue' = [u \in Types |-> full_send_queue'[u]]
           /\ \A u \in Types : full_send_queue'[u] \in [Ids(u)' -> Record]
           /\ transmitted' \in [Types -> SUBSET PartialPacketId]
           /\ UNCHANGED <<outgoing_p_ids, issued, ack_event, init_sent, failed>>
  <1> USE DEF IInv
  <1>1. /\ e \in HeapEntry
        /\ e.type \in Types /\ e.part \in PartialPacketId /\ e.tries \in Nat
    BY DEF TypeOK, HeapEntry
  <1>2. clock + 1 \in 1 .. MaxClock /\ clock' \in 0 .. MaxClock
    BY ResenderAssumption DEF Sent, TypeOK
  <1>3. /\ e.part \in Ids(e.type)
        /\ full_send_queue' = [full_send_queue EXCEPT ![e.type][e.part] =
               [@ EXCEPT !.last = clock + 1, !.tries = e.tries + 1]]
    BY DEF Sent
  <1>4. full_send_queue[e.type][e.part] \in Record
    BY <1>1, <1>3 DEF TypeOK
  <1>5. [full_send_queue[e.type][e.part]
            EXCEPT !.last = clock + 1, !.tries = e.tries + 1] \in Record
    <2>1. ASSUME NEW r \in Record, NEW k \in 1 .. MaxClock, NEW n \in Nat
          PROVE  [r EXCEPT !.last = k, !.tries = n] \in Record
      BY DEF Record
    <2>2. e.tries + 1 \in Nat
      BY <1>1
    <2> QED
      BY <1>2, <1>4, <2>1, <2>2
  <1>6. full_send_queue' = [u \in Types |-> full_send_queue'[u]]
    BY <1>3 DEF TypeOK
  <1>7. ASSUME NEW u \in Types
        PROVE  /\ Ids(u)' = Ids(u)
               /\ full_send_queue'[u] \in [Ids(u)' -> Record]
    <2>1. full_send_queue[u] \in [Ids(u) -> Record]
      BY DEF TypeOK
    <2>2. CASE u = e.type
      <3>1. full_send_queue'[u] =
               [full_send_queue[u] EXCEPT ![e.part] =
                   [@ EXCEPT !.last = clock + 1, !.tries = e.tries + 1]]
        BY <1>1, <1>3, <2>2 DEF TypeOK
      <3> QED
        BY <1>3, <1>5, <2>1, <2>2, <3>1 DEF Ids
    <2>3. CASE u # e.type
      <3>1. full_send_queue'[u] = full_send_queue[u]
        BY <1>3, <2>3 DEF TypeOK
      <3> QED
        BY <2>1, <3>1 DEF Ids
    <2> QED
      BY <2>2, <2>3
  <1>8. transmitted' \in [Types -> SUBSET PartialPacketId]
    BY <1>1 DEF Sent, TypeOK
  <1> QED
    BY <1>1, <1>2, <1>6, <1>7, <1>8 DEF Sent

\* The first transmission puts the entry back with the same packet.
LEMMA PollSendKeeps ==
    ASSUME IInv, NEW e \in send_queue, PollSend(e) PROVE IInv'
  <1> USE DEF IInv
  <1> DEFINE f == [e EXCEPT !.last = clock + 1, !.tries = 1, !.copy = 0]
  <1>1. Sent(e)
    BY DEF PollSend
  <1>2. /\ send_queue' = (send_queue \ {e}) \cup {f}
        /\ UNCHANGED <<send_queue_indices, pc, caller, room>>
    BY DEF PollSend, controlVars
  <1>3. f \in HeapEntry /\ f.type = e.type /\ f.part = e.part
    BY <1>1, SentFacts DEF HeapEntry
  <1>4. TypeOK'
    <2>1. send_queue' \in SUBSET HeapEntry
      BY <1>2, <1>3 DEF TypeOK
    <2>2. \A u \in Types : Ids(u)' \subseteq issued'[u]
      BY <1>1, SentFacts DEF TypeOK
    <2> QED
      BY <1>1, <1>2, <2>1, <2>2, SentFacts DEF TypeOK
  <1>5. HeapFinite'
    BY <1>2, FS_AddElement, FS_RemoveElement DEF HeapFinite
  <1>6. NoPacketForgotten'
    <2> SUFFICES ASSUME NEW u \in Types, NEW q \in Ids(u),
                        Less(q, send_queue_indices[u])
                 PROVE  Scheduled(u, q)'
      BY <1>1, <1>2, SentFacts DEF NoPacketForgotten
    <2>1. PICK o \in send_queue : o.type = u /\ o.part = q
      BY DEF NoPacketForgotten, Scheduled
    <2> QED
      BY <1>2, <1>3, <2>1 DEF Scheduled
  <1>7. HeapKeepsRunning'
    BY <1>1, <1>2, SentFacts DEF HeapKeepsRunning
  <1> QED
    BY <1>4, <1>5, <1>6, <1>7

\* rebuild_send_queue forgets the heap and the indices together.
LEMMA PollResendKeeps ==
    ASSUME IInv, NEW e \in send_queue, PollResend(e) PROVE IInv'
  <1> USE DEF IInv
  <1>1. Sent(e)
    BY DEF PollResend
  <1>2. /\ send_queue' = {}
        /\ send_queue_indices' = [t \in Types |-> Zero]
    BY DEF PollResend
  <1>3. /\ pc' = "fill" /\ caller' \in {"idle", "poll"}
        /\ room' \in 0 .. MaxWindow /\ room' > 0
    BY StartFillFacts DEF PollResend
  <1>4. Zero \in PartialPacketId
    BY IdModAssumption, GenModAssumption
    DEF Zero, Part, PartialPacketId, PacketIdValue, GenerationValue
  <1>5. TypeOK'
    <2>1. \A u \in Types : Ids(u)' \subseteq issued'[u]
      BY <1>1, SentFacts DEF TypeOK
    <2> QED
      BY <1>1, <1>2, <1>3, <1>4, <2>1, SentFacts DEF TypeOK
  <1>6. HeapFinite'
    BY <1>2, FS_EmptySet DEF HeapFinite
  <1>7. NoPacketForgotten'
    BY <1>2, <1>5, NothingBelowZero DEF NoPacketForgotten, TypeOK
  <1>8. HeapKeepsRunning'
    BY <1>3 DEF HeapKeepsRunning
  <1> QED
    BY <1>5, <1>6, <1>7, <1>8

\* Entering and leaving the loop and giving up leave the queues alone.
LEMMA PollControlKeeps ==
    ASSUME IInv, Poll \/ PollEnd \/ \E e \in send_queue : PollFails(e)
    PROVE  IInv'
  <1> USE DEF IInv
  <1>1. /\ UNCHANGED <<full_send_queue, send_queue, send_queue_indices,
                       outgoing_p_ids, issued, transmitted, ack_event,
                       init_sent, clock, caller, room>>
        /\ pc # "fill" /\ pc' \in {"idle", "poll"} /\ failed' \in BOOLEAN
        /\ \A u : Ids(u)' = Ids(u)
    BY DEF Poll, PollEnd, PollFails, queueVars, historyVars, Ids, TypeOK
  <1>2. TypeOK'
    BY <1>1 DEF TypeOK
  <1>3. NoPacketForgotten'
    BY <1>1 DEF NoPacketForgotten, Scheduled
  <1>4. HeapKeepsRunning'
    BY <1>1 DEF HeapKeepsRunning
  <1> QED
    BY <1>1, <1>2, <1>3, <1>4 DEF HeapFinite

-----------------------------------------------------------------------------
(* The theorems.                                                           *)

\* The initial state of a connection satisfies the invariant.
LEMMA InitIInv == Init => IInv
  <1> SUFFICES ASSUME Init PROVE IInv
    OBVIOUS
  <1>1. \A t \in Types : full_send_queue[t] = [p \in {} |-> {}] /\ Ids(t) = {}
    BY DEF Init, Ids
  <1>2. /\ Zero \in PartialPacketId
        /\ \A i \in {0, 1} : Part(0, i) \in PartialPacketId
    BY IdModAssumption, GenModAssumption
    DEF Zero, Part, PartialPacketId, PacketIdValue, GenerationValue
  <1>3. outgoing_p_ids \in [CommandTypes -> PartialPacketId]
    BY <1>2, ResenderAssumption DEF Init
  <1>4. TypeOK
    <2>1. /\ full_send_queue = [t \in Types |-> full_send_queue[t]]
          /\ \A t \in Types : /\ Ids(t) \subseteq issued[t]
                              /\ full_send_queue[t] \in [Ids(t) -> Record]
      BY <1>1 DEF Init
    <2>2. /\ send_queue \in SUBSET HeapEntry
          /\ send_queue_indices \in [Types -> PartialPacketId]
          /\ issued \in [Types -> SUBSET PartialPacketId]
          /\ transmitted \in [Types -> SUBSET PartialPacketId]
          /\ ack_event \in [Types -> PartialPacketId \cup {NoEvent}]
      BY <1>2 DEF Init
    <2>3. clock \in 0 .. MaxClock /\ room \in 0 .. MaxWindow
      BY ResenderAssumption DEF Init
    <2>4. /\ init_sent \in {None, 0, 2, 4}
          /\ pc \in {"idle", "poll", "fill"}
          /\ caller \in {"idle", "poll"}
          /\ failed \in BOOLEAN
      BY Zenon DEF Init
    <2> QED
      BY <1>3, <2>1, <2>2, <2>3, <2>4 DEF TypeOK
  <1>5. HeapFinite
    BY FS_EmptySet DEF Init, HeapFinite
  <1> QED
    BY <1>1, <1>4, <1>5 DEF Init, IInv, NoPacketForgotten, HeapKeepsRunning

\* Every step of the resender keeps the invariant.
LEMMA NextIInv == IInv /\ [Next]_vars => IInv'
  <1> SUFFICES ASSUME IInv, [Next]_vars PROVE IInv'
    OBVIOUS
  <1>1. ASSUME NEW t \in CommandTypes, SendCommand(t) PROVE IInv'
    <2>1. outgoing_p_ids[t] \in PartialPacketId /\ t \in Types
      BY DEF IInv, TypeOK, Types
    <2>2. EncodedId(outgoing_p_ids[t]) \in PartialPacketId
      BY <2>1, EncodedIdType
    <2>3. /\ outgoing_p_ids' \in [CommandTypes -> PartialPacketId]
          /\ init_sent' \in {None, 0, 2, 4}
      BY <1>1, <2>1, Successor DEF SendCommand, IInv, TypeOK
    <2> QED
      BY <1>1, <2>1, <2>2, <2>3, QueueKeeps DEF SendCommand
  <1>2. ASSUME NEW step \in InitSteps, SendInit(step) PROVE IInv'
    <2>1. step \in {0, 2, 4} /\ step < IdMod
      BY ResenderAssumption
    <2>2. Part(0, step) \in PartialPacketId
      BY <2>1, IdModAssumption, GenModAssumption
      DEF Part, PartialPacketId, PacketIdValue, GenerationValue
    <2>3. /\ outgoing_p_ids' \in [CommandTypes -> PartialPacketId]
          /\ init_sent' \in {None, 0, 2, 4}
      BY <1>2, <2>1 DEF SendInit, IInv, TypeOK
    <2> QED
      BY <1>2, <2>2, <2>3, QueueKeeps DEF SendInit, Types
  <1>3. ASSUME NEW t \in Types, NEW p_id, AckPacket(t, p_id) PROVE IInv'
    BY <1>3, AckPacketKeeps
  <1>4. CASE FillStep
    BY <1>4, FillStepKeeps
  <1>5. CASE FillEnd
    BY <1>5, FillEndKeeps
  <1>6. CASE Poll \/ PollEnd \/ \E e \in send_queue : PollFails(e)
    BY <1>6, PollControlKeeps
  <1>7. ASSUME NEW e \in send_queue, PollAcked(e) PROVE IInv'
    BY <1>7, PollAckedKeeps
  <1>8. ASSUME NEW e \in send_queue, PollSend(e) PROVE IInv'
    BY <1>8, PollSendKeeps
  <1>9. ASSUME NEW e \in send_queue, PollResend(e) PROVE IInv'
    BY <1>9, PollResendKeeps
  <1>10. CASE UNCHANGED vars
    <2>1. /\ UNCHANGED <<full_send_queue, send_queue, send_queue_indices,
                         outgoing_p_ids, issued, transmitted, ack_event,
                         init_sent, clock, pc, caller, room, failed>>
          /\ \A u : Ids(u)' = Ids(u)
      BY <1>10 DEF vars, queueVars, historyVars, controlVars, Ids
    <2> QED
      BY <2>1 DEF IInv, TypeOK, HeapFinite, NoPacketForgotten, Scheduled,
                  HeapKeepsRunning
  <1> QED
    BY <1>1, <1>2, <1>3, <1>4, <1>5, <1>6, <1>7, <1>8, <1>9, <1>10 DEF Next

\* The inductive invariant holds in every reachable state.
THEOREM Invariance == Spec => []IInv
  BY InitIInv, NextIInv, PTL DEF Spec

\* Every variable of the resender keeps its type, in particular every queued
\* packet id was handed out by encode_packet and every id stays in range.
THEOREM TypeCorrect == Spec => []TypeOK
  <1>1. IInv => TypeOK
    BY DEF IInv
  <1> QED
    BY <1>1, Invariance, PTL

\* No packet that waits for its ack is ever lost between the heap and the
\* iterators of fill_up_send_queue, across wraparounds and rebuilds.
THEOREM NothingForgotten == Spec => []NoPacketForgotten
  <1>1. IInv => NoPacketForgotten
    BY DEF IInv
  <1> QED
    BY <1>1, Invariance, PTL

\* Whenever no call is running and a packet waits for its ack, the heap is
\* not empty, so poll_resend sends something or arms its timer.
THEOREM ResenderNeverStalls == Spec => []NeverStalls
  <1>1. IInv => NeverStalls
    BY DEF IInv, HeapKeepsRunning, NeverStalls
  <1> QED
    BY <1>1, Invariance, PTL

-----------------------------------------------------------------------------
(***************************************************************************)
(* The order of the commands, the window and the acknowledgements.         *)
(*                                                                         *)
(* encode_packet files the last packet of a generation under the next      *)
(* generation, behind its successors; what follows therefore holds as long *)
(* as the ids of a type do not wrap.                                       *)
(***************************************************************************)

\* In the code: fewer than 2^16 commands of a type.
NoIdWraps == \A t \in CommandTypes : FirstId + MaxQueued[t] < IdMod

Start(t) == IF t = "Command" THEN FirstId ELSE 0

Rec(t, p) == full_send_queue[t][p]

NextId(t) == outgoing_p_ids[t].packet_id

UpTo(t, p) == {q \in Ids(t) : LessEq(q, p)}

\* Packets are numbered one after the other.
Numbered(t) ==
    /\ outgoing_p_ids[t] = Part(0, Start(t) + Cardinality(issued[t]))
    /\ IsFiniteSet(issued[t]) /\ Cardinality(issued[t]) <= MaxQueued[t]
    /\ \A p \in issued[t] : /\ p.generation_id = 0
                            /\ Start(t) <= p.packet_id /\ p.packet_id < NextId(t)
    /\ transmitted[t] \subseteq issued[t]

\* A queued packet is in the heap at most once, with the values of its
\* record, and then the index is behind it.
Indexed(t) ==
    /\ LessEq(send_queue_indices[t], outgoing_p_ids[t])
    /\ \A e \in send_queue : e.type = t => e.part \in issued[t]
    /\ \A e \in send_queue : (e.type = t /\ e.part \in Ids(t)) =>
           /\ Less(e.part, send_queue_indices[t])
           /\ e.last = Rec(t, e.part).last /\ e.tries = Rec(t, e.part).tries
    /\ \A e, f \in send_queue :
           (e.type = t /\ f.type = t /\ e.part = f.part /\ e.part \in Ids(t)) => e = f

\* The records of full_send_queue and the history agree.
Recorded(t) ==
    \A p \in Ids(t) :
        /\ Rec(t, p).sent <= clock
        /\ Rec(t, p).tries = 0 => Rec(t, p).last = Rec(t, p).sent
        /\ Rec(t, p).tries > 0 <=> p \in transmitted[t]

\* Packets were queued, and sent for the first time, in the order of their ids.
Ordered(t) ==
    \A p, q \in Ids(t) : Less(p, q) =>
        /\ Rec(t, p).sent < Rec(t, q).sent
        /\ Rec(t, q).tries > 0 => Rec(t, p).tries > 0

\* No packet is in flight behind a whole window of packets.
InWindow(t) == \A p \in InFlight(t) : Cardinality(UpTo(t, p)) <= MaxWindow

\* f is the first id that is not acknowledged
IsFront(t, f) ==
    \/ Ids(t) = {} /\ f = NextId(t)
    \/ Part(0, f) \in Ids(t) /\ \A q \in Ids(t) : f <= q.packet_id

\* The last AckPacket event reaches up to the first unacknowledged packet.
AckedUpTo(t) ==
    \E f \in Start(t) .. NextId(t) :
        IsFront(t, f) /\ ack_event[t] = IF f = Start(t) THEN NoEvent ELSE Part(0, f - 1)

CommandInv(t) ==
    /\ Numbered(t) /\ Indexed(t) /\ Recorded(t) /\ Ordered(t) /\ InWindow(t) /\ AckedUpTo(t)

OneInit == \A p, q \in Ids("Init") : p = q

HeapInWindow ==
    /\ Cardinality(send_queue) + room <= MaxWindow
    /\ pc # "fill" => room = 0

OrderInv == OneInit /\ HeapInWindow /\ \A t \in CommandTypes : CommandInv(t)

-----------------------------------------------------------------------------
(* Helpers.                                                                *)

\* In generation zero the order of the ids is the order of the numbers.
LEMMA ZeroOrder ==
    ASSUME NEW p \in PartialPacketId, NEW q \in PartialPacketId,
           p.generation_id = 0, q.generation_id = 0
    PROVE  /\ p = Part(0, p.packet_id) /\ p.packet_id \in Nat /\ q.packet_id \in Nat
           /\ p.packet_id < IdMod
           /\ Less(p, q) <=> p.packet_id < q.packet_id
           /\ LessEq(p, q) <=> p.packet_id <= q.packet_id
           /\ p = q <=> p.packet_id = q.packet_id
  <1>1. /\ p = Part(0, p.packet_id) /\ q = Part(0, q.packet_id)
        /\ p.packet_id \in Nat /\ q.packet_id \in Nat /\ p.packet_id < IdMod
    BY IdModAssumption DEF PartialPacketId, PacketIdValue, Part
  <1>2. p = q <=> p.packet_id = q.packet_id
    BY <1>1
  <1>3. Less(p, q) <=> p.packet_id < q.packet_id
    BY <1>1 DEF Less
  <1> QED
    BY <1>1, <1>2, <1>3 DEF LessEq

\* A part of an image of a finite set is no larger than the set.
LEMMA ImagePart ==
    ASSUME NEW S, IsFiniteSet(S), NEW f, DOMAIN f = S, NEW T,
           \A y \in T : \E x \in S : f[x] = y
    PROVE  IsFiniteSet(T) /\ Cardinality(T) <= Cardinality(S)
  <1> DEFINE R == {f[x] : x \in S}
             g == [x \in S |-> f[x]]
  <1>1. g \in Surjection(S, R)
    BY DEF Surjection
  <1>2. IsFiniteSet(R) /\ Cardinality(R) <= Cardinality(S)
    BY <1>1, FS_Surjection
  <1>3. T \in SUBSET R
    OBVIOUS
  <1>4. IsFiniteSet(T) /\ Cardinality(T) <= Cardinality(R)
    BY <1>2, <1>3, FS_Subset
  <1> QED
    BY <1>2, <1>4, FS_CardinalityType

\* One more element makes a finite set at most one larger.
LEMMA OneMore ==
    ASSUME NEW S, IsFiniteSet(S), NEW x
    PROVE  /\ IsFiniteSet(S \cup {x}) /\ Cardinality(S \cup {x}) \in Nat
           /\ Cardinality(S) \in Nat /\ Cardinality(S \cup {x}) <= Cardinality(S) + 1
  <1>1. /\ IsFiniteSet(S \cup {x})
        /\ Cardinality(S \cup {x}) = IF x \in S THEN Cardinality(S) ELSE Cardinality(S) + 1
    BY FS_AddElement
  <1>2. Cardinality(S) \in Nat
    BY FS_CardinalityType
  <1> QED
    BY <1>1, <1>2

\* What the invariant says of a queued command.
LEMMA QueuedFacts ==
    ASSUME IInv, NEW t \in CommandTypes, Numbered(t)
    PROVE  /\ t \in Types /\ t # "Init" /\ Start(t) \in Nat /\ Start(t) <= FirstId
           /\ MaxQueued[t] \in Nat /\ Cardinality(issued[t]) \in Nat
           /\ NextId(t) = Start(t) + Cardinality(issued[t])
           /\ NextId(t) \in Nat /\ NextId(t) <= Start(t) + MaxQueued[t]
           /\ outgoing_p_ids[t] \in PartialPacketId
           /\ outgoing_p_ids[t].generation_id = 0
           /\ outgoing_p_ids[t] = Part(0, NextId(t))
           /\ issued[t] \subseteq PartialPacketId
           /\ \A p \in issued[t] : /\ p.generation_id = 0 /\ p.packet_id \in Nat
                                   /\ Start(t) <= p.packet_id /\ p.packet_id < NextId(t)
           /\ Ids(t) \subseteq issued[t] /\ IsFiniteSet(Ids(t))
           /\ \A p \in Ids(t) : Rec(t, p) \in Record
           /\ send_queue_indices[t] \in PartialPacketId
  <1>1. /\ t \in Types /\ t # "Init" /\ Start(t) \in Nat /\ Start(t) <= FirstId
        /\ MaxQueued[t] \in Nat
    BY ResenderAssumption DEF CommandTypes, Types, Start
  <1>2. /\ IsFiniteSet(issued[t]) /\ Cardinality(issued[t]) \in Nat
        /\ Cardinality(issued[t]) <= MaxQueued[t]
    BY FS_CardinalityType DEF Numbered
  <1>3. /\ outgoing_p_ids[t].generation_id = 0
        /\ NextId(t) = Start(t) + Cardinality(issued[t])
        /\ outgoing_p_ids[t] = Part(0, NextId(t))
    BY DEF Numbered, NextId, Part
  <1>4. /\ outgoing_p_ids[t] \in PartialPacketId /\ send_queue_indices[t] \in PartialPacketId
        /\ issued[t] \subseteq PartialPacketId /\ Ids(t) \subseteq issued[t]
    BY <1>1 DEF IInv, TypeOK
  <1>5. \A p \in Ids(t) : Rec(t, p) \in Record
    BY <1>1 DEF IInv, TypeOK, Rec
  <1>6. IsFiniteSet(Ids(t))
    BY <1>2, <1>4, FS_Subset
  <1>7. \A p \in issued[t] : /\ p.generation_id = 0 /\ p.packet_id \in Nat
                             /\ Start(t) <= p.packet_id /\ p.packet_id < NextId(t)
    BY <1>4 DEF Numbered, PartialPacketId, PacketIdValue
  <1> QED
    BY <1>1, <1>2, <1>3, <1>4, <1>5, <1>6, <1>7

\* A type that an action does not touch keeps its part of the invariant.
LEMMA Untouched ==
    ASSUME IInv, NEW t \in CommandTypes, CommandInv(t),
           full_send_queue'[t] = full_send_queue[t],
           outgoing_p_ids'[t] = outgoing_p_ids[t],
           issued'[t] = issued[t], transmitted'[t] = transmitted[t],
           ack_event'[t] = ack_event[t],
           send_queue_indices'[t] = send_queue_indices[t],
           \A e \in send_queue' : e.type = t => e \in send_queue,
           clock' \in Nat, clock <= clock'
    PROVE  CommandInv(t)'
  <1>1. /\ Ids(t)' = Ids(t) /\ NextId(t)' = NextId(t) /\ \A p : Rec(t, p)' = Rec(t, p)
        /\ InFlight(t)' = InFlight(t) /\ \A p : UpTo(t, p)' = UpTo(t, p)
    BY DEF Ids, NextId, Rec, InFlight, UpTo
  <1>2. Numbered(t)'
    BY <1>1 DEF CommandInv, Numbered
  <1>3. Indexed(t)'
    BY <1>1 DEF CommandInv, Indexed
  <1>4. Recorded(t)'
    <2>1. clock \in Nat /\ \A p \in Ids(t) : Rec(t, p).sent \in Nat
      BY QueuedFacts DEF CommandInv, Record, IInv, TypeOK
    <2> QED
      BY <1>1, <2>1 DEF CommandInv, Recorded
  <1>5. Ordered(t)' /\ InWindow(t)'
    BY <1>1 DEF CommandInv, Ordered, InWindow
  <1>6. AckedUpTo(t)'
    BY <1>1 DEF CommandInv, AckedUpTo, IsFront
  <1> QED
    BY <1>2, <1>3, <1>4, <1>5, <1>6 DEF CommandInv

\* The loop of fill_up_send_queue does not let the heap outgrow the window.
LEMMA StartFillFits ==
    ASSUME NEW size \in Nat, size <= MaxWindow, NEW returnTo, StartFill(size, returnTo)
    PROVE  size + room' <= MaxWindow /\ pc' = "fill"
  BY ResenderAssumption DEF StartFill

-----------------------------------------------------------------------------
(* Resender::send_packet keeps the order.                                  *)

\* A new command gets the next number and a fresh record.
LEMMA SendFacts ==
    ASSUME NoIdWraps, IInv, OrderInv, NEW t \in CommandTypes, SendCommand(t),
           NEW n, n = NextId(t), NEW p, p = EncodedId(outgoing_p_ids[t])
    PROVE  /\ n \in Nat /\ n + 1 <= Start(t) + MaxQueued[t] /\ n + 1 < IdMod
           /\ p.generation_id = 0 /\ p.packet_id = n /\ p \in PartialPacketId
           /\ p = outgoing_p_ids[t] /\ p = Part(0, n)
           /\ outgoing_p_ids'[t] = Part(0, n + 1) /\ NextId(t)' = n + 1
           /\ issued'[t] = issued[t] \cup {p} /\ transmitted'[t] = transmitted[t]
           /\ send_queue' = send_queue /\ ack_event'[t] = ack_event[t]
           /\ clock' = clock + 1 /\ clock \in Nat
           /\ \A q \in issued[t] : q.packet_id < n /\ q # p /\ Less(q, p)
           /\ p \notin issued[t] /\ p \notin Ids(t) /\ p \notin transmitted[t]
           /\ Ids(t)' = Ids(t) \cup {p}
           /\ Rec(t, p)' = [sent |-> clock + 1, last |-> clock + 1, tries |-> 0]
           /\ \A q \in Ids(t) : Rec(t, q)' = Rec(t, q)
  <1> DEFINE r == [sent |-> clock + 1, last |-> clock + 1, tries |-> 0]
  <1>1. CommandInv(t) /\ Numbered(t) /\ Indexed(t)
    BY DEF OrderInv, CommandInv
  <1>2. /\ Queue(t, p)
        /\ Cardinality(issued[t]) < MaxQueued[t]
        /\ outgoing_p_ids' = [outgoing_p_ids EXCEPT ![t] = Plus(@, 1)]
    BY DEF SendCommand
  <1>3. n \in Nat /\ n + 1 <= Start(t) + MaxQueued[t] /\ n + 1 < IdMod
    BY <1>1, <1>2, QueuedFacts, IdModAssumption, ResenderAssumption DEF NoIdWraps
  <1>4. /\ Plus(outgoing_p_ids[t], 1) = Part(0, n + 1) /\ p = Part(0, n)
    <2>1. (n + 1) % IdMod = n + 1
      BY <1>3, IdModAssumption
    <2>2. outgoing_p_ids[t].packet_id = n /\ outgoing_p_ids[t].generation_id = 0
      BY <1>1, QueuedFacts DEF NextId
    <2>3. Plus(outgoing_p_ids[t], 1) = Part(0, n + 1)
      BY <1>3, <2>1, <2>2, IdModAssumption DEF Plus
    <2>4. Plus(outgoing_p_ids[t], 1).generation_id = 0
      BY <2>3 DEF Part
    <2> QED
      BY <2>2, <2>3, <2>4 DEF EncodedId
  <1>5. /\ p.generation_id = 0 /\ p.packet_id = n /\ p \in PartialPacketId
        /\ p = outgoing_p_ids[t]
    <2>1. p = outgoing_p_ids[t] /\ outgoing_p_ids[t] \in PartialPacketId
      BY <1>1, <1>4, QueuedFacts
    <2> QED
      BY <1>4, <2>1 DEF Part
  <1>6. /\ outgoing_p_ids'[t] = Part(0, n + 1) /\ NextId(t)' = n + 1
        /\ issued'[t] = issued[t] \cup {p} /\ transmitted'[t] = transmitted[t]
        /\ send_queue' = send_queue /\ ack_event'[t] = ack_event[t]
        /\ clock' = clock + 1 /\ clock \in Nat
    <2>1. outgoing_p_ids'[t] = Part(0, n + 1)
      BY <1>2, <1>4 DEF IInv, TypeOK
    <2>2. issued'[t] = issued[t] \cup {p}
      BY <1>1, <1>2, QueuedFacts DEF IInv, TypeOK, Queue
    <2>3. NextId(t)' = n + 1
      BY <2>1 DEF NextId, Part
    <2> QED
      BY <1>2, <2>1, <2>2, <2>3 DEF Queue, IInv, TypeOK
  <1>7. /\ \A q \in issued[t] : q.packet_id < n /\ q # p /\ Less(q, p)
        /\ p \notin issued[t] /\ p \notin Ids(t) /\ p \notin transmitted[t]
    <2>1. ASSUME NEW q \in issued[t] PROVE q.packet_id < n /\ q # p /\ Less(q, p)
      BY <1>1, <1>5, QueuedFacts, ZeroOrder
    <2> QED
      BY <1>1, <2>1, QueuedFacts DEF Numbered
  <1>8. /\ Ids(t)' = Ids(t) \cup {p} /\ Rec(t, p)' = r
        /\ \A q \in Ids(t) : Rec(t, q)' = Rec(t, q)
    <2>1. t \in Types
      BY <1>1, QueuedFacts
    <2>2. full_send_queue'[t] = Insert(full_send_queue[t], p, r)
      BY <1>2, <2>1 DEF Queue, IInv, TypeOK
    <2> QED
      BY <1>7, <2>2 DEF Insert, Ids, Rec
  <1> QED
    BY <1>3, <1>4, <1>5, <1>6, <1>7, <1>8

\* A new command gets the next number and goes behind everything queued.
LEMMA SendKeepsOrder ==
    ASSUME NoIdWraps, IInv, IInv', OrderInv, NEW t \in CommandTypes, SendCommand(t)
    PROVE  CommandInv(t)'
  <1>a. PICK n : n = NextId(t)
    OBVIOUS
  <1>b. PICK p : p = EncodedId(outgoing_p_ids[t])
    OBVIOUS
  <1> DEFINE r == [sent |-> clock + 1, last |-> clock + 1, tries |-> 0]
  <1>1. CommandInv(t) /\ Numbered(t) /\ Indexed(t)
    BY DEF OrderInv, CommandInv
  <1>2. Queue(t, p) /\ Cardinality(issued[t]) < MaxQueued[t]
    BY <1>b DEF SendCommand
  <1>3. n \in Nat /\ n + 1 <= Start(t) + MaxQueued[t] /\ n + 1 < IdMod
    BY <1>a, <1>b, SendFacts
  <1>5. /\ p.generation_id = 0 /\ p.packet_id = n /\ p \in PartialPacketId
        /\ p = outgoing_p_ids[t] /\ p = Part(0, n)
    BY <1>a, <1>b, SendFacts
  <1>6. /\ outgoing_p_ids'[t] = Part(0, n + 1) /\ NextId(t)' = n + 1
        /\ issued'[t] = issued[t] \cup {p} /\ transmitted'[t] = transmitted[t]
        /\ send_queue' = send_queue /\ ack_event'[t] = ack_event[t]
        /\ clock' = clock + 1 /\ clock \in Nat
    BY <1>a, <1>b, SendFacts
  <1>7. /\ \A q \in issued[t] : q.packet_id < n /\ q # p /\ Less(q, p)
        /\ p \notin issued[t] /\ p \notin Ids(t) /\ p \notin transmitted[t]
    BY <1>a, <1>b, SendFacts
  <1>8. /\ Ids(t)' = Ids(t) \cup {p} /\ Rec(t, p)' = r
        /\ \A q \in Ids(t) : Rec(t, q)' = Rec(t, q)
    BY <1>a, <1>b, SendFacts
  <1>9. Numbered(t)'
    <2>1. /\ IsFiniteSet(issued'[t]) /\ Cardinality(issued'[t]) = Cardinality(issued[t]) + 1
      <3> DEFINE S == issued[t]
      <3>1. IsFiniteSet(S) /\ p \notin S
        BY <1>1, <1>7 DEF Numbered
      <3> HIDE DEF S
      <3>2. IsFiniteSet(S \cup {p}) /\ Cardinality(S \cup {p}) = Cardinality(S) + 1
        BY <3>1, FS_AddElement
      <3> QED
        BY <1>6, <3>2 DEF S
    <2>2. n = Start(t) + Cardinality(issued[t]) /\ Cardinality(issued[t]) \in Nat /\ Start(t) \in Nat
      BY <1>1, <1>a, QueuedFacts
    <2>3. Cardinality(issued'[t]) <= MaxQueued[t]
      BY <1>2, <1>3, <2>1, <2>2, QueuedFacts, <1>1
    <2>4. n + 1 = Start(t) + Cardinality(issued'[t])
      BY <2>1, <2>2
    <2>5. ASSUME NEW q \in issued'[t]
          PROVE  /\ q.generation_id = 0 /\ Start(t) <= q.packet_id /\ q.packet_id < n + 1
      <3>1. CASE q = p
        BY <1>3, <1>5, <2>2, <3>1
      <3>2. CASE q \in issued[t]
        BY <1>1, <1>3, <1>7, <3>2, QueuedFacts
      <3> QED
        BY <1>6, <3>1, <3>2
    <2>6. transmitted'[t] \subseteq issued'[t]
      BY <1>1, <1>6 DEF Numbered
    <2> QED
      BY <1>6, <2>1, <2>3, <2>4, <2>5, <2>6 DEF Numbered, Start
  <1>10. send_queue_indices'[t] = send_queue_indices[t]
    <2>1. ~Less(p, send_queue_indices[t])
      BY <1>1, <1>5, QueuedFacts, LessOrder DEF Indexed, LessEq
    <2>2. send_queue_indices'[t] = LoweredIndex(t, p)
      BY <1>1, <1>2, QueuedFacts DEF Queue, IInv, TypeOK
    <2> QED
      BY <2>1, <2>2 DEF LoweredIndex
  <1>11. Indexed(t)'
    <2>1. LessEq(send_queue_indices'[t], outgoing_p_ids'[t])
      <3>1. /\ LessEq(send_queue_indices[t], p) /\ send_queue_indices[t] \in PartialPacketId
            /\ Less(p, outgoing_p_ids'[t]) /\ outgoing_p_ids'[t] \in PartialPacketId
        <4>1. outgoing_p_ids'[t] \in PartialPacketId
          BY DEF IInv, TypeOK
        <4>2. /\ outgoing_p_ids'[t].packet_id = n + 1 /\ outgoing_p_ids'[t].generation_id = 0
          BY <1>6 DEF Part
        <4> QED
          BY <1>1, <1>3, <1>5, <4>1, <4>2, QueuedFacts, ZeroOrder DEF Indexed
      <3> QED
        BY <1>5, <1>10, <3>1, LessOrder DEF LessEq
    <2>2. \A e \in send_queue : (e.type = t /\ e.part \in Ids(t)') => e.part \in Ids(t)
      BY <1>1, <1>7, <1>8 DEF Indexed
    <2> QED
      BY <1>1, <1>6, <1>8, <1>10, <2>1, <2>2 DEF Indexed
  <1>12. Recorded(t)'
    <2>1. \A q \in Ids(t) : Rec(t, q).sent \in Nat
      BY <1>1, QueuedFacts DEF Record
    <2>2. \A q \in Ids(t) : Rec(t, q).sent <= clock
      BY <1>1 DEF CommandInv, Recorded
    <2>3. r.sent = clock + 1 /\ r.last = clock + 1 /\ r.tries = 0
      OBVIOUS
    <2> HIDE DEF r
    <2>4. ASSUME NEW q \in Ids(t)'
          PROVE  /\ Rec(t, q)'.sent <= clock'
                 /\ Rec(t, q)'.tries = 0 => Rec(t, q)'.last = Rec(t, q)'.sent
                 /\ Rec(t, q)'.tries > 0 <=> q \in transmitted'[t]
      <3>1. CASE q = p
        BY <1>6, <1>7, <1>8, <2>3, <3>1
      <3>2. CASE q \in Ids(t)
        BY <1>1, <1>6, <1>8, <2>1, <2>2, <3>2 DEF CommandInv, Recorded
      <3> QED
        BY <1>8, <3>1, <3>2
    <2> QED
      BY <2>4 DEF Recorded
  <1>13. Ordered(t)'
    <2>1. \A q \in Ids(t) : Rec(t, q).sent \in Nat /\ Rec(t, q).sent <= clock
      BY <1>1, QueuedFacts DEF Record, CommandInv, Recorded
    <2>2. r.sent = clock + 1 /\ r.tries = 0
      OBVIOUS
    <2> HIDE DEF r
    <2>3. ASSUME NEW a \in Ids(t)', NEW b \in Ids(t)', Less(a, b)
          PROVE  /\ Rec(t, a)'.sent < Rec(t, b)'.sent
                 /\ Rec(t, b)'.tries > 0 => Rec(t, a)'.tries > 0
      <3>1. a # p
        BY <1>1, <1>5, <1>7, <1>8, <2>3, QueuedFacts, LessOrder
      <3>2. a \in Ids(t)
        BY <1>8, <3>1
      <3>3. CASE b = p
        BY <1>6, <1>8, <2>1, <2>2, <3>2, <3>3
      <3>4. CASE b \in Ids(t)
        BY <1>1, <1>8, <2>3, <3>2, <3>4 DEF CommandInv, Ordered
      <3> QED
        BY <1>8, <3>3, <3>4
    <2> QED
      BY <2>3 DEF Ordered
  <1>14. InWindow(t)'
    <2>1. InFlight(t)' = {q \in Ids(t)' : Rec(t, q)'.tries > 0}
      BY DEF InFlight, Rec
    <2>2. r.tries = 0
      OBVIOUS
    <2> HIDE DEF r
    <2>3. ASSUME NEW q \in InFlight(t)'
          PROVE  Cardinality(UpTo(t, q)') <= MaxWindow
      <3>1. q \in Ids(t) /\ Rec(t, q).tries > 0
        BY <1>8, <2>1, <2>2
      <3>2. q \in InFlight(t)
        BY <3>1 DEF InFlight, Rec
      <3>3. UpTo(t, q)' = UpTo(t, q)
        <4>1. ~LessEq(p, q)
          BY <1>1, <1>5, <1>7, <3>1, QueuedFacts, LessOrder DEF LessEq
        <4>2. UpTo(t, q)' = {a \in Ids(t)' : LessEq(a, q)}
          BY DEF UpTo
        <4> QED
          BY <1>8, <4>1, <4>2 DEF UpTo
      <3> QED
        BY <1>1, <3>2, <3>3 DEF CommandInv, InWindow
    <2> QED
      BY <2>3 DEF InWindow
  <1>15. AckedUpTo(t)'
    <2>1. PICK f \in Start(t) .. NextId(t) :
              IsFront(t, f) /\ ack_event[t] = IF f = Start(t) THEN NoEvent ELSE Part(0, f - 1)
      BY <1>1 DEF CommandInv, AckedUpTo
    <2>2. f \in Start(t) .. n + 1 /\ f <= n /\ f \in Nat
      BY <1>1, <1>3, <1>a, QueuedFacts
    <2>3. Part(0, f) \in Ids(t)' /\ \A q \in Ids(t)' : f <= q.packet_id
      <3>1. CASE Ids(t) = {}
        <4>1. f = n
          BY <1>a, <2>1, <3>1 DEF IsFront
        <4> QED
          BY <1>3, <1>5, <1>8, <3>1, <4>1
      <3>2. CASE Ids(t) # {}
        BY <1>5, <1>8, <2>1, <2>2, <3>2 DEF IsFront
      <3> QED
        BY <3>1, <3>2
    <2>4. IsFront(t, f)'
      BY <2>3 DEF IsFront
    <2> QED
      BY <1>6, <2>1, <2>2, <2>4 DEF AckedUpTo, Start
  <1> QED
    BY <1>9, <1>11, <1>12, <1>13, <1>14, <1>15 DEF CommandInv

\* Queueing fills the heap up to the window.
LEMMA QueueKeepsHeap ==
    ASSUME IInv, HeapInWindow, NEW t, NEW p, Queue(t, p)
    PROVE  HeapInWindow'
  <1>1. Cardinality(send_queue) \in Nat /\ send_queue' = send_queue
    BY FS_CardinalityType DEF IInv, HeapFinite, Queue
  <1>2. Cardinality(send_queue) <= MaxWindow
    BY <1>1, ResenderAssumption DEF HeapInWindow, IInv, TypeOK
  <1>3. /\ Cardinality(send_queue) + room' <= MaxWindow /\ pc' = "fill"
    BY <1>1, <1>2, StartFillFits DEF Queue
  <1> QED
    BY <1>1, <1>3 DEF HeapInWindow

\* Connection::send_packet with a command keeps the order.
LEMMA SendCommandKeepsOrder ==
    ASSUME NoIdWraps, IInv, IInv', OrderInv, NEW t \in CommandTypes, SendCommand(t)
    PROVE  OrderInv'
  <1>1. Queue(t, EncodedId(outgoing_p_ids[t])) /\ t \in Types /\ t # "Init"
    BY DEF SendCommand, CommandTypes, Types
  <1>2. HeapInWindow'
    BY <1>1, QueueKeepsHeap DEF OrderInv
  <1>3. Ids("Init")' = Ids("Init")
    BY <1>1 DEF Ids, Queue, IInv, TypeOK, Types
  <1>4. ASSUME NEW u \in CommandTypes, u # t PROVE CommandInv(u)'
    <2>1. /\ u \in Types /\ full_send_queue'[u] = full_send_queue[u]
          /\ issued'[u] = issued[u] /\ transmitted'[u] = transmitted[u]
          /\ ack_event'[u] = ack_event[u]
          /\ send_queue_indices'[u] = send_queue_indices[u]
          /\ send_queue' = send_queue /\ clock' = clock + 1 /\ clock \in Nat
      BY <1>1, <1>4 DEF Queue, IInv, TypeOK, Types
    <2>2. outgoing_p_ids'[u] = outgoing_p_ids[u]
      BY <1>4 DEF SendCommand, IInv, TypeOK
    <2>3. clock' \in Nat /\ clock <= clock'
      BY <2>1
    <2> QED
      BY <2>1, <2>2, <2>3, Untouched DEF OrderInv
  <1>5. CommandInv(t)'
    BY SendKeepsOrder
  <1>6. \A u \in CommandTypes : CommandInv(u)'
    BY <1>4, <1>5
  <1> QED
    BY <1>2, <1>3, <1>6 DEF OrderInv, OneInit

\* An Init packet is queued when no other one is, and touches no command.
LEMMA SendInitKeepsOrder ==
    ASSUME IInv, IInv', OrderInv, NEW step \in InitSteps, SendInit(step)
    PROVE  OrderInv'
  <1>1. /\ Queue("Init", Part(0, step)) /\ Ids("Init") = {} /\ "Init" \in Types
        /\ outgoing_p_ids' = outgoing_p_ids
    BY DEF SendInit, Types
  <1>2. HeapInWindow'
    BY <1>1, QueueKeepsHeap DEF OrderInv
  <1>3. Ids("Init")' \subseteq {Part(0, step)}
    <2>1. full_send_queue'["Init"] = Insert(full_send_queue["Init"], Part(0, step),
              [sent |-> clock + 1, last |-> clock + 1, tries |-> 0])
      BY <1>1 DEF Queue, IInv, TypeOK
    <2> QED
      BY <1>1, <2>1 DEF Ids, Insert
  <1>4. ASSUME NEW u \in CommandTypes PROVE CommandInv(u)'
    <2>1. /\ u \in Types /\ u # "Init" /\ full_send_queue'[u] = full_send_queue[u]
          /\ issued'[u] = issued[u] /\ transmitted'[u] = transmitted[u]
          /\ ack_event'[u] = ack_event[u]
          /\ send_queue_indices'[u] = send_queue_indices[u]
          /\ send_queue' = send_queue /\ clock' = clock + 1 /\ clock \in Nat
      BY <1>1 DEF Queue, IInv, TypeOK, Types, CommandTypes
    <2>2. clock' \in Nat /\ clock <= clock'
      BY <2>1
    <2> QED
      BY <1>1, <2>1, <2>2, Untouched DEF OrderInv
  <1> QED
    BY <1>2, <1>3, <1>4 DEF OrderInv, OneInit

-----------------------------------------------------------------------------
(* Resender::ack_packet keeps the order.                                   *)

\* The record that an ack removes; only an ack of the first one moves the
\* front, and its event names the packet before the new front.
LEMMA AckKeepsOrder ==
    ASSUME NoIdWraps, IInv, IInv', OrderInv, NEW t \in CommandTypes, NEW p_id,
           AckPacket(t, p_id)
    PROVE  CommandInv(t)'
  <1>1. /\ CommandInv(t) /\ Numbered(t) /\ Indexed(t) /\ t \in Types /\ t # "Init"
        /\ issued[t] \subseteq PartialPacketId /\ Ids(t) \subseteq issued[t]
        /\ Ids(t) \subseteq PartialPacketId
        /\ \A p \in Ids(t) : p.generation_id = 0 /\ p.packet_id \in Nat
    BY QueuedFacts DEF OrderInv, CommandInv
  <1>2. PICK first \in Ids(t) :
            /\ IsFirst(first, Ids(t))
            /\ ack_event' = IF first.packet_id = p_id
                            THEN [ack_event EXCEPT ![t] = Minus(AckedBefore(t, first), 1)]
                            ELSE ack_event
            /\ full_send_queue' = [full_send_queue EXCEPT ![t] =
                                       Remove(@, AckedKey(first, p_id))]
    BY DEF AckPacket
  <1>3. /\ UNCHANGED <<send_queue, send_queue_indices, outgoing_p_ids, issued,
                       transmitted, init_sent, clock, pc, caller, room, failed>>
    BY DEF AckPacket, historyVars, controlVars
  <1>4. PICK key : key = AckedKey(first, p_id)
    OBVIOUS
  <1>5. /\ Ids(t)' = Ids(t) \ {key} /\ NextId(t)' = NextId(t)
        /\ \A q \in Ids(t)' : Rec(t, q)' = Rec(t, q)
    <2>1. full_send_queue'[t] = Remove(full_send_queue[t], key)
      BY <1>1, <1>2, <1>4 DEF IInv, TypeOK
    <2> QED
      BY <1>3, <2>1 DEF Remove, Ids, Rec, NextId
  <1>6. Numbered(t)'
    BY <1>1, <1>3, <1>5 DEF Numbered
  <1>7. Indexed(t)'
    BY <1>1, <1>3, <1>5 DEF Indexed
  <1>8. Recorded(t)' /\ Ordered(t)'
    BY <1>1, <1>3, <1>5 DEF CommandInv, Recorded, Ordered
  <1>9. InWindow(t)'
    <2>1. ASSUME NEW q \in InFlight(t)' PROVE Cardinality(UpTo(t, q)') <= MaxWindow
      <3>1. q \in Ids(t)' /\ Rec(t, q)'.tries > 0
        BY DEF InFlight, Rec
      <3>2. q \in InFlight(t)
        BY <1>5, <3>1 DEF InFlight, Rec
      <3>3. UpTo(t, q)' \in SUBSET UpTo(t, q)
        <4>1. UpTo(t, q)' = {a \in Ids(t)' : LessEq(a, q)}
          BY DEF UpTo
        <4> QED
          BY <1>5, <4>1 DEF UpTo
      <3>4. UpTo(t, q) \in SUBSET Ids(t) /\ IsFiniteSet(Ids(t))
        BY <1>1, QueuedFacts DEF UpTo
      <3>5. IsFiniteSet(UpTo(t, q))
        BY <3>4, FS_Subset
      <3>6. /\ IsFiniteSet(UpTo(t, q)') /\ Cardinality(UpTo(t, q)') <= Cardinality(UpTo(t, q))
        BY <3>3, <3>5, FS_Subset
      <3>7. Cardinality(UpTo(t, q)) <= MaxWindow
        BY <1>1, <3>2 DEF CommandInv, InWindow
      <3> QED
        BY <3>5, <3>6, <3>7, FS_CardinalityType, ResenderAssumption
    <2> QED
      BY <2>1 DEF InWindow
  <1>10. /\ first.packet_id \in Nat /\ first = Part(0, first.packet_id)
         /\ \A q \in Ids(t) : first.packet_id <= q.packet_id
    BY <1>1, <1>2, ZeroOrder DEF IsFirst
  <1>11. PICK f \in Start(t) .. NextId(t) :
            IsFront(t, f) /\ ack_event[t] = IF f = Start(t) THEN NoEvent ELSE Part(0, f - 1)
    BY <1>1 DEF CommandInv, AckedUpTo
  <1>12. f = first.packet_id /\ f \in Nat
    <2>1. Part(0, f) \in Ids(t) /\ f <= first.packet_id
      BY <1>2, <1>11 DEF IsFront
    <2>2. Part(0, f).packet_id = f
      BY DEF Part
    <2>3. f \in Nat /\ first.packet_id <= f
      BY <1>1, <1>10, <2>1, <2>2
    <2> QED
      BY <1>10, <2>1, <2>3
  <1>13. AckedUpTo(t)'
    <2>1. CASE first.packet_id # p_id
      <3>1. key.packet_id = p_id
        BY <1>4, <2>1 DEF AckedKey, Part
      <3>2. key # first
        BY <2>1, <3>1
      <3>3. first \in Ids(t)' /\ \A q \in Ids(t)' : first.packet_id <= q.packet_id
        BY <1>2, <1>5, <1>10, <3>2
      <3>4. IsFront(t, f)'
        BY <1>10, <1>12, <3>3 DEF IsFront
      <3> QED
        BY <1>2, <1>5, <1>11, <2>1, <3>4 DEF AckedUpTo
    <2>2. CASE first.packet_id = p_id
      <3> DEFINE rest == Ids(t) \ {first}
      <3>1. Ids(t)' = rest
        BY <1>4, <1>5, <2>2 DEF AckedKey
      <3>2. PICK g : g = AckedBefore(t, first).packet_id
        OBVIOUS
      <3>3. /\ AckedBefore(t, first) = Part(0, g) /\ g \in Nat /\ g <= NextId(t)
            /\ f < g /\ g < IdMod
            /\ IsFront(t, g)'
        <4>1. CASE rest # {}
          <5>1. PICK p \in rest : IsFirst(p, rest)
            BY <1>1, <4>1, FirstExists
          <5>2. AckedBefore(t, first) \in rest /\ IsFirst(AckedBefore(t, first), rest)
            BY <4>1, <5>1 DEF AckedBefore
          <5>3. PICK b : b = AckedBefore(t, first)
            OBVIOUS
          <5>4. /\ b \in rest /\ b \in PartialPacketId /\ b.generation_id = 0
                /\ b.packet_id = g /\ g \in Nat /\ \A q \in rest : LessEq(b, q)
            BY <1>1, <3>2, <5>2, <5>3 DEF IsFirst
          <5>5. b = Part(0, g) /\ g < IdMod /\ \A q \in rest : g <= q.packet_id
            BY <1>1, <5>4, ZeroOrder
          <5>6. g < NextId(t)
            BY <1>1, <5>4, QueuedFacts
          <5>7. f < g
            BY <1>1, <1>2, <1>10, <1>12, <5>4, ZeroOrder
          <5>8. IsFront(t, g)'
            BY <3>1, <5>4, <5>5 DEF IsFront
          <5> QED
            BY <1>1, <5>3, <5>4, <5>5, <5>6, <5>7, <5>8, QueuedFacts
        <4>2. CASE rest = {}
          <5>1. AckedBefore(t, first) = outgoing_p_ids[t]
            BY <1>1, <4>2 DEF AckedBefore
          <5>2. g = NextId(t) /\ outgoing_p_ids[t] = Part(0, g) /\ g \in Nat
            BY <1>1, <3>2, <5>1, QueuedFacts DEF NextId
          <5>3. g < IdMod
            <6>1. outgoing_p_ids[t] \in PartialPacketId
              BY <1>1, QueuedFacts
            <6> QED
              BY <5>2, <6>1, IdModAssumption DEF Part, PartialPacketId, PacketIdValue
          <5>4. f < g
            BY <1>1, <1>2, <1>12, <5>2, QueuedFacts
          <5>5. IsFront(t, g)'
            BY <1>5, <3>1, <4>2, <5>2 DEF IsFront
          <5> QED
            BY <5>1, <5>2, <5>3, <5>4, <5>5
        <4> QED
          BY <4>1, <4>2
      <3>4. Minus(AckedBefore(t, first), 1) = Part(0, g - 1)
        <4>1. g >= 1 /\ (g - 1) % IdMod = g - 1
          BY <1>12, <3>3, IdModAssumption
        <4>2. Part(0, g).packet_id = g /\ Part(0, g).generation_id = 0
          BY DEF Part
        <4> QED
          BY <3>3, <4>1, <4>2 DEF Minus
      <3>5. ack_event'[t] = Part(0, g - 1)
        BY <1>1, <1>2, <2>2, <3>4 DEF IInv, TypeOK
      <3>6. g # Start(t) /\ g \in Start(t) .. NextId(t)
        BY <1>1, <1>12, <3>3, QueuedFacts
      <3> QED
        BY <1>5, <3>3, <3>5, <3>6 DEF AckedUpTo, Start
    <2> QED
      BY <2>1, <2>2
  <1> QED
    BY <1>6, <1>7, <1>8, <1>9, <1>13 DEF CommandInv

\* ack_packet on any queue.
LEMMA AckPacketKeepsOrder ==
    ASSUME NoIdWraps, IInv, IInv', OrderInv, NEW t \in Types, NEW p_id,
           AckPacket(t, p_id)
    PROVE  OrderInv'
  <1>1. /\ UNCHANGED <<send_queue, send_queue_indices, outgoing_p_ids, issued,
                       transmitted, init_sent, clock, pc, caller, room, failed>>
    BY DEF AckPacket, historyVars, controlVars
  <1>2. PICK first \in Ids(t) :
            /\ ack_event' = IF first.packet_id = p_id
                            THEN [ack_event EXCEPT ![t] = Minus(AckedBefore(t, first), 1)]
                            ELSE ack_event
            /\ full_send_queue' = [full_send_queue EXCEPT ![t] =
                                       Remove(@, AckedKey(first, p_id))]
    BY DEF AckPacket
  <1>3. /\ \A u \in Types : u # t => /\ full_send_queue'[u] = full_send_queue[u]
                                     /\ ack_event'[u] = ack_event[u]
        /\ full_send_queue'[t] = Remove(full_send_queue[t], AckedKey(first, p_id))
    BY <1>2 DEF IInv, TypeOK
  <1>4. HeapInWindow'
    BY <1>1 DEF OrderInv, HeapInWindow
  <1>5. OneInit'
    <2>1. Ids("Init")' \subseteq Ids("Init")
      BY <1>3 DEF Types, Ids, Remove
    <2> QED
      BY <2>1 DEF OrderInv, OneInit
  <1>6. ASSUME NEW u \in CommandTypes PROVE CommandInv(u)'
    <2>1. CASE u = t
      BY <2>1, AckKeepsOrder
    <2>2. CASE u # t
      <3>1. clock' \in Nat /\ clock <= clock' /\ u \in Types
        BY <1>1, ResenderAssumption DEF IInv, TypeOK, Types
      <3> QED
        BY <1>1, <1>3, <2>2, <3>1, Untouched DEF OrderInv
    <2> QED
      BY <2>1, <2>2
  <1> QED
    BY <1>4, <1>5, <1>6 DEF OrderInv

-----------------------------------------------------------------------------
(* Resender::fill_up_send_queue keeps the order.                           *)

\* A packet enters the heap once: its index then is behind it.
LEMMA FillKeepsOrder ==
    ASSUME NoIdWraps, IInv, IInv', OrderInv, FillStep PROVE OrderInv'
  <1>1. PICK t \in Types : \E p \in Waiting(t) :
            /\ Push(t, p)
            /\ send_queue_indices' = [send_queue_indices EXCEPT ![t] = Plus(p, 1)]
    BY DEF FillStep
  <1>2. PICK p \in Waiting(t) :
            /\ Push(t, p)
            /\ send_queue_indices' = [send_queue_indices EXCEPT ![t] = Plus(p, 1)]
    BY <1>1
  <1>3. PICK copy \in 0 .. Cardinality(send_queue) :
            send_queue' = send_queue \cup {EntryOf(t, p, copy)}
    BY <1>2 DEF Push
  <1>4. PICK new : new = EntryOf(t, p, copy)
    OBVIOUS
  <1>5. /\ UNCHANGED <<full_send_queue, outgoing_p_ids, issued, transmitted,
                       ack_event, init_sent, clock, pc, caller, failed>>
        /\ pc = "fill" /\ room > 0 /\ room' = room - 1
        /\ \A u : Ids(u)' = Ids(u) /\ NextId(u)' = NextId(u)
        /\ \A u, q : Rec(u, q)' = Rec(u, q)
    BY DEF FillStep, historyVars, Ids, NextId, Rec
  <1>6. /\ new.type = t /\ new.part = p /\ new.last = Rec(t, p).last
        /\ new.tries = Rec(t, p).tries /\ send_queue' = send_queue \cup {new}
    BY <1>3, <1>4 DEF EntryOf, Rec
  <1>7. p \in Ids(t) /\ ~Less(p, send_queue_indices[t])
    BY DEF Waiting
  <1>8. HeapInWindow'
    <2>1. /\ IsFiniteSet(send_queue) /\ Cardinality(send_queue) \in Nat
      BY FS_CardinalityType DEF IInv, HeapFinite
    <2>2. Cardinality(send_queue') \in Nat /\ Cardinality(send_queue') <= Cardinality(send_queue) + 1
      BY <1>6, <2>1, OneMore
    <2>3. room \in Nat /\ Cardinality(send_queue) + room <= MaxWindow
      BY DEF OrderInv, HeapInWindow, IInv, TypeOK
    <2>4. Cardinality(send_queue') + room' <= MaxWindow
      BY <1>5, <2>1, <2>2, <2>3, ResenderAssumption
    <2> QED
      BY <1>5, <2>4 DEF HeapInWindow
  <1>9. clock' \in Nat /\ clock <= clock'
    BY <1>5, ResenderAssumption DEF IInv, TypeOK
  <1>10. ASSUME NEW u \in CommandTypes, u # t PROVE CommandInv(u)'
    <2>1. send_queue_indices'[u] = send_queue_indices[u]
      BY <1>2, <1>10 DEF IInv, TypeOK, Types
    <2>2. \A e \in send_queue' : e.type = u => e \in send_queue
      BY <1>6, <1>10
    <2> QED
      BY <1>5, <1>9, <2>1, <2>2, Untouched DEF OrderInv
  <1>11. ASSUME t \in CommandTypes PROVE CommandInv(t)'
    <2> USE <1>11
    <2>1. /\ CommandInv(t) /\ Numbered(t) /\ Indexed(t)
      BY DEF OrderInv, CommandInv
    <2>2. /\ p \in PartialPacketId /\ p.generation_id = 0 /\ p.packet_id \in Nat
          /\ p \in issued[t] /\ p.packet_id < NextId(t) /\ NextId(t) \in Nat
          /\ outgoing_p_ids[t] \in PartialPacketId
          /\ outgoing_p_ids[t] = Part(0, NextId(t))
          /\ send_queue_indices[t] \in PartialPacketId
      BY <1>7, <2>1, QueuedFacts
    <2>3. NextId(t) < IdMod
      BY <2>2, IdModAssumption DEF PartialPacketId, Part, PacketIdValue
    <2>4. /\ send_queue_indices'[t] = Plus(p, 1) /\ send_queue_indices'[t] \in PartialPacketId
      BY <1>2 DEF IInv, TypeOK
    <2>5. Plus(p, 1) = Part(0, p.packet_id + 1)
      <3>1. (p.packet_id + 1) % IdMod = p.packet_id + 1 /\ p.packet_id + 1 < IdMod
        BY <2>2, <2>3, IdModAssumption
      <3> QED
        BY <2>2, <3>1, IdModAssumption DEF Plus
    <2>6. /\ send_queue_indices'[t].generation_id = 0
          /\ send_queue_indices'[t].packet_id = p.packet_id + 1
      BY <2>4, <2>5 DEF Part
    <2>7. Less(p, send_queue_indices'[t])
      BY <2>2, <2>4, <2>6, ZeroOrder
    <2>8. LessEq(send_queue_indices'[t], outgoing_p_ids[t])
      <3>1. outgoing_p_ids[t].generation_id = 0 /\ outgoing_p_ids[t].packet_id = NextId(t)
        BY <2>2 DEF Part
      <3> QED
        BY <2>2, <2>4, <2>6, <3>1, ZeroOrder
    <2>9. \A e \in send_queue : (e.type = t /\ e.part \in Ids(t)) =>
              /\ Less(e.part, send_queue_indices'[t]) /\ e.part # p
      <3> SUFFICES ASSUME NEW e \in send_queue, e.type = t, e.part \in Ids(t)
                   PROVE  Less(e.part, send_queue_indices'[t]) /\ e.part # p
        OBVIOUS
      <3>1. Less(e.part, send_queue_indices[t]) /\ e.part \in PartialPacketId
        BY <2>1, QueuedFacts DEF Indexed
      <3>2. Less(e.part, p)
        BY <1>7, <2>2, <3>1, LessOrder
      <3> QED
        BY <2>2, <2>4, <2>7, <3>1, <3>2, LessOrder
    <2>10. Indexed(t)'
      <3>1. \A e \in send_queue' : e.type = t => e.part \in issued'[t]
        BY <1>5, <1>6, <2>1, <2>2 DEF Indexed
      <3>2. \A e \in send_queue' : (e.type = t /\ e.part \in Ids(t)') =>
               /\ Less(e.part, send_queue_indices'[t])
               /\ e.last = Rec(t, e.part)'.last /\ e.tries = Rec(t, e.part)'.tries
        BY <1>5, <1>6, <2>1, <2>7, <2>9 DEF Indexed
      <3>3. \A e, f \in send_queue' :
               (e.type = t /\ f.type = t /\ e.part = f.part /\ e.part \in Ids(t)') => e = f
        BY <1>5, <1>6, <2>1, <2>9 DEF Indexed
      <3> QED
        BY <1>5, <2>8, <3>1, <3>2, <3>3 DEF Indexed
    <2>11. Numbered(t)' /\ Recorded(t)' /\ Ordered(t)'
      BY <1>5, <2>1 DEF CommandInv, Numbered, Recorded, Ordered
    <2>12. InWindow(t)'
      BY <1>5, <2>1 DEF CommandInv, InWindow, InFlight, UpTo
    <2>13. AckedUpTo(t)'
      BY <1>5, <2>1 DEF CommandInv, AckedUpTo, IsFront
    <2> QED
      BY <2>10, <2>11, <2>12, <2>13 DEF CommandInv
  <1>12. OneInit'
    BY <1>5 DEF OrderInv, OneInit
  <1> QED
    BY <1>8, <1>10, <1>11, <1>12 DEF OrderInv

\* The end of fill_up_send_queue and the control steps of poll_resend keep
\* the order.
LEMMA ControlKeepsOrder ==
    ASSUME IInv, OrderInv,
           FillEnd \/ Poll \/ PollEnd \/ \E e \in send_queue : PollFails(e)
    PROVE  OrderInv'
  <1>1. /\ UNCHANGED <<full_send_queue, send_queue, send_queue_indices,
                       outgoing_p_ids, issued, transmitted, ack_event,
                       init_sent, clock>>
        /\ \A u : Ids(u)' = Ids(u)
    BY DEF FillEnd, Poll, PollEnd, PollFails, queueVars, historyVars, Ids
  <1>2. pc' # "fill" /\ room' = 0
    BY DEF FillEnd, Poll, PollEnd, PollFails, OrderInv, HeapInWindow, IInv, TypeOK
  <1>3. HeapInWindow'
    <2>1. Cardinality(send_queue) \in Nat /\ room \in Nat
      BY FS_CardinalityType DEF IInv, HeapFinite, TypeOK
    <2> QED
      BY <1>1, <1>2, <2>1, ResenderAssumption DEF OrderInv, HeapInWindow
  <1>4. ASSUME NEW u \in CommandTypes PROVE CommandInv(u)'
    <2>1. clock' \in Nat /\ clock <= clock'
      BY <1>1, ResenderAssumption DEF IInv, TypeOK
    <2> QED
      BY <1>1, <2>1, Untouched DEF OrderInv
  <1> QED
    BY <1>1, <1>3, <1>4 DEF OrderInv, OneInit

-----------------------------------------------------------------------------
(* Resender::poll_resend keeps the order.                                  *)

\* An acknowledged packet leaves the heap.
LEMMA PollAckedKeepsOrder ==
    ASSUME IInv, OrderInv, NEW e \in send_queue, PollAcked(e) PROVE OrderInv'
  <1>1. /\ UNCHANGED <<full_send_queue, send_queue_indices, outgoing_p_ids,
                       issued, transmitted, ack_event, init_sent, clock, failed>>
        /\ send_queue' = send_queue \ {e}
        /\ \A u : Ids(u)' = Ids(u)
    BY DEF PollAcked, historyVars, Ids
  <1>2. HeapInWindow'
    <2> DEFINE S == send_queue
    <2>1. /\ IsFiniteSet(S) /\ Cardinality(S) \in Nat /\ e \in S
          /\ Cardinality(S) + room <= MaxWindow /\ room \in Nat
      BY FS_CardinalityType DEF IInv, HeapFinite, OrderInv, HeapInWindow, TypeOK
    <2> HIDE DEF S
    <2>2. IsFiniteSet(S \ {e}) /\ Cardinality(S \ {e}) = Cardinality(S) - 1
      BY <2>1, FS_RemoveElement
    <2>3. Cardinality(S) - 1 \in Nat
      BY <2>2, FS_CardinalityType
    <2>4. StartFill(Cardinality(S) - 1, "poll")
      BY DEF PollAcked, S
    <2>5. Cardinality(S) - 1 <= MaxWindow
      BY <2>1, ResenderAssumption
    <2>6. Cardinality(S) - 1 + room' <= MaxWindow /\ pc' = "fill"
      BY <2>3, <2>4, <2>5, StartFillFits
    <2>7. Cardinality(send_queue') = Cardinality(S) - 1
      BY <1>1, <2>2 DEF S
    <2> QED
      BY <2>6, <2>7 DEF HeapInWindow
  <1>3. ASSUME NEW u \in CommandTypes PROVE CommandInv(u)'
    <2>1. clock' \in Nat /\ clock <= clock'
      BY <1>1, ResenderAssumption DEF IInv, TypeOK
    <2> QED
      BY <1>1, <2>1, Untouched DEF OrderInv
  <1> QED
    BY <1>1, <1>2, <1>3 DEF OrderInv, OneInit

\* The top of the heap, when it is a command that was never sent, is the
\* first such command, and no more packets than the window holds are queued
\* up to it.
LEMMA TopOfHeap ==
    ASSUME NoIdWraps, IInv, OrderInv, NEW e \in send_queue, NEW t \in CommandTypes,
           e.type = t, IsTop(e), e.part \in Ids(t)
    PROVE  /\ e.tries = Rec(t, e.part).tries
           /\ \A q \in Ids(t) : Less(q, e.part) => Rec(t, q).tries > 0
           /\ IsFiniteSet(UpTo(t, e.part)) /\ Cardinality(UpTo(t, e.part)) <= MaxWindow
  <1> DEFINE p == e.part
  <1>1. /\ CommandInv(t) /\ Numbered(t) /\ Indexed(t) /\ t \in Types
        /\ Ids(t) \subseteq PartialPacketId /\ send_queue_indices[t] \in PartialPacketId
        /\ \A q \in Ids(t) : Rec(t, q) \in Record
    BY QueuedFacts DEF OrderInv, CommandInv
  <1>2. /\ Less(p, send_queue_indices[t]) /\ e.last = Rec(t, p).last
        /\ e.tries = Rec(t, p).tries
    BY <1>1 DEF Indexed
  <1>3. \A q \in Ids(t) : LessEq(q, p) => \E o \in send_queue : o.type = t /\ o.part = q
    <2> SUFFICES ASSUME NEW q \in Ids(t), LessEq(q, p)
                 PROVE  \E o \in send_queue : o.type = t /\ o.part = q
      OBVIOUS
    <2>1. Less(q, send_queue_indices[t])
      BY <1>1, <1>2, LessOrder DEF LessEq
    <2> QED
      BY <1>1, <2>1 DEF IInv, NoPacketForgotten, Scheduled
  <1>4. ASSUME NEW q \in Ids(t), Less(q, p), Rec(t, q).tries = 0 PROVE FALSE
    <2>1. PICK o \in send_queue : o.type = t /\ o.part = q
      BY <1>3, <1>4 DEF LessEq
    <2>2. o.last = Rec(t, q).last /\ o.tries = Rec(t, q).tries
      BY <1>1, <2>1 DEF Indexed
    <2>3. /\ Rec(t, q).sent < Rec(t, p).sent
          /\ Rec(t, p).tries > 0 => Rec(t, q).tries > 0
      BY <1>1, <1>4 DEF CommandInv, Ordered
    <2>4. /\ Rec(t, q).tries \in Nat /\ Rec(t, p).tries \in Nat
      BY <1>1 DEF Record
    <2>5. Rec(t, p).tries = 0
      BY <1>4, <2>3, <2>4
    <2>6. Rec(t, q).last = Rec(t, q).sent /\ Rec(t, p).last = Rec(t, p).sent
      BY <1>1, <1>4, <2>5 DEF CommandInv, Recorded
    <2>7. o.tries = 0 /\ e.tries = 0 /\ o.last < e.last
      BY <1>2, <1>4, <2>2, <2>3, <2>5, <2>6
    <2>8. o # e
      BY <1>1, <1>4, <2>1, LessOrder
    <2> QED
      BY <2>7, <2>8 DEF IsTop, Before
  <1>5. \A q \in Ids(t) : Less(q, p) => Rec(t, q).tries > 0
    BY <1>1, <1>4 DEF Record
  <1>6. IsFiniteSet(UpTo(t, p)) /\ Cardinality(UpTo(t, p)) <= MaxWindow
    <2> DEFINE f == [o \in send_queue |-> o.part]
               T == UpTo(t, p)
    <2>1. IsFiniteSet(send_queue) /\ DOMAIN f = send_queue
      BY DEF IInv, HeapFinite
    <2>2. \A y \in T : \E x \in send_queue : f[x] = y
      BY <1>3 DEF UpTo
    <2> HIDE DEF f, T
    <2>3. IsFiniteSet(T) /\ Cardinality(T) <= Cardinality(send_queue)
      BY <2>1, <2>2, ImagePart
    <2>4. /\ Cardinality(send_queue) \in Nat /\ Cardinality(T) \in Nat /\ room \in Nat
          /\ Cardinality(send_queue) + room <= MaxWindow
      BY <2>1, <2>3, FS_CardinalityType DEF OrderInv, HeapInWindow, IInv, TypeOK
    <2> QED
      BY <2>3, <2>4, ResenderAssumption DEF T
  <1> QED
    BY <1>2, <1>5, <1>6

\* Sending a command touches its record and the history of its type; it keeps
\* the order whatever happens to the heap.
LEMMA SentKeepsOrder ==
    ASSUME NoIdWraps, IInv, OrderInv, NEW e \in send_queue, NEW t \in CommandTypes,
           e.type = t, Sent(e)
    PROVE  /\ Numbered(t)' /\ Recorded(t)' /\ Ordered(t)' /\ InWindow(t)' /\ AckedUpTo(t)'
           /\ Ids(t)' = Ids(t) /\ e.part \in Ids(t)
           /\ \A q \in Ids(t) : q # e.part => Rec(t, q)' = Rec(t, q)
           /\ Rec(t, e.part)'.last = clock + 1 /\ Rec(t, e.part)'.tries = e.tries + 1
  <1>1. /\ CommandInv(t) /\ Numbered(t) /\ Indexed(t) /\ t \in Types
        /\ Ids(t) \subseteq PartialPacketId /\ Ids(t) \subseteq issued[t]
        /\ IsFiniteSet(Ids(t))
        /\ \A q \in Ids(t) : Rec(t, q) \in Record
    BY QueuedFacts DEF OrderInv, CommandInv
  <1>2. /\ IsTop(e) /\ e.part \in Ids(t) /\ clock' = clock + 1
        /\ full_send_queue' = [full_send_queue EXCEPT ![t][e.part] =
               [@ EXCEPT !.last = clock + 1, !.tries = e.tries + 1]]
        /\ transmitted' = [transmitted EXCEPT ![t] = @ \cup {e.part}]
        /\ UNCHANGED <<outgoing_p_ids, issued, ack_event, init_sent, failed>>
    BY DEF Sent
  <1>3. /\ e.tries \in Nat /\ clock \in Nat
    BY ResenderAssumption DEF IInv, TypeOK, HeapEntry
  <1>4. /\ Ids(t)' = Ids(t) /\ NextId(t)' = NextId(t)
        /\ \A q \in Ids(t) : q # e.part => Rec(t, q)' = Rec(t, q)
        /\ Rec(t, e.part)' = [Rec(t, e.part) EXCEPT !.last = clock + 1, !.tries = e.tries + 1]
    <2>1. full_send_queue'[t] = [full_send_queue[t] EXCEPT ![e.part] =
               [@ EXCEPT !.last = clock + 1, !.tries = e.tries + 1]]
      BY <1>1, <1>2 DEF IInv, TypeOK
    <2>2. full_send_queue[t] \in [Ids(t) -> Record]
      BY <1>1 DEF IInv, TypeOK
    <2> QED
      BY <1>2, <2>1, <2>2 DEF Ids, Rec, NextId
  <1>5. /\ Rec(t, e.part)'.last = clock + 1 /\ Rec(t, e.part)'.tries = e.tries + 1
        /\ Rec(t, e.part)'.sent = Rec(t, e.part).sent
    <2> DEFINE old == Rec(t, e.part)  a0 == clock + 1  b0 == e.tries + 1
               s0 == Rec(t, e.part)'
    <2>2. old \in Record /\ s0 = [old EXCEPT !.last = a0, !.tries = b0]
      BY <1>1, <1>2, <1>4
    <2> HIDE DEF old, a0, b0, s0
    <2>3. s0.last = a0 /\ s0.tries = b0 /\ s0.sent = old.sent
      BY <2>2 DEF Record
    <2> QED
      BY <2>3 DEF old, a0, b0, s0
  <1>6. /\ e.tries = Rec(t, e.part).tries
        /\ \A q \in Ids(t) : Less(q, e.part) => Rec(t, q).tries > 0
        /\ IsFiniteSet(UpTo(t, e.part)) /\ Cardinality(UpTo(t, e.part)) <= MaxWindow
    BY <1>2, TopOfHeap
  <1>7. transmitted'[t] = transmitted[t] \cup {e.part}
    BY <1>1, <1>2 DEF IInv, TypeOK
  <1>8. Numbered(t)'
    BY <1>1, <1>2, <1>4, <1>7 DEF Numbered
  <1>9. \A q \in Ids(t) : Rec(t, q)'.sent = Rec(t, q).sent
    BY <1>4, <1>5
  <1>10. Recorded(t)'
    <2>1. \A q \in Ids(t) : Rec(t, q).sent \in Nat /\ Rec(t, q).sent <= clock
      BY <1>1 DEF Record, CommandInv, Recorded
    <2>2. ASSUME NEW q \in Ids(t)
          PROVE  /\ Rec(t, q)'.sent <= clock'
                 /\ Rec(t, q)'.tries = 0 => Rec(t, q)'.last = Rec(t, q)'.sent
                 /\ Rec(t, q)'.tries > 0 <=> q \in transmitted'[t]
      <3>1. Rec(t, q)'.sent <= clock'
        BY <1>2, <1>3, <1>9, <2>1
      <3>2. CASE q = e.part
        BY <1>3, <1>5, <1>7, <3>1, <3>2
      <3>3. CASE q # e.part
        BY <1>1, <1>4, <1>7, <3>1, <3>3 DEF CommandInv, Recorded
      <3> QED
        BY <3>2, <3>3
    <2> QED
      BY <1>4, <2>2 DEF Recorded
  <1>11. \A q \in Ids(t) : Rec(t, q).tries > 0 => Rec(t, q)'.tries > 0
    <2>1. ASSUME NEW q \in Ids(t), Rec(t, q).tries > 0 PROVE Rec(t, q)'.tries > 0
      <3>1. CASE q = e.part
        <4>1. Rec(t, q)'.tries = e.tries + 1
          BY <1>5, <3>1
        <4> QED
          BY <1>3, <4>1
      <3>2. CASE q # e.part
        BY <1>4, <2>1, <3>2
      <3> QED
        BY <3>1, <3>2
    <2> QED
      BY <2>1
  <1>12. Ordered(t)'
    <2>1. ASSUME NEW a \in Ids(t), NEW b \in Ids(t), Less(a, b)
          PROVE  /\ Rec(t, a)'.sent < Rec(t, b)'.sent
                 /\ Rec(t, b)'.tries > 0 => Rec(t, a)'.tries > 0
      <3>1. Rec(t, a)'.sent < Rec(t, b)'.sent
        BY <1>1, <1>9, <2>1 DEF CommandInv, Ordered
      <3>2. CASE b = e.part
        BY <1>6, <1>11, <2>1, <3>1, <3>2
      <3>3. CASE b # e.part
        BY <1>1, <1>4, <1>11, <2>1, <3>1, <3>3 DEF CommandInv, Ordered
      <3> QED
        BY <3>2, <3>3
    <2> QED
      BY <1>4, <2>1 DEF Ordered
  <1>13. InWindow(t)'
    <2>1. ASSUME NEW q \in InFlight(t)' PROVE Cardinality(UpTo(t, q)') <= MaxWindow
      <3>1. q \in Ids(t)' /\ Rec(t, q)'.tries > 0
        BY DEF InFlight, Rec
      <3>2. UpTo(t, q)' = UpTo(t, q)
        BY <1>4 DEF UpTo
      <3>3. CASE q = e.part
        BY <1>6, <3>2, <3>3
      <3>4. CASE q # e.part
        <4>1. q \in InFlight(t)
          BY <1>4, <3>1, <3>4 DEF InFlight, Rec
        <4> QED
          BY <1>1, <3>2, <4>1 DEF CommandInv, InWindow
      <3> QED
        BY <3>3, <3>4
    <2> QED
      BY <2>1 DEF InWindow
  <1>14. AckedUpTo(t)'
    BY <1>1, <1>2, <1>4 DEF CommandInv, AckedUpTo, IsFront
  <1> QED
    BY <1>2, <1>4, <1>5, <1>8, <1>10, <1>12, <1>13, <1>14

\* Sending a packet of one type does not touch the others.
LEMMA SentOthers ==
    ASSUME IInv, OrderInv, NEW e \in send_queue, Sent(e), NEW u \in CommandTypes,
           u # e.type, send_queue_indices'[u] = send_queue_indices[u],
           \A o \in send_queue' : o.type = u => o \in send_queue
    PROVE  CommandInv(u)'
  <1>1. e.type \in Types /\ u \in Types
    BY DEF IInv, TypeOK, HeapEntry, Types
  <1>2. /\ full_send_queue'[u] = full_send_queue[u]
        /\ transmitted'[u] = transmitted[u]
        /\ UNCHANGED <<outgoing_p_ids, issued, ack_event>>
    BY <1>1 DEF Sent, IInv, TypeOK
  <1>3. clock' \in Nat /\ clock <= clock'
    BY ResenderAssumption DEF Sent, IInv, TypeOK
  <1> QED
    BY <1>2, <1>3, Untouched DEF OrderInv

\* The first transmission of a packet.
LEMMA PollSendKeepsOrder ==
    ASSUME NoIdWraps, IInv, IInv', OrderInv, NEW e \in send_queue, PollSend(e)
    PROVE  OrderInv'
  <1>1. PICK f : f = [e EXCEPT !.last = clock + 1, !.tries = 1, !.copy = 0]
    OBVIOUS
  <1>2. /\ Sent(e) /\ e.tries = 0 /\ send_queue' = (send_queue \ {e}) \cup {f}
        /\ UNCHANGED <<send_queue_indices, pc, caller, room>>
    BY <1>1 DEF PollSend, controlVars
  <1>3. /\ e \in HeapEntry /\ pc = "poll" /\ \A u \in Types : Ids(u)' = Ids(u)
    BY <1>2, SentFacts
  <1>4. f.type = e.type /\ f.part = e.part /\ f.last = clock + 1 /\ f.tries = 1
    BY <1>1, <1>3 DEF HeapEntry
  <1>5. HeapInWindow'
    <2> DEFINE S == send_queue
    <2>1. /\ IsFiniteSet(S) /\ e \in S /\ Cardinality(S) \in Nat
          /\ Cardinality(S) + room <= MaxWindow
      BY FS_CardinalityType DEF IInv, HeapFinite, OrderInv, HeapInWindow
    <2> HIDE DEF S
    <2>2. IsFiniteSet(S \ {e}) /\ Cardinality(S \ {e}) = Cardinality(S) - 1
      BY <2>1, FS_RemoveElement
    <2> DEFINE R == S \ {e}
    <2>3. IsFiniteSet(R) /\ Cardinality(R) = Cardinality(S) - 1
      BY <2>2
    <2> HIDE DEF R
    <2>4. IsFiniteSet(R \cup {f}) /\ Cardinality(R \cup {f}) <= Cardinality(R) + 1
      BY <2>3, OneMore
    <2>5. Cardinality(R \cup {f}) \in Nat
      BY <2>3, OneMore
    <2>6. send_queue' = R \cup {f}
      BY <1>2 DEF R, S
    <2>7. Cardinality(send_queue') + room' <= MaxWindow
      <3>1. room \in Nat /\ room' = room
        BY <1>2 DEF IInv, TypeOK
      <3> QED
        BY <2>1, <2>3, <2>4, <2>5, <2>6, <3>1, ResenderAssumption
    <2> QED
      BY <1>2, <2>7 DEF OrderInv, HeapInWindow
  <1>6. ASSUME NEW u \in CommandTypes PROVE CommandInv(u)'
    <2>1. CASE u # e.type
      <3>1. \A o \in send_queue' : o.type = u => o \in send_queue
        BY <1>2, <1>4, <2>1
      <3> QED
        BY <1>2, <2>1, <3>1, SentOthers
    <2>2. CASE u = e.type
      <3>1. /\ Numbered(u)' /\ Recorded(u)' /\ Ordered(u)' /\ InWindow(u)' /\ AckedUpTo(u)'
            /\ Ids(u)' = Ids(u) /\ e.part \in Ids(u)
            /\ \A q \in Ids(u) : q # e.part => Rec(u, q)' = Rec(u, q)
            /\ Rec(u, e.part)'.last = clock + 1 /\ Rec(u, e.part)'.tries = e.tries + 1
        BY <1>2, <2>2, SentKeepsOrder
      <3>2. Indexed(u) /\ UNCHANGED <<outgoing_p_ids, issued>>
        BY <1>2 DEF OrderInv, CommandInv, Sent
      <3>3. \A o \in send_queue : (o.type = u /\ o.part = e.part) => o = e
        BY <2>2, <3>1, <3>2 DEF Indexed
      <3>4. \A o \in send_queue' : o = f \/ (o \in send_queue /\ (o.type = u => o.part # e.part))
        BY <1>2, <3>3
      <3>5. \A o \in send_queue' : o.type = u => o.part \in issued'[u]
        BY <1>4, <2>2, <3>2, <3>4 DEF Indexed
      <3>6. \A o \in send_queue' : (o.type = u /\ o.part \in Ids(u)') =>
               /\ Less(o.part, send_queue_indices'[u])
               /\ o.last = Rec(u, o.part)'.last /\ o.tries = Rec(u, o.part)'.tries
        <4> SUFFICES ASSUME NEW o \in send_queue', o.type = u, o.part \in Ids(u)'
                     PROVE  /\ Less(o.part, send_queue_indices'[u])
                            /\ o.last = Rec(u, o.part)'.last
                            /\ o.tries = Rec(u, o.part)'.tries
          OBVIOUS
        <4>1. CASE o = f
          <5>1. Less(e.part, send_queue_indices[u])
            BY <2>2, <3>1, <3>2 DEF Indexed
          <5> QED
            BY <1>2, <1>4, <3>1, <4>1, <5>1
        <4>2. CASE o # f
          <5>1. o \in send_queue /\ o.part # e.part
            BY <3>4, <4>2
          <5> QED
            BY <1>2, <3>1, <3>2, <5>1 DEF Indexed
        <4> QED
          BY <4>1, <4>2
      <3>7. \A o, x \in send_queue' :
               (o.type = u /\ x.type = u /\ o.part = x.part /\ o.part \in Ids(u)') => o = x
        BY <1>4, <3>1, <3>2, <3>4 DEF Indexed
      <3>8. LessEq(send_queue_indices'[u], outgoing_p_ids'[u])
        BY <1>2, <3>2 DEF Indexed
      <3> QED
        BY <3>1, <3>5, <3>6, <3>7, <3>8 DEF CommandInv, Indexed
    <2> QED
      BY <2>1, <2>2
  <1>7. OneInit'
    BY <1>3 DEF OrderInv, OneInit, Types
  <1> QED
    BY <1>5, <1>6, <1>7 DEF OrderInv

\* A resend empties the heap and lowers every index.
LEMMA PollResendKeepsOrder ==
    ASSUME NoIdWraps, IInv, IInv', OrderInv, NEW e \in send_queue, PollResend(e)
    PROVE  OrderInv'
  <1>1. /\ Sent(e) /\ send_queue' = {} /\ send_queue_indices' = [t \in Types |-> Zero]
        /\ StartFill(0, "poll")
    BY DEF PollResend
  <1>2. /\ e \in HeapEntry /\ \A u \in Types : Ids(u)' = Ids(u)
    BY <1>1, SentFacts
  <1>3. HeapInWindow'
    <2>1. 0 + room' <= MaxWindow /\ pc' = "fill"
      BY <1>1, StartFillFits, ResenderAssumption
    <2>2. Cardinality(send_queue') = 0
      BY <1>1, FS_EmptySet
    <2> QED
      BY <2>1, <2>2 DEF HeapInWindow
  <1>4. ASSUME NEW u \in CommandTypes PROVE CommandInv(u)'
    <2>1. /\ CommandInv(u) /\ Numbered(u) /\ u \in Types
          /\ outgoing_p_ids[u] \in PartialPacketId
      BY QueuedFacts DEF OrderInv, CommandInv
    <2>2. send_queue_indices'[u] = Zero /\ outgoing_p_ids'[u] = outgoing_p_ids[u]
      BY <1>1, <2>1 DEF Sent
    <2>3. LessEq(send_queue_indices'[u], outgoing_p_ids'[u])
      <3>1. ~Less(outgoing_p_ids[u], Zero) /\ Zero \in PartialPacketId
        BY <2>1, NothingBelowZero, IdModAssumption, GenModAssumption
        DEF Zero, Part, PartialPacketId, PacketIdValue, GenerationValue
      <3> QED
        BY <2>1, <2>2, <3>1, LessOrder DEF LessEq
    <2>4. Indexed(u)'
      BY <1>1, <2>3 DEF Indexed
    <2>5. CASE u = e.type
      BY <1>1, <2>4, <2>5, SentKeepsOrder DEF CommandInv
    <2>6. CASE u # e.type
      <3>1. e.type \in Types
        BY <1>2 DEF HeapEntry
      <3>2. /\ full_send_queue'[u] = full_send_queue[u]
            /\ transmitted'[u] = transmitted[u]
            /\ UNCHANGED <<outgoing_p_ids, issued, ack_event>>
            /\ clock' = clock + 1
        BY <1>1, <2>1, <2>6, <3>1 DEF Sent, IInv, TypeOK
      <3>3. /\ Ids(u)' = Ids(u) /\ NextId(u)' = NextId(u) /\ \A p : Rec(u, p)' = Rec(u, p)
            /\ InFlight(u)' = InFlight(u) /\ \A p : UpTo(u, p)' = UpTo(u, p)
        BY <3>2 DEF Ids, NextId, Rec, InFlight, UpTo
      <3>4. Recorded(u)'
        <4>1. clock \in Nat /\ \A p \in Ids(u) : Rec(u, p).sent \in Nat
          BY <2>1, QueuedFacts, ResenderAssumption DEF Record, IInv, TypeOK
        <4> QED
          BY <2>1, <3>2, <3>3, <4>1 DEF CommandInv, Recorded
      <3>5. Numbered(u)' /\ Ordered(u)' /\ InWindow(u)'
        BY <2>1, <3>2, <3>3 DEF CommandInv, Numbered, Ordered, InWindow
      <3>6. AckedUpTo(u)'
        BY <2>1, <3>2, <3>3 DEF CommandInv, AckedUpTo, IsFront
      <3> QED
        BY <2>4, <3>4, <3>5, <3>6 DEF CommandInv
    <2> QED
      BY <2>5, <2>6
  <1>5. OneInit'
    BY <1>2 DEF OrderInv, OneInit, Types
  <1> QED
    BY <1>3, <1>4, <1>5 DEF OrderInv

-----------------------------------------------------------------------------
(* The theorems about the order.                                           *)

\* A new connection has sent nothing.
LEMMA InitOrderInv == Init => OrderInv
  <1> SUFFICES ASSUME Init PROVE OrderInv
    OBVIOUS
  <1>1. /\ send_queue = {} /\ room = 0 /\ \A t \in Types : Ids(t) = {}
        /\ \A t \in Types : issued[t] = {} /\ transmitted[t] = {} /\ ack_event[t] = NoEvent
                            /\ send_queue_indices[t] = Zero
    BY DEF Init, Ids
  <1>2. IsFiniteSet({}) /\ Cardinality({}) = 0
    BY FS_EmptySet
  <1>3. OneInit /\ HeapInWindow
    BY <1>1, <1>2, ResenderAssumption DEF OneInit, HeapInWindow, Types
  <1>4. ASSUME NEW t \in CommandTypes PROVE CommandInv(t)
    <2>1. t \in Types /\ Start(t) \in Nat /\ MaxQueued[t] \in Nat /\ Start(t) \in {0, 1}
      BY ResenderAssumption DEF Types, Start
    <2>2. outgoing_p_ids[t] = Part(0, Start(t)) /\ NextId(t) = Start(t)
      BY DEF Init, Start, NextId, Part
    <2>3. Numbered(t)
      BY <1>1, <1>2, <2>1, <2>2 DEF Numbered
    <2>4. LessEq(Zero, Part(0, Start(t)))
      BY <2>1 DEF LessEq, Less, Zero, Part
    <2>5. Indexed(t)
      BY <1>1, <2>1, <2>2, <2>4 DEF Indexed
    <2>6. Recorded(t) /\ Ordered(t) /\ InWindow(t)
      BY <1>1, <2>1 DEF Recorded, Ordered, InWindow, InFlight
    <2>7. AckedUpTo(t)
      BY <1>1, <2>1, <2>2 DEF AckedUpTo, IsFront
    <2> QED
      BY <2>3, <2>5, <2>6, <2>7 DEF CommandInv
  <1> QED
    BY <1>3, <1>4 DEF OrderInv

\* Every step of the resender keeps the order.
LEMMA NextOrderInv ==
    ASSUME NoIdWraps, IInv, OrderInv, [Next]_vars
    PROVE  IInv' /\ OrderInv'
  <1>1. IInv'
    BY NextIInv
  <1>2. ASSUME NEW t \in CommandTypes, SendCommand(t) PROVE OrderInv'
    BY <1>1, <1>2, SendCommandKeepsOrder
  <1>3. ASSUME NEW step \in InitSteps, SendInit(step) PROVE OrderInv'
    BY <1>1, <1>3, SendInitKeepsOrder
  <1>4. ASSUME NEW t \in Types, NEW p_id, AckPacket(t, p_id) PROVE OrderInv'
    BY <1>1, <1>4, AckPacketKeepsOrder
  <1>5. CASE FillStep
    BY <1>1, <1>5, FillKeepsOrder
  <1>6. CASE FillEnd \/ Poll \/ PollEnd \/ \E e \in send_queue : PollFails(e)
    BY <1>1, <1>6, ControlKeepsOrder
  <1>7. ASSUME NEW e \in send_queue, PollAcked(e) PROVE OrderInv'
    BY <1>7, PollAckedKeepsOrder
  <1>8. ASSUME NEW e \in send_queue, PollSend(e) PROVE OrderInv'
    BY <1>1, <1>8, PollSendKeepsOrder
  <1>9. ASSUME NEW e \in send_queue, PollResend(e) PROVE OrderInv'
    BY <1>1, <1>9, PollResendKeepsOrder
  <1>10. CASE UNCHANGED vars
    <2>1. UNCHANGED <<full_send_queue, send_queue, send_queue_indices,
                      outgoing_p_ids, issued, transmitted, ack_event,
                      init_sent, clock, pc, caller, room, failed>>
      BY <1>10 DEF vars, queueVars, historyVars, controlVars
    <2>2. ASSUME NEW u \in CommandTypes PROVE CommandInv(u)'
      <3>1. clock' \in Nat /\ clock <= clock'
        BY <2>1, ResenderAssumption DEF IInv, TypeOK
      <3> QED
        BY <2>1, <3>1, Untouched DEF OrderInv
    <2> QED
      BY <1>1, <2>1, <2>2 DEF OrderInv, OneInit, HeapInWindow, Ids
  <1> QED
    BY <1>1, <1>2, <1>3, <1>4, <1>5, <1>6, <1>7, <1>8, <1>9, <1>10 DEF Next

\* The invariant gives the exactness of the AckPacket events.
LEMMA OrderGivesEvents ==
    ASSUME IInv, OrderInv PROVE AckEventExact
  <1> SUFFICES ASSUME NEW t \in CommandTypes
               PROVE  /\ \A p \in Ids(t) : ack_event[t] # NoEvent => ~LessEq(p, ack_event[t])
                      /\ \A p \in issued[t] :
                            (\A q \in Ids(t) : Less(p, q))
                                => ack_event[t] # NoEvent /\ LessEq(p, ack_event[t])
    BY DEF AckEventExact, AckEventSound, AckEventComplete
  <1>1. CommandInv(t) /\ Numbered(t)
    BY DEF OrderInv, CommandInv
  <1>2. PICK f \in Start(t) .. NextId(t) :
            IsFront(t, f) /\ ack_event[t] = IF f = Start(t) THEN NoEvent ELSE Part(0, f - 1)
    BY <1>1 DEF CommandInv, AckedUpTo
  <1>3. f \in Nat /\ Start(t) \in Nat /\ NextId(t) \in Nat /\ Start(t) <= f /\ f <= NextId(t)
    BY <1>1, QueuedFacts
  <1>4. NextId(t) < IdMod
    <2>1. outgoing_p_ids[t] \in PartialPacketId /\ outgoing_p_ids[t].packet_id = NextId(t)
      BY <1>1, QueuedFacts DEF NextId
    <2> QED
      BY <2>1, IdModAssumption DEF PartialPacketId, PacketIdValue
  <1>5. ASSUME f # Start(t)
        PROVE  /\ ack_event[t] = Part(0, f - 1) /\ f - 1 \in Nat
               /\ Part(0, f - 1) \in PartialPacketId
               /\ Part(0, f - 1).generation_id = 0 /\ Part(0, f - 1).packet_id = f - 1
               /\ Part(0, f - 1) # NoEvent
    <2>1. f - 1 \in Nat /\ f - 1 < IdMod
      BY <1>3, <1>4, <1>5, IdModAssumption
    <2>2. /\ Part(0, f - 1).generation_id = 0 /\ Part(0, f - 1).packet_id = f - 1
          /\ NoEvent.packet_id = -1
      BY DEF Part, NoEvent
    <2>3. Part(0, f - 1) \in PartialPacketId
      BY <2>1, IdModAssumption, GenModAssumption
      DEF Part, PartialPacketId, PacketIdValue, GenerationValue
    <2> QED
      BY <1>2, <1>5, <2>1, <2>2, <2>3
  <1>6. ASSUME NEW p \in Ids(t), ack_event[t] # NoEvent PROVE ~LessEq(p, ack_event[t])
    <2>1. f # Start(t)
      BY <1>2, <1>6
    <2>2. f <= p.packet_id /\ p.packet_id \in Nat /\ p \in PartialPacketId /\ p.generation_id = 0
      BY <1>1, <1>2, QueuedFacts DEF IsFront
    <2>3. ~(p.packet_id <= f - 1)
      BY <1>3, <2>2
    <2> QED
      BY <1>5, <2>1, <2>2, <2>3, ZeroOrder
  <1>7. ASSUME NEW p \in issued[t], \A q \in Ids(t) : Less(p, q)
        PROVE  ack_event[t] # NoEvent /\ LessEq(p, ack_event[t])
    <2>1. /\ p.packet_id \in Nat /\ p \in PartialPacketId /\ p.generation_id = 0
          /\ Start(t) <= p.packet_id /\ p.packet_id < NextId(t)
      BY <1>1, QueuedFacts
    <2>2. p.packet_id < f
      <3>1. CASE Ids(t) = {}
        BY <1>2, <2>1, <3>1 DEF IsFront
      <3>2. CASE Ids(t) # {}
        <4>1. Part(0, f) \in Ids(t) /\ Part(0, f).packet_id = f
          BY <1>2, <3>2 DEF IsFront, Part
        <4>2. /\ Part(0, f) \in PartialPacketId /\ Part(0, f).generation_id = 0
              /\ Less(p, Part(0, f))
          BY <1>1, <1>7, <4>1, QueuedFacts
        <4> QED
          BY <2>1, <4>1, <4>2, ZeroOrder
      <3> QED
        BY <3>1, <3>2
    <2>3. f # Start(t) /\ p.packet_id <= f - 1
      BY <1>3, <2>1, <2>2
    <2> QED
      BY <1>5, <2>1, <2>3, ZeroOrder
  <1> QED
    BY <1>6, <1>7

\* The invariant keeps every type within the window.
LEMMA OrderGivesWindow ==
    ASSUME IInv, OrderInv PROVE QueueWithinWindow
  <1> SUFFICES ASSUME NEW t \in Types PROVE Cardinality(InFlight(t)) <= MaxWindow
    BY DEF QueueWithinWindow
  <1>1. CASE InFlight(t) = {}
    BY <1>1, FS_EmptySet, ResenderAssumption
  <1>2. CASE t = "Init" /\ InFlight(t) # {}
    <2>1. PICK p : InFlight(t) = {p}
      BY <1>2 DEF InFlight, OrderInv, OneInit
    <2>2. Cardinality(InFlight(t)) = 1
      BY <2>1, FS_Singleton
    <2> QED
      BY <2>2, ResenderAssumption
  <1>3. CASE t \in CommandTypes /\ InFlight(t) # {}
    <2>1. CommandInv(t) /\ Numbered(t)
      BY <1>3 DEF OrderInv, CommandInv
    <2> DEFINE D == {NextId(t) - p.packet_id : p \in InFlight(t)}
    <2>2. /\ InFlight(t) \subseteq Ids(t) /\ Ids(t) \subseteq issued[t]
          /\ issued[t] \subseteq PartialPacketId /\ IsFiniteSet(Ids(t)) /\ NextId(t) \in Nat
          /\ \A p \in issued[t] : /\ p.generation_id = 0 /\ p.packet_id \in Nat
                                  /\ p.packet_id < NextId(t)
      BY <1>3, <2>1, QueuedFacts DEF InFlight
    <2>3. D \subseteq Nat /\ D # {}
      BY <1>3, <2>2
    <2>4. PICK d \in D : \A m \in D : d <= m
      BY <2>3, SmallestNumber
    <2>5. PICK p \in InFlight(t) : d = NextId(t) - p.packet_id
      OBVIOUS
    <2>6. \A q \in InFlight(t) : q.packet_id <= p.packet_id
      <3> SUFFICES ASSUME NEW q \in InFlight(t) PROVE q.packet_id <= p.packet_id
        OBVIOUS
      <3>1. d <= NextId(t) - q.packet_id
        BY <2>4
      <3>2. p.packet_id \in Nat /\ q.packet_id \in Nat
        BY <2>2
      <3> QED
        BY <2>2, <2>5, <3>1, <3>2
    <2>7. InFlight(t) \in SUBSET UpTo(t, p)
      BY <2>2, <2>6, ZeroOrder DEF UpTo
    <2>8. UpTo(t, p) \in SUBSET Ids(t)
      BY DEF UpTo
    <2>9. IsFiniteSet(UpTo(t, p))
      BY <2>2, <2>8, FS_Subset
    <2>10. IsFiniteSet(InFlight(t)) /\ Cardinality(InFlight(t)) <= Cardinality(UpTo(t, p))
      BY <2>7, <2>9, FS_Subset
    <2>11. Cardinality(UpTo(t, p)) <= MaxWindow
      BY <2>1 DEF CommandInv, InWindow
    <2> QED
      BY <2>9, <2>10, <2>11, FS_CardinalityType, ResenderAssumption
  <1> QED
    BY <1>1, <1>2, <1>3 DEF Types

\* ack_packet: while the ids do not wrap, an AckPacket event covers a command
\* exactly when it and all commands before it are acknowledged, whatever the
\* order of the acks: wait_for_ack returns, and not too early.
THEOREM AckEventsExact ==
    ASSUME NoIdWraps PROVE Spec => []AckEventExact
  <1>1. Init => IInv /\ OrderInv
    BY InitIInv, InitOrderInv
  <1>2. IInv /\ OrderInv /\ [Next]_vars => IInv' /\ OrderInv'
    BY NextOrderInv
  <1>3. IInv /\ OrderInv => AckEventExact
    BY OrderGivesEvents
  <1> QED
    BY <1>1, <1>2, <1>3, PTL DEF Spec

\* fill_up_send_queue and rebuild_send_queue: while the ids do not wrap, no
\* type has more packets in flight than the largest window, although rebuilds
\* forget which packets are in flight.
THEOREM WindowKept ==
    ASSUME NoIdWraps PROVE Spec => []QueueWithinWindow
  <1>1. Init => IInv /\ OrderInv
    BY InitIInv, InitOrderInv
  <1>2. IInv /\ OrderInv /\ [Next]_vars => IInv' /\ OrderInv'
    BY NextOrderInv
  <1>3. IInv /\ OrderInv => QueueWithinWindow
    BY OrderGivesWindow
  <1> QED
    BY <1>1, <1>2, <1>3, PTL DEF Spec

-----------------------------------------------------------------------------
(* The resender implements ReliableSender.                                 *)

Unacked == {p.packet_id : p \in Ids("Command")}
Transmitted == {p.packet_id : p \in transmitted["Command"]}

\* What the invariant says of the commands and their numbers.
LEMMA CommandFacts ==
    ASSUME IInv, OrderInv
    PROVE  /\ "Command" \in CommandTypes /\ "Command" \in Types
           /\ CommandInv("Command") /\ Numbered("Command") /\ Start("Command") = FirstId
           /\ FirstId \in Nat /\ MaxQueued["Command"] \in Nat
           /\ NextId("Command") \in Nat /\ NextId("Command") = outgoing_p_ids["Command"].packet_id
           /\ \A p \in issued["Command"] :
                 /\ p \in PartialPacketId /\ p.generation_id = 0 /\ p.packet_id \in Nat
                 /\ p = Part(0, p.packet_id)
                 /\ FirstId <= p.packet_id /\ p.packet_id < NextId("Command")
           /\ Ids("Command") \subseteq issued["Command"]
           /\ transmitted["Command"] \subseteq issued["Command"]
  <1>1. /\ "Command" \in CommandTypes /\ "Command" \in Types
        /\ CommandInv("Command") /\ Numbered("Command") /\ Start("Command") = FirstId
    BY DEF CommandTypes, Types, OrderInv, CommandInv, Start
  <1>2. transmitted["Command"] \subseteq issued["Command"]
    BY <1>1 DEF Numbered
  <1> QED
    BY <1>1, <1>2, QueuedFacts, ZeroOrder, ResenderAssumption DEF NextId

\* A step that leaves the commands alone is a stuttering step of the sender.
LEMMA SenderStutters ==
    ASSUME outgoing_p_ids'["Command"] = outgoing_p_ids["Command"],
           transmitted'["Command"] = transmitted["Command"],
           Ids("Command")' = Ids("Command")
    PROVE  UNCHANGED Abstract!senderVars
  BY DEF Abstract!senderVars

\* ReliableSender counts as this module does.
LEMMA SameCardinality ==
    ASSUME NEW S PROVE Abstract!Cardinality(S) = Cardinality(S)
  BY DEF Abstract!Cardinality, Cardinality

\* Connection::send_packet with a command is Enqueue(1).
LEMMA SendIsEnqueue ==
    ASSUME NoIdWraps, IInv, OrderInv, SendCommand("Command")
    PROVE  Abstract!Enqueue(1)
  <1>1. PICK n : n = NextId("Command")
    OBVIOUS
  <1>2. PICK p : p = EncodedId(outgoing_p_ids["Command"])
    OBVIOUS
  <1>3. /\ n \in Nat /\ n + 1 <= FirstId + MaxQueued["Command"] /\ p.packet_id = n
        /\ NextId("Command")' = n + 1 /\ transmitted'["Command"] = transmitted["Command"]
        /\ Ids("Command")' = Ids("Command") \cup {p}
    BY <1>1, <1>2, SendFacts, CommandFacts
  <1>4. /\ outgoing_p_ids["Command"].packet_id = n
        /\ outgoing_p_ids'["Command"].packet_id = n + 1
    BY <1>1, <1>3, CommandFacts DEF NextId
  <1>5. n .. n + 1 - 1 = {n}
    BY <1>3
  <1>6. {q.packet_id : q \in Ids("Command")'} = {q.packet_id : q \in Ids("Command")} \cup {n}
    BY <1>3
  <1>7. \A m \in {q.packet_id : q \in Ids("Command")} : n + 1 - m <= MaxQueued["Command"]
    <2> SUFFICES ASSUME NEW q \in Ids("Command")
                 PROVE  n + 1 - q.packet_id <= MaxQueued["Command"]
      OBVIOUS
    <2>1. /\ q.packet_id \in Nat /\ FirstId <= q.packet_id /\ FirstId \in Nat
          /\ MaxQueued["Command"] \in Nat
      BY CommandFacts
    <2> QED
      BY <1>3, <2>1
  <1> QED
    BY <1>3, <1>4, <1>5, <1>6, <1>7 DEF Abstract!Enqueue

\* Resender::ack_packet removes the record of a packet in flight, or nothing.
LEMMA AckIsAcknowledge ==
    ASSUME NoIdWraps, IInv, OrderInv, NEW p_id \in AckableIds("Command"),
           AckPacket("Command", p_id)
    PROVE  \/ \E n \in Abstract!InFlight : Abstract!Acknowledge(n)
           \/ UNCHANGED Abstract!senderVars
  <1>1. PICK first \in Ids("Command") :
            full_send_queue' = [full_send_queue EXCEPT !["Command"] =
                                    Remove(@, AckedKey(first, p_id))]
    BY DEF AckPacket
  <1>2. UNCHANGED <<outgoing_p_ids, transmitted>>
    BY DEF AckPacket, historyVars
  <1>3. PICK key : key = AckedKey(first, p_id)
    OBVIOUS
  <1>4. Ids("Command")' = Ids("Command") \ {key}
    <2>1. full_send_queue'["Command"] = Remove(full_send_queue["Command"], key)
      BY <1>1, <1>3, CommandFacts DEF IInv, TypeOK
    <2> QED
      BY <2>1 DEF Remove, Ids
  <1>5. CASE key \notin Ids("Command")
    BY <1>2, <1>4, <1>5, SenderStutters
  <1>6. CASE key \in Ids("Command")
    <2>1. key.packet_id = p_id
      BY <1>3 DEF AckedKey, Part
    <2>2. PICK p \in transmitted["Command"] : p.packet_id = p_id
      BY DEF AckableIds
    <2>3. \A q \in Ids("Command") : q.packet_id = p_id => q = key
      BY <1>6, <2>1, CommandFacts
    <2>4. p_id \in Abstract!InFlight
      BY <1>6, <2>1, <2>2 DEF Abstract!InFlight
    <2>5. {q.packet_id : q \in Ids("Command")'} = {q.packet_id : q \in Ids("Command")} \ {p_id}
      BY <1>4, <1>6, <2>1, <2>3
    <2>6. Abstract!Acknowledge(p_id)
      BY <1>2, <2>4, <2>5 DEF Abstract!Acknowledge
    <2> QED
      BY <2>4, <2>6
  <1> QED
    BY <1>5, <1>6

\* Resender::poll_resend sends the first command that was not sent yet, and
\* only within the window, or sends one again.
LEMMA SentIsTransmit ==
    ASSUME NoIdWraps, IInv, OrderInv, NEW e \in send_queue, Sent(e), e.type = "Command"
    PROVE  Abstract!TransmitNext \/ UNCHANGED Abstract!senderVars
  <1> DEFINE t == "Command"  p == e.part  n == e.part.packet_id
  <1>1. /\ t \in CommandTypes /\ CommandInv(t) /\ Numbered(t)
        /\ Ids(t) \subseteq issued[t] /\ transmitted[t] \subseteq issued[t]
        /\ \A q \in issued[t] : /\ q \in PartialPacketId /\ q.generation_id = 0
                                /\ q.packet_id \in Nat /\ q = Part(0, q.packet_id)
    BY CommandFacts
  <1>2. /\ IsTop(e) /\ p \in Ids(t)
        /\ transmitted' = [transmitted EXCEPT ![t] = @ \cup {p}]
        /\ UNCHANGED outgoing_p_ids
    BY DEF Sent
  <1>3. Ids(t)' = Ids(t)
    BY <1>1, SentKeepsOrder
  <1>4. transmitted'[t] = transmitted[t] \cup {p}
    BY <1>2, CommandFacts DEF IInv, TypeOK
  <1>5. CASE p \in transmitted[t]
    <2>1. transmitted'[t] = transmitted[t]
      BY <1>4, <1>5
    <2> QED
      BY <1>2, <1>3, <2>1, SenderStutters
  <1>6. CASE p \notin transmitted[t]
    <2>1. \A q \in Ids(t) : Rec(t, q).tries > 0 <=> q \in transmitted[t]
      BY <1>1 DEF CommandInv, Recorded
    <2>2. /\ \A q \in Ids(t) : Less(q, p) => q \in transmitted[t]
          /\ IsFiniteSet(UpTo(t, p)) /\ Cardinality(UpTo(t, p)) <= MaxWindow
      BY <1>1, <1>2, <2>1, TopOfHeap
    <2>3. \A q \in Ids(t) : q \in transmitted[t] => Less(q, p)
      <3> SUFFICES ASSUME NEW q \in Ids(t), q \in transmitted[t] PROVE Less(q, p)
        OBVIOUS
      <3>1. q # p /\ q \in PartialPacketId /\ p \in PartialPacketId
        BY <1>1, <1>2, <1>6
      <3>2. ~Less(p, q)
        <4>1. Less(p, q) => (Rec(t, q).tries > 0 => Rec(t, p).tries > 0)
          BY <1>1, <1>2 DEF CommandInv, Ordered
        <4> QED
          BY <1>2, <1>6, <2>1, <4>1
      <3> QED
        BY <3>1, <3>2, LessOrder
    <2> DEFINE U == Unacked  X == Transmitted  F == U \cap X
    <2>4. /\ n \in U \ X /\ n \in Nat
      BY <1>1, <1>2, <1>6 DEF Unacked, Transmitted
    <2>5. \A m \in U \ X : n <= m
      <3> SUFFICES ASSUME NEW q \in Ids(t), q \notin transmitted[t] PROVE n <= q.packet_id
        BY DEF Unacked, Transmitted
      <3>1. ~Less(q, p)
        BY <2>2
      <3> QED
        BY <1>1, <1>2, <3>1, ZeroOrder
    <2>6. F \subseteq {q.packet_id : q \in UpTo(t, p) \ {p}}
      <3> SUFFICES ASSUME NEW m \in F PROVE \E q \in UpTo(t, p) \ {p} : m = q.packet_id
        OBVIOUS
      <3>1. PICK q \in Ids(t) : m = q.packet_id
        BY DEF Unacked
      <3>2. PICK x \in transmitted[t] : m = x.packet_id
        BY DEF Transmitted
      <3>3. q = x
        BY <1>1, <3>1, <3>2
      <3>4. Less(q, p) /\ q # p
        BY <1>6, <2>3, <3>2, <3>3
      <3> QED
        BY <3>1, <3>4 DEF UpTo, LessEq
    <2>7. Cardinality(F) < MaxWindow
      <3> DEFINE S == UpTo(t, p)  R == S \ {p}  g == [q \in R |-> q.packet_id]
      <3>1. IsFiniteSet(S) /\ Cardinality(S) <= MaxWindow /\ p \in S
        BY <1>2, <2>2 DEF UpTo, LessEq
      <3>2. \A y \in F : \E q \in R : g[q] = y
        BY <2>6
      <3>3. DOMAIN g = R
        OBVIOUS
      <3> HIDE DEF S
      <3>4. IsFiniteSet(R) /\ Cardinality(R) = Cardinality(S) - 1
        BY <3>1, FS_RemoveElement
      <3>5. Cardinality(S) \in Nat /\ Cardinality(R) \in Nat
        BY <3>1, <3>4, FS_CardinalityType
      <3> HIDE DEF R, g, F
      <3>6. IsFiniteSet(F) /\ Cardinality(F) <= Cardinality(R)
        BY <3>2, <3>3, <3>4, ImagePart
      <3>7. Cardinality(F) \in Nat
        BY <3>6, FS_CardinalityType
      <3> QED
        BY <3>1, <3>4, <3>5, <3>6, <3>7, ResenderAssumption
    <2>8. Transmitted' = Transmitted \cup {n}
      BY <1>4 DEF Transmitted
    <2>9. Unacked' = Unacked /\ outgoing_p_ids'["Command"] = outgoing_p_ids["Command"]
      BY <1>2, <1>3 DEF Unacked
    <2>10. Abstract!InFlight = F
      BY DEF Abstract!InFlight, Unacked, Transmitted
    <2>11. Abstract!TransmitNext
      <3>1. Cardinality(Abstract!InFlight) < MaxWindow
        BY <2>7, <2>10
      <3>2. PICK k : k = n
        OBVIOUS
      <3>3. /\ k \in {q.packet_id : q \in Ids("Command")}
                      \ {q.packet_id : q \in transmitted["Command"]}
            /\ \A m \in {q.packet_id : q \in Ids("Command")}
                         \ {q.packet_id : q \in transmitted["Command"]} : k <= m
        BY <2>4, <2>5, <3>2 DEF Unacked, Transmitted
      <3>4. /\ {q.packet_id : q \in transmitted'["Command"]}
                  = {q.packet_id : q \in transmitted["Command"]} \cup {k}
            /\ {q.packet_id : q \in Ids("Command")'} = {q.packet_id : q \in Ids("Command")}
            /\ outgoing_p_ids'["Command"].packet_id = outgoing_p_ids["Command"].packet_id
        BY <2>8, <2>9, <3>2 DEF Unacked, Transmitted
      <3> HIDE DEF n, U, X, F
      <3>5. {q.packet_id : q \in transmitted["Command"]}'
                  = {q.packet_id : q \in transmitted["Command"]} \cup {k}
        BY <3>4
      <3>6. UNCHANGED <<outgoing_p_ids["Command"].packet_id, {q.packet_id : q \in Ids("Command")}>>
        BY <3>4
      <3>7. \E m \in {q.packet_id : q \in Ids("Command")}
                     \ {q.packet_id : q \in transmitted["Command"]} :
               /\ \A l \in {q.packet_id : q \in Ids("Command")}
                            \ {q.packet_id : q \in transmitted["Command"]} : m <= l
               /\ Cardinality(Abstract!InFlight) < MaxWindow
               /\ {q.packet_id : q \in transmitted["Command"]}'
                      = {q.packet_id : q \in transmitted["Command"]} \cup {m}
               /\ UNCHANGED <<outgoing_p_ids["Command"].packet_id,
                              {q.packet_id : q \in Ids("Command")}>>
        BY <3>1, <3>3, <3>5, <3>6
      <3> QED
        BY <3>7, SameCardinality DEF Abstract!TransmitNext
    <2> QED
      BY <2>11
  <1> QED
    BY <1>5, <1>6

\* Every step of the resender is a step of the abstract sender, or none.
LEMMA NextRefines ==
    ASSUME NoIdWraps, IInv, OrderInv, [Next]_vars
    PROVE  [Abstract!SenderNext]_(Abstract!senderVars)
  <1>0. /\ "Command" \in Types /\ "Command" \in CommandTypes /\ MaxQueued["Command"] \in Nat
    BY CommandFacts
  <1>1. ASSUME NEW t \in CommandTypes, SendCommand(t)
        PROVE  [Abstract!SenderNext]_(Abstract!senderVars)
    <2>1. CASE t = "Command"
      <3>1. Abstract!Enqueue(1)
        BY <1>1, <2>1, SendIsEnqueue
      <3>2. 1 \in 1 .. MaxQueued["Command"]
        <4>1. Cardinality(issued["Command"]) < MaxQueued["Command"]
              /\ Cardinality(issued["Command"]) \in Nat
          BY <1>0, <1>1, <2>1, CommandFacts, QueuedFacts DEF SendCommand
        <4> QED
          BY <1>0, <4>1
      <3> QED
        BY <3>1, <3>2 DEF Abstract!SenderNext
    <2>2. CASE t # "Command"
      <3>1. /\ outgoing_p_ids'["Command"] = outgoing_p_ids["Command"]
            /\ transmitted'["Command"] = transmitted["Command"]
            /\ Ids("Command")' = Ids("Command")
        BY <1>0, <1>1, <2>2 DEF SendCommand, Queue, IInv, TypeOK, Ids
      <3> QED
        BY <3>1, SenderStutters
    <2> QED
      BY <2>1, <2>2
  <1>2. ASSUME NEW step \in InitSteps, SendInit(step)
        PROVE  [Abstract!SenderNext]_(Abstract!senderVars)
    <2>1. /\ outgoing_p_ids'["Command"] = outgoing_p_ids["Command"]
          /\ transmitted'["Command"] = transmitted["Command"]
          /\ Ids("Command")' = Ids("Command")
      BY <1>0, <1>2 DEF SendInit, Queue, IInv, TypeOK, Ids
    <2> QED
      BY <2>1, SenderStutters
  <1>3. ASSUME NEW t \in Types, NEW p_id \in AckableIds(t), AckPacket(t, p_id)
        PROVE  [Abstract!SenderNext]_(Abstract!senderVars)
    <2>1. CASE t = "Command"
      BY <1>3, <2>1, AckIsAcknowledge DEF Abstract!SenderNext
    <2>2. CASE t # "Command"
      <3>1. /\ outgoing_p_ids'["Command"] = outgoing_p_ids["Command"]
            /\ transmitted'["Command"] = transmitted["Command"]
            /\ Ids("Command")' = Ids("Command")
        BY <1>0, <1>3, <2>2 DEF AckPacket, historyVars, IInv, TypeOK, Ids
      <3> QED
        BY <3>1, SenderStutters
    <2> QED
      BY <2>1, <2>2
  <1>4. CASE \/ FillStep \/ FillEnd \/ Poll \/ PollEnd \/ UNCHANGED vars
             \/ \E e \in send_queue : PollFails(e) \/ PollAcked(e)
    <2>1. UNCHANGED <<full_send_queue, outgoing_p_ids, transmitted>>
      BY <1>4 DEF FillStep, FillEnd, Poll, PollEnd, PollFails, PollAcked, vars,
                  queueVars, historyVars
    <2>2. Ids("Command")' = Ids("Command")
      BY <2>1 DEF Ids
    <2> QED
      BY <2>1, <2>2, SenderStutters
  <1>5. ASSUME NEW e \in send_queue, Sent(e)
        PROVE  [Abstract!SenderNext]_(Abstract!senderVars)
    <2>1. CASE e.type = "Command"
      BY <1>5, <2>1, SentIsTransmit DEF Abstract!SenderNext
    <2>2. CASE e.type # "Command"
      <3>1. /\ outgoing_p_ids'["Command"] = outgoing_p_ids["Command"]
            /\ transmitted'["Command"] = transmitted["Command"]
        BY <1>0, <1>5, <2>2 DEF Sent, IInv, TypeOK
      <3>2. Ids("Command")' = Ids("Command")
        BY <1>0, <1>5, SentFacts
      <3> QED
        BY <3>1, <3>2, SenderStutters
    <2> QED
      BY <2>1, <2>2
  <1> QED
    BY <1>1, <1>2, <1>3, <1>4, <1>5 DEF Next, PollSend, PollResend

\* While the ids do not wrap, the resender keeps what ReliableSender promises
\* for commands, whatever the window and the timers do: commands go out for
\* the first time in order and within the window, and a command leaves the
\* queue only when it was sent and acknowledged.
THEOREM ResenderIsReliable ==
    ASSUME NoIdWraps PROVE Spec => ImplementsSender
  <1>1. Init => IInv /\ OrderInv /\ Abstract!SenderInit
    <2>1. Init => Abstract!SenderInit
      BY DEF Init, Abstract!SenderInit, CommandTypes, Types, Ids, Part
    <2> QED
      BY <2>1, InitIInv, InitOrderInv
  <1>2. IInv /\ OrderInv /\ [Next]_vars
            => IInv' /\ OrderInv' /\ [Abstract!SenderNext]_(Abstract!senderVars)
    BY NextOrderInv, NextRefines
  <1> QED
    BY <1>1, <1>2, PTL DEF Spec, ImplementsSender, Abstract!SenderSpec

=============================================================================
