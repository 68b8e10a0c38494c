-------------------------- MODULE ConnectionProofs --------------------------
(***************************************************************************)
(* Proofs about the two halves of a connection: the poll loop that reads   *)
(* datagrams and sends packets, and the book that follows the server.      *)
(*                                                                         *)
(* The poll loop, for every capacity of acks_to_send (at least two), every *)
(* window and every number of datagrams, packets and pings. That the task  *)
(* does not sleep on work is not inductive: whether it may return Pending  *)
(* depends on what the stages before have left behind. StagesArmed says,   *)
(* for every stage, which waker stands for the work that the stages before *)
(* could not do.                                                           *)
(*                                                                         *)
(* The book, for any finite number of channels and clients and every order *)
(* in which a hash map may be walked through. A command changes the parent *)
(* and the predecessor of one channel; that the predecessors of all others *)
(* still describe the tree of the server follows from what an insertion    *)
(* into, and a removal from, a list of siblings does to the two channels   *)
(* that follow (Place). What is told is undone event by event: a book      *)
(* leads to another when whatever the events of the first lead back to,    *)
(* those of the second do (Leads), and every operator that changes a book  *)
(* does so together with its event. The server may send several commands   *)
(* in a step; they are followed one by one, with the books that lie        *)
(* between (Several commands at once). BookInv relates the book with the   *)
(* server between the steps.                                               *)
(***************************************************************************)
EXTENDS PollLoop, Book, SequenceTheorems, FiniteSetTheorems, TLAPS

\* A packet is at most once in acks_to_send, so that it is not sent again
\* after poll_send_acks has taken it out.
AcksDistinct ==
    \A i, j \in 1 .. Len(acks_to_send) : acks_to_send[i] = acks_to_send[j] => i = j

\* The types of the packets that are not commands.
AcksTyped ==
    /\ made \in Nat
    /\ gone \in SUBSET (0 .. made - 1)
    /\ acks_to_send \in Seq((0 .. made - 1) \ gone)
    /\ AcksDistinct

\* The types of the Boolean variables, and of all others.
FlagsTyped ==
    /\ writable \in BOOLEAN /\ due \in BOOLEAN /\ woken \in BOOLEAN
    /\ recv_waker \in BOOLEAN /\ send_waker \in BOOLEAN
    /\ resend_timer \in BOOLEAN

RestTyped ==
    /\ FlagsTyped
    /\ inbox \in Seq(Datagram)
    /\ pc \in {"idle", "acks", "resend", "ping", "items", "recv", "ended", "failed"}
    /\ stream_items \in Seq(Items)
    /\ state \in {"Connected", "Disconnected"}
    /\ arrived \in 0 .. MaxArrivals
    /\ queued \in 0 .. MaxQueued /\ pinged \in 0 .. MaxPings

\* Every ack is paid for by a datagram that has left the inbox, and so on.
Counted == made + Len(inbox) <= arrived + pinged

\* The types of the queues of the resender. The heap holds a packet as long as
\* one is not acknowledged, so that poll_resend always finds something to wait
\* for.
QueuesTyped ==
    /\ unacked \in SUBSET (0 .. queued - 1) /\ send_queue \in SUBSET (0 .. queued - 1)
    /\ fresh \in SUBSET (0 .. queued - 1)
    /\ last \in [0 .. MaxQueued - 1 -> 0 .. MaxQueued]
    /\ unacked # {} => send_queue # {}

\* After poll_send_acks: acks that could not be sent are waited for.
AcksArmed ==
    pc \in {"resend", "ping"} => acks_to_send = <<>> \/ send_waker \/ woken

\* After poll_ping, which may have added a ping without a waker.
PingArmed ==
    pc = "items" => Len(acks_to_send) <= 1 \/ send_waker \/ woken

\* The timer runs for the packet on top of the heap.
Scheduled == resend_timer /\ \E n \in unacked : IsTop(n) /\ last[n] > 0

\* After poll_resend: what is not acknowledged is waited for.
WindowArmed ==
    pc \in {"ping", "items", "recv", "idle"} /\ unacked # {}
        => send_waker \/ woken \/ Scheduled

\* A task that sleeps waits for the socket to become readable, or it has
\* stopped reading and waits for it to become writable.
ReadArmed ==
    Asleep => \/ recv_waker /\ inbox = <<>>
              \/ Len(acks_to_send) >= SinkCapacity /\ send_waker

\* The socket is read only when all items were returned.
ItemsFirst == pc = "recv" \/ Asleep => stream_items = <<>>

StagesArmed == AcksArmed /\ PingArmed /\ WindowArmed /\ ReadArmed /\ ItemsFirst

IInv == AcksTyped /\ RestTyped /\ QueuesTyped /\ Counted /\ StagesArmed

-----------------------------------------------------------------------------
(* The queue acks_to_send.                                                 *)

\* A packet that is put at the end of acks_to_send is a new one.
LEMMA AppendAck ==
    ASSUME NEW n \in Nat, NEW G, NEW s \in Seq((0 .. n - 1) \ G), G \subseteq 0 .. n - 1,
           \A i, j \in 1 .. Len(s) : s[i] = s[j] => i = j
    PROVE  LET r == Append(s, n)
           IN  /\ r \in Seq((0 .. n) \ G)
               /\ \A i, j \in 1 .. Len(r) : r[i] = r[j] => i = j
  <1>1. s \in Seq((0 .. n) \ G)
    OBVIOUS
  <1>2. n \in (0 .. n) \ G
    OBVIOUS
  <1>3. Append(s, n) \in Seq((0 .. n) \ G)
    BY <1>1, <1>2
  <1>4. \A i \in 1 .. Len(s) : s[i] < n
    OBVIOUS
  <1> QED
    BY <1>3, <1>4

\* What the elements of a sequence are decides what it is a sequence of.
LEMMA SeqOfElements ==
    ASSUME NEW S, NEW T, NEW s \in Seq(S), \A i \in 1 .. Len(s) : s[i] \in T
    PROVE  s \in Seq(T)
  <1>1. Len(s) \in Nat /\ s \in [1 .. Len(s) -> S]
    BY LenProperties
  <1>2. s \in [1 .. Len(s) -> T]
    BY <1>1
  <1> QED
    BY <1>1, <1>2, SeqDef

\* A packet that is queued (a ping, a voice packet, an ack) is new.
LEMMA QueueAck ==
    ASSUME AcksTyped, acks_to_send' = Append(acks_to_send, made),
           made' = made + 1, UNCHANGED gone
    PROVE  AcksTyped' /\ Len(acks_to_send') = Len(acks_to_send) + 1
  <1>1. made + 1 - 1 = made /\ made \in Nat
    BY DEF AcksTyped
  <1>2. /\ acks_to_send' \in Seq((0 .. made) \ gone)
        /\ \A i, j \in 1 .. Len(acks_to_send') :
             acks_to_send'[i] = acks_to_send'[j] => i = j
    BY AppendAck DEF AcksTyped, AcksDistinct
  <1>3. Len(acks_to_send') = Len(acks_to_send) + 1
    BY AppendProperties DEF AcksTyped
  <1> QED
    BY <1>1, <1>2, <1>3 DEF AcksTyped, AcksDistinct

\* poll_send_acks: the packet that is sent is not sent again.
LEMMA SendAck ==
    ASSUME AcksTyped, acks_to_send # <<>>, acks_to_send' = Tail(acks_to_send),
           gone' = gone \cup {Head(acks_to_send)}, made' = made
    PROVE  AcksTyped'
  <1>1. /\ Len(Tail(acks_to_send)) = Len(acks_to_send) - 1 /\ Len(acks_to_send) \in Nat \ {0}
        /\ \A i \in 1 .. Len(Tail(acks_to_send)) : Tail(acks_to_send)[i] = acks_to_send[i + 1]
        /\ Head(acks_to_send) = acks_to_send[1]
        /\ Tail(acks_to_send) \in Seq((0 .. made - 1) \ gone)
    BY HeadTailProperties, LenProperties, EmptySeq DEF AcksTyped
  <1>2. /\ Head(acks_to_send) \in 0 .. made - 1
        /\ \A i \in 1 .. Len(acks_to_send) : acks_to_send[i] \in (0 .. made - 1) \ gone
    BY <1>1, ElementOfSeq DEF AcksTyped
  <1>3. \A i \in 1 .. Len(Tail(acks_to_send)) :
          Tail(acks_to_send)[i] \in (0 .. made - 1) \ (gone \cup {Head(acks_to_send)})
    BY <1>1, <1>2 DEF AcksTyped, AcksDistinct
  <1>4. Tail(acks_to_send) \in Seq((0 .. made - 1) \ (gone \cup {Head(acks_to_send)}))
    BY <1>1, <1>3, SeqOfElements
  <1> QED
    BY <1>1, <1>2, <1>4 DEF AcksTyped, AcksDistinct

\* send_ack_packet keeps the queue, and arms the waker if the ack waits.
LEMMA MakeAckFacts ==
    ASSUME AcksTyped, MakeAck
    PROVE  /\ AcksTyped' /\ made' = made + 1
           /\ \/ acks_to_send' = acks_to_send /\ send_waker' = send_waker
              \/ send_waker' = TRUE
  <1>1. CASE writable /\ gone' = gone \cup {made} /\ UNCHANGED <<acks_to_send, send_waker>>
    <2>1. made' = made + 1 /\ made \in Nat
      BY DEF MakeAck, AcksTyped
    <2>2. \A i \in 1 .. Len(acks_to_send) : acks_to_send[i] \in (0 .. made' - 1) \ gone'
      BY <1>1, <2>1, ElementOfSeq DEF AcksTyped
    <2>3. acks_to_send \in Seq((0 .. made' - 1) \ gone')
      BY <2>2, SeqOfElements DEF AcksTyped
    <2> QED
      BY <1>1, <2>1, <2>3 DEF AcksTyped, AcksDistinct
  <1>2. CASE ~writable /\ acks_to_send' = Append(acks_to_send, made) /\ send_waker' = TRUE
             /\ UNCHANGED gone
    BY <1>2, QueueAck DEF MakeAck
  <1> QED
    BY <1>1, <1>2 DEF MakeAck

-----------------------------------------------------------------------------
(* The queues of the resender.                                             *)

\* A set of numbers has a smallest one.
LEMMA SmallestNumber ==
  ASSUME NEW S, S \subseteq Nat, S # {}
  PROVE  \E n \in S : \A m \in S : n <= m
  <1>1. PICK n \in S : \A m \in S : ~(<<m, n>> \in OpToRel(<, Nat))
    BY WFMin, NatLessThanWellFounded
  <1>2. \A m \in S : ~(m < n)
    BY <1>1 DEF OpToRel
  <1> QED
    BY <1>2

\* fill_up_send_queue gives the heap a packet if there is one.
LEMMA FilledFacts ==
    ASSUME NEW top \in Int, NEW Q, NEW H, Q \subseteq 0 .. top, H \subseteq 0 .. top,
           NEW w \in 1 .. Window
    PROVE  /\ Filled(Q, H, w) \subseteq 0 .. top
           /\ Q # {} => Filled(Q, H, w) # {}
  <1>1. Filled(Q, H, w) \subseteq 0 .. top
    BY DEF Filled
  <1>2. ASSUME Q # {}, H = {} PROVE Filled(Q, H, w) # {}
    <2>1. Q \subseteq Nat
      OBVIOUS
    <2>2. PICK n \in Q : \A m \in Q : n <= m
      BY <1>2, <2>1, SmallestNumber
    <2>0. \A m \in Q : ~(m < n)
      BY <2>1, <2>2
    <2>3. H \cup {m \in Q \ H : m < n} = {}
      BY <1>2, <2>0, Zenon
    <2>4. Cardinality(H \cup {m \in Q \ H : m < n}) = 0
      BY <2>3, FS_EmptySet
    <2>5. 0 < w /\ n \in Q \ H
      BY <1>2, PollLoopAssumption
    <2>6. n \in Filled(Q, H, w)
      BY <2>4, <2>5 DEF Filled
    <2> QED
      BY <2>6
  <1>3. ASSUME H # {} PROVE Filled(Q, H, w) # {}
    BY <1>3 DEF Filled
  <1> QED
    BY <1>1, <1>2, <1>3

\* The order of the last transmissions has no more places than packets.
LEMMA OrderedTyped ==
    ASSUME NEW times
    PROVE  Ordered(times) \in [0 .. MaxQueued - 1 -> 0 .. MaxQueued]
  <1>1. /\ IsFiniteSet(0 .. MaxQueued - 1)
        /\ Cardinality(0 .. MaxQueued - 1) = MaxQueued
    BY FS_Interval, PollLoopAssumption
  <1>2. ASSUME NEW S \in SUBSET (0 .. MaxQueued - 1) PROVE Cardinality(S) \in 0 .. MaxQueued
    <2>1. IsFiniteSet(S) /\ Cardinality(S) <= MaxQueued
      BY <1>1, FS_Subset
    <2>2. Cardinality(S) \in Nat
      BY <2>1, FS_CardinalityType
    <2> QED
      BY <2>1, <2>2, PollLoopAssumption
  <1> QED
    BY <1>2 DEF Ordered

\* Steps that leave the resender alone.
LEMMA QuietQueues ==
    ASSUME QueuesTyped, queued \in Nat, UNCHANGED resendVars,
           queued' = queued \/ queued' = queued + 1
    PROVE  QueuesTyped' /\ unacked' = unacked /\ Scheduled' = Scheduled
  <1>1. /\ unacked' = unacked /\ send_queue' = send_queue /\ last' = last
        /\ fresh' = fresh /\ resend_timer' = resend_timer
    BY DEF resendVars
  <1>2. QueuesTyped'
    BY <1>1 DEF QueuesTyped
  <1>3. Scheduled' = Scheduled
    BY <1>1 DEF Scheduled, IsTop
  <1> QED
    BY <1>1, <1>2, <1>3

-----------------------------------------------------------------------------
(* The invariant of the poll loop.                                         *)

\* It holds when the handshake is over.
LEMMA InitIInv == Init => IInv
  <1> SUFFICES ASSUME Init PROVE IInv
    OBVIOUS
  <1>1. Len(<<>>) = 0 /\ \A S : <<>> \in Seq(S)
    BY EmptySeq
  <1>2. AcksTyped /\ Counted
    BY <1>1 DEF Init, AcksTyped, AcksDistinct, Counted
  <1>3. FlagsTyped
    BY DEF Init, FlagsTyped
  <1>5. RestTyped
    BY <1>1, <1>3, PollLoopAssumption DEF Init, RestTyped
  <1>4. StagesArmed
    BY DEF Init, StagesArmed, AcksArmed, PingArmed, WindowArmed, ReadArmed, ItemsFirst,
           Asleep
  <1>6. QueuesTyped
    BY PollLoopAssumption DEF Init, QueuesTyped
  <1> QED
    BY <1>2, <1>5, <1>6, <1>4 DEF IInv

\* Steps that leave acks_to_send alone.
LEMMA QuietAcks == AcksTyped /\ UNCHANGED outVars => AcksTyped'
  BY DEF AcksTyped, AcksDistinct, outVars

\* What the socket, the timers and the application do.
LEMMA EnvironmentStep ==
    ASSUME IInv,
           (\E d \in Datagram : Arrive(d)) \/ BecomeWritable \/ BecomeFull \/ TimerFires
             \/ ResendTimerFires \/ AppSend \/ AppSendVoice \/ PollFails
    PROVE  IInv'
  <1> USE DEF IInv
  <1>1. ASSUME NEW d \in Datagram, Arrive(d) PROVE IInv'
    <2>9. QueuesTyped' /\ unacked' = unacked /\ Scheduled' = Scheduled
      BY <1>1, QuietQueues, PollLoopAssumption
      DEF Arrive, boundVars, queueVars, resendVars, RestTyped
    <2>1. inbox' \in Seq(Datagram) /\ Len(inbox') = Len(inbox) + 1 /\ Len(inbox) \in Nat
      BY <1>1, AppendProperties, LenProperties DEF Arrive, RestTyped
    <2>2. AcksTyped'
      BY <1>1, QuietAcks DEF Arrive
    <2>6. FlagsTyped'
      BY <1>1 DEF Arrive, RestTyped, FlagsTyped, resendVars
    <2>3. RestTyped'
      BY <1>1, <2>1, <2>6, PollLoopAssumption DEF Arrive, RestTyped, resendVars
    <2>4. Counted'
      BY <1>1, <2>1 DEF Arrive, Counted, RestTyped, AcksTyped, resendVars, outVars
    <2>5. StagesArmed'
      BY <1>1, <2>9, <2>1 DEF Arrive, StagesArmed, AcksArmed, PingArmed, WindowArmed, ReadArmed,
         ItemsFirst, Asleep, RestTyped, FlagsTyped, resendVars, outVars
    <2> QED
      BY <2>2, <2>3, <2>4, <2>5, <2>9
  <1>2. CASE BecomeWritable
    <2>9. QueuesTyped' /\ unacked' = unacked /\ Scheduled' = Scheduled
      BY <1>2, QuietQueues, PollLoopAssumption
      DEF BecomeWritable, boundVars, queueVars, resendVars, RestTyped
    <2>1. AcksTyped'
      BY <1>2, QuietAcks DEF BecomeWritable
    <2>0. FlagsTyped'
      BY <1>2 DEF BecomeWritable, RestTyped, FlagsTyped, socketVars, wakerVars, resendVars
    <2>2. RestTyped'
      BY <1>2, <2>0, PollLoopAssumption
      DEF BecomeWritable, RestTyped, socketVars, wakerVars, outVars, resendVars, boundVars
    <2>3. Counted'
      BY <1>2
      DEF BecomeWritable, Counted, RestTyped, AcksTyped, socketVars, outVars, resendVars, boundVars
    <2>4. StagesArmed'
      BY <1>2, <2>9 DEF BecomeWritable, StagesArmed, AcksArmed, PingArmed, WindowArmed, ReadArmed,
         ItemsFirst, Asleep, RestTyped, FlagsTyped, socketVars, wakerVars, outVars, resendVars
    <2> QED
      BY <2>1, <2>2, <2>3, <2>4, <2>9
  <1>3. CASE BecomeFull
    <2>9. QueuesTyped' /\ unacked' = unacked /\ Scheduled' = Scheduled
      BY <1>3, QuietQueues, PollLoopAssumption
      DEF BecomeFull, boundVars, queueVars, resendVars, RestTyped
    <2>1. AcksTyped'
      BY <1>3, QuietAcks DEF BecomeFull
    <2>0. FlagsTyped'
      BY <1>3 DEF BecomeFull, RestTyped, FlagsTyped, socketVars, wakerVars, resendVars
    <2>2. RestTyped'
      BY <1>3, <2>0, PollLoopAssumption
      DEF BecomeFull, RestTyped, socketVars, wakerVars, outVars, resendVars, boundVars
    <2>3. Counted'
      BY <1>3
      DEF BecomeFull, Counted, RestTyped, AcksTyped, socketVars, outVars, resendVars, boundVars
    <2>4. StagesArmed'
      BY <1>3, <2>9 DEF BecomeFull, StagesArmed, AcksArmed, PingArmed, WindowArmed, ReadArmed,
         ItemsFirst, Asleep, RestTyped, FlagsTyped, socketVars, wakerVars, outVars, resendVars
    <2> QED
      BY <2>1, <2>2, <2>3, <2>4, <2>9
  <1>4. CASE TimerFires
    <2>9. QueuesTyped' /\ unacked' = unacked /\ Scheduled' = Scheduled
      BY <1>4, QuietQueues, PollLoopAssumption
      DEF TimerFires, boundVars, queueVars, resendVars, RestTyped
    <2>1. AcksTyped'
      BY <1>4, QuietAcks DEF TimerFires
    <2>0. FlagsTyped'
      BY <1>4 DEF TimerFires, RestTyped, FlagsTyped, socketVars, wakerVars, resendVars
    <2>2. RestTyped'
      BY <1>4, <2>0, PollLoopAssumption
      DEF TimerFires, RestTyped, socketVars, wakerVars, outVars, resendVars, boundVars
    <2>3. Counted'
      BY <1>4
      DEF TimerFires, Counted, RestTyped, AcksTyped, socketVars, outVars, resendVars, boundVars
    <2>4. StagesArmed'
      BY <1>4, <2>9 DEF TimerFires, StagesArmed, AcksArmed, PingArmed, WindowArmed, ReadArmed,
         ItemsFirst, Asleep, RestTyped, FlagsTyped, socketVars, wakerVars, outVars, resendVars
    <2> QED
      BY <2>1, <2>2, <2>3, <2>4, <2>9
  <1>8. CASE ResendTimerFires
    <2>1. AcksTyped'
      BY <1>8, QuietAcks DEF ResendTimerFires
    <2>0. FlagsTyped'
      BY <1>8 DEF ResendTimerFires, RestTyped, FlagsTyped, socketVars, wakerVars
    <2>2. RestTyped'
      BY <1>8, <2>0 DEF ResendTimerFires, RestTyped, socketVars, wakerVars, boundVars
    <2>3. Counted'
      BY <1>8 DEF ResendTimerFires, Counted, socketVars, outVars, boundVars
    <2>9. QueuesTyped'
      BY <1>8 DEF ResendTimerFires, QueuesTyped, boundVars
    <2>4. StagesArmed'
      BY <1>8 DEF ResendTimerFires, StagesArmed, AcksArmed, PingArmed, WindowArmed, ReadArmed,
         ItemsFirst, Asleep
    <2> QED
      BY <2>1, <2>2, <2>3, <2>4, <2>9
  <1>5. CASE AppSend
    <2>1. AcksTyped'
      BY <1>5, QuietAcks DEF AppSend
    <2>0. FlagsTyped'
      BY <1>5 DEF AppSend, RestTyped, FlagsTyped, socketVars, wakerVars
    <2>2. RestTyped'
      BY <1>5, <2>0, PollLoopAssumption DEF AppSend, RestTyped, socketVars, wakerVars
    <2>3. Counted'
      BY <1>5 DEF AppSend, Counted, RestTyped, AcksTyped, socketVars, outVars
    <2>4. StagesArmed'
      BY <1>5 DEF AppSend, StagesArmed, AcksArmed, PingArmed, WindowArmed, ReadArmed,
         ItemsFirst, Asleep
    <2>5. QueuesTyped'
      <3>1. queued \in Nat /\ queued' = queued + 1
        BY <1>5, PollLoopAssumption DEF AppSend, RestTyped
      <3>2. unacked' \subseteq 0 .. queued' - 1 /\ send_queue \subseteq 0 .. queued' - 1
        BY <1>5, <3>1 DEF AppSend, QueuesTyped
      <3>3. PICK w \in 1 .. Window : send_queue' = Filled(unacked', send_queue, w)
        BY <1>5 DEF AppSend
      <3>4. queued' \in Nat /\ send_queue' \subseteq 0 .. queued' - 1 /\ send_queue' # {}
        <4>1. queued \in unacked'
          BY <1>5 DEF AppSend
        <4>2. queued' - 1 \in Int /\ queued' \in Nat
          BY <3>1
        <4>3. /\ Filled(unacked', send_queue, w) \subseteq 0 .. queued' - 1
              /\ unacked' # {} => Filled(unacked', send_queue, w) # {}
          BY <3>2, <4>2, FilledFacts
        <4> QED
          BY <3>3, <4>1, <4>2, <4>3
      <3> QED
        <4>1. fresh' \in SUBSET (0 .. queued' - 1) /\ last' = last
          BY <1>5, <3>1 DEF AppSend, QueuesTyped
        <4> QED
          BY <3>2, <3>4, <4>1 DEF QueuesTyped
    <2> QED
      BY <2>1, <2>2, <2>3, <2>4, <2>5
  <1>6. CASE PollFails
    <2>9. QueuesTyped' /\ unacked' = unacked /\ Scheduled' = Scheduled
      BY <1>6, QuietQueues, PollLoopAssumption
      DEF PollFails, boundVars, queueVars, resendVars, RestTyped
    <2>1. AcksTyped'
      BY <1>6, QuietAcks DEF PollFails
    <2>0. FlagsTyped'
      BY <1>6 DEF PollFails, RestTyped, FlagsTyped, socketVars, wakerVars, resendVars
    <2>2. RestTyped'
      BY <1>6, <2>0, PollLoopAssumption
      DEF PollFails, RestTyped, socketVars, wakerVars, outVars, resendVars, boundVars
    <2>3. Counted'
      BY <1>6
      DEF PollFails, Counted, RestTyped, AcksTyped, socketVars, outVars, resendVars, boundVars
    <2>4. StagesArmed'
      BY <1>6, <2>9 DEF PollFails, StagesArmed, AcksArmed, PingArmed, WindowArmed, ReadArmed,
         ItemsFirst, Asleep, RestTyped, FlagsTyped, socketVars, wakerVars, outVars, resendVars
    <2> QED
      BY <2>1, <2>2, <2>3, <2>4, <2>9
  <1>7. CASE AppSendVoice
    <2>9. QueuesTyped' /\ unacked' = unacked /\ Scheduled' = Scheduled
      BY <1>7, QuietQueues, PollLoopAssumption
      DEF AppSendVoice, boundVars, queueVars, resendVars, RestTyped
    <2>1. AcksTyped'
      BY <1>7, QueueAck DEF AppSendVoice
    <2>0. FlagsTyped'
      BY <1>7 DEF AppSendVoice, RestTyped, FlagsTyped, socketVars, wakerVars, resendVars
    <2>2. RestTyped'
      BY <1>7, <2>0, PollLoopAssumption
      DEF AppSendVoice, RestTyped, socketVars, wakerVars, resendVars, boundVars
    <2>3. Counted'
      BY <1>7, LenProperties
      DEF AppSendVoice, Counted, RestTyped, AcksTyped, socketVars, resendVars
    <2>4. StagesArmed'
      BY <1>7, <2>9 DEF AppSendVoice, StagesArmed, AcksArmed, PingArmed, WindowArmed, ReadArmed,
         ItemsFirst, Asleep, RestTyped, FlagsTyped, socketVars, wakerVars, resendVars
    <2> QED
      BY <2>1, <2>2, <2>3, <2>4, <2>9
  <1> QED
    BY <1>1, <1>2, <1>3, <1>4, <1>5, <1>6, <1>7, <1>8

\* The stages up to the items.
LEMMA StageStep ==
    ASSUME IInv,
           StartPoll \/ SendQueuedAck \/ AcksEnd \/ ResendEnd \/ PollPing \/ ReturnItem
             \/ NoItem \/ RecvPending
    PROVE  IInv'
  <1> USE DEF IInv
  <1>1. CASE StartPoll
    <2>9. QueuesTyped' /\ unacked' = unacked /\ Scheduled' = Scheduled
      BY <1>1, QuietQueues, PollLoopAssumption
      DEF StartPoll, boundVars, queueVars, resendVars, RestTyped
    <2>1. AcksTyped'
      BY <1>1, QuietAcks DEF StartPoll
    <2>0. FlagsTyped'
      BY <1>1 DEF StartPoll, RestTyped, FlagsTyped, socketVars, wakerVars, resendVars
    <2>2. RestTyped'
      BY <1>1, <2>0, PollLoopAssumption
      DEF StartPoll, RestTyped, socketVars, wakerVars, outVars, resendVars, boundVars
    <2>3. Counted'
      BY <1>1
      DEF StartPoll, Counted, RestTyped, AcksTyped, socketVars, outVars, resendVars, boundVars
    <2>4. StagesArmed'
      BY <1>1, <2>9 DEF StartPoll, StagesArmed, AcksArmed, PingArmed, WindowArmed, ReadArmed,
         ItemsFirst, Asleep, RestTyped, FlagsTyped, socketVars, wakerVars, outVars, resendVars
    <2> QED
      BY <2>1, <2>2, <2>3, <2>4, <2>9
  <1>2. CASE AcksEnd
    <2>9. QueuesTyped' /\ unacked' = unacked /\ Scheduled' = Scheduled
      BY <1>2, QuietQueues, PollLoopAssumption
      DEF AcksEnd, boundVars, queueVars, resendVars, RestTyped
    <2>1. AcksTyped'
      BY <1>2, QuietAcks DEF AcksEnd
    <2>0. FlagsTyped'
      BY <1>2 DEF AcksEnd, RestTyped, FlagsTyped, socketVars, wakerVars, resendVars
    <2>2. RestTyped'
      BY <1>2, <2>0, PollLoopAssumption
      DEF AcksEnd, RestTyped, socketVars, wakerVars, outVars, resendVars, boundVars
    <2>3. Counted'
      BY <1>2
      DEF AcksEnd, Counted, RestTyped, AcksTyped, socketVars, outVars, resendVars, boundVars
    <2>4. StagesArmed'
      BY <1>2, <2>9 DEF AcksEnd, StagesArmed, AcksArmed, PingArmed, WindowArmed, ReadArmed,
         ItemsFirst, Asleep, RestTyped, FlagsTyped, socketVars, wakerVars, outVars, resendVars
    <2> QED
      BY <2>1, <2>2, <2>3, <2>4, <2>9
  <1>4. CASE ResendEnd
    <2>1. AcksTyped'
      BY <1>4, QuietAcks DEF ResendEnd
    <2>0. FlagsTyped'
      BY <1>4 DEF ResendEnd, RestTyped, FlagsTyped, socketVars
    <2>2. RestTyped'
      BY <1>4, <2>0, PollLoopAssumption DEF ResendEnd, RestTyped, socketVars, boundVars
    <2>3. Counted'
      BY <1>4 DEF ResendEnd, Counted, RestTyped, AcksTyped, socketVars, outVars, boundVars
    <2>9. QueuesTyped'
      BY <1>4 DEF ResendEnd, QueuesTyped, boundVars
    <2>5. unacked' # {} => send_waker' \/ Scheduled'
      BY <1>4 DEF ResendEnd, QueuesTyped, Scheduled, IsTop
    <2>4. StagesArmed'
      BY <1>4, <2>5 DEF ResendEnd, StagesArmed, AcksArmed, PingArmed, WindowArmed, ReadArmed,
         ItemsFirst, Asleep, RestTyped, FlagsTyped, outVars
    <2> QED
      BY <2>1, <2>2, <2>3, <2>4, <2>9
  <1>5. CASE ReturnItem
    <2>9. QueuesTyped' /\ unacked' = unacked /\ Scheduled' = Scheduled
      BY <1>5, QuietQueues, PollLoopAssumption
      DEF ReturnItem, boundVars, queueVars, resendVars, RestTyped
    <2>1. AcksTyped'
      BY <1>5, QuietAcks DEF ReturnItem
    <2>0. FlagsTyped'
      BY <1>5 DEF ReturnItem, Return, RestTyped, FlagsTyped, socketVars, wakerVars, resendVars
    <2>2. RestTyped'
      BY <1>5, <2>0, PollLoopAssumption
      DEF ReturnItem, Return, RestTyped, socketVars, wakerVars, outVars, resendVars, boundVars
    <2>3. Counted'
      BY <1>5
      DEF ReturnItem, Counted, RestTyped, AcksTyped, socketVars, outVars, resendVars, boundVars
    <2>4. StagesArmed'
      BY <1>5, <2>9 DEF ReturnItem, Return, StagesArmed, AcksArmed, PingArmed, WindowArmed, ReadArmed,
         ItemsFirst, Asleep, RestTyped, FlagsTyped, socketVars, wakerVars, outVars, resendVars
    <2> QED
      BY <2>1, <2>2, <2>3, <2>4, <2>9
  <1>6. CASE NoItem
    <2>9. QueuesTyped' /\ unacked' = unacked /\ Scheduled' = Scheduled
      BY <1>6, QuietQueues, PollLoopAssumption
      DEF NoItem, boundVars, queueVars, resendVars, RestTyped
    <2>1. AcksTyped'
      BY <1>6, QuietAcks DEF NoItem
    <2>0. FlagsTyped'
      BY <1>6 DEF NoItem, RestTyped, FlagsTyped, socketVars, wakerVars, resendVars
    <2>2. RestTyped'
      BY <1>6, <2>0, PollLoopAssumption
      DEF NoItem, RestTyped, socketVars, wakerVars, outVars, resendVars, boundVars
    <2>3. Counted'
      BY <1>6
      DEF NoItem, Counted, RestTyped, AcksTyped, socketVars, outVars, resendVars, boundVars
    <2>4. StagesArmed'
      BY <1>6, <2>9, LenProperties, PollLoopAssumption
      DEF NoItem, AcksTyped, StagesArmed, AcksArmed, PingArmed, WindowArmed, ReadArmed,
         ItemsFirst, Asleep, RestTyped, FlagsTyped, socketVars, wakerVars, outVars, resendVars
    <2> QED
      BY <2>1, <2>2, <2>3, <2>4, <2>9
  <1>7. CASE RecvPending
    <2>9. QueuesTyped' /\ unacked' = unacked /\ Scheduled' = Scheduled
      BY <1>7, QuietQueues, PollLoopAssumption
      DEF RecvPending, boundVars, queueVars, resendVars, RestTyped
    <2>1. AcksTyped'
      BY <1>7, QuietAcks DEF RecvPending
    <2>0. FlagsTyped'
      BY <1>7 DEF RecvPending, RestTyped, FlagsTyped, socketVars, wakerVars, resendVars
    <2>2. RestTyped'
      BY <1>7, <2>0, PollLoopAssumption
      DEF RecvPending, RestTyped, socketVars, wakerVars, outVars, resendVars, boundVars
    <2>3. Counted'
      BY <1>7
      DEF RecvPending, Counted, RestTyped, AcksTyped, socketVars, outVars, resendVars, boundVars
    <2>4. StagesArmed'
      BY <1>7, <2>9 DEF RecvPending, StagesArmed, AcksArmed, PingArmed, WindowArmed, ReadArmed,
         ItemsFirst, Asleep, RestTyped, FlagsTyped, socketVars, wakerVars, outVars, resendVars
    <2> QED
      BY <2>1, <2>2, <2>3, <2>4, <2>9
  <1>8. CASE SendQueuedAck
    <2>9. QueuesTyped' /\ unacked' = unacked /\ Scheduled' = Scheduled
      BY <1>8, QuietQueues, PollLoopAssumption
      DEF SendQueuedAck, boundVars, queueVars, resendVars, RestTyped
    <2>6. AcksTyped'
      BY <1>8, SendAck DEF SendQueuedAck
    <2>0. FlagsTyped'
      BY <1>8 DEF SendQueuedAck, RestTyped, FlagsTyped, socketVars, wakerVars, resendVars
    <2>2. RestTyped'
      BY <1>8, <2>0, PollLoopAssumption
      DEF SendQueuedAck, RestTyped, socketVars, wakerVars, resendVars, boundVars
    <2>3. Counted'
      BY <1>8 DEF SendQueuedAck, Counted, socketVars, resendVars, boundVars
    <2>4. StagesArmed'
      BY <1>8, <2>9 DEF SendQueuedAck, StagesArmed, AcksArmed, PingArmed, WindowArmed, ReadArmed,
         ItemsFirst, Asleep, RestTyped, FlagsTyped, socketVars, wakerVars, resendVars
    <2> QED
      BY <2>6, <2>2, <2>3, <2>4, <2>9
  <1>9. CASE PollPing
    <2>9. QueuesTyped' /\ unacked' = unacked /\ Scheduled' = Scheduled
      BY <1>9, QuietQueues, PollLoopAssumption
      DEF PollPing, boundVars, queueVars, resendVars, RestTyped
    <2>1. CASE UNCHANGED <<acks_to_send, made, pinged>>
      <3>1. AcksTyped'
        BY <1>9, <2>1, QuietAcks DEF PollPing, outVars
      <3>2. stream_items' \in Seq(Items)
        BY <1>9, AppendProperties DEF PollPing, RestTyped, Items
      <3>0. FlagsTyped'
        BY <1>9, <2>1 DEF PollPing, RestTyped, FlagsTyped, socketVars, wakerVars, resendVars
      <3>3. RestTyped'
        BY <1>9, <2>1, <3>2, <3>0, PollLoopAssumption
        DEF PollPing, RestTyped, socketVars, resendVars
      <3>4. Counted'
        BY <1>9, <2>1 DEF PollPing, Counted, socketVars, resendVars
      <3>5. StagesArmed'
        BY <1>9, <2>9, <2>1, EmptySeq DEF PollPing, StagesArmed, AcksArmed, PingArmed, WindowArmed,
           ReadArmed, ItemsFirst, Asleep, RestTyped, FlagsTyped, socketVars, resendVars
      <3> QED
        BY <3>1, <3>3, <3>4, <3>5, <2>9
    <2>2. CASE /\ MayPing /\ acks_to_send' = Append(acks_to_send, made)
               /\ made' = made + 1 /\ pinged' = pinged + 1
      <3>1. AcksTyped' /\ Len(acks_to_send') = Len(acks_to_send) + 1
        BY <1>9, <2>2, QueueAck DEF PollPing
      <3>2. stream_items' \in Seq(Items)
        BY <1>9, AppendProperties DEF PollPing, RestTyped, Items
      <3>0. FlagsTyped'
        BY <1>9, <2>2 DEF PollPing, RestTyped, FlagsTyped, socketVars, wakerVars, resendVars
      <3>3. RestTyped'
        BY <1>9, <2>2, <3>2, <3>0, PollLoopAssumption
        DEF PollPing, MayPing, RestTyped, socketVars, resendVars
      <3>4. Counted'
        BY <1>9, <2>2, LenProperties
        DEF PollPing, Counted, AcksTyped, RestTyped, socketVars, resendVars
      <3>5. StagesArmed'
        BY <1>9, <2>9, <2>2, <3>1, EmptySeq DEF PollPing, StagesArmed, AcksArmed, PingArmed,
           WindowArmed, ReadArmed, ItemsFirst, Asleep, RestTyped, FlagsTyped, socketVars,
           resendVars
      <3> QED
        BY <3>1, <3>3, <3>4, <3>5, <2>9
    <2> QED
      BY <1>9, <2>1, <2>2 DEF PollPing
  <1> QED
    BY <1>1, <1>2, <1>4, <1>5, <1>6, <1>7, <1>8, <1>9

\* poll_resend sends packets and drops what was acknowledged; nothing is armed
\* before it ends.
LEMMA ResendStep ==
    ASSUME IInv, DropAcked \/ SendFirst \/ SendAgain
    PROVE  IInv'
  <1> USE DEF IInv
  <1>1. /\ pc = "resend" /\ UNCHANGED unacked
        /\ UNCHANGED <<socketVars, wakerVars, woken, pc, stream_items, outVars,
                       resend_timer, state, boundVars>>
    BY DEF DropAcked, SendFirst, SendAgain, Transmit
  <1>2. AcksTyped'
    BY <1>1, QuietAcks
  <1>4. RestTyped'
    BY <1>1 DEF RestTyped, FlagsTyped, socketVars, wakerVars, boundVars
  <1>5. Counted'
    BY <1>1 DEF Counted, socketVars, outVars, boundVars
  <1>6. StagesArmed'
    BY <1>1 DEF StagesArmed, AcksArmed, PingArmed, WindowArmed, ReadArmed, ItemsFirst,
       Asleep, wakerVars, outVars
  <1>7. queued \in Nat /\ queued - 1 \in Int /\ queued' = queued
    BY <1>1, PollLoopAssumption DEF RestTyped, boundVars
  <1>8. last' \in [0 .. MaxQueued - 1 -> 0 .. MaxQueued]
    BY OrderedTyped DEF DropAcked, SendFirst, SendAgain, Transmit
  <1>9. fresh' \in SUBSET (0 .. queued - 1)
    BY DEF DropAcked, SendFirst, SendAgain, Transmit, QueuesTyped
  <1>10. send_queue' \in SUBSET (0 .. queued - 1) /\ (unacked # {} => send_queue' # {})
    <2>1. ASSUME NEW H \in SUBSET (0 .. queued - 1), NEW w \in 1 .. Window,
                 send_queue' = Filled(unacked, H, w)
          PROVE  send_queue' \in SUBSET (0 .. queued - 1) /\ (unacked # {} => send_queue' # {})
      BY <1>7, <2>1, FilledFacts DEF QueuesTyped
    <2>2. CASE DropAcked
      <3>1. PICK n \in send_queue \ unacked, w \in 1 .. Window :
              send_queue' = Filled(unacked, send_queue \ {n}, w)
        BY <2>2 DEF DropAcked
      <3>2. send_queue \ {n} \in SUBSET (0 .. queued - 1)
        BY DEF QueuesTyped
      <3> QED
        BY <2>1, <3>1, <3>2
    <2>3. CASE SendFirst
      BY <2>3 DEF SendFirst, QueuesTyped
    <2>4. CASE SendAgain
      BY <2>1, <2>4 DEF SendAgain
    <2> QED
      BY <2>2, <2>3, <2>4
  <1>11. QueuesTyped'
    BY <1>1, <1>7, <1>8, <1>9, <1>10 DEF QueuesTyped
  <1> QED
    BY <1>2, <1>4, <1>5, <1>6, <1>11

\* What every arm of the receive loop does to the socket.
LEMMA RecvFacts ==
    ASSUME RestTyped, NEW d, Recv(d)
    PROVE  /\ inbox' \in Seq(Datagram) /\ Len(inbox) \in Nat /\ Len(inbox') \in Nat
           /\ Len(inbox') = Len(inbox) - 1
  BY HeadTailProperties, LenProperties DEF Recv, RestTyped

\* poll_incoming_udp_packet: a datagram is handled.
LEMMA RecvStepKeeps ==
    ASSUME IInv, RecvStep
    PROVE  IInv'
  <1> USE DEF IInv
  <1>1. CASE RecvFragment
    <2>9. QueuesTyped' /\ unacked' = unacked /\ Scheduled' = Scheduled
      BY <1>1, QuietQueues, PollLoopAssumption
      DEF RecvFragment, Recv, boundVars, queueVars, resendVars, RestTyped
    <2>1. /\ inbox' \in Seq(Datagram) /\ Len(inbox) \in Nat /\ Len(inbox') \in Nat
          /\ Len(inbox') = Len(inbox) - 1
      BY <1>1, RecvFacts DEF RecvFragment
    <2>2. /\ AcksTyped' /\ made' = made + 1
          /\ \/ acks_to_send' = acks_to_send /\ send_waker' = send_waker
             \/ send_waker' = TRUE
      BY <1>1, MakeAckFacts DEF RecvFragment
    <2>3. FlagsTyped'
      BY <1>1, <2>2 DEF RecvFragment, Recv, Continue, RestTyped, FlagsTyped
    <2>4. stream_items' \in Seq(Items)
      BY <1>1, EmptySeq DEF RecvFragment, Continue, RestTyped, Items
    <2>5. RestTyped'
      BY <1>1, <2>1, <2>3, <2>4, PollLoopAssumption DEF RecvFragment, Recv, Continue, RestTyped, boundVars
    <2>6. Counted'
      BY <1>1, <2>1, <2>2 DEF RecvFragment, Recv, Counted, AcksTyped, RestTyped, boundVars
    <2>7. StagesArmed'
      BY <1>1, <2>9, <2>2 DEF RecvFragment, Recv, Continue, StagesArmed, AcksArmed, PingArmed,
         WindowArmed, ReadArmed, ItemsFirst, Asleep, RestTyped, FlagsTyped, outVars
    <2> QED
      BY <2>2, <2>5, <2>6, <2>7, <2>9
  <1>2. CASE RecvCommand
    <2>9. QueuesTyped' /\ unacked' = unacked /\ Scheduled' = Scheduled
      BY <1>2, QuietQueues, PollLoopAssumption
      DEF RecvCommand, Recv, boundVars, queueVars, resendVars, RestTyped
    <2>1. /\ inbox' \in Seq(Datagram) /\ Len(inbox) \in Nat /\ Len(inbox') \in Nat
          /\ Len(inbox') = Len(inbox) - 1
      BY <1>2, RecvFacts DEF RecvCommand
    <2>2. /\ AcksTyped' /\ made' = made + 1
          /\ \/ acks_to_send' = acks_to_send /\ send_waker' = send_waker
             \/ send_waker' = TRUE
      BY <1>2, MakeAckFacts DEF RecvCommand
    <2>3. FlagsTyped'
      BY <1>2, <2>2 DEF RecvCommand, Recv, Return, RestTyped, FlagsTyped
    <2>0. <<"command">> \in Seq(Items) /\ <<"leftview">> \in Seq(Items)
      BY DEF Items
    <2>4. stream_items' \in Seq(Items)
      BY <1>2, <2>0, EmptySeq DEF RecvCommand
    <2>5. RestTyped'
      BY <1>2, <2>1, <2>3, <2>4, PollLoopAssumption DEF RecvCommand, Recv, Return, RestTyped, boundVars
    <2>6. Counted'
      BY <1>2, <2>1, <2>2 DEF RecvCommand, Recv, Counted, AcksTyped, RestTyped, boundVars
    <2>7. StagesArmed'
      BY <1>2, <2>9, <2>2 DEF RecvCommand, Recv, Return, StagesArmed, AcksArmed, PingArmed,
         WindowArmed, ReadArmed, ItemsFirst, Asleep, RestTyped, FlagsTyped, outVars
    <2> QED
      BY <2>2, <2>5, <2>6, <2>7, <2>9
  <1>3. CASE RecvLeftView
    <2>9. QueuesTyped' /\ unacked' = unacked /\ Scheduled' = Scheduled
      BY <1>3, QuietQueues, PollLoopAssumption
      DEF RecvLeftView, Recv, boundVars, queueVars, resendVars, RestTyped
    <2>1. /\ inbox' \in Seq(Datagram) /\ Len(inbox) \in Nat /\ Len(inbox') \in Nat
          /\ Len(inbox') = Len(inbox) - 1
      BY <1>3, RecvFacts DEF RecvLeftView
    <2>2. /\ AcksTyped' /\ made' = made + 1
          /\ \/ acks_to_send' = acks_to_send /\ send_waker' = send_waker
             \/ send_waker' = TRUE
      BY <1>3, MakeAckFacts DEF RecvLeftView
    <2>3. FlagsTyped'
      BY <1>3, <2>2 DEF RecvLeftView, Recv, Return, RestTyped, FlagsTyped
    <2>4. stream_items' \in Seq(Items)
      BY <1>3, EmptySeq DEF RecvLeftView, Return, RestTyped, Items
    <2>5. RestTyped'
      BY <1>3, <2>1, <2>3, <2>4, PollLoopAssumption DEF RecvLeftView, Recv, Return, RestTyped, boundVars
    <2>6. Counted'
      BY <1>3, <2>1, <2>2 DEF RecvLeftView, Recv, Counted, AcksTyped, RestTyped, boundVars
    <2>7. StagesArmed'
      BY <1>3, <2>9, <2>2 DEF RecvLeftView, Recv, Return, StagesArmed, AcksArmed, PingArmed,
         WindowArmed, ReadArmed, ItemsFirst, Asleep, RestTyped, FlagsTyped, outVars
    <2> QED
      BY <2>2, <2>5, <2>6, <2>7, <2>9
  <1>4. CASE RecvVoice
    <2>9. QueuesTyped' /\ unacked' = unacked /\ Scheduled' = Scheduled
      BY <1>4, QuietQueues, PollLoopAssumption
      DEF RecvVoice, Recv, boundVars, queueVars, resendVars, RestTyped
    <2>1. /\ inbox' \in Seq(Datagram) /\ Len(inbox) \in Nat /\ Len(inbox') \in Nat
          /\ Len(inbox') = Len(inbox) - 1
      BY <1>4, RecvFacts DEF RecvVoice
    <2>2. AcksTyped' /\ made' = made
      BY <1>4, QuietAcks DEF RecvVoice, outVars
    <2>3. FlagsTyped'
      BY <1>4 DEF RecvVoice, Recv, Return, RestTyped, FlagsTyped
    <2>4. stream_items' \in Seq(Items)
      BY <1>4, EmptySeq DEF RecvVoice, Return, RestTyped, Items
    <2>5. RestTyped'
      BY <1>4, <2>1, <2>3, <2>4, PollLoopAssumption DEF RecvVoice, Recv, Return, RestTyped, boundVars
    <2>6. Counted'
      BY <1>4, <2>1, <2>2 DEF RecvVoice, Recv, Counted, AcksTyped, RestTyped, boundVars
    <2>7. StagesArmed'
      BY <1>4, <2>9, <2>2 DEF RecvVoice, Recv, Return, StagesArmed, AcksArmed, PingArmed,
         WindowArmed, ReadArmed, ItemsFirst, Asleep, RestTyped, FlagsTyped, outVars
    <2> QED
      BY <2>2, <2>5, <2>6, <2>7, <2>9
  <1>5. CASE RecvAck
    <2>0. /\ Recv("ack") /\ UNCHANGED <<send_waker, outVars>>
          /\ Return("ack") \/ Continue \/ UNCHANGED <<pc, state>>
      BY <1>5 DEF RecvAck
    <2>1. /\ inbox' \in Seq(Datagram) /\ Len(inbox) \in Nat /\ Len(inbox') \in Nat
          /\ Len(inbox') = Len(inbox) - 1
      BY <2>0, RecvFacts
    <2>2. AcksTyped' /\ made' = made
      BY <2>0, QuietAcks DEF outVars
    <2>3. FlagsTyped'
      BY <1>5 DEF RecvAck, Recv, Return, Continue, RestTyped, FlagsTyped
    <2>4. UNCHANGED stream_items
      BY <1>5 DEF RecvAck, Continue
    <2>5. RestTyped'
      BY <2>0, <2>1, <2>3, <2>4, PollLoopAssumption
      DEF Recv, Return, Continue, RestTyped, boundVars
    <2>6. Counted'
      BY <2>0, <2>1, <2>2 DEF Recv, Counted, AcksTyped, RestTyped, boundVars
    <2>7. CASE UNCHANGED <<woken, queueVars>> /\ Continue
      <3>1. QueuesTyped' /\ unacked' = unacked /\ Scheduled' = Scheduled
        BY <2>0, <2>7, QuietQueues, PollLoopAssumption
        DEF Recv, RestTyped, queueVars, resendVars, boundVars
      <3>2. StagesArmed'
        BY <2>0, <2>7, <3>1 DEF Recv, Continue, StagesArmed, AcksArmed, PingArmed, WindowArmed,
           ReadArmed, ItemsFirst, Asleep, RestTyped, FlagsTyped, outVars
      <3> QED
        BY <2>2, <2>5, <2>6, <3>1, <3>2
    <2>8. CASE \E n \in unacked :
                 /\ AckOf(n)
                 /\ \/ IsFirst(n) /\ Return("ack") /\ UNCHANGED stream_items
                    \/ ~IsFirst(n) /\ Continue /\ woken' = TRUE
      <3>1. QueuesTyped'
        <4>1. last' \in [0 .. MaxQueued - 1 -> 0 .. MaxQueued]
          BY <2>8, OrderedTyped DEF AckOf
        <4> QED
          BY <2>0, <2>8, <4>1 DEF AckOf, Recv, QueuesTyped, boundVars
      <3>2. woken'
        BY <2>8 DEF Return
      <3>3. StagesArmed'
        BY <2>0, <2>4, <2>8, <3>2 DEF Recv, Return, Continue, StagesArmed, AcksArmed, PingArmed,
           WindowArmed, ReadArmed, ItemsFirst, Asleep
      <3> QED
        BY <2>2, <2>5, <2>6, <3>1, <3>3
    <2> QED
      BY <1>5, <2>7, <2>8 DEF RecvAck
  <1> QED
    BY <1>1, <1>2, <1>3, <1>4, <1>5 DEF RecvStep

\* Every step keeps the invariant.
LEMMA NextIInv == IInv /\ [Next]_vars => IInv'
  <1> SUFFICES ASSUME IInv, [Next]_vars PROVE IInv'
    OBVIOUS
  <1>1. CASE Next
    BY <1>1, EnvironmentStep, StageStep, ResendStep, RecvStepKeeps DEF Next, TaskStep
  <1>2. CASE UNCHANGED vars
    <2>1. QueuesTyped' /\ unacked' = unacked /\ Scheduled' = Scheduled
      BY <1>2, QuietQueues, PollLoopAssumption DEF vars, IInv, RestTyped, boundVars
    <2>2. AcksTyped'
      BY <1>2, QuietAcks DEF vars, IInv
    <2>3. RestTyped' /\ Counted'
      BY <1>2 DEF vars, IInv, RestTyped, FlagsTyped, Counted, socketVars, wakerVars, outVars,
         resendVars, boundVars
    <2>4. StagesArmed'
      BY <1>2, <2>1 DEF vars, IInv, StagesArmed, AcksArmed, PingArmed, WindowArmed, ReadArmed,
         ItemsFirst, Asleep, socketVars, wakerVars, outVars
    <2> QED
      BY <2>1, <2>2, <2>3, <2>4 DEF IInv
  <1> QED
    BY <1>1, <1>2

\* The invariant of the poll loop holds in every reachable state.
LEMMA AlwaysIInv == Spec => []IInv
  BY InitIInv, NextIInv, PTL DEF Spec

\* The bound of made follows from what is counted.
LEMMA IInvTypes == IInv => TypeOK
  <1> SUFFICES ASSUME IInv PROVE TypeOK
    OBVIOUS
  <1>1. Len(inbox) \in Nat
    BY LenProperties DEF IInv, RestTyped
  <1>2. made \in 0 .. MaxMade
    BY <1>1, PollLoopAssumption DEF IInv, AcksTyped, RestTyped, Counted, MaxMade
  <1> QED
    BY <1>2 DEF IInv, TypeOK, AcksTyped, RestTyped, FlagsTyped, QueuesTyped

-----------------------------------------------------------------------------
(* The theorems about the poll loop.                                       *)

\* Connection::poll_next: packets wait in acks_to_send only until they are
\* sent, and the task never sleeps on an item it could return.
THEOREM PollLoopSound == Spec => []PollSound
  <1>1. IInv => PollSound
    BY IInvTypes DEF IInv, StagesArmed, ItemsFirst, NoItemStranded, PollSound
  <1> QED
    BY <1>1, AlwaysIInv, PTL

\* poll_incoming_udp_packet: a datagram in the socket always finds the task
\* awake, or the task has stopped reading because of SinkCapacity waiting acks
\* and has asked to be woken when the socket has room.
THEOREM DatagramsNotMissed == Spec => []NoMissedDatagram
  <1>1. IInv => NoMissedDatagram
    BY DEF IInv, StagesArmed, ReadArmed, NoMissedDatagram
  <1> QED
    BY <1>1, AlwaysIInv, PTL

\* Resender::poll_resend and ack_packet: a task that sleeps on packets waits for
\* the socket, or its timer runs for the packet on top of the heap, which was
\* sent and is not acknowledged. No packet in the heap waits to be sent.
THEOREM WindowUsed == Spec => []WindowNotIdle
  <1>1. IInv => WindowNotIdle
    BY DEF IInv, StagesArmed, WindowArmed, WindowNotIdle, Scheduled, Asleep
  <1> QED
    BY <1>1, AlwaysIInv, PTL

-----------------------------------------------------------------------------
(* The book: numbers and sequences.                                        *)

-----------------------------------------------------------------------------
(* The commands that are handled one after the other.                      *)

\* A book as its three parts.
Parts(c, k, e) == [channels |-> c, clients |-> k, events |-> e]
IsBook(b) == \E c, k, e : b = Parts(c, k, e)

AfterBody(f, sent, b) ==
  [n \in 0 .. Len(sent) |->
     IF n = 0 THEN {b} ELSE UNION {HandleCommand(r, sent[n]) : r \in f[n - 1]}]

\* The recursion in Commands has a solution.
LEMMA AfterExists ==
  ASSUME NEW sent, Len(sent) \in Nat, NEW b
  PROVE  \E f : f = AfterBody(f, sent, b)
  <1> DEFINE Step(S, n) == UNION {HandleCommand(r, sent[n]) : r \in S}
             Fits(f, k) == /\ DOMAIN f = 0 .. k /\ f[0] = {b}
                           /\ f = [n \in 0 .. k |-> f[n]]
                           /\ \A n \in 1 .. k : f[n] = Step(f[n - 1], n)
             Bad == {k \in 0 .. Len(sent) : ~\E f : Fits(f, k)}
  <1> HIDE DEF Step
  <1>0. PICK len \in Nat : len = Len(sent)
    OBVIOUS
  <1>1. ASSUME Bad # {} PROVE FALSE
    <2>0. Bad \subseteq Nat
      OBVIOUS
    <2>1. PICK k \in Bad : \A m \in Bad : k <= m
      <3> HIDE DEF Bad
      <3> QED
        BY <1>1, <2>0, SmallestNumber
    <2>2. k # 0
      <3>1. Fits([n \in 0 .. 0 |-> {b}], 0)
        OBVIOUS
      <3> QED
        BY <3>1
    <2>3. k - 1 \in 0 .. Len(sent) /\ k - 1 \notin Bad
      <3>1. k \in 0 .. len
        BY <1>0, <2>1
      <3>2. k \in Nat /\ k - 1 \in 0 .. len /\ ~(k <= k - 1)
        BY <1>0, <2>2, <3>1
      <3> HIDE DEF Bad
      <3> QED
        BY <1>0, <2>1, <3>2
    <2>4. PICK f : Fits(f, k - 1)
      BY <2>3
    <2> DEFINE g == [n \in 0 .. k |-> IF n = k THEN Step(f[k - 1], k) ELSE f[n]]
    <2>5. Fits(g, k)
      <3>1. k \in 1 .. Len(sent)
        BY <2>1, <2>2
      <3>2. ASSUME NEW n \in 1 .. k - 1 PROVE g[n] = Step(g[n - 1], n)
        <4>1. n \in 0 .. k /\ n - 1 \in 0 .. k /\ n # k /\ n - 1 # k
          BY <3>1
        <4>2. g[n] = f[n] /\ g[n - 1] = f[n - 1]
          BY <4>1
        <4> QED
          BY <2>4, <4>2
      <3>3. g[k] = Step(g[k - 1], k)
        BY <3>1
      <3>4. DOMAIN g = 0 .. k /\ g[0] = {b} /\ g = [n \in 0 .. k |-> g[n]]
        <4>1. 0 \in 0 .. k /\ 0 # k
          BY <3>1
        <4>2. g[0] = {b}
          BY <2>4, <4>1
        <4> QED
          BY <4>2
      <3>5. \A n \in 1 .. k : n = k \/ n \in 1 .. k - 1
        BY <3>1
      <3> HIDE DEF g
      <3> QED
        BY <3>2, <3>3, <3>4, <3>5
    <2> QED
      BY <2>1, <2>5
  <1>2. PICK f : Fits(f, Len(sent))
    <2>1. Len(sent) \in 0 .. Len(sent)
      BY <1>0
    <2>2. Len(sent) \notin Bad
      <3> HIDE DEF Bad
      <3> QED
        BY <1>1
    <2> HIDE DEF Fits
    <2> QED
      BY <2>1, <2>2
  <1>3. f = [n \in 0 .. Len(sent) |-> IF n = 0 THEN {b} ELSE Step(f[n - 1], n)]
    BY <1>2
  <1>4. f = AfterBody(f, sent, b)
    BY <1>3 DEF AfterBody, Step
  <1> QED
    BY <1>4

\* f has the books after the first commands of sent.
Handled(f, b, sent) ==
  /\ f[0] = {b}
  /\ \A n \in 1 .. Len(sent) : \A r \in f[n] : \E a \in f[n - 1] : r \in HandleCommand(a, sent[n])

LEMMA AllHandledFacts ==
  ASSUME NEW b, NEW sent, Len(sent) \in Nat
  PROVE  \E f : Handled(f, b, sent) /\ AllHandled(b, sent) = f[Len(sent)]
  <1>3. \E f : f = AfterBody(f, sent, b)
    BY AfterExists
  <1>4. PICK f : /\ f = AfterBody(f, sent, b)
                 /\ AllHandled(b, sent) = f[Len(sent)]
    BY <1>3 DEF AllHandled, AfterBody
  <1>5. f[0] = {b}
    <2>1. 0 \in 0 .. Len(sent)
      OBVIOUS
    <2> QED
      BY <1>4, <2>1 DEF AfterBody
  <1>6. ASSUME NEW n \in 1 .. Len(sent), NEW r \in f[n]
        PROVE  \E a \in f[n - 1] : r \in HandleCommand(a, sent[n])
    <2>1. n \in 0 .. Len(sent) /\ n # 0
      OBVIOUS
    <2>2. f[n] = UNION {HandleCommand(a, sent[n]) : a \in f[n - 1]}
      BY <1>4, <2>1 DEF AfterBody
    <2> QED
      BY <1>6, <2>2
  <1>7. Handled(f, b, sent)
    BY <1>5, <1>6 DEF Handled
  <1> QED
    BY <1>4, <1>7

\* What Commands(ms) leads to.
Told(r) == told' = (UndoneAll(r) = [channels |-> channels, clients |-> clients])
Becomes(r) == channels' = r.channels /\ clients' = r.clients /\ Told(r)
Before == Parts(channels, clients, <<>>)

LEMMA CommandsFacts ==
  ASSUME NEW ms, Len(ms) \in Nat, Commands(ms), joined'
  PROVE  \E f, r : Handled(f, Before, ms) /\ r \in f[Len(ms)] /\ Becomes(r)
  <1>1. PICK r \in AllHandled(Before, ms) : Becomes(r)
    BY DEF Commands, Before, Parts, Becomes, Told
  <1>2. PICK f : Handled(f, Before, ms) /\ AllHandled(Before, ms) = f[Len(ms)]
    BY AllHandledFacts
  <1> QED
    BY <1>1, <1>2

\* Nothing is sent before we have joined.
LEMMA NoCommands ==
  ASSUME NEW ms, Commands(ms), ~joined' \/ ms = <<>>
  PROVE  Becomes(Before)
  <1>1. PICK r \in AllHandled(Before, <<>>) : Becomes(r)
    <2>1. (IF joined' THEN ms ELSE <<>>) = <<>>
      OBVIOUS
    <2> QED
      BY <2>1 DEF Commands, Before, Parts, Becomes, Told
  <1>2. PICK sent : sent = <<>>
    OBVIOUS
  <1>3. Len(sent) = 0
    BY <1>2, EmptySeq
  <1>4. PICK f : Handled(f, Before, sent) /\ AllHandled(Before, sent) = f[0]
    BY <1>3, AllHandledFacts
  <1>5. r = Before
    BY <1>1, <1>2, <1>4 DEF Handled
  <1> QED
    BY <1>1, <1>5

LEMMA OneCommand ==
  ASSUME NEW m, Commands(<<m>>), joined'
  PROVE  \E r \in HandleCommand(Before, m) : Becomes(r)
  <1>1. PICK sent : sent = <<m>>
    OBVIOUS
  <1>2. Len(sent) = 1 /\ sent[1] = m /\ 1 \in 1 .. 1
    BY <1>1
  <1>3. PICK f, r : Handled(f, Before, sent) /\ r \in f[1] /\ Becomes(r)
    BY <1>1, <1>2, CommandsFacts
  <1>4. PICK b \in f[1 - 1] : r \in HandleCommand(b, m)
    BY <1>2, <1>3 DEF Handled
  <1>5. b = Before
    BY <1>3, <1>4 DEF Handled
  <1> QED
    BY <1>3, <1>4, <1>5

-----------------------------------------------------------------------------
(* What the parts of a command do to the parts of a book.                  *)

LEMMA PartsFields ==
  ASSUME NEW c, NEW k, NEW e
  PROVE  /\ Parts(c, k, e).channels = c /\ Parts(c, k, e).clients = k
         /\ Parts(c, k, e).events = e /\ IsBook(Parts(c, k, e))
  BY DEF Parts, IsBook

\* A book without its events.
Content(c, k) == [channels |-> c, clients |-> k]

ChannelAttrs == {"parent", "order", "max", "family", "type", "subscribed"}
ClientAttrs == {"channel", "name", "data", "away"}

\* A function to records with the attributes A.
IsRecord(v, A) == v = [a \in A |-> v[a]]
Form(f, A) ==
  /\ f = [x \in DOMAIN f |-> f[x]]
  /\ \A x \in DOMAIN f : f[x] = [a \in A |-> f[x][a]]

At(f, x, attr) == f[x][attr]
Put(f, x, attr, value) == [f EXCEPT ![x][attr] = value]

\* Functions of this form are equal when their attributes are.
LEMMA FormEqual ==
  ASSUME NEW A, NEW f, Form(f, A), NEW g, Form(g, A), DOMAIN f = DOMAIN g,
         \A x \in DOMAIN f : \A a \in A : At(f, x, a) = At(g, x, a)
  PROVE  f = g
  <1>1. ASSUME NEW x \in DOMAIN f PROVE f[x] = g[x]
    BY DEF Form, At
  <1> QED
    BY <1>1 DEF Form

LEMMA PutFacts ==
  ASSUME NEW A, NEW f, Form(f, A), NEW x \in DOMAIN f, NEW attr \in A, NEW value,
         NEW g, g = Put(f, x, attr, value)
  PROVE  /\ Form(g, A) /\ DOMAIN g = DOMAIN f /\ At(g, x, attr) = value
         /\ \A y \in DOMAIN f : y # x => g[y] = f[y]
         /\ \A y \in DOMAIN f : \A a \in A : y # x \/ a # attr => At(g, y, a) = At(f, y, a)
         /\ Put(g, x, attr, At(f, x, attr)) = f
  <1>1. PICK h : h = [f[x] EXCEPT ![attr] = value]
    OBVIOUS
  <1>2. g = [f EXCEPT ![x] = h]
    BY <1>1 DEF Put
  <1>3. /\ DOMAIN g = DOMAIN f /\ g[x] = h /\ g = [y \in DOMAIN g |-> g[y]]
        /\ \A y \in DOMAIN f : y # x => g[y] = f[y]
    BY <1>2 DEF Form
  <1>4. /\ h[attr] = value /\ h = [a \in A |-> h[a]]
        /\ \A a \in A : a # attr => h[a] = f[x][a]
    BY <1>1 DEF Form
  <1>5. Form(g, A)
    BY <1>3, <1>4 DEF Form
  <1>6. PICK back : back = [h EXCEPT ![attr] = f[x][attr]]
    OBVIOUS
  <1>7. back = f[x]
    BY <1>4, <1>6 DEF Form
  <1>8. Put(g, x, attr, At(f, x, attr)) = [g EXCEPT ![x] = back]
    BY <1>3, <1>6 DEF Put, At
  <1>9. [g EXCEPT ![x] = back] = f
    BY <1>3, <1>7 DEF Form
  <1> QED
    BY <1>3, <1>4, <1>5, <1>8, <1>9 DEF At

LEMMA WithFacts ==
  ASSUME NEW A, NEW f, Form(f, A), NEW x, NEW value, IsRecord(value, A),
         NEW g, g = With(f, x, value)
  PROVE  /\ Form(g, A) /\ g[x] = value
         /\ \A y : y \in DOMAIN g <=> y \in DOMAIN f \/ y = x
         /\ \A y \in DOMAIN f : y # x => g[y] = f[y]
  <1>1. /\ DOMAIN g = DOMAIN f \cup {x} /\ g[x] = value
        /\ \A y \in DOMAIN f : y # x => g[y] = f[y]
    BY DEF With
  <1>2. Form(g, A)
    BY <1>1 DEF Form, With, IsRecord
  <1> QED
    BY <1>1, <1>2

LEMMA WithNew ==
  ASSUME NEW A, NEW f, Form(f, A), NEW x, x \notin DOMAIN f, NEW value, IsRecord(value, A)
  PROVE  Form(With(f, x, value), A) /\ Without(With(f, x, value), x) = f
  <1>1. PICK g : g = With(f, x, value)
    OBVIOUS
  <1>2. Form(g, A)
    BY <1>1, WithFacts
  <1>3. DOMAIN g = DOMAIN f \cup {x} /\ \A y \in DOMAIN f : y # x => g[y] = f[y]
    BY <1>1 DEF With
  <1>4. Without(g, x) = f
    BY <1>3 DEF Without, Form
  <1> QED
    BY <1>1, <1>2, <1>4

LEMMA WithoutFacts ==
  ASSUME NEW A, NEW f, Form(f, A), NEW x \in DOMAIN f, NEW g, g = Without(f, x)
  PROVE  /\ Form(g, A) /\ \A y \in DOMAIN g : g[y] = f[y]
         /\ \A y : y \in DOMAIN g <=> y \in DOMAIN f /\ y # x
         /\ With(g, x, f[x]) = f
  <1>1. DOMAIN g = DOMAIN f \ {x} /\ \A y \in DOMAIN g : g[y] = f[y]
    BY DEF Without
  <1>2. Form(g, A)
    BY <1>1 DEF Form, Without
  <1>3. With(g, x, f[x]) = f
    BY <1>1 DEF With, Form
  <1> QED
    BY <1>1, <1>2, <1>3

-----------------------------------------------------------------------------
(* What a reader of the events knows.                                      *)

LEMMA UndoChannel ==
  ASSUME NEW c, NEW k, NEW id, NEW attr, NEW old, NEW invoker
  PROVE  Undone(PropertyChanged(<<"channel", id, attr>>, old, invoker), Content(c, k)) =
           Content(Put(c, id, attr, old), k)
  <1>1. PICK d : d = Put(c, id, attr, old)
    OBVIOUS
  <1>2. PICK e : e = PropertyChanged(<<"channel", id, attr>>, old, invoker)
    OBVIOUS
  <1>3. e.id[1] = "channel" /\ e.id[2] = id /\ e.id[3] = attr /\ e.old = old /\ e.type = "Changed"
    BY <1>2 DEF PropertyChanged
  <1>4. PICK b : b = Content(c, k)
    OBVIOUS
  <1>5. Undone(e, b) = [b EXCEPT !["channels"][id][attr] = old]
    BY <1>3 DEF Undone
  <1>6. [b EXCEPT !["channels"][id][attr] = old] = Content(d, k)
    BY <1>1, <1>4 DEF Content, Put
  <1> QED
    BY <1>1, <1>2, <1>4, <1>5, <1>6

LEMMA UndoClient ==
  ASSUME NEW c, NEW k, NEW id, NEW attr, NEW old, NEW invoker
  PROVE  Undone(PropertyChanged(<<"client", id, attr>>, old, invoker), Content(c, k)) =
           Content(c, Put(k, id, attr, old))
  <1>1. PICK d : d = Put(k, id, attr, old)
    OBVIOUS
  <1>2. PICK e : e = PropertyChanged(<<"client", id, attr>>, old, invoker)
    OBVIOUS
  <1>3. e.id[1] = "client" /\ e.id[2] = id /\ e.id[3] = attr /\ e.old = old /\ e.type = "Changed"
    BY <1>2 DEF PropertyChanged
  <1>4. PICK b : b = Content(c, k)
    OBVIOUS
  <1>5. Undone(e, b) = [b EXCEPT !["clients"][id][attr] = old]
    BY <1>3 DEF Undone
  <1>6. [b EXCEPT !["clients"][id][attr] = old] = Content(c, d)
    BY <1>1, <1>4 DEF Content, Put
  <1> QED
    BY <1>1, <1>2, <1>4, <1>5, <1>6

LEMMA UndoAddedChannel ==
  ASSUME NEW c, NEW k, NEW id, NEW invoker
  PROVE  Undone(PropertyAdded(<<"channel", id>>, invoker), Content(c, k)) =
           Content(Without(c, id), k)
  <1>1. PICK d : d = Without(c, id)
    OBVIOUS
  <1>2. PICK e : e = PropertyAdded(<<"channel", id>>, invoker)
    OBVIOUS
  <1>3. e.id[1] = "channel" /\ e.id[2] = id /\ e.type = "Added"
    BY <1>2 DEF PropertyAdded
  <1>4. PICK b : b = Content(c, k)
    OBVIOUS
  <1>5. b["channels"] = c
    BY <1>4 DEF Content
  <1>6. Undone(e, b) = [b EXCEPT !["channels"] = d]
    BY <1>1, <1>3, <1>5 DEF Undone
  <1>7. [b EXCEPT !["channels"] = d] = Content(d, k)
    BY <1>4 DEF Content
  <1> QED
    BY <1>1, <1>2, <1>4, <1>6, <1>7

LEMMA UndoRemovedChannel ==
  ASSUME NEW c, NEW k, NEW id, NEW old, NEW invoker
  PROVE  Undone(PropertyRemoved(<<"channel", id>>, old, invoker), Content(c, k)) =
           Content(With(c, id, old), k)
  <1>1. PICK d : d = With(c, id, old)
    OBVIOUS
  <1>2. PICK e : e = PropertyRemoved(<<"channel", id>>, old, invoker)
    OBVIOUS
  <1>3. e.id[1] = "channel" /\ e.id[2] = id /\ e.old = old /\ e.type = "Removed"
    BY <1>2 DEF PropertyRemoved
  <1>4. PICK b : b = Content(c, k)
    OBVIOUS
  <1>5. b["channels"] = c
    BY <1>4 DEF Content
  <1>6. Undone(e, b) = [b EXCEPT !["channels"] = d]
    BY <1>1, <1>3, <1>5 DEF Undone
  <1>7. [b EXCEPT !["channels"] = d] = Content(d, k)
    BY <1>4 DEF Content
  <1> QED
    BY <1>1, <1>2, <1>4, <1>6, <1>7

LEMMA UndoAddedClient ==
  ASSUME NEW c, NEW k, NEW id, NEW invoker
  PROVE  Undone(PropertyAdded(<<"client", id>>, invoker), Content(c, k)) =
           Content(c, Without(k, id))
  <1>1. PICK d : d = Without(k, id)
    OBVIOUS
  <1>2. PICK e : e = PropertyAdded(<<"client", id>>, invoker)
    OBVIOUS
  <1>3. e.id[1] = "client" /\ e.id[2] = id /\ e.type = "Added"
    BY <1>2 DEF PropertyAdded
  <1>4. PICK b : b = Content(c, k)
    OBVIOUS
  <1>5. b["clients"] = k
    BY <1>4 DEF Content
  <1>6. Undone(e, b) = [b EXCEPT !["clients"] = d]
    BY <1>1, <1>3, <1>5 DEF Undone
  <1>7. [b EXCEPT !["clients"] = d] = Content(c, d)
    BY <1>4 DEF Content
  <1> QED
    BY <1>1, <1>2, <1>4, <1>6, <1>7

LEMMA UndoRemovedClient ==
  ASSUME NEW c, NEW k, NEW id, NEW old, NEW invoker
  PROVE  Undone(PropertyRemoved(<<"client", id>>, old, invoker), Content(c, k)) =
           Content(c, With(k, id, old))
  <1>1. PICK d : d = With(k, id, old)
    OBVIOUS
  <1>2. PICK e : e = PropertyRemoved(<<"client", id>>, old, invoker)
    OBVIOUS
  <1>3. e.id[1] = "client" /\ e.id[2] = id /\ e.old = old /\ e.type = "Removed"
    BY <1>2 DEF PropertyRemoved
  <1>4. PICK b : b = Content(c, k)
    OBVIOUS
  <1>5. b["clients"] = k
    BY <1>4 DEF Content
  <1>6. Undone(e, b) = [b EXCEPT !["clients"] = d]
    BY <1>1, <1>3, <1>5 DEF Undone
  <1>7. [b EXCEPT !["clients"] = d] = Content(c, d)
    BY <1>4 DEF Content
  <1> QED
    BY <1>1, <1>2, <1>4, <1>6, <1>7

LEMMA UndoMessage ==
  ASSUME NEW b, NEW invoker
  PROVE  Undone(Message(invoker), b) = b
  <1>1. PICK e : e = Message(invoker)
    OBVIOUS
  <1>2. e.type = "Message"
    BY <1>1 DEF Message
  <1> QED
    BY <1>1, <1>2 DEF Undone

\* Events are kept in a sequence.
IsSeq(e) == \E E : e \in Seq(E)

LEMMA SeqFacts ==
  ASSUME NEW e, IsSeq(e), NEW d, IsSeq(d)
  PROVE  /\ IsSeq(<<>>) /\ IsSeq(e \o d) /\ Len(e) \in Nat /\ Len(e \o d) = Len(e) + Len(d)
         /\ \A i \in 1 .. Len(e) + Len(d) :
              (e \o d)[i] = IF i <= Len(e) THEN e[i] ELSE d[i - Len(e)]
         /\ <<>> \o e = e /\ e \o <<>> = e
  <1>1. PICK E : e \in Seq(E)
    BY DEF IsSeq
  <1>2. PICK D : d \in Seq(D)
    BY DEF IsSeq
  <1>3. PICK S : S = E \cup D
    OBVIOUS
  <1>4. e \in Seq(S) /\ d \in Seq(S)
    BY <1>1, <1>2, <1>3
  <1>5. e \o d \in Seq(S) /\ Len(e) \in Nat /\ Len(e \o d) = Len(e) + Len(d)
    BY <1>4, ConcatProperties
  <1>6. IsSeq(e \o d)
    BY <1>5 DEF IsSeq
  <1>7. <<>> \in Seq(S)
    OBVIOUS
  <1>8. IsSeq(<<>>)
    BY <1>7 DEF IsSeq
  <1>9. <<>> \o e = e /\ e \o <<>> = e
    BY <1>4, ConcatEmptySeq
  <1>10. \A i \in 1 .. Len(e) + Len(d) :
              (e \o d)[i] = IF i <= Len(e) THEN e[i] ELSE d[i - Len(e)]
    BY <1>4, ConcatProperties
  <1> QED
    BY <1>5, <1>6, <1>8, <1>9, <1>10

LEMMA SeqAppend ==
  ASSUME NEW e, IsSeq(e), NEW x
  PROVE  /\ IsSeq(<<x>>) /\ IsSeq(Append(e, x)) /\ Append(e, x) = e \o <<x>>
         /\ Len(<<x>>) = 1 /\ <<x>>[1] = x
  <1>1. PICK E : e \in Seq(E)
    BY DEF IsSeq
  <1>2. PICK S : S = E \cup {x}
    OBVIOUS
  <1>3. e \in Seq(S) /\ x \in S /\ <<x>> \in Seq(S)
    BY <1>1, <1>2
  <1>4. Append(e, x) = e \o <<x>>
    BY <1>3, AppendIsConcat
  <1>5. Append(e, x) \in Seq(S)
    BY <1>3
  <1> QED
    BY <1>3, <1>4, <1>5 DEF IsSeq

\* The events es lead back from the content x to the content y; u has what
\* there was before the last events.
Trail(u, es, x, y) ==
  /\ u[0] = x /\ u[Len(es)] = y
  /\ \A i \in 1 .. Len(es) : u[i] = Undone(es[Len(es) - i + 1], u[i - 1])
Back(es, x, y) == \E u : Trail(u, es, x, y)

LEMMA BackNothing ==
  ASSUME NEW x
  PROVE  Back(<<>>, x, x)
  <1>1. PICK e : e = <<>>
    OBVIOUS
  <1>2. Len(e) = 0
    BY <1>1, EmptySeq
  <1>3. Trail([i \in {0} |-> x], e, x, x)
    BY <1>2 DEF Trail
  <1> QED
    BY <1>1, <1>3 DEF Back

LEMMA BackConcat ==
  ASSUME NEW e, IsSeq(e), NEW d, IsSeq(d), NEW x, NEW y, NEW z, Back(d, x, z), Back(e, z, y)
  PROVE  Back(e \o d, x, y)
  <1>1. PICK v : Trail(v, d, x, z)
    BY DEF Back
  <1>2. PICK w : Trail(w, e, z, y)
    BY DEF Back
  <1>3. PICK n \in Nat : n = Len(e)
    BY SeqFacts
  <1>4. PICK m \in Nat : m = Len(d)
    BY SeqFacts
  <1>5. PICK u : u = [i \in 0 .. n + m |-> IF i <= m THEN v[i] ELSE w[i - m]]
    OBVIOUS
  <1>6. PICK es : es = e \o d
    OBVIOUS
  <1>7. Len(es) = n + m /\ \A i \in 1 .. n + m : es[i] = IF i <= n THEN e[i] ELSE d[i - n]
    BY <1>3, <1>4, <1>6, SeqFacts
  <1>8. u[0] = x
    BY <1>1, <1>5 DEF Trail
  <1>9. v[m] = z /\ w[0] = z
    BY <1>1, <1>2, <1>4 DEF Trail
  <1>10. u[n + m] = y
    <2>1. CASE n = 0
      <3>1. z = y
        BY <1>2, <1>3, <1>9, <2>1 DEF Trail
      <3> QED
        BY <1>5, <1>9, <2>1, <3>1
    <2>2. CASE n # 0
      BY <1>2, <1>3, <1>5, <2>2 DEF Trail
    <2> QED
      BY <2>1, <2>2
  <1>11. ASSUME NEW i \in 1 .. n + m PROVE u[i] = Undone(es[n + m - i + 1], u[i - 1])
    <2>1. CASE i <= m
      <3>1. es[n + m - i + 1] = d[m - i + 1]
        <4>1. n + m - i + 1 \in 1 .. n + m /\ ~(n + m - i + 1 <= n)
              /\ (n + m - i + 1) - n = m - i + 1
          BY <2>1
        <4> QED
          BY <1>7, <4>1
      <3>2. u[i] = v[i] /\ u[i - 1] = v[i - 1]
        BY <1>5, <2>1
      <3>3. v[i] = Undone(d[m - i + 1], v[i - 1])
        BY <1>1, <1>4, <2>1 DEF Trail
      <3> QED
        BY <3>1, <3>2, <3>3
    <2>2. CASE ~(i <= m)
      <3>0. PICK j \in 1 .. n : j = i - m
        BY <2>2
      <3>1. es[n + m - i + 1] = e[n - j + 1]
        <4>1. n + m - i + 1 \in 1 .. n + m /\ n + m - i + 1 <= n
              /\ n + m - i + 1 = n - j + 1
          BY <2>2, <3>0
        <4> QED
          BY <1>7, <4>1
      <3>2. u[i] = w[j]
        BY <1>5, <2>2, <3>0
      <3>3. u[i - 1] = w[j - 1]
        <4>1. CASE i = m + 1
          <5>1. u[m] = v[m]
            BY <1>5
          <5> QED
            BY <1>9, <3>0, <4>1, <5>1
        <4>2. CASE i # m + 1
          <5>1. i - 1 \in 0 .. n + m /\ ~(i - 1 <= m) /\ (i - 1) - m = j - 1
            BY <2>2, <3>0, <4>2
          <5> QED
            BY <1>5, <5>1
        <4> QED
          BY <4>1, <4>2
      <3>4. w[j] = Undone(e[n - j + 1], w[j - 1])
        BY <1>2, <1>3, <3>0 DEF Trail
      <3> QED
        BY <3>1, <3>2, <3>3, <3>4
    <2> QED
      BY <2>1, <2>2
  <1>12. Trail(u, es, x, y)
    BY <1>7, <1>8, <1>10, <1>11 DEF Trail
  <1> QED
    BY <1>6, <1>12 DEF Back

LEMMA BackAppend ==
  ASSUME NEW e, IsSeq(e), NEW ev, NEW x, NEW y, NEW z, Undone(ev, x) = z, Back(e, z, y)
  PROVE  Back(Append(e, ev), x, y)
  <1>1. PICK d : d = <<ev>>
    OBVIOUS
  <1>2. IsSeq(d) /\ Append(e, ev) = e \o d /\ Len(d) = 1 /\ d[1] = ev
    BY <1>1, SeqAppend
  <1>3. Trail([i \in 0 .. 1 |-> IF i = 0 THEN x ELSE z], d, x, z)
    BY <1>2 DEF Trail
  <1>4. Back(d, x, z)
    BY <1>3 DEF Back
  <1> QED
    BY <1>2, <1>4, BackConcat

UndoBody(f, es, x) ==
  [i \in 0 .. Len(es) |-> IF i = 0 THEN x ELSE Undone(es[Len(es) - i + 1], f[i - 1])]

\* UndoneAll follows the events back.
LEMMA UndoneAllFacts ==
  ASSUME NEW b, IsSeq(b.events), NEW y, Back(b.events, Content(b.channels, b.clients), y)
  PROVE  UndoneAll(b) = y
  <1>1. PICK es : es = b.events
    OBVIOUS
  <1>2. PICK x : x = Content(b.channels, b.clients)
    OBVIOUS
  <1>3. PICK u : Trail(u, es, x, y)
    BY <1>1, <1>2 DEF Back
  <1>4. PICK n \in Nat : n = Len(es)
    BY <1>1, SeqFacts
  <1>5. PICK v : v = [i \in 0 .. n |-> u[i]]
    OBVIOUS
  <1>6. v = UndoBody(v, es, x)
    <2>1. ASSUME NEW i \in 0 .. n PROVE v[i] = UndoBody(v, es, x)[i]
      <3>1. CASE i = 0
        BY <1>3, <1>4, <1>5, <3>1 DEF Trail, UndoBody
      <3>2. CASE i # 0
        <4>1. i \in 1 .. n /\ i - 1 \in 0 .. n
          BY <3>2
        <4>2. u[i] = Undone(es[n - i + 1], u[i - 1])
          BY <1>3, <1>4, <4>1 DEF Trail
        <4> QED
          BY <1>4, <1>5, <3>2, <4>1, <4>2 DEF UndoBody
      <3> QED
        BY <3>1, <3>2
    <2>2. v = [i \in 0 .. n |-> v[i]]
      BY <1>5
    <2>3. UndoBody(v, es, x) = [i \in 0 .. n |-> UndoBody(v, es, x)[i]]
      BY <1>4 DEF UndoBody
    <2> QED
      BY <2>1, <2>2, <2>3
  <1>7. PICK f : f = UndoBody(f, es, x) /\ UndoneAll(b) = f[n]
    <2>1. \E f : f = UndoBody(f, es, x)
      BY <1>6
    <2> QED
      BY <1>1, <1>2, <1>4, <2>1 DEF UndoneAll, UndoBody, Content
  <1>8. f[0] = x /\ \A i \in 1 .. n : f[i] = Undone(es[n - i + 1], f[i - 1])
    BY <1>4, <1>7 DEF UndoBody
  <1> DEFINE Bad == {i \in 0 .. n : f[i] # u[i]}
  <1>9. ASSUME Bad # {} PROVE FALSE
    <2>1. Bad \subseteq Nat
      OBVIOUS
    <2>2. PICK i \in Bad : \A j \in Bad : i <= j
      <3> HIDE DEF Bad
      <3> QED
        BY <1>9, <2>1, SmallestNumber
    <2>3. i \in 0 .. n /\ f[i] # u[i]
      BY <2>2
    <2>4. i # 0
      BY <1>3, <1>8, <2>3 DEF Trail
    <2>5. i \in 1 .. n /\ i - 1 \in 0 .. n /\ ~(i <= i - 1)
      BY <2>3, <2>4
    <2>6. f[i - 1] = u[i - 1]
      BY <2>2, <2>5
    <2>7. u[i] = Undone(es[n - i + 1], u[i - 1])
      BY <1>3, <1>4, <2>5 DEF Trail
    <2> QED
      BY <1>8, <2>3, <2>5, <2>6, <2>7
  <1>10. f[n] = u[n]
    BY <1>9
  <1> QED
    BY <1>3, <1>4, <1>7, <1>10 DEF Trail

-----------------------------------------------------------------------------
(* Steps of a book: what was told before leads back as far as it did.      *)

Good(b) ==
  /\ b = Parts(b.channels, b.clients, b.events)
  /\ Form(b.channels, ChannelAttrs) /\ Form(b.clients, ClientAttrs) /\ IsSeq(b.events)
Trace(b, y) == Back(b.events, Content(b.channels, b.clients), y)
Leads(b, r) == Good(r) /\ \A y : Trace(b, y) => Trace(r, y)

LEMMA LeadsTransitive ==
  ASSUME NEW a, NEW b, NEW c, Leads(a, b), Leads(b, c)
  PROVE  Leads(a, c)
  BY DEF Leads

LEMMA ReportedFacts ==
  ASSUME NEW c, NEW k, NEW e, NEW ev
  PROVE  Reported(Parts(c, k, e), ev) = Parts(c, k, Append(e, ev))
  <1>1. PICK b : b = Parts(c, k, e)
    OBVIOUS
  <1>2. PICK es : es = Append(e, ev)
    OBVIOUS
  <1>3. b.events = e
    BY <1>1 DEF Parts
  <1>4. Reported(b, ev) = [b EXCEPT !.events = es]
    BY <1>2, <1>3 DEF Reported
  <1>5. [b EXCEPT !.events = es] = Parts(c, k, es)
    BY <1>1 DEF Parts
  <1> QED
    BY <1>1, <1>2, <1>4, <1>5

\* A change that one event tells of.
LEMMA OneEvent ==
  ASSUME NEW b, Good(b), NEW c, Form(c, ChannelAttrs), NEW k, Form(k, ClientAttrs), NEW ev,
         Undone(ev, Content(c, k)) = Content(b.channels, b.clients),
         NEW r, r = Reported(Parts(c, k, b.events), ev)
  PROVE  Leads(b, r) /\ r.channels = c /\ r.clients = k
  <1>0. PICK e, es : e = b.events /\ es = Append(e, ev)
    OBVIOUS
  <1>1. r = Parts(c, k, es)
    BY <1>0, ReportedFacts
  <1>2. r.channels = c /\ r.clients = k /\ r.events = es
    BY <1>1 DEF Parts
  <1>3. IsSeq(e) /\ IsSeq(es)
    <2>1. IsSeq(e)
      BY <1>0 DEF Good
    <2> QED
      BY <1>0, <2>1, SeqAppend
  <1>4. Good(r)
    BY <1>1, <1>2, <1>3 DEF Good
  <1>5. ASSUME NEW y, Trace(b, y) PROVE Trace(r, y)
    <2>1. Back(e, Content(b.channels, b.clients), y)
      BY <1>0, <1>5 DEF Trace
    <2>2. Back(es, Content(c, k), y)
      BY <1>0, <1>3, <2>1, BackAppend
    <2> QED
      BY <1>2, <2>2 DEF Trace
  <1> QED
    BY <1>2, <1>4, <1>5 DEF Leads

LEMMA SetChannelFacts ==
  ASSUME NEW b, Good(b), NEW id \in DOMAIN b.channels, NEW attr \in ChannelAttrs, NEW value,
         NEW invoker, NEW r, r = SetChannel(b, id, attr, value, invoker)
  PROVE  /\ Leads(b, r) /\ r.clients = b.clients
         /\ r.channels = Put(b.channels, id, attr, value)
  <1>1. PICK c, k, e : c = b.channels /\ k = b.clients /\ e = b.events /\ b = Parts(c, k, e)
    BY DEF Good
  <1>2. PICK ev : ev = PropertyChanged(<<"channel", id, attr>>, At(c, id, attr), invoker)
    OBVIOUS
  <1>3. PICK d : d = Put(c, id, attr, value)
    OBVIOUS
  <1>4. [b EXCEPT !.channels[id][attr] = value] = Parts(d, k, e)
    BY <1>1, <1>3 DEF Parts, Put
  <1>5. r = Reported(Parts(d, k, e), ev)
    BY <1>1, <1>2, <1>4 DEF SetChannel, At
  <1>6. Form(d, ChannelAttrs) /\ Put(d, id, attr, At(c, id, attr)) = c
    <2>1. Form(c, ChannelAttrs) /\ id \in DOMAIN c
      BY <1>1 DEF Good
    <2> QED
      BY <1>3, <2>1, PutFacts
  <1>7. Undone(ev, Content(d, k)) = Content(c, k)
    BY <1>2, <1>6, UndoChannel
  <1>8. Form(k, ClientAttrs)
    BY <1>1 DEF Good
  <1>9. Leads(b, r) /\ r.channels = d /\ r.clients = k
    BY <1>1, <1>5, <1>6, <1>7, <1>8, OneEvent
  <1> QED
    BY <1>1, <1>3, <1>9

LEMMA SetClientFacts ==
  ASSUME NEW b, Good(b), NEW id \in DOMAIN b.clients, NEW attr \in ClientAttrs, NEW value,
         NEW invoker, NEW r, r = SetClient(b, id, attr, value, invoker)
  PROVE  /\ Leads(b, r) /\ r.channels = b.channels
         /\ r.clients = Put(b.clients, id, attr, value)
  <1>1. PICK c, k, e : c = b.channels /\ k = b.clients /\ e = b.events /\ b = Parts(c, k, e)
    BY DEF Good
  <1>2. PICK ev : ev = PropertyChanged(<<"client", id, attr>>, At(k, id, attr), invoker)
    OBVIOUS
  <1>3. PICK d : d = Put(k, id, attr, value)
    OBVIOUS
  <1>4. [b EXCEPT !.clients[id][attr] = value] = Parts(c, d, e)
    BY <1>1, <1>3 DEF Parts, Put
  <1>5. r = Reported(Parts(c, d, e), ev)
    BY <1>1, <1>2, <1>4 DEF SetClient, At
  <1>6. Form(d, ClientAttrs) /\ Put(d, id, attr, At(k, id, attr)) = k
    <2>1. Form(k, ClientAttrs) /\ id \in DOMAIN k
      BY <1>1 DEF Good
    <2> QED
      BY <1>3, <2>1, PutFacts
  <1>7. Undone(ev, Content(c, d)) = Content(c, k)
    BY <1>2, <1>6, UndoClient
  <1>8. Form(c, ChannelAttrs)
    BY <1>1 DEF Good
  <1>9. Leads(b, r) /\ r.channels = c /\ r.clients = d
    BY <1>1, <1>5, <1>6, <1>7, <1>8, OneEvent
  <1> QED
    BY <1>1, <1>3, <1>9

-----------------------------------------------------------------------------
(* The order of channels.                                                  *)

\* The siblings that channel_order_insert and channel_order_remove look for.
Followers(c, id, order, parent) ==
  {x \in DOMAIN c \ {id} : c[x].order = order /\ c[x].parent = parent}
PointingTo(c, id) == {x \in DOMAIN c \ {id} : c[x].order = id}

\* One of S gets a new order.
PutOne(c, S, value, d) ==
  \/ S = {} /\ d = c
  \/ \E x \in S : d = Put(c, x, "order", value)

LEMMA SetOrderFacts ==
  ASSUME NEW b, Good(b), NEW id \in DOMAIN b.channels, NEW value, NEW invoker,
         NEW r, r = SetChannel(b, id, "order", value, invoker)
  PROVE  /\ Leads(b, r) /\ r.clients = b.clients
         /\ r.channels = Put(b.channels, id, "order", value)
  <1>1. PICK attr \in ChannelAttrs : attr = "order"
    BY DEF ChannelAttrs
  <1> QED
    BY <1>1, SetChannelFacts

LEMMA LeadsSelf ==
  ASSUME NEW b, Good(b)
  PROVE  Leads(b, b)
  BY DEF Leads

LEMMA OrderInsertFacts ==
  ASSUME NEW b, Good(b), NEW id, NEW order, NEW parent, NEW r \in OrderInsert(b, id, order, parent)
  PROVE  /\ Leads(b, r) /\ r.clients = b.clients
         /\ PutOne(b.channels, Followers(b.channels, id, order, parent), id, r.channels)
  <1>1. PICK S : S = Followers(b.channels, id, order, parent)
    OBVIOUS
  <1>2. OrderInsert(b, id, order, parent) =
          IF S = {} THEN {b} ELSE {SetChannel(b, x, "order", id, Nothing) : x \in S}
    BY <1>1 DEF OrderInsert, Followers
  <1>3. CASE S = {}
    BY <1>1, <1>2, <1>3, LeadsSelf DEF PutOne
  <1>4. CASE S # {}
    <2>1. PICK x \in S : r = SetChannel(b, x, "order", id, Nothing)
      BY <1>2, <1>4
    <2>2. x \in DOMAIN b.channels
      BY <1>1 DEF Followers
    <2>3. Leads(b, r) /\ r.clients = b.clients /\ r.channels = Put(b.channels, x, "order", id)
      BY <2>1, <2>2, SetOrderFacts
    <2> QED
      BY <1>1, <2>3 DEF PutOne
  <1> QED
    BY <1>3, <1>4

LEMMA OrderRemoveFacts ==
  ASSUME NEW b, Good(b), NEW id, NEW order, NEW r \in OrderRemove(b, id, order)
  PROVE  /\ Leads(b, r) /\ r.clients = b.clients
         /\ PutOne(b.channels, PointingTo(b.channels, id), order, r.channels)
  <1>1. PICK S : S = PointingTo(b.channels, id)
    OBVIOUS
  <1>2. OrderRemove(b, id, order) =
          IF S = {} THEN {b} ELSE {SetChannel(b, x, "order", order, Nothing) : x \in S}
    BY <1>1 DEF OrderRemove, PointingTo
  <1>3. CASE S = {}
    BY <1>1, <1>2, <1>3, LeadsSelf DEF PutOne
  <1>4. CASE S # {}
    <2>1. PICK x \in S : r = SetChannel(b, x, "order", order, Nothing)
      BY <1>2, <1>4
    <2>2. x \in DOMAIN b.channels
      BY <1>1 DEF PointingTo
    <2>3. Leads(b, r) /\ r.clients = b.clients /\ r.channels = Put(b.channels, x, "order", order)
      BY <2>1, <2>2, SetOrderFacts
    <2> QED
      BY <1>1, <2>3 DEF PutOne
  <1> QED
    BY <1>3, <1>4

\* A channel gets another place: d is c after channel_order_move_fun.
Reordered(c, id, order, parent, d) ==
  \E c1, c2 : /\ c1 = Put(c, id, "order", order)
              /\ PutOne(c1, PointingTo(c1, id), At(c, id, "order"), c2)
              /\ PutOne(c2, Followers(c2, id, order, parent), id, d)

LEMMA OrderMoveFacts ==
  ASSUME NEW b, Good(b), NEW id \in DOMAIN b.channels, NEW order, order # Nothing, NEW parent,
         NEW r \in OrderMove(b, id, order, parent),
         NEW np, np = IF parent = Nothing THEN At(b.channels, id, "parent") ELSE parent
  PROVE  /\ Leads(b, r) /\ r.clients = b.clients
         /\ Reordered(b.channels, id, order, np, r.channels)
  <1>1. PICK old : old = At(b.channels, id, "order")
    OBVIOUS
  <1>2. PICK moved : moved = SetChannel(b, id, "order", order, Nothing)
    OBVIOUS
  <1>3. OrderMove(b, id, order, parent) =
          UNION {OrderInsert(a, id, order, np) : a \in OrderRemove(moved, id, old)}
    BY <1>1, <1>2 DEF OrderMove, At
  <1>4. PICK a \in OrderRemove(moved, id, old) : r \in OrderInsert(a, id, order, np)
    BY <1>3
  <1>5. /\ Leads(b, moved) /\ moved.clients = b.clients
        /\ moved.channels = Put(b.channels, id, "order", order)
    BY <1>2, SetOrderFacts
  <1>6. Good(moved)
    BY <1>5 DEF Leads
  <1>7. /\ Leads(moved, a) /\ a.clients = moved.clients
        /\ PutOne(moved.channels, PointingTo(moved.channels, id), old, a.channels)
    BY <1>4, <1>6, OrderRemoveFacts
  <1>8. Good(a)
    BY <1>7 DEF Leads
  <1>9. /\ Leads(a, r) /\ r.clients = a.clients
        /\ PutOne(a.channels, Followers(a.channels, id, order, np), id, r.channels)
    BY <1>4, <1>8, OrderInsertFacts
  <1>10. Leads(b, r)
    BY <1>5, <1>7, <1>9, LeadsTransitive
  <1>11. Reordered(b.channels, id, order, np, r.channels)
    BY <1>1, <1>5, <1>7, <1>9 DEF Reordered
  <1> QED
    BY <1>5, <1>7, <1>9, <1>10, <1>11

\* Setting orders keeps the form.
LEMMA PutOneForm ==
  ASSUME NEW c, Form(c, ChannelAttrs), NEW S, S \subseteq DOMAIN c, NEW value, NEW d,
         PutOne(c, S, value, d)
  PROVE  Form(d, ChannelAttrs) /\ DOMAIN d = DOMAIN c
  <1>1. CASE S = {} /\ d = c
    BY <1>1
  <1>2. CASE \E x \in S : d = Put(c, x, "order", value)
    <2>1. PICK x \in S : d = Put(c, x, "order", value)
      BY <1>2
    <2>2. PICK attr \in ChannelAttrs : attr = "order"
      BY DEF ChannelAttrs
    <2>3. x \in DOMAIN c /\ d = Put(c, x, attr, value)
      BY <2>1, <2>2
    <2> QED
      BY <2>3, PutFacts
  <1> QED
    BY <1>1, <1>2 DEF PutOne

-----------------------------------------------------------------------------
(* Commands about channels.                                                *)

LEMMA NewChannelForm ==
  ASSUME NEW m, NEW family, NEW v, v = NewChannel(m, family)
  PROVE  /\ IsRecord(v, ChannelAttrs)
         /\ v.parent = m.parent /\ v.order = m.order /\ v.max = MaxClients(m.unlimited, m.num)
         /\ v.family = family /\ v.type = ChannelFlagsToType(m.permanent, m.semi)
         /\ v.subscribed = FALSE
  <1>1. PICK max, type : max = MaxClients(m.unlimited, m.num)
                         /\ type = ChannelFlagsToType(m.permanent, m.semi)
    OBVIOUS
  <1>2. v = [parent |-> m.parent, order |-> m.order, max |-> max,
             family |-> family, type |-> type, subscribed |-> FALSE]
    BY <1>1 DEF NewChannel
  <1>3. IsRecord(v, ChannelAttrs)
    BY <1>2 DEF ChannelAttrs, IsRecord
  <1>4. v.parent = m.parent /\ v.order = m.order /\ v.max = max /\ v.family = family /\ v.type = type
    BY <1>2
  <1>5. v.subscribed = FALSE
    BY <1>2
  <1> QED
    BY <1>1, <1>3, <1>4, <1>5

LEMMA AddChannelFacts ==
  ASSUME NEW b, Good(b), NEW m, m.id \notin DOMAIN b.channels, NEW family,
         NEW r \in AddChannel(b, m, family)
  PROVE  /\ Leads(b, r) /\ r.clients = b.clients
         /\ \E c1 : /\ PutOne(b.channels, Followers(b.channels, m.id, m.order, m.parent), m.id, c1)
                    /\ r.channels = With(c1, m.id, NewChannel(m, family))
  <1>1. PICK id, v : id = m.id /\ v = NewChannel(m, family)
    OBVIOUS
  <1>2. PICK a \in OrderInsert(b, id, m.order, m.parent) :
          r = Reported([a EXCEPT !.channels = With(@, id, v)],
                       PropertyAdded(<<"channel", id>>, m.invoker))
    BY <1>1 DEF AddChannel
  <1>3. /\ Leads(b, a) /\ a.clients = b.clients
        /\ PutOne(b.channels, Followers(b.channels, id, m.order, m.parent), id, a.channels)
    BY <1>2, OrderInsertFacts
  <1>4. PICK c, k, e : /\ c = a.channels /\ k = a.clients /\ e = a.events /\ a = Parts(c, k, e)
                       /\ Form(c, ChannelAttrs) /\ Form(k, ClientAttrs)
    BY <1>3 DEF Leads, Good
  <1>5. id \notin DOMAIN c
    <2>1. Followers(b.channels, id, m.order, m.parent) \subseteq DOMAIN b.channels
      BY DEF Followers
    <2> QED
      BY <1>1, <1>3, <1>4, <2>1, PutOneForm DEF Good
  <1>6. PICK d : d = With(c, id, v)
    OBVIOUS
  <1>7. Form(d, ChannelAttrs) /\ Without(d, id) = c
    <2>1. IsRecord(v, ChannelAttrs)
      BY <1>1, NewChannelForm
    <2>2. Form(c, ChannelAttrs)
      BY <1>4
    <2> QED
      BY <1>5, <1>6, <2>1, <2>2, WithNew
  <1>8. PICK ev : ev = PropertyAdded(<<"channel", id>>, m.invoker)
    OBVIOUS
  <1>9. [a EXCEPT !.channels = d] = Parts(d, k, e)
    BY <1>4 DEF Parts
  <1>10. r = Reported(Parts(d, k, e), ev)
    BY <1>2, <1>4, <1>6, <1>8, <1>9
  <1>11. Undone(ev, Content(d, k)) = Content(c, k)
    BY <1>7, <1>8, UndoAddedChannel
  <1>12. Leads(a, r) /\ r.channels = d /\ r.clients = k
    <2>1. Good(a)
      BY <1>3 DEF Leads
    <2>2. r = Reported(Parts(d, k, a.events), ev)
          /\ Undone(ev, Content(d, k)) = Content(a.channels, a.clients)
      BY <1>4, <1>10, <1>11
    <2>3. Form(d, ChannelAttrs) /\ Form(k, ClientAttrs)
      BY <1>4, <1>7
    <2> QED
      BY <2>1, <2>2, <2>3, OneEvent
  <1>13. Leads(b, r)
    BY <1>3, <1>12, LeadsTransitive
  <1> QED
    BY <1>1, <1>3, <1>4, <1>6, <1>12, <1>13

LEMMA ChannelCreatedFacts ==
  ASSUME NEW b, Good(b), NEW m, m.id \notin DOMAIN b.channels, NEW r \in ChannelCreated(b, m)
  PROVE  /\ Leads(b, r) /\ r.clients = b.clients
         /\ \E c1, c2 :
              /\ PutOne(b.channels, Followers(b.channels, m.id, m.order, m.parent), m.id, c1)
              /\ PutOne(c1, Followers(c1, m.id, m.order, m.parent), m.id, c2)
              /\ r.channels = With(c2, m.id, NewChannel(m,
                   MaxFamilyClients(m.family_unlimited, m.inherits, m.family_num)))
  <1>1. PICK family : family = MaxFamilyClients(m.family_unlimited, m.inherits, m.family_num)
    OBVIOUS
  <1>2. PICK a \in OrderInsert(b, m.id, m.order, m.parent) : r \in AddChannel(a, m, family)
    BY <1>1 DEF ChannelCreated
  <1>3. /\ Leads(b, a) /\ a.clients = b.clients
        /\ PutOne(b.channels, Followers(b.channels, m.id, m.order, m.parent), m.id, a.channels)
    BY <1>2, OrderInsertFacts
  <1>4. DOMAIN a.channels = DOMAIN b.channels
    <2>1. Followers(b.channels, m.id, m.order, m.parent) \subseteq DOMAIN b.channels
      BY DEF Followers
    <2> QED
      BY <1>3, <2>1, PutOneForm DEF Good
  <1>5. /\ Leads(a, r) /\ r.clients = a.clients
        /\ \E c1 : /\ PutOne(a.channels, Followers(a.channels, m.id, m.order, m.parent), m.id, c1)
                   /\ r.channels = With(c1, m.id, NewChannel(m, family))
    <2>1. Good(a) /\ m.id \notin DOMAIN a.channels
      BY <1>3, <1>4 DEF Leads
    <2> QED
      BY <1>2, <2>1, AddChannelFacts
  <1>6. Leads(b, r)
    BY <1>3, <1>5, LeadsTransitive
  <1> QED
    BY <1>1, <1>3, <1>5, <1>6

LEMMA ChannelListFacts ==
  ASSUME NEW b, Good(b), NEW m, m.id \notin DOMAIN b.channels, NEW r \in ChannelList(b, m)
  PROVE  /\ Leads(b, r) /\ r.clients = b.clients
         /\ \E c1 :
              /\ PutOne(b.channels, Followers(b.channels, m.id, m.order, m.parent), m.id, c1)
              /\ r.channels = With(c1, m.id, NewChannel(m,
                   MaxFamilyClientsOfList(m.family_unlimited, m.inherits, m.family_num)))
  BY AddChannelFacts DEF ChannelList

LEMMA SetAttrFacts ==
  ASSUME NEW b, Good(b), NEW id \in DOMAIN b.channels, NEW value, NEW invoker
  PROVE  /\ \A r : r = SetChannel(b, id, "parent", value, invoker) =>
                     /\ Leads(b, r) /\ r.clients = b.clients
                     /\ r.channels = Put(b.channels, id, "parent", value)
         /\ \A r : r = SetChannel(b, id, "max", value, invoker) =>
                     /\ Leads(b, r) /\ r.clients = b.clients
                     /\ r.channels = Put(b.channels, id, "max", value)
         /\ \A r : r = SetChannel(b, id, "family", value, invoker) =>
                     /\ Leads(b, r) /\ r.clients = b.clients
                     /\ r.channels = Put(b.channels, id, "family", value)
         /\ \A r : r = SetChannel(b, id, "type", value, invoker) =>
                     /\ Leads(b, r) /\ r.clients = b.clients
                     /\ r.channels = Put(b.channels, id, "type", value)
         /\ \A r : r = SetChannel(b, id, "subscribed", value, invoker) =>
                     /\ Leads(b, r) /\ r.clients = b.clients
                     /\ r.channels = Put(b.channels, id, "subscribed", value)
  <1>1. ASSUME NEW attr \in ChannelAttrs, NEW r, r = SetChannel(b, id, attr, value, invoker)
        PROVE  /\ Leads(b, r) /\ r.clients = b.clients
               /\ r.channels = Put(b.channels, id, attr, value)
    BY <1>1, SetChannelFacts
  <1> QED
    BY <1>1 DEF ChannelAttrs

LEMMA ChannelMovedFacts ==
  ASSUME NEW b, Good(b), NEW m, m.id \in DOMAIN b.channels, m.order # Nothing,
         m.parent # Nothing, NEW r \in ChannelMoved(b, m)
  PROVE  /\ Leads(b, r) /\ r.clients = b.clients
         /\ \E d : /\ Reordered(b.channels, m.id, m.order, m.parent, d)
                   /\ r.channels = Put(d, m.id, "parent", m.parent)
  <1>1. PICK a \in OrderMove(b, m.id, m.order, m.parent) :
          r = SetChannel(a, m.id, "parent", m.parent, m.invoker)
    BY DEF ChannelMoved
  <1>2. /\ Leads(b, a) /\ a.clients = b.clients
        /\ Reordered(b.channels, m.id, m.order, m.parent, a.channels)
    BY <1>1, OrderMoveFacts
  <1>3. DOMAIN a.channels = DOMAIN b.channels
    <2>1. PICK c1, c2 :
            /\ c1 = Put(b.channels, m.id, "order", m.order)
            /\ PutOne(c1, PointingTo(c1, m.id), At(b.channels, m.id, "order"), c2)
            /\ PutOne(c2, Followers(c2, m.id, m.order, m.parent), m.id, a.channels)
      BY <1>2 DEF Reordered
    <2>2. Form(c1, ChannelAttrs) /\ DOMAIN c1 = DOMAIN b.channels
      <3>1. PICK attr \in ChannelAttrs : attr = "order"
        BY DEF ChannelAttrs
      <3>2. Form(b.channels, ChannelAttrs) /\ c1 = Put(b.channels, m.id, attr, m.order)
        BY <2>1, <3>1 DEF Good
      <3> QED
        BY <3>2, PutFacts
    <2>3. PointingTo(c1, m.id) \subseteq DOMAIN c1
          /\ Followers(c2, m.id, m.order, m.parent) \subseteq DOMAIN c2
      BY DEF PointingTo, Followers
    <2>4. Form(c2, ChannelAttrs) /\ DOMAIN c2 = DOMAIN c1
      BY <2>1, <2>2, <2>3, PutOneForm
    <2> QED
      BY <2>1, <2>2, <2>3, <2>4, PutOneForm
  <1>4. Leads(a, r) /\ r.clients = a.clients /\ r.channels = Put(a.channels, m.id, "parent", m.parent)
    <2>1. Good(a) /\ m.id \in DOMAIN a.channels
      BY <1>2, <1>3 DEF Leads
    <2> QED
      BY <1>1, <2>1, SetAttrFacts
  <1>5. Leads(b, r)
    BY <1>2, <1>4, LeadsTransitive
  <1> QED
    BY <1>2, <1>4, <1>5

\* d is c but for the attributes in A of the channel id.
Differs(c, d, id, A) ==
  /\ Form(d, ChannelAttrs) /\ DOMAIN d = DOMAIN c
  /\ \A x \in DOMAIN c : x # id => d[x] = c[x]
  /\ \A a \in ChannelAttrs \ A : At(d, id, a) = At(c, id, a)

LEMMA SetDiffers ==
  ASSUME NEW b, Good(b), NEW id \in DOMAIN b.channels, NEW attr \in ChannelAttrs, NEW value,
         NEW invoker, NEW r, r = SetChannel(b, id, attr, value, invoker), NEW A, attr \in A
  PROVE  /\ Leads(b, r) /\ r.clients = b.clients /\ Good(r)
         /\ Differs(b.channels, r.channels, id, A) /\ At(r.channels, id, attr) = value
  <1>1. PICK c, d : c = b.channels /\ d = r.channels
    OBVIOUS
  <1>2. Leads(b, r) /\ r.clients = b.clients /\ d = Put(c, id, attr, value)
    BY <1>1, SetChannelFacts
  <1>3. Form(c, ChannelAttrs) /\ id \in DOMAIN c
    BY <1>1 DEF Good
  <1>4. /\ Form(d, ChannelAttrs) /\ DOMAIN d = DOMAIN c /\ At(d, id, attr) = value
        /\ \A y \in DOMAIN c : y # id => d[y] = c[y]
        /\ \A y \in DOMAIN c : \A a \in ChannelAttrs : y # id \/ a # attr => At(d, y, a) = At(c, y, a)
    BY <1>2, <1>3, PutFacts
  <1>5. Differs(c, d, id, A)
    BY <1>3, <1>4 DEF Differs
  <1> QED
    BY <1>1, <1>2, <1>4, <1>5 DEF Leads

\* What is set when a field is not missing.
Kept(new, old) == IF new = Nothing THEN old ELSE new

SetKept(b, id, attr, value, invoker) ==
  IF value = Nothing THEN b ELSE SetChannel(b, id, attr, value, invoker)

LEMMA SetKeptFacts ==
  ASSUME NEW b, Good(b), NEW id, id \in DOMAIN b.channels, NEW attr, attr \in ChannelAttrs,
         NEW value, NEW invoker, NEW A, attr \in A
  PROVE  /\ Leads(b, SetKept(b, id, attr, value, invoker))
         /\ SetKept(b, id, attr, value, invoker).clients = b.clients
         /\ Good(SetKept(b, id, attr, value, invoker))
         /\ Differs(b.channels, SetKept(b, id, attr, value, invoker).channels, id, A)
         /\ At(SetKept(b, id, attr, value, invoker).channels, id, attr) =
              Kept(value, At(b.channels, id, attr))
  <1>1. CASE value = Nothing
    <2>1. SetKept(b, id, attr, value, invoker) = b
      BY <1>1 DEF SetKept
    <2>2. Differs(b.channels, b.channels, id, A)
      BY DEF Good, Differs
    <2> QED
      BY <1>1, <2>1, <2>2, LeadsSelf DEF Kept
  <1>2. CASE value # Nothing
    <2>1. PICK r : r = SetChannel(b, id, attr, value, invoker)
      OBVIOUS
    <2>2. SetKept(b, id, attr, value, invoker) = r
      BY <1>2, <2>1 DEF SetKept
    <2>3. /\ Leads(b, r) /\ r.clients = b.clients /\ Good(r)
          /\ Differs(b.channels, r.channels, id, A) /\ At(r.channels, id, attr) = value
      BY <2>1, SetDiffers
    <2>4. Kept(value, At(b.channels, id, attr)) = value
      BY <1>2 DEF Kept
    <2> QED
      BY <2>2, <2>3, <2>4
  <1> QED
    BY <1>1, <1>2

LEMMA EditLimitsFacts ==
  ASSUME NEW b, Good(b), NEW m, NEW id \in DOMAIN b.channels, id = m.id,
         NEW r, r = EditLimits(b, m),
         NEW max, max = MaxClients(m.unlimited, m.num),
         NEW family, family = MaxFamilyClients(m.family_unlimited, m.inherits, m.family_num)
  PROVE  /\ Leads(b, r) /\ r.clients = b.clients /\ Good(r)
         /\ Differs(b.channels, r.channels, id, {"max", "family"})
         /\ At(r.channels, id, "max") = Kept(max, At(b.channels, id, "max"))
         /\ At(r.channels, id, "family") = Kept(family, At(b.channels, id, "family"))
  <1>1. PICK A1 \in ChannelAttrs, A2 \in ChannelAttrs : A1 = "max" /\ A2 = "family" /\ A1 # A2
    BY DEF ChannelAttrs
  <1>2. PICK S1, S2, S : S1 = {A1} /\ S2 = {A2} /\ S = {A1, A2}
    OBVIOUS
  <1>3. A1 \in S1 /\ A2 \in S2 /\ A1 \notin S2 /\ A2 \notin S1 /\ S1 \subseteq S /\ S2 \subseteq S
    BY <1>1, <1>2
  <1>4. PICK v1, v2, inv, i : v1 = max /\ v2 = family /\ inv = m.invoker /\ i = id
    OBVIOUS
  <1>5. PICK b1 : b1 = SetKept(b, i, A1, v1, inv)
    OBVIOUS
  <1>6. PICK b2 : b2 = SetKept(b1, i, A2, v2, inv)
    OBVIOUS
  <1>7. r = b2
    BY <1>1, <1>4, <1>5, <1>6 DEF EditLimits, SetKept
  <1>8. /\ Leads(b, b1) /\ b1.clients = b.clients /\ Good(b1)
        /\ Differs(b.channels, b1.channels, i, S1)
        /\ At(b1.channels, i, A1) = Kept(v1, At(b.channels, i, A1))
    BY <1>3, <1>4, <1>5, SetKeptFacts
  <1>9. i \in DOMAIN b1.channels
    BY <1>4, <1>8 DEF Differs
  <1>10. /\ Leads(b1, b2) /\ b2.clients = b1.clients /\ Good(b2)
         /\ Differs(b1.channels, b2.channels, i, S2)
         /\ At(b2.channels, i, A2) = Kept(v2, At(b1.channels, i, A2))
    BY <1>3, <1>6, <1>8, <1>9, SetKeptFacts
  <1>11. Leads(b, b2)
    BY <1>8, <1>10, LeadsTransitive
  <1>12. Differs(b.channels, b2.channels, i, S)
    BY <1>3, <1>8, <1>10 DEF Differs
  <1>13. At(b2.channels, i, A1) = At(b1.channels, i, A1) /\ At(b1.channels, i, A2) = At(b.channels, i, A2)
    BY <1>3, <1>8, <1>10 DEF Differs
  <1>14. At(b2.channels, i, A1) = Kept(v1, At(b.channels, i, A1))
         /\ At(b2.channels, i, A2) = Kept(v2, At(b.channels, i, A2))
    BY <1>8, <1>10, <1>13
  <1> QED
    BY <1>1, <1>2, <1>4, <1>7, <1>8, <1>10, <1>11, <1>12, <1>14

LEMMA EditTypeFacts ==
  ASSUME NEW b, Good(b), NEW m, NEW id \in DOMAIN b.channels, id = m.id,
         NEW r, r = EditType(b, m),
         NEW type, type = IF m.permanent = Nothing /\ m.semi = Nothing THEN At(b.channels, id, "type")
                          ELSE ChannelFlagsToType(m.permanent, m.semi)
  PROVE  /\ Leads(b, r) /\ r.clients = b.clients /\ Good(r)
         /\ Differs(b.channels, r.channels, id, {"type"})
         /\ At(r.channels, id, "type") = type
  <1>1. PICK attr \in ChannelAttrs : attr = "type"
    BY DEF ChannelAttrs
  <1>2. CASE m.permanent = Nothing /\ m.semi = Nothing
    <2>1. r = b
      BY <1>2 DEF EditType
    <2>2. Differs(b.channels, b.channels, id, {"type"})
      BY DEF Good, Differs
    <2> QED
      BY <1>2, <2>1, <2>2, LeadsSelf
  <1>3. CASE ~(m.permanent = Nothing /\ m.semi = Nothing)
    <2>1. r = SetChannel(b, id, attr, type, m.invoker)
      BY <1>1, <1>3 DEF EditType
    <2>2. attr \in {"type"}
      BY <1>1
    <2> QED
      BY <1>1, <2>1, <2>2, SetDiffers
  <1> QED
    BY <1>2, <1>3

\* An edit that does not move the channel.
LEMMA EditFacts ==
  ASSUME NEW b, Good(b), NEW m, NEW id \in DOMAIN b.channels, id = m.id,
         m.order = Nothing, NEW r \in ChannelEdited(b, m),
         NEW max, max = MaxClients(m.unlimited, m.num),
         NEW family, family = MaxFamilyClients(m.family_unlimited, m.inherits, m.family_num)
  PROVE  /\ Leads(b, r) /\ r.clients = b.clients
         /\ Differs(b.channels, r.channels, id, {"max", "family", "type"})
         /\ At(r.channels, id, "max") = Kept(max, At(b.channels, id, "max"))
         /\ At(r.channels, id, "family") = Kept(family, At(b.channels, id, "family"))
         /\ At(r.channels, id, "type") =
              IF m.permanent = Nothing /\ m.semi = Nothing THEN At(b.channels, id, "type")
              ELSE ChannelFlagsToType(m.permanent, m.semi)
  <1>1. PICK a : a = EditLimits(b, m)
    OBVIOUS
  <1>2. r = EditType(a, m)
    BY <1>1 DEF ChannelEdited, OrderMove
  <1>3. /\ Leads(b, a) /\ a.clients = b.clients /\ Good(a)
        /\ Differs(b.channels, a.channels, id, {"max", "family"})
        /\ At(a.channels, id, "max") = Kept(max, At(b.channels, id, "max"))
        /\ At(a.channels, id, "family") = Kept(family, At(b.channels, id, "family"))
    BY <1>1, EditLimitsFacts
  <1>4. id \in DOMAIN a.channels
    BY <1>3 DEF Differs
  <1>5. PICK type : type = IF m.permanent = Nothing /\ m.semi = Nothing THEN At(a.channels, id, "type")
                           ELSE ChannelFlagsToType(m.permanent, m.semi)
    OBVIOUS
  <1>6. /\ Leads(a, r) /\ r.clients = a.clients /\ Good(r)
        /\ Differs(a.channels, r.channels, id, {"type"})
        /\ At(r.channels, id, "type") = type
    BY <1>2, <1>3, <1>4, <1>5, EditTypeFacts
  <1>7. Leads(b, r)
    BY <1>3, <1>6, LeadsTransitive
  <1>8. Differs(b.channels, r.channels, id, {"max", "family", "type"})
    BY <1>3, <1>6 DEF Differs
  <1>9. /\ At(r.channels, id, "max") = At(a.channels, id, "max")
        /\ At(r.channels, id, "family") = At(a.channels, id, "family")
    <2>1. "max" \in ChannelAttrs \ {"type"} /\ "family" \in ChannelAttrs \ {"type"}
      BY DEF ChannelAttrs
    <2> QED
      BY <1>6, <2>1 DEF Differs
  <1>10. At(a.channels, id, "type") = At(b.channels, id, "type")
    <2>1. "type" \in ChannelAttrs \ {"max", "family"}
      BY DEF ChannelAttrs
    <2> QED
      BY <1>3, <2>1 DEF Differs
  <1>11. At(r.channels, id, "type") =
              IF m.permanent = Nothing /\ m.semi = Nothing THEN At(b.channels, id, "type")
              ELSE ChannelFlagsToType(m.permanent, m.semi)
    BY <1>5, <1>6, <1>10
  <1>12. /\ At(r.channels, id, "max") = Kept(max, At(b.channels, id, "max"))
         /\ At(r.channels, id, "family") = Kept(family, At(b.channels, id, "family"))
    BY <1>3, <1>9
  <1> QED
    BY <1>3, <1>6, <1>7, <1>8, <1>11, <1>12

LEMMA SetChannelShape ==
  ASSUME NEW c, NEW k, NEW e, NEW id, NEW attr, NEW value, NEW invoker
  PROVE  SetChannel(Parts(c, k, e), id, attr, value, invoker) =
           Parts(Put(c, id, attr, value), k,
                 Append(e, PropertyChanged(<<"channel", id, attr>>, At(c, id, attr), invoker)))
  <1>1. PICK ev : ev = PropertyChanged(<<"channel", id, attr>>, At(c, id, attr), invoker)
    OBVIOUS
  <1>2. PICK d : d = Put(c, id, attr, value)
    OBVIOUS
  <1>3. PICK b : b = Parts(c, k, e)
    OBVIOUS
  <1>4. b.channels = c /\ b.events = e
    BY <1>3 DEF Parts
  <1>5. [b EXCEPT !.channels[id][attr] = value] = Parts(d, k, e)
    BY <1>2, <1>3 DEF Parts, Put
  <1>6. SetChannel(b, id, attr, value, invoker) = Reported(Parts(d, k, e), ev)
    BY <1>1, <1>4, <1>5 DEF SetChannel, At
  <1>7. Reported(Parts(d, k, e), ev) = Parts(d, k, Append(e, ev))
    BY ReportedFacts
  <1> QED
    BY <1>1, <1>2, <1>3, <1>6, <1>7

\* A channel without the others that point to it.
LEMMA RemovedFacts ==
  ASSUME NEW b, Good(b), NEW id \in DOMAIN b.channels, NEW invoker, NEW r,
         NEW d, d = Without(b.channels, id), NEW old, old = b.channels[id],
         r = Reported(Parts(d, b.clients, b.events), PropertyRemoved(<<"channel", id>>, old, invoker))
  PROVE  Leads(b, r) /\ r.clients = b.clients /\ r.channels = d
  <1>1. PICK c, k : c = b.channels /\ k = b.clients /\ Form(c, ChannelAttrs) /\ Form(k, ClientAttrs)
    BY DEF Good
  <1>2. Form(d, ChannelAttrs) /\ With(d, id, c[id]) = c
    <2>1. Form(c, ChannelAttrs) /\ id \in DOMAIN c /\ d = Without(c, id)
      BY <1>1
    <2> QED
      BY <2>1, WithoutFacts
  <1>3. PICK ev : ev = PropertyRemoved(<<"channel", id>>, old, invoker)
    OBVIOUS
  <1>4. Undone(ev, Content(d, k)) = Content(c, k)
    BY <1>1, <1>2, <1>3, UndoRemovedChannel
  <1>5. r = Reported(Parts(d, k, b.events), ev)
    BY <1>1, <1>3
  <1> QED
    BY <1>1, <1>2, <1>4, <1>5, OneEvent

LEMMA ChannelDeletedFacts ==
  ASSUME NEW b, Good(b), NEW m, m.id \in DOMAIN b.channels, NEW r \in ChannelDeleted(b, m)
  PROVE  /\ Leads(b, r) /\ r.clients = b.clients
         /\ \E c0 : /\ c0 = Without(b.channels, m.id)
                    /\ PutOne(c0, PointingTo(c0, m.id), At(b.channels, m.id, "order"), r.channels)
  <1>1. PICK c, k, e : /\ c = b.channels /\ k = b.clients /\ e = b.events /\ b = Parts(c, k, e)
                       /\ Form(c, ChannelAttrs) /\ Form(k, ClientAttrs) /\ IsSeq(e)
    BY DEF Good
  <1>2. PICK id \in DOMAIN c : id = m.id
    BY <1>1
  <1>3. PICK c0, b0, old, order, inv :
          /\ c0 = Without(c, id) /\ b0 = Parts(c0, k, e) /\ old = c[id] /\ order = At(c, id, "order")
          /\ inv = m.invoker
    OBVIOUS
  <1>4. [b EXCEPT !.channels = Without(@, id)] = b0
    <2>1. [b EXCEPT !.channels = c0] = b0
      BY <1>1, <1>3 DEF Parts
    <2> QED
      BY <1>1, <1>3, <2>1
  <1>5. PICK a \in OrderRemove(b0, id, order) :
          r = Reported(a, PropertyRemoved(<<"channel", id>>, old, inv))
    BY <1>1, <1>2, <1>3, <1>4 DEF ChannelDeleted, At
  <1>6. PICK S : S = PointingTo(c0, id)
    OBVIOUS
  <1>7. OrderRemove(b0, id, order) =
          IF S = {} THEN {b0} ELSE {SetChannel(b0, x, "order", order, Nothing) : x \in S}
    <2>1. b0.channels = c0
      BY <1>3 DEF Parts
    <2> QED
      BY <1>6, <2>1 DEF OrderRemove, PointingTo
  <1>8. /\ Form(c0, ChannelAttrs) /\ \A y \in DOMAIN c0 : c0[y] = c[y]
        /\ \A y : y \in DOMAIN c0 <=> y \in DOMAIN c /\ y # id
    <2>1. Form(c, ChannelAttrs) /\ c0 = Without(c, id)
      BY <1>1, <1>3
    <2> QED
      BY <2>1, WithoutFacts
  <1>9. CASE S = {}
    <2>1. a = b0
      BY <1>5, <1>7, <1>9
    <2>2. r = Reported(Parts(c0, b.clients, b.events), PropertyRemoved(<<"channel", id>>, old, inv))
      BY <1>1, <1>3, <1>5, <2>1
    <2>3. id \in DOMAIN b.channels /\ c0 = Without(b.channels, id) /\ old = b.channels[id]
      BY <1>1, <1>3
    <2>4. Leads(b, r) /\ r.clients = b.clients /\ r.channels = c0
      BY <2>2, <2>3, RemovedFacts
    <2> QED
      BY <1>1, <1>2, <1>3, <1>6, <1>9, <2>4 DEF PutOne
  <1>10. CASE S # {}
    <2>1. PICK x \in S : a = SetChannel(b0, x, "order", order, Nothing)
      BY <1>5, <1>7, <1>10
    <2>2. x \in DOMAIN c0 /\ x \in DOMAIN c /\ x # id
      BY <1>6, <1>8 DEF PointingTo
    <2>3. PICK attr \in ChannelAttrs : attr = "order"
      BY DEF ChannelAttrs
    <2>4. PICK d, d0, ev, b1, none :
            /\ d = Put(c, x, attr, order) /\ d0 = Put(c0, x, attr, order) /\ none = Nothing
            /\ ev = PropertyChanged(<<"channel", x, attr>>, At(c, x, attr), none)
            /\ b1 = SetChannel(b, x, attr, order, none)
      OBVIOUS
    <2>5. b1 = Parts(d, k, Append(e, ev))
      <3>1. b1 = SetChannel(Parts(c, k, e), x, attr, order, none)
        BY <1>1, <2>4
      <3> QED
        BY <2>4, <3>1, SetChannelShape
    <2>6. At(c0, x, attr) = At(c, x, attr)
      BY <1>8, <2>2 DEF At
    <2>7. a = Parts(d0, k, Append(e, ev))
      <3>1. a = SetChannel(Parts(c0, k, e), x, attr, order, none)
        BY <1>3, <2>1, <2>3, <2>4
      <3>2. a = Parts(d0, k, Append(e, PropertyChanged(<<"channel", x, attr>>, At(c0, x, attr), none)))
        BY <2>4, <3>1, SetChannelShape
      <3> QED
        BY <2>4, <2>6, <3>2
    <2>8. Leads(b, b1) /\ b1.clients = b.clients /\ b1.channels = d
      <3>1. x \in DOMAIN b.channels /\ b1 = SetChannel(b, x, attr, order, none)
            /\ d = Put(b.channels, x, attr, order)
        BY <1>1, <2>2, <2>4
      <3> QED
        BY <3>1, SetChannelFacts
    <2>9. /\ Form(d, ChannelAttrs) /\ DOMAIN d = DOMAIN c /\ At(d, x, attr) = order
          /\ \A y \in DOMAIN c : y # x => d[y] = c[y]
          /\ \A y \in DOMAIN c : \A t \in ChannelAttrs : y # x \/ t # attr => At(d, y, t) = At(c, y, t)
      <3>1. Form(c, ChannelAttrs) /\ x \in DOMAIN c /\ d = Put(c, x, attr, order)
        BY <1>1, <2>2, <2>4
      <3> QED
        BY <3>1, PutFacts
    <2>10. /\ Form(d0, ChannelAttrs) /\ DOMAIN d0 = DOMAIN c0 /\ At(d0, x, attr) = order
           /\ \A y \in DOMAIN c0 : \A t \in ChannelAttrs :
                y # x \/ t # attr => At(d0, y, t) = At(c0, y, t)
      <3>1. Form(c0, ChannelAttrs) /\ x \in DOMAIN c0 /\ d0 = Put(c0, x, attr, order)
        BY <1>8, <2>2, <2>4
      <3> QED
        BY <3>1, PutFacts
    <2>11. PICK w : w = Without(d, id)
      OBVIOUS
    <2>12. /\ Form(w, ChannelAttrs) /\ \A y \in DOMAIN w : w[y] = d[y]
           /\ \A y : y \in DOMAIN w <=> y \in DOMAIN d /\ y # id
      <3>1. Form(d, ChannelAttrs) /\ id \in DOMAIN d
        BY <2>9
      <3> QED
        BY <2>11, <3>1, WithoutFacts
    <2>13. w = d0
      <3>1. DOMAIN w = DOMAIN d0
        BY <1>8, <2>9, <2>10, <2>12
      <3>2. ASSUME NEW y \in DOMAIN w, NEW t \in ChannelAttrs PROVE At(w, y, t) = At(d0, y, t)
        <4>1. At(w, y, t) = At(d, y, t) /\ At(c0, y, t) = At(c, y, t) /\ y \in DOMAIN c /\ y \in DOMAIN c0
          BY <1>8, <2>9, <2>12 DEF At
        <4>2. CASE y = x /\ t = attr
          BY <2>9, <2>10, <4>1, <4>2
        <4>3. CASE ~(y = x /\ t = attr)
          BY <2>9, <2>10, <4>1, <4>3
        <4> QED
          BY <4>2, <4>3
      <3> QED
        BY <2>10, <2>12, <3>1, <3>2, FormEqual
    <2>14. b1.events = Append(e, ev) /\ b1.clients = k
      BY <2>5 DEF Parts
    <2>15. d[id] = old /\ id \in DOMAIN d
      BY <1>3, <2>2, <2>9
    <2>16. Leads(b1, r) /\ r.clients = b1.clients /\ r.channels = d0
      <3>1. Good(b1) /\ id \in DOMAIN b1.channels /\ d0 = Without(b1.channels, id) /\ old = b1.channels[id]
        BY <2>8, <2>11, <2>13, <2>15 DEF Leads
      <3>2. r = Reported(Parts(d0, b1.clients, b1.events), PropertyRemoved(<<"channel", id>>, old, inv))
        BY <1>5, <2>7, <2>14
      <3> QED
        BY <3>1, <3>2, RemovedFacts
    <2>17. Leads(b, r)
      BY <2>8, <2>16, LeadsTransitive
    <2>18. r.clients = b.clients /\ PutOne(c0, S, order, r.channels)
      BY <2>3, <2>4, <2>8, <2>16 DEF PutOne
    <2> QED
      BY <1>1, <1>2, <1>3, <1>6, <2>17, <2>18
  <1> QED
    BY <1>9, <1>10

LEMMA SetSubscribedFacts ==
  ASSUME NEW b, Good(b), NEW id, id \in DOMAIN b.channels, NEW value,
         NEW r, r = SetChannel(b, id, "subscribed", value, Nothing)
  PROVE  /\ Leads(b, r) /\ r.clients = b.clients
         /\ Differs(b.channels, r.channels, id, {"subscribed"})
         /\ At(r.channels, id, "subscribed") = value
  <1>1. PICK attr, A, none : /\ attr \in ChannelAttrs /\ attr = "subscribed" /\ A = {"subscribed"}
                             /\ none = Nothing
    BY DEF ChannelAttrs
  <1>2. attr \in A
    BY <1>1
  <1>3. r = SetChannel(b, id, attr, value, none)
    BY <1>1
  <1>4. Leads(b, r) /\ r.clients = b.clients /\ Differs(b.channels, r.channels, id, A)
        /\ At(r.channels, id, attr) = value
    BY <1>1, <1>2, <1>3, SetDiffers
  <1> QED
    BY <1>1, <1>4

-----------------------------------------------------------------------------
(* Sequences of the elements of a set.                                     *)

LEMMA FunctionSeq ==
  ASSUME NEW n \in Nat, NEW E, NEW f \in [1 .. n -> E]
  PROVE  f \in Seq(E) /\ Len(f) = n
  OBVIOUS

LEMMA SetToSeqFacts ==
  ASSUME NEW S, IsFiniteSet(S), NEW s, s = SetToSeq(S)
  PROVE  /\ s \in Seq(S) /\ Len(s) \in Nat
         /\ \A i \in 1 .. Len(s) : s[i] \in S
         /\ \A i \in 1 .. Len(s) : \A j \in 1 .. Len(s) : s[i] = s[j] => i = j
         /\ \A x \in S : \E i \in 1 .. Len(s) : s[i] = x
  <1>1. PICK n \in Nat : n = Cardinality(S)
    BY FS_CardinalityType
  <1>2. \E f \in [1 .. n -> S] : IsInjective(f)
    <2>1. PICK f \in Bijection(1 .. n, S) : TRUE
      BY <1>1, FS_CardinalityType DEF ExistsBijection
    <2> QED
      BY <2>1 DEF Bijection, Injection, IsInjective
  <1>3. s \in [1 .. n -> S] /\ IsInjective(s)
    BY <1>1, <1>2 DEF SetToSeq
  <1>4. s \in Seq(S) /\ Len(s) = n
    BY <1>3
  <1>5. \A i \in 1 .. n : \A j \in 1 .. n : s[i] = s[j] => i = j
    BY <1>3 DEF IsInjective
  <1>6. \A x \in S : \E i \in 1 .. n : s[i] = x
    <2>1. s \in Injection(1 .. n, S)
      BY <1>3 DEF Injection, IsInjective
    <2>2. Cardinality(1 .. n) = n
      BY FS_Interval
    <2>3. s \in Surjection(1 .. n, S)
      BY <1>1, <2>1, <2>2, FS_Injection
    <2> QED
      BY <2>3 DEF Surjection
  <1> QED
    BY <1>3, <1>4, <1>5, <1>6

LEMMA ChannelSubscribedFacts ==
  ASSUME NEW b, Good(b), NEW m, m.id \in DOMAIN b.channels, NEW r \in ChannelSubscribed(b, m)
  PROVE  /\ Leads(b, r) /\ r.clients = b.clients
         /\ Differs(b.channels, r.channels, m.id, {"subscribed"})
         /\ At(r.channels, m.id, "subscribed") = TRUE
  <1>1. PICK id, value : id = m.id /\ value = TRUE
    OBVIOUS
  <1>2. r = SetChannel(b, id, "subscribed", value, Nothing)
    BY <1>1 DEF ChannelSubscribed
  <1>3. /\ Leads(b, r) /\ r.clients = b.clients
        /\ Differs(b.channels, r.channels, id, {"subscribed"})
        /\ At(r.channels, id, "subscribed") = value
    <2>1. id \in DOMAIN b.channels
      BY <1>1
    <2> QED
      BY <1>2, <2>1, SetSubscribedFacts
  <1> QED
    BY <1>1, <1>3, Zenon

\* The clients that are left, and the events for the others in some order.
Remaining(k, lost) == [x \in DOMAIN k \ lost |-> k[x]]
Farewells(k, list) ==
  [i \in DOMAIN list |-> PropertyRemoved(<<"client", list[i]>>, k[list[i]], Nothing)]

\* The events for the clients of a channel bring them back.
LEMMA GoneTrail ==
  ASSUME NEW c, NEW k, k = [x \in DOMAIN k |-> k[x]], NEW lost, lost \subseteq DOMAIN k,
         IsFiniteSet(lost)
  PROVE  /\ IsSeq(Farewells(k, SetToSeq(lost)))
         /\ Back(Farewells(k, SetToSeq(lost)), Content(c, Remaining(k, lost)), Content(c, k))
  <1>1. PICK list : list = SetToSeq(lost)
    OBVIOUS
  <1>2. PICK es : es = Farewells(k, list)
    OBVIOUS
  <1>3. PICK left : left = Remaining(k, lost)
    OBVIOUS
  <1>4. es = [i \in DOMAIN list |-> PropertyRemoved(<<"client", list[i]>>, k[list[i]], Nothing)]
    BY <1>2 DEF Farewells
  <1>5. left = [x \in DOMAIN k \ lost |-> k[x]]
    BY <1>3 DEF Remaining
  <1>6. PICK n \in Nat : n = Len(list)
    BY <1>1, SetToSeqFacts
  <1>7. /\ list \in Seq(lost) /\ \A i \in 1 .. n : list[i] \in lost
        /\ \A i \in 1 .. n : \A j \in 1 .. n : list[i] = list[j] => i = j
        /\ \A x \in lost : \E i \in 1 .. n : list[i] = x
    BY <1>6, <1>1, SetToSeqFacts
  <1>8. DOMAIN list = 1 .. n
    BY <1>6, <1>7
  <1>9. PICK E : E = {PropertyRemoved(<<"client", list[i]>>, k[list[i]], Nothing) : i \in 1 .. n}
    OBVIOUS
  <1>10. es \in Seq(E) /\ Len(es) = n
    <2>1. es \in [1 .. n -> E]
      BY <1>8, <1>9, <1>4
    <2> QED
      BY <2>1, FunctionSeq
  <1> DEFINE Back1(i) == {list[j] : j \in (n - i + 1) .. n}
             Part(i) == [x \in (DOMAIN k \ lost) \cup Back1(i) |-> k[x]]
             u == [i \in 0 .. n |-> Content(c, Part(i))]
  <1>11. Part(0) = left
    <2>1. Back1(0) = {}
      OBVIOUS
    <2> QED
      BY <2>1, <1>5
  <1>12. Part(n) = k
    <2>1. Back1(n) = lost
      BY <1>7
    <2>2. (DOMAIN k \ lost) \cup Back1(n) = DOMAIN k
      BY <2>1
    <2> HIDE DEF Back1
    <2> QED
      BY <2>2
  <1>13. ASSUME NEW i \in 1 .. n
        PROVE  Content(c, Part(i)) = Undone(es[n - i + 1], Content(c, Part(i - 1)))
    <2>1. PICK j \in 1 .. n : j = n - i + 1
      OBVIOUS
    <2>2. PICK x, none : x = list[j] /\ none = Nothing
      OBVIOUS
    <2>3. es[j] = PropertyRemoved(<<"client", x>>, k[x], none)
      BY <1>8, <1>4, <2>2
    <2>4. Undone(es[j], Content(c, Part(i - 1))) = Content(c, With(Part(i - 1), x, k[x]))
      <3> HIDE DEF Part
      <3> QED
        BY <2>3, UndoRemovedClient
    <2>5. Back1(i) = Back1(i - 1) \cup {x}
      BY <2>1, <2>2
    <2>6. With(Part(i - 1), x, k[x]) = Part(i)
      <3> HIDE DEF Back1
      <3> QED
        BY <2>5 DEF With
    <2> HIDE DEF Part
    <2> QED
      BY <2>1, <2>4, <2>6
  <1>14. Trail(u, es, Content(c, left), Content(c, k))
    <2>1. u[0] = Content(c, left) /\ u[n] = Content(c, k)
      <3> HIDE DEF Part
      <3> QED
        BY <1>11, <1>12
    <2>2. ASSUME NEW i \in 1 .. n PROVE u[i] = Undone(es[n - i + 1], u[i - 1])
      <3>1. u[i] = Content(c, Part(i)) /\ u[i - 1] = Content(c, Part(i - 1))
        <4> HIDE DEF Part
        <4> QED
          OBVIOUS
      <3> HIDE DEF u, Part
      <3> QED
        BY <1>13, <3>1
    <2> HIDE DEF u
    <2> QED
      BY <1>10, <2>1, <2>2 DEF Trail
  <1> HIDE DEF u
  <1>15. IsSeq(es) /\ Back(es, Content(c, left), Content(c, k))
    BY <1>10, <1>14 DEF Back, IsSeq
  <1> QED
    BY <1>1, <1>2, <1>3, <1>15

LEMMA ChannelUnsubscribedFacts ==
  ASSUME NEW b, Good(b), NEW m, m.id \in DOMAIN b.channels, IsFiniteSet(DOMAIN b.clients),
         NEW r \in ChannelUnsubscribed(b, m)
  PROVE  /\ Leads(b, r)
         /\ Differs(b.channels, r.channels, m.id, {"subscribed"})
         /\ At(r.channels, m.id, "subscribed") = FALSE
         /\ \A x : x \in DOMAIN r.clients <=> x \in DOMAIN b.clients /\ At(b.clients, x, "channel") # m.id
         /\ \A x \in DOMAIN r.clients : r.clients[x] = b.clients[x]
  <1>1. PICK id, value, k, lost : /\ id = m.id /\ value = FALSE /\ k = b.clients
                                  /\ lost = {x \in DOMAIN k : k[x].channel = id}
    OBVIOUS
  <1>2. PICK list, b1 : list = SetToSeq(lost) /\ b1 = SetChannel(b, id, "subscribed", value, Nothing)
    OBVIOUS
  <1>3. PICK es : es = [i \in DOMAIN list |-> PropertyRemoved(<<"client", list[i]>>, k[list[i]], Nothing)]
    OBVIOUS
  <1>4. PICK left : left = [x \in DOMAIN k \ lost |-> k[x]]
    OBVIOUS
  <1>5. /\ Leads(b, b1) /\ b1.clients = k
        /\ Differs(b.channels, b1.channels, id, {"subscribed"})
        /\ At(b1.channels, id, "subscribed") = value
    BY <1>1, <1>2, SetSubscribedFacts
  <1>6. PICK c, e : /\ c = b1.channels /\ e = b1.events /\ b1 = Parts(c, k, e)
                    /\ Form(c, ChannelAttrs) /\ Form(k, ClientAttrs) /\ IsSeq(e)
    BY <1>5 DEF Leads, Good
  <1>7. r = Parts(b1.channels, left, b1.events \o es)
    BY <1>1, <1>2, <1>3, <1>4 DEF ChannelUnsubscribed, Parts
  <1>8. r = Parts(c, left, e \o es)
    BY <1>6, <1>7
  <1>9. r.channels = c /\ r.clients = left /\ r.events = e \o es
    BY <1>8 DEF Parts
  <1>10. IsSeq(es) /\ Back(es, Content(c, left), Content(c, k))
    <2>1. lost \subseteq DOMAIN k /\ IsFiniteSet(lost) /\ k = [x \in DOMAIN k |-> k[x]]
      <3>1. lost \in SUBSET DOMAIN k /\ IsFiniteSet(DOMAIN k)
        BY <1>1
      <3> QED
        BY <1>6, <3>1, FS_Subset DEF Form
    <2>2. es = Farewells(k, SetToSeq(lost)) /\ left = Remaining(k, lost)
      BY <1>2, <1>3, <1>4 DEF Farewells, Remaining
    <2>3. /\ IsSeq(Farewells(k, SetToSeq(lost)))
          /\ Back(Farewells(k, SetToSeq(lost)), Content(c, Remaining(k, lost)), Content(c, k))
      BY <2>1, GoneTrail
    <2> QED
      BY <2>2, <2>3
  <1>11. DOMAIN left = DOMAIN k \ lost /\ \A x \in DOMAIN left : left[x] = k[x]
    BY <1>4
  <1>12. Form(left, ClientAttrs)
    BY <1>4, <1>6, <1>11 DEF Form
  <1>13. Good(r)
    <2>1. IsSeq(e \o es)
      BY <1>6, <1>10, SeqFacts
    <2> QED
      BY <1>6, <1>8, <1>9, <1>12, <2>1 DEF Good
  <1>14. ASSUME NEW y, Trace(b1, y) PROVE Trace(r, y)
    <2>1. Back(e, Content(c, k), y)
      BY <1>5, <1>6, <1>14 DEF Trace
    <2>2. Back(e \o es, Content(c, left), y)
      BY <1>6, <1>10, <2>1, BackConcat
    <2> QED
      BY <1>9, <2>2 DEF Trace
  <1>15. Leads(b, r)
    <2>1. Leads(b1, r)
      BY <1>13, <1>14 DEF Leads
    <2> QED
      BY <1>5, <2>1, LeadsTransitive
  <1>16. \A x : x \in DOMAIN left <=> x \in DOMAIN k /\ At(k, x, "channel") # id
    BY <1>1, <1>11 DEF At
  <1> QED
    BY <1>1, <1>5, <1>6, <1>9, <1>11, <1>15, <1>16

-----------------------------------------------------------------------------
(* Commands about clients.                                                 *)

LEMMA ClientEnterViewFacts ==
  ASSUME NEW b, Good(b), NEW m, NEW id, id = m.id, id \notin DOMAIN b.clients,
         NEW r \in ClientEnterView(b, m)
  PROVE  /\ Leads(b, r) /\ r.channels = b.channels
         /\ \A x : x \in DOMAIN r.clients <=> x \in DOMAIN b.clients \/ x = id
         /\ \A x \in DOMAIN b.clients : r.clients[x] = b.clients[x]
         /\ At(r.clients, id, "channel") = m.channel
         /\ At(r.clients, id, "away") = IF m.is_away THEN m.message ELSE Nothing
  <1>1. PICK c, k, e : /\ c = b.channels /\ k = b.clients /\ e = b.events /\ b = Parts(c, k, e)
                       /\ Form(c, ChannelAttrs) /\ Form(k, ClientAttrs)
    BY DEF Good
  <1>2. PICK away : away = IF m.is_away THEN m.message ELSE Nothing
    OBVIOUS
  <1>3. PICK v : v = [channel |-> m.channel, name |-> m.name, data |-> Nothing, away |-> away]
    OBVIOUS
  <1>4. PICK d, ev : d = With(k, id, v) /\ ev = PropertyAdded(<<"client", id>>, m.invoker)
    OBVIOUS
  <1>5. r = Reported([b EXCEPT !.clients = With(@, id, v)], ev)
    BY <1>2, <1>3, <1>4 DEF ClientEnterView
  <1>6. [b EXCEPT !.clients = d] = Parts(c, d, e)
    BY <1>1 DEF Parts
  <1>7. r = Reported(Parts(c, d, b.events), ev)
    BY <1>1, <1>4, <1>5, <1>6
  <1>8. IsRecord(v, ClientAttrs) /\ v.channel = m.channel /\ v.away = away
    BY <1>3 DEF ClientAttrs, IsRecord
  <1>9. Form(k, ClientAttrs) /\ id \notin DOMAIN k
    BY <1>1
  <1>10. Form(d, ClientAttrs) /\ Without(d, id) = k
    BY <1>4, <1>8, <1>9, WithNew
  <1>11. /\ \A x : x \in DOMAIN d <=> x \in DOMAIN k \/ x = id
         /\ d[id] = v /\ \A x \in DOMAIN k : d[x] = k[x]
    BY <1>4, <1>9 DEF With
  <1>12. Undone(ev, Content(c, d)) = Content(b.channels, b.clients)
    BY <1>1, <1>4, <1>10, UndoAddedClient
  <1>13. Leads(b, r) /\ r.channels = c /\ r.clients = d
    <2>1. Form(c, ChannelAttrs)
      BY <1>1
    <2> QED
      BY <1>7, <1>10, <1>12, <2>1, OneEvent
  <1>14. At(d, id, "channel") = m.channel /\ At(d, id, "away") = away
    BY <1>8, <1>11 DEF At
  <1> QED
    BY <1>1, <1>2, <1>11, <1>13, <1>14

LEMMA ClientLeftViewFacts ==
  ASSUME NEW b, Good(b), NEW m, NEW id, id = m.id, id \in DOMAIN b.clients,
         NEW r \in ClientLeftView(b, m)
  PROVE  /\ Leads(b, r) /\ r.channels = b.channels
         /\ \A x : x \in DOMAIN r.clients <=> x \in DOMAIN b.clients /\ x # id
         /\ \A x \in DOMAIN r.clients : r.clients[x] = b.clients[x]
  <1>1. PICK c, k, e : /\ c = b.channels /\ k = b.clients /\ e = b.events /\ b = Parts(c, k, e)
                       /\ Form(c, ChannelAttrs) /\ Form(k, ClientAttrs)
    BY DEF Good
  <1>2. PICK d, old, inv : d = Without(k, id) /\ old = k[id] /\ inv = m.invoker
    OBVIOUS
  <1>3. PICK ev : ev = PropertyRemoved(<<"client", id>>, old, inv)
    OBVIOUS
  <1>4. r = Reported([b EXCEPT !.clients = Without(@, id)], ev)
    BY <1>1, <1>2, <1>3 DEF ClientLeftView
  <1>5. [b EXCEPT !.clients = d] = Parts(c, d, e)
    BY <1>1 DEF Parts
  <1>6. r = Reported(Parts(c, d, b.events), ev)
    BY <1>1, <1>2, <1>4, <1>5
  <1>7. Form(k, ClientAttrs) /\ id \in DOMAIN k /\ Form(c, ChannelAttrs)
    BY <1>1
  <1>8. /\ Form(d, ClientAttrs) /\ With(d, id, k[id]) = k
        /\ \A x : x \in DOMAIN d <=> x \in DOMAIN k /\ x # id
        /\ \A x \in DOMAIN d : d[x] = k[x]
    BY <1>2, <1>7, WithoutFacts
  <1>9. Undone(ev, Content(c, d)) = Content(b.channels, b.clients)
    <2>1. Undone(ev, Content(c, d)) = Content(c, With(d, id, old))
      BY <1>3, UndoRemovedClient
    <2> QED
      BY <1>1, <1>2, <1>8, <2>1
  <1>10. Leads(b, r) /\ r.channels = c /\ r.clients = d
    BY <1>6, <1>7, <1>8, <1>9, OneEvent
  <1> QED
    BY <1>1, <1>8, <1>10

\* d is k but for an attribute of the client id.
ClientDiffers(k, d, id, attr) ==
  /\ DOMAIN d = DOMAIN k
  /\ \A x \in DOMAIN k : \A a \in ClientAttrs : x # id \/ a # attr => At(d, x, a) = At(k, x, a)

LEMMA SetClientDiffers ==
  ASSUME NEW b, Good(b), NEW id, id \in DOMAIN b.clients, NEW attr \in ClientAttrs, NEW value,
         NEW invoker, NEW r, r = SetClient(b, id, attr, value, invoker)
  PROVE  /\ Leads(b, r) /\ Good(r) /\ r.channels = b.channels
         /\ ClientDiffers(b.clients, r.clients, id, attr) /\ At(r.clients, id, attr) = value
  <1>1. PICK k, d : k = b.clients /\ d = r.clients
    OBVIOUS
  <1>2. Leads(b, r) /\ r.channels = b.channels /\ d = Put(k, id, attr, value)
    BY <1>1, SetClientFacts
  <1>3. Form(k, ClientAttrs) /\ id \in DOMAIN k
    BY <1>1 DEF Good
  <1>4. /\ DOMAIN d = DOMAIN k /\ At(d, id, attr) = value
        /\ \A y \in DOMAIN k : \A a \in ClientAttrs : y # id \/ a # attr => At(d, y, a) = At(k, y, a)
    BY <1>2, <1>3, PutFacts
  <1> QED
    BY <1>1, <1>2, <1>4 DEF ClientDiffers, Leads

\* Our own channel is always subscribed.
OwnEffect(m, c, d) ==
  /\ m.id # Own => d = c
  /\ m.id = Own => /\ Differs(c, d, m.channel, {"subscribed"})
                   /\ At(d, m.channel, "subscribed") = TRUE

LEMMA ClientMovedFacts ==
  ASSUME NEW b, Good(b), NEW m, NEW id, id = m.id, id \in DOMAIN b.clients,
         m.channel \in DOMAIN b.channels, NEW r \in ClientMoved(b, m)
  PROVE  /\ Leads(b, r) /\ OwnEffect(m, b.channels, r.channels)
         /\ ClientDiffers(b.clients, r.clients, id, "channel")
         /\ At(r.clients, id, "channel") = m.channel
  <1>1. PICK ch, value, inv : ch = m.channel /\ value = TRUE /\ inv = m.invoker
    OBVIOUS
  <1>2. PICK b1 : b1 = IF id = Own THEN SetChannel(b, ch, "subscribed", value, Nothing) ELSE b
    OBVIOUS
  <1>3. PICK attr \in ClientAttrs : attr = "channel"
    BY DEF ClientAttrs
  <1>4. r = SetClient(b1, id, attr, ch, inv)
    BY <1>1, <1>2, <1>3 DEF ClientMoved
  <1>5. /\ Leads(b, b1) /\ b1.clients = b.clients
        /\ id # Own => b1.channels = b.channels
        /\ id = Own => /\ Differs(b.channels, b1.channels, ch, {"subscribed"})
                       /\ At(b1.channels, ch, "subscribed") = value
    <2>1. CASE id = Own
      <3>1. b1 = SetChannel(b, ch, "subscribed", value, Nothing) /\ ch \in DOMAIN b.channels
        BY <1>1, <1>2, <2>1
      <3>2. /\ Leads(b, b1) /\ b1.clients = b.clients
            /\ Differs(b.channels, b1.channels, ch, {"subscribed"})
            /\ At(b1.channels, ch, "subscribed") = value
        BY <3>1, SetSubscribedFacts
      <3> QED
        BY <2>1, <3>2
    <2>2. CASE id # Own
      <3>1. b1 = b
        BY <1>2, <2>2
      <3> QED
        BY <2>2, <3>1, LeadsSelf
    <2> QED
      BY <2>1, <2>2
  <1>6. Good(b1) /\ id \in DOMAIN b1.clients
    BY <1>5 DEF Leads
  <1>7. /\ Leads(b1, r) /\ r.channels = b1.channels
        /\ ClientDiffers(b1.clients, r.clients, id, attr) /\ At(r.clients, id, attr) = ch
    BY <1>4, <1>6, SetClientDiffers
  <1>8. Leads(b, r)
    BY <1>5, <1>7, LeadsTransitive
  <1>9. ClientDiffers(b.clients, r.clients, id, "channel") /\ At(r.clients, id, "channel") = m.channel
    BY <1>1, <1>3, <1>5, <1>7
  <1>10. id # Own => r.channels = b.channels
    BY <1>5, <1>7
  <1>11. ASSUME id = Own PROVE /\ Differs(b.channels, r.channels, m.channel, {"subscribed"})
                               /\ At(r.channels, m.channel, "subscribed") = TRUE
    <2>1. Differs(b.channels, r.channels, ch, {"subscribed"}) /\ At(r.channels, ch, "subscribed") = value
      BY <1>5, <1>7, <1>11
    <2> QED
      BY <1>1, <2>1, Zenon
  <1>12. OwnEffect(m, b.channels, r.channels)
    BY <1>10, <1>11 DEF OwnEffect
  <1> QED
    BY <1>8, <1>9, <1>12

\* The away message that away_cu_fun leaves.
NewAway(m, away) ==
  CASE m.is_away = TRUE /\ away = Nothing -> IF m.message = Nothing THEN "" ELSE m.message
    [] m.is_away = FALSE -> Nothing
    [] m.is_away = Nothing /\ Nothing \notin {m.message, away} -> m.message
    [] OTHER -> away

\* Where the clients are and whether they are away is the same.
SameView(k, d) ==
  /\ DOMAIN d = DOMAIN k
  /\ \A x \in DOMAIN k : /\ At(d, x, "channel") = At(k, x, "channel")
                         /\ At(d, x, "away") = At(k, x, "away")

LEMMA ClientDiffersView ==
  ASSUME NEW k, NEW d, NEW id, NEW attr \in {"name", "data"}, ClientDiffers(k, d, id, attr)
  PROVE  SameView(k, d)
  <1>1. "channel" \in ClientAttrs /\ "away" \in ClientAttrs /\ attr # "channel" /\ attr # "away"
    BY DEF ClientAttrs
  <1> QED
    BY <1>1 DEF ClientDiffers, SameView

LEMMA ClientUpdatedFacts ==
  ASSUME NEW b, Good(b), NEW m, NEW id, id = m.id, id \in DOMAIN b.clients,
         NEW r \in ClientUpdated(b, m)
  PROVE  /\ Leads(b, r) /\ r.channels = b.channels
         /\ DOMAIN r.clients = DOMAIN b.clients
         /\ \A x \in DOMAIN b.clients :
              /\ At(r.clients, x, "channel") = At(b.clients, x, "channel")
              /\ x # id => At(r.clients, x, "away") = At(b.clients, x, "away")
         /\ At(r.clients, id, "away") = NewAway(m, At(b.clients, id, "away"))
  <1>1. PICK away, new, inv, name : /\ away = At(b.clients, id, "away") /\ new = NewAway(m, away)
                                    /\ inv = m.invoker /\ name = m.name
    OBVIOUS
  <1>2. PICK A1 \in ClientAttrs, A2 \in ClientAttrs : A1 = "away" /\ A2 = "name"
    BY DEF ClientAttrs
  <1>3. PICK b1 : b1 = IF new = away THEN b ELSE SetClient(b, id, A1, new, inv)
    OBVIOUS
  <1>4. r = IF name = Nothing THEN b1 ELSE SetClient(b1, id, A2, name, inv)
    BY <1>1, <1>2, <1>3 DEF ClientUpdated, NewAway, At
  <1>5. /\ Leads(b, b1) /\ Good(b1) /\ b1.channels = b.channels
        /\ ClientDiffers(b.clients, b1.clients, id, A1) /\ At(b1.clients, id, A1) = new
    <2>1. CASE new = away
      <3>1. b1 = b
        BY <1>3, <2>1
      <3>2. At(b.clients, id, A1) = new
        BY <1>1, <1>2, <2>1
      <3>3. ClientDiffers(b.clients, b.clients, id, A1)
        BY DEF ClientDiffers
      <3> QED
        BY <3>1, <3>2, <3>3, LeadsSelf
    <2>2. CASE new # away
      <3>1. b1 = SetClient(b, id, A1, new, inv)
        BY <1>3, <2>2
      <3> QED
        BY <3>1, SetClientDiffers
    <2> QED
      BY <2>1, <2>2
  <1>6. id \in DOMAIN b1.clients
    BY <1>5 DEF ClientDiffers
  <1>7. /\ Leads(b1, r) /\ r.channels = b1.channels /\ SameView(b1.clients, r.clients)
    <2>1. CASE name = Nothing
      <3>1. r = b1
        BY <1>4, <2>1
      <3> QED
        BY <1>5, <3>1, LeadsSelf DEF SameView
    <2>2. CASE name # Nothing
      <3>1. r = SetClient(b1, id, A2, name, inv) /\ Good(b1)
        BY <1>4, <1>5, <2>2
      <3>2. Leads(b1, r) /\ r.channels = b1.channels /\ ClientDiffers(b1.clients, r.clients, id, A2)
        BY <1>6, <3>1, SetClientDiffers
      <3>3. A2 \in {"name", "data"}
        BY <1>2
      <3> QED
        BY <3>2, <3>3, ClientDiffersView
    <2> QED
      BY <2>1, <2>2
  <1>8. Leads(b, r)
    BY <1>5, <1>7, LeadsTransitive
  <1>9. DOMAIN r.clients = DOMAIN b.clients
    BY <1>5, <1>7 DEF ClientDiffers, SameView
  <1>10. At(r.clients, id, "away") = new
    BY <1>2, <1>5, <1>6, <1>7 DEF SameView
  <1>11. ASSUME NEW x \in DOMAIN b.clients
         PROVE  /\ At(r.clients, x, "channel") = At(b.clients, x, "channel")
                /\ x # id => At(r.clients, x, "away") = At(b.clients, x, "away")
    <2>1. x \in DOMAIN b1.clients
      BY <1>5 DEF ClientDiffers
    <2>2. At(r.clients, x, "channel") = At(b1.clients, x, "channel")
          /\ At(r.clients, x, "away") = At(b1.clients, x, "away")
      BY <1>7, <2>1 DEF SameView
    <2>3. "channel" \in ClientAttrs /\ "channel" # A1 /\ "away" \in ClientAttrs
      BY <1>2 DEF ClientAttrs
    <2>4. At(b1.clients, x, "channel") = At(b.clients, x, "channel")
      BY <1>5, <2>3 DEF ClientDiffers
    <2>5. x # id => At(b1.clients, x, "away") = At(b.clients, x, "away")
      BY <1>5, <2>3 DEF ClientDiffers
    <2> QED
      BY <2>2, <2>4, <2>5
  <1> QED
    BY <1>1, <1>5, <1>7, <1>8, <1>9, <1>10, <1>11

LEMMA ClientConnectionInfoFacts ==
  ASSUME NEW b, Good(b), NEW m, NEW r \in ClientConnectionInfo(b, m)
  PROVE  Leads(b, r) /\ r.channels = b.channels /\ SameView(b.clients, r.clients)
  <1>1. PICK id, data, none : id = m.id /\ data = m.data /\ none = Nothing
    OBVIOUS
  <1>2. PICK attr \in ClientAttrs : attr = "data"
    BY DEF ClientAttrs
  <1>3. id \in DOMAIN b.clients /\ r = SetClient(b, id, attr, data, none)
    BY <1>1, <1>2 DEF ClientConnectionInfo
  <1>4. Leads(b, r) /\ r.channels = b.channels /\ ClientDiffers(b.clients, r.clients, id, attr)
    BY <1>3, SetClientDiffers
  <1>5. attr \in {"name", "data"}
    BY <1>2
  <1> QED
    BY <1>4, <1>5, ClientDiffersView

LEMMA TextMessageFacts ==
  ASSUME NEW b, Good(b), NEW m, NEW r \in TextMessage(b, m)
  PROVE  Leads(b, r) /\ r.channels = b.channels /\ r.clients = b.clients
  <1>1. PICK ev, c, k : ev = Message(m.invoker) /\ c = b.channels /\ k = b.clients
    OBVIOUS
  <1>2. r = Reported(b, ev)
    BY <1>1 DEF TextMessage
  <1>3. r = Reported(Parts(c, k, b.events), ev) /\ Form(c, ChannelAttrs) /\ Form(k, ClientAttrs)
    BY <1>1, <1>2 DEF Good
  <1>4. Undone(ev, Content(c, k)) = Content(b.channels, b.clients)
    BY <1>1, UndoMessage
  <1> QED
    BY <1>1, <1>3, <1>4, OneEvent

-----------------------------------------------------------------------------
(* handle_command                                                          *)

\* The name of the invoker is the only thing that changes afterwards.
LEMMA AdjustFacts ==
  ASSUME NEW b, Good(b), NEW r, r = AdjustName(b)
  PROVE  Leads(b, r) /\ r.channels = b.channels /\ SameView(b.clients, r.clients)
  <1>1. CASE r = b
    BY <1>1, LeadsSelf DEF SameView
  <1>2. CASE r # b
    <2>1. PICK i, none : i = b.events[1].invoker /\ none = Nothing
      OBVIOUS
    <2>2. PICK attr \in ClientAttrs : attr = "name"
      BY DEF ClientAttrs
    <2>3. PICK id, name : id = i.id /\ name = i.name
      OBVIOUS
    <2>4. r = SetClient(b, id, attr, name, none) /\ id \in DOMAIN b.clients
      BY <1>2, <2>1, <2>2, <2>3 DEF AdjustName
    <2>5. Leads(b, r) /\ r.channels = b.channels /\ ClientDiffers(b.clients, r.clients, id, attr)
      BY <2>4, SetClientDiffers
    <2>6. attr \in {"name", "data"}
      BY <2>2
    <2> QED
      BY <2>5, <2>6, ClientDiffersView
  <1> QED
    BY <1>1, <1>2

\* The book before the events of a command.
Emptied(b) == Parts(b.channels, b.clients, <<>>)

LEMMA HandleCommandFacts ==
  ASSUME NEW b, Good(b), NEW m, NEW r \in HandleCommand(b, m),
         \A g \in HandleGenerated(Emptied(b), m) : Leads(Emptied(b), g)
  PROVE  /\ Leads(b, r)
         /\ \/ r = b /\ HandleGenerated(Emptied(b), m) = {}
            \/ \E g \in HandleGenerated(Emptied(b), m) :
                 r.channels = g.channels /\ SameView(g.clients, r.clients)
  <1>1. PICK c, k, e : /\ c = b.channels /\ k = b.clients /\ e = b.events /\ b = Parts(c, k, e)
                       /\ IsSeq(e)
    BY DEF Good
  <1>2. PICK b0, G : b0 = Emptied(b) /\ G = HandleGenerated(b0, m)
    OBVIOUS
  <1>3. [b EXCEPT !.events = <<>>] = b0
    <2>1. PICK none : none = <<>>
      OBVIOUS
    <2>2. [b EXCEPT !.events = none] = Parts(c, k, none)
      BY <1>1 DEF Parts
    <2> QED
      BY <1>1, <1>2, <2>1, <2>2 DEF Emptied
  <1>4. HandleCommand(b, m) =
          IF {AdjustName(g) : g \in G} = {} THEN {b}
          ELSE {[a EXCEPT !.events = e \o @] : a \in {AdjustName(g) : g \in G}}
    BY <1>1, <1>2, <1>3 DEF HandleCommand
  <1>5. CASE G = {}
    <2>1. r = b
      BY <1>4, <1>5
    <2> QED
      BY <1>2, <1>5, <2>1, LeadsSelf
  <1>6. CASE G # {}
    <2>1. {AdjustName(g) : g \in G} # {}
      BY <1>6
    <2>2. PICK g, a : g \in G /\ a = AdjustName(g) /\ r = [a EXCEPT !.events = e \o @]
      <3>1. PICK A : A = {AdjustName(g) : g \in G}
        OBVIOUS
      <3>2. r \in {[a EXCEPT !.events = e \o @] : a \in A}
        BY <1>4, <2>1, <3>1
      <3>3. PICK a \in A : r = [a EXCEPT !.events = e \o @]
        BY <3>2
      <3>4. PICK g \in G : a = AdjustName(g)
        BY <3>1, <3>3
      <3> QED
        BY <3>3, <3>4
    <2>3. Leads(b0, g)
      BY <1>2, <2>2
    <2>4. Good(g)
      BY <2>3 DEF Leads
    <2>5. Leads(g, a) /\ a.channels = g.channels /\ SameView(g.clients, a.clients)
      BY <2>2, <2>4, AdjustFacts
    <2>6. Leads(b0, a)
      BY <2>3, <2>5, LeadsTransitive
    <2>7. PICK ac, ak, ae : /\ ac = a.channels /\ ak = a.clients /\ ae = a.events
                            /\ a = Parts(ac, ak, ae) /\ IsSeq(ae)
                            /\ Form(ac, ChannelAttrs) /\ Form(ak, ClientAttrs)
      BY <2>6 DEF Leads, Good
    <2>8. r = Parts(ac, ak, e \o ae)
      <3>1. PICK es : es = e \o ae
        OBVIOUS
      <3>2. r = [a EXCEPT !.events = es]
        BY <2>2, <2>7, <3>1
      <3>3. [a EXCEPT !.events = es] = Parts(ac, ak, es)
        BY <2>7 DEF Parts
      <3> QED
        BY <3>1, <3>2, <3>3
    <2>9. r.channels = ac /\ r.clients = ak /\ r.events = e \o ae
      BY <2>8 DEF Parts
    <2>10. Good(r)
      <3>1. IsSeq(e \o ae)
        BY <1>1, <2>7, SeqFacts
      <3> QED
        BY <2>7, <2>8, <2>9, <3>1 DEF Good
    <2>11. Back(ae, Content(ac, ak), Content(c, k))
      <3>1. b0.channels = c /\ b0.clients = k /\ b0.events = <<>>
        BY <1>1, <1>2 DEF Emptied, Parts
      <3>2. Trace(b0, Content(c, k))
        BY <3>1, BackNothing DEF Trace
      <3> QED
        BY <2>6, <2>7, <3>2 DEF Leads, Trace
    <2>12. ASSUME NEW y, Trace(b, y) PROVE Trace(r, y)
      <3>1. Back(e, Content(c, k), y)
        BY <1>1, <2>12 DEF Trace
      <3>2. Back(e \o ae, Content(ac, ak), y)
        BY <1>1, <2>7, <2>11, <3>1, BackConcat
      <3> QED
        BY <2>9, <3>2 DEF Trace
    <2>13. Leads(b, r)
      BY <2>10, <2>12 DEF Leads
    <2>14. r.channels = g.channels /\ SameView(g.clients, r.clients)
      BY <2>5, <2>7, <2>9
    <2> QED
      BY <1>2, <2>2, <2>13, <2>14
  <1> QED
    BY <1>5, <1>6

\* handle_command_generated chooses by the type.
LEMMA GeneratedBy ==
  ASSUME NEW b, NEW m
  PROVE  /\ m.type = "ChannelList" => HandleGenerated(b, m) = ChannelList(b, m)
         /\ m.type = "ChannelCreated" => HandleGenerated(b, m) = ChannelCreated(b, m)
         /\ m.type = "ChannelEdited" => HandleGenerated(b, m) = ChannelEdited(b, m)
         /\ m.type = "ChannelMoved" => HandleGenerated(b, m) = ChannelMoved(b, m)
         /\ m.type = "ChannelDeleted" => HandleGenerated(b, m) = ChannelDeleted(b, m)
         /\ m.type = "ChannelSubscribed" => HandleGenerated(b, m) = ChannelSubscribed(b, m)
         /\ m.type = "ChannelUnsubscribed" => HandleGenerated(b, m) = ChannelUnsubscribed(b, m)
         /\ m.type = "ClientEnterView" => HandleGenerated(b, m) = ClientEnterView(b, m)
         /\ m.type = "ClientLeftView" => HandleGenerated(b, m) = ClientLeftView(b, m)
         /\ m.type = "ClientMoved" => HandleGenerated(b, m) = ClientMoved(b, m)
         /\ m.type = "ClientUpdated" => HandleGenerated(b, m) = ClientUpdated(b, m)
         /\ m.type = "ClientConnectionInfo" => HandleGenerated(b, m) = ClientConnectionInfo(b, m)
         /\ m.type = "TextMessage" => HandleGenerated(b, m) = TextMessage(b, m)
  <1>1. m.type = "ChannelList" => HandleGenerated(b, m) = ChannelList(b, m)
    BY DEF HandleGenerated
  <1>2. m.type = "ChannelCreated" => HandleGenerated(b, m) = ChannelCreated(b, m)
    BY DEF HandleGenerated
  <1>3. m.type = "ChannelEdited" => HandleGenerated(b, m) = ChannelEdited(b, m)
    BY DEF HandleGenerated
  <1>4. m.type = "ChannelMoved" => HandleGenerated(b, m) = ChannelMoved(b, m)
    BY DEF HandleGenerated
  <1>5. m.type = "ChannelDeleted" => HandleGenerated(b, m) = ChannelDeleted(b, m)
    BY DEF HandleGenerated
  <1>6. m.type = "ChannelSubscribed" => HandleGenerated(b, m) = ChannelSubscribed(b, m)
    BY DEF HandleGenerated
  <1>7. m.type = "ChannelUnsubscribed" => HandleGenerated(b, m) = ChannelUnsubscribed(b, m)
    BY DEF HandleGenerated
  <1>8. m.type = "ClientEnterView" => HandleGenerated(b, m) = ClientEnterView(b, m)
    BY DEF HandleGenerated
  <1>9. m.type = "ClientLeftView" => HandleGenerated(b, m) = ClientLeftView(b, m)
    BY DEF HandleGenerated
  <1>10. m.type = "ClientMoved" => HandleGenerated(b, m) = ClientMoved(b, m)
    BY DEF HandleGenerated
  <1>11. m.type = "ClientUpdated" => HandleGenerated(b, m) = ClientUpdated(b, m)
    BY DEF HandleGenerated
  <1>12. m.type = "ClientConnectionInfo" => HandleGenerated(b, m) = ClientConnectionInfo(b, m)
    BY DEF HandleGenerated
  <1>13. m.type = "TextMessage" => HandleGenerated(b, m) = TextMessage(b, m)
    BY DEF HandleGenerated
  <1> QED
    BY <1>1, <1>2, <1>3, <1>4, <1>5, <1>6, <1>7, <1>8, <1>9, <1>10, <1>11, <1>12, <1>13

LEMMA EmptiedFacts ==
  ASSUME NEW b, Good(b)
  PROVE  /\ Good(Emptied(b)) /\ Emptied(b).channels = b.channels /\ Emptied(b).clients = b.clients
  <1>1. PICK c, k, e : c = b.channels /\ k = b.clients /\ e = <<>>
    OBVIOUS
  <1>2. PICK r : r = Parts(c, k, e)
    OBVIOUS
  <1>3. r.channels = c /\ r.clients = k /\ r.events = e
    BY <1>2 DEF Parts
  <1>4. IsSeq(e)
    <2>1. IsSeq(b.events)
      BY DEF Good
    <2> QED
      BY <1>1, <2>1, SeqFacts
  <1>5. Good(r)
    BY <1>1, <1>2, <1>3, <1>4 DEF Good
  <1> QED
    BY <1>1, <1>2, <1>3, <1>5 DEF Emptied

\* Every command that changes the order of channels can be handled.
LEMMA OrderSomething ==
  ASSUME NEW b, NEW id, NEW order, NEW parent
  PROVE  OrderInsert(b, id, order, parent) # {} /\ OrderRemove(b, id, order) # {}
  BY DEF OrderInsert, OrderRemove

LEMMA OrderMoveSomething ==
  ASSUME NEW b, NEW id, NEW order, NEW parent
  PROVE  OrderMove(b, id, order, parent) # {}
  <1>1. CASE order = Nothing /\ parent = Nothing
    BY <1>1 DEF OrderMove
  <1>2. CASE ~(order = Nothing /\ parent = Nothing)
    <2>1. PICK moved, old, no, np :
            OrderMove(b, id, order, parent) =
              UNION {OrderInsert(r, id, no, np) : r \in OrderRemove(moved, id, old)}
      BY <1>2 DEF OrderMove
    <2>2. PICK r \in OrderRemove(moved, id, old) : TRUE
      BY OrderSomething
    <2>3. PICK s \in OrderInsert(r, id, no, np) : TRUE
      BY OrderSomething
    <2> QED
      BY <2>1, <2>2, <2>3
  <1> QED
    BY <1>1, <1>2

LEMMA ChannelSomething ==
  ASSUME NEW b, NEW m
  PROVE  /\ ChannelList(b, m) # {} /\ ChannelCreated(b, m) # {} /\ ChannelEdited(b, m) # {}
         /\ ChannelMoved(b, m) # {} /\ ChannelDeleted(b, m) # {}
  <1>1. \A a, family : AddChannel(a, m, family) # {}
    BY OrderSomething DEF AddChannel
  <1>2. ChannelList(b, m) # {}
    BY <1>1 DEF ChannelList
  <1>3. ChannelCreated(b, m) # {}
    <2>1. PICK family : ChannelCreated(b, m) =
            UNION {AddChannel(r, m, family) : r \in OrderInsert(b, m.id, m.order, m.parent)}
      BY DEF ChannelCreated
    <2>2. PICK r \in OrderInsert(b, m.id, m.order, m.parent) : TRUE
      BY OrderSomething
    <2>3. PICK s \in AddChannel(r, m, family) : TRUE
      BY <1>1
    <2> QED
      BY <2>1, <2>2, <2>3
  <1>4. ChannelEdited(b, m) # {}
    BY OrderMoveSomething DEF ChannelEdited
  <1>5. ChannelMoved(b, m) # {}
    BY OrderMoveSomething DEF ChannelMoved
  <1>6. ChannelDeleted(b, m) # {}
    BY OrderSomething DEF ChannelDeleted
  <1> QED
    BY <1>2, <1>3, <1>4, <1>5, <1>6

-----------------------------------------------------------------------------
(* What a command of each type does to the channels c and to the clients k *)
(* of a book.                                                              *)

ListEffect(m, c, d) ==
  \E c1 : /\ PutOne(c, Followers(c, m.id, m.order, m.parent), m.id, c1)
          /\ d = With(c1, m.id, NewChannel(m,
                    MaxFamilyClientsOfList(m.family_unlimited, m.inherits, m.family_num)))
CreateEffect(m, c, d) ==
  \E c1, c2 : /\ PutOne(c, Followers(c, m.id, m.order, m.parent), m.id, c1)
              /\ PutOne(c1, Followers(c1, m.id, m.order, m.parent), m.id, c2)
              /\ d = With(c2, m.id, NewChannel(m,
                        MaxFamilyClients(m.family_unlimited, m.inherits, m.family_num)))
MoveEffect(m, c, d) ==
  \E e : Reordered(c, m.id, m.order, m.parent, e) /\ d = Put(e, m.id, "parent", m.parent)
MoveEditEffect(m, c, d) == Reordered(c, m.id, m.order, At(c, m.id, "parent"), d)
DeleteEffect(m, c, d) ==
  \E c0 : /\ c0 = Without(c, m.id)
          /\ PutOne(c0, PointingTo(c0, m.id), At(c, m.id, "order"), d)
SubscribeEffect(m, c, d) ==
  Differs(c, d, m.id, {"subscribed"}) /\ At(d, m.id, "subscribed") = TRUE
UnsubscribeEffect(m, c, d) ==
  Differs(c, d, m.id, {"subscribed"}) /\ At(d, m.id, "subscribed") = FALSE
EditEffect(m, c, d) ==
  /\ Differs(c, d, m.id, {"max", "family", "type"})
  /\ At(d, m.id, "max") = Kept(MaxClients(m.unlimited, m.num), At(c, m.id, "max"))
  /\ At(d, m.id, "family") =
       Kept(MaxFamilyClients(m.family_unlimited, m.inherits, m.family_num), At(c, m.id, "family"))
  /\ At(d, m.id, "type") =
       IF m.permanent = Nothing /\ m.semi = Nothing THEN At(c, m.id, "type")
       ELSE ChannelFlagsToType(m.permanent, m.semi)

\* Nothing about the attributes is mentioned.
Silent(m) ==
  /\ MaxClients(m.unlimited, m.num) = Nothing
  /\ MaxFamilyClients(m.family_unlimited, m.inherits, m.family_num) = Nothing
  /\ m.permanent = Nothing /\ m.semi = Nothing

LEMMA ChannelEditedMoveFacts ==
  ASSUME NEW b, Good(b), NEW m, m.id \in DOMAIN b.channels, m.order # Nothing, Silent(m),
         NEW r \in ChannelEdited(b, m)
  PROVE  Leads(b, r) /\ r.clients = b.clients /\ MoveEditEffect(m, b.channels, r.channels)
  <1>1. EditLimits(b, m) = b
    BY DEF EditLimits, Silent
  <1>2. EditType(b, m) = b
    BY DEF EditType, Silent
  <1>3. PICK id, order, none, np : /\ id = m.id /\ order = m.order /\ none = Nothing
                                   /\ np = At(b.channels, id, "parent")
    OBVIOUS
  <1>4. r \in OrderMove(b, id, order, none)
    BY <1>1, <1>2, <1>3 DEF ChannelEdited
  <1>5. id \in DOMAIN b.channels /\ order # Nothing
        /\ np = IF none = Nothing THEN At(b.channels, id, "parent") ELSE none
    BY <1>3
  <1>6. Leads(b, r) /\ r.clients = b.clients /\ Reordered(b.channels, id, order, np, r.channels)
    BY <1>4, <1>5, OrderMoveFacts
  <1> QED
    BY <1>3, <1>6 DEF MoveEditEffect

LEMMA ChannelEditedFacts ==
  ASSUME NEW b, Good(b), NEW m, m.id \in DOMAIN b.channels, m.order = Nothing,
         NEW r \in ChannelEdited(b, m)
  PROVE  Leads(b, r) /\ r.clients = b.clients /\ EditEffect(m, b.channels, r.channels)
  <1>1. PICK id, max, family :
          /\ id \in DOMAIN b.channels /\ id = m.id /\ max = MaxClients(m.unlimited, m.num)
          /\ family = MaxFamilyClients(m.family_unlimited, m.inherits, m.family_num)
    OBVIOUS
  <1>2. /\ Leads(b, r) /\ r.clients = b.clients
         /\ Differs(b.channels, r.channels, id, {"max", "family", "type"})
         /\ At(r.channels, id, "max") = Kept(max, At(b.channels, id, "max"))
         /\ At(r.channels, id, "family") = Kept(family, At(b.channels, id, "family"))
         /\ At(r.channels, id, "type") =
              IF m.permanent = Nothing /\ m.semi = Nothing THEN At(b.channels, id, "type")
              ELSE ChannelFlagsToType(m.permanent, m.semi)
    BY <1>1, EditFacts
  <1> QED
    BY <1>1, <1>2 DEF EditEffect

LEMMA ListCommand ==
  ASSUME NEW b, Good(b), NEW m, m.type = "ChannelList", m.id \notin DOMAIN b.channels,
         NEW r \in HandleCommand(b, m)
  PROVE  /\ Leads(b, r) /\ SameView(b.clients, r.clients)
         /\ ListEffect(m, b.channels, r.channels)
  <1>1. PICK b0 : b0 = Emptied(b)
    OBVIOUS
  <1>2. Good(b0) /\ b0.channels = b.channels /\ b0.clients = b.clients
    BY <1>1, EmptiedFacts
  <1>3. HandleGenerated(b0, m) = ChannelList(b0, m)
    BY GeneratedBy
  <1>4. ASSUME NEW g \in ChannelList(b0, m)
        PROVE  Leads(b0, g) /\ g.clients = b0.clients /\ ListEffect(m, b0.channels, g.channels)
    BY <1>2, ChannelListFacts DEF ListEffect
  <1>5. \A g \in HandleGenerated(b0, m) : Leads(b0, g)
    BY <1>3, <1>4
  <1>6. ChannelList(b0, m) # {}
    BY ChannelSomething
  <1>7. /\ Leads(b, r)
        /\ \/ r = b /\ HandleGenerated(b0, m) = {}
           \/ \E g \in HandleGenerated(b0, m) : r.channels = g.channels /\ SameView(g.clients, r.clients)
    BY <1>1, <1>5, HandleCommandFacts
  <1>8. PICK g \in ChannelList(b0, m) : r.channels = g.channels /\ SameView(g.clients, r.clients)
    BY <1>3, <1>6, <1>7
  <1> QED
    BY <1>2, <1>4, <1>7, <1>8

LEMMA CreateCommand ==
  ASSUME NEW b, Good(b), NEW m, m.type = "ChannelCreated", m.id \notin DOMAIN b.channels,
         NEW r \in HandleCommand(b, m)
  PROVE  /\ Leads(b, r) /\ SameView(b.clients, r.clients)
         /\ CreateEffect(m, b.channels, r.channels)
  <1>1. PICK b0 : b0 = Emptied(b)
    OBVIOUS
  <1>2. Good(b0) /\ b0.channels = b.channels /\ b0.clients = b.clients
    BY <1>1, EmptiedFacts
  <1>3. HandleGenerated(b0, m) = ChannelCreated(b0, m)
    BY GeneratedBy
  <1>4. ASSUME NEW g \in ChannelCreated(b0, m)
        PROVE  Leads(b0, g) /\ g.clients = b0.clients /\ CreateEffect(m, b0.channels, g.channels)
    BY <1>2, ChannelCreatedFacts DEF CreateEffect
  <1>5. \A g \in HandleGenerated(b0, m) : Leads(b0, g)
    BY <1>3, <1>4
  <1>6. ChannelCreated(b0, m) # {}
    BY ChannelSomething
  <1>7. /\ Leads(b, r)
        /\ \/ r = b /\ HandleGenerated(b0, m) = {}
           \/ \E g \in HandleGenerated(b0, m) : r.channels = g.channels /\ SameView(g.clients, r.clients)
    BY <1>1, <1>5, HandleCommandFacts
  <1>8. PICK g \in ChannelCreated(b0, m) : r.channels = g.channels /\ SameView(g.clients, r.clients)
    BY <1>3, <1>6, <1>7
  <1> QED
    BY <1>2, <1>4, <1>7, <1>8

LEMMA MoveCommand ==
  ASSUME NEW b, Good(b), NEW m, m.type = "ChannelMoved", m.id \in DOMAIN b.channels,
         m.order # Nothing, m.parent # Nothing,
         NEW r \in HandleCommand(b, m)
  PROVE  /\ Leads(b, r) /\ SameView(b.clients, r.clients)
         /\ MoveEffect(m, b.channels, r.channels)
  <1>1. PICK b0 : b0 = Emptied(b)
    OBVIOUS
  <1>2. Good(b0) /\ b0.channels = b.channels /\ b0.clients = b.clients
    BY <1>1, EmptiedFacts
  <1>3. HandleGenerated(b0, m) = ChannelMoved(b0, m)
    BY GeneratedBy
  <1>4. ASSUME NEW g \in ChannelMoved(b0, m)
        PROVE  Leads(b0, g) /\ g.clients = b0.clients /\ MoveEffect(m, b0.channels, g.channels)
    BY <1>2, ChannelMovedFacts DEF MoveEffect
  <1>5. \A g \in HandleGenerated(b0, m) : Leads(b0, g)
    BY <1>3, <1>4
  <1>6. ChannelMoved(b0, m) # {}
    BY ChannelSomething
  <1>7. /\ Leads(b, r)
        /\ \/ r = b /\ HandleGenerated(b0, m) = {}
           \/ \E g \in HandleGenerated(b0, m) : r.channels = g.channels /\ SameView(g.clients, r.clients)
    BY <1>1, <1>5, HandleCommandFacts
  <1>8. PICK g \in ChannelMoved(b0, m) : r.channels = g.channels /\ SameView(g.clients, r.clients)
    BY <1>3, <1>6, <1>7
  <1> QED
    BY <1>2, <1>4, <1>7, <1>8

LEMMA MoveEditCommand ==
  ASSUME NEW b, Good(b), NEW m, m.type = "ChannelEdited", m.id \in DOMAIN b.channels,
         m.order # Nothing, Silent(m),
         NEW r \in HandleCommand(b, m)
  PROVE  /\ Leads(b, r) /\ SameView(b.clients, r.clients)
         /\ MoveEditEffect(m, b.channels, r.channels)
  <1>1. PICK b0 : b0 = Emptied(b)
    OBVIOUS
  <1>2. Good(b0) /\ b0.channels = b.channels /\ b0.clients = b.clients
    BY <1>1, EmptiedFacts
  <1>3. HandleGenerated(b0, m) = ChannelEdited(b0, m)
    BY GeneratedBy
  <1>4. ASSUME NEW g \in ChannelEdited(b0, m)
        PROVE  Leads(b0, g) /\ g.clients = b0.clients /\ MoveEditEffect(m, b0.channels, g.channels)
    BY <1>2, ChannelEditedMoveFacts
  <1>5. \A g \in HandleGenerated(b0, m) : Leads(b0, g)
    BY <1>3, <1>4
  <1>6. ChannelEdited(b0, m) # {}
    BY ChannelSomething
  <1>7. /\ Leads(b, r)
        /\ \/ r = b /\ HandleGenerated(b0, m) = {}
           \/ \E g \in HandleGenerated(b0, m) : r.channels = g.channels /\ SameView(g.clients, r.clients)
    BY <1>1, <1>5, HandleCommandFacts
  <1>8. PICK g \in ChannelEdited(b0, m) : r.channels = g.channels /\ SameView(g.clients, r.clients)
    BY <1>3, <1>6, <1>7
  <1> QED
    BY <1>2, <1>4, <1>7, <1>8

LEMMA EditCommand ==
  ASSUME NEW b, Good(b), NEW m, m.type = "ChannelEdited", m.id \in DOMAIN b.channels,
         m.order = Nothing,
         NEW r \in HandleCommand(b, m)
  PROVE  /\ Leads(b, r) /\ SameView(b.clients, r.clients)
         /\ EditEffect(m, b.channels, r.channels)
  <1>1. PICK b0 : b0 = Emptied(b)
    OBVIOUS
  <1>2. Good(b0) /\ b0.channels = b.channels /\ b0.clients = b.clients
    BY <1>1, EmptiedFacts
  <1>3. HandleGenerated(b0, m) = ChannelEdited(b0, m)
    BY GeneratedBy
  <1>4. ASSUME NEW g \in ChannelEdited(b0, m)
        PROVE  Leads(b0, g) /\ g.clients = b0.clients /\ EditEffect(m, b0.channels, g.channels)
    BY <1>2, ChannelEditedFacts
  <1>5. \A g \in HandleGenerated(b0, m) : Leads(b0, g)
    BY <1>3, <1>4
  <1>6. ChannelEdited(b0, m) # {}
    BY ChannelSomething
  <1>7. /\ Leads(b, r)
        /\ \/ r = b /\ HandleGenerated(b0, m) = {}
           \/ \E g \in HandleGenerated(b0, m) : r.channels = g.channels /\ SameView(g.clients, r.clients)
    BY <1>1, <1>5, HandleCommandFacts
  <1>8. PICK g \in ChannelEdited(b0, m) : r.channels = g.channels /\ SameView(g.clients, r.clients)
    BY <1>3, <1>6, <1>7
  <1> QED
    BY <1>2, <1>4, <1>7, <1>8

LEMMA DeleteCommand ==
  ASSUME NEW b, Good(b), NEW m, m.type = "ChannelDeleted", m.id \in DOMAIN b.channels,
         NEW r \in HandleCommand(b, m)
  PROVE  /\ Leads(b, r) /\ SameView(b.clients, r.clients)
         /\ DeleteEffect(m, b.channels, r.channels)
  <1>1. PICK b0 : b0 = Emptied(b)
    OBVIOUS
  <1>2. Good(b0) /\ b0.channels = b.channels /\ b0.clients = b.clients
    BY <1>1, EmptiedFacts
  <1>3. HandleGenerated(b0, m) = ChannelDeleted(b0, m)
    BY GeneratedBy
  <1>4. ASSUME NEW g \in ChannelDeleted(b0, m)
        PROVE  Leads(b0, g) /\ g.clients = b0.clients /\ DeleteEffect(m, b0.channels, g.channels)
    BY <1>2, ChannelDeletedFacts DEF DeleteEffect
  <1>5. \A g \in HandleGenerated(b0, m) : Leads(b0, g)
    BY <1>3, <1>4
  <1>6. ChannelDeleted(b0, m) # {}
    BY ChannelSomething
  <1>7. /\ Leads(b, r)
        /\ \/ r = b /\ HandleGenerated(b0, m) = {}
           \/ \E g \in HandleGenerated(b0, m) : r.channels = g.channels /\ SameView(g.clients, r.clients)
    BY <1>1, <1>5, HandleCommandFacts
  <1>8. PICK g \in ChannelDeleted(b0, m) : r.channels = g.channels /\ SameView(g.clients, r.clients)
    BY <1>3, <1>6, <1>7
  <1> QED
    BY <1>2, <1>4, <1>7, <1>8

LEMMA SubscribeCommand ==
  ASSUME NEW b, Good(b), NEW m, m.type = "ChannelSubscribed", m.id \in DOMAIN b.channels,
         NEW r \in HandleCommand(b, m)
  PROVE  /\ Leads(b, r) /\ SameView(b.clients, r.clients)
         /\ SubscribeEffect(m, b.channels, r.channels)
  <1>1. PICK b0 : b0 = Emptied(b)
    OBVIOUS
  <1>2. Good(b0) /\ b0.channels = b.channels /\ b0.clients = b.clients
    BY <1>1, EmptiedFacts
  <1>3. HandleGenerated(b0, m) = ChannelSubscribed(b0, m)
    BY GeneratedBy
  <1>4. ASSUME NEW g \in ChannelSubscribed(b0, m)
        PROVE  Leads(b0, g) /\ g.clients = b0.clients /\ SubscribeEffect(m, b0.channels, g.channels)
    BY <1>2, ChannelSubscribedFacts DEF SubscribeEffect
  <1>5. \A g \in HandleGenerated(b0, m) : Leads(b0, g)
    BY <1>3, <1>4
  <1>6. ChannelSubscribed(b0, m) # {}
    BY DEF ChannelSubscribed
  <1>7. /\ Leads(b, r)
        /\ \/ r = b /\ HandleGenerated(b0, m) = {}
           \/ \E g \in HandleGenerated(b0, m) : r.channels = g.channels /\ SameView(g.clients, r.clients)
    BY <1>1, <1>5, HandleCommandFacts
  <1>8. PICK g \in ChannelSubscribed(b0, m) : r.channels = g.channels /\ SameView(g.clients, r.clients)
    BY <1>3, <1>6, <1>7
  <1> QED
    BY <1>2, <1>4, <1>7, <1>8

\* The same client, as far as it can be told by where it is.
SameClient(k, d, x) == At(d, x, "channel") = At(k, x, "channel") /\ At(d, x, "away") = At(k, x, "away")

GoneEffect(m, k, d) ==
  /\ \A x : x \in DOMAIN d <=> x \in DOMAIN k /\ At(k, x, "channel") # m.id
  /\ \A x \in DOMAIN d : SameClient(k, d, x)
EnterEffect(m, k, d) ==
  /\ \A x : x \in DOMAIN d <=> x \in DOMAIN k \/ x = m.id
  /\ \A x \in DOMAIN k : SameClient(k, d, x)
  /\ At(d, m.id, "channel") = m.channel
  /\ At(d, m.id, "away") = IF m.is_away THEN m.message ELSE Nothing
LeaveEffect(m, k, d) ==
  /\ \A x : x \in DOMAIN d <=> x \in DOMAIN k /\ x # m.id
  /\ \A x \in DOMAIN d : SameClient(k, d, x)
MoveToEffect(m, k, d) ==
  /\ DOMAIN d = DOMAIN k
  /\ \A x \in DOMAIN k : x # m.id => SameClient(k, d, x)
  /\ At(d, m.id, "channel") = m.channel /\ At(d, m.id, "away") = At(k, m.id, "away")
UpdateEffect(m, k, d) ==
  /\ DOMAIN d = DOMAIN k
  /\ \A x \in DOMAIN k : x # m.id => SameClient(k, d, x)
  /\ At(d, m.id, "channel") = At(k, m.id, "channel")
  /\ At(d, m.id, "away") = NewAway(m, At(k, m.id, "away"))
SameChannels(m, c, d) == d = c

LEMMA UnsubscribeCommand ==
  ASSUME NEW b, Good(b), NEW m, m.type = "ChannelUnsubscribed", m.id \in DOMAIN b.channels,
         IsFiniteSet(DOMAIN b.clients),
         NEW r \in HandleCommand(b, m)
  PROVE  Leads(b, r) /\ UnsubscribeEffect(m, b.channels, r.channels) /\ GoneEffect(m, b.clients, r.clients)
  <1>1. PICK b0 : b0 = Emptied(b)
    OBVIOUS
  <1>2. Good(b0) /\ b0.channels = b.channels /\ b0.clients = b.clients
    BY <1>1, EmptiedFacts
  <1>3. HandleGenerated(b0, m) = ChannelUnsubscribed(b0, m)
    BY GeneratedBy
  <1>4. ASSUME NEW g \in ChannelUnsubscribed(b0, m)
        PROVE  Leads(b0, g) /\ UnsubscribeEffect(m, b0.channels, g.channels) /\ GoneEffect(m, b0.clients, g.clients)
    <2>1. /\ Leads(b0, g)
          /\ Differs(b0.channels, g.channels, m.id, {"subscribed"})
          /\ At(g.channels, m.id, "subscribed") = FALSE
          /\ \A x : x \in DOMAIN g.clients <=> x \in DOMAIN b0.clients /\ At(b0.clients, x, "channel") # m.id
          /\ \A x \in DOMAIN g.clients : g.clients[x] = b0.clients[x]
      BY <1>2, ChannelUnsubscribedFacts
    <2>2. \A x \in DOMAIN g.clients : SameClient(b0.clients, g.clients, x)
      BY <2>1 DEF SameClient, At
    <2> QED
      BY <2>1, <2>2 DEF UnsubscribeEffect, GoneEffect
  <1>5. \A g \in HandleGenerated(b0, m) : Leads(b0, g)
    BY <1>3, <1>4
  <1>6. ChannelUnsubscribed(b0, m) # {}
    BY DEF ChannelUnsubscribed
  <1>7. /\ Leads(b, r)
        /\ \/ r = b /\ HandleGenerated(b0, m) = {}
           \/ \E g \in HandleGenerated(b0, m) : r.channels = g.channels /\ SameView(g.clients, r.clients)
    BY <1>1, <1>5, HandleCommandFacts
  <1>8. PICK g \in ChannelUnsubscribed(b0, m) : r.channels = g.channels /\ SameView(g.clients, r.clients)
    BY <1>3, <1>6, <1>7
  <1>9. UnsubscribeEffect(m, b.channels, r.channels) /\ GoneEffect(m, b.clients, g.clients)
    BY <1>2, <1>4, <1>8
  <1>10. GoneEffect(m, b.clients, r.clients)
    BY <1>8, <1>9 DEF GoneEffect, SameView, SameClient
  <1> QED
    BY <1>7, <1>9, <1>10

LEMMA EnterCommand ==
  ASSUME NEW b, Good(b), NEW m, m.type = "ClientEnterView", m.id \notin DOMAIN b.clients,
         NEW r \in HandleCommand(b, m)
  PROVE  Leads(b, r) /\ SameChannels(m, b.channels, r.channels) /\ EnterEffect(m, b.clients, r.clients)
  <1>1. PICK b0 : b0 = Emptied(b)
    OBVIOUS
  <1>2. Good(b0) /\ b0.channels = b.channels /\ b0.clients = b.clients
    BY <1>1, EmptiedFacts
  <1>3. HandleGenerated(b0, m) = ClientEnterView(b0, m)
    BY GeneratedBy
  <1>4. ASSUME NEW g \in ClientEnterView(b0, m)
        PROVE  Leads(b0, g) /\ SameChannels(m, b0.channels, g.channels) /\ EnterEffect(m, b0.clients, g.clients)
    <2>1. PICK id : id = m.id
      OBVIOUS
    <2>2. /\ Leads(b0, g) /\ g.channels = b0.channels
          /\ \A x : x \in DOMAIN g.clients <=> x \in DOMAIN b0.clients \/ x = id
          /\ \A x \in DOMAIN b0.clients : g.clients[x] = b0.clients[x]
          /\ At(g.clients, id, "channel") = m.channel
          /\ At(g.clients, id, "away") = IF m.is_away THEN m.message ELSE Nothing
      BY <1>2, <2>1, ClientEnterViewFacts
    <2>3. \A x \in DOMAIN b0.clients : SameClient(b0.clients, g.clients, x)
      BY <2>2 DEF SameClient, At
    <2> QED
      BY <2>1, <2>2, <2>3 DEF SameChannels, EnterEffect
  <1>5. \A g \in HandleGenerated(b0, m) : Leads(b0, g)
    BY <1>3, <1>4
  <1>6. ClientEnterView(b0, m) # {}
    BY DEF ClientEnterView
  <1>7. /\ Leads(b, r)
        /\ \/ r = b /\ HandleGenerated(b0, m) = {}
           \/ \E g \in HandleGenerated(b0, m) : r.channels = g.channels /\ SameView(g.clients, r.clients)
    BY <1>1, <1>5, HandleCommandFacts
  <1>8. PICK g \in ClientEnterView(b0, m) : r.channels = g.channels /\ SameView(g.clients, r.clients)
    BY <1>3, <1>6, <1>7
  <1>9. SameChannels(m, b.channels, r.channels) /\ EnterEffect(m, b.clients, g.clients)
    BY <1>2, <1>4, <1>8
  <1>10. EnterEffect(m, b.clients, r.clients)
    BY <1>8, <1>9 DEF EnterEffect, SameView, SameClient
  <1> QED
    BY <1>7, <1>9, <1>10

LEMMA LeaveCommand ==
  ASSUME NEW b, Good(b), NEW m, m.type = "ClientLeftView", m.id \in DOMAIN b.clients,
         NEW r \in HandleCommand(b, m)
  PROVE  Leads(b, r) /\ SameChannels(m, b.channels, r.channels) /\ LeaveEffect(m, b.clients, r.clients)
  <1>1. PICK b0 : b0 = Emptied(b)
    OBVIOUS
  <1>2. Good(b0) /\ b0.channels = b.channels /\ b0.clients = b.clients
    BY <1>1, EmptiedFacts
  <1>3. HandleGenerated(b0, m) = ClientLeftView(b0, m)
    BY GeneratedBy
  <1>4. ASSUME NEW g \in ClientLeftView(b0, m)
        PROVE  Leads(b0, g) /\ SameChannels(m, b0.channels, g.channels) /\ LeaveEffect(m, b0.clients, g.clients)
    <2>1. PICK id : id = m.id
      OBVIOUS
    <2>2. /\ Leads(b0, g) /\ g.channels = b0.channels
          /\ \A x : x \in DOMAIN g.clients <=> x \in DOMAIN b0.clients /\ x # id
          /\ \A x \in DOMAIN g.clients : g.clients[x] = b0.clients[x]
      BY <1>2, <2>1, ClientLeftViewFacts
    <2>3. \A x \in DOMAIN g.clients : SameClient(b0.clients, g.clients, x)
      BY <2>2 DEF SameClient, At
    <2> QED
      BY <2>1, <2>2, <2>3 DEF SameChannels, LeaveEffect
  <1>5. \A g \in HandleGenerated(b0, m) : Leads(b0, g)
    BY <1>3, <1>4
  <1>6. ClientLeftView(b0, m) # {}
    BY DEF ClientLeftView
  <1>7. /\ Leads(b, r)
        /\ \/ r = b /\ HandleGenerated(b0, m) = {}
           \/ \E g \in HandleGenerated(b0, m) : r.channels = g.channels /\ SameView(g.clients, r.clients)
    BY <1>1, <1>5, HandleCommandFacts
  <1>8. PICK g \in ClientLeftView(b0, m) : r.channels = g.channels /\ SameView(g.clients, r.clients)
    BY <1>3, <1>6, <1>7
  <1>9. SameChannels(m, b.channels, r.channels) /\ LeaveEffect(m, b.clients, g.clients)
    BY <1>2, <1>4, <1>8
  <1>10. LeaveEffect(m, b.clients, r.clients)
    BY <1>8, <1>9 DEF LeaveEffect, SameView, SameClient
  <1> QED
    BY <1>7, <1>9, <1>10

LEMMA MoveToCommand ==
  ASSUME NEW b, Good(b), NEW m, m.type = "ClientMoved", m.id \in DOMAIN b.clients,
         m.channel \in DOMAIN b.channels,
         NEW r \in HandleCommand(b, m)
  PROVE  Leads(b, r) /\ OwnEffect(m, b.channels, r.channels) /\ MoveToEffect(m, b.clients, r.clients)
  <1>1. PICK b0 : b0 = Emptied(b)
    OBVIOUS
  <1>2. Good(b0) /\ b0.channels = b.channels /\ b0.clients = b.clients
    BY <1>1, EmptiedFacts
  <1>3. HandleGenerated(b0, m) = ClientMoved(b0, m)
    BY GeneratedBy
  <1>4. ASSUME NEW g \in ClientMoved(b0, m)
        PROVE  Leads(b0, g) /\ OwnEffect(m, b0.channels, g.channels) /\ MoveToEffect(m, b0.clients, g.clients)
    <2>1. PICK id : id = m.id
      OBVIOUS
    <2>2. /\ Leads(b0, g) /\ OwnEffect(m, b0.channels, g.channels)
          /\ ClientDiffers(b0.clients, g.clients, id, "channel")
          /\ At(g.clients, id, "channel") = m.channel
      BY <1>2, <2>1, ClientMovedFacts
    <2>3. "channel" \in ClientAttrs /\ "away" \in ClientAttrs
      BY DEF ClientAttrs
    <2>5. id \in DOMAIN b0.clients
      BY <1>2, <2>1
    <2>6. MoveToEffect(m, b0.clients, g.clients)
      BY <2>1, <2>2, <2>3, <2>5 DEF MoveToEffect, ClientDiffers, SameClient
    <2> QED
      BY <2>2, <2>6
  <1>5. \A g \in HandleGenerated(b0, m) : Leads(b0, g)
    BY <1>3, <1>4
  <1>6. ClientMoved(b0, m) # {}
    BY DEF ClientMoved
  <1>7. /\ Leads(b, r)
        /\ \/ r = b /\ HandleGenerated(b0, m) = {}
           \/ \E g \in HandleGenerated(b0, m) : r.channels = g.channels /\ SameView(g.clients, r.clients)
    BY <1>1, <1>5, HandleCommandFacts
  <1>8. PICK g \in ClientMoved(b0, m) : r.channels = g.channels /\ SameView(g.clients, r.clients)
    BY <1>3, <1>6, <1>7
  <1>9. OwnEffect(m, b.channels, r.channels) /\ MoveToEffect(m, b.clients, g.clients)
    BY <1>2, <1>4, <1>8
  <1>10. MoveToEffect(m, b.clients, r.clients)
    BY <1>8, <1>9 DEF MoveToEffect, SameView, SameClient
  <1> QED
    BY <1>7, <1>9, <1>10

LEMMA UpdateCommand ==
  ASSUME NEW b, Good(b), NEW m, m.type = "ClientUpdated", m.id \in DOMAIN b.clients,
         NEW r \in HandleCommand(b, m)
  PROVE  Leads(b, r) /\ SameChannels(m, b.channels, r.channels) /\ UpdateEffect(m, b.clients, r.clients)
  <1>1. PICK b0 : b0 = Emptied(b)
    OBVIOUS
  <1>2. Good(b0) /\ b0.channels = b.channels /\ b0.clients = b.clients
    BY <1>1, EmptiedFacts
  <1>3. HandleGenerated(b0, m) = ClientUpdated(b0, m)
    BY GeneratedBy
  <1>4. ASSUME NEW g \in ClientUpdated(b0, m)
        PROVE  Leads(b0, g) /\ SameChannels(m, b0.channels, g.channels) /\ UpdateEffect(m, b0.clients, g.clients)
    <2>1. PICK id : id = m.id
      OBVIOUS
    <2>2. /\ Leads(b0, g) /\ g.channels = b0.channels
          /\ DOMAIN g.clients = DOMAIN b0.clients
          /\ \A x \in DOMAIN b0.clients :
               /\ At(g.clients, x, "channel") = At(b0.clients, x, "channel")
               /\ x # id => At(g.clients, x, "away") = At(b0.clients, x, "away")
          /\ At(g.clients, id, "away") = NewAway(m, At(b0.clients, id, "away"))
      BY <1>2, <2>1, ClientUpdatedFacts
    <2>3. id \in DOMAIN b0.clients
      BY <1>2, <2>1
    <2> QED
      BY <2>1, <2>2, <2>3 DEF SameChannels, UpdateEffect, SameClient
  <1>5. \A g \in HandleGenerated(b0, m) : Leads(b0, g)
    BY <1>3, <1>4
  <1>6. ClientUpdated(b0, m) # {}
    BY DEF ClientUpdated
  <1>7. /\ Leads(b, r)
        /\ \/ r = b /\ HandleGenerated(b0, m) = {}
           \/ \E g \in HandleGenerated(b0, m) : r.channels = g.channels /\ SameView(g.clients, r.clients)
    BY <1>1, <1>5, HandleCommandFacts
  <1>8. PICK g \in ClientUpdated(b0, m) : r.channels = g.channels /\ SameView(g.clients, r.clients)
    BY <1>3, <1>6, <1>7
  <1>9. SameChannels(m, b.channels, r.channels) /\ UpdateEffect(m, b.clients, g.clients)
    BY <1>2, <1>4, <1>8
  <1>10. UpdateEffect(m, b.clients, r.clients)
    BY <1>8, <1>9 DEF UpdateEffect, SameView, SameClient
  <1> QED
    BY <1>7, <1>9, <1>10

\* A command that only tells of data or of a text.
LEMMA OtherCommand ==
  ASSUME NEW b, Good(b), NEW m, m.type \in {"ClientConnectionInfo", "TextMessage"},
         NEW r \in HandleCommand(b, m)
  PROVE  Leads(b, r) /\ r.channels = b.channels /\ SameView(b.clients, r.clients)
  <1>1. PICK b0 : b0 = Emptied(b)
    OBVIOUS
  <1>2. Good(b0) /\ b0.channels = b.channels /\ b0.clients = b.clients
    BY <1>1, EmptiedFacts
  <1>3. ASSUME NEW g \in HandleGenerated(b0, m)
        PROVE  Leads(b0, g) /\ g.channels = b0.channels /\ SameView(b0.clients, g.clients)
    <2>1. CASE m.type = "ClientConnectionInfo"
      <3>1. g \in ClientConnectionInfo(b0, m)
        BY <2>1, GeneratedBy
      <3> QED
        BY <1>2, <3>1, ClientConnectionInfoFacts
    <2>2. CASE m.type = "TextMessage"
      <3>1. g \in TextMessage(b0, m)
        BY <2>2, GeneratedBy
      <3> QED
        BY <1>2, <3>1, TextMessageFacts DEF SameView
    <2> QED
      BY <2>1, <2>2
  <1>4. /\ Leads(b, r)
        /\ \/ r = b /\ HandleGenerated(b0, m) = {}
           \/ \E g \in HandleGenerated(b0, m) : r.channels = g.channels /\ SameView(g.clients, r.clients)
    BY <1>1, <1>3, HandleCommandFacts
  <1>5. CASE r = b
    BY <1>4, <1>5 DEF SameView
  <1>6. CASE r # b
    <2>1. PICK g \in HandleGenerated(b0, m) : r.channels = g.channels /\ SameView(g.clients, r.clients)
      BY <1>4, <1>6
    <2> QED
      BY <1>2, <1>3, <1>4, <2>1 DEF SameView
  <1> QED
    BY <1>5, <1>6

-----------------------------------------------------------------------------
(* The tree of the server.                                                 *)

LEMMA InsertAtFacts ==
  ASSUME NEW P, NEW s \in Seq(P), NEW x, NEW i \in 1 .. Len(s) + 1, NEW u, u = InsertAt(s, i, x),
         NEW Q, P \subseteq Q, x \in Q
  PROVE  /\ u \in Seq(Q) /\ Len(u) = Len(s) + 1
         /\ \A j \in 1 .. Len(s) + 1 :
              u[j] = IF j < i THEN s[j] ELSE IF j = i THEN x ELSE s[j - 1]
  <1>1. PICK n \in Nat : n = Len(s)
    OBVIOUS
  <1>2. s \in Seq(Q) /\ <<x>> \in Seq(Q)
    OBVIOUS
  <1>3. PICK a, z : a = SubSeq(s, 1, i - 1) /\ z = SubSeq(s, i, n)
    OBVIOUS
  <1>4. a \in Seq(Q) /\ Len(a) = i - 1 /\ \A j \in 1 .. i - 1 : a[j] = s[j]
    BY <1>1, <1>2, <1>3
  <1>5. z \in Seq(Q) /\ Len(z) = n - i + 1 /\ \A j \in 1 .. n - i + 1 : z[j] = s[i + j - 1]
    BY <1>1, <1>2, <1>3
  <1>6. PICK w : w = a \o <<x>>
    OBVIOUS
  <1>7. w \in Seq(Q) /\ Len(w) = i /\ w[i] = x /\ \A j \in 1 .. i - 1 : w[j] = s[j]
    BY <1>1, <1>2, <1>4, <1>6
  <1>8. u = w \o z
    BY <1>1, <1>3, <1>6 DEF InsertAt
  <1>9. u \in Seq(Q) /\ Len(u) = n + 1
    BY <1>1, <1>5, <1>7, <1>8
  <1>10. ASSUME NEW j \in 1 .. n + 1
         PROVE  u[j] = IF j < i THEN s[j] ELSE IF j = i THEN x ELSE s[j - 1]
    <2>1. CASE j <= i
      <3>1. u[j] = w[j]
        BY <1>1, <1>5, <1>7, <1>8, <2>1
      <3> QED
        BY <1>1, <1>7, <2>1, <3>1
    <2>2. CASE ~(j <= i)
      <3>1. u[j] = z[j - i]
        BY <1>1, <1>5, <1>7, <1>8, <2>2
      <3>2. j - i \in 1 .. n - i + 1 /\ i + (j - i) - 1 = j - 1
        BY <1>1, <2>2
      <3>3. z[j - i] = s[j - 1]
        BY <1>5, <3>2
      <3> QED
        BY <1>1, <2>2, <3>1, <3>3
    <2> QED
      BY <2>1, <2>2
  <1> QED
    BY <1>1, <1>9, <1>10

LEMMA RemoveAtFacts ==
  ASSUME NEW P, NEW s \in Seq(P), NEW i \in 1 .. Len(s), NEW u, u = RemoveAt(s, i)
  PROVE  /\ u \in Seq(P) /\ Len(u) = Len(s) - 1
         /\ \A j \in 1 .. Len(s) - 1 : u[j] = IF j < i THEN s[j] ELSE s[j + 1]
  <1>1. PICK n \in Nat : n = Len(s)
    OBVIOUS
  <1>3. PICK a, z : a = SubSeq(s, 1, i - 1) /\ z = SubSeq(s, i + 1, n)
    OBVIOUS
  <1>4. a \in Seq(P) /\ Len(a) = i - 1 /\ \A j \in 1 .. i - 1 : a[j] = s[j]
    BY <1>1, <1>3
  <1>5. z \in Seq(P) /\ Len(z) = n - i /\ \A j \in 1 .. n - i : z[j] = s[i + j]
    <2>1. z \in Seq(P) /\ Len(z) = n - i
      BY <1>1, <1>3
    <2>2. \A j \in 1 .. n - i : z[j] = s[(i + 1) + j - 1]
      BY <1>1, <1>3
    <2>3. \A j \in 1 .. n - i : (i + 1) + j - 1 = i + j
      BY <1>1
    <2> QED
      BY <2>1, <2>2, <2>3
  <1>8. u = a \o z
    BY <1>1, <1>3 DEF RemoveAt
  <1>9. u \in Seq(P) /\ Len(u) = n - 1
    <2>1. u \in Seq(P) /\ Len(u) = Len(a) + Len(z)
      BY <1>4, <1>5, <1>8, ConcatProperties
    <2>2. (i - 1) + (n - i) = n - 1
      BY <1>1
    <2> QED
      BY <1>4, <1>5, <2>1, <2>2
  <1>10. ASSUME NEW j \in 1 .. n - 1 PROVE u[j] = IF j < i THEN s[j] ELSE s[j + 1]
    <2>1. CASE j < i
      BY <1>1, <1>4, <1>5, <1>8, <2>1
    <2>2. CASE ~(j < i)
      <3>1. u[j] = z[j - (i - 1)]
        BY <1>1, <1>4, <1>5, <1>8, <2>2
      <3>2. j - (i - 1) \in 1 .. n - i /\ i + (j - (i - 1)) = j + 1
        BY <1>1, <2>2
      <3>3. z[j - (i - 1)] = s[j + 1]
        BY <1>5, <3>2
      <3> QED
        BY <2>2, <3>1, <3>3
    <2> QED
      BY <2>1, <2>2
  <1> QED
    BY <1>1, <1>9, <1>10

\* A tree: the children of the spots in D are P, and every one has one spot.
TreeOK(t, D, P) ==
  /\ DOMAIN t = D /\ \A p \in D : t[p] \in Seq(P)
  /\ \A p \in D, q \in D : \A i \in 1 .. Len(t[p]), j \in 1 .. Len(t[q]) :
       t[p][i] = t[q][j] => p = q /\ i = j
  /\ \A x \in P : \E p \in D : \E i \in 1 .. Len(t[p]) : t[p][i] = x

\* In t the channel x is a child of p and follows o.
Place(t, x, p, o) ==
  /\ p \in DOMAIN t
  /\ \E i \in 1 .. Len(t[p]) : t[p][i] = x /\ o = PredecessorIn(t[p], i)

LEMMA SpotOnce ==
  ASSUME NEW t, NEW D, NEW P, TreeOK(t, D, P), NEW p \in D, NEW q \in D,
         NEW i \in 1 .. Len(t[p]), NEW j \in 1 .. Len(t[q]), t[p][i] = t[q][j]
  PROVE  p = q /\ i = j
  <1>1. \A p1 \in D, q1 \in D : \A i1 \in 1 .. Len(t[p1]), j1 \in 1 .. Len(t[q1]) :
          t[p1][i1] = t[q1][j1] => p1 = q1 /\ i1 = j1
    BY DEF TreeOK
  <1> QED
    BY <1>1, Zenon

\* Everyone has one place, and at one place there is one channel.
LEMMA PlaceFacts ==
  ASSUME NEW t, NEW D, NEW P, TreeOK(t, D, P), Root \notin P
  PROVE  /\ \A x \in P : \E p, o : Place(t, x, p, o)
         /\ \A x, p, o : Place(t, x, p, o) => x \in P /\ p \in D /\ (o = Root \/ o \in P) /\ o # x
         /\ \A x, p, o, q, r : Place(t, x, p, o) /\ Place(t, x, q, r) => p = q /\ o = r
         /\ \A x, y, p, o : Place(t, x, p, o) /\ Place(t, y, p, o) => x = y
         /\ \A x, y, p, o, q : Place(t, x, p, o) /\ Place(t, y, q, x) => q = p
  <1>1. \A x \in P : \E p, o : Place(t, x, p, o)
    <2>1. ASSUME NEW x \in P PROVE \E p, o : Place(t, x, p, o)
      <3>1. PICK p \in D : \E i \in 1 .. Len(t[p]) : t[p][i] = x
        BY DEF TreeOK
      <3>2. PICK i \in 1 .. Len(t[p]) : t[p][i] = x
        BY <3>1
      <3>3. PICK o : o = PredecessorIn(t[p], i)
        OBVIOUS
      <3>4. Place(t, x, p, o)
        BY <3>1, <3>2, <3>3 DEF Place, TreeOK
      <3> QED
        BY <3>4
    <2> QED
      BY <2>1
  <1>2. ASSUME NEW x, NEW p, NEW o, Place(t, x, p, o)
        PROVE  /\ x \in P /\ p \in D /\ (o = Root \/ o \in P) /\ o # x
    <2>1. PICK i \in 1 .. Len(t[p]) : t[p][i] = x /\ o = PredecessorIn(t[p], i)
      BY <1>2 DEF Place
    <2>2. p \in D /\ t[p] \in Seq(P) /\ \A j \in 1 .. Len(t[p]) : t[p][j] = t[p][i] => j = i
      <3>1. p \in D
        BY <1>2 DEF TreeOK, Place
      <3>2. t[p] \in Seq(P)
        BY <3>1 DEF TreeOK
      <3>3. ASSUME NEW j \in 1 .. Len(t[p]), t[p][j] = t[p][i] PROVE j = i
        BY <3>1, <3>3, SpotOnce
      <3> QED
        BY <3>1, <3>2, <3>3
    <2>3. CASE i = 1
      BY <2>1, <2>2, <2>3 DEF PredecessorIn
    <2>4. CASE i # 1
      <3>1. i - 1 \in 1 .. Len(t[p]) /\ i - 1 # i /\ o = t[p][i - 1]
        BY <2>1, <2>2, <2>4 DEF PredecessorIn
      <3> QED
        BY <2>1, <2>2, <3>1
    <2> QED
      BY <2>3, <2>4
  <1>3. ASSUME NEW x, NEW p, NEW o, NEW q, NEW r, Place(t, x, p, o), Place(t, x, q, r)
        PROVE  p = q /\ o = r
    <2>1. PICK i \in 1 .. Len(t[p]) : t[p][i] = x /\ o = PredecessorIn(t[p], i)
      BY <1>3 DEF Place
    <2>2. PICK j \in 1 .. Len(t[q]) : t[q][j] = x /\ r = PredecessorIn(t[q], j)
      BY <1>3 DEF Place
    <2>3. p \in D /\ q \in D
      BY <1>2, <1>3
    <2>4. p = q /\ i = j
      BY <2>1, <2>2, <2>3, SpotOnce
    <2> QED
      BY <2>1, <2>2, <2>4
  <1>4. ASSUME NEW x, NEW y, NEW p, NEW o, Place(t, x, p, o), Place(t, y, p, o)
        PROVE  x = y
    <2>1. PICK i \in 1 .. Len(t[p]) : t[p][i] = x /\ o = PredecessorIn(t[p], i)
      BY <1>4 DEF Place
    <2>2. PICK j \in 1 .. Len(t[p]) : t[p][j] = y /\ o = PredecessorIn(t[p], j)
      BY <1>4 DEF Place
    <2>3. p \in D /\ t[p] \in Seq(P)
      BY <1>2, <1>4 DEF TreeOK
    <2>4. i = j
      <3>1. CASE i = 1 /\ j = 1
        BY <3>1
      <3>2. CASE i # 1 /\ j # 1
        <4>1. /\ i - 1 \in 1 .. Len(t[p]) /\ j - 1 \in 1 .. Len(t[p])
              /\ t[p][i - 1] = t[p][j - 1]
          BY <2>1, <2>2, <2>3, <3>2 DEF PredecessorIn
        <4>2. i - 1 = j - 1
          BY <2>3, <4>1, SpotOnce
        <4> QED
          BY <2>3, <4>2
      <3>3. CASE i = 1 /\ j # 1
        <4>1. j - 1 \in 1 .. Len(t[p]) /\ t[p][j - 1] = Root
          BY <2>1, <2>2, <2>3, <3>3 DEF PredecessorIn
        <4> QED
          BY <2>3, <4>1
      <3>4. CASE i # 1 /\ j = 1
        <4>1. i - 1 \in 1 .. Len(t[p]) /\ t[p][i - 1] = Root
          BY <2>1, <2>2, <2>3, <3>4 DEF PredecessorIn
        <4> QED
          BY <2>3, <4>1
      <3> QED
        BY <3>1, <3>2, <3>3, <3>4
    <2> QED
      BY <2>1, <2>2, <2>4
  <1>5. ASSUME NEW x, NEW y, NEW p, NEW o, NEW q, Place(t, x, p, o), Place(t, y, q, x)
        PROVE  q = p
    <2>1. PICK i \in 1 .. Len(t[p]) : t[p][i] = x
      BY <1>5 DEF Place
    <2>2. PICK j \in 1 .. Len(t[q]) : t[q][j] = y /\ x = PredecessorIn(t[q], j)
      BY <1>5 DEF Place
    <2>3. p \in D /\ q \in D /\ x # Root /\ t[q] \in Seq(P)
      BY <1>2, <1>5 DEF TreeOK
    <2>4. j # 1 /\ j - 1 \in 1 .. Len(t[q]) /\ x = t[q][j - 1]
      BY <2>2, <2>3 DEF PredecessorIn
    <2> QED
      BY <2>1, <2>3, <2>4, SpotOnce
  <1> QED
    BY <1>1, <1>2, <1>3, <1>4, <1>5

\* E is D with, or without c.
AddedTo(E, D, c) == \A x : x \in E <=> x \in D \/ x = c
TakenFrom(E, D, c) == \A x : x \in E <=> x \in D /\ x # c

\* In u the new channel c is a child of p that follows o.
Inserted(t, u, c, p, o) ==
  /\ Place(u, c, p, o)
  /\ \A x, q, r : Place(u, x, q, r) =>
       \/ x = c
       \/ x # c /\ q = p /\ r = c /\ Place(t, x, p, o)
       \/ x # c /\ r # c /\ Place(t, x, q, r) /\ ~(q = p /\ r = o)

LEMMA TreeInsert ==
  ASSUME NEW t, NEW D, NEW P, TreeOK(t, D, P), NEW c, c \notin P, c # Root, Root \notin P,
         NEW p \in D, NEW i \in 1 .. Len(t[p]) + 1,
         NEW Q, AddedTo(Q, P, c),
         NEW u, u = [t EXCEPT ![p] = InsertAt(t[p], i, c)]
  PROVE  TreeOK(u, D, Q) /\ Inserted(t, u, c, p, PredecessorIn(t[p], i))
  <1>0. \A x : x \in Q <=> x \in P \/ x = c
    BY DEF AddedTo
  <1> USE <1>0
  <1>1. PICK s : s = t[p]
    OBVIOUS
  <1>2. PICK w : w = InsertAt(s, i, c)
    OBVIOUS
  <1>3. s \in Seq(P) /\ Len(s) \in Nat /\ i \in 1 .. Len(s) + 1 /\ P \subseteq Q /\ c \in Q
    BY <1>1 DEF TreeOK
  <1>4. /\ w \in Seq(Q) /\ Len(w) = Len(s) + 1
        /\ \A j \in 1 .. Len(s) + 1 : w[j] = IF j < i THEN s[j] ELSE IF j = i THEN c ELSE s[j - 1]
    BY <1>2, <1>3, InsertAtFacts
  <1>5. DOMAIN t = D /\ DOMAIN u = D /\ u[p] = w /\ \A q \in D : q # p => u[q] = t[q]
    BY <1>1, <1>2 DEF TreeOK
  <1>6. \A q \in D : t[q] \in Seq(P) /\ Len(t[q]) \in Nat
    BY DEF TreeOK
  <1>7. ASSUME NEW q \in D PROVE u[q] \in Seq(Q)
    <2>1. CASE q = p
      BY <1>4, <1>5, <2>1
    <2>2. CASE q # p
      <3>1. u[q] = t[q] /\ t[q] \in Seq(P)
        BY <1>5, <1>6, <2>2
      <3> QED
        BY <1>3, <3>1
    <2> QED
      BY <2>1, <2>2
  <1> DEFINE Was(q, j) == IF q = p /\ j > i THEN j - 1 ELSE j
  <1>8. ASSUME NEW q \in D, NEW j \in 1 .. Len(u[q]), ~(q = p /\ j = i)
        PROVE  Was(q, j) \in 1 .. Len(t[q]) /\ u[q][j] = t[q][Was(q, j)] /\ u[q][j] \in P
    <2>1. CASE q # p
      <3>1. Was(q, j) = j /\ u[q] = t[q]
        BY <1>5, <2>1
      <3> QED
        BY <1>6, <3>1
    <2>2. CASE q = p
      <3>1. j \in 1 .. Len(s) + 1 /\ j # i /\ j \in Nat /\ i \in Nat
        BY <1>3, <1>4, <1>5, <1>8, <2>2
      <3>2. CASE j < i
        <4>1. Was(q, j) = j /\ j \in 1 .. Len(s)
          BY <1>3, <3>1, <3>2
        <4>2. u[q][j] = s[j]
          BY <1>4, <1>5, <2>2, <3>1, <3>2
        <4> QED
          BY <1>1, <1>3, <2>2, <4>1, <4>2
      <3>3. CASE ~(j < i)
        <4>1. Was(q, j) = j - 1 /\ j - 1 \in 1 .. Len(s)
          BY <1>3, <2>2, <3>1, <3>3
        <4>2. u[q][j] = s[j - 1]
          BY <1>4, <1>5, <2>2, <3>1, <3>3
        <4> QED
          BY <1>1, <1>3, <2>2, <4>1, <4>2
      <3> QED
        BY <3>2, <3>3
    <2> QED
      BY <2>1, <2>2
  <1>9. i \in 1 .. Len(u[p]) /\ u[p][i] = c
    BY <1>3, <1>4, <1>5
  <1>10. ASSUME NEW q \in D, NEW r \in D, NEW j \in 1 .. Len(u[q]), NEW k \in 1 .. Len(u[r]),
                u[q][j] = u[r][k]
         PROVE  q = r /\ j = k
    <2> HIDE DEF Was
    <2>1. CASE q = p /\ j = i
      <3>1. u[r][k] \notin P
        BY <1>9, <1>10, <2>1
      <3>2. r = p /\ k = i
        BY <1>8, <3>1
      <3> QED
        BY <2>1, <3>2
    <2>2. CASE r = p /\ k = i
      <3>1. u[q][j] \notin P
        BY <1>9, <1>10, <2>2
      <3>2. q = p /\ j = i
        BY <1>8, <3>1
      <3> QED
        BY <2>2, <3>2
    <2>3. CASE ~(q = p /\ j = i) /\ ~(r = p /\ k = i)
      <3>1. Was(q, j) \in 1 .. Len(t[q]) /\ Was(r, k) \in 1 .. Len(t[r])
            /\ t[q][Was(q, j)] = t[r][Was(r, k)]
        BY <1>8, <1>10, <2>3
      <3>2. q = r /\ Was(q, j) = Was(r, k)
        BY <3>1, SpotOnce
      <3>3. j \in Int /\ k \in Int /\ i \in Int
        BY <1>6, <1>7
      <3> QED
        BY <2>3, <3>2, <3>3 DEF Was
    <2> QED
      BY <2>1, <2>2, <2>3
  <1>11. ASSUME NEW x \in Q PROVE \E q \in D : \E j \in 1 .. Len(u[q]) : u[q][j] = x
    <2>1. CASE x = c
      BY <1>9, <2>1
    <2>2. CASE x # c
      <3>1. PICK q \in D : \E k \in 1 .. Len(t[q]) : t[q][k] = x
        BY <2>2 DEF TreeOK
      <3>2. PICK k \in 1 .. Len(t[q]) : t[q][k] = x
        BY <3>1
      <3>3. CASE q # p
        BY <1>5, <3>2, <3>3
      <3>4. CASE q = p
        <4>1. k \in 1 .. Len(s) /\ s[k] = x
          BY <1>1, <3>2, <3>4
        <4>2. CASE k < i
          <5>1. k \in 1 .. Len(s) + 1
            BY <1>3, <4>1
          <5>2. w[k] = x
            BY <1>4, <4>1, <4>2, <5>1
          <5> QED
            BY <1>4, <1>5, <5>1, <5>2
        <4>3. CASE ~(k < i)
          <5>1. k + 1 \in 1 .. Len(s) + 1 /\ ~(k + 1 < i) /\ k + 1 # i /\ k + 1 - 1 = k
            BY <1>3, <4>1, <4>3
          <5>2. w[k + 1] = x
            BY <1>4, <4>1, <5>1
          <5> QED
            BY <1>4, <1>5, <5>1, <5>2
        <4> QED
          BY <4>2, <4>3
      <3> QED
        BY <3>3, <3>4
    <2> QED
      BY <2>1, <2>2
  <1>12. TreeOK(u, D, Q)
    BY <1>5, <1>7, <1>10, <1>11 DEF TreeOK
  <1>13. PICK o : o = PredecessorIn(t[p], i)
    OBVIOUS
  <1>14. PredecessorIn(w, i) = o
    <2>1. CASE i = 1
      BY <1>13, <2>1 DEF PredecessorIn
    <2>2. CASE i # 1
      <3>1. i - 1 \in 1 .. Len(s) + 1 /\ i - 1 < i
        BY <1>3, <2>2
      <3>2. w[i - 1] = s[i - 1]
        BY <1>4, <3>1
      <3> QED
        BY <1>1, <1>13, <2>2, <3>2 DEF PredecessorIn
    <2> QED
      BY <2>1, <2>2
  <1>15. Place(u, c, p, o)
    BY <1>5, <1>9, <1>14 DEF Place
  <1>16. ASSUME NEW x, NEW q, NEW r, Place(u, x, q, r), x # c
         PROVE  \/ q = p /\ r = c /\ Place(t, x, p, o)
                \/ r # c /\ Place(t, x, q, r) /\ ~(q = p /\ r = o)
    <2>1. q \in D
      BY <1>5, <1>16 DEF Place
    <2>2. PICK j \in 1 .. Len(u[q]) : u[q][j] = x /\ r = PredecessorIn(u[q], j)
      BY <1>16 DEF Place
    <2>3. CASE q # p
      <3>1. Place(t, x, q, r)
        BY <1>5, <2>1, <2>2, <2>3 DEF Place
      <3>2. r # c
        BY <3>1, PlaceFacts
      <3> QED
        BY <2>3, <3>1, <3>2
    <2>4. CASE q = p
      <3>1. j \in 1 .. Len(s) + 1 /\ w[j] = x /\ r = PredecessorIn(w, j) /\ j # i /\ j \in Nat /\ i \in Nat
        BY <1>3, <1>4, <1>5, <1>9, <1>16, <2>2, <2>4
      <3>2. CASE j = i + 1
        <4>1. s[i] = x /\ i \in 1 .. Len(s) /\ j # 1 /\ j - 1 = i
          BY <1>3, <1>4, <3>1, <3>2
        <4>2. r = c
          BY <1>5, <1>9, <3>1, <4>1 DEF PredecessorIn
        <4>3. Place(t, x, p, o)
          BY <1>1, <1>5, <1>13, <4>1 DEF Place
        <4> QED
          BY <2>4, <4>2, <4>3
      <3>3. CASE j # i + 1
        <4>1. PICK k : k = Was(q, j)
          OBVIOUS
        <4>2. k \in 1 .. Len(s) /\ s[k] = x /\ k = (IF j > i THEN j - 1 ELSE j)
          BY <1>1, <1>8, <2>1, <2>2, <2>4, <3>1, <4>1
        <4>3. PredecessorIn(s, k) = PredecessorIn(w, j)
          <5>1. CASE j = 1
            BY <3>1, <4>2, <5>1 DEF PredecessorIn
          <5>2. CASE j # 1 /\ j < i
            <6>1. k = j /\ j - 1 \in 1 .. Len(s) + 1 /\ j - 1 < i
              BY <1>3, <3>1, <4>2, <5>2
            <6>2. w[j - 1] = s[j - 1]
              BY <1>4, <6>1
            <6> QED
              BY <5>2, <6>1, <6>2 DEF PredecessorIn
          <5>3. CASE j # 1 /\ ~(j < i)
            <6>1. /\ k = j - 1 /\ k # 1 /\ j - 1 \in 1 .. Len(s) + 1 /\ ~(j - 1 < i) /\ j - 1 # i
                  /\ (j - 1) - 1 = k - 1
              BY <1>3, <3>1, <3>3, <4>2, <5>3
            <6>2. w[j - 1] = s[k - 1]
              BY <1>4, <6>1
            <6> QED
              BY <5>3, <6>1, <6>2 DEF PredecessorIn
          <5> QED
            BY <5>1, <5>2, <5>3
        <4>4. Place(t, x, p, r)
          BY <1>1, <1>5, <3>1, <4>2, <4>3 DEF Place
        <4>5. r # c
          BY <4>4, PlaceFacts
        <4>6. ASSUME r = o PROVE FALSE
          <5>1. i \in 1 .. Len(s) \/ i = Len(s) + 1
            BY <1>3
          <5>2. CASE i \in 1 .. Len(s)
            <6>1. PICK y : y = s[i]
              OBVIOUS
            <6>2. Place(t, y, p, o)
              BY <1>1, <1>5, <1>13, <5>2, <6>1 DEF Place
            <6>3. x = y
              BY <4>4, <4>6, <6>2, PlaceFacts
            <6>4. k = i
              <7>1. k \in 1 .. Len(t[p]) /\ i \in 1 .. Len(t[p]) /\ t[p][k] = t[p][i]
                BY <1>1, <4>2, <5>2, <6>1, <6>3
              <7> QED
                BY <7>1, SpotOnce
            <6> QED
              BY <3>1, <3>3, <4>2, <6>4
          <5>3. CASE i = Len(s) + 1
            <6>1. k = j /\ j < i
              BY <1>3, <3>1, <4>2, <5>3
            <6>2. r = PredecessorIn(s, j) /\ o = PredecessorIn(s, i)
              BY <1>1, <1>13, <3>1, <4>3, <6>1
            <6>3. i # 1 /\ i - 1 \in 1 .. Len(s) /\ o = s[i - 1]
              BY <1>3, <3>1, <6>1, <6>2 DEF PredecessorIn
            <6>4. o # Root
              BY <1>3, <6>3
            <6>5. j # 1
              BY <4>6, <6>2, <6>4 DEF PredecessorIn
            <6>6. j - 1 \in 1 .. Len(s) /\ r = s[j - 1]
              BY <1>3, <3>1, <6>1, <6>2, <6>5 DEF PredecessorIn
            <6>7. j - 1 = i - 1
              BY <1>1, <4>6, <6>3, <6>6, SpotOnce
            <6> QED
              BY <3>1, <6>7
          <5> QED
            BY <5>1, <5>2, <5>3
        <4> QED
          BY <2>4, <4>4, <4>5, <4>6
      <3> QED
        BY <3>2, <3>3
    <2> QED
      BY <2>3, <2>4
  <1>17. Inserted(t, u, c, p, o)
    BY <1>15, <1>16 DEF Inserted
  <1> QED
    BY <1>12, <1>13, <1>17

\* In u the channel c, which was a child of p and followed o, is gone.
Removed(t, u, c, p, o) ==
  /\ Place(t, c, p, o)
  /\ \A x, q, r : Place(u, x, q, r) =>
       /\ x # c /\ r # c
       /\ (Place(t, x, q, r) \/ (q = p /\ r = o /\ Place(t, x, p, c)))

LEMMA TreeRemove ==
  ASSUME NEW t, NEW D, NEW P, TreeOK(t, D, P), Root \notin P,
         NEW p \in D, NEW i \in 1 .. Len(t[p]), NEW c, t[p][i] = c,
         NEW Q, TakenFrom(Q, P, c),
         NEW u, u = [t EXCEPT ![p] = RemoveAt(t[p], i)]
  PROVE  TreeOK(u, D, Q) /\ Removed(t, u, c, p, PredecessorIn(t[p], i))
  <1>0. \A x : x \in Q <=> x \in P /\ x # c
    BY DEF TakenFrom
  <1> USE <1>0
  <1>1. PICK s : s = t[p]
    OBVIOUS
  <1>2. PICK w : w = RemoveAt(s, i)
    OBVIOUS
  <1>3. s \in Seq(P) /\ Len(s) \in Nat /\ i \in 1 .. Len(s) /\ c \in P
    BY <1>1 DEF TreeOK
  <1>4. /\ w \in Seq(P) /\ Len(w) = Len(s) - 1
        /\ \A j \in 1 .. Len(s) - 1 : w[j] = IF j < i THEN s[j] ELSE s[j + 1]
    BY <1>2, <1>3, RemoveAtFacts
  <1>5. DOMAIN t = D /\ DOMAIN u = D /\ u[p] = w /\ \A q \in D : q # p => u[q] = t[q]
    BY <1>1, <1>2 DEF TreeOK
  <1>6. \A q \in D : t[q] \in Seq(P) /\ Len(t[q]) \in Nat
    BY DEF TreeOK
  <1> DEFINE Was(q, j) == IF q = p /\ j >= i THEN j + 1 ELSE j
  <1>7. ASSUME NEW q \in D, NEW j \in 1 .. Len(u[q])
        PROVE  /\ Was(q, j) \in 1 .. Len(t[q]) /\ u[q][j] = t[q][Was(q, j)]
               /\ q = p => Was(q, j) # i
    <2>1. CASE q # p
      <3>1. Was(q, j) = j /\ u[q] = t[q]
        BY <1>5, <2>1
      <3> QED
        BY <1>6, <2>1, <3>1
    <2>2. CASE q = p
      <3>1. j \in 1 .. Len(s) - 1
        BY <1>3, <1>4, <1>5, <2>2
      <3>2. CASE j < i
        <4>1. Was(q, j) = j /\ j \in 1 .. Len(s) /\ j # i
          BY <1>3, <3>1, <3>2
        <4>2. u[q][j] = s[j]
          BY <1>4, <1>5, <2>2, <3>1, <3>2
        <4> QED
          BY <1>1, <1>3, <2>2, <4>1, <4>2
      <3>3. CASE ~(j < i)
        <4>1. Was(q, j) = j + 1 /\ j + 1 \in 1 .. Len(s) /\ j + 1 # i
          BY <1>3, <2>2, <3>1, <3>3
        <4>2. u[q][j] = s[j + 1]
          BY <1>4, <1>5, <2>2, <3>1, <3>3
        <4> QED
          BY <1>1, <1>3, <2>2, <4>1, <4>2
      <3> QED
        BY <3>2, <3>3
    <2> QED
      BY <2>1, <2>2
  <1>8. ASSUME NEW q \in D, NEW j \in 1 .. Len(u[q])
        PROVE  u[q][j] \in P /\ u[q][j] # c
    <2>1. PICK k : k = Was(q, j)
      OBVIOUS
    <2>2. k \in 1 .. Len(t[q]) /\ u[q][j] = t[q][k] /\ (q = p => k # i)
      BY <1>7, <2>1
    <2>3. ~(t[q][k] = t[p][i])
      BY <2>2, SpotOnce
    <2>4. t[q][k] \in P
      BY <1>6, <2>2
    <2> QED
      BY <2>2, <2>3, <2>4
  <1>9. ASSUME NEW q \in D PROVE u[q] \in Seq(Q)
    <2>1. u[q] \in Seq(P)
      BY <1>4, <1>5, <1>6
    <2>2. \A j \in 1 .. Len(u[q]) : u[q][j] \in Q
      BY <1>8
    <2>3. PICK z \in Seq(P) : z = u[q]
      BY <2>1
    <2>4. z = [j \in 1 .. Len(z) |-> z[j]] /\ Len(z) \in Nat
      BY <2>3
    <2>5. z \in [1 .. Len(z) -> Q]
      BY <2>2, <2>3, <2>4
    <2>6. z \in Seq(Q)
      BY <2>4, <2>5, FunctionSeq
    <2> QED
      BY <2>3, <2>6
  <1>10. ASSUME NEW q \in D, NEW r \in D, NEW j \in 1 .. Len(u[q]), NEW k \in 1 .. Len(u[r]),
                u[q][j] = u[r][k]
         PROVE  q = r /\ j = k
    <2> HIDE DEF Was
    <2>1. Was(q, j) \in 1 .. Len(t[q]) /\ Was(r, k) \in 1 .. Len(t[r])
          /\ t[q][Was(q, j)] = t[r][Was(r, k)]
      BY <1>7, <1>10
    <2>2. q = r /\ Was(q, j) = Was(r, k)
      BY <2>1, SpotOnce
    <2>3. j \in Int /\ k \in Int /\ i \in Int
      BY <1>6, <1>9
    <2> QED
      BY <2>2, <2>3 DEF Was
  <1>11. ASSUME NEW x \in Q PROVE \E q \in D : \E j \in 1 .. Len(u[q]) : u[q][j] = x
    <2>1. PICK q \in D : \E k \in 1 .. Len(t[q]) : t[q][k] = x
      BY DEF TreeOK
    <2>2. PICK k \in 1 .. Len(t[q]) : t[q][k] = x
      BY <2>1
    <2>3. CASE q # p
      BY <1>5, <2>2, <2>3
    <2>4. CASE q = p
      <3>1. k \in 1 .. Len(s) /\ s[k] = x /\ k # i
        BY <1>1, <2>2, <2>4
      <3>2. CASE k < i
        <4>1. k \in 1 .. Len(s) - 1
          BY <1>3, <3>1, <3>2
        <4>2. w[k] = x
          BY <1>4, <3>1, <3>2, <4>1
        <4> QED
          BY <1>4, <1>5, <2>4, <4>1, <4>2
      <3>3. CASE ~(k < i)
        <4>1. k - 1 \in 1 .. Len(s) - 1 /\ ~(k - 1 < i) /\ k - 1 + 1 = k
          BY <1>3, <3>1, <3>3
        <4>2. w[k - 1] = x
          BY <1>4, <3>1, <4>1
        <4> QED
          BY <1>4, <1>5, <2>4, <4>1, <4>2
      <3> QED
        BY <3>2, <3>3
    <2> QED
      BY <2>3, <2>4
  <1>12. TreeOK(u, D, Q)
    BY <1>5, <1>9, <1>10, <1>11 DEF TreeOK
  <1>13. PICK o : o = PredecessorIn(s, i)
    OBVIOUS
  <1>14. Place(t, c, p, o)
    BY <1>1, <1>5, <1>13 DEF Place
  <1>15. ASSUME NEW x, NEW q, NEW r, Place(u, x, q, r)
         PROVE  /\ x # c /\ r # c
                /\ (Place(t, x, q, r) \/ (q = p /\ r = o /\ Place(t, x, p, c)))
    <2>1. q \in D
      BY <1>5, <1>15 DEF Place
    <2>2. PICK j \in 1 .. Len(u[q]) : u[q][j] = x /\ r = PredecessorIn(u[q], j)
      BY <1>15 DEF Place
    <2>3. Root \notin Q /\ c \notin Q /\ c # Root
      BY <1>3
    <2>4. x \in Q /\ (r = Root \/ r \in Q)
      BY <1>12, <1>15, <2>3, PlaceFacts
    <2>5. x # c /\ r # c
      BY <2>3, <2>4
    <2>6. CASE q # p
      <3>1. Place(t, x, q, r)
        BY <1>5, <2>1, <2>2, <2>6 DEF Place
      <3> QED
        BY <2>5, <3>1
    <2>7. CASE q = p
      <3>1. j \in 1 .. Len(s) - 1 /\ w[j] = x /\ r = PredecessorIn(w, j) /\ j \in Nat /\ i \in Nat
        BY <1>3, <1>4, <1>5, <2>2, <2>7
      <3>2. CASE j = i
        <4>1. s[j + 1] = x /\ j + 1 \in 1 .. Len(s) /\ j + 1 # 1 /\ (j + 1) - 1 = i
          BY <1>3, <1>4, <3>1, <3>2
        <4>2. PredecessorIn(s, j + 1) = c
          BY <1>1, <4>1 DEF PredecessorIn
        <4>3. Place(t, x, p, c)
          BY <1>1, <1>5, <4>1, <4>2 DEF Place
        <4>4. r = o
          <5>1. CASE i = 1
            BY <1>13, <3>1, <3>2, <5>1 DEF PredecessorIn
          <5>2. CASE i # 1
            <6>1. i - 1 \in 1 .. Len(s) - 1 /\ i - 1 < i
              BY <1>3, <5>2
            <6>2. w[i - 1] = s[i - 1]
              BY <1>4, <6>1
            <6> QED
              BY <1>13, <3>1, <3>2, <5>2, <6>2 DEF PredecessorIn
          <5> QED
            BY <5>1, <5>2
        <4> QED
          BY <2>5, <2>7, <4>3, <4>4
      <3>3. CASE j # i
        <4>1. PICK k : k = Was(q, j)
          OBVIOUS
        <4>2. k \in 1 .. Len(s) /\ s[k] = x /\ k = (IF j >= i THEN j + 1 ELSE j)
          BY <1>1, <1>7, <2>1, <2>2, <2>7, <4>1
        <4>3. PredecessorIn(s, k) = PredecessorIn(w, j)
          <5>1. CASE j < i /\ j = 1
            BY <3>1, <4>2, <5>1 DEF PredecessorIn
          <5>2. CASE j < i /\ j # 1
            <6>1. k = j /\ j - 1 \in 1 .. Len(s) - 1 /\ j - 1 < i
              BY <1>3, <3>1, <4>2, <5>2
            <6>2. w[j - 1] = s[j - 1]
              BY <1>4, <6>1
            <6> QED
              BY <5>2, <6>1, <6>2 DEF PredecessorIn
          <5>3. CASE ~(j < i)
            <6>1. /\ k = j + 1 /\ k # 1 /\ j # 1 /\ j - 1 \in 1 .. Len(s) - 1 /\ ~(j - 1 < i)
                  /\ (j - 1) + 1 = k - 1
              BY <1>3, <3>1, <3>3, <4>2, <5>3
            <6>2. w[j - 1] = s[k - 1]
              BY <1>4, <6>1
            <6> QED
              BY <6>1, <6>2 DEF PredecessorIn
          <5> QED
            BY <5>1, <5>2, <5>3
        <4>4. Place(t, x, p, r)
          BY <1>1, <1>5, <3>1, <4>2, <4>3 DEF Place
        <4> QED
          BY <2>5, <2>7, <4>4
      <3> QED
        BY <3>2, <3>3
    <2> QED
      BY <2>6, <2>7
  <1>16. Removed(t, u, c, p, o)
    BY <1>14, <1>15 DEF Removed
  <1> QED
    BY <1>1, <1>12, <1>13, <1>16

-----------------------------------------------------------------------------
(* The book keeps the order of the tree.                                   *)

\* The book has the channel x at its place in t.
PlacedIn(c, t, x) ==
  \A p, o : Place(t, x, p, o) => At(c, x, "parent") = p /\ At(c, x, "order") = o

\* At most the order of one of S changes.
LEMMA PutOneFacts ==
  ASSUME NEW c, Form(c, ChannelAttrs), NEW S, S \subseteq DOMAIN c, NEW value, NEW d,
         PutOne(c, S, value, d)
  PROVE  /\ Form(d, ChannelAttrs) /\ DOMAIN d = DOMAIN c
         /\ \A x \in DOMAIN c : \A a \in ChannelAttrs : x \notin S \/ a # "order" => At(d, x, a) = At(c, x, a)
         /\ S # {} => \E y \in S : /\ At(d, y, "order") = value
                                   /\ \A x \in DOMAIN c : x # y => At(d, x, "order") = At(c, x, "order")
         /\ S = {} => d = c
  <1>1. PICK attr \in ChannelAttrs : attr = "order"
    BY DEF ChannelAttrs
  <1>2. CASE S = {} /\ d = c
    BY <1>2
  <1>3. CASE \E x \in S : d = Put(c, x, "order", value)
    <2>1. PICK y \in S : d = Put(c, y, attr, value)
      BY <1>1, <1>3
    <2>2. y \in DOMAIN c
      BY <2>1
    <2>3. /\ Form(d, ChannelAttrs) /\ DOMAIN d = DOMAIN c /\ At(d, y, attr) = value
          /\ \A x \in DOMAIN c : \A a \in ChannelAttrs : x # y \/ a # attr => At(d, x, a) = At(c, x, a)
      BY <2>1, <2>2, PutFacts
    <2> QED
      BY <1>1, <2>1, <2>3
  <1> QED
    BY <1>2, <1>3 DEF PutOne

\* The sibling that follows the new channel gets its id.
LEMMA InsertKeepsOrder ==
  ASSUME NEW c, Form(c, ChannelAttrs), NEW t, NEW D, NEW P, TreeOK(t, D, P), Root \notin P,
         NEW id, id \notin P, NEW u, NEW p, NEW o, Inserted(t, u, id, p, o),
         \A x \in P : x \in DOMAIN c /\ PlacedIn(c, t, x),
         \A x \in DOMAIN c : x = id \/ x \in P,
         NEW d, PutOne(c, Followers(c, id, o, p), id, d)
  PROVE  /\ Form(d, ChannelAttrs) /\ DOMAIN d = DOMAIN c
         /\ \A x \in P : PlacedIn(d, u, x)
         /\ \A x \in DOMAIN c : \A a \in ChannelAttrs : x = id \/ a # "order" => At(d, x, a) = At(c, x, a)
  <1>1. PICK S : S = Followers(c, id, o, p)
    OBVIOUS
  <1>2. /\ S \subseteq DOMAIN c
        /\ \A x : x \in S <=> x \in DOMAIN c /\ x # id /\ At(c, x, "order") = o /\ At(c, x, "parent") = p
    BY <1>1 DEF Followers, At
  <1>3. PutOne(c, S, id, d)
    BY <1>1
  <1>4. /\ Form(d, ChannelAttrs) /\ DOMAIN d = DOMAIN c
        /\ \A x \in DOMAIN c : \A a \in ChannelAttrs : x \notin S \/ a # "order" => At(d, x, a) = At(c, x, a)
        /\ S # {} => \E y \in S : /\ At(d, y, "order") = id
                                  /\ \A x \in DOMAIN c : x # y => At(d, x, "order") = At(c, x, "order")
        /\ S = {} => d = c
    BY <1>2, <1>3, PutOneFacts
  <1>5. "parent" \in ChannelAttrs /\ "order" \in ChannelAttrs
    BY DEF ChannelAttrs
  <1>6. \A x \in S : x \in P /\ Place(t, x, p, o)
    <2>1. ASSUME NEW x \in S PROVE x \in P /\ Place(t, x, p, o)
      <3>1. x \in P /\ PlacedIn(c, t, x)
        BY <1>2
      <3>2. PICK q, r : Place(t, x, q, r)
        BY <3>1, PlaceFacts
      <3>3. q = p /\ r = o
        BY <1>2, <3>1, <3>2 DEF PlacedIn
      <3> QED
        BY <3>1, <3>2, <3>3
    <2> QED
      BY <2>1
  <1>7. ASSUME NEW x \in P PROVE PlacedIn(d, u, x)
    <2>1. SUFFICES ASSUME NEW q, NEW r, Place(u, x, q, r)
                   PROVE  At(d, x, "parent") = q /\ At(d, x, "order") = r
      BY DEF PlacedIn
    <2>2. x # id /\ x \in DOMAIN c /\ PlacedIn(c, t, x)
      OBVIOUS
    <2>3. At(d, x, "parent") = At(c, x, "parent")
      BY <1>4, <1>5, <2>2
    <2>4. \/ q = p /\ r = id /\ Place(t, x, p, o)
          \/ Place(t, x, q, r) /\ ~(q = p /\ r = o)
      BY <2>1, <2>2 DEF Inserted
    <2>5. CASE q = p /\ r = id /\ Place(t, x, p, o)
      <3>1. x \in S /\ At(c, x, "parent") = q
        BY <1>2, <2>2, <2>5 DEF PlacedIn
      <3>2. PICK y \in S : At(d, y, "order") = id
        BY <1>4, <3>1
      <3>3. y = x
        BY <1>6, <3>1, <3>2, PlaceFacts
      <3> QED
        BY <2>3, <2>5, <3>1, <3>2, <3>3
    <2>6. CASE Place(t, x, q, r) /\ ~(q = p /\ r = o)
      <3>1. At(c, x, "parent") = q /\ At(c, x, "order") = r
        BY <2>2, <2>6 DEF PlacedIn
      <3>2. x \notin S
        BY <1>2, <2>6, <3>1
      <3> QED
        BY <1>4, <1>5, <2>2, <3>1, <3>2
    <2> QED
      BY <2>4, <2>5, <2>6
  <1> QED
    BY <1>2, <1>4, <1>7

\* The other channels of P are in the book, and at their places.
OthersPlaced(c, t, P, id) ==
  /\ \A x \in P : x # id => x \in DOMAIN c /\ PlacedIn(c, t, x)
  /\ \A x \in DOMAIN c : x = id \/ x \in P

\* The sibling that followed the channel gets the one before it.
LEMMA RemoveKeepsOrder ==
  ASSUME NEW c, Form(c, ChannelAttrs), NEW t, NEW D, NEW P, TreeOK(t, D, P), Root \notin P,
         NEW id, NEW u, NEW p, NEW o, Removed(t, u, id, p, o),
         OthersPlaced(c, t, P, id),
         NEW d, PutOne(c, PointingTo(c, id), o, d)
  PROVE  /\ Form(d, ChannelAttrs) /\ DOMAIN d = DOMAIN c
         /\ \A x \in P : x # id => PlacedIn(d, u, x)
         /\ \A x \in DOMAIN c : \A a \in ChannelAttrs : x = id \/ a # "order" => At(d, x, a) = At(c, x, a)
  <1>0. (\A x \in P : x # id => x \in DOMAIN c /\ PlacedIn(c, t, x)) /\ (\A x \in DOMAIN c : x = id \/ x \in P)
    BY DEF OthersPlaced
  <1> USE <1>0
  <1>1. PICK S : S = PointingTo(c, id)
    OBVIOUS
  <1>2. /\ S \subseteq DOMAIN c
        /\ \A x : x \in S <=> x \in DOMAIN c /\ x # id /\ At(c, x, "order") = id
    BY <1>1 DEF PointingTo, At
  <1>3. PutOne(c, S, o, d)
    BY <1>1
  <1>4. /\ Form(d, ChannelAttrs) /\ DOMAIN d = DOMAIN c
        /\ \A x \in DOMAIN c : \A a \in ChannelAttrs : x \notin S \/ a # "order" => At(d, x, a) = At(c, x, a)
        /\ S # {} => \E y \in S : /\ At(d, y, "order") = o
                                  /\ \A x \in DOMAIN c : x # y => At(d, x, "order") = At(c, x, "order")
        /\ S = {} => d = c
    BY <1>2, <1>3, PutOneFacts
  <1>5. "parent" \in ChannelAttrs /\ "order" \in ChannelAttrs
    BY DEF ChannelAttrs
  <1>6. Place(t, id, p, o)
    BY DEF Removed
  <1>7. \A x \in S : x \in P /\ Place(t, x, p, id)
    <2>1. ASSUME NEW x \in S PROVE x \in P /\ Place(t, x, p, id)
      <3>1. x \in P /\ PlacedIn(c, t, x)
        BY <1>2
      <3>2. PICK q, r : Place(t, x, q, r)
        BY <3>1, PlaceFacts
      <3>3. r = id
        BY <1>2, <3>1, <3>2 DEF PlacedIn
      <3>4. q = p
        BY <1>6, <3>2, <3>3, PlaceFacts
      <3> QED
        BY <3>1, <3>2, <3>3, <3>4
    <2> QED
      BY <2>1
  <1>8. ASSUME NEW x \in P, x # id PROVE PlacedIn(d, u, x)
    <2>1. SUFFICES ASSUME NEW q, NEW r, Place(u, x, q, r)
                   PROVE  At(d, x, "parent") = q /\ At(d, x, "order") = r
      BY DEF PlacedIn
    <2>2. x \in DOMAIN c /\ PlacedIn(c, t, x)
      BY <1>8
    <2>3. At(d, x, "parent") = At(c, x, "parent")
      BY <1>4, <1>5, <2>2
    <2>4. r # id /\ (Place(t, x, q, r) \/ (q = p /\ r = o /\ Place(t, x, p, id)))
      BY <2>1 DEF Removed
    <2>5. CASE q = p /\ r = o /\ Place(t, x, p, id)
      <3>1. x \in S /\ At(c, x, "parent") = q
        BY <1>2, <1>8, <2>2, <2>5 DEF PlacedIn
      <3>2. PICK y \in S : At(d, y, "order") = o
        BY <1>4, <3>1
      <3>3. y = x
        BY <1>7, <3>1, <3>2, PlaceFacts
      <3> QED
        BY <2>3, <2>5, <3>1, <3>2, <3>3
    <2>6. CASE Place(t, x, q, r)
      <3>1. At(c, x, "parent") = q /\ At(c, x, "order") = r
        BY <2>2, <2>6 DEF PlacedIn
      <3>2. x \notin S
        BY <1>2, <2>4, <3>1
      <3> QED
        BY <1>4, <1>5, <2>2, <3>1, <3>2
    <2> QED
      BY <2>4, <2>5, <2>6
  <1> QED
    BY <1>2, <1>4, <1>8

\* Nobody else is where a channel of the tree is.
LEMMA NoFollowers ==
  ASSUME NEW c, NEW u, NEW D, NEW Q, TreeOK(u, D, Q), Root \notin Q,
         NEW id, NEW p, NEW o, Place(u, id, p, o),
         \A x \in DOMAIN c : x # id => x \in Q /\ PlacedIn(c, u, x)
  PROVE  Followers(c, id, o, p) = {}
  <1>1. ASSUME NEW x \in Followers(c, id, o, p) PROVE FALSE
    <2>1. x \in DOMAIN c /\ x # id /\ At(c, x, "order") = o /\ At(c, x, "parent") = p
      BY DEF Followers, At
    <2>2. x \in Q /\ PlacedIn(c, u, x)
      BY <2>1
    <2>3. PICK q, r : Place(u, x, q, r)
      BY <2>2, PlaceFacts
    <2>4. q = p /\ r = o
      BY <2>1, <2>2, <2>3 DEF PlacedIn
    <2>5. x = id
      BY <2>3, <2>4, PlaceFacts
    <2> QED
      BY <2>1, <2>5
  <1> QED
    BY <1>1

\* A channel that has just come, or will go, has no children.
LEMMA TreeWith ==
  ASSUME NEW u, NEW D, NEW Q, TreeOK(u, D, Q), NEW c, c \notin D,
         NEW E, AddedTo(E, D, c),
         NEW v, v = With(u, c, <<>>)
  PROVE  TreeOK(v, E, Q) /\ \A x, p, o : Place(v, x, p, o) <=> Place(u, x, p, o)
  <1>0. \A x : x \in E <=> x \in D \/ x = c
    BY DEF AddedTo
  <1> USE <1>0
  <1>1. /\ DOMAIN u = D /\ DOMAIN v = E /\ v[c] = <<>> /\ Len(v[c]) = 0 /\ \A p \in D : v[p] = u[p]
    <2>1. DOMAIN u = D /\ DOMAIN v = D \cup {c} /\ v[c] = <<>> /\ \A p \in D : v[p] = u[p]
      BY DEF With, TreeOK
    <2>2. Len(v[c]) = 0
      BY <2>1, EmptySeq
    <2> QED
      BY <2>1, <2>2
  <1>2. \A p \in E : v[p] \in Seq(Q)
    <2>1. <<>> \in Seq(Q)
      OBVIOUS
    <2>2. \A p \in D : u[p] \in Seq(Q)
      BY DEF TreeOK
    <2> QED
      BY <1>1, <2>1, <2>2
  <1>3. \A p \in E : \A i \in 1 .. Len(v[p]) : p \in D /\ i \in 1 .. Len(u[p]) /\ v[p][i] = u[p][i]
    <2>1. ASSUME NEW p \in E, NEW i \in 1 .. Len(v[p])
          PROVE  p \in D /\ i \in 1 .. Len(u[p]) /\ v[p][i] = u[p][i]
      <3>1. p # c
        BY <1>1
      <3> QED
        BY <1>1, <3>1
    <2> QED
      BY <2>1
  <1>4. ASSUME NEW p \in E, NEW q \in E, NEW i \in 1 .. Len(v[p]), NEW j \in 1 .. Len(v[q]),
               v[p][i] = v[q][j]
        PROVE  p = q /\ i = j
    BY <1>3, <1>4, SpotOnce
  <1>5. ASSUME NEW x \in Q PROVE \E p \in E : \E i \in 1 .. Len(v[p]) : v[p][i] = x
    <2>1. PICK p \in D : \E i \in 1 .. Len(u[p]) : u[p][i] = x
      BY DEF TreeOK
    <2> QED
      BY <1>1, <2>1
  <1>6. TreeOK(v, E, Q)
    BY <1>1, <1>2, <1>4, <1>5 DEF TreeOK
  <1>7. ASSUME NEW x, NEW p, NEW o PROVE Place(v, x, p, o) <=> Place(u, x, p, o)
    BY <1>1, <1>3 DEF Place
  <1> QED
    BY <1>6, <1>7

LEMMA TreeWithout ==
  ASSUME NEW u, NEW D, NEW Q, TreeOK(u, D, Q), NEW c, c \in D, u[c] = <<>>,
         NEW E, TakenFrom(E, D, c),
         NEW v, v = Without(u, c)
  PROVE  TreeOK(v, E, Q) /\ \A x, p, o : Place(v, x, p, o) <=> Place(u, x, p, o)
  <1>0. \A x : x \in E <=> x \in D /\ x # c
    BY DEF TakenFrom
  <1> USE <1>0
  <1>1. DOMAIN u = D /\ DOMAIN v = E /\ \A p \in E : v[p] = u[p]
    BY DEF Without, TreeOK
  <1>2. Len(u[c]) = 0
    BY EmptySeq
  <1>3. \A p \in E : v[p] \in Seq(Q)
    BY <1>1 DEF TreeOK
  <1>4. \A p \in D : \A i \in 1 .. Len(u[p]) : p \in E /\ v[p] = u[p]
    <2>1. ASSUME NEW p \in D, NEW i \in 1 .. Len(u[p]) PROVE p \in E
      <3>1. p # c
        BY <1>2
      <3> QED
        BY <3>1
    <2> QED
      BY <1>1, <2>1
  <1>5. ASSUME NEW p \in E, NEW q \in E, NEW i \in 1 .. Len(v[p]), NEW j \in 1 .. Len(v[q]),
               v[p][i] = v[q][j]
        PROVE  p = q /\ i = j
    <2>1. p \in D /\ q \in D /\ v[p] = u[p] /\ v[q] = u[q]
      BY <1>1
    <2> QED
      BY <1>5, <2>1, SpotOnce
  <1>6. ASSUME NEW x \in Q PROVE \E p \in E : \E i \in 1 .. Len(v[p]) : v[p][i] = x
    <2>1. PICK p \in D : \E i \in 1 .. Len(u[p]) : u[p][i] = x
      BY DEF TreeOK
    <2> QED
      BY <1>4, <2>1
  <1>7. TreeOK(v, E, Q)
    BY <1>1, <1>3, <1>5, <1>6 DEF TreeOK
  <1>8. ASSUME NEW x, NEW p, NEW o PROVE Place(v, x, p, o) <=> Place(u, x, p, o)
    BY <1>1, <1>4 DEF Place
  <1> QED
    BY <1>7, <1>8

\* The places where channels can be.
Spots(at) == DOMAIN at \cup {Root}
ServerTree(t, at) == TreeOK(t, Spots(at), DOMAIN at) /\ Root \notin DOMAIN at

LEMMA WhereIs ==
  ASSUME ServerTree(tree, attrs), NEW c \in Present
  PROVE  \E p \in Spots(attrs) : \E i \in 1 .. Len(tree[p]) :
           /\ tree[p][i] = c /\ ParentOf(c) = p
           /\ OrderOf(c) = PredecessorIn(tree[p], i) /\ Place(tree, c, p, OrderOf(c))
           /\ TakenOut(c) = [tree EXCEPT ![p] = RemoveAt(tree[p], i)]
  <1>1. TreeOK(tree, Spots(attrs), Present)
    BY DEF ServerTree, Present
  <1>2. PICK p : p = ParentOf(c)
    OBVIOUS
  <1>3. PICK i : i = IndexOf(c)
    OBVIOUS
  <1>4. \A q \in Spots(attrs) : DOMAIN tree[q] = 1 .. Len(tree[q])
    BY <1>1 DEF TreeOK
  <1>5. \E q \in Spots(attrs) : \E j \in DOMAIN tree[q] : tree[q][j] = c
    <2>1. PICK q \in Spots(attrs) : \E j \in 1 .. Len(tree[q]) : tree[q][j] = c
      BY <1>1 DEF TreeOK
    <2> QED
      BY <1>4, <2>1
  <1>6. p \in Spots(attrs) /\ \E j \in DOMAIN tree[p] : tree[p][j] = c
    <2>1. p = CHOOSE q \in Spots(attrs) : \E j \in DOMAIN tree[q] : tree[q][j] = c
      BY <1>2 DEF ParentOf, Spots, Present
    <2> QED
      BY <1>5, <2>1
  <1>7. i \in DOMAIN tree[p] /\ tree[p][i] = c
    <2>1. i = CHOOSE j \in DOMAIN tree[p] : tree[p][j] = c
      BY <1>2, <1>3 DEF IndexOf
    <2> QED
      BY <1>6, <2>1
  <1>8. OrderOf(c) = PredecessorIn(tree[p], i)
    BY <1>2, <1>3 DEF OrderOf
  <1>9. i \in 1 .. Len(tree[p]) /\ DOMAIN tree = Spots(attrs)
    BY <1>1, <1>4, <1>6, <1>7 DEF TreeOK
  <1>10. Place(tree, c, p, OrderOf(c))
    BY <1>6, <1>7, <1>8, <1>9 DEF Place
  <1>11. TakenOut(c) = [tree EXCEPT ![p] = RemoveAt(tree[p], i)]
    BY <1>2, <1>3 DEF TakenOut
  <1> QED
    BY <1>2, <1>6, <1>7, <1>8, <1>9, <1>10, <1>11

LEMMA CreateTree ==
  ASSUME NEW t, NEW at, ServerTree(t, at), NEW c, c \notin DOMAIN at, c # Root,
         NEW p \in Spots(at), NEW i \in 1 .. Len(t[p]) + 1,
         NEW v, v = With([t EXCEPT ![p] = InsertAt(t[p], i, c)], c, <<>>),
         NEW value, NEW bt, bt = With(at, c, value)
  PROVE  ServerTree(v, bt) /\ Inserted(t, v, c, p, PredecessorIn(t[p], i))
  <1>1. PICK D, P, E, Q : D = Spots(at) /\ P = DOMAIN at /\ E = Spots(bt) /\ Q = DOMAIN bt
    OBVIOUS
  <1>2. TreeOK(t, D, P) /\ Root \notin P /\ c \notin P /\ c \notin D /\ p \in D
    BY <1>1 DEF ServerTree, Spots
  <1>3. AddedTo(Q, P, c) /\ AddedTo(E, D, c)
    BY <1>1 DEF With, Spots, AddedTo
  <1>4. PICK u : u = [t EXCEPT ![p] = InsertAt(t[p], i, c)]
    OBVIOUS
  <1>5. PICK o : o = PredecessorIn(t[p], i)
    OBVIOUS
  <1>6. TreeOK(u, D, Q) /\ Inserted(t, u, c, p, o)
    BY <1>2, <1>3, <1>4, <1>5, TreeInsert
  <1>7. TreeOK(v, E, Q) /\ \A x, q, r : Place(v, x, q, r) <=> Place(u, x, q, r)
    <2>1. v = With(u, c, <<>>)
      BY <1>4
    <2> QED
      BY <1>2, <1>3, <1>6, <2>1, TreeWith
  <1>8. Inserted(t, v, c, p, o)
    BY <1>6, <1>7 DEF Inserted
  <1>9. Root \notin Q
    BY <1>2, <1>3 DEF AddedTo
  <1> QED
    BY <1>1, <1>5, <1>7, <1>8, <1>9 DEF ServerTree

LEMMA DeleteTree ==
  ASSUME ServerTree(tree, attrs), NEW c \in Present, tree[c] = <<>>,
         NEW v, v = Without(TakenOut(c), c), NEW bt, bt = Without(attrs, c)
  PROVE  ServerTree(v, bt) /\ \E p : Removed(tree, v, c, p, OrderOf(c)) /\ p = ParentOf(c)
  <1>1. PICK D, P, E, Q : D = Spots(attrs) /\ P = Present /\ E = Spots(bt) /\ Q = DOMAIN bt
    OBVIOUS
  <1>2. TreeOK(tree, D, P) /\ Root \notin P /\ c \in P /\ c \in D /\ c # Root
    BY <1>1 DEF ServerTree, Spots, Present
  <1>3. TakenFrom(Q, P, c) /\ TakenFrom(E, D, c)
    BY <1>1, <1>2 DEF Without, Spots, Present, TakenFrom
  <1>4. PICK u : u = TakenOut(c)
    OBVIOUS
  <1>5. PICK p \in D : \E i \in 1 .. Len(tree[p]) :
           /\ tree[p][i] = c /\ ParentOf(c) = p
           /\ OrderOf(c) = PredecessorIn(tree[p], i) /\ Place(tree, c, p, OrderOf(c))
           /\ TakenOut(c) = [tree EXCEPT ![p] = RemoveAt(tree[p], i)]
    BY <1>1, WhereIs
  <1>6. PICK i \in 1 .. Len(tree[p]) :
           /\ tree[p][i] = c /\ ParentOf(c) = p
           /\ OrderOf(c) = PredecessorIn(tree[p], i) /\ Place(tree, c, p, OrderOf(c))
           /\ TakenOut(c) = [tree EXCEPT ![p] = RemoveAt(tree[p], i)]
    BY <1>5
  <1>7. PICK o : o = OrderOf(c)
    OBVIOUS
  <1>8. u = [tree EXCEPT ![p] = RemoveAt(tree[p], i)] /\ tree[p][i] = c /\ o = PredecessorIn(tree[p], i)
    BY <1>4, <1>6, <1>7
  <1>9. TreeOK(u, D, Q) /\ Removed(tree, u, c, p, o)
    <2>1. u = [tree EXCEPT ![p] = RemoveAt(tree[p], i)] /\ tree[p][i] = c
      BY <1>8
    <2>2. TreeOK(u, D, Q) /\ Removed(tree, u, c, p, PredecessorIn(tree[p], i))
      BY <1>2, <1>3, <2>1, TreeRemove
    <2> QED
      BY <1>8, <2>2
  <1>10. p # c
    <2>1. Len(tree[c]) = 0
      BY EmptySeq
    <2> QED
      BY <1>6, <2>1
  <1>11. u[c] = <<>>
    BY <1>2, <1>8, <1>10 DEF TreeOK
  <1>12. TreeOK(v, E, Q) /\ \A x, q, r : Place(v, x, q, r) <=> Place(u, x, q, r)
    BY <1>2, <1>3, <1>4, <1>9, <1>11, TreeWithout
  <1>13. Removed(tree, v, c, p, o)
    BY <1>9, <1>12 DEF Removed
  <1>14. ServerTree(v, bt)
    <2>1. Root \notin Q
      BY <1>2, <1>3 DEF TakenFrom
    <2> QED
      BY <1>1, <1>12, <2>1 DEF ServerTree
  <1> QED
    BY <1>6, <1>7, <1>13, <1>14

LEMMA MoveTree ==
  ASSUME ServerTree(tree, attrs), NEW c \in Present, NEW left, left = TakenOut(c),
         NEW p \in Spots(attrs), NEW i \in 1 .. Len(left[p]) + 1,
         NEW v, v = [left EXCEPT ![p] = InsertAt(left[p], i, c)]
  PROVE  /\ ServerTree(v, attrs)
         /\ Removed(tree, left, c, ParentOf(c), OrderOf(c))
         /\ Inserted(left, v, c, p, PredecessorIn(left[p], i))
         /\ TreeOK(left, Spots(attrs), Present \ {c})
  <1>1. PICK D, P, Q : D = Spots(attrs) /\ P = Present /\ Q = Present \ {c}
    OBVIOUS
  <1>2. TreeOK(tree, D, P) /\ Root \notin P /\ c \in P /\ c # Root /\ p \in D
    BY <1>1 DEF ServerTree, Spots, Present
  <1>3. TakenFrom(Q, P, c) /\ AddedTo(P, Q, c) /\ c \notin Q /\ Root \notin Q
    BY <1>1, <1>2 DEF TakenFrom, AddedTo
  <1>5. PICK q \in D : \E j \in 1 .. Len(tree[q]) :
           /\ tree[q][j] = c /\ ParentOf(c) = q
           /\ OrderOf(c) = PredecessorIn(tree[q], j) /\ Place(tree, c, q, OrderOf(c))
           /\ TakenOut(c) = [tree EXCEPT ![q] = RemoveAt(tree[q], j)]
    BY <1>1, WhereIs
  <1>6. PICK j \in 1 .. Len(tree[q]) :
           /\ tree[q][j] = c /\ ParentOf(c) = q
           /\ OrderOf(c) = PredecessorIn(tree[q], j) /\ Place(tree, c, q, OrderOf(c))
           /\ TakenOut(c) = [tree EXCEPT ![q] = RemoveAt(tree[q], j)]
    BY <1>5
  <1>7. PICK o : o = OrderOf(c)
    OBVIOUS
  <1>8. left = [tree EXCEPT ![q] = RemoveAt(tree[q], j)] /\ tree[q][j] = c /\ o = PredecessorIn(tree[q], j)
    BY <1>6, <1>7
  <1>9. TreeOK(left, D, Q) /\ Removed(tree, left, c, q, o)
    <2>1. left = [tree EXCEPT ![q] = RemoveAt(tree[q], j)] /\ tree[q][j] = c
      BY <1>8
    <2>2. TreeOK(left, D, Q) /\ Removed(tree, left, c, q, PredecessorIn(tree[q], j))
      BY <1>2, <1>3, <2>1, TreeRemove
    <2> QED
      BY <1>8, <2>2
  <1>10. TreeOK(v, D, P) /\ Inserted(left, v, c, p, PredecessorIn(left[p], i))
    BY <1>2, <1>3, <1>9, TreeInsert
  <1> QED
    BY <1>1, <1>2, <1>6, <1>7, <1>9, <1>10 DEF ServerTree, Present

-----------------------------------------------------------------------------
(* What the server sends about the attributes of a channel.                *)

FieldNames == {"unlimited", "num", "family_unlimited", "inherits", "family_num", "permanent", "semi"}

\* What a message about a channel says.
Says(m, type, id, parent, order, F) ==
  /\ m.type = type /\ m.id = id /\ m.parent = parent /\ m.order = order
  /\ m.unlimited = F.unlimited /\ m.num = F.num
  /\ m.family_unlimited = F.family_unlimited /\ m.inherits = F.inherits
  /\ m.family_num = F.family_num
  /\ m.permanent = F.permanent /\ m.semi = F.semi

LEMMA ChannelMessageSays ==
  ASSUME NEW type, NEW id, NEW parent, NEW order, NEW F, NEW m,
         m = ChannelMessage(type, id, parent, order, F)
  PROVE  Says(m, type, id, parent, order, F)
  BY DEF ChannelMessage, Says

LEMMA InvokedSays ==
  ASSUME NEW type, NEW id, NEW parent, NEW order, NEW F, NEW m, NEW invoker,
         m = [ChannelMessage(type, id, parent, order, F) EXCEPT !.invoker = invoker]
  PROVE  Says(m, type, id, parent, order, F)
  BY DEF ChannelMessage, Says

LEMMA NumberFacts ==
  /\ Number(Unlimited) = -1 /\ Number(Inherited) = -1 /\ Number(Limited(5)) = 5
  /\ Unlimited # Inherited /\ Unlimited # Limited(5) /\ Inherited # Limited(5)
  <1>1. Len(<<"Unlimited">>) = 1 /\ Len(<<"Inherited">>) = 1 /\ Len(<<"Limited", 5>>) = 2
    OBVIOUS
  <1>2. PICK l : l = <<"Limited", 5>>
    OBVIOUS
  <1>3. l[2] = 5 /\ Len(l) = 2
    BY <1>2
  <1>4. Number(l) = 5
    BY <1>3 DEF Number
  <1>5. Number(Unlimited) = -1 /\ Number(Inherited) = -1
    BY <1>1 DEF Number, Unlimited, Inherited
  <1>6. Unlimited # Limited(5) /\ Inherited # Limited(5)
    BY <1>1 DEF Unlimited, Inherited, Limited
  <1>7. <<"Unlimited">>[1] = "Unlimited" /\ <<"Inherited">>[1] = "Inherited"
    OBVIOUS
  <1>8. Unlimited # Inherited
    BY <1>7 DEF Unlimited, Inherited
  <1> QED
    BY <1>2, <1>4, <1>5, <1>6, <1>8 DEF Limited

\* The attributes of channels that the server has.
LEMMA FieldsFacts ==
  ASSUME NEW a \in Attributes, NEW F, F = Fields(a)
  PROVE  /\ DOMAIN F = FieldNames
         /\ \/ a.max = Unlimited /\ F.unlimited = TRUE /\ F.num = -1
            \/ a.max = Limited(5) /\ F.unlimited = FALSE /\ F.num = 5
         /\ \/ a.family = Unlimited /\ F.family_unlimited = TRUE /\ F.inherits = FALSE /\ F.family_num = -1
            \/ a.family = Inherited /\ F.family_unlimited = FALSE /\ F.inherits = TRUE /\ F.family_num = -1
            \/ a.family = Limited(5) /\ F.family_unlimited = FALSE /\ F.inherits = FALSE /\ F.family_num = 5
         /\ \/ a.type = "Permanent" /\ F.permanent = TRUE /\ F.semi = FALSE
            \/ a.type = "SemiPermanent" /\ F.permanent = FALSE /\ F.semi = TRUE
            \/ a.type = "Temporary" /\ F.permanent = FALSE /\ F.semi = FALSE
  <1>1. /\ DOMAIN F = FieldNames
        /\ F.unlimited = (a.max = Unlimited) /\ F.num = Number(a.max)
        /\ F.family_unlimited = (a.family = Unlimited) /\ F.inherits = (a.family = Inherited)
        /\ F.family_num = Number(a.family)
        /\ F.permanent = (a.type = "Permanent") /\ F.semi = (a.type = "SemiPermanent")
    BY DEF Fields, FieldNames
  <1>2. /\ a.max \in {Unlimited, Limited(5)} /\ a.family \in {Unlimited, Inherited, Limited(5)}
        /\ a.type \in {"Permanent", "SemiPermanent", "Temporary"}
    BY DEF Attributes
  <1>3. \/ a.max = Unlimited /\ F.unlimited = TRUE /\ F.num = -1
        \/ a.max = Limited(5) /\ F.unlimited = FALSE /\ F.num = 5
    BY <1>1, <1>2, NumberFacts
  <1>4. \/ a.family = Unlimited /\ F.family_unlimited = TRUE /\ F.inherits = FALSE /\ F.family_num = -1
        \/ a.family = Inherited /\ F.family_unlimited = FALSE /\ F.inherits = TRUE /\ F.family_num = -1
        \/ a.family = Limited(5) /\ F.family_unlimited = FALSE /\ F.inherits = FALSE /\ F.family_num = 5
    <2>1. CASE a.family = Unlimited
      BY <1>1, <2>1, NumberFacts
    <2>2. CASE a.family = Inherited
      BY <1>1, <2>2, NumberFacts
    <2>3. CASE a.family = Limited(5)
      BY <1>1, <2>3, NumberFacts
    <2> QED
      BY <1>2, <2>1, <2>2, <2>3
  <1>5. \/ a.type = "Permanent" /\ F.permanent = TRUE /\ F.semi = FALSE
        \/ a.type = "SemiPermanent" /\ F.permanent = FALSE /\ F.semi = TRUE
        \/ a.type = "Temporary" /\ F.permanent = FALSE /\ F.semi = FALSE
    BY <1>1, <1>2
  <1> QED
    BY <1>1, <1>3, <1>4, <1>5

LEMMA NothingElse ==
  /\ Nothing # TRUE /\ Nothing # FALSE /\ Nothing # 5 /\ Nothing # -1
  /\ Nothing # Unlimited /\ Nothing # Inherited /\ Nothing # Limited(5) /\ Nothing # Root
  <1>1. PICK five, none : five = 5 /\ none = -1
    OBVIOUS
  <1>2. five \in Int /\ none \in Int
    BY <1>1
  <1>3. Nothing \notin Int /\ Nothing \notin BOOLEAN /\ Nothing # Root
    BY BookAssumption, Zenon
  <1>4. Nothing # five /\ Nothing # none
    BY <1>2, <1>3, Zenon
  <1>5. Nothing # 5 /\ Nothing # -1
    BY <1>1, <1>4, Zenon
  <1>6. PICK yes \in BOOLEAN, no \in BOOLEAN : yes = TRUE /\ no = FALSE
    OBVIOUS
  <1>7. Nothing # yes /\ Nothing # no
    BY <1>3, <1>6, Zenon
  <1>8. Nothing # TRUE /\ Nothing # FALSE
    BY <1>6, <1>7, Zenon
  <1>9. Nothing \notin {Unlimited, Inherited, Limited(5)}
    BY BookAssumption, Zenon DEF Unlimited, Inherited, Limited
  <1>10. Nothing # Unlimited /\ Nothing # Inherited /\ Nothing # Limited(5)
    BY <1>9, Zenon
  <1> QED
    BY <1>3, <1>5, <1>8, <1>10, Zenon

\* What the client makes of them.
LEMMA RangeFacts ==
  ASSUME NEW n
  PROVE  (n = 5 => InRange(n)) /\ (n = Nothing \/ n = -1 => ~InRange(n))
  <1>1. ASSUME n = 5 PROVE InRange(n)
    <2>1. n # Nothing
      BY <1>1, NothingElse, Zenon
    <2>2. n >= 0 /\ n < 65536
      BY <1>1
    <2> QED
      BY <2>1, <2>2 DEF InRange
  <1>2. ASSUME n = -1 PROVE ~InRange(n)
    BY <1>2 DEF InRange
  <1>3. ASSUME n = Nothing PROVE ~InRange(n)
    BY <1>3 DEF InRange
  <1> QED
    BY <1>1, <1>2, <1>3

LEMMA LimitFacts ==
  ASSUME NEW u, NEW n
  PROVE  /\ u = TRUE => MaxClients(u, n) = Unlimited
         /\ u # TRUE /\ n = 5 => MaxClients(u, n) = Limited(5)
         /\ u # TRUE /\ (n = Nothing \/ n = -1) => MaxClients(u, n) = Nothing
  <1>1. ASSUME u = TRUE PROVE MaxClients(u, n) = Unlimited
    BY <1>1 DEF MaxClients
  <1>2. ASSUME u # TRUE, n = 5 PROVE MaxClients(u, n) = Limited(5)
    <2>1. MaxClients(u, n) = Limited(n)
      BY <1>2, RangeFacts DEF MaxClients
    <2> QED
      BY <1>2, <2>1, Zenon
  <1>3. ASSUME u # TRUE, n = Nothing \/ n = -1 PROVE MaxClients(u, n) = Nothing
    <2>1. ~InRange(n)
      BY <1>3, RangeFacts
    <2> QED
      BY <1>3, <2>1 DEF MaxClients
  <1> QED
    BY <1>1, <1>2, <1>3, Zenon

LEMMA FamilyLimitFacts ==
  ASSUME NEW u, NEW h, NEW n
  PROVE  /\ u = TRUE => MaxFamilyClients(u, h, n) = Unlimited
         /\ u # TRUE /\ h = TRUE => MaxFamilyClients(u, h, n) = Inherited
         /\ u # TRUE /\ h # TRUE /\ n = 5 => MaxFamilyClients(u, h, n) = Limited(5)
         /\ u # TRUE /\ h # TRUE /\ (n = Nothing \/ n = -1) => MaxFamilyClients(u, h, n) = Nothing
  <1>1. ASSUME u = TRUE PROVE MaxFamilyClients(u, h, n) = Unlimited
    BY <1>1, Zenon DEF MaxFamilyClients
  <1>2. ASSUME u # TRUE, h = TRUE PROVE MaxFamilyClients(u, h, n) = Inherited
    <2>1. TRUE \in {u, h}
      BY <1>2
    <2> QED
      BY <1>2, <2>1, Zenon DEF MaxFamilyClients
  <1>3. ASSUME u # TRUE, h # TRUE, n = 5 PROVE MaxFamilyClients(u, h, n) = Limited(5)
    <2>1. TRUE \notin {u, h} /\ InRange(n)
      BY <1>3, RangeFacts
    <2>2. MaxFamilyClients(u, h, n) = Limited(n)
      BY <1>3, <2>1, Zenon DEF MaxFamilyClients
    <2> QED
      BY <1>3, <2>2, Zenon
  <1>4. ASSUME u # TRUE, h # TRUE, n = Nothing \/ n = -1
        PROVE  MaxFamilyClients(u, h, n) = Nothing
    <2>1. ~InRange(n)
      BY <1>4, RangeFacts
    <2> QED
      BY <1>4, <2>1, Zenon DEF MaxFamilyClients
  <1> QED
    BY <1>1, <1>2, <1>3, <1>4, Zenon

\* A new channel gets the attributes that it has at the server.
LEMMA NewAttributes ==
  ASSUME NEW m, NEW type, NEW id, NEW parent, NEW order, NEW a \in Attributes, NEW F, F = Fields(a),
         Says(m, type, id, parent, order, F)
  PROVE  /\ MaxClients(m.unlimited, m.num) = a.max
         /\ MaxFamilyClients(m.family_unlimited, m.inherits, m.family_num) = a.family
         /\ MaxFamilyClientsOfList(m.family_unlimited, m.inherits, m.family_num) = a.family
         /\ ChannelFlagsToType(m.permanent, m.semi) = a.type
  <1>1. MaxClients(m.unlimited, m.num) = a.max
    <2>1. PICK u, n : u = m.unlimited /\ n = m.num
      OBVIOUS
    <2>2. \/ a.max = Unlimited /\ u = TRUE
          \/ a.max = Limited(5) /\ u = FALSE /\ n = 5
      BY <2>1, FieldsFacts DEF Says
    <2>3. MaxClients(u, n) = a.max
      BY <2>2, LimitFacts
    <2> QED
      BY <2>1, <2>3
  <1>2. MaxFamilyClients(m.family_unlimited, m.inherits, m.family_num) = a.family
    <2>1. PICK u, h, n : u = m.family_unlimited /\ h = m.inherits /\ n = m.family_num
      OBVIOUS
    <2>2. \/ a.family = Unlimited /\ u = TRUE
          \/ a.family = Inherited /\ u = FALSE /\ h = TRUE
          \/ a.family = Limited(5) /\ u = FALSE /\ h = FALSE /\ n = 5
      BY <2>1, FieldsFacts DEF Says
    <2>3. MaxFamilyClients(u, h, n) = a.family
      BY <2>2, FamilyLimitFacts
    <2> QED
      BY <2>1, <2>3
  <1>3. a.family # Nothing
    BY NothingElse DEF Attributes
  <1>4. MaxFamilyClientsOfList(m.family_unlimited, m.inherits, m.family_num) = a.family
    BY <1>2, <1>3 DEF MaxFamilyClientsOfList
  <1>5. ChannelFlagsToType(m.permanent, m.semi) = a.type
    BY FieldsFacts DEF Says, ChannelFlagsToType
  <1> QED
    BY <1>1, <1>2, <1>4, <1>5

\* The fields that differ.
NewFields(F, G) == [f \in DOMAIN F |-> IF F[f] = G[f] THEN Nothing ELSE F[f]]

LEMMA ChangedAttributes ==
  ASSUME NEW m, NEW type, NEW id, NEW parent, NEW order, NEW a \in Attributes, NEW b \in Attributes,
         Says(m, type, id, parent, order, NewFields(Fields(a), Fields(b)))
  PROVE  /\ Kept(MaxClients(m.unlimited, m.num), b.max) = a.max
         /\ Kept(MaxFamilyClients(m.family_unlimited, m.inherits, m.family_num), b.family) = a.family
         /\ (IF m.permanent = Nothing /\ m.semi = Nothing THEN b.type
             ELSE ChannelFlagsToType(m.permanent, m.semi)) = a.type
  <1>1. PICK F, G, H : F = Fields(a) /\ G = Fields(b) /\ H = NewFields(F, G)
    OBVIOUS
  <1>2. Says(m, type, id, parent, order, H)
    BY <1>1
  <1>3. \A f \in FieldNames : H[f] = IF F[f] = G[f] THEN Nothing ELSE F[f]
    BY <1>1, FieldsFacts DEF NewFields
  <1>4. /\ \/ a.max = Unlimited /\ F.unlimited = TRUE /\ F.num = -1
           \/ a.max = Limited(5) /\ F.unlimited = FALSE /\ F.num = 5
        /\ \/ a.family = Unlimited /\ F.family_unlimited = TRUE /\ F.inherits = FALSE /\ F.family_num = -1
           \/ a.family = Inherited /\ F.family_unlimited = FALSE /\ F.inherits = TRUE /\ F.family_num = -1
           \/ a.family = Limited(5) /\ F.family_unlimited = FALSE /\ F.inherits = FALSE /\ F.family_num = 5
        /\ \/ a.type = "Permanent" /\ F.permanent = TRUE /\ F.semi = FALSE
           \/ a.type = "SemiPermanent" /\ F.permanent = FALSE /\ F.semi = TRUE
           \/ a.type = "Temporary" /\ F.permanent = FALSE /\ F.semi = FALSE
    BY <1>1, FieldsFacts
  <1>5. /\ \/ b.max = Unlimited /\ G.unlimited = TRUE /\ G.num = -1
           \/ b.max = Limited(5) /\ G.unlimited = FALSE /\ G.num = 5
        /\ \/ b.family = Unlimited /\ G.family_unlimited = TRUE /\ G.inherits = FALSE /\ G.family_num = -1
           \/ b.family = Inherited /\ G.family_unlimited = FALSE /\ G.inherits = TRUE /\ G.family_num = -1
           \/ b.family = Limited(5) /\ G.family_unlimited = FALSE /\ G.inherits = FALSE /\ G.family_num = 5
        /\ \/ b.type = "Permanent" /\ G.permanent = TRUE /\ G.semi = FALSE
           \/ b.type = "SemiPermanent" /\ G.permanent = FALSE /\ G.semi = TRUE
           \/ b.type = "Temporary" /\ G.permanent = FALSE /\ G.semi = FALSE
    BY <1>1, FieldsFacts
  <1>6. /\ m.unlimited = IF F.unlimited = G.unlimited THEN Nothing ELSE F.unlimited
        /\ m.num = IF F.num = G.num THEN Nothing ELSE F.num
        /\ m.family_unlimited = IF F.family_unlimited = G.family_unlimited THEN Nothing ELSE F.family_unlimited
        /\ m.inherits = IF F.inherits = G.inherits THEN Nothing ELSE F.inherits
        /\ m.family_num = IF F.family_num = G.family_num THEN Nothing ELSE F.family_num
        /\ m.permanent = IF F.permanent = G.permanent THEN Nothing ELSE F.permanent
        /\ m.semi = IF F.semi = G.semi THEN Nothing ELSE F.semi
    BY <1>2, <1>3 DEF Says, FieldNames
  <1>7. Kept(MaxClients(m.unlimited, m.num), b.max) = a.max
    <2>1. PICK u, n : u = m.unlimited /\ n = m.num
      OBVIOUS
    <2>11. PICK yes, no, five, none : yes = TRUE /\ no = FALSE /\ five = 5 /\ none = -1
      OBVIOUS
    <2>12. \/ a.max = Unlimited /\ F.unlimited = yes /\ F.num = none
           \/ a.max = Limited(5) /\ F.unlimited = no /\ F.num = five
      BY <1>4, <2>11, Zenon
    <2>13. \/ b.max = Unlimited /\ G.unlimited = yes /\ G.num = none
           \/ b.max = Limited(5) /\ G.unlimited = no /\ G.num = five
      BY <1>5, <2>11, Zenon
    <2>14. yes # no /\ five # none
      <3>1. yes # no
        BY <2>11, Zenon
      <3>2. five \in Nat /\ ~(none \in Nat)
        BY <2>11
      <3> QED
        BY <3>1, <3>2, Zenon
    <2>15. \/ a.max = b.max /\ u = Nothing /\ n = Nothing
           \/ a.max = Unlimited /\ u = yes
           \/ a.max = Limited(5) /\ u = no /\ n = five
      BY <1>6, <2>1, <2>12, <2>13, <2>14
    <2>2. \/ a.max = b.max /\ u = Nothing /\ n = Nothing
          \/ a.max = Unlimited /\ u = TRUE
          \/ a.max = Limited(5) /\ u = FALSE /\ n = 5
      BY <2>11, <2>15, Zenon
    <2>3. \/ a.max = b.max /\ MaxClients(u, n) = Nothing
          \/ a.max = Unlimited /\ MaxClients(u, n) = Unlimited
          \/ a.max = Limited(5) /\ MaxClients(u, n) = Limited(5)
      BY <2>2, LimitFacts, NothingElse
    <2>4. Kept(MaxClients(u, n), b.max) = a.max
      BY <2>3, NothingElse DEF Kept
    <2> QED
      BY <2>1, <2>4
  <1>8. Kept(MaxFamilyClients(m.family_unlimited, m.inherits, m.family_num), b.family) = a.family
    <2>1. PICK u, h, n : u = m.family_unlimited /\ h = m.inherits /\ n = m.family_num
      OBVIOUS
    <2>11. PICK yes, no, five, none : yes = TRUE /\ no = FALSE /\ five = 5 /\ none = -1
      OBVIOUS
    <2>12. \/ a.family = Unlimited /\ F.family_unlimited = yes /\ F.inherits = no /\ F.family_num = none
           \/ a.family = Inherited /\ F.family_unlimited = no /\ F.inherits = yes /\ F.family_num = none
           \/ a.family = Limited(5) /\ F.family_unlimited = no /\ F.inherits = no /\ F.family_num = five
      BY <1>4, <2>11, Zenon
    <2>13. \/ b.family = Unlimited /\ G.family_unlimited = yes /\ G.inherits = no /\ G.family_num = none
           \/ b.family = Inherited /\ G.family_unlimited = no /\ G.inherits = yes /\ G.family_num = none
           \/ b.family = Limited(5) /\ G.family_unlimited = no /\ G.inherits = no /\ G.family_num = five
      BY <1>5, <2>11, Zenon
    <2>14. yes # no /\ five # none
      <3>1. yes # no
        BY <2>11, Zenon
      <3>2. five \in Nat /\ ~(none \in Nat)
        BY <2>11
      <3> QED
        BY <3>1, <3>2, Zenon
    <2>15. Nothing # yes
      BY <2>11, NothingElse, Zenon
    <2>16. \/ a.family = b.family /\ u = Nothing /\ h = Nothing /\ n = Nothing
           \/ a.family = Unlimited /\ u = yes
           \/ a.family = Inherited /\ u # yes /\ h = yes
           \/ a.family = Limited(5) /\ u # yes /\ h # yes /\ n = five
      BY <1>6, <2>1, <2>12, <2>13, <2>14, <2>15
    <2>2. \/ a.family = b.family /\ u # TRUE /\ h # TRUE /\ n = Nothing
          \/ a.family = Unlimited /\ u = TRUE
          \/ a.family = Inherited /\ u # TRUE /\ h = TRUE
          \/ a.family = Limited(5) /\ u # TRUE /\ h # TRUE /\ n = 5
      BY <2>11, <2>15, <2>16, Zenon
    <2>3. \/ a.family = b.family /\ MaxFamilyClients(u, h, n) = Nothing
          \/ a.family = Unlimited /\ MaxFamilyClients(u, h, n) = Unlimited
          \/ a.family = Inherited /\ MaxFamilyClients(u, h, n) = Inherited
          \/ a.family = Limited(5) /\ MaxFamilyClients(u, h, n) = Limited(5)
      BY <2>2, FamilyLimitFacts
    <2>4. Kept(MaxFamilyClients(u, h, n), b.family) = a.family
      BY <2>3, NothingElse DEF Kept
    <2> QED
      BY <2>1, <2>4
  <1>9. (IF m.permanent = Nothing /\ m.semi = Nothing THEN b.type
             ELSE ChannelFlagsToType(m.permanent, m.semi)) = a.type
    BY <1>4, <1>5, <1>6, NothingElse DEF ChannelFlagsToType
  <1> QED
    BY <1>7, <1>8, <1>9

\* A message without fields does not change attributes.
LEMMA NoFields ==
  ASSUME NEW m, NEW type, NEW id, NEW parent, NEW order,
         Says(m, type, id, parent, order, [f \in FieldNames |-> Nothing])
  PROVE  Silent(m)
  <1>1. /\ m.unlimited = Nothing /\ m.num = Nothing /\ m.family_unlimited = Nothing
        /\ m.inherits = Nothing /\ m.family_num = Nothing /\ m.permanent = Nothing /\ m.semi = Nothing
    BY DEF Says, FieldNames
  <1> QED
    <2>1. \A u, h, n : u = Nothing /\ h = Nothing /\ n = Nothing =>
            MaxClients(u, n) = Nothing /\ MaxFamilyClients(u, h, n) = Nothing
      <3>1. \A u : u = Nothing => u # TRUE
        BY NothingElse, Zenon
      <3> QED
        BY <3>1, LimitFacts, FamilyLimitFacts
    <2> QED
      BY <1>1, <2>1, Zenon DEF Silent

-----------------------------------------------------------------------------
(* The channels in the book are the ones of the server.                    *)

\* The book has the attributes of x.
SameAttrs(c, at, x) ==
  At(c, x, "max") = at[x].max /\ At(c, x, "family") = at[x].family /\ At(c, x, "type") = at[x].type

BookOK(c, t, at, subs) ==
  /\ Form(c, ChannelAttrs) /\ DOMAIN c = DOMAIN at
  /\ \A x \in DOMAIN at : /\ PlacedIn(c, t, x) /\ SameAttrs(c, at, x)
                          /\ At(c, x, "subscribed") = (x \in subs)

LEMMA AttrNames ==
  /\ "parent" \in ChannelAttrs /\ "order" \in ChannelAttrs /\ "max" \in ChannelAttrs
  /\ "family" \in ChannelAttrs /\ "type" \in ChannelAttrs /\ "subscribed" \in ChannelAttrs
  /\ "parent" # "order" /\ "max" # "order" /\ "family" # "order" /\ "type" # "order"
  /\ "subscribed" # "order" /\ "subscribed" # "parent" /\ "max" # "parent" /\ "family" # "parent"
  /\ "type" # "parent"
  /\ "subscribed" # "max" /\ "subscribed" # "family" /\ "subscribed" # "type"
  /\ "parent" # "max" /\ "parent" # "family" /\ "parent" # "type"
  /\ "order" # "max" /\ "order" # "family" /\ "order" # "type"
  BY DEF ChannelAttrs

\* A new channel of the server.
LEMMA CreateBook ==
  ASSUME NEW t, NEW at, ServerTree(t, at), NEW c, NEW subs, BookOK(c, t, at, subs),
         NEW id, id \notin DOMAIN at, id # Root, id \notin subs,
         NEW p \in Spots(at), NEW i \in 1 .. Len(t[p]) + 1,
         NEW v, v = With([t EXCEPT ![p] = InsertAt(t[p], i, id)], id, <<>>),
         NEW bt, bt = With(at, id, DefaultAttrs),
         NEW m, NEW type, Says(m, type, id, p, PredecessorIn(t[p], i), Fields(DefaultAttrs)),
         NEW d, CreateEffect(m, c, d)
  PROVE  ServerTree(v, bt) /\ BookOK(d, v, bt, subs)
  <1>1. PICK P, Q : P = DOMAIN at /\ Q = DOMAIN bt
    OBVIOUS
  <1>2. PICK o : o = PredecessorIn(t[p], i)
    OBVIOUS
  <1>3. ServerTree(v, bt) /\ Inserted(t, v, id, p, o)
    BY <1>2, CreateTree
  <1>4. /\ TreeOK(t, Spots(at), P) /\ Root \notin P /\ id \notin P
        /\ TreeOK(v, Spots(bt), Q) /\ Root \notin Q /\ Place(v, id, p, o)
    BY <1>1, <1>3 DEF ServerTree, Inserted
  <1>5. \A x : x \in Q <=> x \in P \/ x = id
    BY <1>1 DEF With
  <1>6. \A x \in P : bt[x] = at[x]
    BY <1>1 DEF With
  <1>7. bt[id] = DefaultAttrs
    BY DEF With
  <1>8. Form(c, ChannelAttrs) /\ DOMAIN c = P /\ \A x \in P : PlacedIn(c, t, x)
    BY <1>1 DEF BookOK
  <1>9. m.id = id /\ m.parent = p /\ m.order = o
    BY <1>2 DEF Says
  <1>10. PICK c1, c2, family : /\ PutOne(c, Followers(c, id, o, p), id, c1)
                       /\ PutOne(c1, Followers(c1, id, o, p), id, c2)
                       /\ d = With(c2, id, NewChannel(m, family))
                       /\ family = MaxFamilyClients(m.family_unlimited, m.inherits, m.family_num)
    BY <1>9 DEF CreateEffect
  <1>11. /\ Form(c1, ChannelAttrs) /\ DOMAIN c1 = P /\ \A x \in P : PlacedIn(c1, v, x)
         /\ \A x \in P : \A a \in ChannelAttrs : a # "order" => At(c1, x, a) = At(c, x, a)
    <2>1. (\A x \in P : x \in DOMAIN c /\ PlacedIn(c, t, x)) /\ (\A x \in DOMAIN c : x = id \/ x \in P)
      BY <1>8
    <2>2. PutOne(c, Followers(c, id, o, p), id, c1)
      BY <1>10
    <2>3. /\ Form(c1, ChannelAttrs) /\ DOMAIN c1 = DOMAIN c /\ \A x \in P : PlacedIn(c1, v, x)
          /\ \A x \in DOMAIN c : \A a \in ChannelAttrs : x = id \/ a # "order" => At(c1, x, a) = At(c, x, a)
      BY <1>3, <1>4, <1>8, <2>1, <2>2, InsertKeepsOrder
    <2> QED
      BY <1>8, <2>3
  <1>12. c2 = c1
    <2>1. \A x \in DOMAIN c1 : x # id => x \in Q /\ PlacedIn(c1, v, x)
      BY <1>5, <1>11
    <2>2. Followers(c1, id, o, p) = {}
      BY <1>4, <2>1, NoFollowers
    <2> QED
      BY <1>10, <2>2 DEF PutOne
  <1>13. PICK w : w = NewChannel(m, family)
    OBVIOUS
  <1>14. /\ IsRecord(w, ChannelAttrs)
         /\ w.parent = p /\ w.order = o /\ w.max = MaxClients(m.unlimited, m.num)
         /\ w.family = family /\ w.type = ChannelFlagsToType(m.permanent, m.semi)
         /\ w.subscribed = FALSE
    <2>1. IsRecord(w, ChannelAttrs)
      BY <1>13, NewChannelForm
    <2>2. w.parent = m.parent /\ w.order = m.order
      BY <1>13 DEF NewChannel
    <2>3. w.max = MaxClients(m.unlimited, m.num) /\ w.family = family
          /\ w.type = ChannelFlagsToType(m.permanent, m.semi)
      BY <1>13 DEF NewChannel
    <2>4. w.subscribed = FALSE
      BY <1>13 DEF NewChannel
    <2> QED
      BY <1>9, <2>1, <2>2, <2>3, <2>4, Zenon
  <1>15. PICK F, a : F = Fields(a) /\ a = DefaultAttrs
    OBVIOUS
  <1>16. w.max = bt[id].max /\ w.family = bt[id].family /\ w.type = bt[id].type
    <2>1. a \in Attributes
      BY <1>15 DEF Attributes, DefaultAttrs
    <2>2. Says(m, type, id, p, o, F) /\ F = Fields(a)
      BY <1>2, <1>15
    <2>3. MaxClients(m.unlimited, m.num) = a.max /\ family = a.family
          /\ ChannelFlagsToType(m.permanent, m.semi) = a.type
      BY <1>10, <2>1, <2>2, NewAttributes
    <2> QED
      BY <1>7, <1>14, <1>15, <2>3
  <1>17. /\ Form(d, ChannelAttrs) /\ d[id] = w
         /\ \A y : y \in DOMAIN d <=> y \in P \/ y = id
         /\ \A y \in P : y # id => d[y] = c1[y]
    <2>1. d = With(c1, id, w)
      BY <1>10, <1>12, <1>13
    <2>2. /\ Form(d, ChannelAttrs) /\ d[id] = w
          /\ \A y : y \in DOMAIN d <=> y \in DOMAIN c1 \/ y = id
          /\ \A y \in DOMAIN c1 : y # id => d[y] = c1[y]
      BY <1>11, <1>14, <2>1, WithFacts
    <2> QED
      BY <1>11, <2>2
  <1>18. ASSUME NEW x \in P
         PROVE  PlacedIn(d, v, x) /\ SameAttrs(d, bt, x) /\ At(d, x, "subscribed") = (x \in subs)
    <2>1. x # id /\ d[x] = c1[x] /\ bt[x] = at[x]
      BY <1>4, <1>6, <1>17
    <2>2. PlacedIn(d, v, x)
      <3>1. SUFFICES ASSUME NEW q, NEW r, Place(v, x, q, r)
                     PROVE  At(d, x, "parent") = q /\ At(d, x, "order") = r
        BY DEF PlacedIn
      <3>2. At(c1, x, "parent") = q /\ At(c1, x, "order") = r
        BY <1>11, <3>1 DEF PlacedIn
      <3> QED
        BY <2>1, <3>2 DEF At
    <2>3. \A b \in ChannelAttrs : b # "order" => At(d, x, b) = At(c, x, b)
      BY <1>11, <2>1 DEF At
    <2>4. SameAttrs(c, at, x) /\ At(c, x, "subscribed") = (x \in subs)
      BY <1>1 DEF BookOK
    <2>5. /\ At(d, x, "max") = At(c, x, "max") /\ At(d, x, "family") = At(c, x, "family")
          /\ At(d, x, "type") = At(c, x, "type") /\ At(d, x, "subscribed") = At(c, x, "subscribed")
      BY <2>3, AttrNames
    <2> QED
      BY <2>1, <2>2, <2>4, <2>5, Zenon DEF SameAttrs
  <1>19. PlacedIn(d, v, id) /\ SameAttrs(d, bt, id) /\ At(d, id, "subscribed") = (id \in subs)
    <2>1. PlacedIn(d, v, id)
      <3>1. ASSUME NEW q, NEW r, Place(v, id, q, r)
            PROVE  At(d, id, "parent") = q /\ At(d, id, "order") = r
        <4>1. q = p /\ r = o
          BY <1>4, <3>1, PlaceFacts
        <4> QED
          BY <1>14, <1>17, <4>1 DEF At
      <3> QED
        BY <3>1 DEF PlacedIn
    <2>2. SameAttrs(d, bt, id)
      BY <1>16, <1>17 DEF SameAttrs, At
    <2>3. At(d, id, "subscribed") = FALSE
      BY <1>14, <1>17 DEF At
    <2>4. (id \in subs) = FALSE
      OBVIOUS
    <2> QED
      BY <2>1, <2>2, <2>3, <2>4, Zenon
  <1>20. DOMAIN d = Q
    BY <1>5, <1>17
  <1>21. BookOK(d, v, bt, subs)
    <2>1. \A x \in Q : PlacedIn(d, v, x) /\ SameAttrs(d, bt, x) /\ At(d, x, "subscribed") = (x \in subs)
      BY <1>5, <1>18, <1>19
    <2> QED
      BY <1>1, <1>17, <1>20, <2>1 DEF BookOK
  <1> QED
    BY <1>3, <1>21

\* Where the book has a channel.
LEMMA BookPlace ==
  ASSUME ServerTree(tree, attrs), NEW c, NEW subs, BookOK(c, tree, attrs, subs), NEW id \in Present
  PROVE  At(c, id, "parent") = ParentOf(id) /\ At(c, id, "order") = OrderOf(id)
  <1>1. Place(tree, id, ParentOf(id), OrderOf(id))
    BY WhereIs
  <1>2. PlacedIn(c, tree, id)
    BY DEF BookOK, Present
  <1> QED
    BY <1>1, <1>2 DEF PlacedIn

\* A channel gets another place in the order.
ReorderedOK(c, v, id, p, o, e) ==
  /\ Form(e, ChannelAttrs) /\ DOMAIN e = DOMAIN c
  /\ \A x \in DOMAIN c : x # id => PlacedIn(e, v, x)
  /\ At(e, id, "order") = o /\ Place(v, id, p, o)
  /\ \A x \in DOMAIN c : \A a \in ChannelAttrs : a # "order" => At(e, x, a) = At(c, x, a)

LEMMA ReorderedBook ==
  ASSUME ServerTree(tree, attrs), NEW c, NEW subs, BookOK(c, tree, attrs, subs),
         NEW id, id \in Present, NEW left, left = TakenOut(id),
         NEW p \in Spots(attrs), NEW i \in 1 .. Len(left[p]) + 1,
         NEW v, v = [left EXCEPT ![p] = InsertAt(left[p], i, id)],
         NEW o, o = PredecessorIn(left[p], i), NEW e, Reordered(c, id, o, p, e)
  PROVE  ServerTree(v, attrs) /\ ReorderedOK(c, v, id, p, o, e)
  <1>1. PICK o0, p0 : o0 = OrderOf(id) /\ p0 = ParentOf(id)
    OBVIOUS
  <1>2. PICK P, Q : P = Present /\ Q = Present \ {id}
    OBVIOUS
  <1>3. /\ ServerTree(v, attrs)
        /\ Removed(tree, left, id, p0, o0)
        /\ Inserted(left, v, id, p, o)
        /\ TreeOK(left, Spots(attrs), Q)
    BY <1>1, <1>2, MoveTree
  <1>4. TreeOK(tree, Spots(attrs), P) /\ Root \notin P /\ Root \notin Q /\ id \notin Q /\ id \in P
    BY <1>2 DEF ServerTree, Present
  <1>5. Form(c, ChannelAttrs) /\ DOMAIN c = P /\ \A x \in P : PlacedIn(c, tree, x)
    BY <1>2 DEF BookOK, Present
  <1>6. At(c, id, "order") = o0
    BY <1>1, BookPlace
  <1>7. PICK c1, c2 : /\ c1 = Put(c, id, "order", o)
                      /\ PutOne(c1, PointingTo(c1, id), o0, c2)
                      /\ PutOne(c2, Followers(c2, id, o, p), id, e)
    BY <1>1, <1>6 DEF Reordered
  <1>8. /\ Form(c1, ChannelAttrs) /\ DOMAIN c1 = P /\ At(c1, id, "order") = o
        /\ \A x \in P : \A a \in ChannelAttrs : x # id \/ a # "order" => At(c1, x, a) = At(c, x, a)
    <2>1. PICK attr \in ChannelAttrs : attr = "order"
      BY DEF ChannelAttrs
    <2>2. c1 = Put(c, id, attr, o) /\ id \in DOMAIN c
      BY <1>4, <1>5, <1>7, <2>1
    <2>3. /\ Form(c1, ChannelAttrs) /\ DOMAIN c1 = DOMAIN c /\ At(c1, id, attr) = o
          /\ \A x \in DOMAIN c : \A a \in ChannelAttrs : x # id \/ a # attr => At(c1, x, a) = At(c, x, a)
      BY <1>5, <2>2, PutFacts
    <2> QED
      BY <1>5, <2>1, <2>3
  <1>9. OthersPlaced(c1, tree, P, id)
    <2>1. ASSUME NEW x \in P, x # id PROVE PlacedIn(c1, tree, x)
      <3>1. At(c1, x, "parent") = At(c, x, "parent") /\ At(c1, x, "order") = At(c, x, "order")
        BY <1>8, <2>1, AttrNames
      <3>2. PlacedIn(c, tree, x)
        BY <1>5
      <3> QED
        BY <3>1, <3>2 DEF PlacedIn
    <2> QED
      BY <1>8, <2>1 DEF OthersPlaced
  <1>10. /\ Form(c2, ChannelAttrs) /\ DOMAIN c2 = P
         /\ \A x \in P : x # id => PlacedIn(c2, left, x)
         /\ \A x \in P : \A a \in ChannelAttrs : x = id \/ a # "order" => At(c2, x, a) = At(c1, x, a)
    <2>1. PutOne(c1, PointingTo(c1, id), o0, c2) /\ Form(c1, ChannelAttrs)
      BY <1>7, <1>8
    <2>3. Removed(tree, left, id, p0, o0)
      BY <1>3
    <2>2. /\ Form(c2, ChannelAttrs) /\ DOMAIN c2 = DOMAIN c1
          /\ \A x \in P : x # id => PlacedIn(c2, left, x)
          /\ \A x \in DOMAIN c1 : \A a \in ChannelAttrs : x = id \/ a # "order" => At(c2, x, a) = At(c1, x, a)
      BY <1>4, <1>9, <2>1, <2>3, RemoveKeepsOrder
    <2>4. DOMAIN c1 = P
      BY <1>8
    <2> QED
      BY <2>2, <2>4
  <1>11. /\ Form(e, ChannelAttrs) /\ DOMAIN e = P
         /\ \A x \in Q : PlacedIn(e, v, x)
         /\ \A x \in P : \A a \in ChannelAttrs : x = id \/ a # "order" => At(e, x, a) = At(c2, x, a)
    <2>1. (\A x \in Q : x \in DOMAIN c2 /\ PlacedIn(c2, left, x)) /\ (\A x \in DOMAIN c2 : x = id \/ x \in Q)
      BY <1>2, <1>10
    <2>2. PutOne(c2, Followers(c2, id, o, p), id, e) /\ Form(c2, ChannelAttrs)
      BY <1>7, <1>10
    <2>3. /\ Form(e, ChannelAttrs) /\ DOMAIN e = DOMAIN c2 /\ \A x \in Q : PlacedIn(e, v, x)
          /\ \A x \in DOMAIN c2 : \A a \in ChannelAttrs : x = id \/ a # "order" => At(e, x, a) = At(c2, x, a)
      BY <1>3, <1>4, <2>1, <2>2, InsertKeepsOrder
    <2> QED
      BY <1>10, <2>3
  <1>12. \A x \in P : x # id => PlacedIn(e, v, x)
    BY <1>2, <1>11
  <1>13. At(e, id, "order") = o
    BY <1>4, <1>8, <1>10, <1>11, AttrNames
  <1>14. ASSUME NEW x \in P, NEW a \in ChannelAttrs, a # "order" PROVE At(e, x, a) = At(c, x, a)
    BY <1>8, <1>10, <1>11, <1>14
  <1>15. Place(v, id, p, o)
    BY <1>3 DEF Inserted
  <1> QED
    BY <1>3, <1>5, <1>11, <1>12, <1>13, <1>14, <1>15 DEF ReorderedOK

\* What is left to show when the order and the attributes are right.
LEMMA PlacedBook ==
  ASSUME NEW t, NEW v, NEW at, ServerTree(v, at), NEW c, NEW subs, BookOK(c, t, at, subs),
         NEW id, id \in DOMAIN at, NEW p, NEW o, NEW e, ReorderedOK(c, v, id, p, o, e),
         NEW d, d = Put(e, id, "parent", p) \/ (d = e /\ At(c, id, "parent") = p)
  PROVE  BookOK(d, v, at, subs)
  <1>1. TreeOK(v, Spots(at), DOMAIN at) /\ Root \notin DOMAIN at
    BY DEF ServerTree
  <1>2. DOMAIN c = DOMAIN at
    BY DEF BookOK
  <1>3. /\ Form(e, ChannelAttrs) /\ DOMAIN e = DOMAIN at
        /\ \A x \in DOMAIN at : x # id => PlacedIn(e, v, x)
        /\ At(e, id, "order") = o /\ Place(v, id, p, o)
        /\ \A x \in DOMAIN at : \A a \in ChannelAttrs : a # "order" => At(e, x, a) = At(c, x, a)
    BY <1>2 DEF ReorderedOK
  <1>4. /\ Form(d, ChannelAttrs) /\ DOMAIN d = DOMAIN at /\ At(d, id, "parent") = p
        /\ \A x \in DOMAIN at : \A a \in ChannelAttrs : x # id \/ a # "parent" => At(d, x, a) = At(e, x, a)
    <2>1. CASE d = Put(e, id, "parent", p)
      <3>1. PICK attr \in ChannelAttrs : attr = "parent"
        BY DEF ChannelAttrs
      <3>2. d = Put(e, id, attr, p) /\ id \in DOMAIN e /\ Form(e, ChannelAttrs)
        BY <1>3, <2>1, <3>1
      <3>3. /\ Form(d, ChannelAttrs) /\ DOMAIN d = DOMAIN e /\ At(d, id, attr) = p
            /\ \A x \in DOMAIN e : \A a \in ChannelAttrs : x # id \/ a # attr => At(d, x, a) = At(e, x, a)
        BY <3>2, PutFacts
      <3> QED
        BY <1>3, <3>1, <3>3
    <2>2. CASE d = e /\ At(c, id, "parent") = p
      BY <1>3, <2>2, AttrNames
    <2> QED
      BY <2>1, <2>2
  <1>5. ASSUME NEW x \in DOMAIN at PROVE PlacedIn(d, v, x)
    <2>1. SUFFICES ASSUME NEW q, NEW r, Place(v, x, q, r)
                   PROVE  At(d, x, "parent") = q /\ At(d, x, "order") = r
      BY DEF PlacedIn
    <2>2. At(d, x, "order") = At(e, x, "order")
      BY <1>4, AttrNames
    <2>3. CASE x = id
      <3>1. q = p /\ r = o
        BY <1>1, <1>3, <2>1, <2>3, PlaceFacts
      <3> QED
        BY <1>3, <1>4, <2>2, <2>3, <3>1
    <2>4. CASE x # id
      <3>1. At(d, x, "parent") = At(e, x, "parent")
        BY <1>4, <2>4, AttrNames
      <3>2. PlacedIn(e, v, x)
        BY <1>3, <2>4
      <3> QED
        BY <2>1, <2>2, <3>1, <3>2 DEF PlacedIn
    <2> QED
      BY <2>3, <2>4
  <1>6. ASSUME NEW x \in DOMAIN at
        PROVE  SameAttrs(d, at, x) /\ At(d, x, "subscribed") = (x \in subs)
    <2>1. SameAttrs(c, at, x) /\ At(c, x, "subscribed") = (x \in subs)
      BY DEF BookOK
    <2>2. \A a \in ChannelAttrs : a # "order" /\ a # "parent" => At(d, x, a) = At(c, x, a)
      BY <1>3, <1>4
    <2>3. /\ At(d, x, "max") = At(c, x, "max") /\ At(d, x, "family") = At(c, x, "family")
          /\ At(d, x, "type") = At(c, x, "type") /\ At(d, x, "subscribed") = At(c, x, "subscribed")
      BY <2>2, AttrNames
    <2> QED
      BY <2>1, <2>3, Zenon DEF SameAttrs
  <1> QED
    BY <1>4, <1>5, <1>6 DEF BookOK

LEMMA MoveBook ==
  ASSUME ServerTree(tree, attrs), NEW c, NEW subs, BookOK(c, tree, attrs, subs),
         NEW id, id \in Present, NEW left, left = TakenOut(id),
         NEW p \in Spots(attrs), NEW i \in 1 .. Len(left[p]) + 1,
         NEW v, v = [left EXCEPT ![p] = InsertAt(left[p], i, id)],
         NEW m, NEW type, NEW F, NEW o, o = PredecessorIn(left[p], i), Says(m, type, id, p, o, F),
         NEW d, MoveEffect(m, c, d)
  PROVE  ServerTree(v, attrs) /\ BookOK(d, v, attrs, subs)
  <1>2. m.id = id /\ m.parent = p /\ m.order = o
    BY DEF Says
  <1>3. PICK e : Reordered(c, id, o, p, e) /\ d = Put(e, id, "parent", p)
    BY <1>2 DEF MoveEffect
  <1>4. ServerTree(v, attrs) /\ ReorderedOK(c, v, id, p, o, e)
    <2>1. Reordered(c, id, o, p, e)
      BY <1>3
    <2> QED
      BY <2>1, ReorderedBook
  <1>5. BookOK(d, v, attrs, subs)
    BY <1>3, <1>4, PlacedBook DEF Present
  <1> QED
    BY <1>4, <1>5

LEMMA MoveEditBook ==
  ASSUME ServerTree(tree, attrs), NEW c, NEW subs, BookOK(c, tree, attrs, subs),
         NEW id, id \in Present, NEW left, left = TakenOut(id),
         NEW p \in Spots(attrs), NEW i \in 1 .. Len(left[p]) + 1, p = ParentOf(id),
         NEW v, v = [left EXCEPT ![p] = InsertAt(left[p], i, id)],
         NEW m, NEW type, NEW F, NEW o, o = PredecessorIn(left[p], i), Says(m, type, id, p, o, F),
         NEW d, MoveEditEffect(m, c, d)
  PROVE  ServerTree(v, attrs) /\ BookOK(d, v, attrs, subs)
  <1>2. m.id = id /\ m.order = o
    BY DEF Says
  <1>3. At(c, id, "parent") = p
    BY BookPlace
  <1>4. Reordered(c, id, o, p, d)
    BY <1>2, <1>3 DEF MoveEditEffect
  <1>5. ServerTree(v, attrs) /\ ReorderedOK(c, v, id, p, o, d)
    BY <1>4, ReorderedBook
  <1>6. BookOK(d, v, attrs, subs)
    BY <1>3, <1>5, PlacedBook DEF Present
  <1> QED
    BY <1>5, <1>6

\* A channel is gone.
LEMMA DeleteBook ==
  ASSUME ServerTree(tree, attrs), NEW c, NEW subs, BookOK(c, tree, attrs, subs),
         NEW id, id \in Present, tree[id] = <<>>,
         NEW v, v = Without(TakenOut(id), id), NEW bt, bt = Without(attrs, id),
         NEW ns, TakenFrom(ns, subs, id), NEW m, m.id = id, NEW d, DeleteEffect(m, c, d)
  PROVE  ServerTree(v, bt) /\ BookOK(d, v, bt, ns)
  <1>1. PICK P : P = Present
    OBVIOUS
  <1>2. ServerTree(v, bt) /\ \E p : Removed(tree, v, id, p, OrderOf(id)) /\ p = ParentOf(id)
    BY DeleteTree
  <1>3. PICK p : Removed(tree, v, id, p, OrderOf(id))
    BY <1>2
  <1>4. PICK o : o = OrderOf(id)
    OBVIOUS
  <1>5. TreeOK(tree, Spots(attrs), P) /\ Root \notin P
    BY <1>1 DEF ServerTree, Present
  <1>6. Form(c, ChannelAttrs) /\ DOMAIN c = P /\ \A x \in P : PlacedIn(c, tree, x)
    BY <1>1 DEF BookOK, Present
  <1>7. At(c, id, "order") = o
    BY <1>4, BookPlace
  <1>8. PICK c0 : c0 = Without(c, id) /\ PutOne(c0, PointingTo(c0, id), o, d)
    BY <1>7 DEF DeleteEffect
  <1>9. /\ Form(c0, ChannelAttrs) /\ \A x \in DOMAIN c0 : c0[x] = c[x]
        /\ \A x : x \in DOMAIN c0 <=> x \in P /\ x # id
    <2>1. id \in DOMAIN c /\ c0 = Without(c, id)
      BY <1>1, <1>6, <1>8
    <2> QED
      BY <1>6, <2>1, WithoutFacts
  <1>10. OthersPlaced(c0, tree, P, id)
    <2>1. ASSUME NEW x \in P, x # id PROVE PlacedIn(c0, tree, x)
      <3>1. c0[x] = c[x] /\ PlacedIn(c, tree, x)
        BY <1>6, <1>9, <2>1
      <3> QED
        BY <3>1 DEF PlacedIn, At
    <2> QED
      BY <1>9, <2>1 DEF OthersPlaced
  <1>11. /\ Form(d, ChannelAttrs) /\ DOMAIN d = DOMAIN c0
         /\ \A x \in P : x # id => PlacedIn(d, v, x)
         /\ \A x \in DOMAIN c0 : \A a \in ChannelAttrs : x = id \/ a # "order" => At(d, x, a) = At(c0, x, a)
    <2>1. Removed(tree, v, id, p, o) /\ PutOne(c0, PointingTo(c0, id), o, d) /\ Form(c0, ChannelAttrs)
      BY <1>3, <1>4, <1>8, <1>9
    <2> QED
      BY <1>5, <1>10, <2>1, RemoveKeepsOrder
  <1>12. DOMAIN bt = DOMAIN d /\ \A x \in DOMAIN bt : x \in P /\ x # id /\ bt[x] = attrs[x]
    <2>1. DOMAIN bt = P \ {id} /\ \A x \in DOMAIN bt : bt[x] = attrs[x]
      BY <1>1 DEF Without, Present
    <2> QED
      BY <1>9, <1>11, <2>1
  <1>13. ASSUME NEW x \in DOMAIN bt
         PROVE  PlacedIn(d, v, x) /\ SameAttrs(d, bt, x) /\ At(d, x, "subscribed") = (x \in ns)
    <2>1. x \in P /\ x # id /\ bt[x] = attrs[x] /\ x \in DOMAIN c0
      BY <1>11, <1>12
    <2>2. SameAttrs(c, attrs, x) /\ At(c, x, "subscribed") = (x \in subs)
      BY <1>1, <2>1 DEF BookOK, Present
    <2>3. \A a \in ChannelAttrs : a # "order" => At(d, x, a) = At(c, x, a)
      BY <1>9, <1>11, <2>1 DEF At
    <2>4. /\ At(d, x, "max") = At(c, x, "max") /\ At(d, x, "family") = At(c, x, "family")
          /\ At(d, x, "type") = At(c, x, "type") /\ At(d, x, "subscribed") = At(c, x, "subscribed")
      BY <2>3, AttrNames
    <2>5. (x \in ns) = (x \in subs)
      BY <2>1 DEF TakenFrom
    <2>6. SameAttrs(d, bt, x)
      BY <2>1, <2>2, <2>4 DEF SameAttrs
    <2>7. At(d, x, "subscribed") = (x \in ns)
      BY <2>2, <2>4, <2>5, Zenon
    <2> QED
      BY <1>11, <2>1, <2>6, <2>7
  <1>14. BookOK(d, v, bt, ns)
    BY <1>11, <1>12, <1>13 DEF BookOK
  <1> QED
    BY <1>2, <1>14

\* A change that is not about the place of a channel.
LEMMA DiffersPlaced ==
  ASSUME NEW c, NEW t, NEW id, NEW A, "parent" \notin A, "order" \notin A, NEW d, Differs(c, d, id, A),
         NEW x \in DOMAIN c, PlacedIn(c, t, x)
  PROVE  PlacedIn(d, t, x)
  <1>1. At(d, x, "parent") = At(c, x, "parent") /\ At(d, x, "order") = At(c, x, "order")
    <2>1. CASE x = id
      BY <2>1, AttrNames DEF Differs
    <2>2. CASE x # id
      BY <2>2 DEF Differs, At
    <2> QED
      BY <2>1, <2>2
  <1> QED
    BY <1>1 DEF PlacedIn

LEMMA EditBook ==
  ASSUME NEW t, NEW at, ServerTree(t, at), NEW c, NEW subs, BookOK(c, t, at, subs),
         NEW id \in DOMAIN at, NEW a \in Attributes, at[id] \in Attributes,
         NEW bt, bt = [at EXCEPT ![id] = a],
         NEW m, NEW type, NEW parent, NEW order,
         Says(m, type, id, parent, order, NewFields(Fields(a), Fields(at[id]))),
         NEW d, EditEffect(m, c, d)
  PROVE  ServerTree(t, bt) /\ BookOK(d, t, bt, subs)
  <1>1. DOMAIN bt = DOMAIN at /\ bt[id] = a /\ \A x \in DOMAIN at : x # id => bt[x] = at[x]
    OBVIOUS
  <1>2. ServerTree(t, bt)
    BY <1>1 DEF ServerTree, Spots
  <1>3. PICK A : A = {"max", "family", "type"}
    OBVIOUS
  <1>4. "parent" \notin A /\ "order" \notin A /\ "subscribed" \notin A
    BY <1>3
  <1>5. m.id = id
    BY DEF Says
  <1>6. Differs(c, d, id, A)
    BY <1>3, <1>5 DEF EditEffect
  <1>7. DOMAIN c = DOMAIN at
    BY DEF BookOK
  <1>8. SameAttrs(c, at, id)
    BY DEF BookOK
  <1>9. PICK b \in Attributes : b = at[id]
    OBVIOUS
  <1>10. Says(m, type, id, parent, order, NewFields(Fields(a), Fields(b)))
    BY <1>9
  <1>11. /\ At(d, id, "max") = Kept(MaxClients(m.unlimited, m.num), b.max)
         /\ At(d, id, "family") =
              Kept(MaxFamilyClients(m.family_unlimited, m.inherits, m.family_num), b.family)
         /\ At(d, id, "type") =
              IF m.permanent = Nothing /\ m.semi = Nothing THEN b.type
              ELSE ChannelFlagsToType(m.permanent, m.semi)
    BY <1>5, <1>8, <1>9 DEF EditEffect, SameAttrs
  <1>12. /\ Kept(MaxClients(m.unlimited, m.num), b.max) = a.max
         /\ Kept(MaxFamilyClients(m.family_unlimited, m.inherits, m.family_num), b.family) = a.family
         /\ (IF m.permanent = Nothing /\ m.semi = Nothing THEN b.type
             ELSE ChannelFlagsToType(m.permanent, m.semi)) = a.type
    BY <1>10, ChangedAttributes
  <1>13. SameAttrs(d, bt, id)
    BY <1>1, <1>11, <1>12 DEF SameAttrs
  <1>14. ASSUME NEW x \in DOMAIN at
         PROVE  PlacedIn(d, t, x) /\ SameAttrs(d, bt, x) /\ At(d, x, "subscribed") = (x \in subs)
    <2>1. PlacedIn(c, t, x) /\ SameAttrs(c, at, x) /\ At(c, x, "subscribed") = (x \in subs)
      BY DEF BookOK
    <2>2. PlacedIn(d, t, x)
      BY <1>4, <1>6, <1>7, <2>1, DiffersPlaced
    <2>3. At(d, x, "subscribed") = At(c, x, "subscribed")
      <3>1. CASE x = id
        BY <1>4, <1>6, <3>1, AttrNames DEF Differs
      <3>2. CASE x # id
        BY <1>6, <1>7, <3>2 DEF Differs, At
      <3> QED
        BY <3>1, <3>2
    <2>4. SameAttrs(d, bt, x)
      <3>1. CASE x = id
        BY <1>13, <3>1
      <3>2. CASE x # id
        BY <1>1, <1>6, <1>7, <2>1, <3>2 DEF Differs, At, SameAttrs
      <3> QED
        BY <3>1, <3>2
    <2> QED
      BY <2>1, <2>2, <2>3, <2>4, Zenon
  <1>15. Form(d, ChannelAttrs) /\ DOMAIN d = DOMAIN bt
    BY <1>1, <1>6, <1>7 DEF Differs
  <1>16. BookOK(d, t, bt, subs)
    BY <1>1, <1>14, <1>15 DEF BookOK
  <1> QED
    BY <1>2, <1>16

\* We watch a channel, or watch it no more.
LEMMA SubscribedBook ==
  ASSUME NEW t, NEW at, NEW c, NEW subs, BookOK(c, t, at, subs), NEW id \in DOMAIN at,
         NEW d, Differs(c, d, id, {"subscribed"}), NEW ns,
         \/ AddedTo(ns, subs, id) /\ At(d, id, "subscribed") = TRUE
         \/ TakenFrom(ns, subs, id) /\ At(d, id, "subscribed") = FALSE
  PROVE  BookOK(d, t, at, ns)
  <1>1. PICK A : A = {"subscribed"}
    OBVIOUS
  <1>2. "parent" \notin A /\ "order" \notin A /\ "max" \notin A /\ "family" \notin A /\ "type" \notin A
    BY <1>1
  <1>3. Differs(c, d, id, A) /\ DOMAIN c = DOMAIN at
    BY <1>1 DEF BookOK
  <1>4. ASSUME NEW x \in DOMAIN at
        PROVE  PlacedIn(d, t, x) /\ SameAttrs(d, at, x) /\ At(d, x, "subscribed") = (x \in ns)
    <2>1. PlacedIn(c, t, x) /\ SameAttrs(c, at, x) /\ At(c, x, "subscribed") = (x \in subs)
      BY DEF BookOK
    <2>2. PlacedIn(d, t, x)
      BY <1>2, <1>3, <2>1, DiffersPlaced
    <2>3. SameAttrs(d, at, x)
      <3>1. CASE x = id
        <4>1. \A a \in ChannelAttrs : a \notin A => At(d, x, a) = At(c, x, a)
          BY <1>3, <3>1 DEF Differs
        <4>2. /\ At(d, x, "max") = At(c, x, "max") /\ At(d, x, "family") = At(c, x, "family")
              /\ At(d, x, "type") = At(c, x, "type")
          BY <1>2, <4>1, AttrNames
        <4> QED
          BY <2>1, <4>2 DEF SameAttrs
      <3>2. CASE x # id
        BY <1>3, <2>1, <3>2 DEF Differs, At, SameAttrs
      <3> QED
        BY <3>1, <3>2
    <2>4. At(d, x, "subscribed") = (x \in ns)
      <3>1. CASE x = id /\ AddedTo(ns, subs, id) /\ At(d, id, "subscribed") = TRUE
        <4>1. (x \in ns) = TRUE
          BY <3>1 DEF AddedTo
        <4> QED
          BY <3>1, <4>1, Zenon
      <3>2. CASE x = id /\ TakenFrom(ns, subs, id) /\ At(d, id, "subscribed") = FALSE
        <4>1. (x \in ns) = FALSE
          BY <3>2 DEF TakenFrom
        <4> QED
          BY <3>2, <4>1, Zenon
      <3>3. CASE x # id
        <4>1. (x \in ns) = (x \in subs)
          BY <3>3 DEF AddedTo, TakenFrom
        <4>2. At(d, x, "subscribed") = At(c, x, "subscribed")
          BY <1>3, <3>3 DEF Differs, At
        <4> QED
          BY <2>1, <4>1, <4>2, Zenon
      <3> QED
        BY <3>1, <3>2, <3>3
    <2> QED
      BY <2>2, <2>3, <2>4
  <1>5. Form(d, ChannelAttrs) /\ DOMAIN d = DOMAIN at
    BY <1>3 DEF Differs
  <1> QED
    BY <1>4, <1>5 DEF BookOK

\* The part D of the channels that has been listed.
Listed(c, t, at, D) ==
  /\ Form(c, ChannelAttrs) /\ DOMAIN c = D /\ D \subseteq DOMAIN at
  /\ \A x \in D : PlacedIn(c, t, x) /\ SameAttrs(c, at, x) /\ At(c, x, "subscribed") = FALSE

\* A channel in the list: nothing in the book follows it yet.
LEMMA ListBook ==
  ASSUME NEW t, NEW at, ServerTree(t, at), NEW c, NEW D, Listed(c, t, at, D),
         NEW id, id \in DOMAIN at, id \notin D, NEW a \in Attributes, a = at[id],
         NEW p, NEW o, Place(t, id, p, o),
         NEW m, NEW type, Says(m, type, id, p, o, Fields(a)),
         NEW E, AddedTo(E, D, id), NEW d, ListEffect(m, c, d)
  PROVE  Listed(d, t, at, E)
  <1>1. PICK P : P = DOMAIN at
    OBVIOUS
  <1>2. TreeOK(t, Spots(at), P) /\ Root \notin P
    BY <1>1 DEF ServerTree
  <1>3. Form(c, ChannelAttrs) /\ DOMAIN c = D /\ D \subseteq P /\ \A x \in D : PlacedIn(c, t, x)
    BY <1>1 DEF Listed
  <1>4. m.id = id /\ m.parent = p /\ m.order = o
    BY DEF Says
  <1>5. PICK c1, family : /\ PutOne(c, Followers(c, id, o, p), id, c1)
                          /\ d = With(c1, id, NewChannel(m, family))
                          /\ family = MaxFamilyClientsOfList(m.family_unlimited, m.inherits, m.family_num)
    BY <1>4 DEF ListEffect
  <1>6. c1 = c
    <2>1. \A x \in DOMAIN c : x # id => x \in P /\ PlacedIn(c, t, x)
      BY <1>3
    <2>2. Followers(c, id, o, p) = {}
      BY <1>2, <2>1, NoFollowers
    <2> QED
      BY <1>5, <2>2 DEF PutOne
  <1>7. PICK w : w = NewChannel(m, family)
    OBVIOUS
  <1>8. /\ IsRecord(w, ChannelAttrs)
        /\ w.parent = p /\ w.order = o /\ w.max = MaxClients(m.unlimited, m.num)
        /\ w.family = family /\ w.type = ChannelFlagsToType(m.permanent, m.semi)
    <2>1. IsRecord(w, ChannelAttrs)
      BY <1>7, NewChannelForm
    <2>2. w.parent = m.parent /\ w.order = m.order
      BY <1>7 DEF NewChannel
    <2>3. w.max = MaxClients(m.unlimited, m.num) /\ w.family = family
          /\ w.type = ChannelFlagsToType(m.permanent, m.semi)
      BY <1>7 DEF NewChannel
    <2> QED
      BY <1>4, <2>1, <2>2, <2>3, Zenon
  <1>9. w.subscribed = FALSE
    BY <1>7 DEF NewChannel
  <1>10. w.max = a.max /\ w.family = a.family /\ w.type = a.type
    <2>1. PICK F : F = Fields(a)
      OBVIOUS
    <2>2. Says(m, type, id, p, o, F)
      BY <2>1
    <2>3. MaxClients(m.unlimited, m.num) = a.max /\ family = a.family
          /\ ChannelFlagsToType(m.permanent, m.semi) = a.type
      BY <1>5, <2>1, <2>2, NewAttributes
    <2> QED
      BY <1>8, <2>3
  <1>11. /\ Form(d, ChannelAttrs) /\ d[id] = w
         /\ \A y : y \in DOMAIN d <=> y \in D \/ y = id
         /\ \A y \in D : d[y] = c[y]
    <2>1. d = With(c, id, w)
      BY <1>5, <1>6, <1>7
    <2>2. /\ Form(d, ChannelAttrs) /\ d[id] = w
          /\ \A y : y \in DOMAIN d <=> y \in DOMAIN c \/ y = id
          /\ \A y \in DOMAIN c : y # id => d[y] = c[y]
      BY <1>3, <1>8, <2>1, WithFacts
    <2> QED
      BY <1>3, <2>2
  <1>12. ASSUME NEW x \in D
         PROVE  PlacedIn(d, t, x) /\ SameAttrs(d, at, x) /\ At(d, x, "subscribed") = FALSE
    <2>1. PlacedIn(c, t, x) /\ SameAttrs(c, at, x) /\ At(c, x, "subscribed") = FALSE
      BY DEF Listed
    <2>2. \A attr : At(d, x, attr) = At(c, x, attr)
      BY <1>11 DEF At
    <2> QED
      BY <2>1, <2>2, Zenon DEF PlacedIn, SameAttrs
  <1>13. PlacedIn(d, t, id) /\ SameAttrs(d, at, id) /\ At(d, id, "subscribed") = FALSE
    <2>1. PlacedIn(d, t, id)
      <3>1. ASSUME NEW q, NEW r, Place(t, id, q, r)
            PROVE  At(d, id, "parent") = q /\ At(d, id, "order") = r
        <4>1. q = p /\ r = o
          BY <1>2, <3>1, PlaceFacts
        <4> QED
          BY <1>8, <1>11, <4>1 DEF At
      <3> QED
        BY <3>1 DEF PlacedIn
    <2>2. SameAttrs(d, at, id)
      BY <1>10, <1>11 DEF SameAttrs, At
    <2>3. At(d, id, "subscribed") = FALSE
      BY <1>9, <1>11 DEF At
    <2> QED
      BY <2>1, <2>2, <2>3
  <1>14. DOMAIN d = E /\ E \subseteq DOMAIN at /\ \A x \in E : x \in D \/ x = id
    <2>1. \A x : x \in E <=> x \in D \/ x = id
      BY DEF AddedTo
    <2>2. DOMAIN d = E
      BY <1>11, <2>1
    <2> QED
      BY <1>1, <1>3, <2>1, <2>2
  <1> QED
    BY <1>11, <1>12, <1>13, <1>14, Zenon DEF Listed

-----------------------------------------------------------------------------
(* Several commands at once.                                               *)

\* p has a book after each of the commands.
Walk(p, ms) == \A n \in 1 .. Len(ms) : p[n] \in HandleCommand(p[n - 1], ms[n])
Reaches(b, ms, r) == \E p : p[0] = b /\ p[Len(ms)] = r /\ Walk(p, ms)

LEMMA CommandsReach ==
  ASSUME NEW ms, Len(ms) \in Nat, Commands(ms), joined'
  PROVE  \E r : Reaches(Before, ms, r) /\ Becomes(r)
  <1>1. PICK f, r : Handled(f, Before, ms) /\ r \in f[Len(ms)] /\ Becomes(r)
    BY CommandsFacts
  <1>2. PICK len \in Nat : len = Len(ms)
    OBVIOUS
  <1> DEFINE Found(n, x) == \E p : /\ p[0] = Before /\ p[n] = x
                                   /\ \A i \in 1 .. n : p[i] \in HandleCommand(p[i - 1], ms[i])
             Bad == {n \in 0 .. len : \E x \in f[n] : ~Found(n, x)}
  <1>3. ASSUME Bad # {} PROVE FALSE
    <2>1. Bad \subseteq Nat
      OBVIOUS
    <2>2. PICK n \in Bad : \A k \in Bad : n <= k
      <3> HIDE DEF Bad
      <3> QED
        BY <1>3, <2>1, SmallestNumber
    <2>3. n \in 0 .. len /\ \E x \in f[n] : ~Found(n, x)
      <3> HIDE DEF Found
      <3> QED
        BY <2>2
    <2>4. PICK x \in f[n] : ~Found(n, x)
      BY <2>3
    <2>5. n # 0
      <3>1. ASSUME n = 0 PROVE FALSE
        <4>1. x = Before
          BY <1>1, <2>4, <3>1 DEF Handled
        <4>2. Found(0, Before)
          <5>1. PICK p : p = [i \in {0} |-> Before]
            OBVIOUS
          <5>2. p[0] = Before /\ \A i \in 1 .. 0 : FALSE
            BY <5>1
          <5> QED
            BY <5>2
        <4> HIDE DEF Found
        <4> QED
          BY <2>4, <3>1, <4>1, <4>2
      <3> QED
        BY <3>1
    <2>6. n \in 1 .. len /\ n - 1 \in 0 .. len /\ ~(n <= n - 1)
      BY <2>3, <2>5
    <2>7. PICK a \in f[n - 1] : x \in HandleCommand(a, ms[n])
      BY <1>1, <1>2, <2>4, <2>6 DEF Handled
    <2>8. Found(n - 1, a)
      <3>1. n - 1 \notin Bad
        <4> HIDE DEF Bad
        <4> QED
          BY <2>2, <2>6
      <3> HIDE DEF Found
      <3> QED
        BY <2>6, <2>7, <3>1
    <2>9. PICK p : /\ p[0] = Before /\ p[n - 1] = a
                   /\ \A i \in 1 .. n - 1 : p[i] \in HandleCommand(p[i - 1], ms[i])
      BY <2>8
    <2>10. PICK q : q = [i \in 0 .. n |-> IF i = n THEN x ELSE p[i]]
      OBVIOUS
    <2>11. q[n] = x /\ \A i \in 0 .. n : i # n => q[i] = p[i]
      BY <2>6, <2>10
    <2>12. ASSUME NEW i \in 1 .. n PROVE q[i] \in HandleCommand(q[i - 1], ms[i])
      <3>1. q[i - 1] = p[i - 1]
        <4>1. i - 1 \in 0 .. n /\ i - 1 # n
          BY <2>6
        <4> QED
          BY <2>11, <4>1
      <3>2. CASE i = n
        BY <2>7, <2>9, <2>11, <3>1, <3>2
      <3>3. CASE i # n
        <4>1. i \in 1 .. n - 1 /\ i \in 0 .. n
          BY <2>6, <3>3
        <4> QED
          BY <2>9, <2>11, <3>1, <3>3, <4>1
      <3> QED
        BY <3>2, <3>3
    <2>13. Found(n, x)
      <3>1. 0 \in 0 .. n /\ 0 # n
        BY <2>6
      <3>2. q[0] = Before
        BY <2>9, <2>11, <3>1
      <3> QED
        BY <2>11, <2>12, <3>2
    <2> HIDE DEF Found
    <2> QED
      BY <2>4, <2>13
  <1>4. Found(len, r)
    <2>1. len \in 0 .. len
      OBVIOUS
    <2> HIDE DEF Found
    <2> QED
      BY <1>1, <1>2, <1>3, <2>1
  <1>5. Reaches(Before, ms, r)
    BY <1>2, <1>4 DEF Reaches, Walk
  <1> QED
    BY <1>1, <1>5

LEMMA ReachesParts ==
  ASSUME NEW b, NEW d, IsSeq(d), NEW e, IsSeq(e), NEW r, Reaches(b, d \o e, r)
  PROVE  \E a : Reaches(b, d, a) /\ Reaches(a, e, r)
  <1>1. PICK s : s = d \o e
    OBVIOUS
  <1>2. PICK n \in Nat, k \in Nat : n = Len(d) /\ k = Len(e)
    BY SeqFacts
  <1>3. Len(s) = n + k /\ \A i \in 1 .. n + k : s[i] = IF i <= n THEN d[i] ELSE e[i - n]
    BY <1>1, <1>2, SeqFacts
  <1>4. PICK p : p[0] = b /\ p[n + k] = r /\ \A i \in 1 .. n + k : p[i] \in HandleCommand(p[i - 1], s[i])
    BY <1>1, <1>3 DEF Reaches, Walk
  <1>5. Reaches(b, d, p[n])
    <2>1. ASSUME NEW i \in 1 .. n PROVE p[i] \in HandleCommand(p[i - 1], d[i])
      <3>1. i \in 1 .. n + k /\ i <= n
        OBVIOUS
      <3> QED
        BY <1>3, <1>4, <3>1
    <2> QED
      BY <1>2, <1>4, <2>1 DEF Reaches, Walk
  <1>6. Reaches(p[n], e, r)
    <2>1. PICK q : q = [i \in 0 .. k |-> p[n + i]]
      OBVIOUS
    <2>2. q[0] = p[n] /\ q[k] = r /\ \A i \in 0 .. k : q[i] = p[n + i]
      <3>1. 0 \in 0 .. k /\ k \in 0 .. k /\ n + 0 = n
        OBVIOUS
      <3> QED
        BY <1>4, <2>1, <3>1
    <2>3. ASSUME NEW i \in 1 .. k PROVE q[i] \in HandleCommand(q[i - 1], e[i])
      <3>1. n + i \in 1 .. n + k /\ ~(n + i <= n) /\ (n + i) - n = i /\ (n + i) - 1 = n + (i - 1)
            /\ i \in 0 .. k /\ i - 1 \in 0 .. k
        OBVIOUS
      <3>2. s[n + i] = e[i]
        BY <1>3, <3>1
      <3>3. p[n + i] \in HandleCommand(p[n + (i - 1)], e[i])
        BY <1>4, <3>1, <3>2
      <3> QED
        BY <2>2, <3>1, <3>3
    <2> QED
      BY <1>2, <2>2, <2>3 DEF Reaches, Walk
  <1> QED
    BY <1>5, <1>6

\* What holds at first, and stays, holds in the end.
LEMMA Climb ==
  ASSUME NEW len \in Nat, NEW G, 0 \in G, \A n \in 1 .. len : n - 1 \in G => n \in G
  PROVE  len \in G
  <1>1. PICK Bad : Bad = (0 .. len) \ G
    OBVIOUS
  <1>2. ASSUME Bad # {} PROVE FALSE
    <2>1. Bad \subseteq Nat
      BY <1>1
    <2>2. PICK n \in Bad : \A k \in Bad : n <= k
      BY <1>2, <2>1, SmallestNumber
    <2>3. n \in 1 .. len /\ n \notin G
      BY <1>1, <2>2
    <2>4. n - 1 \in 0 .. len /\ ~(n <= n - 1)
      BY <2>3
    <2>5. n - 1 \in G
      BY <1>1, <2>2, <2>4
    <2> QED
      BY <2>3, <2>5
  <1> QED
    BY <1>1, <1>2

\* Sequences that tell of every element of a set once.
LEMMA MappedFinite ==
  ASSUME NEW S, IsFiniteSet(S), NEW g, g = [x \in S |-> g[x]], NEW T, T = {g[x] : x \in S}
  PROVE  IsFiniteSet(T)
  <1>1. g \in Surjection(S, T)
    BY DEF Surjection
  <1> QED
    BY <1>1, FS_Surjection

\* es has one message for each of ks.
Covers(es, ks) ==
  /\ IsSeq(es) /\ Len(es) \in Nat
  /\ \A i \in 1 .. Len(es) : es[i].id \in ks
  /\ \A i \in 1 .. Len(es) : \A j \in 1 .. Len(es) : es[i].id = es[j].id => i = j
  /\ \A x \in ks : \E i \in 1 .. Len(es) : es[i].id = x

LEMMA EnterViewFacts ==
  ASSUME NEW where, NEW k, NEW m, m = EnterView(k, where)
  PROVE  /\ m.type = "ClientEnterView" /\ m.id = k /\ m.channel = where[k].channel
         /\ (IF m.is_away THEN m.message ELSE Nothing) = where[k].away
  <1>1. PICK channel, name, away : channel = where[k].channel /\ name = where[k].name /\ away = where[k].away
    OBVIOUS
  <1>2. PICK flag : flag = (away # Nothing)
    OBVIOUS
  <1>3. PICK text : text = IF away = Nothing THEN "" ELSE away
    BY Zenon
  <1>4. m = [type |-> "ClientEnterView", id |-> k, channel |-> channel, name |-> name,
             is_away |-> flag, message |-> text, invoker |-> Nothing]
    BY <1>1, <1>2, <1>3, Zenon DEF EnterView
  <1>5. m.type = "ClientEnterView"
    BY <1>4
  <1>6. m.id = k /\ m.channel = channel /\ m.is_away = flag /\ m.message = text
    BY <1>4
  <1>7. (IF m.is_away THEN m.message ELSE Nothing) = away
    <2>1. CASE away = Nothing
      <3>1. ~m.is_away
        BY <1>2, <1>6, <2>1
      <3> QED
        BY <2>1, <3>1
    <2>2. CASE away # Nothing
      <3>1. m.is_away /\ m.message = away
        BY <1>2, <1>3, <1>6, <2>2
      <3> QED
        BY <3>1
    <2> QED
      BY <2>1, <2>2
  <1> QED
    BY <1>1, <1>5, <1>6, <1>7

LEMMA EnteringFacts ==
  ASSUME NEW ks, IsFiniteSet(ks), NEW where, NEW es, es = Entering(ks, where)
  PROVE  /\ Covers(es, ks)
         /\ \A i \in 1 .. Len(es) : es[i] = EnterView(es[i].id, where)
  <1>1. PICK g : g = [k \in ks |-> EnterView(k, where)]
    OBVIOUS
  <1>2. PICK T : T = {g[k] : k \in ks}
    OBVIOUS
  <1>3. T = {EnterView(k, where) : k \in ks}
    BY <1>1, <1>2
  <1>4. IsFiniteSet(T)
    BY <1>1, <1>2, MappedFinite
  <1>5. es = SetToSeq(T)
    BY <1>3 DEF Entering
  <1>6. /\ es \in Seq(T) /\ Len(es) \in Nat
        /\ \A i \in 1 .. Len(es) : es[i] \in T
        /\ \A i \in 1 .. Len(es) : \A j \in 1 .. Len(es) : es[i] = es[j] => i = j
        /\ \A x \in T : \E i \in 1 .. Len(es) : es[i] = x
    BY <1>4, <1>5, SetToSeqFacts
  <1>7. \A k \in ks : g[k] = EnterView(k, where) /\ g[k].id = k
    BY <1>1, EnterViewFacts
  <1>8. \A i \in 1 .. Len(es) : es[i].id \in ks /\ es[i] = g[es[i].id]
    BY <1>2, <1>6, <1>7
  <1>9. \A i \in 1 .. Len(es) : es[i] = EnterView(es[i].id, where)
    BY <1>7, <1>8
  <1>10. \A i \in 1 .. Len(es) : \A j \in 1 .. Len(es) : es[i].id = es[j].id => i = j
    BY <1>6, <1>8
  <1>11. \A x \in ks : \E i \in 1 .. Len(es) : es[i].id = x
    <2>1. ASSUME NEW x \in ks PROVE \E i \in 1 .. Len(es) : es[i].id = x
      <3>1. g[x] \in T
        BY <1>2
      <3>2. PICK i \in 1 .. Len(es) : es[i] = g[x]
        BY <1>6, <3>1
      <3> QED
        BY <1>7, <3>2
    <2> QED
      BY <2>1
  <1>12. IsSeq(es)
    BY <1>6 DEF IsSeq
  <1> QED
    BY <1>6, <1>8, <1>9, <1>10, <1>11, <1>12 DEF Covers

Subscribing(S) == SetToSeq({[type |-> "ChannelSubscribed", id |-> x] : x \in S})

LEMMA SubscribingFacts ==
  ASSUME NEW S, IsFiniteSet(S), NEW es, es = Subscribing(S)
  PROVE  /\ Covers(es, S)
         /\ \A i \in 1 .. Len(es) : es[i].type = "ChannelSubscribed"
  <1>1. PICK g : g = [k \in S |-> [type |-> "ChannelSubscribed", id |-> k]]
    OBVIOUS
  <1>2. PICK T : T = {g[k] : k \in S}
    OBVIOUS
  <1>3. T = {[type |-> "ChannelSubscribed", id |-> k] : k \in S}
    BY <1>1, <1>2
  <1>4. IsFiniteSet(T)
    BY <1>1, <1>2, MappedFinite
  <1>5. es = SetToSeq(T)
    BY <1>3 DEF Subscribing
  <1>6. /\ es \in Seq(T) /\ Len(es) \in Nat
        /\ \A i \in 1 .. Len(es) : es[i] \in T
        /\ \A i \in 1 .. Len(es) : \A j \in 1 .. Len(es) : es[i] = es[j] => i = j
        /\ \A x \in T : \E i \in 1 .. Len(es) : es[i] = x
    BY <1>4, <1>5, SetToSeqFacts
  <1>7. \A k \in S : g[k].type = "ChannelSubscribed" /\ g[k].id = k
    BY <1>1
  <1>8. \A i \in 1 .. Len(es) : es[i].id \in S /\ es[i] = g[es[i].id]
    BY <1>2, <1>6, <1>7
  <1>9. \A i \in 1 .. Len(es) : es[i].type = "ChannelSubscribed"
    BY <1>7, <1>8
  <1>10. \A i \in 1 .. Len(es) : \A j \in 1 .. Len(es) : es[i].id = es[j].id => i = j
    BY <1>6, <1>8
  <1>11. \A x \in S : \E i \in 1 .. Len(es) : es[i].id = x
    <2>1. ASSUME NEW x \in S PROVE \E i \in 1 .. Len(es) : es[i].id = x
      <3>1. g[x] \in T
        BY <1>2
      <3>2. PICK i \in 1 .. Len(es) : es[i] = g[x]
        BY <1>6, <3>1
      <3> QED
        BY <1>7, <3>2
    <2> QED
      BY <2>1
  <1>12. IsSeq(es)
    BY <1>6 DEF IsSeq
  <1> QED
    BY <1>6, <1>8, <1>9, <1>10, <1>11, <1>12 DEF Covers

\* The list of channels, each once.
Listing(list) ==
  [i \in DOMAIN list |-> ChannelMessage("ChannelList", list[i],
                   ParentOf(list[i]), OrderOf(list[i]), Fields(attrs[list[i]]))]

LEMMA ListingFacts ==
  ASSUME IsFiniteSet(Present), NEW list \in SetToSeqs(Present), NEW es, es = Listing(list)
  PROVE  /\ Covers(es, Present)
         /\ \A i \in 1 .. Len(es) : \E id \in Present :
              Says(es[i], "ChannelList", id, ParentOf(id), OrderOf(id), Fields(attrs[id]))
  <1>1. PICK n \in Nat : n = Cardinality(Present)
    BY FS_CardinalityType
  <1>2. /\ list \in [1 .. n -> Present]
        /\ \A i \in 1 .. n : \A j \in 1 .. n : list[i] = list[j] => i = j
    BY <1>1 DEF SetToSeqs
  <1>3. \A x \in Present : \E i \in 1 .. n : list[i] = x
    <2>1. list \in Injection(1 .. n, Present)
      BY <1>2 DEF Injection, IsInjective
    <2>2. Cardinality(1 .. n) = n
      BY FS_Interval
    <2>3. list \in Surjection(1 .. n, Present)
      BY <1>1, <2>1, <2>2, FS_Injection
    <2> QED
      BY <2>3 DEF Surjection
  <1>4. DOMAIN es = 1 .. n /\ es = [i \in 1 .. n |-> es[i]]
    BY <1>2 DEF Listing
  <1>5. \A i \in 1 .. n : es[i] = ChannelMessage("ChannelList", list[i],
                   ParentOf(list[i]), OrderOf(list[i]), Fields(attrs[list[i]]))
    BY <1>2 DEF Listing
  <1>6. PICK E : E = {es[i] : i \in 1 .. n}
    OBVIOUS
  <1>7. es \in Seq(E) /\ Len(es) = n
    <2>1. es \in [1 .. n -> E]
      BY <1>4, <1>6
    <2> QED
      BY <2>1, FunctionSeq
  <1>8. ASSUME NEW i \in 1 .. n
        PROVE  /\ list[i] \in Present /\ es[i].id = list[i]
               /\ Says(es[i], "ChannelList", list[i], ParentOf(list[i]), OrderOf(list[i]), Fields(attrs[list[i]]))
    <2>1. PICK id, parent, order, F, type :
            id = list[i] /\ parent = ParentOf(id) /\ order = OrderOf(id) /\ F = Fields(attrs[id])
            /\ type = "ChannelList"
      OBVIOUS
    <2>2. es[i] = ChannelMessage(type, id, parent, order, F)
      BY <1>5, <2>1
    <2>3. Says(es[i], type, id, parent, order, F)
      BY <2>2, ChannelMessageSays
    <2>4. es[i].id = id
      BY <2>3 DEF Says
    <2>5. list[i] \in Present
      BY <1>2
    <2> QED
      BY <2>1, <2>3, <2>4, <2>5
  <1>9. IsSeq(es)
    BY <1>7 DEF IsSeq
  <1>10. Covers(es, Present)
    <2>1. \A i \in 1 .. n : es[i].id = list[i] /\ list[i] \in Present
      BY <1>8
    <2> QED
      BY <1>2, <1>3, <1>7, <1>9, <2>1 DEF Covers
  <1> QED
    BY <1>7, <1>8, <1>10

\* In the book there are the clients S, as the server knows them.
Sees(k, where, S) ==
  /\ DOMAIN k = S
  /\ \A x \in S : At(k, x, "channel") = where[x].channel /\ At(k, x, "away") = where[x].away

\* T has S and R.
Union2(T, S, R) == \A x : x \in T <=> x \in S \/ x \in R

EnterPhase(b, r, where, S, es, n) ==
  /\ Leads(b, r) /\ r.channels = b.channels
  /\ \A x : x \in DOMAIN r.clients <=> x \in S \/ \E i \in 1 .. n : es[i].id = x
  /\ \A x \in DOMAIN r.clients : At(r.clients, x, "channel") = where[x].channel
                                 /\ At(r.clients, x, "away") = where[x].away

\* Clients come into view, one after the other.
LEMMA EnterAll ==
  ASSUME NEW b, Good(b), NEW where, NEW S, Sees(b.clients, where, S),
         NEW ks, IsFiniteSet(ks), \A x \in ks : x \notin S,
         NEW T, Union2(T, S, ks), NEW r, Reaches(b, Entering(ks, where), r)
  PROVE  Leads(b, r) /\ r.channels = b.channels /\ Sees(r.clients, where, T)
  <1>1. PICK es : es = Entering(ks, where)
    OBVIOUS
  <1>2. Covers(es, ks) /\ \A i \in 1 .. Len(es) : es[i] = EnterView(es[i].id, where)
    BY <1>1, EnteringFacts
  <1>3. PICK len \in Nat : len = Len(es)
    BY <1>2 DEF Covers
  <1>4. /\ \A i \in 1 .. len : es[i].id \in ks
        /\ \A i \in 1 .. len : \A j \in 1 .. len : es[i].id = es[j].id => i = j
        /\ \A x \in ks : \E i \in 1 .. len : es[i].id = x
    BY <1>2, <1>3 DEF Covers
  <1>5. PICK p : p[0] = b /\ p[len] = r /\ \A n \in 1 .. len : p[n] \in HandleCommand(p[n - 1], es[n])
    BY <1>1, <1>3 DEF Reaches, Walk
  <1>6. PICK G : G = {n \in 0 .. len : EnterPhase(b, p[n], where, S, es, n)}
    OBVIOUS
  <1>7. 0 \in G
    <2>1. Leads(b, b)
      BY LeadsSelf
    <2>2. EnterPhase(b, b, where, S, es, 0)
      BY <2>1 DEF EnterPhase, Sees
    <2> QED
      BY <1>5, <1>6, <2>2
  <1>8. ASSUME NEW n \in 1 .. len, n - 1 \in G PROVE n \in G
    <2>1. PICK a, q, m, id : a = p[n - 1] /\ q = p[n] /\ m = es[n] /\ id = es[n].id
      OBVIOUS
    <2>2. EnterPhase(b, a, where, S, es, n - 1) /\ n \in 0 .. len
      BY <1>6, <1>8, <2>1
    <2>3. q \in HandleCommand(a, m) /\ m = EnterView(id, where) /\ id \in ks
      BY <1>2, <1>3, <1>4, <1>5, <2>1
    <2>4. /\ m.type = "ClientEnterView" /\ m.id = id /\ m.channel = where[id].channel
          /\ (IF m.is_away THEN m.message ELSE Nothing) = where[id].away
      BY <2>3, EnterViewFacts
    <2>5. id \notin DOMAIN a.clients
      <3>1. ASSUME NEW i \in 1 .. n - 1, es[i].id = id PROVE FALSE
        <4>1. i \in 1 .. len /\ i # n
          OBVIOUS
        <4> QED
          BY <1>4, <2>1, <3>1, <4>1
      <3>2. id \notin S
        BY <2>3
      <3> QED
        BY <2>2, <3>1, <3>2 DEF EnterPhase
    <2>6. Good(a) /\ Leads(b, a) /\ a.channels = b.channels
      BY <2>2 DEF EnterPhase, Leads
    <2>7. Leads(a, q) /\ SameChannels(m, a.channels, q.channels) /\ EnterEffect(m, a.clients, q.clients)
      BY <2>3, <2>4, <2>5, <2>6, EnterCommand
    <2>8. Leads(b, q)
      BY <2>6, <2>7, LeadsTransitive
    <2>9. \A x : x \in DOMAIN q.clients <=> x \in DOMAIN a.clients \/ x = id
      BY <2>4, <2>7 DEF EnterEffect
    <2>10. \A x : x \in DOMAIN q.clients <=> x \in S \/ \E i \in 1 .. n : es[i].id = x
      <3>1. \A x : x \in DOMAIN a.clients <=> x \in S \/ \E i \in 1 .. n - 1 : es[i].id = x
        BY <2>2 DEF EnterPhase
      <3>2. \A x : (\E i \in 1 .. n : es[i].id = x) <=> (\E i \in 1 .. n - 1 : es[i].id = x) \/ x = id
        <4>1. \A i \in 1 .. n : i \in 1 .. n - 1 \/ i = n
          OBVIOUS
        <4>2. n \in 1 .. n /\ \A i \in 1 .. n - 1 : i \in 1 .. n
          OBVIOUS
        <4> QED
          BY <2>1, <4>1, <4>2
      <3> QED
        BY <2>9, <3>1, <3>2
    <2>11. ASSUME NEW x \in DOMAIN q.clients
           PROVE  At(q.clients, x, "channel") = where[x].channel /\ At(q.clients, x, "away") = where[x].away
      <3>1. CASE x = id
        BY <2>4, <2>7, <3>1 DEF EnterEffect
      <3>2. CASE x # id
        <4>1. x \in DOMAIN a.clients
          BY <2>9, <3>2
        <4>2. SameClient(a.clients, q.clients, x)
          BY <2>7, <4>1 DEF EnterEffect
        <4>3. At(a.clients, x, "channel") = where[x].channel /\ At(a.clients, x, "away") = where[x].away
          BY <2>2, <4>1 DEF EnterPhase
        <4> QED
          BY <4>2, <4>3 DEF SameClient
      <3> QED
        BY <3>1, <3>2
    <2>12. EnterPhase(b, q, where, S, es, n)
      BY <2>6, <2>7, <2>8, <2>10, <2>11 DEF EnterPhase, SameChannels
    <2> QED
      BY <1>6, <2>1, <2>2, <2>12
  <1>9. EnterPhase(b, r, where, S, es, len)
    <2>1. len \in G
      BY <1>7, <1>8, Climb
    <2> QED
      BY <1>5, <1>6, <2>1
  <1>10. DOMAIN r.clients = T
    <2>1. \A x : (\E i \in 1 .. len : es[i].id = x) <=> x \in ks
      BY <1>4
    <2>2. \A x : x \in DOMAIN r.clients <=> x \in T
      BY <1>9, <2>1 DEF EnterPhase, Union2
    <2> QED
      BY <2>2
  <1> QED
    BY <1>9, <1>10 DEF EnterPhase, Sees

SubscribePhase(b, r, t, at, S, es, n) ==
  /\ Leads(b, r) /\ SameView(b.clients, r.clients)
  /\ \E D : /\ \A x : x \in D <=> x \in S /\ \E i \in 1 .. n : es[i].id = x
            /\ BookOK(r.channels, t, at, D)

\* Channels are subscribed, one after the other.
LEMMA SubscribeAll ==
  ASSUME NEW b, Good(b), NEW t, NEW at, BookOK(b.channels, t, at, {}),
         NEW S, IsFiniteSet(S), S \subseteq DOMAIN at, NEW r, Reaches(b, Subscribing(S), r)
  PROVE  Leads(b, r) /\ SameView(b.clients, r.clients) /\ BookOK(r.channels, t, at, S)
  <1>1. PICK es : es = Subscribing(S)
    OBVIOUS
  <1>2. Covers(es, S) /\ \A i \in 1 .. Len(es) : es[i].type = "ChannelSubscribed"
    BY <1>1, SubscribingFacts
  <1>3. PICK len \in Nat : len = Len(es)
    BY <1>2 DEF Covers
  <1>4. /\ \A i \in 1 .. len : es[i].id \in S
        /\ \A x \in S : \E i \in 1 .. len : es[i].id = x
    BY <1>2, <1>3 DEF Covers
  <1>5. PICK p : p[0] = b /\ p[len] = r /\ \A n \in 1 .. len : p[n] \in HandleCommand(p[n - 1], es[n])
    BY <1>1, <1>3 DEF Reaches, Walk
  <1>6. PICK G : G = {n \in 0 .. len : SubscribePhase(b, p[n], t, at, S, es, n)}
    OBVIOUS
  <1>7. 0 \in G
    <2>1. Leads(b, b) /\ SameView(b.clients, b.clients)
      BY LeadsSelf DEF SameView
    <2>2. \A i \in 1 .. 0 : FALSE
      OBVIOUS
    <2>3. SubscribePhase(b, b, t, at, S, es, 0)
      BY <2>1, <2>2 DEF SubscribePhase
    <2> QED
      BY <1>5, <1>6, <2>3
  <1>8. ASSUME NEW n \in 1 .. len, n - 1 \in G PROVE n \in G
    <2>1. PICK a, q, m, id : a = p[n - 1] /\ q = p[n] /\ m = es[n] /\ id = es[n].id
      OBVIOUS
    <2>2. SubscribePhase(b, a, t, at, S, es, n - 1) /\ n \in 0 .. len
      BY <1>6, <1>8, <2>1
    <2>3. q \in HandleCommand(a, m) /\ m.type = "ChannelSubscribed" /\ m.id = id /\ id \in S
      BY <1>2, <1>3, <1>4, <1>5, <2>1
    <2>4. PICK D : /\ \A x : x \in D <=> x \in S /\ \E i \in 1 .. n - 1 : es[i].id = x
                   /\ BookOK(a.channels, t, at, D)
      BY <2>2 DEF SubscribePhase
    <2>5. Good(a) /\ Leads(b, a) /\ SameView(b.clients, a.clients)
      BY <2>2 DEF SubscribePhase, Leads
    <2>6. id \in DOMAIN at /\ m.id \in DOMAIN a.channels
      BY <2>3, <2>4 DEF BookOK
    <2>7. /\ Leads(a, q) /\ SameView(a.clients, q.clients)
          /\ SubscribeEffect(m, a.channels, q.channels)
      BY <2>3, <2>5, <2>6, SubscribeCommand
    <2>8. Leads(b, q)
      BY <2>5, <2>7, LeadsTransitive
    <2>9. SameView(b.clients, q.clients)
      BY <2>5, <2>7 DEF SameView
    <2>10. PICK E : E = D \cup {id}
      OBVIOUS
    <2>11. AddedTo(E, D, id)
      BY <2>10 DEF AddedTo
    <2>12. Differs(a.channels, q.channels, id, {"subscribed"}) /\ At(q.channels, id, "subscribed") = TRUE
      BY <2>3, <2>7 DEF SubscribeEffect
    <2>13. BookOK(q.channels, t, at, E)
      BY <2>4, <2>6, <2>11, <2>12, SubscribedBook
    <2>14. \A x : x \in E <=> x \in S /\ \E i \in 1 .. n : es[i].id = x
      <3>1. \A x : x \in E <=> x \in D \/ x = id
        BY <2>10
      <3>2. \A x : (\E i \in 1 .. n : es[i].id = x) <=> (\E i \in 1 .. n - 1 : es[i].id = x) \/ x = id
        <4>1. \A i \in 1 .. n : i \in 1 .. n - 1 \/ i = n
          OBVIOUS
        <4>2. n \in 1 .. n /\ \A i \in 1 .. n - 1 : i \in 1 .. n
          OBVIOUS
        <4> QED
          BY <2>1, <4>1, <4>2
      <3> QED
        BY <2>3, <2>4, <3>1, <3>2
    <2>15. SubscribePhase(b, q, t, at, S, es, n)
      BY <2>8, <2>9, <2>13, <2>14 DEF SubscribePhase
    <2> QED
      BY <1>6, <2>1, <2>2, <2>15
  <1>9. SubscribePhase(b, r, t, at, S, es, len)
    <2>1. len \in G
      BY <1>7, <1>8, Climb
    <2> QED
      BY <1>5, <1>6, <2>1
  <1>10. PICK D : /\ \A x : x \in D <=> x \in S /\ \E i \in 1 .. len : es[i].id = x
                  /\ BookOK(r.channels, t, at, D)
    BY <1>9 DEF SubscribePhase
  <1>11. D = S
    BY <1>4, <1>10
  <1> QED
    BY <1>9, <1>10, <1>11 DEF SubscribePhase

ListPhase(b, r, es, n) ==
  /\ Leads(b, r) /\ SameView(b.clients, r.clients)
  /\ \E D : /\ \A x : x \in D <=> x \in Present /\ \E i \in 1 .. n : es[i].id = x
            /\ Listed(r.channels, tree, attrs, D)

\* The list of channels is read into an empty book.
LEMMA ListAll ==
  ASSUME NEW b, Good(b), DOMAIN b.channels = {}, ServerTree(tree, attrs), IsFiniteSet(Present),
         \A x \in Present : attrs[x] \in Attributes,
         NEW list \in SetToSeqs(Present), NEW r, Reaches(b, Listing(list), r)
  PROVE  Leads(b, r) /\ SameView(b.clients, r.clients) /\ BookOK(r.channels, tree, attrs, {})
  <1>1. PICK es : es = Listing(list)
    OBVIOUS
  <1>2. /\ Covers(es, Present)
        /\ \A i \in 1 .. Len(es) : \E id \in Present :
              Says(es[i], "ChannelList", id, ParentOf(id), OrderOf(id), Fields(attrs[id]))
    BY <1>1, ListingFacts
  <1>3. PICK len \in Nat : len = Len(es)
    BY <1>2 DEF Covers
  <1>4. /\ \A i \in 1 .. len : \A j \in 1 .. len : es[i].id = es[j].id => i = j
        /\ \A x \in Present : \E i \in 1 .. len : es[i].id = x
    BY <1>2, <1>3 DEF Covers
  <1>5. PICK p : p[0] = b /\ p[len] = r /\ \A n \in 1 .. len : p[n] \in HandleCommand(p[n - 1], es[n])
    BY <1>1, <1>3 DEF Reaches, Walk
  <1>6. PICK G : G = {n \in 0 .. len : ListPhase(b, p[n], es, n)}
    OBVIOUS
  <1>7. 0 \in G
    <2>1. Leads(b, b) /\ SameView(b.clients, b.clients)
      BY LeadsSelf DEF SameView
    <2>2. \A i \in 1 .. 0 : FALSE
      OBVIOUS
    <2>3. Listed(b.channels, tree, attrs, {})
      BY DEF Listed, Good
    <2>4. ListPhase(b, b, es, 0)
      BY <2>1, <2>2, <2>3 DEF ListPhase
    <2> QED
      BY <1>5, <1>6, <2>4
  <1>8. ASSUME NEW n \in 1 .. len, n - 1 \in G PROVE n \in G
    <2>1. PICK a, q, m, type : a = p[n - 1] /\ q = p[n] /\ m = es[n] /\ type = "ChannelList"
      OBVIOUS
    <2>2. ListPhase(b, a, es, n - 1) /\ n \in 0 .. len
      BY <1>6, <1>8, <2>1
    <2>3. q \in HandleCommand(a, m)
      BY <1>5, <2>1
    <2>4. PICK id \in Present : Says(m, type, id, ParentOf(id), OrderOf(id), Fields(attrs[id]))
      BY <1>2, <1>3, <2>1
    <2>5. m.type = "ChannelList" /\ m.id = id
      BY <2>1, <2>4 DEF Says
    <2>6. PICK D : /\ \A x : x \in D <=> x \in Present /\ \E i \in 1 .. n - 1 : es[i].id = x
                   /\ Listed(a.channels, tree, attrs, D)
      BY <2>2 DEF ListPhase
    <2>7. id \notin D
      <3>1. ASSUME NEW i \in 1 .. n - 1, es[i].id = id PROVE FALSE
        <4>1. i \in 1 .. len /\ i # n
          OBVIOUS
        <4> QED
          BY <1>4, <2>1, <2>5, <3>1, <4>1
      <3> QED
        BY <2>6, <3>1
    <2>8. Good(a) /\ Leads(b, a) /\ SameView(b.clients, a.clients)
      BY <2>2 DEF ListPhase, Leads
    <2>9. m.id \notin DOMAIN a.channels
      BY <2>5, <2>6, <2>7 DEF Listed
    <2>10. /\ Leads(a, q) /\ SameView(a.clients, q.clients)
           /\ ListEffect(m, a.channels, q.channels)
      BY <2>3, <2>5, <2>8, <2>9, ListCommand
    <2>11. Leads(b, q)
      BY <2>8, <2>10, LeadsTransitive
    <2>12. SameView(b.clients, q.clients)
      BY <2>8, <2>10 DEF SameView
    <2>13. PICK E : E = D \cup {id}
      OBVIOUS
    <2>14. AddedTo(E, D, id)
      BY <2>13 DEF AddedTo
    <2>15. PICK pp, o : pp = ParentOf(id) /\ o = OrderOf(id)
      OBVIOUS
    <2>16. PICK at \in Attributes : at = attrs[id]
      OBVIOUS
    <2>17. Place(tree, id, pp, o) /\ Says(m, type, id, pp, o, Fields(at)) /\ id \in DOMAIN attrs
      BY <2>4, <2>15, <2>16, WhereIs DEF Present
    <2>18. Listed(q.channels, tree, attrs, E)
      BY <2>6, <2>7, <2>10, <2>14, <2>16, <2>17, ListBook
    <2>19. \A x : x \in E <=> x \in Present /\ \E i \in 1 .. n : es[i].id = x
      <3>1. \A x : x \in E <=> x \in D \/ x = id
        BY <2>13
      <3>2. \A x : (\E i \in 1 .. n : es[i].id = x) <=> (\E i \in 1 .. n - 1 : es[i].id = x) \/ x = id
        <4>1. \A i \in 1 .. n : i \in 1 .. n - 1 \/ i = n
          OBVIOUS
        <4>2. n \in 1 .. n /\ \A i \in 1 .. n - 1 : i \in 1 .. n
          OBVIOUS
        <4> QED
          BY <2>1, <2>5, <4>1, <4>2
      <3> QED
        BY <2>4, <2>6, <3>1, <3>2
    <2>20. ListPhase(b, q, es, n)
      BY <2>11, <2>12, <2>18, <2>19 DEF ListPhase
    <2> QED
      BY <1>6, <2>1, <2>2, <2>20
  <1>9. ListPhase(b, r, es, len)
    <2>1. len \in G
      BY <1>7, <1>8, Climb
    <2> QED
      BY <1>5, <1>6, <2>1
  <1>10. PICK D : /\ \A x : x \in D <=> x \in Present /\ \E i \in 1 .. len : es[i].id = x
                  /\ Listed(r.channels, tree, attrs, D)
    BY <1>9 DEF ListPhase
  <1>11. D = DOMAIN attrs
    <2>1. D = Present
      BY <1>4, <1>10
    <2> QED
      BY <2>1 DEF Present
  <1>12. BookOK(r.channels, tree, attrs, {})
    <2>1. ASSUME NEW x \in DOMAIN attrs
          PROVE  At(r.channels, x, "subscribed") = (x \in {})
      <3>1. At(r.channels, x, "subscribed") = FALSE
        BY <1>10, <1>11 DEF Listed
      <3>2. (x \in {}) = FALSE
        OBVIOUS
      <3> QED
        BY <3>1, <3>2, Zenon
    <2> QED
      BY <1>10, <1>11, <2>1 DEF Listed, BookOK
  <1> QED
    BY <1>9, <1>12 DEF ListPhase

-----------------------------------------------------------------------------
(* The invariant of the book.                                              *)

MemberAttrs == {"channel", "name", "away"}
Aways == {Nothing, "lunch", "sleep"}

MembersOK(w, P) ==
  /\ Form(w, MemberAttrs) /\ DOMAIN w \subseteq Clients
  /\ \A k \in DOMAIN w : At(w, k, "channel") \in P /\ At(w, k, "away") \in Aways
AttrsOK(at) == DOMAIN at \subseteq Channels /\ \A c \in DOMAIN at : at[c] \in Attributes

\* The server is in order; we are in a channel that we have subscribed to.
ServerInv ==
  /\ ServerTree(tree, attrs) /\ AttrsOK(attrs) /\ MembersOK(members, DOMAIN attrs)
  /\ subscribed \subseteq DOMAIN attrs
  /\ joined => Own \in DOMAIN members /\ At(members, Own, "channel") \in subscribed

\* The book is empty, or what the server has and what we can see there.
BookSide ==
  /\ Form(channels, ChannelAttrs) /\ Form(clients, ClientAttrs)
  /\ ~joined => DOMAIN channels = {} /\ DOMAIN clients = {}
  /\ joined => BookOK(channels, tree, attrs, subscribed)
               /\ Sees(clients, members, Visible(members, subscribed))

BookInv == ServerInv /\ BookSide /\ told

LEMMA BeforeFacts ==
  ASSUME BookSide
  PROVE  /\ Good(Before) /\ Before.channels = channels /\ Before.clients = clients
         /\ Leads(Before, Before) /\ Trace(Before, Content(channels, clients))
  <1>1. PICK e : e = <<>>
    OBVIOUS
  <1>2. PICK b : b = Parts(channels, clients, e)
    OBVIOUS
  <1>3. b.channels = channels /\ b.clients = clients /\ b.events = e
    BY <1>2 DEF Parts
  <1>4. IsSeq(e)
    <2>1. <<>> \in Seq({})
      OBVIOUS
    <2> QED
      BY <1>1, <2>1 DEF IsSeq
  <1>5. Good(b)
    BY <1>2, <1>3, <1>4 DEF Good, BookSide
  <1>6. Trace(b, Content(channels, clients))
    BY <1>1, <1>3, BackNothing DEF Trace
  <1>7. Before = b
    BY <1>1, <1>2 DEF Before
  <1> QED
    BY <1>3, <1>5, <1>6, <1>7, LeadsSelf

\* The book after the commands of one step.
LEMMA SideFrom ==
  ASSUME BookSide, NEW r, Leads(Before, r), Becomes(r), joined',
         BookOK(r.channels, tree', attrs', subscribed'),
         Sees(r.clients, members', Visible(members', subscribed'))
  PROVE  BookSide' /\ told'
  <1>1. channels' = r.channels /\ clients' = r.clients /\ told' = (UndoneAll(r) = [channels |-> channels, clients |-> clients])
    BY DEF Becomes, Told
  <1>2. Good(r) /\ Trace(r, Content(channels, clients))
    BY BeforeFacts DEF Leads
  <1>3. UndoneAll(r) = Content(channels, clients)
    BY <1>2, UndoneAllFacts DEF Good, Trace
  <1>4. told'
    BY <1>1, <1>3 DEF Content
  <1>5. Form(channels', ChannelAttrs) /\ Form(clients', ClientAttrs)
    BY <1>1, <1>2 DEF Good
  <1>6. BookOK(channels', tree', attrs', subscribed')
        /\ Sees(clients', members', Visible(members', subscribed'))
    BY <1>1
  <1>7. BookSide'
    BY <1>5, <1>6 DEF BookSide
  <1> QED
    BY <1>4, <1>7

\* Before we have joined the book stays empty.
LEMMA SideEmpty ==
  ASSUME BookSide, ~joined, ~joined', NEW ms, Commands(ms)
  PROVE  BookSide' /\ told'
  <1>1. Becomes(Before)
    BY NoCommands
  <1>2. channels' = channels /\ clients' = clients /\ told' = (UndoneAll(Before) = [channels |-> channels, clients |-> clients])
    BY <1>1, BeforeFacts DEF Becomes, Told
  <1>3. UndoneAll(Before) = Content(channels, clients)
    BY BeforeFacts, UndoneAllFacts DEF Good, Trace
  <1>4. told'
    BY <1>2, <1>3 DEF Content
  <1>5. BookSide'
    BY <1>2 DEF BookSide
  <1> QED
    BY <1>4, <1>5

\* There are finitely many channels and clients.
LEMMA FiniteFacts ==
  ASSUME AttrsOK(attrs), NEW w, NEW P, MembersOK(w, P)
  PROVE  /\ IsFiniteSet(Present) /\ \A S : S \subseteq Present => IsFiniteSet(S)
         /\ \A S : S \subseteq DOMAIN w => IsFiniteSet(S)
  <1>1. IsFiniteSet(Channels) /\ IsFiniteSet(Clients)
    BY BookAssumption, Zenon
  <1>2. Present \subseteq Channels
    BY DEF AttrsOK, Present
  <1>3. DOMAIN w \subseteq Clients
    BY DEF MembersOK
  <1>4. \A S : S \subseteq Channels => IsFiniteSet(S)
    BY <1>1, FS_Subset
  <1>5. \A S : S \subseteq Clients => IsFiniteSet(S)
    BY <1>1, FS_Subset
  <1> QED
    BY <1>2, <1>3, <1>4, <1>5

\* A client that appears.
LEMMA NewMember ==
  ASSUME NEW w, NEW P, MembersOK(w, P), NEW k \in Clients, NEW c \in P, NEW name,
         NEW v, v = With(w, k, [channel |-> c, name |-> name, away |-> Nothing])
  PROVE  /\ MembersOK(v, P) /\ At(v, k, "channel") = c
         /\ \A x : x \in DOMAIN v <=> x \in DOMAIN w \/ x = k
         /\ \A x \in DOMAIN w : x # k => v[x] = w[x]
  <1>1. PICK value, A : value = [channel |-> c, name |-> name, away |-> Nothing] /\ A = MemberAttrs
    OBVIOUS
  <1>2. IsRecord(value, A)
    BY <1>1 DEF IsRecord, MemberAttrs
  <1>3. Form(w, A) /\ DOMAIN w \subseteq Clients
        /\ \A x \in DOMAIN w : At(w, x, "channel") \in P /\ At(w, x, "away") \in Aways
    BY <1>1 DEF MembersOK
  <1>4. /\ Form(v, A) /\ v[k] = value
        /\ \A y : y \in DOMAIN v <=> y \in DOMAIN w \/ y = k
        /\ \A y \in DOMAIN w : y # k => v[y] = w[y]
    <2>1. PICK u : u = With(w, k, value)
      OBVIOUS
    <2>2. /\ Form(u, A) /\ u[k] = value
          /\ \A y : y \in DOMAIN u <=> y \in DOMAIN w \/ y = k
          /\ \A y \in DOMAIN w : y # k => u[y] = w[y]
      BY <1>2, <1>3, <2>1, WithFacts
    <2>3. v = u
      BY <1>1, <2>1
    <2> QED
      BY <2>2, <2>3
  <1>5. value.channel = c /\ value.away = Nothing
    BY <1>1
  <1>6. At(v, k, "channel") = c /\ At(v, k, "away") \in Aways
    BY <1>4, <1>5 DEF At, Aways
  <1>7. ASSUME NEW x \in DOMAIN v
        PROVE  At(v, x, "channel") \in P /\ At(v, x, "away") \in Aways
    <2>1. CASE x = k
      BY <1>6, <2>1
    <2>2. CASE x # k
      BY <1>3, <1>4, <2>2 DEF At
    <2> QED
      BY <2>1, <2>2
  <1>8. DOMAIN v \subseteq Clients
    BY <1>3, <1>4
  <1>9. MembersOK(v, P)
    BY <1>1, <1>4, <1>7, <1>8 DEF MembersOK
  <1> QED
    BY <1>4, <1>6, <1>9

\* A client of which one attribute changes.
LEMMA ChangedMember ==
  ASSUME NEW w, NEW P, MembersOK(w, P), NEW k \in DOMAIN w, NEW attr \in MemberAttrs, NEW value,
         attr = "channel" => value \in P, attr = "away" => value \in Aways,
         NEW v, v = Put(w, k, attr, value)
  PROVE  /\ MembersOK(v, P) /\ At(v, k, attr) = value /\ DOMAIN v = DOMAIN w
         /\ \A x \in DOMAIN w : x # k => v[x] = w[x]
         /\ \A a \in MemberAttrs : a # attr => At(v, k, a) = At(w, k, a)
  <1>1. Form(w, MemberAttrs) /\ DOMAIN w \subseteq Clients
        /\ \A x \in DOMAIN w : At(w, x, "channel") \in P /\ At(w, x, "away") \in Aways
    BY DEF MembersOK
  <1>2. /\ Form(v, MemberAttrs) /\ DOMAIN v = DOMAIN w /\ At(v, k, attr) = value
        /\ \A y \in DOMAIN w : y # k => v[y] = w[y]
        /\ \A y \in DOMAIN w : \A a \in MemberAttrs : y # k \/ a # attr => At(v, y, a) = At(w, y, a)
    BY <1>1, PutFacts
  <1>3. "channel" \in MemberAttrs /\ "away" \in MemberAttrs
    BY DEF MemberAttrs
  <1>4. ASSUME NEW x \in DOMAIN v
        PROVE  At(v, x, "channel") \in P /\ At(v, x, "away") \in Aways
    <2>1. At(v, x, "channel") \in P
      <3>1. CASE x = k /\ attr = "channel"
        BY <1>2, <3>1
      <3>2. CASE ~(x = k /\ attr = "channel")
        <4>1. At(v, x, "channel") = At(w, x, "channel")
          BY <1>2, <1>3, <3>2
        <4> QED
          BY <1>1, <1>2, <4>1
      <3> QED
        BY <3>1, <3>2
    <2>2. At(v, x, "away") \in Aways
      <3>1. CASE x = k /\ attr = "away"
        BY <1>2, <3>1
      <3>2. CASE ~(x = k /\ attr = "away")
        <4>1. At(v, x, "away") = At(w, x, "away")
          BY <1>2, <1>3, <3>2
        <4> QED
          BY <1>1, <1>2, <4>1
      <3> QED
        BY <3>1, <3>2
    <2> QED
      BY <2>1, <2>2
  <1>5. MembersOK(v, P)
    BY <1>1, <1>2, <1>4 DEF MembersOK
  <1> QED
    BY <1>2, <1>5

LEMMA ReachesOne ==
  ASSUME NEW b, NEW m, NEW r, Reaches(b, <<m>>, r)
  PROVE  r \in HandleCommand(b, m)
  <1>1. PICK sent : sent = <<m>>
    OBVIOUS
  <1>2. Len(sent) = 1 /\ sent[1] = m /\ 1 \in 1 .. 1 /\ 1 - 1 = 0
    BY <1>1
  <1>3. PICK p : p[0] = b /\ p[1] = r /\ \A n \in 1 .. 1 : p[n] \in HandleCommand(p[n - 1], sent[n])
    BY <1>1, <1>2 DEF Reaches, Walk
  <1>4. p[1] \in HandleCommand(p[1 - 1], sent[1])
    BY <1>2, <1>3
  <1> QED
    BY <1>2, <1>3, <1>4

\* One command, and then clients that come into view.
LEMMA OneAndEntering ==
  ASSUME NEW m, NEW ks, IsFiniteSet(ks), NEW where, joined',
         Commands(<<m>> \o Entering(ks, where))
  PROVE  \E r, a : /\ Becomes(r) /\ a \in HandleCommand(Before, m)
                   /\ Reaches(a, Entering(ks, where), r)
  <1>1. PICK d, e : d = <<m>> /\ e = Entering(ks, where)
    OBVIOUS
  <1>2. PICK ms : ms = d \o e
    OBVIOUS
  <1>3. IsSeq(d)
    <2>1. <<m>> \in Seq({m})
      OBVIOUS
    <2> QED
      BY <1>1, <2>1 DEF IsSeq
  <1>4. IsSeq(e)
    BY <1>1, EnteringFacts DEF Covers
  <1>5. Len(ms) \in Nat
    BY <1>2, <1>3, <1>4, SeqFacts
  <1>6. PICK r : Reaches(Before, ms, r) /\ Becomes(r)
    BY <1>1, <1>2, <1>5, CommandsReach
  <1>7. Reaches(Before, d \o e, r)
    BY <1>2, <1>6
  <1>8. PICK a : Reaches(Before, d, a) /\ Reaches(a, e, r)
    BY <1>3, <1>4, <1>7, ReachesParts
  <1>9. a \in HandleCommand(Before, m)
    BY <1>1, <1>8, ReachesOne
  <1> QED
    BY <1>1, <1>6, <1>8, <1>9

LEMMA SameSees ==
  ASSUME NEW k, NEW w, NEW S, Sees(k, w, S), NEW d, SameView(k, d)
  PROVE  Sees(d, w, S)
  BY DEF Sees, SameView

\* To see the clients that are visible.
LEMMA SeesVisible ==
  ASSUME NEW d, NEW w, NEW s,
         \A x : x \in DOMAIN d <=> x \in DOMAIN w /\ At(w, x, "channel") \in s,
         \A x \in DOMAIN d : At(d, x, "channel") = At(w, x, "channel") /\ At(d, x, "away") = At(w, x, "away")
  PROVE  Sees(d, w, Visible(w, s))
  <1>1. \A x : x \in DOMAIN d <=> x \in Visible(w, s)
    BY DEF Visible, At
  <1>2. DOMAIN d = Visible(w, s)
    BY <1>1
  <1>3. \A x : At(w, x, "channel") = w[x].channel /\ At(w, x, "away") = w[x].away
    BY DEF At
  <1> QED
    BY <1>2, <1>3 DEF Sees

LEMMA VisibleSeen ==
  ASSUME NEW d, NEW w, NEW s, Sees(d, w, Visible(w, s))
  PROVE  /\ \A x : x \in DOMAIN d <=> x \in DOMAIN w /\ At(w, x, "channel") \in s
         /\ \A x \in DOMAIN d : At(d, x, "channel") = At(w, x, "channel") /\ At(d, x, "away") = At(w, x, "away")
  <1>1. \A x : x \in Visible(w, s) <=> x \in DOMAIN w /\ At(w, x, "channel") \in s
    BY DEF Visible, At
  <1>2. \A x : At(w, x, "channel") = w[x].channel /\ At(w, x, "away") = w[x].away
    BY DEF At
  <1> QED
    BY <1>1, <1>2 DEF Sees

\* A command that leaves the server as it is.
LEMMA OtherStep ==
  ASSUME BookInv, UNCHANGED server, NEW m, m.type \in {"ClientConnectionInfo", "TextMessage"},
         Commands(<<m>>)
  PROVE  BookInv'
  <1>1. /\ tree' = tree /\ attrs' = attrs /\ members' = members /\ subscribed' = subscribed
        /\ joined' = joined
    BY DEF server
  <1>2. ServerInv'
    BY <1>1 DEF BookInv, ServerInv
  <1>3. BookSide' /\ told'
    <2>1. CASE ~joined
      BY <1>1, <2>1, SideEmpty DEF BookInv
    <2>2. CASE joined
      <3>1. PICK r \in HandleCommand(Before, m) : Becomes(r)
        BY <1>1, <2>2, OneCommand
      <3>2. BookSide /\ BookOK(channels, tree, attrs, subscribed)
            /\ Sees(clients, members, Visible(members, subscribed))
        BY <2>2 DEF BookInv, BookSide
      <3>3. Leads(Before, r) /\ r.channels = channels /\ SameView(clients, r.clients)
        BY <3>1, <3>2, BeforeFacts, OtherCommand
      <3>4. Sees(r.clients, members, Visible(members, subscribed))
        BY <3>2, <3>3, SameSees
      <3>5. BookOK(r.channels, tree', attrs', subscribed')
            /\ Sees(r.clients, members', Visible(members', subscribed'))
        BY <1>1, <3>2, <3>3, <3>4
      <3>6. joined'
        BY <1>1, <2>2
      <3> QED
        BY <3>1, <3>2, <3>3, <3>5, <3>6, SideFrom
    <2> QED
      BY <2>1, <2>2
  <1> QED
    BY <1>2, <1>3 DEF BookInv

LEMMA SubscribeStep ==
  ASSUME BookInv, NEW c \in Channels, Subscribe(c)
  PROVE  BookInv'
  <1>1. /\ joined /\ c \in Present /\ c \notin subscribed /\ subscribed' = subscribed \cup {c}
        /\ tree' = tree /\ attrs' = attrs /\ members' = members /\ joined' = joined
    BY DEF Subscribe
  <1>2. ServerInv'
    BY <1>1 DEF BookInv, ServerInv, Present
  <1>3. PICK m : m = [type |-> "ChannelSubscribed", id |-> c]
    OBVIOUS
  <1>4. m.type = "ChannelSubscribed" /\ m.id = c
    BY <1>3
  <1>5. PICK ks : ks = Visible(members, {c})
    OBVIOUS
  <1>6. ks \subseteq DOMAIN members /\ \A x \in ks : At(members, x, "channel") = c
    BY <1>5 DEF Visible, At
  <1>7. IsFiniteSet(ks)
    <2>1. AttrsOK(attrs) /\ MembersOK(members, DOMAIN attrs)
      BY DEF BookInv, ServerInv
    <2> QED
      BY <1>6, <2>1, FiniteFacts
  <1>8. PICK r, a : /\ Becomes(r) /\ a \in HandleCommand(Before, m)
                    /\ Reaches(a, Entering(ks, members), r)
    <2>1. Commands(<<m>> \o Entering(ks, members)) /\ joined'
      BY <1>1, <1>3, <1>5 DEF Subscribe
    <2> QED
      BY <1>7, <2>1, OneAndEntering
  <1>9. BookSide /\ BookOK(channels, tree, attrs, subscribed)
        /\ Sees(clients, members, Visible(members, subscribed))
    BY <1>1 DEF BookInv, BookSide
  <1>10. /\ Good(Before) /\ Before.channels = channels /\ Before.clients = clients
    BY <1>9, BeforeFacts
  <1>11. DOMAIN channels = DOMAIN attrs /\ c \in DOMAIN attrs
    BY <1>1, <1>9 DEF BookOK, Present
  <1>12. Leads(Before, a) /\ SameView(clients, a.clients) /\ SubscribeEffect(m, channels, a.channels)
    BY <1>4, <1>8, <1>10, <1>11, SubscribeCommand
  <1>13. BookOK(a.channels, tree, attrs, subscribed')
    <2>1. AddedTo(subscribed', subscribed, c)
      BY <1>1 DEF AddedTo
    <2>2. Differs(channels, a.channels, c, {"subscribed"}) /\ At(a.channels, c, "subscribed") = TRUE
      BY <1>4, <1>12 DEF SubscribeEffect
    <2> QED
      BY <1>9, <1>11, <2>1, <2>2, SubscribedBook
  <1>14. PICK S, T : S = Visible(members, subscribed) /\ T = Visible(members, subscribed')
    OBVIOUS
  <1>15. Sees(a.clients, members, S)
    BY <1>9, <1>12, <1>14, SameSees
  <1>16. Union2(T, S, ks) /\ \A x \in ks : x \notin S
    BY <1>1, <1>5, <1>14 DEF Union2, Visible
  <1>17. Good(a)
    BY <1>12 DEF Leads
  <1>18. Leads(a, r) /\ r.channels = a.channels /\ Sees(r.clients, members, T)
    BY <1>7, <1>8, <1>15, <1>16, <1>17, EnterAll
  <1>19. Leads(Before, r)
    BY <1>12, <1>18, LeadsTransitive
  <1>20. BookOK(r.channels, tree', attrs', subscribed')
         /\ Sees(r.clients, members', Visible(members', subscribed'))
    BY <1>1, <1>13, <1>14, <1>18
  <1>21. BookSide' /\ told'
    <2>1. joined'
      BY <1>1
    <2> QED
      BY <1>8, <1>9, <1>19, <1>20, <2>1, SideFrom
  <1> QED
    BY <1>2, <1>21 DEF BookInv

LEMMA UnsubscribeStep ==
  ASSUME BookInv, NEW c \in Channels, Unsubscribe(c)
  PROVE  BookInv'
  <1>1. /\ joined /\ c \in subscribed /\ c # At(members, Own, "channel") /\ subscribed' = subscribed \ {c}
        /\ tree' = tree /\ attrs' = attrs /\ members' = members /\ joined' = joined
    BY DEF Unsubscribe, At
  <1>2. ServerInv'
    BY <1>1 DEF BookInv, ServerInv
  <1>3. PICK m : m = [type |-> "ChannelUnsubscribed", id |-> c]
    OBVIOUS
  <1>4. m.type = "ChannelUnsubscribed" /\ m.id = c
    BY <1>3
  <1>5. PICK r \in HandleCommand(Before, m) : Becomes(r)
    <2>1. Commands(<<m>>) /\ joined'
      BY <1>1, <1>3 DEF Unsubscribe
    <2> QED
      BY <2>1, OneCommand
  <1>6. BookSide /\ BookOK(channels, tree, attrs, subscribed)
        /\ Sees(clients, members, Visible(members, subscribed))
    BY <1>1 DEF BookInv, BookSide
  <1>7. /\ Good(Before) /\ Before.channels = channels /\ Before.clients = clients
    BY <1>6, BeforeFacts
  <1>8. DOMAIN channels = DOMAIN attrs /\ c \in DOMAIN attrs
    BY <1>1, <1>6 DEF BookOK, BookInv, ServerInv
  <1>9. /\ \A x : x \in DOMAIN clients <=> x \in DOMAIN members /\ At(members, x, "channel") \in subscribed
        /\ \A x \in DOMAIN clients : At(clients, x, "channel") = At(members, x, "channel")
                                     /\ At(clients, x, "away") = At(members, x, "away")
    BY <1>6, VisibleSeen
  <1>10. IsFiniteSet(DOMAIN clients)
    <2>1. AttrsOK(attrs) /\ MembersOK(members, DOMAIN attrs)
      BY DEF BookInv, ServerInv
    <2>2. DOMAIN clients \subseteq DOMAIN members
      BY <1>9
    <2> QED
      BY <2>1, <2>2, FiniteFacts
  <1>11. Leads(Before, r) /\ UnsubscribeEffect(m, channels, r.channels) /\ GoneEffect(m, clients, r.clients)
    BY <1>4, <1>7, <1>8, <1>10, UnsubscribeCommand
  <1>12. BookOK(r.channels, tree, attrs, subscribed')
    <2>1. TakenFrom(subscribed', subscribed, c)
      BY <1>1 DEF TakenFrom
    <2>2. Differs(channels, r.channels, c, {"subscribed"}) /\ At(r.channels, c, "subscribed") = FALSE
      BY <1>4, <1>11 DEF UnsubscribeEffect
    <2> QED
      BY <1>6, <1>8, <2>1, <2>2, SubscribedBook
  <1>13. Sees(r.clients, members, Visible(members, subscribed'))
    <2>1. /\ \A x : x \in DOMAIN r.clients <=> x \in DOMAIN clients /\ At(clients, x, "channel") # c
          /\ \A x \in DOMAIN r.clients : SameClient(clients, r.clients, x)
      BY <1>4, <1>11 DEF GoneEffect
    <2>2. \A x : x \in DOMAIN r.clients <=> x \in DOMAIN members /\ At(members, x, "channel") \in subscribed'
      BY <1>1, <1>9, <2>1
    <2>3. \A x \in DOMAIN r.clients : At(r.clients, x, "channel") = At(members, x, "channel")
                                      /\ At(r.clients, x, "away") = At(members, x, "away")
      BY <1>9, <2>1 DEF SameClient
    <2> QED
      BY <2>2, <2>3, SeesVisible
  <1>14. BookOK(r.channels, tree', attrs', subscribed')
         /\ Sees(r.clients, members', Visible(members', subscribed')) /\ joined'
    BY <1>1, <1>12, <1>13
  <1>15. BookSide' /\ told'
    BY <1>5, <1>6, <1>11, <1>14, SideFrom
  <1> QED
    BY <1>2, <1>15 DEF BookInv

LEMMA TextStep ==
  ASSUME BookInv, NEW k, NEW target, Text(k, target)
  PROVE  BookInv'
  <1>1. PICK m : m = [type |-> "TextMessage", target |-> target, invoker |-> Invoker(k)]
    OBVIOUS
  <1>2. m.type = "TextMessage"
    BY <1>1
  <1>3. UNCHANGED server /\ Commands(<<m>>)
    BY <1>1 DEF Text
  <1> QED
    BY <1>2, <1>3, OtherStep

LEMMA ConnectionInfoStep ==
  ASSUME BookInv, NEW k, NEW data, ConnectionInfo(k, data)
  PROVE  BookInv'
  <1>1. PICK m : m = [type |-> "ClientConnectionInfo", id |-> k, data |-> data]
    OBVIOUS
  <1>2. m.type = "ClientConnectionInfo"
    BY <1>1
  <1>3. UNCHANGED server /\ Commands(<<m>>)
    BY <1>1 DEF ConnectionInfo
  <1> QED
    BY <1>2, <1>3, OtherStep

\* A step of the server that the client is not told about.
LEMMA UntoldSide ==
  ASSUME BookSide, joined, joined', Commands(<<>>), tree' = tree, attrs' = attrs, subscribed' = subscribed,
         \A x : x \in DOMAIN members' /\ At(members', x, "channel") \in subscribed
                <=> x \in DOMAIN members /\ At(members, x, "channel") \in subscribed,
         \A x \in DOMAIN members : At(members, x, "channel") \in subscribed => SameClient(members, members', x)
  PROVE  BookSide' /\ told'
  <1>1. PICK ms : ms = <<>>
    OBVIOUS
  <1>2. Becomes(Before)
    BY <1>1, NoCommands
  <1>3. BookOK(channels, tree, attrs, subscribed) /\ Sees(clients, members, Visible(members, subscribed))
    BY DEF BookSide
  <1>4. Leads(Before, Before) /\ Before.channels = channels /\ Before.clients = clients
    BY BeforeFacts
  <1>5. /\ \A x : x \in DOMAIN clients <=> x \in DOMAIN members /\ At(members, x, "channel") \in subscribed
        /\ \A x \in DOMAIN clients : At(clients, x, "channel") = At(members, x, "channel")
                                     /\ At(clients, x, "away") = At(members, x, "away")
    BY <1>3, VisibleSeen
  <1>6. PICK w : w = members'
    OBVIOUS
  <1>7. \A x : x \in DOMAIN clients <=> x \in DOMAIN w /\ At(w, x, "channel") \in subscribed
    BY <1>5, <1>6
  <1>8. \A x \in DOMAIN clients : At(clients, x, "channel") = At(w, x, "channel")
                                  /\ At(clients, x, "away") = At(w, x, "away")
    BY <1>5, <1>6 DEF SameClient
  <1>9. Sees(clients, w, Visible(w, subscribed))
    BY <1>7, <1>8, SeesVisible
  <1>10. BookOK(Before.channels, tree', attrs', subscribed')
         /\ Sees(Before.clients, members', Visible(members', subscribed'))
    BY <1>3, <1>4, <1>6, <1>9
  <1> QED
    BY <1>2, <1>4, <1>10, SideFrom

LEMMA LeaveStep ==
  ASSUME BookInv, NEW k \in Clients, Leave(k)
  PROVE  BookInv'
  <1>1. /\ k \in DOMAIN members /\ k # Own /\ members' = Without(members, k)
        /\ tree' = tree /\ attrs' = attrs /\ subscribed' = subscribed /\ joined' = joined
    BY DEF Leave
  <1>2. ServerTree(tree, attrs) /\ AttrsOK(attrs) /\ MembersOK(members, DOMAIN attrs)
        /\ subscribed \subseteq DOMAIN attrs
        /\ (joined => Own \in DOMAIN members /\ At(members, Own, "channel") \in subscribed)
    BY DEF BookInv, ServerInv
  <1>3. PICK w : w = members'
    OBVIOUS
  <1>4. Form(members, MemberAttrs) /\ DOMAIN members \subseteq Clients
        /\ \A x \in DOMAIN members : At(members, x, "channel") \in DOMAIN attrs /\ At(members, x, "away") \in Aways
    BY <1>2 DEF MembersOK
  <1>5. /\ Form(w, MemberAttrs) /\ \A y \in DOMAIN w : w[y] = members[y]
        /\ \A y : y \in DOMAIN w <=> y \in DOMAIN members /\ y # k
    <2>1. w = Without(members, k)
      BY <1>1, <1>3
    <2> QED
      BY <1>1, <1>4, <2>1, WithoutFacts
  <1>6. MembersOK(w, DOMAIN attrs)
    BY <1>4, <1>5 DEF MembersOK, At
  <1>7. joined => Own \in DOMAIN w /\ At(w, Own, "channel") \in subscribed
    BY <1>1, <1>2, <1>5 DEF At
  <1>8. ServerInv'
    BY <1>1, <1>2, <1>3, <1>6, <1>7 DEF ServerInv
  <1>9. BookSide' /\ told'
    <2>1. CASE ~joined
      <3>1. PICK ms : Commands(ms)
        BY DEF Leave
      <3> QED
        BY <1>1, <2>1, <3>1, SideEmpty DEF BookInv
    <2>2. CASE joined /\ k \notin Visible(members, subscribed)
      <3>1. Commands(<<>>)
        BY <2>2 DEF Leave
      <3>2. At(members, k, "channel") \notin subscribed
        BY <1>1, <2>2 DEF Visible, At
      <3>3. \A x : x \in DOMAIN w /\ At(w, x, "channel") \in subscribed
                <=> x \in DOMAIN members /\ At(members, x, "channel") \in subscribed
        BY <1>5, <3>2 DEF At
      <3>4. \A x \in DOMAIN members : At(members, x, "channel") \in subscribed => SameClient(members, w, x)
        BY <1>5, <3>2 DEF SameClient, At
      <3> QED
        BY <1>1, <1>3, <2>2, <3>1, <3>3, <3>4, UntoldSide DEF BookInv
    <2>3. CASE joined /\ k \in Visible(members, subscribed)
      <3>1. PICK m : m = LeftView(k)
        OBVIOUS
      <3>2. m.type = "ClientLeftView" /\ m.id = k
        BY <3>1 DEF LeftView
      <3>3. PICK r \in HandleCommand(Before, m) : Becomes(r)
        <4>1. Commands(<<m>>) /\ joined'
          BY <1>1, <2>3, <3>1 DEF Leave
        <4> QED
          BY <4>1, OneCommand
      <3>4. BookSide /\ BookOK(channels, tree, attrs, subscribed)
            /\ Sees(clients, members, Visible(members, subscribed))
        BY <2>3 DEF BookInv, BookSide
      <3>5. /\ Good(Before) /\ Before.channels = channels /\ Before.clients = clients
        BY <3>4, BeforeFacts
      <3>6. /\ \A x : x \in DOMAIN clients <=> x \in DOMAIN members /\ At(members, x, "channel") \in subscribed
            /\ \A x \in DOMAIN clients : At(clients, x, "channel") = At(members, x, "channel")
                                         /\ At(clients, x, "away") = At(members, x, "away")
        BY <3>4, VisibleSeen
      <3>7. k \in DOMAIN clients
        BY <2>3, <3>4 DEF Sees
      <3>8. Leads(Before, r) /\ SameChannels(m, channels, r.channels) /\ LeaveEffect(m, clients, r.clients)
        BY <3>2, <3>3, <3>5, <3>7, LeaveCommand
      <3>9. /\ \A x : x \in DOMAIN r.clients <=> x \in DOMAIN clients /\ x # k
            /\ \A x \in DOMAIN r.clients : SameClient(clients, r.clients, x)
        BY <3>2, <3>8 DEF LeaveEffect
      <3>10. \A x : x \in DOMAIN r.clients <=> x \in DOMAIN w /\ At(w, x, "channel") \in subscribed
        BY <1>5, <3>6, <3>9 DEF At
      <3>11. \A x \in DOMAIN r.clients : At(r.clients, x, "channel") = At(w, x, "channel")
                                         /\ At(r.clients, x, "away") = At(w, x, "away")
        BY <1>5, <3>6, <3>9, <3>10 DEF SameClient, At
      <3>12. Sees(r.clients, w, Visible(w, subscribed))
        BY <3>10, <3>11, SeesVisible
      <3>13. BookOK(r.channels, tree', attrs', subscribed')
             /\ Sees(r.clients, members', Visible(members', subscribed')) /\ joined'
        BY <1>1, <1>3, <2>3, <3>4, <3>8, <3>12 DEF SameChannels
      <3> QED
        BY <3>3, <3>4, <3>8, <3>13, SideFrom
    <2> QED
      BY <2>1, <2>2, <2>3
  <1> QED
    BY <1>8, <1>9 DEF BookInv

\* A client comes into view.
LEMMA EnterOne ==
  ASSUME BookSide, joined, NEW w, NEW k, k \notin DOMAIN clients, NEW m, m = EnterView(k, w),
         NEW r \in HandleCommand(Before, m),
         \A x \in DOMAIN clients : SameClient(clients, w, x),
         NEW s, \A x : x \in DOMAIN w /\ At(w, x, "channel") \in s <=> x \in DOMAIN clients \/ x = k
  PROVE  Leads(Before, r) /\ r.channels = channels /\ Sees(r.clients, w, Visible(w, s))
  <1>1. /\ m.type = "ClientEnterView" /\ m.id = k /\ m.channel = w[k].channel
        /\ (IF m.is_away THEN m.message ELSE Nothing) = w[k].away
    BY EnterViewFacts
  <1>2. /\ Good(Before) /\ Before.channels = channels /\ Before.clients = clients
    BY BeforeFacts
  <1>3. m.id \notin DOMAIN clients
    BY <1>1
  <1>4. Leads(Before, r) /\ SameChannels(m, channels, r.channels) /\ EnterEffect(m, clients, r.clients)
    BY <1>1, <1>2, <1>3, EnterCommand
  <1>5. /\ \A x : x \in DOMAIN r.clients <=> x \in DOMAIN clients \/ x = k
        /\ \A x \in DOMAIN clients : SameClient(clients, r.clients, x)
        /\ At(r.clients, k, "channel") = At(w, k, "channel")
        /\ At(r.clients, k, "away") = At(w, k, "away")
    <2>1. At(w, k, "channel") = w[k].channel /\ At(w, k, "away") = w[k].away
      BY DEF At
    <2> QED
      BY <1>1, <1>4, <2>1 DEF EnterEffect
  <1>6. \A x : x \in DOMAIN r.clients <=> x \in DOMAIN w /\ At(w, x, "channel") \in s
    BY <1>5
  <1>7. \A x \in DOMAIN r.clients : At(r.clients, x, "channel") = At(w, x, "channel")
                                    /\ At(r.clients, x, "away") = At(w, x, "away")
    BY <1>5 DEF SameClient
  <1>8. Sees(r.clients, w, Visible(w, s))
    BY <1>6, <1>7, SeesVisible
  <1> QED
    BY <1>4, <1>8 DEF SameChannels

LEMMA EnterStep ==
  ASSUME BookInv, NEW k \in Clients, NEW c \in Channels, Enter(k, c)
  PROVE  BookInv'
  <1>1. PICK name : name = CHOOSE n \in Names : TRUE
    OBVIOUS
  <1>2. /\ k \notin DOMAIN members /\ k # Own /\ c \in DOMAIN attrs
        /\ members' = With(members, k, [channel |-> c, name |-> name, away |-> Nothing])
        /\ tree' = tree /\ attrs' = attrs /\ subscribed' = subscribed /\ joined' = joined
    BY <1>1 DEF Enter, Present
  <1>3. ServerTree(tree, attrs) /\ AttrsOK(attrs) /\ MembersOK(members, DOMAIN attrs)
        /\ subscribed \subseteq DOMAIN attrs
        /\ (joined => Own \in DOMAIN members /\ At(members, Own, "channel") \in subscribed)
    BY DEF BookInv, ServerInv
  <1>4. PICK w : w = members'
    OBVIOUS
  <1>5. /\ MembersOK(w, DOMAIN attrs) /\ At(w, k, "channel") = c
        /\ \A x : x \in DOMAIN w <=> x \in DOMAIN members \/ x = k
        /\ \A x \in DOMAIN members : x # k => w[x] = members[x]
    <2>1. w = With(members, k, [channel |-> c, name |-> name, away |-> Nothing])
      BY <1>2, <1>4
    <2> QED
      BY <1>2, <1>3, <2>1, NewMember
  <1>6. joined => Own \in DOMAIN w /\ At(w, Own, "channel") \in subscribed
    BY <1>2, <1>3, <1>5 DEF At
  <1>7. ServerInv'
    BY <1>2, <1>3, <1>4, <1>5, <1>6 DEF ServerInv
  <1>8. \A x \in DOMAIN members : w[x] = members[x]
    BY <1>2, <1>5
  <1>9. BookSide' /\ told'
    <2>1. CASE ~joined
      <3>1. PICK ms : Commands(ms)
        BY DEF Enter
      <3> QED
        BY <1>2, <2>1, <3>1, SideEmpty DEF BookInv
    <2>2. CASE joined /\ c \notin subscribed
      <3>1. Commands(<<>>)
        BY <2>2 DEF Enter
      <3>2. \A x : x \in DOMAIN w /\ At(w, x, "channel") \in subscribed
                <=> x \in DOMAIN members /\ At(members, x, "channel") \in subscribed
        BY <1>5, <1>8, <2>2 DEF At
      <3>3. \A x \in DOMAIN members : At(members, x, "channel") \in subscribed => SameClient(members, w, x)
        BY <1>8 DEF SameClient, At
      <3> QED
        BY <1>2, <1>4, <2>2, <3>1, <3>2, <3>3, UntoldSide DEF BookInv
    <2>3. CASE joined /\ c \in subscribed
      <3>1. PICK m : m = EnterView(k, w)
        OBVIOUS
      <3>2. PICK r \in HandleCommand(Before, m) : Becomes(r)
        <4>1. Commands(<<m>>) /\ joined'
          BY <1>2, <1>4, <2>3, <3>1 DEF Enter
        <4> QED
          BY <4>1, OneCommand
      <3>3. BookSide /\ BookOK(channels, tree, attrs, subscribed)
            /\ Sees(clients, members, Visible(members, subscribed))
        BY <2>3 DEF BookInv, BookSide
      <3>4. /\ \A x : x \in DOMAIN clients <=> x \in DOMAIN members /\ At(members, x, "channel") \in subscribed
            /\ \A x \in DOMAIN clients : At(clients, x, "channel") = At(members, x, "channel")
                                         /\ At(clients, x, "away") = At(members, x, "away")
        BY <3>3, VisibleSeen
      <3>5. k \notin DOMAIN clients
        BY <1>2, <3>4
      <3>6. \A x \in DOMAIN clients : SameClient(clients, w, x)
        BY <1>8, <3>4 DEF SameClient, At
      <3>7. \A x : x \in DOMAIN w /\ At(w, x, "channel") \in subscribed <=> x \in DOMAIN clients \/ x = k
        BY <1>5, <1>8, <2>3, <3>4 DEF At
      <3>8. Leads(Before, r) /\ r.channels = channels /\ Sees(r.clients, w, Visible(w, subscribed))
        BY <2>3, <3>1, <3>2, <3>3, <3>5, <3>6, <3>7, EnterOne
      <3>9. BookOK(r.channels, tree', attrs', subscribed')
            /\ Sees(r.clients, members', Visible(members', subscribed')) /\ joined'
        BY <1>2, <1>4, <2>3, <3>3, <3>8
      <3> QED
        BY <3>2, <3>3, <3>8, <3>9, SideFrom
    <2> QED
      BY <2>1, <2>2, <2>3
  <1> QED
    BY <1>7, <1>9 DEF BookInv

LEMMA NewAwayFacts ==
  ASSUME NEW m, NEW old
  PROVE  /\ m.is_away = Nothing /\ m.message = Nothing => NewAway(m, old) = old
         /\ m.is_away = FALSE => NewAway(m, old) = Nothing
         /\ m.is_away = TRUE /\ old = Nothing /\ m.message # Nothing => NewAway(m, old) = m.message
         /\ m.is_away = Nothing /\ old # Nothing /\ m.message # Nothing => NewAway(m, old) = m.message
  <1>1. \A x : x = Nothing => x # TRUE /\ x # FALSE
    BY NothingElse, Zenon
  <1>2. FALSE # TRUE
    OBVIOUS
  <1>3. ASSUME m.is_away = Nothing, m.message = Nothing PROVE NewAway(m, old) = old
    <2>1. Nothing \in {m.message, old}
      BY <1>3, Zenon
    <2>2. m.is_away # TRUE /\ m.is_away # FALSE
      BY <1>1, <1>3, Zenon
    <2> QED
      BY <2>1, <2>2, Zenon DEF NewAway
  <1>4. ASSUME m.is_away = FALSE PROVE NewAway(m, old) = Nothing
    <2>1. m.is_away # TRUE
      BY <1>2, <1>4, Zenon
    <2>2. m.is_away # Nothing
      BY <1>1, <1>4, Zenon
    <2> QED
      BY <1>4, <2>1, <2>2, Zenon DEF NewAway
  <1>5. ASSUME m.is_away = TRUE, old = Nothing, m.message # Nothing PROVE NewAway(m, old) = m.message
    <2>1. m.is_away # FALSE
      BY <1>2, <1>5, Zenon
    <2>2. m.is_away # Nothing
      BY <1>1, <1>5, Zenon
    <2> QED
      BY <1>5, <2>1, <2>2, Zenon DEF NewAway
  <1>6. ASSUME m.is_away = Nothing, old # Nothing, m.message # Nothing PROVE NewAway(m, old) = m.message
    <2>1. m.is_away # TRUE /\ m.is_away # FALSE
      BY <1>1, <1>6, Zenon
    <2>2. Nothing \notin {m.message, old}
      BY <1>6, Zenon
    <2> QED
      BY <1>6, <2>1, <2>2, Zenon DEF NewAway
  <1> QED
    BY <1>3, <1>4, <1>5, <1>6, Zenon

\* What the server sends about a client that goes away or comes back.
AwayFlag(old, away) == IF (away = Nothing) = (old = Nothing) THEN Nothing ELSE away # Nothing
AwayText(old, away) == IF away = old THEN Nothing ELSE IF away = Nothing THEN "" ELSE away

LEMMA AwayTold ==
  ASSUME NEW old, NEW away, NEW m, m.is_away = AwayFlag(old, away), m.message = AwayText(old, away)
  PROVE  NewAway(m, old) = away
  <1>1. CASE away = old
    <2>1. AwayFlag(old, away) = Nothing
      BY <1>1, Zenon DEF AwayFlag
    <2>2. AwayText(old, away) = Nothing
      BY <1>1, Zenon DEF AwayText
    <2>3. NewAway(m, old) = old
      BY <2>1, <2>2, NewAwayFacts, Zenon
    <2> QED
      BY <1>1, <2>3, Zenon
  <1>2. CASE away # old /\ away = Nothing
    <2>1. AwayFlag(old, away) = FALSE
      BY <1>2 DEF AwayFlag
    <2>2. NewAway(m, old) = Nothing
      BY <2>1, NewAwayFacts, Zenon
    <2> QED
      BY <1>2, <2>2, Zenon
  <1>3. CASE away # old /\ away # Nothing /\ old = Nothing
    <2>1. AwayFlag(old, away) = TRUE
      BY <1>3 DEF AwayFlag
    <2>2. AwayText(old, away) = away
      BY <1>3, Zenon DEF AwayText
    <2>3. m.message # Nothing
      BY <1>3, <2>2, Zenon
    <2>4. NewAway(m, old) = m.message
      BY <1>3, <2>1, <2>3, NewAwayFacts, Zenon
    <2> QED
      BY <2>2, <2>4, Zenon
  <1>4. CASE away # old /\ away # Nothing /\ old # Nothing
    <2>1. AwayFlag(old, away) = Nothing
      <3>1. (away = Nothing) = (old = Nothing)
        BY <1>4
      <3> QED
        BY <3>1, Zenon DEF AwayFlag
    <2>2. AwayText(old, away) = away
      BY <1>4, Zenon DEF AwayText
    <2>3. m.message # Nothing
      BY <1>4, <2>2, Zenon
    <2>4. NewAway(m, old) = m.message
      BY <1>4, <2>1, <2>3, NewAwayFacts, Zenon
    <2> QED
      BY <2>2, <2>4, Zenon
  <1> QED
    BY <1>1, <1>2, <1>3, <1>4, Zenon

LEMMA UpdateStep ==
  ASSUME BookInv, NEW k \in Clients, NEW away \in Aways, NEW name, NEW shown, Update(k, away, name, shown)
  PROVE  BookInv'
  <1>0. members' = [members EXCEPT ![k].away = away, ![k].name = name]
    BY Zenon DEF Update
  <1>1. /\ k \in DOMAIN members
        /\ tree' = tree /\ attrs' = attrs /\ subscribed' = subscribed /\ joined' = joined
    BY Zenon DEF Update
  <1>2. ServerTree(tree, attrs) /\ AttrsOK(attrs) /\ MembersOK(members, DOMAIN attrs)
        /\ subscribed \subseteq DOMAIN attrs
        /\ (joined => Own \in DOMAIN members /\ At(members, Own, "channel") \in subscribed)
    BY DEF BookInv, ServerInv
  <1>3. PICK w : w = members'
    OBVIOUS
  <1>4. PICK v, a1, a2 : a1 = "away" /\ a2 = "name" /\ v = Put(members, k, a1, away)
    OBVIOUS
  <1>5. w = Put(v, k, a2, name)
    BY <1>0, <1>3, <1>4, Zenon DEF Put
  <1>6. /\ MembersOK(v, DOMAIN attrs) /\ At(v, k, a1) = away /\ DOMAIN v = DOMAIN members
        /\ \A x \in DOMAIN members : x # k => v[x] = members[x]
        /\ \A a \in MemberAttrs : a # a1 => At(v, k, a) = At(members, k, a)
    <2>1. a1 \in MemberAttrs /\ a1 # "channel"
      BY <1>4 DEF MemberAttrs
    <2> QED
      BY <1>1, <1>2, <1>4, <2>1, ChangedMember
  <1>7. /\ MembersOK(w, DOMAIN attrs) /\ DOMAIN w = DOMAIN v
        /\ \A x \in DOMAIN v : x # k => w[x] = v[x]
        /\ \A a \in MemberAttrs : a # a2 => At(w, k, a) = At(v, k, a)
    <2>1. a2 \in MemberAttrs /\ a2 # "channel" /\ a2 # "away" /\ k \in DOMAIN v
      BY <1>1, <1>4, <1>6 DEF MemberAttrs
    <2> QED
      BY <1>5, <1>6, <2>1, ChangedMember
  <1>8. /\ DOMAIN w = DOMAIN members /\ \A x \in DOMAIN members : x # k => w[x] = members[x]
        /\ At(w, k, "channel") = At(members, k, "channel") /\ At(w, k, "away") = away
    <2>1. /\ "channel" \in MemberAttrs /\ "away" \in MemberAttrs
          /\ "channel" # a1 /\ "channel" # a2 /\ "away" = a1 /\ "away" # a2
      BY <1>4 DEF MemberAttrs
    <2> QED
      BY <1>6, <1>7, <2>1
  <1>9. \A x \in DOMAIN members : At(w, x, "channel") = At(members, x, "channel")
    BY <1>8 DEF At
  <1>10. joined => Own \in DOMAIN w /\ At(w, Own, "channel") \in subscribed
    BY <1>2, <1>8, <1>9
  <1>11. ServerInv'
    BY <1>1, <1>2, <1>3, <1>7, <1>10 DEF ServerInv
  <1>12. BookSide' /\ told'
    <2>1. CASE ~joined
      <3>1. PICK ms : Commands(ms)
        BY Zenon DEF Update
      <3> QED
        BY <1>1, <2>1, <3>1, SideEmpty DEF BookInv
    <2>2. CASE joined /\ k \notin Visible(members, subscribed)
      <3>1. Commands(<<>>)
        BY <2>2 DEF Update
      <3>2. At(members, k, "channel") \notin subscribed
        BY <1>1, <2>2 DEF Visible, At
      <3>3. \A x : x \in DOMAIN w /\ At(w, x, "channel") \in subscribed
                <=> x \in DOMAIN members /\ At(members, x, "channel") \in subscribed
        BY <1>8, <1>9
      <3>4. \A x \in DOMAIN members : At(members, x, "channel") \in subscribed => SameClient(members, w, x)
        BY <1>8, <3>2 DEF SameClient, At
      <3> QED
        BY <1>1, <1>3, <2>2, <3>1, <3>3, <3>4, UntoldSide DEF BookInv
    <2>3. CASE joined /\ k \in Visible(members, subscribed)
      <3>1. PICK old : old = At(members, k, "away")
        OBVIOUS
      <3>2. PICK flag, text, new :
              /\ flag = AwayFlag(old, away) /\ text = AwayText(old, away)
              /\ new = IF shown /\ name # members[k].name THEN name ELSE Nothing
        BY Zenon
      <3>3. PICK m : m = [type |-> "ClientUpdated", id |-> k, invoker |-> Nothing,
                          is_away |-> flag, message |-> text, name |-> new]
        OBVIOUS
      <3>4. m.type = "ClientUpdated"
        BY <3>3
      <3>5. m.id = k /\ m.is_away = flag /\ m.message = text
        BY <3>3
      <3>6. Commands(<<m>>) /\ joined'
        <4>1. Commands(<<m>>)
          BY <2>3, <3>1, <3>2, <3>3, Zenon DEF Update, At, AwayFlag, AwayText
        <4> QED
          BY <1>1, <2>3, <4>1
      <3>7. PICK r \in HandleCommand(Before, m) : Becomes(r)
        BY <3>6, OneCommand
      <3>8. BookSide /\ BookOK(channels, tree, attrs, subscribed)
            /\ Sees(clients, members, Visible(members, subscribed))
        BY <2>3 DEF BookInv, BookSide
      <3>9. /\ Good(Before) /\ Before.channels = channels /\ Before.clients = clients
        BY <3>8, BeforeFacts
      <3>10. /\ \A x : x \in DOMAIN clients <=> x \in DOMAIN members /\ At(members, x, "channel") \in subscribed
             /\ \A x \in DOMAIN clients : At(clients, x, "channel") = At(members, x, "channel")
                                          /\ At(clients, x, "away") = At(members, x, "away")
        BY <3>8, VisibleSeen
      <3>11. k \in DOMAIN clients
        BY <2>3, <3>8 DEF Sees
      <3>12. Leads(Before, r) /\ SameChannels(m, channels, r.channels) /\ UpdateEffect(m, clients, r.clients)
        BY <3>4, <3>5, <3>7, <3>9, <3>11, UpdateCommand
      <3>13. NewAway(m, old) = away
        <4>1. m.is_away = AwayFlag(old, away) /\ m.message = AwayText(old, away)
          BY <3>2, <3>5, Zenon
        <4> QED
          BY <4>1, AwayTold, Zenon
      <3>14. /\ DOMAIN r.clients = DOMAIN clients
             /\ \A x \in DOMAIN clients : x # k => SameClient(clients, r.clients, x)
             /\ At(r.clients, k, "channel") = At(clients, k, "channel")
             /\ At(r.clients, k, "away") = away
        <4>1. At(clients, k, "away") = old
          BY <3>1, <3>10, <3>11
        <4> QED
          BY <3>5, <3>12, <3>13, <4>1 DEF UpdateEffect
      <3>15. \A x : x \in DOMAIN r.clients <=> x \in DOMAIN w /\ At(w, x, "channel") \in subscribed
        BY <1>8, <1>9, <3>10, <3>14
      <3>16. \A x \in DOMAIN r.clients : At(r.clients, x, "channel") = At(w, x, "channel")
                                         /\ At(r.clients, x, "away") = At(w, x, "away")
        <4>1. ASSUME NEW x \in DOMAIN r.clients
              PROVE  At(r.clients, x, "channel") = At(w, x, "channel")
                     /\ At(r.clients, x, "away") = At(w, x, "away")
          <5>1. CASE x = k
            BY <1>8, <3>10, <3>11, <3>14, <5>1
          <5>2. CASE x # k
            <6>1. x \in DOMAIN clients /\ x \in DOMAIN members
              BY <3>10, <3>14
            <6>2. SameClient(clients, r.clients, x) /\ w[x] = members[x]
              BY <1>8, <3>14, <5>2, <6>1
            <6> QED
              BY <3>10, <6>1, <6>2 DEF SameClient, At
          <5> QED
            BY <5>1, <5>2
        <4> QED
          BY <4>1
      <3>17. Sees(r.clients, w, Visible(w, subscribed))
        BY <3>15, <3>16, SeesVisible
      <3>18. BookOK(r.channels, tree', attrs', subscribed')
             /\ Sees(r.clients, members', Visible(members', subscribed')) /\ joined'
        BY <1>1, <1>3, <2>3, <3>8, <3>12, <3>17 DEF SameChannels
      <3> QED
        BY <3>7, <3>8, <3>12, <3>18, SideFrom
    <2> QED
      BY <2>1, <2>2, <2>3
  <1> QED
    BY <1>11, <1>12 DEF BookInv

\* The same clients come into view.
LEMMA SameEntering ==
  ASSUME NEW ks, NEW w, NEW v, \A x \in ks : w[x] = v[x]
  PROVE  Entering(ks, w) = Entering(ks, v)
  <1>1. ASSUME NEW x \in ks
        PROVE  EnterView(x, w) = EnterView(x, v)
    <2>1. PICK place : place = w[x]
      OBVIOUS
    <2>2. w[x] = place /\ v[x] = place
      BY <2>1
    <2> QED
      BY <2>2, Zenon DEF EnterView
  <1>2. {EnterView(x, w) : x \in ks} = {EnterView(x, v) : x \in ks}
    BY <1>1
  <1> QED
    BY <1>2 DEF Entering

\* A client in view moves to where we can see it; when it is our own we see
\* the clients that are there.
LEMMA MovedStep ==
  ASSUME BookInv, NEW k, NEW c, ClientMove(k, c), joined, k \in DOMAIN clients, c \in subscribed',
         At(members', k, "channel") = c, DOMAIN members' = DOMAIN members,
         \A x \in DOMAIN members : x # k => members'[x] = members[x],
         At(members', k, "away") = At(members, k, "away")
  PROVE  BookSide' /\ told'
  <1>1. /\ k \in DOMAIN members /\ c \in DOMAIN attrs /\ c # At(members, k, "channel")
        /\ (subscribed' = IF k = Own THEN subscribed \cup {c} ELSE subscribed)
        /\ tree' = tree /\ attrs' = attrs /\ joined' = joined
    BY DEF ClientMove, Present, At
  <1>2. BookSide /\ BookOK(channels, tree, attrs, subscribed)
        /\ Sees(clients, members, Visible(members, subscribed))
    BY DEF BookInv, BookSide
  <1>3. /\ Good(Before) /\ Before.channels = channels /\ Before.clients = clients
    BY <1>2, BeforeFacts
  <1>4. /\ \A x : x \in DOMAIN clients <=> x \in DOMAIN members /\ At(members, x, "channel") \in subscribed
        /\ \A x \in DOMAIN clients : At(clients, x, "channel") = At(members, x, "channel")
                                     /\ At(clients, x, "away") = At(members, x, "away")
    BY <1>2, VisibleSeen
  <1>5. PICK w : w = members'
    OBVIOUS
  <1>6. PICK m : m = Moved(k, c)
    OBVIOUS
  <1>7. m.type = "ClientMoved" /\ m.id = k /\ m.channel = c
    BY <1>6 DEF Moved
  <1>8. PICK ks : ks = Visible(members, subscribed' \ subscribed)
    OBVIOUS
  <1>9. \A x : x \in ks <=> x \in DOMAIN members /\ At(members, x, "channel") \in subscribed'
                             /\ At(members, x, "channel") \notin subscribed
    BY <1>8 DEF Visible, At
  <1>10. IsFiniteSet(ks)
    <2>1. AttrsOK(attrs) /\ MembersOK(members, DOMAIN attrs)
      BY DEF BookInv, ServerInv
    <2>2. ks \subseteq DOMAIN members
      BY <1>9
    <2> QED
      BY <2>1, <2>2, FiniteFacts
  <1>11. Commands(<<m>> \o Entering(ks, w))
    <2>1. members[k].channel \in subscribed
      BY <1>4 DEF At
    <2>2. Commands(<<m>> \o Entering(ks, members))
      BY <1>6, <1>8, <2>1 DEF ClientMove
    <2>3. \A x \in ks : w[x] = members[x]
      BY <1>4, <1>5, <1>9
    <2>4. Entering(ks, w) = Entering(ks, members)
      BY <2>3, SameEntering
    <2> QED
      BY <2>2, <2>4
  <1>12. PICK r, a : /\ Becomes(r) /\ a \in HandleCommand(Before, m)
                     /\ Reaches(a, Entering(ks, w), r)
    <2>1. joined'
      BY <1>1
    <2> QED
      BY <1>10, <1>11, <2>1, OneAndEntering
  <1>13. DOMAIN channels = DOMAIN attrs
    BY <1>2 DEF BookOK
  <1>14. Leads(Before, a) /\ OwnEffect(m, channels, a.channels) /\ MoveToEffect(m, clients, a.clients)
    <2>1. m.id \in DOMAIN clients /\ m.channel \in DOMAIN channels
      BY <1>1, <1>7, <1>13
    <2> QED
      BY <1>3, <1>7, <1>12, <2>1, MoveToCommand
  <1>15. BookOK(a.channels, tree, attrs, subscribed')
    <2>1. CASE k = Own
      <3>1. AddedTo(subscribed', subscribed, c)
        BY <1>1, <2>1 DEF AddedTo
      <3>2. Differs(channels, a.channels, c, {"subscribed"}) /\ At(a.channels, c, "subscribed") = TRUE
        BY <1>7, <1>14, <2>1 DEF OwnEffect
      <3> QED
        BY <1>1, <1>2, <3>1, <3>2, SubscribedBook
    <2>2. CASE k # Own
      <3>1. a.channels = channels /\ subscribed' = subscribed
        BY <1>1, <1>7, <1>14, <2>2 DEF OwnEffect
      <3> QED
        BY <1>2, <3>1
    <2> QED
      BY <2>1, <2>2
  <1>16. /\ DOMAIN a.clients = DOMAIN clients
         /\ \A x \in DOMAIN clients : x # k => SameClient(clients, a.clients, x)
         /\ At(a.clients, k, "channel") = c /\ At(a.clients, k, "away") = At(clients, k, "away")
    BY <1>7, <1>14 DEF MoveToEffect
  <1>17. PICK S, T : S = DOMAIN clients /\ T = Visible(w, subscribed')
    OBVIOUS
  <1>18. Sees(a.clients, w, S)
    <2>1. ASSUME NEW x \in S
          PROVE  At(a.clients, x, "channel") = w[x].channel /\ At(a.clients, x, "away") = w[x].away
      <3>1. At(w, x, "channel") = w[x].channel /\ At(w, x, "away") = w[x].away
        BY DEF At
      <3>2. CASE x = k
        BY <1>4, <1>5, <1>16, <1>17, <3>1, <3>2
      <3>3. CASE x # k
        <4>1. SameClient(clients, a.clients, x) /\ w[x] = members[x] /\ x \in DOMAIN clients
          BY <1>4, <1>5, <1>16, <1>17, <3>3
        <4> QED
          BY <1>4, <3>1, <4>1 DEF SameClient, At
      <3> QED
        BY <3>2, <3>3
    <2> QED
      BY <1>16, <1>17, <2>1 DEF Sees
  <1>19. Union2(T, S, ks) /\ \A x \in ks : x \notin S
    <2>1. \A x : x \in T <=> x \in DOMAIN members /\ At(w, x, "channel") \in subscribed'
      BY <1>5, <1>17 DEF Visible, At
    <2>2. \A x \in DOMAIN members : x # k => At(w, x, "channel") = At(members, x, "channel")
      BY <1>5 DEF At
    <2>3. At(w, k, "channel") \in subscribed' /\ k \in S /\ k \notin ks
      BY <1>4, <1>5, <1>9, <1>17
    <2>4. \A x \in subscribed : x \in subscribed'
      BY <1>1
    <2>5. ASSUME NEW x PROVE x \in T <=> x \in S \/ x \in ks
      <3>1. CASE x = k
        BY <1>1, <2>1, <2>3, <3>1
      <3>2. CASE x # k
        BY <1>4, <1>9, <1>17, <2>1, <2>2, <2>4, <3>2
      <3> QED
        BY <3>1, <3>2
    <2> QED
      BY <1>4, <1>9, <1>17, <2>5 DEF Union2
  <1>20. Good(a)
    BY <1>14 DEF Leads
  <1>21. Leads(a, r) /\ r.channels = a.channels /\ Sees(r.clients, w, T)
    BY <1>10, <1>12, <1>18, <1>19, <1>20, EnterAll
  <1>22. Leads(Before, r)
    BY <1>14, <1>21, LeadsTransitive
  <1>23. BookOK(r.channels, tree', attrs', subscribed')
         /\ Sees(r.clients, members', Visible(members', subscribed')) /\ joined'
    BY <1>1, <1>5, <1>15, <1>17, <1>21
  <1> QED
    BY <1>2, <1>12, <1>22, <1>23, SideFrom

LEMMA ClientMoveStep ==
  ASSUME BookInv, NEW k \in Clients, NEW c \in Channels, ClientMove(k, c)
  PROVE  BookInv'
  <1>1. /\ k \in DOMAIN members /\ c \in DOMAIN attrs /\ c # At(members, k, "channel")
        /\ (subscribed' = IF k = Own THEN subscribed \cup {c} ELSE subscribed)
        /\ tree' = tree /\ attrs' = attrs /\ joined' = joined
    BY DEF ClientMove, Present, At
  <1>2. ServerTree(tree, attrs) /\ AttrsOK(attrs) /\ MembersOK(members, DOMAIN attrs)
        /\ subscribed \subseteq DOMAIN attrs
        /\ (joined => Own \in DOMAIN members /\ At(members, Own, "channel") \in subscribed)
    BY DEF BookInv, ServerInv
  <1>3. PICK w, attr : w = members' /\ attr = "channel"
    OBVIOUS
  <1>4. w = Put(members, k, attr, c)
    BY <1>3, Zenon DEF Put, ClientMove
  <1>5. attr \in MemberAttrs /\ attr # "away"
    BY <1>3 DEF MemberAttrs
  <1>6. /\ MembersOK(w, DOMAIN attrs) /\ At(w, k, attr) = c /\ DOMAIN w = DOMAIN members
        /\ \A x \in DOMAIN members : x # k => w[x] = members[x]
        /\ \A a \in MemberAttrs : a # attr => At(w, k, a) = At(members, k, a)
    BY <1>1, <1>2, <1>4, <1>5, ChangedMember
  <1>7. /\ At(w, k, "channel") = c /\ At(w, k, "away") = At(members, k, "away")
    <2>1. "away" \in MemberAttrs
      BY DEF MemberAttrs
    <2> QED
      BY <1>3, <1>5, <1>6, <2>1
  <1>8. \A x \in DOMAIN members : x # k => SameClient(members, w, x) /\ At(w, x, "channel") = At(members, x, "channel")
    BY <1>6 DEF SameClient, At
  <1>9. subscribed' \subseteq DOMAIN attrs
    BY <1>1, <1>2
  <1>10. joined => Own \in DOMAIN w /\ At(w, Own, "channel") \in subscribed'
    <2>1. CASE k = Own
      BY <1>1, <1>6, <1>7, <2>1
    <2>2. CASE k # Own
      BY <1>1, <1>2, <1>6, <1>8, <2>2
    <2> QED
      BY <2>1, <2>2
  <1>11. ServerInv'
    BY <1>1, <1>2, <1>3, <1>6, <1>9, <1>10 DEF ServerInv
  <1>12. BookSide' /\ told'
    <2>1. CASE ~joined
      <3>1. PICK ms : Commands(ms)
        BY DEF ClientMove
      <3> QED
        BY <1>1, <2>1, <3>1, SideEmpty DEF BookInv
    <2>2. CASE joined
      <3>1. BookSide /\ BookOK(channels, tree, attrs, subscribed)
            /\ Sees(clients, members, Visible(members, subscribed))
        BY <2>2 DEF BookInv, BookSide
      <3>2. /\ Good(Before) /\ Before.channels = channels /\ Before.clients = clients
        BY <3>1, BeforeFacts
      <3>3. /\ \A x : x \in DOMAIN clients <=> x \in DOMAIN members /\ At(members, x, "channel") \in subscribed
            /\ \A x \in DOMAIN clients : At(clients, x, "channel") = At(members, x, "channel")
                                         /\ At(clients, x, "away") = At(members, x, "away")
        BY <3>1, VisibleSeen
      <3>4. CASE k \in DOMAIN clients /\ c \in subscribed'
        BY <1>3, <1>6, <1>7, <2>2, <3>4, MovedStep
      <3>5. CASE k \in DOMAIN clients /\ c \notin subscribed'
        <4>1. k # Own /\ subscribed' = subscribed
          BY <1>1, <3>5
        <4>2. PICK m : m = LeftView(k)
          OBVIOUS
        <4>3. m.type = "ClientLeftView" /\ m.id = k
          BY <4>2 DEF LeftView
        <4>4. Commands(<<m>>)
          <5>1. members[k].channel \in subscribed
            BY <3>3, <3>5 DEF At
          <5> QED
            BY <3>5, <4>2, <5>1 DEF ClientMove
        <4>5. PICK r \in HandleCommand(Before, m) : Becomes(r)
          BY <1>1, <2>2, <4>4, OneCommand
        <4>6. Leads(Before, r) /\ SameChannels(m, channels, r.channels) /\ LeaveEffect(m, clients, r.clients)
          BY <3>2, <3>5, <4>3, <4>5, LeaveCommand
        <4>7. /\ \A x : x \in DOMAIN r.clients <=> x \in DOMAIN clients /\ x # k
              /\ \A x \in DOMAIN r.clients : SameClient(clients, r.clients, x)
          BY <4>3, <4>6 DEF LeaveEffect
        <4>8. \A x : x \in DOMAIN r.clients <=> x \in DOMAIN w /\ At(w, x, "channel") \in subscribed'
          <5>1. ASSUME NEW x
                PROVE  x \in DOMAIN r.clients <=> x \in DOMAIN w /\ At(w, x, "channel") \in subscribed'
            <6>1. CASE x = k
              BY <1>7, <3>5, <4>7, <6>1
            <6>2. CASE x # k
              BY <1>6, <1>8, <3>3, <4>1, <4>7, <6>2
            <6> QED
              BY <6>1, <6>2
          <5> QED
            BY <5>1
        <4>9. \A x \in DOMAIN r.clients : At(r.clients, x, "channel") = At(w, x, "channel")
                                          /\ At(r.clients, x, "away") = At(w, x, "away")
          <5>1. ASSUME NEW x \in DOMAIN r.clients
                PROVE  At(r.clients, x, "channel") = At(w, x, "channel")
                       /\ At(r.clients, x, "away") = At(w, x, "away")
            <6>1. x # k /\ x \in DOMAIN clients /\ x \in DOMAIN members /\ SameClient(clients, r.clients, x)
              BY <3>3, <4>7
            <6>2. SameClient(members, w, x)
              BY <1>8, <6>1
            <6> QED
              BY <3>3, <6>1, <6>2 DEF SameClient
          <5> QED
            BY <5>1
        <4>10. Sees(r.clients, w, Visible(w, subscribed'))
          BY <4>8, <4>9, SeesVisible
        <4>11. BookOK(r.channels, tree', attrs', subscribed')
               /\ Sees(r.clients, members', Visible(members', subscribed')) /\ joined'
          BY <1>1, <1>3, <2>2, <3>1, <4>1, <4>6, <4>10 DEF SameChannels
        <4> QED
          BY <3>1, <4>5, <4>6, <4>11, SideFrom
      <3>6. CASE k \notin DOMAIN clients
        <4>1. At(members, k, "channel") \notin subscribed /\ k # Own /\ subscribed' = subscribed
          BY <1>1, <1>2, <2>2, <3>3, <3>6
        <4>2. members[k].channel \notin subscribed
          BY <4>1 DEF At
        <4>3. CASE c \in subscribed
          <5>1. PICK m : m = EnterView(k, w)
            OBVIOUS
          <5>2. Commands(<<m>>)
            BY <1>3, <4>1, <4>2, <4>3, <5>1 DEF ClientMove
          <5>3. PICK r \in HandleCommand(Before, m) : Becomes(r)
            BY <1>1, <2>2, <5>2, OneCommand
          <5>4. \A x \in DOMAIN clients : SameClient(clients, w, x)
            BY <1>8, <3>3, <3>6 DEF SameClient
          <5>5. \A x : x \in DOMAIN w /\ At(w, x, "channel") \in subscribed <=> x \in DOMAIN clients \/ x = k
            <6>1. ASSUME NEW x
                  PROVE  x \in DOMAIN w /\ At(w, x, "channel") \in subscribed <=> x \in DOMAIN clients \/ x = k
              <7>1. CASE x = k
                BY <1>1, <1>6, <1>7, <4>3, <7>1
              <7>2. CASE x # k
                BY <1>6, <1>8, <3>3, <7>2
              <7> QED
                BY <7>1, <7>2
            <6> QED
              BY <6>1
          <5>6. Leads(Before, r) /\ r.channels = channels /\ Sees(r.clients, w, Visible(w, subscribed))
            BY <2>2, <3>1, <3>6, <5>1, <5>3, <5>4, <5>5, EnterOne
          <5>7. BookOK(r.channels, tree', attrs', subscribed')
                /\ Sees(r.clients, members', Visible(members', subscribed')) /\ joined'
            BY <1>1, <1>3, <2>2, <3>1, <4>1, <5>6
          <5> QED
            BY <3>1, <5>3, <5>6, <5>7, SideFrom
        <4>4. CASE c \notin subscribed
          <5>1. Commands(<<>>)
            BY <4>1, <4>2, <4>4 DEF ClientMove
          <5>2. \A x : x \in DOMAIN w /\ At(w, x, "channel") \in subscribed
                    <=> x \in DOMAIN members /\ At(members, x, "channel") \in subscribed
            <6>1. ASSUME NEW x
                  PROVE  x \in DOMAIN w /\ At(w, x, "channel") \in subscribed
                         <=> x \in DOMAIN members /\ At(members, x, "channel") \in subscribed
              <7>1. CASE x = k
                BY <1>7, <4>1, <4>4, <7>1
              <7>2. CASE x # k
                BY <1>6, <1>8, <7>2
              <7> QED
                BY <7>1, <7>2
            <6> QED
              BY <6>1
          <5>3. \A x \in DOMAIN members : At(members, x, "channel") \in subscribed => SameClient(members, w, x)
            BY <1>8, <4>1
          <5> QED
            BY <1>1, <1>3, <2>2, <3>1, <4>1, <5>1, <5>2, <5>3, UntoldSide
        <4> QED
          BY <4>3, <4>4
      <3> QED
        BY <3>4, <3>5, <3>6
    <2> QED
      BY <2>1, <2>2
  <1> QED
    BY <1>11, <1>12 DEF BookInv

-----------------------------------------------------------------------------
(* The steps of the server that change channels.                           *)

\* However the client handles the command, it has the channels of the server
\* afterwards, and sees the same clients.
ChannelTold(m) ==
  \A r \in HandleCommand(Before, m) :
    /\ Leads(Before, r) /\ SameView(clients, r.clients)
    /\ BookOK(r.channels, tree', attrs', subscribed')

LEMMA ChannelStep ==
  ASSUME BookInv, ServerInv', members' = members, joined' = joined,
         Visible(members, subscribed') = Visible(members, subscribed),
         NEW m, Commands(<<m>>), joined => ChannelTold(m)
  PROVE  BookInv'
  <1>1. BookSide' /\ told'
    <2>1. CASE ~joined
      BY <2>1, SideEmpty DEF BookInv
    <2>2. CASE joined
      <3>1. PICK r \in HandleCommand(Before, m) : Becomes(r)
        BY <2>2, OneCommand
      <3>2. BookSide /\ Sees(clients, members, Visible(members, subscribed))
        BY <2>2 DEF BookInv, BookSide
      <3>3. Leads(Before, r) /\ SameView(clients, r.clients)
            /\ BookOK(r.channels, tree', attrs', subscribed')
        BY <2>2, <3>1 DEF ChannelTold
      <3>4. Sees(r.clients, members, Visible(members, subscribed))
        BY <3>2, <3>3, SameSees
      <3>5. Sees(r.clients, members', Visible(members', subscribed'))
        BY <3>4
      <3> QED
        BY <2>2, <3>1, <3>2, <3>3, <3>5, SideFrom
    <2> QED
      BY <2>1, <2>2
  <1> QED
    BY <1>1 DEF BookInv

\* With more channels, and with fewer when nobody is in one that is gone.
LEMMA MembersStay ==
  ASSUME NEW w, NEW P, MembersOK(w, P), NEW Q, \A k \in DOMAIN w : At(w, k, "channel") \in Q
  PROVE  MembersOK(w, Q)
  BY DEF MembersOK

LEMMA ChannelIds ==
  ASSUME NEW c \in Channels
  PROVE  c # Root /\ c # Nothing
  BY BookAssumption, Zenon

\* New channels have attributes that a server knows.
LEMMA DefaultFacts == DefaultAttrs \in Attributes
  BY DEF DefaultAttrs, Attributes

LEMMA CreateStep ==
  ASSUME BookInv, NEW c \in Channels, NEW p, NEW i, Create(c, p, i)
  PROVE  BookInv'
  <1>1. /\ c \notin DOMAIN attrs /\ p \in Spots(attrs) /\ i \in 1 .. Len(tree[p]) + 1
        /\ tree' = With([tree EXCEPT ![p] = InsertAt(@, i, c)], c, <<>>)
        /\ attrs' = With(attrs, c, DefaultAttrs)
        /\ members' = members /\ subscribed' = subscribed /\ joined' = joined
    BY DEF Create, Present, Spots
  <1>2. ServerTree(tree, attrs) /\ AttrsOK(attrs) /\ MembersOK(members, DOMAIN attrs)
        /\ subscribed \subseteq DOMAIN attrs
        /\ (joined => Own \in DOMAIN members /\ At(members, Own, "channel") \in subscribed)
    BY DEF BookInv, ServerInv
  <1>3. c # Root /\ c \notin subscribed
    BY <1>1, <1>2, ChannelIds
  <1>4. PICK v, bt : v = tree' /\ bt = attrs'
    OBVIOUS
  <1>5. v = With([tree EXCEPT ![p] = InsertAt(tree[p], i, c)], c, <<>>)
    BY <1>1, <1>4
  <1>6. bt = With(attrs, c, DefaultAttrs)
    BY <1>1, <1>4
  <1>7. ServerTree(v, bt)
    BY <1>1, <1>2, <1>3, <1>5, <1>6, CreateTree
  <1>8. /\ \A x : x \in DOMAIN bt <=> x \in DOMAIN attrs \/ x = c
        /\ bt[c] = DefaultAttrs /\ \A x \in DOMAIN attrs : x # c => bt[x] = attrs[x]
    BY <1>6 DEF With
  <1>9. AttrsOK(bt)
    BY <1>2, <1>8, DefaultFacts DEF AttrsOK
  <1>10. MembersOK(members, DOMAIN bt)
    <2>1. \A k \in DOMAIN members : At(members, k, "channel") \in DOMAIN bt
      BY <1>2, <1>8 DEF MembersOK
    <2> QED
      BY <1>2, <2>1, MembersStay
  <1>11. ServerInv'
    BY <1>1, <1>2, <1>4, <1>7, <1>8, <1>9, <1>10 DEF ServerInv
  <1>12. PICK m : m = ChannelMessage("ChannelCreated", c, p, PredecessorIn(tree[p], i), Fields(DefaultAttrs))
    OBVIOUS
  <1>13. Commands(<<m>>)
    BY <1>12 DEF Create
  <1>14. PICK o, F, type : o = PredecessorIn(tree[p], i) /\ F = Fields(DefaultAttrs) /\ type = "ChannelCreated"
    OBVIOUS
  <1>15. Says(m, type, c, p, o, F)
    BY <1>12, <1>14, ChannelMessageSays
  <1>16. ASSUME joined
         PROVE  ChannelTold(m)
    <2>1. BookSide /\ BookOK(channels, tree, attrs, subscribed)
      BY <1>16 DEF BookInv, BookSide
    <2>2. Good(Before) /\ Before.channels = channels /\ Before.clients = clients
      BY <2>1, BeforeFacts
    <2>3. m.id = c /\ m.type = "ChannelCreated" /\ DOMAIN channels = DOMAIN attrs
      BY <1>14, <1>15, <2>1 DEF Says, BookOK
    <2>4. ASSUME NEW r \in HandleCommand(Before, m)
          PROVE  Leads(Before, r) /\ SameView(clients, r.clients)
                 /\ BookOK(r.channels, v, bt, subscribed)
      <3>1. /\ Leads(Before, r) /\ SameView(clients, r.clients)
            /\ CreateEffect(m, channels, r.channels)
        BY <1>1, <2>2, <2>3, <2>4, CreateCommand
      <3>2. Says(m, type, c, p, PredecessorIn(tree[p], i), Fields(DefaultAttrs))
        BY <1>14, <1>15
      <3>3. BookOK(r.channels, v, bt, subscribed)
        BY <1>1, <1>2, <1>3, <1>5, <1>6, <2>1, <3>1, <3>2, CreateBook
      <3> QED
        BY <3>1, <3>3
    <2> QED
      BY <1>1, <1>4, <2>4 DEF ChannelTold
  <1> QED
    BY <1>1, <1>11, <1>13, <1>16, ChannelStep

\* A spot for a channel has a name that a message can carry.
LEMMA SpotIds ==
  ASSUME AttrsOK(attrs), ServerTree(tree, attrs)
  PROVE  Nothing \notin Spots(attrs)
  <1>1. Nothing \notin Channels /\ Nothing # Root
    BY BookAssumption, Zenon
  <1> QED
    BY <1>1 DEF AttrsOK, Spots

LEMMA MoveStep ==
  ASSUME BookInv, NEW c \in Channels, NEW p, NEW i, NEW type \in {"ChannelMoved", "ChannelEdited"},
         Move(c, p, i, type)
  PROVE  BookInv'
  <1>1. PICK left, v : left = TakenOut(c) /\ v = tree'
    OBVIOUS
  <1>2. /\ c \in Present /\ p \in Spots(attrs) /\ i \in 1 .. Len(left[p]) + 1
        /\ v = [left EXCEPT ![p] = InsertAt(left[p], i, c)]
        /\ (type = "ChannelEdited" => p = ParentOf(c))
        /\ attrs' = attrs /\ members' = members /\ subscribed' = subscribed /\ joined' = joined
    BY <1>1 DEF Move, Present, Spots
  <1>3. ServerTree(tree, attrs) /\ AttrsOK(attrs) /\ MembersOK(members, DOMAIN attrs)
        /\ subscribed \subseteq DOMAIN attrs
        /\ (joined => Own \in DOMAIN members /\ At(members, Own, "channel") \in subscribed)
    BY DEF BookInv, ServerInv
  <1>4. PICK o : o = PredecessorIn(left[p], i)
    OBVIOUS
  <1>5. /\ ServerTree(v, attrs) /\ Inserted(left, v, c, p, o)
    BY <1>1, <1>2, <1>3, <1>4, MoveTree
  <1>6. ServerInv'
    BY <1>1, <1>2, <1>3, <1>5 DEF ServerInv
  <1>7. o # Nothing /\ p # Nothing
    <2>1. Place(v, c, p, o) /\ TreeOK(v, Spots(attrs), Present) /\ Root \notin Present
      BY <1>5 DEF Inserted, ServerTree, Present
    <2>2. o = Root \/ o \in Present
      BY <2>1, PlaceFacts
    <2>3. o \in Spots(attrs)
      BY <2>2 DEF Spots, Present
    <2> QED
      BY <1>2, <1>3, <2>3, SpotIds
  <1>8. PICK F : F = [f \in FieldNames |-> Nothing]
    OBVIOUS
  <1>9. PICK m : m = ChannelMessage(type, c, p, o, F)
    OBVIOUS
  <1>10. Commands(<<m>>)
    <2>1. DOMAIN Fields(DefaultAttrs) = FieldNames
      BY DefaultFacts, FieldsFacts
    <2>2. F = [f \in DOMAIN Fields(DefaultAttrs) |-> Nothing]
      BY <1>8, <2>1
    <2>3. m = ChannelMessage(type, c, p, PredecessorIn(TakenOut(c)[p], i),
                             [f \in DOMAIN Fields(DefaultAttrs) |-> Nothing])
      BY <1>1, <1>4, <1>9, <2>2
    <2> QED
      BY <2>3 DEF Move
  <1>11. Says(m, type, c, p, o, F)
    BY <1>9, ChannelMessageSays
  <1>12. m.id = c /\ m.type = type /\ m.parent = p /\ m.order = o
    BY <1>11 DEF Says
  <1>13. ASSUME joined
         PROVE  ChannelTold(m)
    <2>1. BookSide /\ BookOK(channels, tree, attrs, subscribed)
      BY <1>13 DEF BookInv, BookSide
    <2>2. Good(Before) /\ Before.channels = channels /\ Before.clients = clients
      BY <2>1, BeforeFacts
    <2>3. DOMAIN channels = DOMAIN attrs /\ c \in DOMAIN channels
      BY <1>2, <2>1 DEF BookOK, Present
    <2>4. ASSUME NEW r \in HandleCommand(Before, m)
          PROVE  Leads(Before, r) /\ SameView(clients, r.clients)
                 /\ BookOK(r.channels, v, attrs, subscribed)
      <3>1. CASE type = "ChannelMoved"
        <4>1. /\ Leads(Before, r) /\ SameView(clients, r.clients)
              /\ MoveEffect(m, channels, r.channels)
          BY <1>7, <1>12, <2>2, <2>3, <2>4, <3>1, MoveCommand
        <4>2. BookOK(r.channels, v, attrs, subscribed)
          BY <1>1, <1>2, <1>3, <1>4, <1>11, <2>1, <4>1, MoveBook
        <4> QED
          BY <4>1, <4>2
      <3>2. CASE type = "ChannelEdited"
        <4>1. Silent(m)
          BY <1>8, <1>11, NoFields
        <4>2. /\ Leads(Before, r) /\ SameView(clients, r.clients)
              /\ MoveEditEffect(m, channels, r.channels)
          BY <1>7, <1>12, <2>2, <2>3, <2>4, <3>2, <4>1, MoveEditCommand
        <4>3. p = ParentOf(c)
          BY <1>2, <3>2
        <4>4. BookOK(r.channels, v, attrs, subscribed)
          BY <1>1, <1>2, <1>3, <1>4, <1>11, <2>1, <4>2, <4>3, MoveEditBook
        <4> QED
          BY <4>2, <4>4
      <3> QED
        BY <3>1, <3>2
    <2> QED
      BY <1>1, <1>2, <2>4 DEF ChannelTold
  <1> QED
    BY <1>2, <1>6, <1>10, <1>13, ChannelStep

LEMMA DeleteStep ==
  ASSUME BookInv, NEW c \in Channels, Delete(c)
  PROVE  BookInv'
  <1>1. PICK v, bt, ns : v = tree' /\ bt = attrs' /\ ns = subscribed'
    OBVIOUS
  <1>2. /\ c \in Present /\ tree[c] = <<>>
        /\ \A k \in DOMAIN members : At(members, k, "channel") # c
        /\ v = Without(TakenOut(c), c) /\ bt = Without(attrs, c) /\ ns = subscribed \ {c}
        /\ members' = members /\ joined' = joined
    BY <1>1 DEF Delete, At
  <1>3. ServerTree(tree, attrs) /\ AttrsOK(attrs) /\ MembersOK(members, DOMAIN attrs)
        /\ subscribed \subseteq DOMAIN attrs
        /\ (joined => Own \in DOMAIN members /\ At(members, Own, "channel") \in subscribed)
    BY DEF BookInv, ServerInv
  <1>4. ServerTree(v, bt)
    BY <1>2, <1>3, DeleteTree
  <1>5. /\ \A x : x \in DOMAIN bt <=> x \in DOMAIN attrs /\ x # c
        /\ \A x \in DOMAIN bt : bt[x] = attrs[x]
    BY <1>2 DEF Without
  <1>6. AttrsOK(bt)
    BY <1>3, <1>5 DEF AttrsOK
  <1>7. MembersOK(members, DOMAIN bt)
    <2>1. \A k \in DOMAIN members : At(members, k, "channel") \in DOMAIN bt
      BY <1>2, <1>3, <1>5 DEF MembersOK
    <2> QED
      BY <1>3, <2>1, MembersStay
  <1>8. ns \subseteq DOMAIN bt
    BY <1>2, <1>3, <1>5
  <1>9. joined => Own \in DOMAIN members /\ At(members, Own, "channel") \in ns
    BY <1>2, <1>3
  <1>10. ServerInv'
    BY <1>1, <1>2, <1>4, <1>6, <1>7, <1>8, <1>9 DEF ServerInv
  <1>11. Visible(members, subscribed') = Visible(members, subscribed)
    <2>1. \A k \in DOMAIN members : members[k].channel # c
      BY <1>2 DEF At
    <2> QED
      BY <1>1, <1>2, <2>1 DEF Visible
  <1>12. PICK m : m = [type |-> "ChannelDeleted", id |-> c, invoker |-> Nothing]
    OBVIOUS
  <1>13. Commands(<<m>>)
    BY <1>12 DEF Delete
  <1>14. m.id = c /\ m.type = "ChannelDeleted"
    BY <1>12
  <1>15. ASSUME joined
         PROVE  ChannelTold(m)
    <2>1. BookSide /\ BookOK(channels, tree, attrs, subscribed)
      BY <1>15 DEF BookInv, BookSide
    <2>2. Good(Before) /\ Before.channels = channels /\ Before.clients = clients
      BY <2>1, BeforeFacts
    <2>3. c \in DOMAIN channels
      BY <1>2, <2>1 DEF BookOK, Present
    <2>4. TakenFrom(ns, subscribed, c)
      BY <1>2 DEF TakenFrom
    <2>5. ASSUME NEW r \in HandleCommand(Before, m)
          PROVE  Leads(Before, r) /\ SameView(clients, r.clients)
                 /\ BookOK(r.channels, v, bt, ns)
      <3>1. /\ Leads(Before, r) /\ SameView(clients, r.clients)
            /\ DeleteEffect(m, channels, r.channels)
        BY <1>14, <2>2, <2>3, <2>5, DeleteCommand
      <3>2. BookOK(r.channels, v, bt, ns)
        BY <1>2, <1>3, <1>14, <2>1, <2>4, <3>1, DeleteBook
      <3> QED
        BY <3>1, <3>2
    <2> QED
      BY <1>1, <2>5 DEF ChannelTold
  <1> QED
    BY <1>2, <1>10, <1>11, <1>13, <1>15, ChannelStep

LEMMA EditStep ==
  ASSUME BookInv, NEW c \in Channels, NEW a \in Attributes, NEW k, Edit(c, a, k)
  PROVE  BookInv'
  <1>1. PICK bt : bt = attrs'
    OBVIOUS
  <1>2. /\ c \in DOMAIN attrs /\ bt = [attrs EXCEPT ![c] = a]
        /\ tree' = tree /\ members' = members /\ subscribed' = subscribed /\ joined' = joined
    BY <1>1 DEF Edit, Present
  <1>3. ServerTree(tree, attrs) /\ AttrsOK(attrs) /\ MembersOK(members, DOMAIN attrs)
        /\ subscribed \subseteq DOMAIN attrs
        /\ (joined => Own \in DOMAIN members /\ At(members, Own, "channel") \in subscribed)
    BY DEF BookInv, ServerInv
  <1>4. DOMAIN bt = DOMAIN attrs /\ bt[c] = a /\ \A x \in DOMAIN attrs : x # c => bt[x] = attrs[x]
    BY <1>2
  <1>5. ServerTree(tree, bt)
    BY <1>3, <1>4 DEF ServerTree, Spots
  <1>6. AttrsOK(bt)
    BY <1>3, <1>4 DEF AttrsOK
  <1>7. ServerInv'
    BY <1>1, <1>2, <1>3, <1>4, <1>5, <1>6 DEF ServerInv
  <1>8. attrs[c] \in Attributes
    BY <1>2, <1>3 DEF AttrsOK
  <1>9. PICK F, G : F = Fields(a) /\ G = Fields(attrs[c])
    OBVIOUS
  <1>10. PICK m : m = [ChannelMessage("ChannelEdited", c, Nothing, Nothing, NewFields(F, G))
                       EXCEPT !.invoker = Invoker(k)]
    OBVIOUS
  <1>11. Commands(<<m>>)
    BY <1>9, <1>10 DEF Edit, NewFields
  <1>12. PICK type, none : type = "ChannelEdited" /\ none = Nothing
    OBVIOUS
  <1>13. Says(m, type, c, none, none, NewFields(F, G))
    BY <1>10, <1>12, InvokedSays
  <1>14. m.id = c /\ m.type = type /\ m.order = Nothing
    BY <1>12, <1>13 DEF Says
  <1>15. ASSUME joined
         PROVE  ChannelTold(m)
    <2>1. BookSide /\ BookOK(channels, tree, attrs, subscribed)
      BY <1>15 DEF BookInv, BookSide
    <2>2. Good(Before) /\ Before.channels = channels /\ Before.clients = clients
      BY <2>1, BeforeFacts
    <2>3. c \in DOMAIN channels
      BY <1>2, <2>1 DEF BookOK
    <2>4. Says(m, type, c, none, none, NewFields(Fields(a), Fields(attrs[c])))
      BY <1>9, <1>13
    <2>5. ASSUME NEW r \in HandleCommand(Before, m)
          PROVE  Leads(Before, r) /\ SameView(clients, r.clients)
                 /\ BookOK(r.channels, tree, bt, subscribed)
      <3>1. /\ Leads(Before, r) /\ SameView(clients, r.clients)
            /\ EditEffect(m, channels, r.channels)
        BY <1>12, <1>14, <2>2, <2>3, <2>5, EditCommand
      <3>2. BookOK(r.channels, tree, bt, subscribed)
        BY <1>2, <1>3, <1>8, <2>1, <2>4, <3>1, EditBook
      <3> QED
        BY <3>1, <3>2
    <2> QED
      BY <1>1, <1>2, <2>5 DEF ChannelTold
  <1> QED
    BY <1>2, <1>7, <1>11, <1>15, ChannelStep

-----------------------------------------------------------------------------
(* We join: the list of channels, the subscriptions, and the clients.      *)

LEMMA JoinStep ==
  ASSUME BookInv, NEW c, NEW subs, NEW list \in SetToSeqs(Present), Join(c, subs, list)
  PROVE  BookInv'
  <1>1. PICK w : w = members'
    OBVIOUS
  <1>2. PICK name : name = CHOOSE n \in Names : TRUE
    OBVIOUS
  <1>3. /\ ~joined /\ c \in subs /\ subs \subseteq DOMAIN attrs
        /\ joined' /\ subscribed' = subs
        /\ w = With(members, Own, [channel |-> c, name |-> name, away |-> Nothing])
        /\ tree' = tree /\ attrs' = attrs
    BY <1>1, <1>2 DEF Join, Present
  <1>4. ServerTree(tree, attrs) /\ AttrsOK(attrs) /\ MembersOK(members, DOMAIN attrs)
    BY DEF BookInv, ServerInv
  <1>5. Own \in Clients
    BY BookAssumption, Zenon
  <1>6. /\ MembersOK(w, DOMAIN attrs) /\ At(w, Own, "channel") = c /\ Own \in DOMAIN w
    <2>1. /\ MembersOK(w, DOMAIN attrs) /\ At(w, Own, "channel") = c
          /\ \A x : x \in DOMAIN w <=> x \in DOMAIN members \/ x = Own
      BY <1>3, <1>4, <1>5, NewMember
    <2> QED
      BY <2>1
  <1>7. ServerInv'
    BY <1>1, <1>3, <1>4, <1>6 DEF ServerInv
  <1>8. IsFiniteSet(Present) /\ IsFiniteSet(subs) /\ IsFiniteSet(Visible(w, subs))
    <2>1. subs \subseteq Present /\ Visible(w, subs) \subseteq DOMAIN w
      BY <1>3 DEF Present, Visible
    <2> QED
      BY <1>4, <1>6, <2>1, FiniteFacts
  <1>9. PICK d, e, f : d = Listing(list) /\ e = Subscribing(subs) /\ f = Entering(Visible(w, subs), w)
    OBVIOUS
  <1>10. IsSeq(d) /\ IsSeq(e) /\ IsSeq(f)
    BY <1>8, <1>9, ListingFacts, SubscribingFacts, EnteringFacts DEF Covers
  <1>11. PICK de : de = d \o e
    OBVIOUS
  <1>12. IsSeq(de) /\ Len(de \o f) \in Nat
    BY <1>10, <1>11, SeqFacts
  <1>13. Commands(de \o f)
    BY <1>1, <1>9, <1>11 DEF Join, Listing, Subscribing
  <1>14. PICK r : Reaches(Before, de \o f, r) /\ Becomes(r)
    BY <1>3, <1>12, <1>13, CommandsReach
  <1>15. PICK b : Reaches(Before, de, b) /\ Reaches(b, f, r)
    BY <1>10, <1>12, <1>14, ReachesParts
  <1>16. PICK a : Reaches(Before, d, a) /\ Reaches(a, e, b)
    BY <1>10, <1>11, <1>15, ReachesParts
  <1>17. BookSide /\ DOMAIN channels = {} /\ DOMAIN clients = {}
    BY <1>3 DEF BookInv, BookSide
  <1>18. Good(Before) /\ Before.channels = channels /\ Before.clients = clients
    BY <1>17, BeforeFacts
  <1>19. Leads(Before, a) /\ SameView(clients, a.clients) /\ BookOK(a.channels, tree, attrs, {})
    <2>1. \A x \in Present : attrs[x] \in Attributes
      BY <1>4 DEF AttrsOK, Present
    <2>2. Reaches(Before, Listing(list), a)
      BY <1>9, <1>16
    <2>3. DOMAIN Before.channels = {}
      BY <1>17, <1>18
    <2>4. Leads(Before, a) /\ SameView(Before.clients, a.clients) /\ BookOK(a.channels, tree, attrs, {})
      BY <1>4, <1>8, <1>18, <2>1, <2>2, <2>3, ListAll
    <2> QED
      BY <1>18, <2>4
  <1>20. Leads(a, b) /\ SameView(a.clients, b.clients) /\ BookOK(b.channels, tree, attrs, subs)
    <2>1. Good(a)
      BY <1>19 DEF Leads
    <2>2. Reaches(a, Subscribing(subs), b)
      BY <1>9, <1>16
    <2> QED
      BY <1>3, <1>8, <1>19, <2>1, <2>2, SubscribeAll
  <1>21. Leads(b, r) /\ r.channels = b.channels /\ Sees(r.clients, w, Visible(w, subs))
    <2>1. Good(b)
      BY <1>20 DEF Leads
    <2>2. Reaches(b, Entering(Visible(w, subs), w), r)
      BY <1>9, <1>15
    <2>3. PICK S, T : S = {} /\ T = Visible(w, subs)
      OBVIOUS
    <2>4. Sees(b.clients, w, S)
      <3>1. DOMAIN a.clients = {} /\ DOMAIN b.clients = {}
        BY <1>17, <1>19, <1>20 DEF SameView
      <3> QED
        BY <2>3, <3>1 DEF Sees
    <2>5. Union2(T, S, T) /\ \A x \in T : x \notin S
      BY <2>3 DEF Union2
    <2>6. IsFiniteSet(T) /\ Reaches(b, Entering(T, w), r)
      BY <1>8, <2>2, <2>3
    <2>7. Leads(b, r) /\ r.channels = b.channels /\ Sees(r.clients, w, T)
      BY <2>1, <2>4, <2>5, <2>6, EnterAll
    <2> QED
      BY <2>3, <2>7
  <1>22. Leads(Before, r)
    BY <1>19, <1>20, <1>21, LeadsTransitive
  <1>23. BookOK(r.channels, tree', attrs', subscribed')
         /\ Sees(r.clients, members', Visible(members', subscribed'))
    BY <1>1, <1>3, <1>20, <1>21
  <1>24. BookSide' /\ told'
    BY <1>3, <1>14, <1>17, <1>22, <1>23, SideFrom
  <1> QED
    BY <1>7, <1>24 DEF BookInv

-----------------------------------------------------------------------------
(* The theorems about the book.                                            *)

\* A new connection: no book and no channels yet.
LEMMA BookStart ==
  ASSUME BookInit
  PROVE  BookInv
  <1>1. /\ channels = <<>> /\ clients = <<>> /\ told
        /\ tree = [p \in {Root} |-> <<>>] /\ attrs = <<>>
        /\ members = <<>> /\ subscribed = {} /\ ~joined
    BY DEF BookInit
  <1>2. DOMAIN <<>> = {}
    OBVIOUS
  <1>3. ASSUME NEW f, f = <<>>, NEW A
        PROVE  Form(f, A)
    <2>1. f = [x \in DOMAIN f |-> f[x]] /\ DOMAIN f = {}
      BY <1>2, <1>3
    <2> QED
      BY <2>1 DEF Form
  <1>4. Form(channels, ChannelAttrs) /\ Form(clients, ClientAttrs) /\ Form(members, MemberAttrs)
    BY <1>1, <1>3
  <1>5. ServerTree(tree, attrs)
    <2>1. Spots(attrs) = {Root} /\ DOMAIN attrs = {}
      BY <1>1, <1>2 DEF Spots
    <2>2. DOMAIN tree = {Root} /\ tree[Root] = <<>>
      BY <1>1
    <2>3. <<>> \in Seq({}) /\ Len(<<>>) = 0
      OBVIOUS
    <2> QED
      BY <2>1, <2>2, <2>3 DEF ServerTree, TreeOK
  <1>6. AttrsOK(attrs) /\ MembersOK(members, DOMAIN attrs)
    BY <1>1, <1>2, <1>4 DEF AttrsOK, MembersOK
  <1>7. ServerInv
    BY <1>1, <1>5, <1>6 DEF ServerInv
  <1>8. BookSide
    BY <1>1, <1>2, <1>4 DEF BookSide
  <1> QED
    BY <1>1, <1>7, <1>8 DEF BookInv

LEMMA BookStays ==
  ASSUME BookInv, UNCHANGED bookVars
  PROVE  BookInv'
  <1>1. /\ channels' = channels /\ clients' = clients /\ told' = told
        /\ tree' = tree /\ attrs' = attrs /\ members' = members /\ subscribed' = subscribed
        /\ joined' = joined
    BY DEF bookVars, book, server
  <1> QED
    BY <1>1 DEF BookInv, ServerInv, BookSide

LEMMA BookStep ==
  ASSUME BookInv, BookNext
  PROVE  BookInv'
  <1>1. CASE \E c \in Present, subs \in SUBSET Present, list \in SetToSeqs(Present) : Join(c, subs, list)
    BY <1>1, JoinStep
  <1>2. CASE \E c \in Channels, p \in Channels \cup {Root}, i \in 1 .. Cardinality(Channels) :
               Create(c, p, i)
    BY <1>2, CreateStep
  <1>3. CASE \E c \in Channels, p \in Channels \cup {Root}, i \in 1 .. Cardinality(Channels) :
               \E type \in {"ChannelMoved", "ChannelEdited"} : Move(c, p, i, type)
    BY <1>3, MoveStep
  <1>4. CASE \E c \in Channels : Delete(c) \/ Subscribe(c) \/ Unsubscribe(c)
    BY <1>4, DeleteStep, SubscribeStep, UnsubscribeStep
  <1>5. CASE \E c \in Channels, a \in Attributes, k \in Clients \cup {Nothing} : Edit(c, a, k)
    BY <1>5, EditStep
  <1>6. CASE \E k \in Clients, c \in Channels : Enter(k, c) \/ ClientMove(k, c)
    BY <1>6, EnterStep, ClientMoveStep
  <1>7. CASE \E k \in Clients : Leave(k)
    BY <1>7, LeaveStep
  <1>8. CASE \E k \in Clients, away \in {Nothing, "lunch", "sleep"}, name \in Names, shown \in BOOLEAN :
               Update(k, away, name, shown)
    BY <1>8, UpdateStep DEF Aways
  <1>9. CASE \E k \in Clients : (\E target \in {"Server", "Unknown"} : Text(k, target))
                                  \/ \E data \in {"valid", "invalid"} : ConnectionInfo(k, data)
    BY <1>9, TextStep, ConnectionInfoStep
  <1> QED
    BY <1>1, <1>2, <1>3, <1>4, <1>5, <1>6, <1>7, <1>8, <1>9, Zenon DEF BookNext

\* The server is in order, the book is what it has, and the events of the
\* last commands told all, however Connection::handle_command works through
\* its hash maps.
THEOREM BookSound == BookSpec => []BookInv
  <1>1. BookInit => BookInv
    BY BookStart
  <1>2. BookInv /\ [BookNext]_bookVars => BookInv'
    BY BookStep, BookStays
  <1> QED
    BY <1>1, <1>2, PTL DEF BookSpec

\* The channels in the book of Connection::handle_command are the ones of the
\* server, in its order and with its attributes: channel_order_insert and
\* channel_order_remove repair the order of the siblings, which no message
\* mentions.
THEOREM BookHasChannels == BookSpec => []ChannelsMatch
  <1>1. BookInv => ChannelsMatch
    <2> SUFFICES ASSUME BookInv, joined
                 PROVE  /\ DOMAIN channels = Present
                        /\ \A c \in Present :
                             /\ channels[c].parent = ParentOf(c) /\ channels[c].order = OrderOf(c)
                             /\ channels[c].subscribed = (c \in subscribed)
                             /\ \A f \in {"max", "family", "type"} : channels[c][f] = attrs[c][f]
      BY Zenon DEF ChannelsMatch
    <2>1. ServerTree(tree, attrs) /\ BookOK(channels, tree, attrs, subscribed)
      BY DEF BookInv, ServerInv, BookSide
    <2>2. DOMAIN channels = Present
      BY <2>1 DEF BookOK, Present
    <2>3. ASSUME NEW c \in Present
          PROVE  /\ channels[c].parent = ParentOf(c) /\ channels[c].order = OrderOf(c)
                 /\ channels[c].subscribed = (c \in subscribed)
                 /\ \A f \in {"max", "family", "type"} : channels[c][f] = attrs[c][f]
      <3>1. At(channels, c, "parent") = ParentOf(c) /\ At(channels, c, "order") = OrderOf(c)
        BY <2>1, BookPlace
      <3>2. At(channels, c, "subscribed") = (c \in subscribed)
        BY <2>1, Zenon DEF BookOK, Present
      <3>3. SameAttrs(channels, attrs, c)
        BY <2>1 DEF BookOK, Present
      <3>4. channels[c].parent = ParentOf(c) /\ channels[c].order = OrderOf(c)
        BY <3>1 DEF At
      <3>5. channels[c].subscribed = (c \in subscribed)
        BY <3>2, Zenon DEF At
      <3>6. \A f \in {"max", "family", "type"} : channels[c][f] = attrs[c][f]
        BY <3>3 DEF SameAttrs, At
      <3> QED
        BY <3>4, <3>5, <3>6, Zenon
    <2> QED
      BY <2>2, <2>3, Zenon
  <1> QED
    BY <1>1, BookSound, PTL

\* The clients in the book are the ones that the server shows us: enter view,
\* leave view, move, subscribe and unsubscribe leave nobody over and nobody
\* out, and the away message is up to date.
THEOREM BookHasClients == BookSpec => []ClientsMatch
  <1>1. BookInv => ClientsMatch
    <2> SUFFICES ASSUME BookInv, joined
                 PROVE  /\ DOMAIN clients = Visible(members, subscribed)
                        /\ \A k \in DOMAIN clients : clients[k].channel = members[k].channel
                                                   /\ clients[k].away = members[k].away
      BY Zenon DEF ClientsMatch
    <2>1. Sees(clients, members, Visible(members, subscribed))
      BY DEF BookInv, BookSide
    <2> QED
      BY <2>1 DEF Sees, At
  <1> QED
    BY <1>1, BookSound, PTL

\* Undone from the last to the first, the events of handle_command lead back
\* to the book before the commands: every change is reported, with the value
\* it replaced.
THEOREM EventsComplete == BookSpec => []EventsTellAll
  <1>1. BookInv => EventsTellAll
    BY DEF BookInv, EventsTellAll
  <1> QED
    BY <1>1, BookSound, PTL

=============================================================================
