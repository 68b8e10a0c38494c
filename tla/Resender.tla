------------------------------ MODULE Resender ------------------------------
(***************************************************************************)
(* The resender of a connection (tsproto/src/resend.rs): it keeps Init,    *)
(* Command and CommandLow packets until they are acknowledged, schedules   *)
(* as many of them as the congestion window allows in a heap, and sends    *)
(* and resends the most urgent one whenever the connection is polled.      *)
(*                                                                         *)
(* A call of send_packet, ack_packet or poll_resend is not interruptible:  *)
(* pc says which loop is running, and while it is not "idle" only the      *)
(* steps of that loop are enabled.  Time is a logical clock that advances  *)
(* at every recorded instant; how much time passes between two instants,   *)
(* hence the retransmission timeout, the overall timeout and the CUBIC     *)
(* window, is left open.                                                   *)
(***************************************************************************)
EXTENDS PacketIds, FiniteSets

CONSTANTS
    FirstId,    \* first Command id: 1 on the client, 0 on the server
    InitSteps,  \* Init packets of the handshake, a subset of {0, 2, 4}
    MaxQueued,  \* bound: packets queued per command type
    MaxWindow,  \* bound: largest congestion window
    MaxClock    \* bound: recorded instants

CommandTypes == {"Command", "CommandLow"}
\* PacketTypes the resender handles: Resender::packet_type_to_index
Types == {"Init"} \cup CommandTypes

ASSUME ResenderAssumption ==
    /\ FirstId \in {0, 1}
    /\ InitSteps \subseteq {0, 2, 4} /\ \A s \in InitSteps : s < IdMod
    /\ MaxQueued \in [CommandTypes -> Nat]
    /\ MaxWindow \in Nat \ {0}
    /\ MaxClock \in Nat

VARIABLES
    full_send_queue,     \* per type: packet id -> [sent, last, tries]
    send_queue,          \* the heap of SendRecordIds
    send_queue_indices,  \* per type
    outgoing_p_ids,      \* per command type, of the PacketCodec
    issued,              \* per type: ids that send_packet has returned
    transmitted,         \* per type: ids that were sent at least once
    ack_event,           \* per type: last StreamItem::AckPacket
    init_sent,           \* last Init step that was sent
    clock,
    pc,                  \* "idle", "poll" (poll_resend), "fill" (fill_up_send_queue)
    caller,              \* where fill_up_send_queue returns to
    room,                \* iterations left in fill_up_send_queue
    failed               \* poll_resend returned an error

queueVars == <<full_send_queue, send_queue, send_queue_indices>>
historyVars == <<issued, transmitted>>
controlVars == <<pc, caller, room>>
vars == <<queueVars, outgoing_p_ids, historyVars, ack_event, init_sent, clock,
          controlVars, failed>>

None == -1
NoEvent == Part(-1, -1)
Zero == Part(0, 0)

\* p is the smallest of the keys S of a BTreeMap
IsFirst(p, S) == p \in S /\ \A q \in S : LessEq(p, q)

Ids(t) == DOMAIN full_send_queue[t]

Insert(f, p, r) == [q \in DOMAIN f \cup {p} |-> IF q = p THEN r ELSE f[q]]
Remove(f, p) == [q \in DOMAIN f \ {p} |-> f[q]]

-----------------------------------------------------------------------------
(* Resender::fill_up_send_queue, one iteration of the loop per step.       *)

\* Mutants of StartFill: the length of the heap is subtracted without regard
\* to the sign, not at all, or one iteration is missing.
StartFillNegative(size, returnTo) ==
    /\ pc' = "fill"
    /\ caller' = returnTo
    /\ \E window \in 1 .. MaxWindow : room' = window - size

StartFillWindow(size, returnTo) ==
    /\ pc' = "fill"
    /\ caller' = returnTo
    /\ room' \in 1 .. MaxWindow

StartFillShort(size, returnTo) ==
    /\ pc' = "fill"
    /\ caller' = returnTo
    /\ \E window \in 1 .. MaxWindow :
           room' = IF window > size THEN window - size - 1 ELSE 0

\* `for _ in self.send_queue.len()..window`, for some window; size is the
\* length of the heap when the function is called
StartFill(size, returnTo) ==
    /\ pc' = "fill"
    /\ caller' = returnTo
    /\ \E window \in 1 .. MaxWindow :
           room' = IF window > size THEN window - size ELSE 0

\* What the iterator of a type still yields: skip_while(part < index)
Waiting(t) == {p \in Ids(t) : ~Less(p, send_queue_indices[t])}

Waiters == {t \in Types : Waiting(t) # {}}

\* p, of the queue t, is next: it is the head of its queue, and no other head
\* was queued later (`t < rec.sent` replaces the choice)
FillChoice(t, p) ==
    /\ IsFirst(p, Waiting(t))
    /\ \A u \in Types : \A q \in Waiting(u) :
           IsFirst(q, Waiting(u))
               => full_send_queue[u][q].sent <= full_send_queue[t][p].sent

\* The heap entry of a record: SendRecord.id.  The heap may hold an entry
\* several times (after the index was lowered); copy tells them apart.
EntryOf(t, p, copy) ==
    [type |-> t, part |-> p, last |-> full_send_queue[t][p].last,
     tries |-> full_send_queue[t][p].tries, copy |-> copy]

Push(t, p) ==
    \E copy \in 0 .. Cardinality(send_queue) :
        /\ \A c \in 0 .. copy : EntryOf(t, p, c) \in send_queue <=> c < copy
        /\ send_queue' = send_queue \cup {EntryOf(t, p, copy)}

FillStep ==
    /\ pc = "fill" /\ room > 0
    /\ \E t \in Types : \E p \in Waiting(t) :
        /\ FillChoice(t, p)
        /\ Push(t, p)
        /\ send_queue_indices' = [send_queue_indices EXCEPT ![t] = Plus(p, 1)]
    /\ room' = room - 1
    /\ UNCHANGED <<full_send_queue, outgoing_p_ids, historyVars, ack_event,
                   init_sent, clock, pc, caller, failed>>

FillEnd ==
    /\ pc = "fill" /\ (room = 0 \/ Waiters = {})
    /\ pc' = caller
    /\ room' = 0
    /\ caller' = "idle"
    /\ UNCHANGED <<queueVars, outgoing_p_ids, historyVars, ack_event, init_sent,
                   clock, failed>>

-----------------------------------------------------------------------------
(* Resender::send_packet                                                   *)

\* Mutant of LoweredIndex: the index stays where it is.
LoweredIndexNever(t, p) == send_queue_indices[t]

\* send_packet lowers the index for packets with smaller ids.
LoweredIndex(t, p) ==
    IF Less(p, send_queue_indices[t]) THEN p ELSE send_queue_indices[t]

Queue(t, p) ==
    /\ pc = "idle" /\ ~failed
    /\ clock < MaxClock
    /\ clock' = clock + 1
    /\ full_send_queue' = [full_send_queue EXCEPT ![t] =
           Insert(@, p, [sent |-> clock + 1, last |-> clock + 1, tries |-> 0])]
    /\ send_queue_indices' = [send_queue_indices EXCEPT ![t] = LoweredIndex(t, p)]
    /\ issued' = [issued EXCEPT ![t] = @ \cup {p}]
    /\ StartFill(Cardinality(send_queue), "idle")
    /\ UNCHANGED <<send_queue, transmitted, ack_event, failed>>

\* Connection::send_packet with a packet of type Command or CommandLow
SendCommand(t) ==
    /\ Cardinality(issued[t]) < MaxQueued[t]
    /\ Queue(t, EncodedId(outgoing_p_ids[t]))
    /\ outgoing_p_ids' = [outgoing_p_ids EXCEPT ![t] = Plus(@, 1)]
    /\ UNCHANGED init_sent

\* Client::connect sends Init0, Init2, Init4, each after the answer to the
\* one before; the answer 127 to Init2 makes it start again.
InitFollows(step) ==
    CASE step = 0 -> init_sent \in {None, 2}
      [] step = 2 -> init_sent = 0
      [] step = 4 -> init_sent = 2

SendInit(step) ==
    /\ Ids("Init") = {} /\ InitFollows(step)
    /\ Queue("Init", Part(0, step))
    /\ init_sent' = step
    /\ UNCHANGED outgoing_p_ids

-----------------------------------------------------------------------------
(* Resender::ack_packet                                                    *)

\* Mutant of AckedBefore: only the packet itself is acknowledged.
AckedBeforeNext(t, first) == Plus(first, 1)

\* The id before which everything is acknowledged when `first` is: that of
\* the next packet in the queue, or of the next one to send.
AckedBefore(t, first) ==
    LET rest == Ids(t) \ {first}
    IN  IF rest # {} THEN CHOOSE p \in rest : IsFirst(p, rest)
        ELSE IF t = "Init" THEN Part(0, first.packet_id + 1)
        ELSE outgoing_p_ids[t]

\* StreamItem::AckPacket is produced when the first packet is acknowledged.
AckPacket(t, p_id) ==
    /\ pc = "idle" /\ ~failed
    /\ \E first \in Ids(t) :
        /\ IsFirst(first, Ids(t))
        /\ ack_event' = IF first.packet_id = p_id
                        THEN [ack_event EXCEPT ![t] = Minus(AckedBefore(t, first), 1)]
                        ELSE ack_event
        /\ full_send_queue' = [full_send_queue EXCEPT ![t] =
                                   Remove(@, AckedKey(first, p_id))]
    /\ UNCHANGED <<send_queue, send_queue_indices, outgoing_p_ids, historyVars,
                   init_sent, clock, controlVars, failed>>

-----------------------------------------------------------------------------
(* Resender::poll_resend, one path through the loop body per action.       *)

\* impl Ord for SendRecordId: a has to be sent before b
Before(a, b) ==
    \/ a.tries = 0 /\ b.tries # 0
    \/ /\ (a.tries = 0) = (b.tries = 0)
       /\ \/ a.last < b.last
          \/ a.last = b.last /\ Less(a.part, b.part)

\* send_queue.peek_mut()
IsTop(e) == e \in send_queue /\ \A o \in send_queue \ {e} : ~Before(o, e)

Poll ==
    /\ pc = "idle" /\ ~failed
    /\ pc' = "poll"
    /\ UNCHANGED <<queueVars, outgoing_p_ids, historyVars, ack_event, init_sent,
                   clock, caller, room, failed>>

\* The packet was acknowledged: drop the heap entry and fill up.
PollAcked(e) ==
    /\ pc = "poll" /\ IsTop(e)
    /\ e.part \notin Ids(e.type)
    /\ send_queue' = send_queue \ {e}
    /\ StartFill(Cardinality(send_queue) - 1, "poll")
    /\ UNCHANGED <<full_send_queue, send_queue_indices, outgoing_p_ids,
                   historyVars, ack_event, init_sent, clock, failed>>

\* The loop ends: the heap is empty, the retransmission timeout of the top
\* entry has not passed, or the socket is not writable.
PollEnd ==
    /\ pc = "poll"
    /\ \/ send_queue = {}
       \/ \E e \in send_queue : IsTop(e) /\ e.part \in Ids(e.type)
    /\ pc' = "idle"
    /\ UNCHANGED <<queueVars, outgoing_p_ids, historyVars, ack_event, init_sent,
                   clock, caller, room, failed>>

\* The packet was queued longer ago than the timeout of the current state, or
\* the socket reports an error.
PollFails(e) ==
    /\ pc = "poll" /\ IsTop(e) /\ e.part \in Ids(e.type)
    /\ failed' = TRUE
    /\ pc' = "idle"
    /\ UNCHANGED <<queueVars, outgoing_p_ids, historyVars, ack_event, init_sent,
                   clock, caller, room>>

\* The packet was never sent or its retransmission timeout has passed, and
\* the socket takes it: both copies of its record id are updated.
Sent(e) ==
    /\ pc = "poll" /\ IsTop(e) /\ e.part \in Ids(e.type)
    /\ clock < MaxClock
    /\ clock' = clock + 1
    /\ full_send_queue' = [full_send_queue EXCEPT ![e.type][e.part] =
           [@ EXCEPT !.last = clock + 1, !.tries = e.tries + 1]]
    /\ transmitted' = [transmitted EXCEPT ![e.type] = @ \cup {e.part}]
    /\ UNCHANGED <<outgoing_p_ids, issued, ack_event, init_sent, failed>>

PollSend(e) ==
    /\ Sent(e)
    /\ e.tries = 0
    /\ send_queue' = (send_queue \ {e})
           \cup {[e EXCEPT !.last = clock + 1, !.tries = 1, !.copy = 0]}
    /\ UNCHANGED <<send_queue_indices, controlVars>>

\* A resend is a packet loss: rebuild_send_queue starts from the oldest
\* packets, with a smaller window.
PollResend(e) ==
    /\ Sent(e)
    /\ e.tries # 0
    /\ send_queue' = {}
    /\ send_queue_indices' = [t \in Types |-> Zero]
    /\ StartFill(0, "poll")

-----------------------------------------------------------------------------

Init ==
    /\ full_send_queue = [t \in Types |-> [p \in {} |-> {}]]
    /\ send_queue = {}
    /\ send_queue_indices = [t \in Types |-> Zero]
    /\ outgoing_p_ids = [t \in CommandTypes |->
                            Part(0, IF t = "Command" THEN FirstId ELSE 0)]
    /\ issued = [t \in Types |-> {}]
    /\ transmitted = [t \in Types |-> {}]
    /\ ack_event = [t \in Types |-> NoEvent]
    /\ init_sent = None
    /\ clock = 0
    /\ pc = "idle"
    /\ caller = "idle"
    /\ room = 0
    /\ failed = FALSE

\* Acks that the peer may send: for packets it may have received
AckableIds(t) == {p.packet_id : p \in transmitted[t]}

Next ==
    \/ \E t \in CommandTypes : SendCommand(t)
    \/ \E step \in InitSteps : SendInit(step)
    \/ \E t \in Types : \E p_id \in AckableIds(t) : AckPacket(t, p_id)
    \/ FillStep
    \/ FillEnd
    \/ Poll
    \/ PollEnd
    \/ \E e \in send_queue :
           \/ PollAcked(e)
           \/ PollFails(e)
           \/ PollSend(e)
           \/ PollResend(e)

Spec == Init /\ [][Next]_vars


-----------------------------------------------------------------------------
(* Properties.                                                             *)

Record == [sent : 1 .. MaxClock, last : 1 .. MaxClock, tries : Nat]
HeapEntry == [type : Types, part : PartialPacketId, last : 1 .. MaxClock,
              tries : Nat, copy : Nat]

\* Every variable has its type; the queue only holds ids that were issued.
TypeOK ==
    /\ full_send_queue = [t \in Types |-> full_send_queue[t]]
    /\ \A t \in Types : /\ Ids(t) \subseteq issued[t]
                        /\ full_send_queue[t] \in [Ids(t) -> Record]
    /\ send_queue \in SUBSET HeapEntry
    /\ send_queue_indices \in [Types -> PartialPacketId]
    /\ outgoing_p_ids \in [CommandTypes -> PartialPacketId]
    /\ issued \in [Types -> SUBSET PartialPacketId]
    /\ transmitted \in [Types -> SUBSET PartialPacketId]
    /\ ack_event \in [Types -> PartialPacketId \cup {NoEvent}]
    /\ init_sent \in {None, 0, 2, 4}
    /\ clock \in 0 .. MaxClock
    /\ pc \in {"idle", "poll", "fill"}
    /\ caller \in {"idle", "poll"}
    /\ room \in 0 .. MaxWindow
    /\ failed \in BOOLEAN

Scheduled(t, p) == \E e \in send_queue : e.type = t /\ e.part = p

\* No unacknowledged packet is forgotten: one that the iterators of
\* fill_up_send_queue will not yield any more is in the heap, from which it
\* is resent.  This is the first half of the comment on send_queue_indices.
NoPacketForgotten ==
    \A t \in Types : \A p \in Ids(t) :
        Less(p, send_queue_indices[t]) => Scheduled(t, p)

\* Between two calls an empty heap means that nothing is left to send: no
\* packet waits while poll_resend, which looks only at the heap, has nothing
\* to do and arms no timer.
NeverStalls ==
    (pc = "idle" /\ send_queue = {}) => \A t \in Types : Ids(t) = {}

InFlight(t) == {p \in Ids(t) : full_send_queue[t][p].tries > 0}

\* The congestion window is kept within each packet type, although the heap
\* is rebuilt with another window while packets that were scheduled with the
\* old one are still in flight.
QueueWithinWindow ==
    \A t \in Types : Cardinality(InFlight(t)) <= MaxWindow

\* The comment on get_window: "The amount of packets that can be in-flight
\* concurrently", of all types together.
\* It does not hold (README, section 7).
InFlightWithinWindow ==
    Cardinality(UNION {{t} \X InFlight(t) : t \in Types}) <= MaxWindow

\* An AckPacket event never covers a command that is still in the queue:
\* wait_for_ack does not return too early.
AckEventSound ==
    \A t \in CommandTypes : \A p \in Ids(t) :
        ack_event[t] # NoEvent => ~LessEq(p, ack_event[t])

\* Once a command and all commands before it are acknowledged, an AckPacket
\* event has covered it, even if the acks arrive out of order: wait_for_ack
\* returns.
AckEventComplete ==
    \A t \in CommandTypes : \A p \in issued[t] :
        (\A q \in Ids(t) : Less(p, q))
            => ack_event[t] # NoEvent /\ LessEq(p, ack_event[t])

\* An AckPacket event covers a command exactly when it and all commands before
\* it are acknowledged: wait_for_ack returns, and not too early.
AckEventExact == AckEventSound /\ AckEventComplete

-----------------------------------------------------------------------------
(* Refinement: command packets as the abstract sender sees them, while no  *)
(* id wraps.                                                               *)
Abstract == INSTANCE ReliableSender WITH
    MaxPackets <- MaxQueued["Command"],
    Backlog <- MaxQueued["Command"],
    SendWindow <- MaxWindow,
    queued <- outgoing_p_ids["Command"].packet_id,
    transmitted <- {p.packet_id : p \in transmitted["Command"]},
    unacked <- {p.packet_id : p \in Ids("Command")}

\* The resender keeps the contract of ReliableSender for commands: first
\* transmissions in order and within the window, every packet kept until it
\* is acknowledged, only packets in flight removed.
ImplementsSender == Abstract!SenderSpec

=============================================================================
