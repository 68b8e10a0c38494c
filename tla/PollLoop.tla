------------------------------ MODULE PollLoop ------------------------------
(***************************************************************************)
(* How a connection is driven: Stream::poll_next of Connection and Client  *)
(* (tsproto/src/connection.rs, client.rs), the queues acks_to_send and     *)
(* stream_items between its stages, and the wakers through which the       *)
(* socket and the timers get the task polled again.                        *)
(*                                                                         *)
(* The task is one thread, but the socket becomes readable, writable or    *)
(* full between any two of its calls, so every call that touches the       *)
(* socket is a step.  A task that has returned Pending runs again only if  *)
(* somebody calls its waker.  What a datagram contains is reduced to what  *)
(* its handler does: make an ack or not, produce items or not, acknowledge *)
(* a packet or not.  Of the resender (Resender models it by itself) there  *)
(* are the queues of one type of packets, which are numbered in the order  *)
(* of their ids: here the question is whether the task is awake when one   *)
(* of them can be sent.                                                    *)
(***************************************************************************)
EXTENDS Naturals, Sequences, FiniteSets

CONSTANTS
    SinkCapacity,  \* UDP_SINK_CAPACITY, 50 in the code
    Window,        \* the largest congestion window that get_window computes
    MaxArrivals,   \* bound: datagrams from the peer
    MaxQueued,     \* bound: commands of the application
    MaxPings       \* bound: pings, and voice packets of the application

ASSUME PollLoopAssumption ==
    /\ SinkCapacity \in Nat /\ SinkCapacity >= 2
    /\ Window \in Nat \ {0}
    /\ MaxArrivals \in Nat /\ MaxQueued \in Nat /\ MaxPings \in Nat

VARIABLES
    inbox, writable,           \* the socket: datagrams to read, room to send
    recv_waker, send_waker,    \* the task waits for the socket
    due,                       \* a timer of poll_ping has expired
    woken,                     \* the task will be polled
    pc,                        \* where poll_next is, "idle" between two polls
    acks_to_send, stream_items,
    made, gone,                \* acks, pongs, pings, voice: number made, and those sent
    unacked,                   \* full_send_queue: packets that are not acknowledged
    send_queue,                \* the heap; also has packets acknowledged meanwhile
    last,                      \* the packets by the time they were last sent, see Ordered
    fresh,                     \* the packets sent by this poll_resend, not due again
    resend_timer,              \* the timer `timeout` of poll_resend is running
    state,                     \* ResenderState
    arrived, queued, pinged    \* how much of the bounds is used

socketVars == <<inbox, writable>>
wakerVars == <<recv_waker, send_waker, due>>
outVars == <<acks_to_send, made, gone>>
resendVars == <<unacked, send_queue, last, fresh, resend_timer>>
queueVars == <<unacked, send_queue, last>>
boundVars == <<arrived, queued, pinged>>
vars == <<socketVars, wakerVars, woken, pc, stream_items, outVars, resendVars,
          state, boundVars>>

\* Datagrams, by what handle_udp_packet does with them: a command that gives
\* items, one that gives none (a fragment, out of order, or a ping), the
\* notification that the own client has left, an ack, a voice packet.
Datagram == {"command", "fragment", "leftview", "ack", "voice"}

-----------------------------------------------------------------------------
(* The environment: tokio's socket and timers, the application.            *)

Arrive(d) ==
    /\ arrived < MaxArrivals
    /\ arrived' = arrived + 1
    /\ inbox' = Append(inbox, d)
    /\ woken' = (woken \/ recv_waker)
    /\ recv_waker' = FALSE
    /\ UNCHANGED <<writable, send_waker, due, pc, stream_items, outVars,
                   resendVars, state, queued, pinged>>

BecomeWritable ==
    /\ ~writable
    /\ writable' = TRUE
    /\ woken' = (woken \/ send_waker)
    /\ send_waker' = FALSE
    /\ UNCHANGED <<inbox, recv_waker, due, pc, stream_items, outVars,
                   resendVars, state, boundVars>>

BecomeFull ==
    /\ writable
    /\ writable' = FALSE
    /\ UNCHANGED <<inbox, wakerVars, woken, pc, stream_items, outVars,
                   resendVars, state, boundVars>>

TimerFires ==
    /\ ~due
    /\ due' = TRUE
    /\ woken' = TRUE
    /\ UNCHANGED <<socketVars, recv_waker, send_waker, pc, stream_items,
                   outVars, resendVars, state, boundVars>>

\* The timer of poll_resend
ResendTimerFires ==
    /\ resend_timer
    /\ resend_timer' = FALSE
    /\ woken' = TRUE
    /\ UNCHANGED <<socketVars, wakerVars, pc, stream_items, outVars, unacked,
                   send_queue, last, fresh, state, boundVars>>

\* Resender::fill_up_send_queue for a window of w: the first packets that are
\* not in the heap get into it.  Entries of acknowledged packets take a place.
Filled(queue, heap, w) ==
    heap \cup {n \in queue \ heap :
                 Cardinality(heap \cup {m \in queue \ heap : m < n}) < w}

\* Client::send_packet.  It wakes nobody: the application calls it from the
\* task that owns the connection and polls that connection afterwards.
AppSend ==
    /\ pc = "idle"
    /\ queued < MaxQueued
    /\ queued' = queued + 1
    /\ unacked' = unacked \cup {queued}
    /\ \E w \in 1 .. Window : send_queue' = Filled(unacked', send_queue, w)
    /\ woken' = TRUE
    /\ UNCHANGED <<socketVars, wakerVars, pc, stream_items, outVars, last, fresh,
                   resend_timer, state, arrived, pinged>>

\* The same with a voice packet, which goes the way of the acks
AppSendVoice ==
    /\ pc = "idle"
    /\ pinged < MaxPings
    /\ pinged' = pinged + 1
    /\ acks_to_send' = Append(acks_to_send, made)
    /\ made' = made + 1
    /\ woken' = TRUE
    /\ UNCHANGED <<socketVars, wakerVars, pc, stream_items, gone, resendVars,
                   state, arrived, queued>>

-----------------------------------------------------------------------------
(* Connection::poll_next, in the order of its stages.                      *)

StartPoll ==
    /\ pc = "idle" /\ woken
    /\ woken' = FALSE
    /\ pc' = "acks"
    /\ UNCHANGED <<socketVars, wakerVars, stream_items, outVars, resendVars,
                   state, boundVars>>

\* Mutant of SendQueuedAck: the packet is taken from the queue after the one
\* that was sent.
SendQueuedAckSkips ==
    /\ pc = "acks" /\ acks_to_send # <<>> /\ writable
    /\ gone' = gone \cup {Head(acks_to_send)}
    /\ acks_to_send' = IF Len(acks_to_send) > 1 THEN Tail(Tail(acks_to_send)) ELSE <<>>
    /\ UNCHANGED <<socketVars, wakerVars, woken, pc, stream_items, made,
                   resendVars, state, boundVars>>

\* poll_send_acks
SendQueuedAck ==
    /\ pc = "acks" /\ acks_to_send # <<>> /\ writable
    /\ gone' = gone \cup {Head(acks_to_send)}
    /\ acks_to_send' = Tail(acks_to_send)
    /\ UNCHANGED <<socketVars, wakerVars, woken, pc, stream_items, made,
                   resendVars, state, boundVars>>

\* The end of poll_send_acks; a disconnected stream ends when all is sent.
AcksEnd ==
    /\ pc = "acks" /\ (acks_to_send = <<>> \/ ~writable)
    /\ send_waker' = (send_waker \/ acks_to_send # <<>>)
    /\ pc' = IF state = "Disconnected" /\ acks_to_send = <<>>
             THEN "ended" ELSE "resend"
    /\ UNCHANGED <<socketVars, recv_waker, due, woken, stream_items, outVars,
                   resendVars, state, boundVars>>

\* The order of SendRecordId: packets that were never sent come first, then
\* the one that was last sent before the others.
IsTop(n) ==
    /\ n \in send_queue
    /\ \A m \in send_queue \ {n} :
         last[n] < last[m] \/ (last[n] = last[m] /\ n < m)

Known(n) == n \in unacked \/ n \in send_queue

\* The times of the last transmissions, reduced to their order among the
\* packets still known; 0 is a packet that was not sent (tries = 0).
Ordered(times) ==
    [n \in 0 .. MaxQueued - 1 |->
       Cardinality({m \in 0 .. MaxQueued - 1 :
                      /\ Known(n)' /\ Known(m)'
                      /\ 0 < times[m] /\ times[m] <= times[n]})]

\* poll_resend, the top of the heap was acknowledged meanwhile.
DropAcked ==
    /\ pc = "resend"
    /\ \E n \in send_queue \ unacked, w \in 1 .. Window :
         /\ IsTop(n)
         /\ send_queue' = Filled(unacked, send_queue \ {n}, w)
    /\ UNCHANGED unacked
    /\ last' = Ordered(last)
    /\ UNCHANGED <<socketVars, wakerVars, woken, pc, stream_items, outVars,
                   fresh, resend_timer, state, boundVars>>

Transmit(n) ==
    /\ pc = "resend" /\ writable
    /\ n \in unacked /\ IsTop(n)
    /\ UNCHANGED unacked
    /\ last' = Ordered([last EXCEPT ![n] = MaxQueued + 1])
    /\ fresh' = fresh \cup {n}
    /\ UNCHANGED <<socketVars, wakerVars, woken, pc, stream_items, outVars,
                   resend_timer, state, boundVars>>

\* poll_resend, a packet is sent for the first time.
SendFirst ==
    \E n \in send_queue :
      last[n] = 0 /\ UNCHANGED send_queue /\ Transmit(n)

\* poll_resend, a packet is sent again, because its timeout has passed.  That
\* is a loss: rebuild_send_queue starts anew with a window computed again.
SendAgain ==
    \E n \in send_queue \ fresh, w \in 1 .. Window :
      last[n] > 0 /\ send_queue' = Filled(unacked, {}, w) /\ Transmit(n)

\* poll_resend ends: the heap is empty, its top was sent and is not yet due,
\* or the socket is full.
ResendEnd ==
    /\ pc = "resend"
    /\ \/ send_queue = {} /\ UNCHANGED <<send_waker, resend_timer>>
       \/ /\ \E n \in unacked : IsTop(n) /\ last[n] > 0
          /\ resend_timer' = TRUE /\ UNCHANGED send_waker
       \/ /\ ~writable /\ \E n \in unacked \ fresh : IsTop(n)
          /\ send_waker' = TRUE /\ UNCHANGED resend_timer
    /\ fresh' = {}
    /\ pc' = "ping"
    /\ UNCHANGED <<socketVars, recv_waker, due, woken, stream_items, outVars,
                   unacked, send_queue, last, state, boundVars>>

\* poll_ping: the timer of the statistics gives an item; that of the pings
\* queues one in acks_to_send, where it waits for the next poll.
MayPing == due /\ state = "Connected" /\ unacked = {} /\ pinged < MaxPings

PollPing ==
    /\ pc = "ping"
    /\ due' = FALSE
    /\ \/ UNCHANGED stream_items
       \/ due /\ stream_items' = Append(stream_items, "stats")
    /\ \/ UNCHANGED <<acks_to_send, made, pinged>>
       \/ /\ MayPing
          /\ acks_to_send' = Append(acks_to_send, made)
          /\ made' = made + 1
          /\ pinged' = pinged + 1
    /\ pc' = "items"
    /\ UNCHANGED <<socketVars, recv_waker, send_waker, woken, gone, resendVars,
                   state, arrived, queued>>

\* Poll::Ready: the item passes Client::handle_command, the application takes
\* it and polls again.
Return(item) ==
    /\ state' = IF item = "leftview" THEN "Disconnected" ELSE state
    /\ pc' = "idle"
    /\ woken' = TRUE

ReturnItem ==
    /\ pc = "items" /\ stream_items # <<>>
    /\ stream_items' = Tail(stream_items)
    /\ Return(Head(stream_items))
    /\ UNCHANGED <<socketVars, wakerVars, outVars, resendVars, boundVars>>

\* poll_incoming_udp_packet reads nothing while too many acks are waiting.
NoItem ==
    /\ pc = "items" /\ stream_items = <<>>
    /\ pc' = IF Len(acks_to_send) >= SinkCapacity THEN "idle" ELSE "recv"
    /\ UNCHANGED <<socketVars, wakerVars, woken, stream_items, outVars,
                   resendVars, state, boundVars>>

RecvPending ==
    /\ pc = "recv" /\ inbox = <<>>
    /\ recv_waker' = TRUE
    /\ pc' = "idle"
    /\ UNCHANGED <<socketVars, send_waker, due, woken, stream_items, outVars,
                   resendVars, state, boundVars>>

Recv(d) ==
    /\ pc = "recv" /\ inbox # <<>> /\ Head(inbox) = d
    /\ inbox' = Tail(inbox)
    /\ UNCHANGED <<writable, recv_waker, due, fresh, resend_timer,
                   boundVars>>

\* send_ack_packet: send the ack at once, ahead of the queue, or queue it.
MakeAck ==
    /\ made' = made + 1
    /\ \/ /\ writable
          /\ gone' = gone \cup {made}
          /\ UNCHANGED <<acks_to_send, send_waker>>
       \/ /\ ~writable
          /\ acks_to_send' = Append(acks_to_send, made)
          /\ send_waker' = TRUE
          /\ UNCHANGED gone

\* Mutant of Continue: one datagram per poll.
ContinueOnce == pc' = "idle" /\ UNCHANGED <<stream_items, state>>

\* The loop goes on, because the datagram gave no item.
Continue == UNCHANGED <<pc, stream_items, state>>

RecvFragment ==
    /\ Recv("fragment")
    /\ MakeAck
    /\ Continue
    /\ UNCHANGED <<woken, queueVars>>

\* Mutant of RecvCommand: the loop goes on although there are items.
RecvCommandContinues ==
    /\ Recv("command")
    /\ MakeAck
    /\ stream_items' \in {<<"command">>, <<"command", "leftview">>}
    /\ UNCHANGED <<pc, state, woken, queueVars>>

\* A command that closes a gap releases further ones.
RecvCommand ==
    /\ Recv("command")
    /\ MakeAck
    /\ Return("command")
    /\ stream_items' \in {<<>>, <<"command">>, <<"leftview">>}
    /\ UNCHANGED queueVars

RecvLeftView ==
    /\ Recv("leftview")
    /\ MakeAck
    /\ Return("leftview")
    /\ UNCHANGED <<stream_items, queueVars>>

RecvVoice ==
    /\ Recv("voice")
    /\ Return("voice")
    /\ UNCHANGED <<send_waker, stream_items, outVars, queueVars>>

\* The ack of packet n, which was sent and is not acknowledged yet
AckOf(n) ==
    /\ last[n] > 0
    /\ unacked' = unacked \ {n}
    /\ UNCHANGED send_queue
    /\ last' = Ordered(last)

IsFirst(n) == \A m \in unacked : n <= m

\* Mutant of RecvAck: ack_packet does not wake the task.
RecvAckSilent ==
    /\ Recv("ack")
    /\ \/ UNCHANGED <<woken, queueVars>> /\ Continue
       \/ \E n \in unacked :
            /\ AckOf(n)
            /\ \/ IsFirst(n) /\ Return("ack") /\ UNCHANGED stream_items
               \/ ~IsFirst(n) /\ Continue /\ UNCHANGED woken
    /\ UNCHANGED <<send_waker, outVars>>

\* Resender::ack_packet: the packet leaves the ordered queue, but not the heap,
\* and the task is woken; an item is only produced for the first packet of the
\* queue.  A late ack finds no packet.
RecvAck ==
    /\ Recv("ack")
    /\ \/ UNCHANGED <<woken, queueVars>> /\ Continue
       \/ \E n \in unacked :
            /\ AckOf(n)
            /\ \/ IsFirst(n) /\ Return("ack") /\ UNCHANGED stream_items
               \/ ~IsFirst(n) /\ Continue /\ woken' = TRUE
    /\ UNCHANGED <<send_waker, outVars>>

\* A call of the socket returns an error, or a timeout has passed: poll_next
\* returns the error.
PollFails ==
    /\ pc \in {"acks", "resend", "ping", "recv"}
    /\ pc' = "failed"
    /\ UNCHANGED <<socketVars, wakerVars, woken, stream_items, outVars,
                   resendVars, state, boundVars>>

-----------------------------------------------------------------------------

\* After the handshake
Init ==
    /\ inbox = <<>> /\ writable = TRUE
    /\ recv_waker = FALSE /\ send_waker = FALSE /\ due = FALSE
    /\ woken = TRUE
    /\ pc = "idle"
    /\ acks_to_send = <<>> /\ stream_items = <<>>
    /\ made = 0 /\ gone = {}
    /\ unacked = {} /\ send_queue = {} /\ fresh = {}
    /\ last = [n \in 0 .. MaxQueued - 1 |-> 0]
    /\ resend_timer = FALSE
    /\ state = "Connected"
    /\ arrived = 0 /\ queued = 0 /\ pinged = 0

RecvStep == RecvFragment \/ RecvCommand \/ RecvLeftView \/ RecvVoice \/ RecvAck

TaskStep ==
    \/ StartPoll
    \/ SendQueuedAck \/ AcksEnd
    \/ DropAcked \/ SendFirst \/ SendAgain \/ ResendEnd
    \/ PollPing
    \/ ReturnItem \/ NoItem
    \/ RecvPending \/ RecvStep

Next ==
    \/ \E d \in Datagram : Arrive(d)
    \/ BecomeWritable \/ BecomeFull
    \/ TimerFires \/ ResendTimerFires
    \/ AppSend \/ AppSendVoice
    \/ TaskStep
    \/ PollFails

Spec == Init /\ [][Next]_vars

-----------------------------------------------------------------------------
(* Properties.                                                             *)

Items == {"command", "leftview", "stats"}
MaxMade == MaxArrivals + MaxPings

\* Every variable has its type; a packet of acks_to_send was not sent yet.
TypeOK ==
    /\ inbox \in Seq(Datagram) /\ writable \in BOOLEAN
    /\ recv_waker \in BOOLEAN /\ send_waker \in BOOLEAN /\ due \in BOOLEAN
    /\ woken \in BOOLEAN
    /\ pc \in {"idle", "acks", "resend", "ping", "items", "recv", "ended", "failed"}
    /\ made \in 0 .. MaxMade
    /\ gone \in SUBSET (0 .. made - 1)
    /\ acks_to_send \in Seq((0 .. made - 1) \ gone)
    /\ stream_items \in Seq(Items)
    /\ unacked \in SUBSET (0 .. queued - 1) /\ send_queue \in SUBSET (0 .. queued - 1)
    /\ last \in [0 .. MaxQueued - 1 -> 0 .. MaxQueued]
    /\ fresh \in SUBSET (0 .. queued - 1) /\ resend_timer \in BOOLEAN
    /\ state \in {"Connected", "Disconnected"}
    /\ arrived \in 0 .. MaxArrivals
    /\ queued \in 0 .. MaxQueued /\ pinged \in 0 .. MaxPings

\* The task has returned Pending and nobody has called its waker.
Asleep == pc = "idle" /\ ~woken

\* No datagram lies in the socket while the task sleeps, except when it has
\* stopped reading because of waiting acks, and then the socket will wake it.
NoMissedDatagram ==
    Asleep /\ inbox # <<>>
        => Len(acks_to_send) >= SinkCapacity /\ send_waker

\* The task does not sleep on items that it could give to the application.
NoItemStranded == Asleep => stream_items = <<>>

\* Packets wait in acks_to_send only until they are sent, and items only while
\* the task is awake.
PollSound == TypeOK /\ NoItemStranded

\* The task does not sleep on packets unless the socket is full and will wake
\* it, or the timer runs for the packet on top of the heap, which was sent and
\* is not acknowledged.  So every packet that the window allows is on its way,
\* and an ack of that packet always gets the task to work on, also when it
\* gives no item.  An ack of another packet frees no place until then.
WindowNotIdle ==
    Asleep /\ unacked # {}
        => \/ send_waker
           \/ resend_timer /\ \E n \in unacked : IsTop(n) /\ last[n] > 0

\* The doc of ResenderState::Disconnected: "we only send ack packets".
\* It does not hold (README, section 7).
OnlyAcksAfterDisconnect ==
    [][state = "Disconnected" => fresh' \subseteq fresh]_vars

\* tokio polls a woken task and its timers expire.  The socket may fill up
\* any number of times but not for ever.
Fairness ==
    /\ WF_vars(TaskStep)
    /\ WF_vars(TimerFires) /\ WF_vars(ResendTimerFires)
    /\ <>[]writable

FairSpec == Spec /\ Fairness

\* Every ack, pong, ping and voice packet is sent in the end, although a ping
\* is queued behind the stage that sends, without a waker: the next timer
\* gets it out.
EverythingSent == []<>(gone = 0 .. made - 1 \/ pc = "failed")

=============================================================================
