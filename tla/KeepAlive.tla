----------------------------- MODULE KeepAlive -----------------------------
(***************************************************************************)
(* How a connection notices that its peer is gone: the timeouts of         *)
(* Resender::poll_resend and Resender::poll_ping, the pings, and the       *)
(* ResenderState that selects among them (tsproto/src/resend.rs), driven   *)
(* by the task that polls the connection (tsproto/src/connection.rs).      *)
(*                                                                         *)
(* Time is discrete.  The task runs when an event wakes it or when a timer *)
(* that it has armed expires, and it runs before time goes on (the         *)
(* executor is prompt).  A timer that is not armed is a check that does    *)
(* not happen: the timer of the statistics runs the task too, but at       *)
(* instants that nothing here relies on.  The socket is always writable    *)
(* and the congestion window always open; the retransmission timeout is a  *)
(* constant.                                                               *)
(***************************************************************************)
EXTENDS PacketIds, Sequences, SequencesExt

CONSTANTS
    PingCount,          \* PING_COUNT, 30 in the code
    PingInterval,       \* PING_SECONDS, in ticks
    Rto,                \* retransmission timeout
    ConnectingTimeout,  \* ResendConfig: 5 s
    NormalTimeout,      \* 30 s
    DisconnectTimeout,  \* 5 s
    FirstPing,          \* number of the first ping (a late one in a long connection)
    MaxQueued,          \* bound: commands waiting for an ack
    MaxTime             \* bound: ticks

ASSUME KeepAliveAssumption ==
    /\ PingCount \in Nat \ {0} /\ PingInterval \in Nat \ {0} /\ Rto \in Nat \ {0}
    /\ {ConnectingTimeout, NormalTimeout, DisconnectTimeout} \subseteq Nat \ {0}
    /\ FirstPing \in Nat /\ MaxQueued \in Nat \ {0} /\ MaxTime \in Nat

VARIABLES
    state,           \* ResenderState
    queue,           \* unacknowledged commands: [sent, last], None if not sent yet
    last_pings,      \* sequence of [id, sent]
    outgoing_ping,   \* outgoing_p_ids[Ping]
    last_receive, last_send,
    ping_timeout, timeout, state_timeout,  \* armed timers: a time or None
    woken,           \* the task will be polled
    result,          \* how polling ended
    now

timerVars == <<ping_timeout, timeout, state_timeout>>
vars == <<state, queue, last_pings, outgoing_ping, last_receive, last_send,
          timerVars, woken, result, now>>

None == -1
Running == "Running"

-----------------------------------------------------------------------------
(* One poll of the connection.                                             *)

\* Resender::get_timeout
GetTimeout ==
    CASE state = "Connecting" -> ConnectingTimeout
      [] state = "Connected" -> NormalTimeout
      [] state \in {"Disconnecting", "Disconnected"} -> DisconnectTimeout

\* poll_resend: the packets that were never sent or whose rto has passed
Due == {i \in DOMAIN queue : queue[i].last = None \/ queue[i].last + Rto <= now}

\* Mutant of PacketTimedOut: every resend starts the timeout again.
PacketTimedOutSinceLast ==
    \E i \in Due : queue[i].last # None /\ now - queue[i].last > GetTimeout

PacketTimedOut == \E i \in Due : now - queue[i].sent > GetTimeout

Resent == [i \in DOMAIN queue |->
               IF i \in Due THEN [queue[i] EXCEPT !.last = now] ELSE queue[i]]

\* poll_resend arms the timer for the packet that was sent first.
ResendTime == IF queue = <<>> THEN None
              ELSE Min({Resent[i].last + Rto : i \in DOMAIN queue})

\* poll_ping, state Disconnecting
DisconnectTimedOut ==
    state = "Disconnecting" /\ now - last_send >= DisconnectTimeout

\* Mutant of KeptPings: only pongs count as a sign of life.
KeptPingsAlways == last_pings

\* poll_ping: a packet that was received after the last ping clears the list.
KeptPings ==
    IF last_pings # <<>> /\ Last(last_pings).sent <= last_receive
    THEN <<>>
    ELSE last_pings

NextPing ==
    (IF KeptPings # <<>> THEN Last(KeptPings).sent ELSE last_receive) + PingInterval

Pinging == state = "Connected" /\ queue = <<>>

PingDue == Pinging /\ NextPing <= now

\* All pings in the list follow each other, so none was answered in between.
PingsTimedOut ==
    /\ PingDue
    /\ Len(KeptPings) >= PingCount
    /\ Diff(Last(KeptPings).id, Head(KeptPings).id) = Len(KeptPings) - 1

SentPings ==
    LET pings == Append(KeptPings, [id |-> EncodedId(outgoing_ping), sent |-> now])
    IN  IF Len(pings) > PingCount THEN Tail(pings) ELSE pings

\* A timer that has expired wakes the task once.
Pending(timer) == IF timer # None /\ timer > now THEN timer ELSE None

\* Mutant of DisconnectTimer: no timer is armed.
DisconnectTimerMissing == Pending(state_timeout)

\* poll_ping arms the timer for the end of a disconnect.
DisconnectTimer ==
    IF state = "Disconnecting"
    THEN last_send + DisconnectTimeout
    ELSE Pending(state_timeout)

\* The task runs: it was woken or a timer has expired.
Runnable == woken \/ \E d \in {ping_timeout, timeout, state_timeout} : d # None /\ d <= now

\* Stream::poll_next returns None in state Disconnected.
PollDisconnected ==
    /\ Runnable /\ result = Running
    /\ state = "Disconnected"
    /\ result' = "Ended"
    /\ woken' = FALSE
    /\ UNCHANGED <<state, queue, last_pings, outgoing_ping, last_receive,
                   last_send, timerVars, now>>

\* Stream::poll_next returns an error; the connection is not polled again.
PollError ==
    /\ Runnable /\ result = Running
    /\ state # "Disconnected"
    /\ \/ PacketTimedOut /\ result' = "Packet was not acked"
       \/ /\ ~PacketTimedOut /\ DisconnectTimedOut
          /\ result' = "No disconnect ack received"
       \/ /\ ~PacketTimedOut /\ ~DisconnectTimedOut /\ PingsTimedOut
          /\ result' = "Server did not respond to pings"
    /\ woken' = FALSE
    /\ UNCHANGED <<state, queue, last_pings, outgoing_ping, last_receive,
                   last_send, timerVars, now>>

\* Stream::poll_next: resend what is due, send a ping if it is time for one,
\* arm the timers
PollPending ==
    /\ Runnable /\ result = Running
    /\ state # "Disconnected"
    /\ ~PacketTimedOut /\ ~DisconnectTimedOut /\ ~PingsTimedOut
    /\ queue' = Resent
    /\ timeout' = ResendTime
    /\ state_timeout' = DisconnectTimer
    /\ last_pings' = IF PingDue THEN SentPings ELSE IF Pinging THEN KeptPings ELSE last_pings
    /\ outgoing_ping' = IF PingDue THEN Plus(outgoing_ping, 1) ELSE outgoing_ping
    /\ ping_timeout' = IF PingDue THEN now + PingInterval
                       ELSE IF Pinging THEN NextPing
                       ELSE Pending(ping_timeout)
    /\ woken' = FALSE
    /\ UNCHANGED <<state, last_receive, last_send, result, now>>

\* poll_ping: the timer of the statistics has expired, and the application
\* takes the item NetworkStatsUpdated and polls again.
StatsTimer ==
    /\ result = Running /\ ~woken
    /\ woken' = TRUE
    /\ UNCHANGED <<state, queue, last_pings, outgoing_ping, last_receive,
                   last_send, timerVars, result, now>>

-----------------------------------------------------------------------------
(* Packets from the peer.                                                  *)

\* Connection::handle_udp_packet: every packet is a sign of life.
Received ==
    /\ result = Running
    /\ last_receive' = now
    /\ UNCHANGED <<outgoing_ping, timerVars, result, now>>

\* A packet that becomes a StreamItem (voice, a command, an error): the
\* application takes the item and polls again.
ReceiveItem ==
    /\ Received
    /\ woken' = TRUE
    /\ UNCHANGED <<state, queue, last_pings, last_send>>

\* Resender::ack_packet: the ack of one command
ReceiveAck(i) ==
    /\ i \in DOMAIN queue /\ queue[i].last # None
    /\ Received
    /\ queue' = RemoveAt(queue, i)
    /\ woken' = TRUE
    /\ UNCHANGED <<state, last_pings, last_send>>

Sorted(pings) ==
    \A i, j \in DOMAIN pings : i < j => pings[i].id.packet_id < pings[j].id.packet_id

\* Resender::ack_ping: a binary search by packet id, which finds the ping for
\* certain only if the list is sorted.  A pong yields no StreamItem.
ReceivePong(i) ==
    /\ i \in DOMAIN last_pings
    /\ Received
    /\ \/ last_pings' = RemoveAt(last_pings, i)
       \/ ~Sorted(last_pings) /\ UNCHANGED last_pings
    /\ UNCHANGED <<state, queue, last_send, woken>>

\* Resender::set_state
SetState(s) ==
    /\ state' = s
    /\ last_send' = now

\* Client::handle_command, initserver: it acknowledges clientinit, too.
ReceiveInitserver ==
    /\ state = "Connecting" /\ queue # <<>> /\ Head(queue).last # None
    /\ Received
    /\ SetState("Connected")
    /\ queue' = Tail(queue)
    /\ woken' = TRUE
    /\ UNCHANGED last_pings

\* Client::handle_command, notifyclientleftview of the own client
ReceiveLeftView ==
    /\ state \in {"Connected", "Disconnecting"}
    /\ Received
    /\ SetState("Disconnected")
    /\ woken' = TRUE
    /\ UNCHANGED <<queue, last_pings>>

-----------------------------------------------------------------------------
(* The application.                                                        *)

\* Resender::send_packet
Queued == Append(queue, [sent |-> now, last |-> None])

SendCommand ==
    /\ result = Running /\ state \in {"Connected", "Disconnecting"}
    /\ Len(queue) < MaxQueued
    /\ queue' = Queued
    /\ last_send' = now
    /\ woken' = TRUE
    /\ UNCHANGED <<state, last_pings, outgoing_ping, last_receive, timerVars,
                   result, now>>

\* Client::send_packet with clientdisconnect, after Connection::disconnect
Disconnect ==
    /\ result = Running /\ state = "Connected"
    /\ SetState("Disconnecting")
    /\ queue' = Queued
    /\ woken' = TRUE
    /\ UNCHANGED <<last_pings, outgoing_ping, last_receive, timerVars, result, now>>

Tick ==
    /\ result = Running /\ ~Runnable
    /\ now < MaxTime
    /\ now' = now + 1
    /\ UNCHANGED <<state, queue, last_pings, outgoing_ping, last_receive,
                   last_send, timerVars, woken, result>>

-----------------------------------------------------------------------------

\* The client has queued clientinit and waits for initserver.
Init ==
    /\ state = "Connecting"
    /\ queue = <<[sent |-> 0, last |-> None]>>
    /\ last_pings = <<>>
    /\ outgoing_ping = PartOf(FirstPing)
    /\ last_receive = 0
    /\ last_send = 0
    /\ ping_timeout = None
    /\ timeout = None
    /\ state_timeout = None
    /\ woken = TRUE
    /\ result = Running
    /\ now = 0

Next ==
    \/ PollDisconnected \/ PollError \/ PollPending
    \/ StatsTimer
    \/ ReceiveItem
    \/ \E i \in DOMAIN queue : ReceiveAck(i)
    \/ \E i \in DOMAIN last_pings : ReceivePong(i)
    \/ ReceiveInitserver
    \/ ReceiveLeftView
    \/ SendCommand
    \/ Disconnect
    \/ Tick

Spec == Init /\ [][Next]_vars

-----------------------------------------------------------------------------
(* Properties.                                                             *)

Timer == 0 .. MaxTime + NormalTimeout + DisconnectTimeout + PingInterval + Rto

\* Every variable has its type; at most PingCount pings are stored.
TypeOK ==
    /\ state \in {"Connecting", "Connected", "Disconnecting", "Disconnected"}
    /\ queue \in Seq([sent : 0 .. MaxTime, last : (0 .. MaxTime) \cup {None}])
    /\ last_pings \in Seq([id : PartialPacketId, sent : 0 .. MaxTime])
    /\ Len(last_pings) <= PingCount
    /\ outgoing_ping \in PartialPacketId
    /\ last_receive \in 0 .. MaxTime /\ last_send \in 0 .. MaxTime
    /\ {ping_timeout, timeout, state_timeout} \subseteq Timer \cup {None}
    /\ woken \in BOOLEAN
    /\ now \in 0 .. MaxTime

\* A silent peer is noticed.  While nothing waits for an ack, the pings run
\* into their limit: PingCount of them, then one more interval ("if all of
\* them get lost, it is a timeout").  Otherwise the oldest command runs into
\* the timeout, noticed when it is due to be resent.
SilenceNoticed ==
    (result = Running /\ state = "Connected") =>
        IF queue = <<>>
        THEN now - last_receive <= (PingCount + 1) * PingInterval
        ELSE \A i \in DOMAIN queue : now - queue[i].sent <= NormalTimeout + Rto

\* No false alarm: the pings are given up only if nothing at all was received
\* during PingCount intervals, however pongs and other packets interleave
\* with the pings.
OnlySilenceTimesOut ==
    result = "Server did not respond to pings"
        => now - last_receive >= (PingCount + 1) * PingInterval

\* Timers stay in their range, at most PingCount pings are stored, and only
\* silence lets them run into their limit.
TimersSound == TypeOK /\ OnlySilenceTimesOut

\* A connection that is torn down ends: when the server never confirms, it is
\* given up DisconnectTimeout after the last packet was queued, whether or
\* not clientdisconnect itself was acknowledged.
DisconnectEnds ==
    (result = Running /\ state = "Disconnecting")
        => now - last_send <= DisconnectTimeout

=============================================================================
