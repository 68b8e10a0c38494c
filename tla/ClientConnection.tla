-------------------------- MODULE ClientConnection --------------------------
(***************************************************************************)
(* The Connection of tsclientlib/src/lib.rs: it connects, improves the     *)
(* identity when the server asks for it, reconnects when the connection    *)
(* times out or the server stops, hands commands to the server and returns *)
(* what happens as a stream of items (poll_next).                          *)
(*                                                                         *)
(* Below it are the reliable command channels of CommandLink: c2s and s2c  *)
(* are first in, first out.  Of the book only the own client is kept (its  *)
(* mutes and its channel), the only part this code reads.  A mute is one   *)
(* of input_muted, output_muted, away or a disabled device, so that the    *)
(* mutes of a client are a set.                                            *)
(*                                                                         *)
(* The user does not poll again after an error or the end of the stream    *)
(* (a finished future must not be polled).                                 *)
(***************************************************************************)
EXTENDS Integers, Sequences, SequencesExt

CONSTANTS
  SendMutes,     \* mutes that only stop sending: input, away
  OutputMutes,   \* mutes that stop receiving as well: output
  Channels,      \* the channels of the server
  Moderated,     \* the channels in which our talk power is too low
  Levels,        \* the identity levels a server may ask for
  MaxLevel,      \* the highest level that is computed (20)
  MaxAddresses,  \* how many addresses the resolver finds
  CodeCount,     \* return codes and file transfer ids are modulo CodeCount
  MaxOps, MaxNews, MaxConnects   \* bounds on user, server, network steps

Mutes == SendMutes \cup OutputMutes

ASSUME ClientAssumption ==
  /\ Moderated \subseteq Channels
  /\ Levels \subseteq Nat /\ MaxLevel \in Nat
  /\ CodeCount \in Nat \ {0} /\ MaxAddresses \in Nat /\ MaxConnects \in Nat
  /\ MaxOps \in Nat

VARIABLES
  state,         \* "connecting", "increasing" or "connected"
  attempt,       \* the future of Connection::connect
  thread,        \* the thread that improves the identity
  options,       \* ConnectOptions: mutes, channel, level of the identity
  own,           \* the own client in the book: a set with at most one record
  con,           \* ConnectedConnection
  resender,      \* the state of the resender of the tsproto client
  stream_items,  \* items that wait to be returned
  ended,         \* the stream returned an error or its end
  c2s, s2c,      \* commands on the way to the server and to the client
  server,        \* the server's view of us
  heard,         \* what the user knows from the items: can send, can receive,
                 \* is connected, how many answers were returned
  epoch,         \* how many connections were established
  ops, news      \* steps left for the user and the server

client == <<state, attempt, thread, options, own, con, resender, stream_items>>
seen == <<heard, ended>>
vars == <<client, seen, c2s, s2c, server, epoch, ops, news>>

----------------------------------------------------------------------------
(* Items *)

Book == [kind |-> "book"]
Disconnected == [kind |-> "disconnected"]
Send(b) == [kind |-> "send", on |-> b]
Receive(b) == [kind |-> "receive", on |-> b]
Plain(k) == [kind |-> k]
Answer(k, id, ok) == [kind |-> k, id |-> id, ok |-> ok]

\* What the user knows after one more item; BookEvents tell that we are
\* connected, a temporary disconnect counts as a mute.
Learn(known, i) ==
  CASE i.kind = "send"    -> [known EXCEPT !.send = i.on]
    [] i.kind = "receive" -> [known EXCEPT !.receive = i.on]
    [] i.kind = "book"    -> [known EXCEPT !.connected = TRUE]
    [] i.kind = "disconnected" ->
         [known EXCEPT !.send = FALSE, !.receive = FALSE, !.connected = FALSE]
    [] i.kind \in {"result", "transfer"} -> [known EXCEPT !.answers = @ + 1]
    [] OTHER -> known

\* poll_next returns the first of the waiting items, if there is one.
Return(items) ==
  IF items = <<>> THEN UNCHANGED <<stream_items, heard>>
  ELSE stream_items' = Tail(items) /\ heard' = Learn(heard, Head(items))

End(how) == ended' = how /\ UNCHANGED <<stream_items, heard>>

----------------------------------------------------------------------------
(* Audio *)

\* intern_can_send_audio, intern_can_receive_audio: from the own client, or
\* from the options as long as the book does not know the own client.
CanSend(me, opts) ==
  IF me = {} THEN opts.mutes = {}
  ELSE \A c \in me : c.mutes = {} /\ c.channel \notin Moderated

CanReceive(me, opts) ==
  IF me = {} THEN opts.mutes \cap OutputMutes = {}
  ELSE \A c \in me : c.mutes \cap OutputMutes = {}

CanSendAudio == state = "connected" /\ CanSend(own, options)
CanReceiveAudio == state = "connected" /\ CanReceive(own, options)

\* Mutant: only the change of what can be received is noticed.
AudioChangesReceiveOnly(me, opts) ==
  IF CanReceive(me, opts) = CanReceive(own, options) THEN <<>>
  ELSE <<Receive(CanReceive(me, opts))>>

\* The events for a change of the own client or of the options.
AudioChanges(me, opts) ==
  (IF CanSend(me, opts) = CanSend(own, options) THEN <<>>
   ELSE <<Send(CanSend(me, opts))>>)
  \o (IF CanReceive(me, opts) = CanReceive(own, options) THEN <<>>
      ELSE <<Receive(CanReceive(me, opts))>>)

\* The events when a connection that could send or receive is given up.
AudioStops ==
  (IF CanSend(own, options) THEN <<Send(FALSE)>> ELSE <<>>)
  \o (IF CanReceive(own, options) THEN <<Receive(FALSE)>> ELSE <<>>)

----------------------------------------------------------------------------
(* Connecting *)

\* What a state of the connection holds is dropped when the state is left.
NoAttempt == [todo |-> 0, timedout |-> FALSE, reconnect |-> FALSE]
NoThread == [needed |-> 0, canceled |-> FALSE]
NewCon == [code |-> 0, transfer |-> 0, subscribed |-> FALSE, transfers |-> <<>>]
NoServer == [mutes |-> {}, channel |-> 0, shown |-> FALSE]

Polling(s) == state = s /\ ended = "no"

\* Connection::connect: the addresses are tried one after the other.
Connecting(reconnect) ==
  /\ state' = "connecting"
  /\ \E n \in 0 .. MaxAddresses :
       attempt' = [todo |-> n, timedout |-> FALSE, reconnect |-> reconnect]

\* A connection is given up and the next one is tried.
GiveUp ==
  /\ Connecting(TRUE)
  /\ own' = {} /\ con' = NewCon /\ resender' = "connected"
  /\ c2s' = <<>> /\ s2c' = <<>> /\ server' = NoServer
  /\ UNCHANGED ended

\* A stream item that waits is returned before anything else is polled.
PollWaiting ==
  /\ ended = "no"
  /\ stream_items # <<>>
  /\ Return(stream_items)
  /\ UNCHANGED <<state, attempt, thread, options, own, con, resender, ended,
                 c2s, s2c, server, epoch, ops, news>>

PollConnecting ==
  /\ Polling("connecting") /\ stream_items = <<>>
  /\ UNCHANGED <<options, own, con, resender, c2s, s2c, server, epoch, ops, news>>

\* An address fails: the handshake timed out, or anything else, such as
\* "Timeout while waiting for initserver", went wrong.
AddressFails(timeout) ==
  /\ PollConnecting
  /\ attempt.todo > 0
  /\ attempt' = [attempt EXCEPT !.todo = @ - 1, !.timedout = @ \/ timeout]
  /\ UNCHANGED <<state, thread, stream_items, seen>>

\* Mutant: the finished attempt is polled again.
ConnectFailedStays ==
  /\ PollConnecting
  /\ attempt.todo = 0
  /\ IF attempt.reconnect /\ attempt.timedout
     THEN UNCHANGED <<state, attempt, stream_items, seen>>
     ELSE End("error") /\ UNCHANGED <<state, attempt>>
  /\ UNCHANGED thread

\* No address is left: ConnectFailed.  Only a reconnect that timed out is
\* tried again.
ConnectFailed ==
  /\ PollConnecting
  /\ attempt.todo = 0
  /\ IF attempt.reconnect /\ attempt.timedout
     THEN Connecting(TRUE) /\ UNCHANGED <<stream_items, seen>>
     ELSE End("error") /\ UNCHANGED <<state, attempt>>
  /\ UNCHANGED thread

\* The resolver failed or the server refused the connection.
ConnectRefused ==
  /\ PollConnecting
  /\ End("error")
  /\ UNCHANGED <<state, attempt, thread>>

\* increase_identity_level
IncreaseIdentityLevel(needed) ==
  /\ PollConnecting
  /\ attempt.todo > 0
  /\ IF needed > MaxLevel \/ options.level >= needed
     THEN End("error") /\ UNCHANGED <<state, attempt, thread>>
     ELSE /\ state' = "increasing"
          /\ thread' = [needed |-> needed, canceled |-> FALSE]
          /\ attempt' = NoAttempt
          /\ Return(<<Plain("increasing")>>)
          /\ UNCHANGED ended

\* The server has accepted clientinit and sent initserver.
Connect ==
  /\ Polling("connecting") /\ stream_items = <<>>
  /\ attempt.todo > 0
  /\ epoch < MaxConnects
  /\ epoch' = epoch + 1
  /\ state' = "connected"
  /\ own' = {}
  /\ con' = NewCon
  /\ resender' = "connected"
  /\ Return(<<Book>>
            \o (IF CanSend({}, options) THEN <<Send(TRUE)>> ELSE <<>>)
            \o (IF CanReceive({}, options) THEN <<Receive(TRUE)>> ELSE <<>>))
  /\ server' = [mutes |-> options.mutes, channel |-> options.channel, shown |-> FALSE]
  /\ c2s' = <<>> /\ s2c' = <<>>
  /\ attempt' = NoAttempt
  /\ UNCHANGED <<thread, options, ended, ops, news>>

\* The thread is done.  It never looks whether it was canceled.
IdentityIncreased ==
  /\ Polling("increasing") /\ stream_items = <<>>
  /\ options' = [options EXCEPT !.level = thread.needed]
  /\ Connecting(FALSE)
  /\ thread' = NoThread
  /\ Return(<<Plain("increased")>>)
  /\ UNCHANGED <<own, con, resender, ended, c2s, s2c, server, epoch, ops, news>>

ThreadDied ==
  /\ Polling("increasing") /\ stream_items = <<>>
  /\ End("error")
  /\ UNCHANGED <<state, attempt, thread, options, own, con, resender,
                 c2s, s2c, server, epoch, ops, news>>

\* cancel_identity_level_increase
CancelIdentityLevelIncrease ==
  /\ state = "increasing" /\ ~thread.canceled
  /\ thread' = [thread EXCEPT !.canceled = TRUE]
  /\ UNCHANGED <<state, attempt, options, own, con, resender, stream_items, seen,
                 c2s, s2c, server, epoch, ops, news>>

----------------------------------------------------------------------------
(* What the user does while connected; otherwise all of it is refused. *)

UserStep ==
  /\ Polling("connected")
  /\ ops > 0
  /\ ops' = ops - 1
  /\ UNCHANGED <<state, attempt, thread, seen, s2c, server, epoch, news>>

NextCode(n) == (n + 1) % CodeCount

\* send_command and send_command_with_result; without a return code the
\* answer is a message like any other.
NoCode == CodeCount

SendCommand(with_result) ==
  /\ UserStep
  /\ c2s' = Append(c2s, [kind |-> "plain",
                         code |-> IF with_result THEN con.code ELSE NoCode])
  /\ con' = IF with_result THEN [con EXCEPT !.code = NextCode(@)] ELSE con
  /\ UNCHANGED <<options, own, resender, stream_items>>

\* A clientupdate is applied to the options and to the book at once.
SetMutes(mutes) ==
  /\ UserStep
  /\ options' = [options EXCEPT !.mutes = mutes]
  /\ own' = {[c EXCEPT !.mutes = mutes] : c \in own}
  /\ stream_items' = stream_items \o (IF own' = own THEN <<>> ELSE <<Book>>)
                                  \o AudioChanges(own', options')
  /\ c2s' = Append(c2s, [kind |-> "mutes", mutes |-> mutes, code |-> con.code])
  /\ con' = [con EXCEPT !.code = NextCode(@)]
  /\ UNCHANGED resender

\* channelsubscribeall, channelunsubscribeall
Subscribe(all) ==
  /\ UserStep
  /\ con' = [con EXCEPT !.subscribed = all, !.code = NextCode(@)]
  /\ c2s' = Append(c2s, [kind |-> "plain", code |-> con.code])
  /\ UNCHANGED <<options, own, resender, stream_items>>

\* download_file and upload_file
StartTransfer ==
  /\ UserStep
  /\ c2s' = Append(c2s, [kind |-> "transfer", id |-> con.transfer, code |-> con.code])
  /\ con' = [con EXCEPT !.code = NextCode(@), !.transfer = NextCode(@)]
  /\ UNCHANGED <<options, own, resender, stream_items>>

Disconnect ==
  /\ UserStep
  /\ c2s' = Append(c2s, Plain("disconnect"))
  /\ resender' = "disconnecting"
  /\ UNCHANGED <<options, own, con, stream_items>>

----------------------------------------------------------------------------
(* Polling a connection *)

PollConnected ==
  /\ Polling("connected") /\ stream_items = <<>>
  /\ UNCHANGED <<thread, epoch, ops, news>>

\* An error is the end of the stream when we wanted to disconnect.
PollTimeout ==
  /\ PollConnected
  /\ IF resender = "connected" THEN GiveUp /\ Return(<<Disconnected>>)
     ELSE /\ End("end")
          /\ UNCHANGED <<state, attempt, own, con, resender, c2s, s2c, server>>
  /\ UNCHANGED options

PollError ==
  /\ PollConnected
  /\ End(IF resender # "connected" THEN "end" ELSE "error")
  /\ UNCHANGED <<state, attempt, options, own, con, resender, c2s, s2c, server>>

PollEnd ==
  /\ PollConnected
  /\ resender = "disconnected"
  /\ End("end")
  /\ UNCHANGED <<state, attempt, options, own, con, resender, c2s, s2c, server>>

\* Sound is dropped while muted, and when it is not encrypted but has to be.
PollAudio(encrypted, unencrypted_allowed) ==
  /\ PollConnected
  /\ CanReceiveAudio
  /\ encrypted \/ unencrypted_allowed
  /\ Return(<<Plain("audio")>>)
  /\ UNCHANGED <<state, attempt, options, own, con, resender, ended, c2s, s2c, server>>

PollStats ==
  /\ PollConnected
  /\ Return(<<Plain("stats")>>)
  /\ UNCHANGED <<state, attempt, options, own, con, resender, ended, c2s, s2c, server>>

\* Mutant: the finished transfer is not removed.
PollTransferKeeps(i, ok) ==
  /\ PollConnected
  /\ Return(<<Answer("transfer", con.transfers[i], ok)>>)
  /\ UNCHANGED <<state, attempt, options, own, con, resender, ended, c2s, s2c, server>>

\* The tcp connection of a file transfer is ready or failed.
PollTransfer(i, ok) ==
  /\ PollConnected
  /\ con' = [con EXCEPT !.transfers = RemoveAt(@, i)]
  /\ Return(<<Answer("transfer", con.transfers[i], ok)>>)
  /\ UNCHANGED <<state, attempt, options, own, resender, ended, c2s, s2c, server>>

----------------------------------------------------------------------------
(* handle_command *)

\* The items of a command and those of the changes it makes to our audio.
Handled(items) ==
  /\ Return(items \o AudioChanges(own', options'))
  /\ UNCHANGED <<state, attempt, ended, server>>

Arrived(kind) == PollConnected /\ s2c # <<>> /\ Head(s2c).kind = kind

Receiving(kind) == Arrived(kind) /\ s2c' = Tail(s2c)

HandleResult ==
  /\ Receiving("result")
  /\ UNCHANGED <<options, own, con, resender, c2s>>
  /\ Handled(IF Head(s2c).code = NoCode THEN <<Plain("message")>>
             ELSE <<Answer("result", Head(s2c).code, Head(s2c).ok)>>)

HandleTransferStart ==
  /\ Receiving("transfer")
  /\ con' = [con EXCEPT !.transfers = Append(@, Head(s2c).id)]
  /\ UNCHANGED <<options, own, resender, c2s>>
  /\ Handled(<<>>)

HandleTransferStatus ==
  /\ Receiving("status")
  /\ UNCHANGED <<options, own, con, resender, c2s>>
  /\ Handled(<<Answer("transfer", Head(s2c).id, FALSE)>>)

\* Our connection statistics are asked for.
HandleInfoRequest ==
  /\ Receiving("inforequest")
  /\ c2s' = Append(c2s, Plain("info"))
  /\ UNCHANGED <<options, own, con, resender>>
  /\ Handled(<<>>)

\* notifycliententerview: the own client appears.
HandleEnter ==
  /\ Receiving("enter")
  /\ own' = {[mutes |-> Head(s2c).mutes, channel |-> Head(s2c).channel]}
  /\ UNCHANGED <<options, con, resender, c2s>>
  /\ Handled(<<Book>>)

\* The mutes that the book takes over from the server are put back at once;
\* the item that is left has no events.
HandleUpdated ==
  /\ Receiving("updated")
  /\ UNCHANGED <<options, own, con, resender, c2s>>
  /\ Handled(IF own = {} THEN <<Plain("message")>>
             ELSE IF \A c \in own : c.mutes = Head(s2c).mutes THEN <<>>
             ELSE <<Book>>)

HandleMoved ==
  /\ Receiving("moved")
  /\ own' = {[c EXCEPT !.channel = Head(s2c).channel] : c \in own}
  /\ options' = [options EXCEPT !.channel = Head(s2c).channel]
  /\ UNCHANGED <<con, resender, c2s>>
  /\ Handled(IF own = {} THEN <<Plain("message")>>
             ELSE IF own' = own THEN <<>> ELSE <<Book>>)

\* A new channel is subscribed to if all of them are.
HandleChannelCreated ==
  /\ Receiving("channel")
  /\ c2s' = IF con.subscribed THEN Append(c2s, Plain("subscribe")) ELSE c2s
  /\ UNCHANGED <<options, own, con, resender>>
  /\ Handled(<<Book>>)

HandleOther ==
  /\ Receiving("other")
  /\ UNCHANGED <<options, own, con, resender, c2s>>
  /\ Handled(<<Plain("message")>>)

\* Mutant: the events of the book come after the disconnect.
ServerStopItemsLate ==
  AudioStops \o <<Disconnected>> \o (IF own = {} THEN <<>> ELSE <<Book>>)

\* The items when the server stops.
ServerStopItems ==
  (IF own = {} THEN <<>> ELSE <<Book>>) \o AudioStops \o <<Disconnected>>

\* notifyclientleftview for us: the tsproto client is disconnected.  If the
\* server stops we come back, otherwise (we left or were kicked) it is over.
HandleLeft ==
  /\ Arrived("left")
  /\ UNCHANGED options
  /\ IF Head(s2c).stop
     THEN /\ GiveUp
          /\ Return(ServerStopItems)
     ELSE /\ s2c' = Tail(s2c)
          /\ own' = {}
          /\ resender' = "disconnected"
          /\ Return((IF own = {} THEN <<Plain("message")>> ELSE <<Book>>)
                    \o AudioChanges({}, options))
          /\ UNCHANGED <<state, attempt, con, ended, c2s, server>>

----------------------------------------------------------------------------
(* The server *)

ServerStep ==
  /\ Polling("connected")
  /\ UNCHANGED <<client, seen, epoch, ops>>

\* The server answers the commands in their order.
ServerAnswer(ok) ==
  /\ ServerStep
  /\ c2s # <<>>
  /\ c2s' = Tail(c2s)
  /\ LET c == Head(c2s)
         result == [kind |-> "result", code |-> c.code, ok |-> ok]
     IN  CASE c.kind = "plain" ->
                s2c' = Append(s2c, result) /\ UNCHANGED server
           [] c.kind = "mutes" ->
                /\ server' = [server EXCEPT !.mutes = c.mutes]
                /\ s2c' = IF server.shown
                          THEN s2c \o <<[kind |-> "updated", mutes |-> c.mutes], result>>
                          ELSE Append(s2c, result)
           [] c.kind = "transfer" ->
                /\ s2c' = s2c \o <<[kind |-> IF ok THEN "transfer" ELSE "status",
                                    id |-> c.id], result>>
                /\ UNCHANGED server
           [] c.kind = "disconnect" ->
                /\ s2c' = Append(s2c, [kind |-> "left", stop |-> FALSE])
                /\ UNCHANGED server
           [] OTHER -> UNCHANGED <<s2c, server>>
  /\ UNCHANGED news

\* The server shows us ourselves, once for each connection.
ServerShows ==
  /\ ServerStep
  /\ ~server.shown
  /\ server' = [server EXCEPT !.shown = TRUE]
  /\ s2c' = Append(s2c, [kind |-> "enter", mutes |-> server.mutes,
                         channel |-> server.channel])
  /\ UNCHANGED <<c2s, news>>

ServerNews ==
  /\ ServerStep
  /\ news > 0
  /\ news' = news - 1
  /\ UNCHANGED c2s
  /\ \/ \E k \in {"other", "channel", "inforequest"} :
          s2c' = Append(s2c, Plain(k)) /\ UNCHANGED server
     \/ \E ch \in Channels :
          /\ server.shown
          /\ server' = [server EXCEPT !.channel = ch]
          /\ s2c' = Append(s2c, [kind |-> "moved", channel |-> ch])
     \/ \E stop \in BOOLEAN :
          s2c' = Append(s2c, [kind |-> "left", stop |-> stop]) /\ UNCHANGED server

----------------------------------------------------------------------------

\* ConnectOptions::connect: a new identity is announced before connecting.
Init ==
  /\ state = "connecting"
  /\ attempt \in [todo : 0 .. MaxAddresses, timedout : {FALSE}, reconnect : {FALSE}]
  /\ thread = NoThread
  /\ options \in [mutes : {{}}, channel : Channels \ Moderated, level : {8}]
  /\ own = {}
  /\ con = NewCon
  /\ resender = "connected"
  /\ stream_items \in {<<>>, <<Plain("increased")>>}
  /\ ended = "no"
  /\ c2s = <<>> /\ s2c = <<>>
  /\ server = NoServer
  /\ heard = [send |-> FALSE, receive |-> FALSE, connected |-> FALSE, answers |-> 0]
  /\ epoch = 0
  /\ ops = MaxOps /\ news = MaxNews

\* What happens by itself; nobody has to refuse us.
ConnectStep ==
  \/ \E timeout \in BOOLEAN : AddressFails(timeout)
  \/ ConnectFailed \/ Connect
  \/ \E level \in Levels : IncreaseIdentityLevel(level)
  \/ IdentityIncreased \/ ThreadDied

HandleCommand ==
  \/ HandleResult \/ HandleTransferStart \/ HandleTransferStatus
  \/ HandleInfoRequest \/ HandleEnter \/ HandleUpdated \/ HandleMoved
  \/ HandleChannelCreated \/ HandleOther \/ HandleLeft

PollItem ==
  \/ PollTimeout \/ PollError \/ PollEnd \/ PollStats
  \/ \E e, u \in BOOLEAN : PollAudio(e, u)
  \/ \E i \in DOMAIN con.transfers, ok \in BOOLEAN : PollTransfer(i, ok)

Poll == PollWaiting \/ ConnectStep \/ ConnectRefused \/ HandleCommand \/ PollItem

User ==
  \/ StartTransfer \/ Disconnect
  \/ \E with_result \in BOOLEAN : SendCommand(with_result)
  \/ \E m \in SUBSET Mutes : SetMutes(m)
  \/ \E all \in BOOLEAN : Subscribe(all)

Server == ServerShows \/ ServerNews \/ \E ok \in BOOLEAN : ServerAnswer(ok)

Next == Poll \/ User \/ Server \/ CancelIdentityLevelIncrease

\* The stream is polled; a server that can be reached again and again lets
\* us in at last.
Fairness ==
  /\ WF_vars(PollWaiting) /\ WF_vars(ConnectStep) /\ WF_vars(HandleCommand)
  /\ SF_vars(Connect)

Spec == Init /\ [][Next]_vars /\ Fairness

----------------------------------------------------------------------------
(* Properties *)

TypeOK ==
  /\ state \in {"connecting", "increasing", "connected"}
  /\ attempt \in [todo : 0 .. MaxAddresses, timedout : BOOLEAN, reconnect : BOOLEAN]
  /\ thread \in [needed : Levels \cup {0}, canceled : BOOLEAN]
  /\ options \in [mutes : SUBSET Mutes, channel : Channels, level : Nat]
  /\ own \subseteq [mutes : SUBSET Mutes, channel : Channels]
  /\ con \in [code : 0 .. (CodeCount - 1), transfer : 0 .. (CodeCount - 1),
             subscribed : BOOLEAN, transfers : Seq(0 .. (CodeCount - 1))]
  /\ resender \in {"connected", "disconnecting", "disconnected"}
  /\ ended \in {"no", "error", "end"}
  /\ heard \in [send : BOOLEAN, receive : BOOLEAN, connected : BOOLEAN, answers : Nat]

\* What the user knows of kind, "send" or "receive", after more items: what
\* the last of them says that is about it, or what was known before.
About(i, kind) == i.kind \in {kind, "disconnected"}
Told(items, kind, known) ==
  \/ known /\ \A n \in DOMAIN items : ~About(items[n], kind)
  \/ \E n \in DOMAIN items :
       /\ items[n] = [kind |-> kind, on |-> TRUE]
       /\ \A m \in DOMAIN items : m > n => ~About(items[m], kind)

\* A user who follows the AudioChange events, and takes a temporary
\* disconnect for a mute, always knows what can_send_audio() and
\* can_receive_audio() return: through mutes of our own, channel changes,
\* the arrival of the own client, restarts of the server and timeouts.
AudioEventsSuffice ==
  ended = "no" =>
    /\ Told(stream_items, "send", heard.send) = CanSendAudio
    /\ Told(stream_items, "receive", heard.receive) = CanReceiveAudio

\* What the user takes the connection for after more items: connected from
\* the first BookEvents on, until a temporary disconnect.
ConnectedAfter(items, known) ==
  \/ known /\ \A n \in DOMAIN items : items[n] # Disconnected
  \/ \E n \in DOMAIN items :
       /\ items[n] = Book
       /\ \A m \in DOMAIN items : m > n => items[m] # Disconnected

\* A user who takes the first BookEvents for the connection ("We are
\* connected when we receive the first BookEvents", lib.rs:882) and a
\* temporary disconnect for its loss is right about is_connected() after the
\* last waiting item.  When the server stops the state is set to connecting
\* first (lib.rs:1255) and the BookEvents of the command that told it are
\* returned only then: the disconnect has to come behind them.
ConnectionTold ==
  ended = "no" =>
    ConnectedAfter(stream_items, heard.connected) = (state = "connected")

\* The state of the connection and what the user learns of it agree.
StateSound == TypeOK /\ ConnectionTold

\* The handles that have no answer yet.
Results(cs) == {<<"result", c.code>> : c \in
                  {c \in cs : "code" \in DOMAIN c /\ c.code # NoCode}}
TransfersOn(cs) == {<<"transfer", c.id>> : c \in
                      {c \in cs : c.kind \in {"transfer", "status"}}}
OnTheWay == Range(c2s) \cup Range(s2c)
Unanswered ==
  IF state # "connected" \/ ended # "no" THEN {}
  ELSE Results(OnTheWay) \cup TransfersOn(OnTheWay)
         \cup {<<"transfer", id>> : id \in Range(con.transfers)}
         \cup {<<i.kind, i.id>> : i \in {i \in Range(stream_items) :
                                           i.kind \in {"result", "transfer"}}}

TheSession == INSTANCE Session WITH
  phase <- IF ended = "no" /\ state # "connected" THEN "connecting"
           ELSE IF ended = "no" THEN "connected" ELSE "over",
  code <- con.code, transfer <- con.transfer, pending <- Unanswered,
  answers <- heard.answers,
  closing <- resender # "connected"

\* The connection implements Session: whatever is lost, reordered or given
\* up below, a handle is answered at most once, and never on a later
\* connection, whose handles start at 0 again.
ImplementsSession == TheSession!SessionSpec

\* A connection that is not connected gets connected, or the user is told
\* that it failed.
Reconnects ==
  (state # "connected" /\ epoch < MaxConnects) ~> (state = "connected" \/ ended # "no")

\* Once the user has asked to disconnect the connection does not come back
\* ("Disconnect from the server", lib.rs:867; the example waits for the end
\* of the events).
\* It does not hold (README, section 7).
DisconnectIsFinal ==
  [][resender = "disconnecting" => state' = "connected"]_vars

\* An increase of the identity level that was canceled leaves the identity as
\* it was: cancel_identity_level_increase "Cancels the computation to increase
\* the identity level" (lib.rs:801).  It does not hold: the thread runs on
\* (lib.rs:643), its identity is taken and used to connect.
CancelKeepsIdentity ==
  [][thread.canceled => options'.level = options.level]_vars

\* The mutes of the own client are what the user has set and the server
\* knows, once no command is on the way: an outgoing change of the mute state
\* is "Immediately" applied to the book (lib.rs:679), and that is why an
\* incoming one may be ignored for the own client.
\* It does not hold (README, section 7).
MutesKept ==
  (state = "connected" /\ c2s = <<>> /\ s2c = <<>>) =>
    \A c \in own : c.mutes = server.mutes

=============================================================================
