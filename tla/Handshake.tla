----------------------------- MODULE Handshake -----------------------------
(***************************************************************************)
(* How a client gets connected: Client::connect of tsproto/src/client.rs   *)
(* (Init0 to Init4, initivexpand2, clientek), then connect_to and          *)
(* wait_initserver of tsclientlib/src/lib.rs (clientinit, initserver), on  *)
(* top of handle_udp_packet and the resender, over a network that loses,   *)
(* duplicates, delays and reorders datagrams.                              *)
(*                                                                         *)
(* A datagram becomes an item, and what it acknowledges leaves the send    *)
(* queue, when it arrives; connect takes the item out before the next      *)
(* datagram is read (poll_incoming_udp_packet).                            *)
(* Commands of the server reach the client in order and once (CommandLink) *)
(* and are kept in from_server; datagrams without that guarantee, and the  *)
(* two commands of the client with their acks, are on the wire.            *)
(*                                                                         *)
(* The server is external: it answers Init0 with Init1, Init2 with Init3   *)
(* or 127 (start again), Init4 with initivexpand2, clientinit with         *)
(* initserver or an error.                                                 *)
(***************************************************************************)
EXTENDS Integers, Sequences, FiniteSets, SequencesExt

CONSTANTS
  Levels,        \* levels of the RSA puzzle a server may ask for
  MaxPuzzle,     \* higher levels are rejected (10_000_000)
  Defects,       \* what may be wrong with initivexpand2, a subset of Checks
  WantedUid,     \* the uid in ConnectOptions::server, or NoUid
  ServerUids,    \* the uids of the servers that may answer
  NoUid,
  MaxRestarts,   \* bound: how often the server answers 127
  MaxFlight,     \* bound: datagrams on the way
  MaxFaults,     \* bound: datagrams lost or duplicated by the network
  MaxNews        \* bound: commands of a server we are connected to

ASSUME HandshakeAssumption ==
  /\ Levels \subseteq Nat /\ MaxPuzzle \in Nat
  /\ MaxRestarts \in Nat /\ MaxFaults \in Nat /\ MaxFlight \in Nat \ {0}
  /\ NoUid \notin ServerUids

VARIABLES
  phase,         \* what connect waits for
  init_queue,    \* Init packets in the send queue of the resender
  cmd_queue,     \* commands of ours in the send queue
  params,        \* Connection::params: a set with at most one record
  resender,      \* ResenderState
  error,         \* the error that connect returned
  wire,          \* the datagrams on the way
  from_server,   \* commands of the server in order
  server,        \* the server: uid, phase, acks sent, restarts left
  faults, news   \* steps left for the network and the server

vars == <<phase, init_queue, cmd_queue, params, resender, error,
          wire, from_server, server, faults, news>>

----------------------------------------------------------------------------
(* Datagrams *)

C2SInit(step) == <<"c2sinit", step>>
S2CInit(step, level) == <<"s2cinit", step, level>>
Cmd(name) == <<"command", name>>
OwnCommands == {"clientek", "clientinit", "plugincmd"}
\* An ack has an id of its own: the first ack of a server is 0; from 2 on
\* they are treated alike.
Ack(id, name) == <<"ack", id, name>>

Datagrams ==
  {C2SInit(s) : s \in {0, 2, 4}} \cup {S2CInit(s, 0) : s \in {1, 127}}
    \cup {S2CInit(3, l) : l \in Levels} \cup {Cmd(n) : n \in OwnCommands}
    \cup {Ack(i, n) : i \in 0 .. 2, n \in OwnCommands}

\* A datagram that finds the network full is lost.
Sent(w, d) == IF Cardinality(w) >= MaxFlight THEN w ELSE w \cup {d}

\* A datagram arrives; the network may keep a copy.
Arrives(d, left) ==
  /\ d \in wire
  /\ \/ left = wire \ {d} /\ UNCHANGED faults
     \/ left = wire /\ faults > 0 /\ faults' = faults - 1

\* InPacket::ack_packet: which Init packet an Init packet of the server
\* acknowledges.
AckedInit(step) == CASE step = 1 -> 0 [] step = 3 -> 2 [] step = 127 -> 2

----------------------------------------------------------------------------
(* The client: what it sends *)

Alive == phase \notin {"failed", "over"}

SendInit(queue, left, step) ==
  /\ init_queue' = queue \cup {step}
  /\ wire' = Sent(left, C2SInit(step))

SendCommand(left, name) ==
  /\ cmd_queue' = cmd_queue \cup {name}
  /\ wire' = Sent(left, Cmd(name))

\* The resender sends what is not acknowledged again and again, or gives up.
Resend(d) ==
  /\ Alive
  /\ \/ d[1] = "c2sinit" /\ d[2] \in init_queue
     \/ d[1] = "command" /\ d[2] \in cmd_queue
  /\ d \notin wire
  /\ wire' = Sent(wire, d)
  /\ UNCHANGED <<phase, init_queue, cmd_queue, params, resender, error,
                 from_server, server, faults, news>>

\* connect returns an error.
Fail(e) ==
  /\ phase' = "failed" /\ error' = e
  /\ init_queue' = {} /\ cmd_queue' = {}
  /\ wire' = {}
  /\ UNCHANGED <<params, resender>>

Timeout ==
  /\ Alive
  /\ init_queue # {} \/ cmd_queue # {}
  /\ Fail("Timeout")
  /\ UNCHANGED <<from_server, server, faults, news>>

\* connect_to waits INITSERVER_TIMEOUT for initserver.
InitserverTimeout ==
  /\ phase = "initserver"
  /\ Fail("InitserverTimeout")
  /\ UNCHANGED <<from_server, server, faults, news>>

----------------------------------------------------------------------------
(* Client::connect: the Init packets *)

\* handle_udp_packet: the packet acknowledges one of ours before anybody
\* looks at it.  Once the keys are there it is an error
\* (UnexpectedInitPacket) and acknowledges nothing any more.
Acknowledged(step) ==
  IF params # {} THEN init_queue ELSE init_queue \ {AckedInit(step)}

\* get_init: the steps that connect waits for.
WantedSteps == CASE phase = "init1" -> {1} [] phase = "init3" -> {3, 127} [] OTHER -> {}

ReceivesInit(d, left) ==
  /\ Alive
  /\ d[1] = "s2cinit"
  /\ Arrives(d, left)
  /\ UNCHANGED <<from_server, server, news>>

\* Any other one was sent twice.
SkipInit(d, left) ==
  /\ ReceivesInit(d, left)
  /\ d[2] \notin WantedSteps
  /\ init_queue' = Acknowledged(d[2])
  /\ wire' = left
  /\ UNCHANGED <<phase, cmd_queue, params, resender, error>>

\* The random bytes of Init1 are not checked.
GetInit1(d, left) ==
  /\ ReceivesInit(d, left)
  /\ phase = "init1" /\ d[2] = 1
  /\ SendInit(Acknowledged(1), left, 2)
  /\ phase' = "init3"
  /\ UNCHANGED <<cmd_queue, params, resender, error>>

\* Mutant: on 127 connect waits for Init1 again without asking for it.
StartAgainSilently(d, left) ==
  /\ ReceivesInit(d, left)
  /\ phase = "init3" /\ d[2] = 127
  /\ init_queue' = Acknowledged(127) /\ wire' = left
  /\ phase' = "init1"
  /\ UNCHANGED <<cmd_queue, params, resender, error>>

StartAgain(d, left) ==
  /\ ReceivesInit(d, left)
  /\ phase = "init3" /\ d[2] = 127
  /\ SendInit(Acknowledged(127), left, 0)
  /\ phase' = "init1"
  /\ UNCHANGED <<cmd_queue, params, resender, error>>

GetInit3(d, left) ==
  /\ ReceivesInit(d, left)
  /\ phase = "init3" /\ d[2] = 3
  /\ IF d[3] > MaxPuzzle THEN Fail("RsaPuzzleTooHighLevel")
     ELSE /\ SendInit(Acknowledged(3), left, 4)
          /\ phase' = "initivexpand2"
          /\ UNCHANGED <<cmd_queue, params, resender, error>>

----------------------------------------------------------------------------
(* Client::connect: initivexpand2 and the ack of clientek *)

\* A command of the server; info is what the client learns from it.
FromServer(name, info) == <<"command", name, info>>

\* The checks in their order: the name, the arguments (a second command, base
\* 64, the key omega, the length of root), the ot flag, l, beta, omega and
\* proof present, the signature of l, the length of beta, the license chain.
Checks == <<"UnexpectedPacket", "InvalidArgument", "OutdatedServer",
            "InvalidInitivexpand2", "InvalidSignature", "InvalidBetaLength",
            "ParseLicense">>

FirstDefect(defects) == SelectSeq(Checks, LAMBDA c : c \in defects)[1]

ReceivesCommand(name) ==
  /\ Alive
  /\ from_server # <<>> /\ Head(from_server)[2] = name
  /\ from_server' = Tail(from_server)
  /\ UNCHANGED <<server, faults, news>>

\* Mutant: clientinit follows clientek at once, without its ack.
GetInitivexpand2Hurries ==
  /\ ReceivesCommand("initivexpand2")
  /\ Head(from_server)[3].defects = {}
  /\ init_queue' = init_queue \ {4}
  /\ params' = {[uid |-> Head(from_server)[3].uid, c_id |-> 0]}
  /\ cmd_queue' = {"clientek", "clientinit"}
  /\ wire' = Sent(Sent(wire, Cmd("clientek")), Cmd("clientinit"))
  /\ phase' = "initserver"
  /\ UNCHANGED <<resender, error>>

\* Mutant: a command acknowledges no Init packet.
GetInitivexpand2Keeps ==
  /\ ReceivesCommand("initivexpand2")
  /\ Head(from_server)[3].defects = {}
  /\ params' = {[uid |-> Head(from_server)[3].uid, c_id |-> 0]}
  /\ SendCommand(wire, "clientek")
  /\ phase' = "ack"
  /\ UNCHANGED <<init_queue, resender, error>>

\* The command acknowledges Init4.
GetInitivexpand2 ==
  /\ ReceivesCommand("initivexpand2")
  /\ LET initiv == Head(from_server)[3] IN
       IF initiv.defects # {} THEN Fail(FirstDefect(initiv.defects))
       ELSE /\ init_queue' = init_queue \ {4}
            /\ params' = {[uid |-> initiv.uid, c_id |-> 0]}
            /\ SendCommand(wire, "clientek")
            /\ phase' = "ack"
            /\ UNCHANGED <<resender, error>>

\* handle_udp_packet drops the ack with id 1: it should belong to clientinit,
\* for which initserver is the ack.
ReceivesAck(d, left) ==
  /\ Alive
  /\ d[1] = "ack"
  /\ Arrives(d, left)
  /\ UNCHANGED <<from_server, server, news>>

IsEvent(d) == d[2] # 1 /\ d[3] \in cmd_queue

\* Mutant: clientinit follows without a look at the uid of the server.
WaitForAckUnchecked(d, left) ==
  /\ ReceivesAck(d, left)
  /\ phase = "ack" /\ d[3] = "clientek" /\ IsEvent(d)
  /\ cmd_queue' = {"clientinit"}
  /\ wire' = Sent(left, Cmd("clientinit"))
  /\ phase' = "initserver"
  /\ UNCHANGED <<init_queue, params, resender, error>>

\* wait_for_ack returns and connect_to goes on: the uid of the server is
\* compared before clientinit is sent, which has the hash of the password in
\* it.
WaitForAck(d, left) ==
  /\ ReceivesAck(d, left)
  /\ phase = "ack" /\ d[3] = "clientek" /\ IsEvent(d)
  /\ IF \E p \in params : WantedUid \notin {NoUid, p.uid}
     THEN Fail("ServerUidMismatch")
     ELSE /\ cmd_queue' = {"clientinit"}
          /\ wire' = Sent(left, Cmd("clientinit"))
          /\ phase' = "initserver"
          /\ UNCHANGED <<init_queue, params, resender, error>>

\* Other acks are of no interest to connect.
SkipAck(d, left) ==
  /\ ReceivesAck(d, left)
  /\ ~(phase = "ack" /\ d[3] = "clientek" /\ IsEvent(d))
  /\ cmd_queue' = IF IsEvent(d) THEN cmd_queue \ {d[3]} ELSE cmd_queue
  /\ wire' = left
  /\ UNCHANGED <<phase, init_queue, params, resender, error>>

----------------------------------------------------------------------------
(* wait_initserver, and Client::handle_command *)

\* initserver acknowledges clientinit; Client::handle_command takes over the
\* client id (or fails with NoClientId), wait_initserver creates the book.
GetInitserver ==
  /\ ReceivesCommand("initserver")
  /\ IF Head(from_server)[3] = 0 THEN Fail("NoClientId")
     ELSE /\ cmd_queue' = cmd_queue \ {"clientinit"}
          /\ params' = {[p EXCEPT !.c_id = Head(from_server)[3]] : p \in params}
          /\ resender' = "connected"
          /\ phase' = "connected"
          /\ UNCHANGED <<init_queue, error, wire>>

\* ConnectTs, or IdentityLevel when the server wants a better identity.
GetError ==
  /\ ReceivesCommand("error")
  /\ Fail(Head(from_server)[3])

\* Only our own client leaving ends the connection.
HandleLeft ==
  /\ ReceivesCommand("notifyclientleftview")
  /\ IF \E p \in params : p.c_id = Head(from_server)[3]
     THEN resender' = "disconnected" /\ phase' = "over"
     ELSE UNCHANGED <<resender, phase>>
  /\ UNCHANGED <<init_queue, cmd_queue, params, error, wire>>

\* A request for our version is answered.
HandlePluginCmd ==
  /\ ReceivesCommand("notifyplugincmd")
  /\ IF Head(from_server)[3] = "request" THEN SendCommand(wire, "plugincmd")
     ELSE UNCHANGED <<cmd_queue, wire>>
  /\ UNCHANGED <<phase, init_queue, params, resender, error>>

----------------------------------------------------------------------------
(* The server and the network *)

ServerTakes(d, left) ==
  /\ Arrives(d, left)
  /\ UNCHANGED <<phase, init_queue, cmd_queue, params, resender, error,
                 news>>

ServerInit0(left) ==
  /\ ServerTakes(C2SInit(0), left)
  /\ wire' = Sent(left, S2CInit(1, 0))
  /\ UNCHANGED <<server, from_server>>

ServerInit2(left) ==
  /\ ServerTakes(C2SInit(2), left)
  /\ \/ /\ \E l \in Levels : wire' = Sent(left, S2CInit(3, l))
        /\ UNCHANGED server
     \/ /\ server.restarts > 0
        /\ server' = [server EXCEPT !.restarts = @ - 1]
        /\ wire' = Sent(left, S2CInit(127, 0))
  /\ UNCHANGED from_server

ServerInit4(left) ==
  /\ ServerTakes(C2SInit(4), left)
  /\ wire' = left
  /\ IF server.phase = "init"
     THEN \E defects \in {{}} \cup {{x} : x \in Defects} :
            /\ server' = [server EXCEPT !.phase = "keys"]
            /\ from_server' = <<FromServer("initivexpand2",
                                          [uid |-> server.uid, defects |-> defects])>>
     ELSE UNCHANGED <<server, from_server>>

\* The answer to clientinit.
Verdicts == {FromServer("initserver", c) : c \in {0, 5}}
              \cup {FromServer("error", e) : e \in {"ConnectTs", "IdentityLevel"}}

\* Commands are acknowledged, those that were received before, too.
\* clientinit can be decrypted only with the keys of clientek.
ServerCommand(name, left) ==
  /\ ServerTakes(Cmd(name), left)
  /\ IF name = "clientinit" /\ server.phase = "keys"
     THEN wire' = left /\ UNCHANGED <<server, from_server>>
     ELSE /\ wire' = Sent(left, Ack(server.acks, name))
          /\ server' = [server EXCEPT
                !.acks = IF @ = 2 THEN 2 ELSE @ + 1,
                !.phase = IF name = "clientek" /\ @ = "keys" THEN "ready"
                          ELSE IF name = "clientinit" /\ @ = "ready" THEN "joined" ELSE @]
          /\ IF name = "clientinit" /\ server.phase = "ready"
             THEN \E answer \in Verdicts : from_server' = Append(from_server, answer)
             ELSE UNCHANGED from_server

ServerNews ==
  /\ server.phase = "joined" /\ news > 0
  /\ news' = news - 1
  /\ \E m \in {FromServer("notifyclientleftview", c) : c \in {5, 6}}
             \cup {FromServer("notifyplugincmd", r) : r \in {"request", "answer"}} :
       from_server' = Append(from_server, m)
  /\ UNCHANGED <<phase, init_queue, cmd_queue, params, resender, error,
                 wire, server, faults>>

Lose(d) ==
  /\ d \in wire
  /\ faults > 0
  /\ faults' = faults - 1
  /\ wire' = wire \ {d}
  /\ UNCHANGED <<phase, init_queue, cmd_queue, params, resender, error,
                 from_server, server, news>>

----------------------------------------------------------------------------

\* connect has sent Init0.
Init ==
  /\ phase = "init1"
  /\ init_queue = {0} /\ cmd_queue = {}
  /\ params = {}
  /\ resender = "connecting" /\ error = "none"
  /\ wire = {C2SInit(0)}
  /\ from_server = <<>>
  /\ server \in [uid : ServerUids, phase : {"init"}, acks : {0}, restarts : {MaxRestarts}]
  /\ faults = MaxFaults /\ news = MaxNews

HandleCommand ==
  GetInitivexpand2 \/ GetInitserver \/ GetError \/ HandleLeft \/ HandlePluginCmd

HandlePacket(d) ==
  \E left \in {wire, wire \ {d}} :
    \/ SkipInit(d, left) \/ GetInit1(d, left) \/ StartAgain(d, left) \/ GetInit3(d, left)
    \/ WaitForAck(d, left) \/ SkipAck(d, left)

ServerStep(d) ==
  \E left \in {wire, wire \ {d}} :
    \/ d = C2SInit(0) /\ ServerInit0(left)
    \/ d = C2SInit(2) /\ ServerInit2(left)
    \/ d = C2SInit(4) /\ ServerInit4(left)
    \/ d[1] = "command" /\ ServerCommand(d[2], left)

Next ==
  \/ HandleCommand \/ Timeout \/ InitserverTimeout \/ ServerNews
  \/ \E d \in Datagrams : HandlePacket(d) \/ ServerStep(d) \/ Resend(d) \/ Lose(d)

\* The client and the server run, and what is not lost arrives.
Fairness ==
  /\ WF_vars(HandleCommand)
  /\ \A d \in Datagrams : WF_vars(HandlePacket(d) \/ ServerStep(d))
  /\ WF_vars(\E d \in Datagrams : Resend(d))

Spec == Init /\ [][Next]_vars /\ Fairness

----------------------------------------------------------------------------
(* Properties *)

TypeOK ==
  /\ phase \in {"init1", "init3", "initivexpand2", "ack", "initserver", "connected",
                "failed", "over"}
  /\ init_queue \subseteq {0, 2, 4} /\ cmd_queue \subseteq OwnCommands
  /\ params \subseteq [uid : ServerUids, c_id : {0, 5}] /\ Cardinality(params) <= 1
  /\ resender \in {"connecting", "connected", "disconnected"}
  /\ wire \subseteq Datagrams /\ Cardinality(wire) <= MaxFlight

\* Once the keys are there Init packets are answered by nothing: none may be
\* left in the send queue, or it would be sent until the connection times
\* out.
InitsSettled == params # {} => init_queue = {}

\* clientinit goes out only when the server can decrypt it, whatever happens
\* to the datagrams: waiting for the ack of clientek is enough.
ServerCanDecrypt == Cmd("clientinit") \in wire => server.phase \in {"ready", "joined"}

\* clientinit, with the hash of the password, goes only to the server that
\* the user has asked for, and only after its license was accepted.
OnlyToWantedServer ==
  Cmd("clientinit") \in wire =>
    \A p \in params : WantedUid \in {NoUid, p.uid} /\ p.uid = server.uid

\* Both sides agree that we are connected, and under which client id.
ConnectedAgree ==
  phase = "connected" => /\ server.phase = "joined" /\ resender = "connected"
                         /\ \A p \in params : p.c_id = 5

\* What the phase of the handshake says about the queues, the keys and the
\* server, at every step.
HandshakeSound == TypeOK /\ InitsSettled /\ ConnectedAgree

\* As long as datagrams get through the handshake comes to an end, without
\* any timeout of ours: restarts, stale answers and lost or dropped acks
\* leave the client nowhere without something to send.
HandshakeCompletes == <>(phase \in {"connected", "failed", "over"})

=============================================================================
