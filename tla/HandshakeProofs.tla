-------------------------- MODULE HandshakeProofs --------------------------
(***************************************************************************)
(* Proofs about the handshake, for all puzzle levels, servers, defects and *)
(* restarts, and whatever the network does to the datagrams; and about the *)
(* commands and the license chain that it exchanges, for data of any size. *)
(*                                                                         *)
(* The argument for the handshake.  The phase of connect tells how far the server can have   *)
(* come: no Init4 is on the way before the puzzle is solved, no command    *)
(* before initivexpand2 was checked, no clientinit before the ack of       *)
(* clientek, and that ack exists only once the server has the keys.  The   *)
(* commands of the server arrive in order, so they are known from the      *)
(* phases too: initivexpand2 alone, then one answer to clientinit, then    *)
(* news.                                                                   *)
(*                                                                         *)
(* The argument for commands.  A value is escaped to text without any      *)
(* separator, and unescaping it character by character gives the value     *)
(* back; so what follows an argument is where the parser looks for the     *)
(* next one, and by induction over the arguments it finds all of them.     *)
(*                                                                         *)
(* The argument for license chains.  Deriving a key commutes with taking   *)
(* the public key of it, block by block; and a chain that was accepted so  *)
(* far has the bounds of its last block, which are within all others.      *)
(***************************************************************************)
EXTENDS Handshake, MCCodec, SequenceTheorems, FiniteSetTheorems, WellFoundedInduction, TLAPS

-----------------------------------------------------------------------------
(* The invariant.                                                          *)

ServerPhases == {"init", "keys", "ready", "joined"}

\* The commands that a server sends to a client that has joined.
NewsItems == {FromServer("notifyclientleftview", c) : c \in {5, 6}}
               \cup {FromServer("notifyplugincmd", r) : r \in {"request", "answer"}}

\* The types of what every other part is about.
Typed ==
  /\ phase \in {"init1", "init3", "initivexpand2", "ack", "initserver", "connected",
                "failed", "over"}
  /\ init_queue \subseteq {0, 2, 4} /\ cmd_queue \subseteq OwnCommands
  /\ resender \in {"connecting", "connected", "disconnected"}
  /\ server \in [uid : ServerUids, phase : ServerPhases, acks : 0 .. 2, restarts : Nat]

WireTyped ==
  wire \subseteq Datagrams /\ IsFiniteSet(wire) /\ Cardinality(wire) <= MaxFlight

\* The keys belong to the server that answers.
Keys(id) == {[uid |-> server.uid, c_id |-> id]}

KeysOfServer == params = {} \/ params = Keys(0) \/ params = Keys(5)

\* An ack of clientek is sent only by a server that has the keys.
AckMeansReady ==
  \A i \in 0 .. 2 : Ack(i, "clientek") \in wire => server.phase \in {"ready", "joined"}

\* Before the puzzle is solved the server knows nothing of this client.
PuzzlePart ==
  /\ phase \in {"init1", "init3"} => /\ C2SInit(4) \notin wire
                                     /\ server.phase = "init"
  /\ phase = "init1" => init_queue \subseteq {0}
  /\ phase = "init3" => init_queue \subseteq {2}
  /\ phase = "initivexpand2" => init_queue \subseteq {4}

\* Before initivexpand2 there are no keys and no commands of ours, and
\* initivexpand2 is all that the server has sent.
ExpandPart ==
  phase \in {"init1", "init3", "initivexpand2"} =>
    /\ params = {} /\ cmd_queue = {}
    /\ \A n \in OwnCommands : Cmd(n) \notin wire
    /\ \/ server.phase = "init" /\ from_server = <<>>
       \/ /\ server.phase = "keys"
          /\ \E defects \in {{}} \cup {{x} : x \in Defects} : from_server =
               <<FromServer("initivexpand2", [uid |-> server.uid, defects |-> defects])>>

\* Before the ack of clientek no clientinit was sent.
AckPart ==
  phase = "ack" =>
    /\ init_queue = {} /\ params = Keys(0)
    /\ cmd_queue \subseteq {"clientek"} /\ Cmd("clientinit") \notin wire
    /\ server.phase \in {"keys", "ready"} /\ from_server = <<>>

\* The server is the wanted one.
Wanted == WantedUid \in {NoUid, server.uid}

\* While connect waits for initserver nothing has come, or its answer first.
AnswerPart ==
  phase = "initserver" =>
    /\ init_queue = {} /\ params = Keys(0) /\ Wanted
    /\ \/ server.phase = "ready" /\ from_server = <<>>
       \/ /\ server.phase = "joined" /\ from_server # <<>>
          /\ from_server \in Seq(Verdicts \cup NewsItems)
          /\ Head(from_server) \in Verdicts
          /\ Tail(from_server) \in Seq(NewsItems)

\* Later there are only news.
JoinedPart ==
  phase \in {"connected", "over"} =>
    /\ init_queue = {} /\ params = Keys(5) /\ Wanted
    /\ server.phase = "joined" /\ from_server \in Seq(NewsItems)
    /\ phase = "connected" => resender = "connected"

\* connect has dropped the connection.
FailedPart == phase = "failed" => wire = {} /\ init_queue = {} /\ cmd_queue = {}

IInv ==
  /\ Typed /\ WireTyped /\ KeysOfServer /\ AckMeansReady
  /\ PuzzlePart /\ ExpandPart /\ AckPart /\ AnswerPart /\ JoinedPart /\ FailedPart

-----------------------------------------------------------------------------
(* Datagrams and the network.                                              *)

\* The kinds of datagrams are different, and so are their contents.
LEMMA DatagramFacts ==
  /\ \A s : C2SInit(s)[1] = "c2sinit" /\ C2SInit(s)[2] = s
  /\ \A s, l : S2CInit(s, l)[1] = "s2cinit" /\ S2CInit(s, l)[2] = s
  /\ \A n : Cmd(n)[1] = "command" /\ Cmd(n)[2] = n
  /\ \A i, n : Ack(i, n)[1] = "ack" /\ Ack(i, n)[2] = i /\ Ack(i, n)[3] = n
  BY DEF C2SInit, S2CInit, Cmd, Ack

\* No datagram is of two kinds.
LEMMA KindsDiffer ==
  /\ \A s, t : C2SInit(s) = C2SInit(t) => s = t
  /\ \A m, n : Cmd(m) = Cmd(n) => m = n
  /\ \A i, j, m, n : Ack(i, m) = Ack(j, n) => i = j /\ m = n
  /\ \A s, t, l : C2SInit(s) # S2CInit(t, l)
  /\ \A s, n : C2SInit(s) # Cmd(n)
  /\ \A s, i, n : C2SInit(s) # Ack(i, n)
  /\ \A s, l, n : S2CInit(s, l) # Cmd(n)
  /\ \A s, l, i, n : S2CInit(s, l) # Ack(i, n)
  /\ \A m, i, n : Cmd(m) # Ack(i, n)
  <1>1. "c2sinit" # "s2cinit" /\ "c2sinit" # "command" /\ "c2sinit" # "ack"
        /\ "s2cinit" # "command" /\ "s2cinit" # "ack" /\ "command" # "ack"
    OBVIOUS
  <1> QED
    BY <1>1, DatagramFacts

\* Every datagram is of one of the kinds.
LEMMA DatagramKinds ==
  ASSUME NEW d \in Datagrams
  PROVE  \/ \E s \in {0, 2, 4} : d = C2SInit(s)
         \/ \E s, l : d = S2CInit(s, l)
         \/ \E n \in OwnCommands : d = Cmd(n)
         \/ \E i \in 0 .. 2, n \in OwnCommands : d = Ack(i, n)
  BY DEF Datagrams

\* What is sent is on the way or lost; the network keeps its bound.
LEMMA SentFacts ==
  ASSUME NEW w, IsFiniteSet(w), Cardinality(w) <= MaxFlight, NEW d
  PROVE  /\ Sent(w, d) \subseteq w \cup {d}
         /\ IsFiniteSet(Sent(w, d)) /\ Cardinality(Sent(w, d)) <= MaxFlight
  <1>1. Cardinality(w) \in Nat /\ MaxFlight \in Nat
    BY FS_CardinalityType, HandshakeAssumption
  <1>2. CASE Cardinality(w) >= MaxFlight
    BY <1>2 DEF Sent
  <1>3. CASE ~(Cardinality(w) >= MaxFlight)
    <2>1. /\ IsFiniteSet(w \cup {d})
          /\ Cardinality(w \cup {d}) = IF d \in w THEN Cardinality(w) ELSE Cardinality(w) + 1
      BY FS_AddElement
    <2>2. Sent(w, d) = w \cup {d}
      BY <1>3 DEF Sent
    <2> QED
      BY <1>1, <1>3, <2>1, <2>2
  <1> QED
    BY <1>2, <1>3

\* What is left when a datagram has arrived.
LEMMA LeftFacts ==
  ASSUME WireTyped, NEW d, NEW left \in {wire, wire \ {d}}
  PROVE  left \subseteq wire /\ IsFiniteSet(left) /\ Cardinality(left) <= MaxFlight
  <1>1. IsFiniteSet(wire) /\ Cardinality(wire) <= MaxFlight
    BY DEF WireTyped
  <1>2. left \subseteq wire
    OBVIOUS
  <1>3. IsFiniteSet(left) /\ Cardinality(left) <= Cardinality(wire)
    BY <1>1, <1>2, FS_Subset
  <1>4. Cardinality(left) \in Nat /\ Cardinality(wire) \in Nat /\ MaxFlight \in Nat
    BY <1>1, <1>3, FS_CardinalityType, HandshakeAssumption
  <1> QED
    BY <1>1, <1>2, <1>3, <1>4

\* The bound and the type of the network, when one datagram is sent.
LEMMA WireKeeps ==
  ASSUME WireTyped, NEW d, NEW left \in {wire, wire \ {d}}, NEW x \in Datagrams,
         wire' = left \/ wire' = Sent(left, x)
  PROVE  WireTyped' /\ wire' \subseteq wire \cup {x}
  <1>1. left \subseteq wire /\ IsFiniteSet(left) /\ Cardinality(left) <= MaxFlight
    BY LeftFacts
  <1>2. /\ Sent(left, x) \subseteq left \cup {x}
        /\ IsFiniteSet(Sent(left, x)) /\ Cardinality(Sent(left, x)) <= MaxFlight
    BY <1>1, SentFacts
  <1>3. wire \subseteq Datagrams
    BY DEF WireTyped
  <1>4. wire' \subseteq left \cup {x} /\ IsFiniteSet(wire') /\ Cardinality(wire') <= MaxFlight
    BY <1>1, <1>2
  <1> QED
    BY <1>1, <1>3, <1>4 DEF WireTyped

-----------------------------------------------------------------------------
(* The steps.                                                              *)

\* Steps that change neither the phase nor what the server knows: packets are
\* skipped, sent again, lost, or Init packets answered.
LEMMA QuietKeeps ==
  ASSUME IInv, UNCHANGED <<phase, params, resender, from_server>>,
         server'.uid = server.uid, server'.phase = server.phase, Typed', WireTyped',
         init_queue' \subseteq init_queue, cmd_queue' \subseteq cmd_queue,
         NEW x, wire' \subseteq wire \cup {x},
         x = C2SInit(4) => phase \notin {"init1", "init3"},
         \A n \in OwnCommands : x = Cmd(n) =>
           /\ phase \notin {"init1", "init3", "initivexpand2"}
           /\ n = "clientinit" => phase # "ack",
         \A i \in 0 .. 2 : x # Ack(i, "clientek"),
         phase = "failed" => wire' = {}
  PROVE  IInv'
  <1>1. KeysOfServer' /\ Keys(0)' = Keys(0) /\ Keys(5)' = Keys(5) /\ Wanted' = Wanted
    BY DEF IInv, KeysOfServer, Keys, Wanted
  <1>2. AckMeansReady'
    BY DEF IInv, AckMeansReady
  <1>3. PuzzlePart'
    BY DEF IInv, PuzzlePart
  <1>4. ExpandPart'
    BY DEF IInv, ExpandPart
  <1>5. "clientinit" \in OwnCommands
    BY DEF OwnCommands
  <1>6. AckPart'
    BY <1>1, <1>5 DEF IInv, AckPart
  <1>7. AnswerPart'
    BY <1>1 DEF IInv, AnswerPart
  <1>8. JoinedPart'
    BY <1>1 DEF IInv, JoinedPart
  <1>9. FailedPart'
    BY DEF IInv, FailedPart
  <1> QED
    BY <1>1, <1>2, <1>3, <1>4, <1>6, <1>7, <1>8, <1>9 DEF IInv

\* connect returns an error and drops the connection.
LEMMA FailKeeps ==
  ASSUME IInv, NEW e, Fail(e), UNCHANGED server
  PROVE  IInv'
  <1>1. /\ phase' = "failed" /\ init_queue' = {} /\ cmd_queue' = {} /\ wire' = {}
        /\ params' = params /\ resender' = resender /\ server' = server
    BY DEF Fail
  <1>2. Typed'
    BY <1>1 DEF IInv, Typed
  <1>3. WireTyped'
    BY <1>1, FS_EmptySet, HandshakeAssumption DEF WireTyped
  <1>4. KeysOfServer'
    BY <1>1 DEF IInv, KeysOfServer, Keys
  <1> QED
    BY <1>1, <1>2, <1>3, <1>4
    DEF IInv, AckMeansReady, PuzzlePart, ExpandPart, AckPart, AnswerPart, JoinedPart, FailedPart

\* get_init skips what connect does not wait for.
LEMMA SkipInitKeeps ==
  ASSUME IInv, NEW d \in Datagrams, NEW left \in {wire, wire \ {d}}, SkipInit(d, left)
  PROVE  IInv'
  <1>1. /\ UNCHANGED <<phase, params, resender, from_server, server, cmd_queue>>
        /\ wire' = left /\ init_queue' \subseteq init_queue
    BY DEF SkipInit, ReceivesInit, Acknowledged
  <1>2. WireTyped' /\ wire' \subseteq wire \cup {d} /\ d \in wire /\ wire' \subseteq wire
    BY <1>1, WireKeeps DEF IInv, SkipInit, ReceivesInit, Arrives
  <1>3. Typed'
    BY <1>1 DEF IInv, Typed
  <1>4. phase = "failed" => wire' = {}
    BY <1>2 DEF IInv, FailedPart
  <1>5. wire' \subseteq wire \cup {C2SInit(0)}
    BY <1>2
  <1> QED
    BY <1>1, <1>2, <1>3, <1>4, <1>5, KindsDiffer, QuietKeeps

\* Acks that connect does not wait for.
LEMMA SkipAckKeeps ==
  ASSUME IInv, NEW d \in Datagrams, NEW left \in {wire, wire \ {d}}, SkipAck(d, left)
  PROVE  IInv'
  <1>1. /\ UNCHANGED <<phase, params, resender, from_server, server, init_queue>>
        /\ wire' = left /\ cmd_queue' \subseteq cmd_queue
    BY DEF SkipAck, ReceivesAck
  <1>2. WireTyped' /\ wire' \subseteq wire
    BY <1>1, WireKeeps DEF IInv
  <1>3. Typed'
    BY <1>1 DEF IInv, Typed
  <1>4. phase = "failed" => wire' = {}
    BY <1>2 DEF IInv, FailedPart
  <1>5. wire' \subseteq wire \cup {C2SInit(0)}
    BY <1>2
  <1> QED
    BY <1>1, <1>2, <1>3, <1>4, <1>5, KindsDiffer, QuietKeeps

\* The network loses a datagram.
LEMMA LoseKeeps ==
  ASSUME IInv, NEW d \in Datagrams, Lose(d)
  PROVE  IInv'
  <1>1. /\ UNCHANGED <<phase, params, resender, from_server, server, init_queue, cmd_queue>>
        /\ wire' = wire \ {d}
    BY DEF Lose
  <1>2. WireTyped' /\ wire' \subseteq wire
    BY <1>1, WireKeeps DEF IInv
  <1>3. Typed'
    BY <1>1 DEF IInv, Typed
  <1>4. phase = "failed" => wire' = {}
    BY <1>2 DEF IInv, FailedPart
  <1>5. wire' \subseteq wire \cup {C2SInit(0)}
    BY <1>2
  <1> QED
    BY <1>1, <1>2, <1>3, <1>4, <1>5, KindsDiffer, QuietKeeps

\* The resender sends what is in its queues.
LEMMA ResendKeeps ==
  ASSUME IInv, NEW d \in Datagrams, Resend(d)
  PROVE  IInv'
  <1>1. /\ UNCHANGED <<phase, params, resender, from_server, server, init_queue, cmd_queue>>
        /\ wire' = Sent(wire, d) /\ phase # "failed"
        /\ \/ d[1] = "c2sinit" /\ d[2] \in init_queue
           \/ d[1] = "command" /\ d[2] \in cmd_queue
    BY DEF Resend, Alive
  <1>2. WireTyped' /\ wire' \subseteq wire \cup {d}
    BY <1>1, WireKeeps DEF IInv
  <1>3. Typed'
    BY <1>1 DEF IInv, Typed
  <1>4. d = C2SInit(4) => phase \notin {"init1", "init3"}
    <2>1. d = C2SInit(4) => 4 \in init_queue
      BY <1>1, DatagramFacts
    <2> QED
      BY <2>1 DEF IInv, PuzzlePart
  <1>5. ASSUME NEW n \in OwnCommands, d = Cmd(n)
        PROVE  /\ phase \notin {"init1", "init3", "initivexpand2"}
               /\ n = "clientinit" => phase # "ack"
    <2>1. n \in cmd_queue
      BY <1>1, <1>5, DatagramFacts
    <2> QED
      BY <2>1 DEF IInv, ExpandPart, AckPart
  <1>6. \A i \in 0 .. 2 : d # Ack(i, "clientek")
    BY <1>1, DatagramFacts
  <1> QED
    BY <1>1, <1>2, <1>3, <1>4, <1>5, <1>6, QuietKeeps

\* Init1 is answered with Init2, 127 with Init0: Init4 and the keys are still
\* ahead.
LEMMA PuzzleStepKeeps ==
  ASSUME IInv, NEW step \in {0, 2}, NEW d, NEW left \in {wire, wire \ {d}},
         phase \in {"init1", "init3"},
         phase' = (IF step = 0 THEN "init1" ELSE "init3"),
         init_queue' \subseteq {step},
         wire' = Sent(left, C2SInit(step)),
         UNCHANGED <<cmd_queue, params, resender, from_server, server>>
  PROVE  IInv'
  <1>1. C2SInit(step) \in Datagrams /\ step # 4
    BY DEF Datagrams
  <1>2. WireTyped' /\ wire' \subseteq wire \cup {C2SInit(step)}
    BY <1>1, WireKeeps DEF IInv
  <1>3. Typed'
    BY DEF IInv, Typed
  <1>4. KeysOfServer'
    BY DEF IInv, KeysOfServer, Keys
  <1>5. AckMeansReady'
    BY <1>2, KindsDiffer DEF IInv, AckMeansReady
  <1>6. PuzzlePart'
    BY <1>1, <1>2, KindsDiffer DEF IInv, PuzzlePart
  <1>7. ExpandPart'
    BY <1>2, KindsDiffer DEF IInv, ExpandPart
  <1> QED
    BY <1>2, <1>3, <1>4, <1>5, <1>6, <1>7 DEF IInv, AckPart, AnswerPart, JoinedPart, FailedPart

\* get_init: Init1
LEMMA GetInit1Keeps ==
  ASSUME IInv, NEW d \in Datagrams, NEW left \in {wire, wire \ {d}}, GetInit1(d, left)
  PROVE  IInv'
  <1>1. /\ phase = "init1" /\ phase' = "init3" /\ init_queue' = Acknowledged(1) \cup {2}
        /\ wire' = Sent(left, C2SInit(2))
        /\ UNCHANGED <<cmd_queue, params, resender, from_server, server>>
    BY DEF GetInit1, ReceivesInit, SendInit
  <1>2. params = {} /\ init_queue \subseteq {0}
    BY <1>1 DEF IInv, ExpandPart, PuzzlePart
  <1>3. init_queue' \subseteq {2} /\ phase' = (IF 2 = 0 THEN "init1" ELSE "init3")
    BY <1>1, <1>2 DEF Acknowledged, AckedInit
  <1>4. phase \in {"init1", "init3"} /\ 2 \in {0, 2}
    BY <1>1
  <1> QED
    BY <1>1, <1>3, <1>4, PuzzleStepKeeps, Zenon

\* get_init: 127
LEMMA StartAgainKeeps ==
  ASSUME IInv, NEW d \in Datagrams, NEW left \in {wire, wire \ {d}}, StartAgain(d, left)
  PROVE  IInv'
  <1>1. /\ phase = "init3" /\ phase' = "init1" /\ init_queue' = Acknowledged(127) \cup {0}
        /\ wire' = Sent(left, C2SInit(0))
        /\ UNCHANGED <<cmd_queue, params, resender, from_server, server>>
    BY DEF StartAgain, ReceivesInit, SendInit
  <1>2. params = {} /\ init_queue \subseteq {2}
    BY <1>1 DEF IInv, ExpandPart, PuzzlePart
  <1>3. init_queue' \subseteq {0}
    BY <1>1, <1>2 DEF Acknowledged, AckedInit
  <1> QED
    BY <1>1, <1>3, PuzzleStepKeeps

\* get_init: Init3; the puzzle is solved or too hard
LEMMA GetInit3Keeps ==
  ASSUME IInv, NEW d \in Datagrams, NEW left \in {wire, wire \ {d}}, GetInit3(d, left)
  PROVE  IInv'
  <1>1. CASE Fail("RsaPuzzleTooHighLevel")
    BY <1>1, FailKeeps DEF GetInit3, ReceivesInit
  <1>2. CASE ~(d[3] > MaxPuzzle)
    <2>1. /\ phase = "init3" /\ phase' = "initivexpand2"
          /\ init_queue' = Acknowledged(3) \cup {4}
          /\ wire' = Sent(left, C2SInit(4))
          /\ UNCHANGED <<cmd_queue, params, resender, from_server, server>>
      BY <1>2 DEF GetInit3, ReceivesInit, SendInit
    <2>2. params = {} /\ init_queue \subseteq {2}
      BY <2>1 DEF IInv, ExpandPart, PuzzlePart
    <2>3. init_queue' \subseteq {4}
      BY <2>1, <2>2 DEF Acknowledged, AckedInit
    <2>4. C2SInit(4) \in Datagrams
      BY DEF Datagrams
    <2>5. WireTyped' /\ wire' \subseteq wire \cup {C2SInit(4)}
      <3> DEFINE x == C2SInit(4)
      <3>1. WireTyped /\ wire' = Sent(left, x) /\ x \in Datagrams
        BY <2>1, <2>4 DEF IInv
      <3> HIDE DEF x
      <3>2. WireTyped' /\ wire' \subseteq wire \cup {x}
        BY <3>1, WireKeeps
      <3> QED
        BY <3>2 DEF x
    <2>6. Typed'
      BY <2>1, <2>3 DEF IInv, Typed
    <2>7. KeysOfServer'
      BY <2>1 DEF IInv, KeysOfServer, Keys
    <2>8. AckMeansReady'
      BY <2>1, <2>5, KindsDiffer DEF IInv, AckMeansReady
    <2>9. ExpandPart'
      BY <2>1, <2>5, KindsDiffer DEF IInv, ExpandPart
    <2> QED
      BY <2>1, <2>3, <2>5, <2>6, <2>7, <2>8, <2>9
      DEF IInv, PuzzlePart, AckPart, AnswerPart, JoinedPart, FailedPart
  <1> QED
    BY <1>1, <1>2 DEF GetInit3

\* The names of the commands of the server.
LEMMA ServerNames ==
  /\ \A n, x : FromServer(n, x)[2] = n /\ FromServer(n, x)[3] = x
  /\ \A m \in Verdicts : m[2] \in {"initserver", "error"}
                         /\ (m[2] = "initserver" => m[3] \in {0, 5})
  /\ \A m \in NewsItems : m[2] \in {"notifyclientleftview", "notifyplugincmd"}
  <1>1. \A n, x : FromServer(n, x)[2] = n /\ FromServer(n, x)[3] = x
    BY DEF FromServer
  <1>2. ASSUME NEW m \in Verdicts
        PROVE  m[2] \in {"initserver", "error"} /\ (m[2] = "initserver" => m[3] \in {0, 5})
    BY <1>1 DEF Verdicts
  <1>3. ASSUME NEW m \in NewsItems PROVE m[2] \in {"notifyclientleftview", "notifyplugincmd"}
    BY <1>1 DEF NewsItems
  <1> QED
    BY <1>1, <1>2, <1>3

\* Which command of the server comes first tells the phase.
LEMMA FirstCommand ==
  ASSUME IInv, Alive, from_server # <<>>, NEW name, Head(from_server)[2] = name
  PROVE  \/ /\ name = "initivexpand2" /\ phase = "initivexpand2" /\ server.phase = "keys"
            /\ Head(from_server)[3].uid = server.uid /\ Tail(from_server) = <<>>
         \/ /\ name \in {"initserver", "error"} /\ phase = "initserver"
            /\ server.phase = "joined" /\ Head(from_server) \in Verdicts
            /\ Tail(from_server) \in Seq(NewsItems)
         \/ /\ name \in {"notifyclientleftview", "notifyplugincmd"} /\ phase = "connected"
            /\ Head(from_server) \in NewsItems /\ Tail(from_server) \in Seq(NewsItems)
  <1>1. CASE phase \in {"init1", "init3", "initivexpand2"}
    <2>1. server.phase = "keys"
      BY <1>1 DEF IInv, ExpandPart
    <2>2. PICK defects : from_server =
            <<FromServer("initivexpand2", [uid |-> server.uid, defects |-> defects])>>
      BY <1>1, <2>1 DEF IInv, ExpandPart
    <2>3. phase = "initivexpand2"
      BY <1>1, <2>1 DEF IInv, PuzzlePart
    <2> DEFINE x == [uid |-> server.uid, defects |-> defects]  m == FromServer("initivexpand2", x)
    <2>4. x.uid = server.uid /\ m[2] = "initivexpand2" /\ m[3] = x
      BY ServerNames
    <2> HIDE DEF x, m
    <2>5. from_server = <<m>>
      BY <2>2 DEF x, m
    <2>6. Head(<<m>>) = m /\ Tail(<<m>>) = <<>>
      OBVIOUS
    <2> QED
      BY <2>1, <2>3, <2>4, <2>5, <2>6
  <1>2. CASE phase = "initserver"
    BY <1>2, ServerNames DEF IInv, AnswerPart
  <1>3. CASE phase = "connected"
    <2>1. from_server \in Seq(NewsItems)
      BY <1>3 DEF IInv, JoinedPart
    <2>2. Head(from_server) \in NewsItems /\ Tail(from_server) \in Seq(NewsItems)
      BY <2>1, HeadTailProperties
    <2> QED
      BY <1>3, <2>2, ServerNames
  <1> QED
    BY <1>1, <1>2, <1>3 DEF IInv, Typed, AckPart, Alive

\* initivexpand2: the keys are there, and clientek is sent.
LEMMA InitivexpandKeeps ==
  ASSUME IInv, GetInitivexpand2
  PROVE  IInv'
  <1>1. /\ Alive /\ from_server # <<>> /\ Head(from_server)[2] = "initivexpand2"
        /\ from_server' = Tail(from_server) /\ server' = server
    BY DEF GetInitivexpand2, ReceivesCommand
  <1>2. ASSUME Head(from_server)[3].defects # {} PROVE IInv'
    BY <1>1, <1>2, FailKeeps DEF GetInitivexpand2
  <1>3. ASSUME Head(from_server)[3].defects = {} PROVE IInv'
    <2>1. /\ phase = "initivexpand2" /\ server.phase = "keys"
          /\ Head(from_server)[3].uid = server.uid /\ Tail(from_server) = <<>>
      BY <1>1, FirstCommand
    <2>2. /\ init_queue' = init_queue \ {4} /\ params' = Keys(0)
          /\ cmd_queue' = cmd_queue \cup {"clientek"} /\ wire' = Sent(wire, Cmd("clientek"))
          /\ phase' = "ack" /\ resender' = resender /\ from_server' = <<>>
      BY <1>1, <1>3, <2>1 DEF GetInitivexpand2, SendCommand, Keys
    <2>3. init_queue' = {} /\ cmd_queue' = {"clientek"}
      BY <2>1, <2>2 DEF IInv, PuzzlePart, ExpandPart
    <2>4. Cmd("clientek") \in Datagrams
      BY DEF Datagrams, OwnCommands
    <2>5. WireTyped' /\ wire' \subseteq wire \cup {Cmd("clientek")}
      BY <2>2, <2>4, WireKeeps DEF IInv
    <2>6. Typed'
      BY <1>1, <2>2, <2>3 DEF IInv, Typed, OwnCommands
    <2>7. Keys(0)' = Keys(0) /\ KeysOfServer'
      BY <1>1, <2>2 DEF KeysOfServer, Keys
    <2>8. AckMeansReady'
      BY <1>1, <2>5, KindsDiffer DEF IInv, AckMeansReady
    <2>9. Cmd("clientinit") \notin wire'
      <3>1. Cmd("clientinit") \notin wire
        BY <2>1 DEF IInv, ExpandPart, OwnCommands
      <3>2. Cmd("clientinit") # Cmd("clientek")
        BY KindsDiffer
      <3> QED
        BY <2>5, <3>1, <3>2
    <2>10. AckPart'
      BY <1>1, <2>1, <2>2, <2>3, <2>7, <2>9 DEF AckPart
    <2> QED
      BY <2>2, <2>5, <2>6, <2>7, <2>8, <2>10
      DEF IInv, PuzzlePart, ExpandPart, AnswerPart, JoinedPart, FailedPart
  <1> QED
    BY <1>2, <1>3

\* wait_for_ack: the server has the keys and is the wanted one, or connect
\* fails.
LEMMA WaitForAckKeeps ==
  ASSUME IInv, NEW d \in Datagrams, NEW left \in {wire, wire \ {d}}, WaitForAck(d, left)
  PROVE  IInv'
  <1>1. /\ phase = "ack" /\ d \in wire /\ d[1] = "ack" /\ d[3] = "clientek"
        /\ UNCHANGED <<from_server, server>>
    BY DEF WaitForAck, ReceivesAck, Arrives
  <1>2. /\ init_queue = {} /\ params = Keys(0) /\ server.phase \in {"keys", "ready"}
        /\ from_server = <<>>
    BY <1>1 DEF IInv, AckPart
  <1>3. server.phase = "ready"
    <2>1. \E i \in 0 .. 2 : d = Ack(i, "clientek")
      <3>1. \E i \in 0 .. 2, n \in OwnCommands : d = Ack(i, n)
        BY <1>1, DatagramKinds, DatagramFacts
      <3> QED
        BY <1>1, <3>1, DatagramFacts
    <2> QED
      BY <1>1, <1>2, <2>1 DEF IInv, AckMeansReady
  <1> DEFINE other == \E p \in params : WantedUid \notin {NoUid, p.uid}
  <1>4. CASE other
    BY <1>1, <1>4, FailKeeps DEF WaitForAck
  <1>5. CASE ~other
    <2>1. Wanted
      BY <1>2, <1>5 DEF Keys, Wanted
    <2>2. /\ cmd_queue' = {"clientinit"} /\ wire' = Sent(left, Cmd("clientinit"))
          /\ phase' = "initserver" /\ UNCHANGED <<init_queue, params, resender>>
      BY <1>5 DEF WaitForAck
    <2>3. Cmd("clientinit") \in Datagrams /\ WireTyped
      BY DEF Datagrams, OwnCommands, IInv
    <2>4. WireTyped' /\ wire' \subseteq wire \cup {Cmd("clientinit")}
      BY <2>2, <2>3, WireKeeps
    <2>5. Typed'
      BY <1>1, <2>2 DEF IInv, Typed, OwnCommands
    <2>6. Keys(0)' = Keys(0) /\ KeysOfServer' /\ Wanted'
      BY <1>1, <1>2, <2>1, <2>2 DEF KeysOfServer, Keys, Wanted
    <2>7. AckMeansReady'
      BY <1>1, <1>3 DEF AckMeansReady
    <2>8. AnswerPart'
      BY <1>1, <1>2, <1>3, <2>2, <2>6 DEF AnswerPart
    <2> QED
      BY <2>2, <2>4, <2>5, <2>6, <2>7, <2>8
      DEF IInv, PuzzlePart, ExpandPart, AckPart, JoinedPart, FailedPart
  <1> QED
    BY <1>4, <1>5

\* initserver: the client is connected under the id that it was given.
LEMMA InitserverKeeps ==
  ASSUME IInv, GetInitserver
  PROVE  IInv'
  <1>1. /\ Alive /\ from_server # <<>> /\ Head(from_server)[2] = "initserver"
        /\ from_server' = Tail(from_server) /\ server' = server
    BY DEF GetInitserver, ReceivesCommand
  <1>2. /\ phase = "initserver" /\ server.phase = "joined" /\ Head(from_server) \in Verdicts
        /\ Tail(from_server) \in Seq(NewsItems)
    BY <1>1, FirstCommand
  <1>3. Head(from_server)[3] \in {0, 5}
    BY <1>1, <1>2, ServerNames
  <1>4. CASE Head(from_server)[3] = 0
    BY <1>1, <1>4, FailKeeps DEF GetInitserver
  <1>5. CASE Head(from_server)[3] = 5
    <2>1. /\ cmd_queue' = cmd_queue \ {"clientinit"}
          /\ params' = {[p EXCEPT !.c_id = 5] : p \in params}
          /\ resender' = "connected" /\ phase' = "connected"
          /\ UNCHANGED <<init_queue, wire>>
      BY <1>5 DEF GetInitserver
    <2>2. params = Keys(0) /\ init_queue = {} /\ Wanted
      BY <1>2 DEF IInv, AnswerPart
    <2>3. params' = Keys(5)
      BY <2>1, <2>2 DEF Keys
    <2>4. Keys(5)' = Keys(5) /\ KeysOfServer' /\ Wanted'
      BY <1>1, <2>2, <2>3 DEF KeysOfServer, Keys, Wanted
    <2>5. Typed' /\ WireTyped'
      BY <1>1, <2>1 DEF IInv, Typed, WireTyped
    <2>6. AckMeansReady'
      BY <1>1, <1>2 DEF AckMeansReady
    <2>7. JoinedPart'
      BY <1>1, <1>2, <2>1, <2>2, <2>3, <2>4 DEF JoinedPart
    <2> QED
      BY <2>1, <2>4, <2>5, <2>6, <2>7
      DEF IInv, PuzzlePart, ExpandPart, AckPart, AnswerPart, FailedPart
  <1> QED
    BY <1>3, <1>4, <1>5

\* notifyclientleftview
LEMMA HandleLeftKeeps ==
  ASSUME IInv, HandleLeft
  PROVE  IInv'
  <1>1. /\ Alive /\ from_server # <<>> /\ Head(from_server)[2] = "notifyclientleftview"
        /\ from_server' = Tail(from_server) /\ server' = server
        /\ UNCHANGED <<init_queue, cmd_queue, params, wire>>
        /\ \/ resender' = "disconnected" /\ phase' = "over"
           \/ resender' = resender /\ phase' = phase
    BY DEF HandleLeft, ReceivesCommand
  <1>2. phase = "connected" /\ Tail(from_server) \in Seq(NewsItems)
    BY <1>1, FirstCommand
  <1>3. Typed' /\ WireTyped'
    BY <1>1 DEF IInv, Typed, WireTyped
  <1>4. Keys(5)' = Keys(5) /\ KeysOfServer' /\ Wanted' = Wanted
    BY <1>1 DEF IInv, KeysOfServer, Keys, Wanted
  <1>5. AckMeansReady'
    BY <1>1 DEF IInv, AckMeansReady
  <1>6. JoinedPart'
    BY <1>1, <1>2, <1>4 DEF IInv, JoinedPart
  <1> QED
    BY <1>1, <1>2, <1>3, <1>4, <1>5, <1>6
    DEF IInv, PuzzlePart, ExpandPart, AckPart, AnswerPart, FailedPart

\* notifyplugincmd
LEMMA HandlePluginKeeps ==
  ASSUME IInv, HandlePluginCmd
  PROVE  IInv'
  <1>1. /\ Alive /\ from_server # <<>> /\ Head(from_server)[2] = "notifyplugincmd"
        /\ from_server' = Tail(from_server) /\ server' = server
        /\ UNCHANGED <<phase, init_queue, params, resender>>
        /\ \/ wire' = wire /\ cmd_queue' = cmd_queue
           \/ wire' = Sent(wire, Cmd("plugincmd")) /\ cmd_queue' = cmd_queue \cup {"plugincmd"}
    BY DEF HandlePluginCmd, ReceivesCommand, SendCommand
  <1>2. phase = "connected" /\ Tail(from_server) \in Seq(NewsItems)
    BY <1>1, FirstCommand
  <1>3. Typed'
    BY <1>1 DEF IInv, Typed, OwnCommands
  <1>4. WireTyped'
    <2>1. Cmd("plugincmd") \in Datagrams /\ WireTyped
      BY DEF Datagrams, OwnCommands, IInv
    <2> QED
      BY <1>1, <2>1, WireKeeps
  <1>5. Keys(5)' = Keys(5) /\ KeysOfServer' /\ Wanted' = Wanted
    BY <1>1 DEF IInv, KeysOfServer, Keys, Wanted
  <1>6. server.phase = "joined"
    BY <1>2 DEF IInv, JoinedPart
  <1>7. AckMeansReady'
    BY <1>1, <1>6 DEF AckMeansReady
  <1>8. JoinedPart'
    BY <1>1, <1>2, <1>5 DEF IInv, JoinedPart
  <1> QED
    BY <1>1, <1>2, <1>3, <1>4, <1>5, <1>7, <1>8
    DEF IInv, PuzzlePart, ExpandPart, AckPart, AnswerPart, FailedPart

-----------------------------------------------------------------------------
(* The server.                                                             *)

\* Init0 is answered with Init1.
LEMMA ServerInit0Keeps ==
  ASSUME IInv, NEW d, NEW left \in {wire, wire \ {d}}, ServerInit0(left)
  PROVE  IInv'
  <1>1. /\ UNCHANGED <<phase, params, resender, from_server, server, init_queue, cmd_queue>>
        /\ wire' = Sent(left, S2CInit(1, 0)) /\ C2SInit(0) \in wire
    BY DEF ServerInit0, ServerTakes, Arrives
  <1>2. S2CInit(1, 0) \in Datagrams /\ WireTyped
    BY DEF Datagrams, IInv
  <1>3. WireTyped' /\ wire' \subseteq wire \cup {S2CInit(1, 0)}
    BY <1>1, <1>2, WireKeeps
  <1>4. Typed' /\ phase # "failed"
    BY <1>1 DEF IInv, Typed, FailedPart
  <1> QED
    BY <1>1, <1>3, <1>4, KindsDiffer, QuietKeeps

\* Init2 is answered with Init3 or 127.
LEMMA ServerInit2Keeps ==
  ASSUME IInv, NEW d, NEW left \in {wire, wire \ {d}}, ServerInit2(left)
  PROVE  IInv'
  <1>1. /\ UNCHANGED <<phase, params, resender, from_server, init_queue, cmd_queue>>
        /\ C2SInit(2) \in wire
        /\ \/ (\E l \in Levels : wire' = Sent(left, S2CInit(3, l))) /\ server' = server
           \/ /\ server.restarts > 0
              /\ server' = [server EXCEPT !.restarts = @ - 1]
              /\ wire' = Sent(left, S2CInit(127, 0))
    BY DEF ServerInit2, ServerTakes, Arrives
  <1>2. PICK x : /\ x \in Datagrams /\ wire' = Sent(left, x)
                 /\ \E s, l : x = S2CInit(s, l)
    <2>1. S2CInit(127, 0) \in Datagrams /\ \A l \in Levels : S2CInit(3, l) \in Datagrams
      BY DEF Datagrams
    <2> QED
      BY <1>1, <2>1
  <1>3. WireTyped' /\ wire' \subseteq wire \cup {x}
    BY <1>2, WireKeeps DEF IInv
  <1>4. Typed' /\ server'.uid = server.uid /\ server'.phase = server.phase /\ phase # "failed"
    BY <1>1 DEF IInv, Typed, FailedPart
  <1>5. /\ x # C2SInit(4) /\ \A n : x # Cmd(n)
        /\ \A i, n : x # Ack(i, n)
    BY <1>2, KindsDiffer
  <1> QED
    BY <1>1, <1>3, <1>4, <1>5, QuietKeeps

\* The first Init4 is answered with initivexpand2.
LEMMA ServerInit4Keeps ==
  ASSUME IInv, NEW d, NEW left \in {wire, wire \ {d}}, ServerInit4(left)
  PROVE  IInv'
  <1>1. /\ UNCHANGED <<phase, params, resender, init_queue, cmd_queue>>
        /\ wire' = left /\ C2SInit(4) \in wire
    BY DEF ServerInit4, ServerTakes, Arrives
  <1>2. C2SInit(0) \in Datagrams /\ WireTyped
    BY DEF Datagrams, IInv
  <1>3. WireTyped' /\ wire' \subseteq wire
    BY <1>1, <1>2, WireKeeps
  <1>4. phase \notin {"failed", "init1", "init3"}
    BY <1>1 DEF IInv, FailedPart, PuzzlePart
  <1>5. CASE server.phase # "init"
    <2>1. UNCHANGED <<server, from_server>>
      BY <1>5 DEF ServerInit4
    <2>2. Typed' /\ wire' \subseteq wire \cup {C2SInit(0)}
      BY <1>1, <1>3, <2>1 DEF IInv, Typed
    <2> QED
      BY <1>1, <1>3, <1>4, <2>1, <2>2, KindsDiffer, QuietKeeps
  <1>6. CASE server.phase = "init"
    <2>1. phase = "initivexpand2"
      BY <1>4, <1>6 DEF IInv, Typed, AckPart, AnswerPart, JoinedPart
    <2>2. PICK defects \in {{}} \cup {{x} : x \in Defects} :
            /\ server' = [server EXCEPT !.phase = "keys"]
            /\ from_server' = <<FromServer("initivexpand2",
                                          [uid |-> server.uid, defects |-> defects])>>
      BY <1>6 DEF ServerInit4
    <2>3. Typed' /\ server'.phase = "keys" /\ server'.uid = server.uid
      BY <1>1, <2>2 DEF IInv, Typed, ServerPhases
    <2>4. KeysOfServer'
      BY <1>1, <2>3 DEF IInv, KeysOfServer, Keys
    <2>5. AckMeansReady'
      BY <1>3, <1>6 DEF IInv, AckMeansReady
    <2>6. ExpandPart'
      <3>1. params = {} /\ cmd_queue = {} /\ \A n \in OwnCommands : Cmd(n) \notin wire
        BY <2>1 DEF IInv, ExpandPart
      <3> QED
        BY <1>1, <1>3, <2>2, <2>3, <3>1 DEF ExpandPart
    <2>7. PuzzlePart'
      BY <1>1, <2>1 DEF IInv, PuzzlePart
    <2> QED
      BY <1>1, <1>3, <2>1, <2>3, <2>4, <2>5, <2>6, <2>7
      DEF IInv, AckPart, AnswerPart, JoinedPart, FailedPart
  <1> QED
    BY <1>5, <1>6

\* The server takes clientek, clientinit or a plugin command.
LEMMA ServerCommandKeeps ==
  ASSUME IInv, NEW d, NEW left \in {wire, wire \ {d}}, NEW name \in OwnCommands,
         ServerCommand(name, left)
  PROVE  IInv'
  <1>1. /\ UNCHANGED <<phase, params, resender, init_queue, cmd_queue>>
        /\ Cmd(name) \in wire
    BY DEF ServerCommand, ServerTakes, Arrives
  <1>2. /\ phase \in {"ack", "initserver", "connected", "over"}
        /\ server.phase \in {"keys", "ready", "joined"}
    BY <1>1 DEF IInv, Typed, ExpandPart, AckPart, AnswerPart, JoinedPart, FailedPart
  <1>3. CASE name = "clientinit" /\ server.phase = "keys"
    BY <1>1, <1>2, <1>3 DEF IInv, AckPart, AnswerPart, JoinedPart
  <1>4. CASE ~(name = "clientinit" /\ server.phase = "keys")
    <2> DEFINE ack == Ack(server.acks, name)
               next == IF name = "clientek" /\ server.phase = "keys" THEN "ready"
                       ELSE IF name = "clientinit" /\ server.phase = "ready" THEN "joined"
                       ELSE server.phase
    <2>1. /\ wire' = Sent(left, ack)
          /\ server' = [server EXCEPT !.acks = IF @ = 2 THEN 2 ELSE @ + 1, !.phase = next]
          /\ IF name = "clientinit" /\ server.phase = "ready"
             THEN \E answer \in Verdicts : from_server' = Append(from_server, answer)
             ELSE UNCHANGED from_server
      BY <1>4 DEF ServerCommand
    <2>2. /\ server \in [uid : ServerUids, phase : ServerPhases, acks : 0 .. 2, restarts : Nat]
          /\ server.acks \in 0 .. 2
      BY DEF IInv, Typed
    <2>3. ack \in Datagrams /\ WireTyped
      BY <2>2 DEF Datagrams, IInv
    <2>4. WireTyped' /\ wire' \subseteq wire \cup {ack}
      BY <2>1, <2>3, WireKeeps
    <2>5. server'.phase = next /\ server'.uid = server.uid
      BY <2>1, <2>2
    <2>6. Typed'
      <3>1. (IF server.acks = 2 THEN 2 ELSE server.acks + 1) \in 0 .. 2
        BY <2>2
      <3>2. next \in ServerPhases
        BY <1>2 DEF ServerPhases
      <3>3. server' \in [uid : ServerUids, phase : ServerPhases, acks : 0 .. 2, restarts : Nat]
        BY <2>1, <2>2, <3>1, <3>2
      <3> QED
        BY <1>1, <3>3 DEF IInv, Typed
    <2>7. /\ Keys(0)' = Keys(0) /\ Keys(5)' = Keys(5) /\ KeysOfServer' /\ Wanted' = Wanted
      BY <1>1, <2>5 DEF IInv, KeysOfServer, Keys, Wanted
    <2>8. AckMeansReady'
      <3>1. name = "clientek" => next \in {"ready", "joined"}
        BY <1>2
      <3>2. server.phase \in {"ready", "joined"} => next \in {"ready", "joined"}
        BY <1>2
      <3>3. \A i : Ack(i, "clientek") = ack => name = "clientek"
        BY KindsDiffer
      <3> HIDE DEF ack, next
      <3> QED
        BY <2>4, <2>5, <3>1, <3>2, <3>3 DEF IInv, AckMeansReady
    <2>9. AckPart'
      <3> SUFFICES ASSUME phase = "ack" PROVE AckPart'
        BY <1>1 DEF AckPart
      <3>1. /\ init_queue = {} /\ params = Keys(0) /\ cmd_queue \subseteq {"clientek"}
            /\ Cmd("clientinit") \notin wire
            /\ server.phase \in {"keys", "ready"} /\ from_server = <<>>
        BY DEF IInv, AckPart
      <3>2. name # "clientinit"
        BY <1>1, <3>1
      <3>3. next \in {"keys", "ready"} /\ from_server' = from_server
        BY <2>1, <3>1, <3>2
      <3>4. Cmd("clientinit") \notin wire'
        BY <2>4, <3>1, KindsDiffer
      <3> QED
        BY <1>1, <2>5, <2>7, <3>1, <3>3, <3>4 DEF AckPart
    <2>10. AnswerPart'
      <3> SUFFICES ASSUME phase = "initserver" PROVE AnswerPart'
        BY <1>1 DEF AnswerPart
      <3>1. /\ init_queue = {} /\ params = Keys(0) /\ Wanted
            /\ \/ server.phase = "ready" /\ from_server = <<>>
               \/ /\ server.phase = "joined" /\ from_server # <<>>
                  /\ from_server \in Seq(Verdicts \cup NewsItems)
                  /\ Head(from_server) \in Verdicts
                  /\ Tail(from_server) \in Seq(NewsItems)
        BY DEF IInv, AnswerPart
      <3>2. CASE name = "clientinit" /\ server.phase = "ready"
        <4>1. PICK answer \in Verdicts : from_server' = Append(from_server, answer)
          BY <2>1, <3>2
        <4>2. from_server' = <<answer>>
          BY <3>1, <3>2, <4>1
        <4>3. /\ <<answer>> # <<>> /\ Head(<<answer>>) = answer /\ Tail(<<answer>>) = <<>>
              /\ <<>> \in Seq(NewsItems) /\ <<answer>> \in Seq(Verdicts \cup NewsItems)
          OBVIOUS
        <4> QED
          BY <1>1, <2>5, <2>7, <3>1, <3>2, <4>2, <4>3 DEF AnswerPart
      <3>3. CASE ~(name = "clientinit" /\ server.phase = "ready")
        <4>1. from_server' = from_server /\ next = server.phase
          BY <2>1, <3>1, <3>3
        <4> QED
          BY <1>1, <2>5, <2>7, <3>1, <4>1 DEF AnswerPart
      <3> QED
        BY <3>2, <3>3
    <2>11. JoinedPart'
      <3> SUFFICES ASSUME phase \in {"connected", "over"} PROVE JoinedPart'
        BY <1>1 DEF JoinedPart
      <3>1. server.phase = "joined"
        BY DEF IInv, JoinedPart
      <3>2. from_server' = from_server /\ next = "joined"
        BY <2>1, <3>1
      <3> QED
        BY <1>1, <2>5, <2>7, <3>2 DEF IInv, JoinedPart
    <2> QED
      BY <1>1, <1>2, <2>4, <2>6, <2>7, <2>8, <2>9, <2>10, <2>11
      DEF IInv, PuzzlePart, ExpandPart, FailedPart
  <1> QED
    BY <1>3, <1>4

\* The server tells a client that has joined what happens.
LEMMA ServerNewsKeeps ==
  ASSUME IInv, ServerNews
  PROVE  IInv'
  <1>1. /\ UNCHANGED <<phase, init_queue, cmd_queue, params, resender, wire, server>>
        /\ server.phase = "joined"
        /\ \E m \in NewsItems : from_server' = Append(from_server, m)
    BY DEF ServerNews, NewsItems
  <1>2. PICK m \in NewsItems : from_server' = Append(from_server, m)
    BY <1>1
  <1>3. /\ Typed' /\ WireTyped' /\ KeysOfServer' /\ AckMeansReady' /\ Wanted' = Wanted
        /\ Keys(0)' = Keys(0) /\ Keys(5)' = Keys(5)
    BY <1>1 DEF IInv, Typed, WireTyped, KeysOfServer, Keys, AckMeansReady, Wanted
  <1>4. AnswerPart'
    <2> SUFFICES ASSUME phase = "initserver" PROVE AnswerPart'
      BY <1>1 DEF AnswerPart
    <2>1. /\ from_server # <<>> /\ Head(from_server) \in Verdicts
          /\ Tail(from_server) \in Seq(NewsItems)
      BY <1>1 DEF IInv, AnswerPart
    <2>2. from_server \in Seq(Verdicts \cup NewsItems)
      BY <1>1 DEF IInv, AnswerPart
    <2>3. /\ from_server' # <<>> /\ Head(from_server') = Head(from_server)
          /\ Tail(from_server') = Append(Tail(from_server), m)
          /\ from_server' \in Seq(Verdicts \cup NewsItems)
      BY <1>2, <2>1, <2>2
    <2> QED
      BY <1>1, <1>3, <2>1, <2>3 DEF IInv, AnswerPart
  <1>5. JoinedPart'
    BY <1>1, <1>2, <1>3 DEF IInv, JoinedPart
  <1> QED
    BY <1>1, <1>3, <1>4, <1>5 DEF IInv, PuzzlePart, ExpandPart, AckPart, FailedPart

-----------------------------------------------------------------------------
(* The theorems.                                                           *)

\* The invariant holds when Init0 has been sent.
LEMMA InitKeeps ==
  ASSUME Init PROVE IInv
  <1>1. /\ phase = "init1" /\ init_queue = {0} /\ cmd_queue = {} /\ params = {}
        /\ resender = "connecting" /\ wire = {C2SInit(0)} /\ from_server = <<>>
        /\ server \in [uid : ServerUids, phase : {"init"}, acks : {0}, restarts : {MaxRestarts}]
    BY DEF Init
  <1>2. Typed /\ server.phase = "init"
    BY <1>1, HandshakeAssumption DEF Typed, ServerPhases
  <1>3. WireTyped
    <2>1. IsFiniteSet({C2SInit(0)}) /\ Cardinality({C2SInit(0)}) = 1
      BY FS_Singleton
    <2>2. C2SInit(0) \in Datagrams
      BY DEF Datagrams
    <2> QED
      BY <1>1, <2>1, <2>2, HandshakeAssumption DEF WireTyped
  <1>4. KeysOfServer
    BY <1>1 DEF KeysOfServer
  <1>5. AckMeansReady /\ PuzzlePart /\ ExpandPart
    BY <1>1, <1>2, KindsDiffer DEF AckMeansReady, PuzzlePart, ExpandPart
  <1> QED
    BY <1>1, <1>2, <1>3, <1>4, <1>5 DEF IInv, AckPart, AnswerPart, JoinedPart, FailedPart

\* Every step of the client, the server and the network keeps it.
LEMMA NextKeeps ==
  ASSUME IInv, [Next]_vars PROVE IInv'
  <1>1. CASE HandleCommand
    <2>1. CASE GetError
      <3>1. (\E e : Fail(e)) /\ UNCHANGED server
        BY <2>1 DEF GetError, ReceivesCommand
      <3> QED
        BY <3>1, FailKeeps
    <2> QED
      BY <1>1, <2>1, InitivexpandKeeps, InitserverKeeps, HandleLeftKeeps, HandlePluginKeeps
      DEF HandleCommand
  <1>2. CASE Timeout \/ InitserverTimeout
    BY <1>2, FailKeeps DEF Timeout, InitserverTimeout
  <1>3. CASE ServerNews
    BY <1>3, ServerNewsKeeps
  <1>4. ASSUME NEW d \in Datagrams, HandlePacket(d) PROVE IInv'
    BY <1>4, SkipInitKeeps, GetInit1Keeps, StartAgainKeeps, GetInit3Keeps, WaitForAckKeeps,
       SkipAckKeeps DEF HandlePacket
  <1>5. ASSUME NEW d \in Datagrams, ServerStep(d) PROVE IInv'
    <2>1. PICK left \in {wire, wire \ {d}} :
            \/ ServerInit0(left) \/ ServerInit2(left) \/ ServerInit4(left)
            \/ d[1] = "command" /\ ServerCommand(d[2], left)
      BY <1>5 DEF ServerStep
    <2>2. ASSUME d[1] = "command", ServerCommand(d[2], left) PROVE IInv'
      <3>1. d[2] \in OwnCommands
        BY <2>2, DatagramKinds, DatagramFacts
      <3> QED
        BY <2>2, <3>1, ServerCommandKeeps
    <2> QED
      BY <2>1, <2>2, ServerInit0Keeps, ServerInit2Keeps, ServerInit4Keeps
  <1>6. ASSUME NEW d \in Datagrams, Resend(d) \/ Lose(d) PROVE IInv'
    BY <1>6, ResendKeeps, LoseKeeps
  <1>7. CASE UNCHANGED vars
    <2>1. UNCHANGED <<phase, init_queue, cmd_queue, params, resender, wire, from_server, server>>
      BY <1>7 DEF vars
    <2> QED
      BY <2>1 DEF IInv, Typed, WireTyped, KeysOfServer, Keys, AckMeansReady, PuzzlePart,
         ExpandPart, AckPart, AnswerPart, Wanted, JoinedPart, FailedPart
  <1> QED
    BY <1>1, <1>2, <1>3, <1>4, <1>5, <1>6, <1>7 DEF Next

\* The invariant of the handshake.
THEOREM HandshakeInvariant == Spec => []IInv
  <1>1. Init => IInv
    BY InitKeeps
  <1>2. IInv /\ [Next]_vars => IInv'
    BY NextKeeps
  <1> QED
    BY <1>1, <1>2, PTL DEF Spec

\* connect_to: clientinit is on the way only to a server that has the keys of
\* clientek, whatever is lost, repeated or reordered.
THEOREM ClientinitDecryptable == Spec => []ServerCanDecrypt
  <1>1. IInv => ServerCanDecrypt
    <2> SUFFICES ASSUME IInv, Cmd("clientinit") \in wire
                 PROVE  server.phase \in {"ready", "joined"}
      BY DEF ServerCanDecrypt
    <2>1. "clientinit" \in OwnCommands
      BY DEF OwnCommands
    <2>2. phase \in {"initserver", "connected", "over"}
      BY <2>1 DEF IInv, Typed, ExpandPart, AckPart, FailedPart
    <2> QED
      BY <2>2 DEF IInv, AnswerPart, JoinedPart
  <1> QED
    BY <1>1, HandshakeInvariant, PTL

\* connect_to: the password goes only to the server that the user named, and
\* whose license was checked.
THEOREM PasswordToWantedServer == Spec => []OnlyToWantedServer
  <1>1. IInv => OnlyToWantedServer
    <2> SUFFICES ASSUME IInv, Cmd("clientinit") \in wire, NEW p \in params
                 PROVE  WantedUid \in {NoUid, p.uid} /\ p.uid = server.uid
      BY DEF OnlyToWantedServer
    <2>1. "clientinit" \in OwnCommands
      BY DEF OwnCommands
    <2>2. phase \in {"initserver", "connected", "over"}
      BY <2>1 DEF IInv, Typed, ExpandPart, AckPart, FailedPart
    <2>3. Wanted
      BY <2>2 DEF IInv, AnswerPart, JoinedPart
    <2>4. p.uid = server.uid
      BY DEF IInv, KeysOfServer, Keys
    <2> QED
      BY <2>3, <2>4 DEF Wanted
  <1> QED
    BY <1>1, HandshakeInvariant, PTL

\* The types, no Init packet is left in the send queue once there are keys,
\* and a client that is connected has joined under the id it believes in.
THEOREM HandshakeIsSound == Spec => []HandshakeSound
  <1>1. IInv => HandshakeSound
    <2> SUFFICES ASSUME IInv PROVE HandshakeSound
      OBVIOUS
    <2>1. TypeOK
      <3>1. server.uid \in ServerUids
        BY DEF IInv, Typed
      <3>2. params \subseteq [uid : ServerUids, c_id : {0, 5}]
        BY <3>1 DEF IInv, KeysOfServer, Keys
      <3>3. Cardinality(params) <= 1
        <4>1. Cardinality({}) = 0 /\ Cardinality(Keys(0)) = 1 /\ Cardinality(Keys(5)) = 1
          BY FS_EmptySet, FS_Singleton DEF Keys
        <4> QED
          BY <4>1 DEF IInv, KeysOfServer
      <3> QED
        BY <3>2, <3>3 DEF IInv, Typed, WireTyped, TypeOK
    <2>2. InitsSettled
      BY DEF IInv, Typed, InitsSettled, ExpandPart, AckPart, AnswerPart, JoinedPart, FailedPart
    <2>3. ConnectedAgree
      BY DEF IInv, JoinedPart, Keys, ConnectedAgree
    <2> QED
      BY <2>1, <2>2, <2>3 DEF HandshakeSound
  <1> QED
    BY <1>1, HandshakeInvariant, PTL

-----------------------------------------------------------------------------
(* Numbers and recursion, for the parsers.                                 *)

\* A set of numbers has a smallest one.
LEMMA SmallestNumber ==
  ASSUME NEW S, S \subseteq Nat, S # {}
  PROVE  \E n \in S : \A m \in S : n <= m
  <1>1. PICK n \in S : \A m \in S : ~(<<m, n>> \in OpToRel(<, Nat))
    BY WFMin, NatLessThanWellFounded
  <1>2. \A m \in S : ~(m < n)
    BY <1>1 DEF OpToRel
  <1> QED
    BY <1>2

\* Induction up to a number.
LEMMA UpTo ==
  ASSUME NEW N \in Nat, NEW S, 0 \in S,
         \A n \in 1 .. N : n - 1 \in S => n \in S
  PROVE  0 .. N \subseteq S
  <1> DEFINE Bad == {n \in 0 .. N : n \notin S}
  <1>1. Bad \subseteq Nat
    OBVIOUS
  <1>2. ASSUME Bad # {} PROVE FALSE
    <2>1. PICK n \in Bad : \A m \in Bad : n <= m
      <3> HIDE DEF Bad
      <3> QED
        BY <1>1, <1>2, SmallestNumber
    <2>2. n \in 1 .. N /\ n - 1 \in 0 .. N /\ n \notin S
      BY <2>1
    <2>3. n - 1 \notin Bad
      BY <1>1, <2>1, <2>2
    <2> QED
      BY <2>2, <2>3
  <1> QED
    BY <1>2

\* A recursion over the numbers up to N has a solution, and so has one in
\* which a value depends on a later one.
Solves(f, N, b, g) == f[0] = b /\ \A n \in 1 .. N : f[n] = g[n][f[n - 1]]
SolvesDown(f, N, b, g, nx, S) ==
  \A i \in 1 .. N + 1 : f[i] = IF i \in S THEN b ELSE g[i][f[nx[i]]]

\* A function that is defined by recursion over the numbers up to N exists.
LEMMA Recursion ==
  ASSUME NEW N \in Nat, NEW D, NEW b \in D, NEW g \in [1 .. N -> [D -> D]]
  PROVE  \E f \in [0 .. N -> D] : Solves(f, N, b, g)
  <1> DEFINE Fits(f, k) == f[0] = b /\ \A n \in 1 .. k : f[n] = g[n][f[n - 1]]
             S == {k \in 0 .. N : \E f \in [0 .. k -> D] : Fits(f, k)}
  <1>1. 0 \in S
    <2>1. [n \in 0 .. 0 |-> b] \in [0 .. 0 -> D]
      OBVIOUS
    <2>2. Fits([n \in 0 .. 0 |-> b], 0)
      OBVIOUS
    <2>3. \E f \in [0 .. 0 -> D] : Fits(f, 0)
      <3> HIDE DEF Fits
      <3> QED
        BY <2>1, <2>2
    <2>4. 0 \in 0 .. N
      OBVIOUS
    <2> HIDE DEF Fits
    <2> QED
      BY <2>3, <2>4
  <1>2. ASSUME NEW k \in 1 .. N, k - 1 \in S PROVE k \in S
    <2>1. PICK f \in [0 .. k - 1 -> D] : Fits(f, k - 1)
      BY <1>2
    <2> DEFINE h == [n \in 0 .. k |-> IF n = k THEN g[k][f[k - 1]] ELSE f[n]]
    <2>2. f[k - 1] \in D
      OBVIOUS
    <2>3. g[k][f[k - 1]] \in D
      BY <2>2
    <2>4. h \in [0 .. k -> D]
      BY <2>3
    <2>5. ASSUME NEW n \in 1 .. k PROVE h[n] = g[n][h[n - 1]]
      <3>1. n - 1 \in 0 .. k /\ n - 1 # k /\ n \in 0 .. k
        OBVIOUS
      <3>2. h[n - 1] = f[n - 1]
        BY <3>1
      <3>3. CASE n = k
        BY <3>1, <3>2, <3>3
      <3>4. CASE n # k
        <4>1. n \in 1 .. k - 1 /\ h[n] = f[n]
          BY <3>1, <3>4
        <4> QED
          BY <2>1, <3>2, <4>1
      <3> QED
        BY <3>3, <3>4
    <2>6. h[0] = b
      BY <2>1
    <2> HIDE DEF h
    <2> QED
      BY <2>4, <2>5, <2>6
  <1>3. N \in S
    <2> HIDE DEF S
    <2>1. 0 .. N \subseteq S
      BY <1>1, <1>2, UpTo
    <2> QED
      BY <2>1
  <1>4. PICK f \in [0 .. N -> D] : Fits(f, N)
    BY <1>3
  <1> QED
    BY <1>4 DEF Solves

\* The same for one that goes up: a value depends on one at a later place.
LEMMA RecursionDown ==
  ASSUME NEW N \in Nat, NEW D, NEW b \in D, NEW g \in [1 .. N -> [D -> D]],
         NEW nx, NEW S, \A i \in 1 .. N + 1 : i \notin S => i # N + 1 /\ nx[i] \in i + 1 .. N + 1
  PROVE  \E f \in [1 .. N + 1 -> D] : SolvesDown(f, N, b, g, nx, S)
  <1> DEFINE Fits(f, k) == \A i \in N + 1 - k .. N + 1 : f[i] = IF i \in S THEN b ELSE g[i][f[nx[i]]]
             T == {k \in 0 .. N : \E f \in [N + 1 - k .. N + 1 -> D] : Fits(f, k)}
  <1>1. 0 \in T
    <2>1. [n \in N + 1 .. N + 1 |-> b] \in [N + 1 - 0 .. N + 1 -> D]
      OBVIOUS
    <2>2. N + 1 \in S
      OBVIOUS
    <2>3. Fits([n \in N + 1 .. N + 1 |-> b], 0)
      BY <2>2
    <2>4. \E f \in [N + 1 - 0 .. N + 1 -> D] : Fits(f, 0)
      <3> HIDE DEF Fits
      <3> QED
        BY <2>1, <2>3
    <2>5. 0 \in 0 .. N
      OBVIOUS
    <2> HIDE DEF Fits
    <2> QED
      BY <2>4, <2>5
  <1>2. ASSUME NEW k \in 1 .. N, k - 1 \in T PROVE k \in T
    <2>0. PICK m \in Nat : m = N + 1 - k
      OBVIOUS
    <2>1. PICK f \in [m + 1 .. N + 1 -> D] : Fits(f, k - 1)
      <3>1. N + 1 - (k - 1) = m + 1
        BY <2>0
      <3> QED
        BY <1>2, <3>1
    <2> DEFINE v == IF m \in S THEN b ELSE g[m][f[nx[m]]]
               h == [n \in m .. N + 1 |-> IF n = m THEN v ELSE f[n]]
    <2>2. m \in 1 .. N
      BY <2>0
    <2>3. v \in D
      <3>1. CASE m \in S
        BY <3>1
      <3>2. CASE m \notin S
        <4>1. f[nx[m]] \in D
          BY <2>2, <3>2
        <4> QED
          BY <2>2, <3>2, <4>1
      <3> QED
        BY <3>1, <3>2
    <2>4. h \in [m .. N + 1 -> D]
      <3> HIDE DEF v
      <3> QED
        BY <2>2, <2>3
    <2>5. ASSUME NEW i \in m .. N + 1 PROVE h[i] = IF i \in S THEN b ELSE g[i][h[nx[i]]]
      <3>1. i \notin S => nx[i] \in m .. N + 1 /\ nx[i] # m
        BY <2>2
      <3>2. i \notin S => h[nx[i]] = f[nx[i]]
        BY <3>1
      <3>3. CASE i = m
        BY <3>2, <3>3
      <3>4. CASE i # m
        <4>1. i \in N + 1 - (k - 1) .. N + 1 /\ h[i] = f[i]
          BY <2>0, <3>4
        <4> QED
          BY <2>1, <3>2, <4>1
      <3> QED
        BY <3>3, <3>4
    <2> HIDE DEF h
    <2> QED
      BY <2>0, <2>4, <2>5
  <1>3. N \in T
    <2> HIDE DEF T
    <2>1. 0 .. N \subseteq T
      BY <1>1, <1>2, UpTo
    <2> QED
      BY <2>1
  <1>4. PICK f \in [1 .. N + 1 -> D] : Fits(f, N)
    <2>1. N + 1 - N = 1
      OBVIOUS
    <2> QED
      BY <1>3, <2>1
  <1>5. \A i \in 1 .. N + 1 : f[i] = IF i \in S THEN b ELSE g[i][f[nx[i]]]
    <2>1. N + 1 - N = 1
      OBVIOUS
    <2> QED
      BY <1>4, <2>1
  <1> QED
    BY <1>5 DEF SolvesDown

-----------------------------------------------------------------------------
(* Escaped values.                                                         *)

CONSTANT Others     \* any characters that mean nothing to the parser

Separators == Whitespace \cup {Pipe}
Chars == Separators \cup {Equals, Slash, Escape, "_", "s", "p", "t", "n", "a", "c", "d", "k"}
           \cup Others
Text == Seq(Chars)

\* The characters with a meaning.
LEMMA CharsFacts ==
  /\ \A c \in {Space, Pipe, Equals, Slash, Escape, "_", "s", "p", "t", "n", "a", "c", "d", "k"} : c \in Chars
  /\ {"tab", "newline"} \subseteq Chars
  BY DEF Chars, Separators, Whitespace

\* The character that a letter stands for.
Unletter(c) == IF \E d \in DOMAIN Letters : Letters[d] = c
               THEN CHOOSE d \in DOMAIN Letters : Letters[d] = c ELSE c

\* What stands for the whitespace that is escaped.
LEMMA LetterFacts ==
  /\ DOMAIN Letters = {" ", "|", "tab", "newline"}
  /\ Letters[" "] = "s" /\ Letters["|"] = "p" /\ Letters["tab"] = "t" /\ Letters["newline"] = "n"
  BY DEF Letters, Space, Pipe

\* unescape gives back the character, and what is written for it separates
\* nothing.
LEMMA EscapedCharFacts ==
  ASSUME NEW c \in Chars
  PROVE  \/ EscapedChar(c) = <<c>> /\ c # Escape /\ c \notin Separators
         \/ \E e \in Chars \ Separators :
              EscapedChar(c) = <<Escape, e>> /\ Unletter(e) = c
  <1>1. CASE c \in DOMAIN Letters
    <2>1. Letters[c] \in {"s", "p", "t", "n"}
      BY <1>1, LetterFacts
    <2>2. \A d \in DOMAIN Letters : Letters[d] = Letters[c] => d = c
      BY <1>1, LetterFacts
    <2>3. Unletter(Letters[c]) = c
      BY <1>1, <2>2 DEF Unletter
    <2>4. Letters[c] \in Chars \ Separators
      BY <2>1, CharsFacts DEF Separators, Whitespace, Space, Pipe
    <2>5. EscapedChar(c) = <<Escape, Letters[c]>>
      BY <1>1 DEF EscapedChar
    <2> QED
      BY <2>3, <2>4, <2>5
  <1>2. CASE c \in {Escape, Slash}
    <2>1. c \notin DOMAIN Letters /\ \A d \in DOMAIN Letters : Letters[d] # c
      BY <1>2, LetterFacts DEF Escape, Slash
    <2>2. Unletter(c) = c
      BY <2>1 DEF Unletter
    <2>3. c \in Chars \ Separators
      BY <1>2 DEF Separators, Whitespace, Space, Pipe, Escape, Slash
    <2>4. EscapedChar(c) = <<Escape, c>>
      BY <1>2, <2>1 DEF EscapedChar
    <2> QED
      BY <2>2, <2>3, <2>4
  <1>3. CASE c \notin DOMAIN Letters /\ c \notin {Escape, Slash}
    BY <1>3, LetterFacts DEF EscapedChar, Separators, Whitespace, Space, Pipe
  <1> QED
    BY <1>1, <1>2, <1>3

\* An escaped character is text.
LEMMA EscapedCharText ==
  ASSUME NEW c \in Chars
  PROVE  EscapedChar(c) \in Text
  <1>1. Escape \in Chars
    BY CharsFacts
  <1>2. EscapedChar(c) = <<c>> \/ \E e \in Chars : EscapedChar(c) = <<Escape, e>>
    BY EscapedCharFacts
  <1>3. CASE EscapedChar(c) = <<c>>
    BY <1>3 DEF Text
  <1>4. CASE \E e \in Chars : EscapedChar(c) = <<Escape, e>>
    <2>1. PICK e \in Chars : EscapedChar(c) = <<Escape, e>>
      BY <1>4
    <2>2. <<Escape, e>> \in Seq(Chars)
      BY <1>1
    <2> QED
      BY <2>1, <2>2 DEF Text
  <1> QED
    BY <1>2, <1>3, <1>4

\* Escaped, character by character.
LEMMA EscapedSteps ==
  ASSUME NEW v \in Text
  PROVE  \E t \in [0 .. Len(v) -> Text] :
           /\ t[0] = <<>> /\ \A n \in 1 .. Len(v) : t[n] = t[n - 1] \o EscapedChar(v[n])
           /\ Escaped(v) = t[Len(v)]
  <1> DEFINE g == [n \in 1 .. Len(v) |-> [x \in Text |-> x \o EscapedChar(v[n])]]
             Body(f) == [n \in 0 .. Len(v) |-> IF n = 0 THEN <<>> ELSE f[n - 1] \o EscapedChar(v[n])]
             t == CHOOSE f : f = Body(f)
  <1>1. Len(v) \in Nat /\ <<>> \in Text
    BY DEF Text
  <1>2. \A n \in 1 .. Len(v) : \A x \in Text : x \o EscapedChar(v[n]) \in Text
    BY EscapedCharText DEF Text
  <1>3. g \in [1 .. Len(v) -> [Text -> Text]]
    BY <1>2
  <1>4. PICK f \in [0 .. Len(v) -> Text] :
          f[0] = <<>> /\ \A n \in 1 .. Len(v) : f[n] = g[n][f[n - 1]]
    <2>1. PICK N \in Nat : N = Len(v)
      BY <1>1
    <2>2. PICK b \in Text : b = <<>>
      BY <1>1
    <2>3. PICK h \in [1 .. N -> [Text -> Text]] : h = g
      BY <1>3, <2>1
    <2>4. \E f \in [0 .. N -> Text] : Solves(f, N, b, h)
      BY Recursion
    <2> HIDE DEF g
    <2> QED
      BY <2>1, <2>2, <2>3, <2>4 DEF Solves
  <1>5. f = Body(f)
    <2>1. \A n \in 1 .. Len(v) : f[n - 1] \in Text
      BY <1>1
    <2>2. \A n \in 1 .. Len(v) : g[n][f[n - 1]] = f[n - 1] \o EscapedChar(v[n])
      BY <2>1
    <2>3. \A n \in 0 .. Len(v) : f[n] = IF n = 0 THEN <<>> ELSE f[n - 1] \o EscapedChar(v[n])
      <3>1. \A n \in 0 .. Len(v) : n = 0 \/ n \in 1 .. Len(v)
        BY <1>1
      <3> HIDE DEF g
      <3> QED
        BY <1>4, <2>2, <3>1
    <2> QED
      BY <2>3
  <1>6. t = Body(t)
    BY <1>5
  <1>7. Escaped(v) = t[Len(v)]
    BY DEF Escaped
  <1> HIDE DEF t
  <1>8. t[0] = <<>> /\ \A n \in 1 .. Len(v) : t[n] = t[n - 1] \o EscapedChar(v[n])
    BY <1>1, <1>6
  <1>9. \A n \in 0 .. Len(v) : t[n] \in Text
    <2> DEFINE S == {n \in 0 .. Len(v) : t[n] \in Text}
    <2>1. 0 \in S
      BY <1>1, <1>8
    <2>2. ASSUME NEW n \in 1 .. Len(v), n - 1 \in S PROVE n \in S
      <3>1. t[n - 1] \in Text /\ t[n - 1] \o EscapedChar(v[n]) \in Text
        BY <1>2, <2>2
      <3> QED
        BY <1>1, <1>8, <3>1
    <2>3. 0 .. Len(v) \subseteq S
      <3> HIDE DEF S
      <3> QED
        BY <1>1, <2>1, <2>2, UpTo
    <2> QED
      BY <2>3
  <1> QED
    BY <1>6, <1>7, <1>8, <1>9

\* No value can end its argument: what is escaped has no separator.
LEMMA EscapedSafe ==
  ASSUME NEW v \in Text
  PROVE  /\ Escaped(v) \in Text /\ (v # <<>> => Escaped(v) # <<>>)
         /\ \A i \in 1 .. Len(Escaped(v)) : Escaped(v)[i] \notin Separators
  <1>1. PICK t \in [0 .. Len(v) -> Text] :
           /\ t[0] = <<>> /\ \A n \in 1 .. Len(v) : t[n] = t[n - 1] \o EscapedChar(v[n])
           /\ Escaped(v) = t[Len(v)]
    BY EscapedSteps
  <1> DEFINE Safe(x) == \A i \in 1 .. Len(x) : x[i] \notin Separators
             S == {n \in 0 .. Len(v) : Safe(t[n]) /\ (n > 0 => t[n] # <<>>)}
  <1>2. Len(v) \in Nat /\ (v # <<>> => Len(v) > 0)
    BY EmptySeq DEF Text
  <1>3. 0 \in S
    BY <1>1, <1>2
  <1>4. ASSUME NEW n \in 1 .. Len(v), n - 1 \in S PROVE n \in S
    <2>1. v[n] \in Chars
      BY DEF Text
    <2>2. PICK c : c = EscapedChar(v[n])
      OBVIOUS
    <2>3. c \in Text /\ c # <<>> /\ Safe(c)
      <3>1. Escape \notin Separators
        BY DEF Escape, Separators, Whitespace, Space, Pipe
      <3>2. (c = <<v[n]>> /\ v[n] \notin Separators) \/ \E e : e \notin Separators /\ c = <<Escape, e>>
        BY <2>1, <2>2, EscapedCharFacts
      <3>3. c # <<>> /\ Safe(c)
        <4> HIDE DEF Separators
        <4> QED
          BY <3>1, <3>2
      <3> QED
        BY <2>1, <2>2, <3>3, EscapedCharText
    <2>4. t[n] = t[n - 1] \o c /\ t[n - 1] \in Text /\ Safe(t[n - 1])
      BY <1>1, <1>2, <1>4, <2>2
    <2>5. Safe(t[n]) /\ t[n] # <<>>
      <3>1. PICK a \in Text : a = t[n - 1]
        BY <2>4
      <3>2. /\ Len(a \o c) = Len(a) + Len(c)
            /\ \A i \in 1 .. Len(a) + Len(c) :
                 (a \o c)[i] = IF i <= Len(a) THEN a[i] ELSE c[i - Len(a)]
        BY <2>3, <3>1, ConcatProperties DEF Text
      <3>3. Len(a) \in Nat /\ Len(c) \in Nat /\ Len(c) > 0
        BY <2>3, <3>1, EmptySeq DEF Text
      <3>4. \A i \in 1 .. Len(a) + Len(c) :
              i \in 1 .. Len(a) \/ (~(i <= Len(a)) /\ i - Len(a) \in 1 .. Len(c))
        BY <3>3
      <3> QED
        BY <2>3, <2>4, <3>1, <3>2, <3>3, <3>4
    <2> QED
      BY <2>5
  <1>5. Len(v) \in S
    <2> HIDE DEF S
    <2>1. 0 .. Len(v) \subseteq S
      BY <1>2, <1>3, <1>4, UpTo
    <2> QED
      BY <1>2, <2>1
  <1> QED
    BY <1>1, <1>2, <1>5

\* unescape of one character.
Reading == [escape : BOOLEAN, out : Text]

\* How one character of an escaped value is read.
LEMMA UnescapedCharFacts ==
  ASSUME NEW acc \in Reading, NEW c \in Chars
  PROVE  /\ UnescapedChar(acc, c) \in Reading
         /\ acc.escape => UnescapedChar(acc, c) = [escape |-> FALSE, out |-> Append(acc.out, Unletter(c))]
         /\ (~acc.escape /\ c = Escape) => UnescapedChar(acc, c) = [escape |-> TRUE, out |-> acc.out]
         /\ (~acc.escape /\ c # Escape) =>
              UnescapedChar(acc, c) = [escape |-> FALSE, out |-> Append(acc.out, c)]
  <1>1. Unletter(c) \in Chars
    <2>1. \A d \in DOMAIN Letters : d \in Chars
      BY LetterFacts, CharsFacts DEF Space, Pipe
    <2> QED
      BY <2>1 DEF Unletter
  <1>2. acc = [escape |-> acc.escape, out |-> acc.out] /\ acc.escape \in BOOLEAN /\ acc.out \in Text
    BY DEF Reading
  <1>3. Append(acc.out, Unletter(c)) \in Text /\ Append(acc.out, c) \in Text
    BY <1>1, <1>2 DEF Text
  <1>4. CASE acc.escape
    <2>1. UnescapedChar(acc, c) = [escape |-> FALSE, out |-> Append(acc.out, Unletter(c))]
      BY <1>4 DEF UnescapedChar, Unletter
    <2> QED
      BY <1>3, <1>4, <2>1 DEF Reading
  <1>5. CASE ~acc.escape /\ c = Escape
    <2>1. UnescapedChar(acc, c) = [escape |-> TRUE, out |-> acc.out]
      BY <1>2, <1>5 DEF UnescapedChar
    <2> QED
      BY <1>2, <1>5, <2>1 DEF Reading
  <1>6. CASE ~acc.escape /\ c # Escape
    <2>1. UnescapedChar(acc, c) = [escape |-> FALSE, out |-> Append(acc.out, c)]
      BY <1>2, <1>6 DEF UnescapedChar
    <2> QED
      BY <1>3, <1>6, <2>1 DEF Reading
  <1> QED
    BY <1>4, <1>5, <1>6

\* Unescaped, character by character.
LEMMA UnescapedSteps ==
  ASSUME NEW raw \in Text
  PROVE  \E r \in [0 .. Len(raw) -> Reading] :
           /\ r[0] = [escape |-> FALSE, out |-> <<>>]
           /\ \A n \in 1 .. Len(raw) : r[n] = UnescapedChar(r[n - 1], raw[n])
           /\ Unescaped(raw) = r[Len(raw)].out
  <1> DEFINE start == [escape |-> FALSE, out |-> <<>>]
             g == [n \in 1 .. Len(raw) |-> [x \in Reading |-> UnescapedChar(x, raw[n])]]
             Body(f) == [n \in 0 .. Len(raw) |-> IF n = 0 THEN start ELSE UnescapedChar(f[n - 1], raw[n])]
             t == CHOOSE f : f = Body(f)
  <1>1. Len(raw) \in Nat /\ start \in Reading
    BY DEF Text, Reading
  <1>2. \A n \in 1 .. Len(raw) : \A x \in Reading : UnescapedChar(x, raw[n]) \in Reading
    <2>1. \A n \in 1 .. Len(raw) : raw[n] \in Chars
      BY DEF Text
    <2> QED
      BY <2>1, UnescapedCharFacts
  <1>3. g \in [1 .. Len(raw) -> [Reading -> Reading]]
    BY <1>2
  <1> HIDE DEF start
  <1>4. PICK f \in [0 .. Len(raw) -> Reading] :
          f[0] = start /\ \A n \in 1 .. Len(raw) : f[n] = g[n][f[n - 1]]
    <2>1. PICK N \in Nat : N = Len(raw)
      BY <1>1
    <2>2. PICK b \in Reading : b = start
      BY <1>1
    <2>3. PICK h \in [1 .. N -> [Reading -> Reading]] : h = g
      BY <1>3, <2>1
    <2>4. \E f \in [0 .. N -> Reading] : Solves(f, N, b, h)
      BY Recursion
    <2> HIDE DEF g
    <2> QED
      BY <2>1, <2>2, <2>3, <2>4 DEF Solves
  <1>5. f = Body(f)
    <2>1. \A n \in 1 .. Len(raw) : f[n - 1] \in Reading
      BY <1>1
    <2>2. \A n \in 1 .. Len(raw) : g[n][f[n - 1]] = UnescapedChar(f[n - 1], raw[n])
      BY <2>1
    <2>3. \A n \in 0 .. Len(raw) : f[n] = IF n = 0 THEN start ELSE UnescapedChar(f[n - 1], raw[n])
      <3>1. \A n \in 0 .. Len(raw) : n = 0 \/ n \in 1 .. Len(raw)
        BY <1>1
      <3> HIDE DEF g
      <3> QED
        BY <1>4, <2>2, <3>1
    <2> QED
      BY <2>3
  <1>6. t = Body(t)
    BY <1>5
  <1>7. Unescaped(raw) = t[Len(raw)].out
    BY DEF Unescaped, start
  <1> HIDE DEF t
  <1>8. t[0] = start /\ \A n \in 1 .. Len(raw) : t[n] = UnescapedChar(t[n - 1], raw[n])
    BY <1>1, <1>6
  <1>9. \A n \in 0 .. Len(raw) : t[n] \in Reading
    <2> DEFINE S == {n \in 0 .. Len(raw) : t[n] \in Reading}
    <2>1. 0 \in S
      BY <1>1, <1>8
    <2>2. ASSUME NEW n \in 1 .. Len(raw), n - 1 \in S PROVE n \in S
      <3>1. t[n - 1] \in Reading /\ UnescapedChar(t[n - 1], raw[n]) \in Reading
        BY <1>2, <2>2
      <3> QED
        BY <1>1, <1>8, <3>1
    <2>3. 0 .. Len(raw) \subseteq S
      <3> HIDE DEF S
      <3> QED
        BY <1>1, <2>1, <2>2, UpTo
    <2> QED
      BY <2>3
  <1> QED
    BY <1>6, <1>7, <1>8, <1>9 DEF start

\* The beginning of a text, and one more character.
LEMMA OneMore ==
  ASSUME NEW S, NEW v \in Seq(S), NEW k \in 1 .. Len(v)
  PROVE  Append(SubSeq(v, 1, k - 1), v[k]) = SubSeq(v, 1, k)
  <1>1. PICK a : a = SubSeq(v, 1, k - 1)
    OBVIOUS
  <1>2. PICK b : b = SubSeq(v, 1, k)
    OBVIOUS
  <1>3. k - 1 \in Nat /\ k - 1 <= Len(v) /\ Len(v) \in Nat
    OBVIOUS
  <1>4. a \in Seq(S) /\ Len(a) = k - 1 /\ \A i \in 1 .. k - 1 : a[i] = v[i]
    BY <1>1, <1>3
  <1>5. b \in Seq(S) /\ Len(b) = k /\ \A i \in 1 .. k : b[i] = v[i]
    BY <1>2, <1>3
  <1>6. v[k] \in S
    OBVIOUS
  <1>7. PICK d : d = Append(a, v[k])
    OBVIOUS
  <1>8. d \in Seq(S) /\ Len(d) = k /\ d[k] = v[k] /\ \A i \in 1 .. k - 1 : d[i] = a[i]
    BY <1>3, <1>4, <1>6, <1>7
  <1>9. \A i \in 1 .. k : d[i] = b[i]
    BY <1>3, <1>4, <1>5, <1>8
  <1>10. d = b
    BY <1>5, <1>8, <1>9, SeqEqual
  <1> QED
    BY <1>1, <1>2, <1>7, <1>10

\* a is how t begins.
Begins(a, t) == \E b \in Text : t = a \o b

\* Texts can be written one after the other.
LEMMA TextAfterText ==
  ASSUME NEW x \in Text, NEW y \in Text, NEW z \in Text
  PROVE  (x \o y) \o z = x \o (y \o z)
  <1>1. PICK S : S = Chars
    OBVIOUS
  <1>2. x \in Seq(S) /\ y \in Seq(S) /\ z \in Seq(S)
    BY <1>1 DEF Text
  <1> QED
    BY <1>2, ConcatAssociative

\* The characters of two texts written one after the other.
LEMMA TwoTexts ==
  ASSUME NEW x \in Text, NEW y \in Text
  PROVE  /\ Len(x \o y) = Len(x) + Len(y)
         /\ \A i \in 1 .. Len(y) : (x \o y)[Len(x) + i] = y[i]
  <1>1. PICK S : S = Chars
    OBVIOUS
  <1>2. x \in Seq(S) /\ y \in Seq(S)
    BY <1>1 DEF Text
  <1> QED
    BY <1>2, ConcatProperties

\* A text that begins with another one has its characters.
LEMMA BeginsFacts ==
  ASSUME NEW a \in Text, NEW t \in Text, Begins(a, t)
  PROVE  Len(a) <= Len(t) /\ \A i \in 1 .. Len(a) : t[i] = a[i]
  BY ConcatProperties DEF Begins, Text

\* Beginnings of a beginning.
LEMMA BeginsTransitive ==
  ASSUME NEW a \in Text, NEW b \in Text, NEW t \in Text, Begins(a, b), Begins(b, t)
  PROVE  Begins(a, t)
  <1>1. PICK x \in Text : b = a \o x
    BY DEF Begins
  <1>2. PICK y \in Text : t = b \o y
    BY DEF Begins
  <1>3. t = a \o (x \o y)
    BY <1>1, <1>2, ConcatAssociative DEF Text
  <1>4. x \o y \in Text
    BY DEF Text
  <1> QED
    BY <1>3, <1>4 DEF Begins

\* A text begins with itself.
LEMMA BeginsSelf ==
  ASSUME NEW a \in Text
  PROVE  Begins(a, a)
  <1>1. a = a \o <<>> /\ <<>> \in Text
    BY ConcatEmptySeq DEF Text
  <1> QED
    BY <1>1 DEF Begins

\* Texts that grow: all of them are how the last one begins.
LEMMA BeginsLast ==
  ASSUME NEW N \in Nat, NEW t \in [0 .. N -> Text], \A n \in 1 .. N : Begins(t[n - 1], t[n])
  PROVE  \A n \in 0 .. N : Begins(t[n], t[N])
  <1> DEFINE S == {j \in 0 .. N : Begins(t[N - j], t[N])}
  <1>1. 0 \in S
    <2>1. t[N] \in Text /\ N - 0 = N
      OBVIOUS
    <2> QED
      BY <2>1, BeginsSelf
  <1>2. ASSUME NEW j \in 1 .. N, j - 1 \in S PROVE j \in S
    <2>1. PICK n \in 1 .. N : n = N - j + 1
      OBVIOUS
    <2>2. N - (j - 1) = n /\ N - j = n - 1
      BY <2>1
    <2>3. Begins(t[n], t[N]) /\ Begins(t[n - 1], t[n])
      BY <1>2, <2>2
    <2>4. t[n] \in Text /\ t[n - 1] \in Text /\ t[N] \in Text
      BY <2>1
    <2> QED
      BY <2>2, <2>3, <2>4, BeginsTransitive
  <1>3. 0 .. N \subseteq S
    <2> HIDE DEF S
    <2> QED
      BY <1>1, <1>2, UpTo
  <1>4. ASSUME NEW n \in 0 .. N PROVE Begins(t[n], t[N])
    <2>1. N - n \in 0 .. N /\ N - (N - n) = n
      OBVIOUS
    <2>2. N - n \in S
      <3> HIDE DEF S
      <3> QED
        BY <1>3, <2>1
    <2> QED
      BY <2>1, <2>2
  <1> QED
    BY <1>4

\* unescape undoes EscapedWriter, whatever the value is.
LEMMA ReadBackValue ==
  ASSUME NEW v \in Text
  PROVE  Unescaped(Escaped(v)) = v
  <1>1. PICK t \in [0 .. Len(v) -> Text] :
           /\ t[0] = <<>> /\ \A n \in 1 .. Len(v) : t[n] = t[n - 1] \o EscapedChar(v[n])
           /\ Escaped(v) = t[Len(v)]
    BY EscapedSteps
  <1>2. Len(v) \in Nat /\ \A n \in 1 .. Len(v) : v[n] \in Chars
    BY DEF Text
  <1>3. PICK raw \in Text : raw = Escaped(v)
    BY EscapedSafe
  <1>4. PICK r \in [0 .. Len(raw) -> Reading] :
           /\ r[0] = [escape |-> FALSE, out |-> <<>>]
           /\ \A n \in 1 .. Len(raw) : r[n] = UnescapedChar(r[n - 1], raw[n])
           /\ Unescaped(raw) = r[Len(raw)].out
    BY UnescapedSteps
  <1>5. \A n \in 0 .. Len(v) : Begins(t[n], raw)
    <2>1. \A n \in 1 .. Len(v) : Begins(t[n - 1], t[n])
      BY <1>1, <1>2, EscapedCharText DEF Begins
    <2> QED
      BY <1>1, <1>2, <1>3, <2>1, BeginsLast
  <1> DEFINE S == {n \in 0 .. Len(v) : r[Len(t[n])] = [escape |-> FALSE, out |-> SubSeq(v, 1, n)]}
  <1>6. 0 \in S
    <2>1. Len(t[0]) = 0 /\ SubSeq(v, 1, 0) = <<>>
      <3>1. Len(<<>>) = 0
        OBVIOUS
      <3> QED
        BY <1>1, <3>1, SubSeqEmpty
    <2>2. r[Len(t[0])] = [escape |-> FALSE, out |-> SubSeq(v, 1, 0)]
      BY <1>4, <2>1
    <2> QED
      BY <1>2, <2>2
  <1>7. ASSUME NEW n \in 1 .. Len(v), n - 1 \in S PROVE n \in S
    <2>1. PICK a \in Text : a = t[n - 1]
      BY <1>2
    <2>2. PICK c \in Text : c = EscapedChar(v[n])
      BY <1>2, EscapedCharText
    <2>3. PICK m \in Nat : m = Len(a)
      BY DEF Text
    <2>4. t[n] = a \o c /\ t[n] \in Text
      <3>1. t[n] \in Text
        BY <1>2
      <3>2. t[n] = t[n - 1] \o EscapedChar(v[n])
        BY <1>1
      <3> QED
        BY <2>1, <2>2, <3>1, <3>2
    <2>5. Len(t[n]) = m + Len(c) /\ \A i \in 1 .. Len(c) : t[n][m + i] = c[i]
      <3>1. /\ Len(a \o c) = Len(a) + Len(c)
            /\ \A i \in 1 .. Len(c) : (a \o c)[Len(a) + i] = c[i]
        BY TwoTexts
      <3> QED
        BY <2>3, <2>4, <3>1
    <2>6. Len(t[n]) <= Len(raw) /\ \A i \in 1 .. Len(c) : raw[m + i] = c[i]
      <3>1. Begins(t[n], raw)
        BY <1>5
      <3>2. Len(t[n]) <= Len(raw) /\ \A i \in 1 .. Len(t[n]) : raw[i] = t[n][i]
        BY <2>4, <3>1, BeginsFacts
      <3>3. Len(c) \in Nat
        BY DEF Text
      <3>4. \A i \in 1 .. Len(c) : m + i \in 1 .. Len(t[n])
        BY <2>5, <3>3
      <3> QED
        BY <2>5, <3>2, <3>4
    <2>7. r[m] = [escape |-> FALSE, out |-> SubSeq(v, 1, n - 1)] /\ r[m] \in Reading
      <3>1. Len(raw) \in Nat /\ Len(c) \in Nat
        BY DEF Text
      <3>2. m \in 0 .. Len(raw)
        BY <2>5, <2>6, <3>1
      <3> QED
        BY <1>7, <2>1, <2>3, <3>2
    <2>8. Append(SubSeq(v, 1, n - 1), v[n]) = SubSeq(v, 1, n)
      BY OneMore DEF Text
    <2>9. CASE c = <<v[n]>> /\ v[n] # Escape
      <3>1. Len(c) = 1 /\ c[1] = v[n]
        BY <2>9
      <3>2. m + 1 \in 1 .. Len(raw) /\ raw[m + 1] = v[n] /\ Len(t[n]) = m + 1
        BY <2>5, <2>6, <3>1 DEF Text
      <3>3. r[m + 1] = UnescapedChar(r[m], v[n])
        BY <1>4, <3>2
      <3>4. PICK acc \in Reading : acc = r[m]
        BY <2>7
      <3>5. acc.escape = FALSE /\ acc.out = SubSeq(v, 1, n - 1)
        BY <2>7, <3>4
      <3>6. UnescapedChar(acc, v[n]) = [escape |-> FALSE, out |-> Append(acc.out, v[n])]
        BY <1>2, <2>9, <3>5, UnescapedCharFacts
      <3>7. r[m + 1] = [escape |-> FALSE, out |-> SubSeq(v, 1, n)]
        BY <2>8, <3>3, <3>4, <3>5, <3>6
      <3> QED
        BY <3>2, <3>7
    <2>10. CASE \E e \in Chars : c = <<Escape, e>> /\ Unletter(e) = v[n]
      <3>0. PICK e \in Chars : c = <<Escape, e>> /\ Unletter(e) = v[n]
        BY <2>10
      <3>1. Len(c) = 2 /\ c[1] = Escape /\ c[2] = e
        BY <3>0
      <3>2. /\ m + 1 \in 1 .. Len(raw) /\ raw[m + 1] = Escape
            /\ m + 2 \in 1 .. Len(raw) /\ raw[m + 2] = e /\ Len(t[n]) = m + 2
        BY <2>5, <2>6, <3>1 DEF Text
      <3>3. r[m + 1] = UnescapedChar(r[m], Escape) /\ r[m + 2] = UnescapedChar(r[m + 1], e)
        BY <1>4, <3>2
      <3>4. PICK acc \in Reading : acc = r[m]
        BY <2>7
      <3>5. acc.escape = FALSE /\ acc.out = SubSeq(v, 1, n - 1)
        BY <2>7, <3>4
      <3>6. PICK more \in Reading : more = UnescapedChar(acc, Escape)
        BY CharsFacts, UnescapedCharFacts
      <3>7. more = [escape |-> TRUE, out |-> acc.out]
        BY <3>5, <3>6, CharsFacts, UnescapedCharFacts
      <3>8. UnescapedChar(more, e) = [escape |-> FALSE, out |-> Append(more.out, Unletter(e))]
        BY <3>7, UnescapedCharFacts
      <3>9. r[m + 2] = [escape |-> FALSE, out |-> SubSeq(v, 1, n)]
        <4>1. r[m + 1] = more
          BY <3>3, <3>4, <3>6
        <4>2. r[m + 2] = UnescapedChar(more, e)
          BY <3>3, <4>1
        <4>3. more.out = SubSeq(v, 1, n - 1)
          BY <3>5, <3>7
        <4> QED
          BY <2>8, <3>0, <3>8, <4>2, <4>3
      <3> QED
        BY <3>2, <3>9
    <2> QED
      BY <1>2, <2>2, <2>9, <2>10, EscapedCharFacts
  <1>8. Len(v) \in S
    <2> HIDE DEF S
    <2>1. 0 .. Len(v) \subseteq S
      BY <1>2, <1>6, <1>7, UpTo
    <2> QED
      BY <1>2, <2>1
  <1>9. SubSeq(v, 1, Len(v)) = v
    BY SubSeqFull DEF Text
  <1> QED
    BY <1>1, <1>3, <1>4, <1>8, <1>9

-----------------------------------------------------------------------------
(* The parser.                                                             *)

\* The first place of some, or the end.
LEMMA FirstOfFacts ==
  ASSUME NEW T \in Text, NEW i \in Nat, NEW places, places \subseteq i .. Len(T),
         i <= Len(T) + 1
  PROVE  LET j == FirstOf(T, places)
         IN  /\ j \in i .. Len(T) + 1 /\ j \in Nat
             /\ j <= Len(T) => j \in places
             /\ \A m \in places : j <= m
  <1>1. Len(T) \in Nat
    BY DEF Text
  <1>2. CASE places = {}
    BY <1>1, <1>2 DEF FirstOf
  <1>3. CASE places # {}
    <2>1. places \subseteq Nat
      BY <1>1
    <2>2. PICK n \in places : \A m \in places : n <= m
      BY <1>3, <2>1, SmallestNumber
    <2>3. Min(places) \in places /\ \A m \in places : Min(places) <= m
      BY <2>2 DEF Min
    <2>4. FirstOf(T, places) = Min(places)
      BY <1>3 DEF FirstOf
    <2>5. PICK j \in i .. Len(T) : j = Min(places)
      BY <2>3
    <2> QED
      BY <1>1, <2>3, <2>4, <2>5
  <1> QED
    BY <1>2, <1>3

\* The place of the first character of some kind, or the end.
LEMMA FirstInFacts ==
  ASSUME NEW T \in Text, NEW i \in Nat \ {0}, NEW chars, i <= Len(T) + 1
  PROVE  LET j == FirstIn(T, i, chars)
         IN  /\ j \in i .. Len(T) + 1 /\ j \in Nat
             /\ j <= Len(T) => T[j] \in chars
             /\ \A m \in i .. j - 1 : T[m] \notin chars
  <1> DEFINE places == {j \in i .. Len(T) : T[j] \in chars}
  <1>1. PICK j : j = FirstIn(T, i, chars)
    OBVIOUS
  <1>2. j = FirstOf(T, places)
    BY <1>1 DEF FirstIn
  <1>3. places \subseteq i .. Len(T)
    OBVIOUS
  <1>4. /\ j \in i .. Len(T) + 1 /\ j \in Nat
        /\ j <= Len(T) => j \in places
        /\ \A m \in places : j <= m
    <2> HIDE DEF places
    <2> QED
      BY <1>2, <1>3, FirstOfFacts
  <1>5. \A m \in i .. j - 1 : T[m] \notin chars
    <2>1. ASSUME NEW m \in i .. j - 1, T[m] \in chars PROVE FALSE
      <3>1. m \in i .. Len(T)
        BY <1>4 DEF Text
      <3>2. m \in places
        BY <2>1, <3>1
      <3>3. j <= m
        BY <1>4, <3>2
      <3> QED
        BY <1>4, <3>3
    <2> QED
      BY <2>1
  <1> QED
    BY <1>1, <1>4, <1>5

\* There is only one such place.
LEMMA FirstInIs ==
  ASSUME NEW T \in Text, NEW i \in Nat \ {0}, NEW chars, NEW j \in i .. Len(T) + 1,
         \A m \in i .. j - 1 : T[m] \notin chars,
         j = Len(T) + 1 \/ T[j] \in chars
  PROVE  FirstIn(T, i, chars) = j
  <1>1. Len(T) \in Nat /\ i <= Len(T) + 1
    BY DEF Text
  <1>2. PICK k : k = FirstIn(T, i, chars)
    OBVIOUS
  <1>3. /\ k \in i .. Len(T) + 1 /\ k \in Nat
        /\ k <= Len(T) => T[k] \in chars
        /\ \A m \in i .. k - 1 : T[m] \notin chars
    BY <1>1, <1>2, FirstInFacts
  <1>4. ~(k < j)
    BY <1>1, <1>3
  <1>5. ~(j < k)
    BY <1>1, <1>3
  <1> QED
    BY <1>1, <1>2, <1>3, <1>4, <1>5

\* Space is skipped up to the first other character.
LEMMA SkipSpaceFirst ==
  ASSUME NEW T \in Text, NEW i \in Nat \ {0}
  PROVE  SkipSpace(T, i) = FirstIn(T, i, Chars \ Whitespace)
  <1>1. \A j \in 1 .. Len(T) : T[j] \in Chars
    BY DEF Text
  <1>2. \A j \in i .. Len(T) : j \in 1 .. Len(T)
    BY DEF Text
  <1>3. {j \in i .. Len(T) : T[j] \notin Whitespace} = {j \in i .. Len(T) : T[j] \in Chars \ Whitespace}
    BY <1>1, <1>2
  <1> QED
    BY <1>3 DEF SkipSpace, FirstIn

\* The items that the parser yields.
AnItem == {NextCommand} \cup {Argument(n, v) : n \in Text, v \in Text}

\* A part of a text is text.
LEMMA PartOfText ==
  ASSUME NEW T \in Text, NEW i \in Nat \ {0}, NEW j \in Nat, j <= Len(T)
  PROVE  SubSeq(T, i, j) \in Text
  <1>1. \A m \in i .. j : T[m] \in Chars
    BY DEF Text
  <1> QED
    BY <1>1, SubSeqProperties DEF Text

\* An unescaped value is text.
LEMMA UnescapedText ==
  ASSUME NEW raw \in Text
  PROVE  Unescaped(raw) \in Text
  <1>1. PICK r \in [0 .. Len(raw) -> Reading] : Unescaped(raw) = r[Len(raw)].out
    BY UnescapedSteps
  <1>2. r[Len(raw)] \in Reading
    BY DEF Text
  <1> QED
    BY <1>1, <1>2 DEF Reading

\* The parser goes on behind the item.
LEMMA ItemFacts ==
  ASSUME NEW T \in Text, NEW i \in 1 .. Len(T), T[i] \notin Whitespace
  PROVE  /\ Item(T, i).item \in AnItem
         /\ Item(T, i).after \in i + 1 .. Len(T) + 1
  <1>1. Len(T) \in Nat /\ i \in Nat \ {0}
    BY DEF Text
  <1>2. CASE T[i] = Pipe
    BY <1>1, <1>2 DEF Item, AnItem
  <1>3. CASE T[i] # Pipe
    <2> DEFINE name_end == FirstIn(T, i, {Space, Equals, Pipe})
               value_end == FirstIn(T, name_end + 1, Whitespace \cup {Pipe})
    <2>1. /\ name_end \in i .. Len(T) + 1 /\ name_end \in Nat
          /\ name_end <= Len(T) => T[name_end] \in {Space, Equals, Pipe}
      BY <1>1, FirstInFacts
    <2>2. SubSeq(T, i, name_end - 1) \in Text
      <3>1. name_end - 1 \in Nat /\ name_end - 1 <= Len(T)
        BY <1>1, <2>1
      <3> HIDE DEF name_end
      <3> QED
        BY <1>1, <3>1, PartOfText
    <2>3. CASE name_end > Len(T) \/ T[name_end] # Equals
      <3>1. Item(T, i) = [item |-> Argument(SubSeq(T, i, name_end - 1), <<>>), after |-> name_end]
        BY <1>3, <2>3 DEF Item
      <3>2. name_end # i
        BY <1>1, <1>3, <2>1, <2>3 DEF Whitespace
      <3>3. <<>> \in Text
        BY DEF Text
      <3> HIDE DEF name_end
      <3> QED
        BY <1>1, <2>1, <2>2, <3>1, <3>2, <3>3 DEF AnItem
    <2>4. CASE ~(name_end > Len(T) \/ T[name_end] # Equals)
      <3>1. Item(T, i) = [item |-> Argument(SubSeq(T, i, name_end - 1),
                                            Unescaped(SubSeq(T, name_end + 1, value_end - 1))),
                          after |-> value_end]
        BY <1>3, <2>4 DEF Item
      <3> HIDE DEF name_end
      <3>2. value_end \in name_end + 1 .. Len(T) + 1 /\ value_end \in Nat
        BY <1>1, <2>1, <2>4, FirstInFacts
      <3> HIDE DEF value_end
      <3>3. name_end + 1 \in Nat \ {0} /\ value_end - 1 \in Nat /\ value_end - 1 <= Len(T)
        BY <1>1, <2>1, <3>2
      <3>4. Unescaped(SubSeq(T, name_end + 1, value_end - 1)) \in Text
        BY <3>3, PartOfText, UnescapedText
      <3> QED
        BY <1>1, <2>1, <2>2, <3>1, <3>2, <3>4 DEF AnItem
    <2> QED
      BY <2>3, <2>4
  <1> QED
    BY <1>2, <1>3

\* The items from every place of the text on, as Items reads them.
ItemsFrom(T) ==
  CHOOSE h : h = [i \in 1 .. Len(T) + 1 |->
                    LET j == SkipSpace(T, i) IN
                    IF j > Len(T) THEN <<>>
                    ELSE LET next == Item(T, j) IN <<next.item>> \o h[next.after]]

\* After spaces were skipped there is none.
LEMMA SkipSpaceFacts ==
  ASSUME NEW T \in Text, NEW i \in 1 .. Len(T) + 1
  PROVE  /\ SkipSpace(T, i) \in i .. Len(T) + 1 /\ SkipSpace(T, i) \in Nat
         /\ SkipSpace(T, i) <= Len(T) => T[SkipSpace(T, i)] \notin Whitespace
  <1>1. i \in Nat \ {0} /\ i <= Len(T) + 1
    BY DEF Text
  <1>2. SkipSpace(T, i) = FirstIn(T, i, Chars \ Whitespace)
    BY <1>1, SkipSpaceFirst
  <1> QED
    BY <1>1, <1>2, FirstInFacts

\* The parser as a function of the place where it is.
LEMMA ItemsSteps ==
  ASSUME NEW T \in Text
  PROVE  /\ Items(T) = ItemsFrom(T)[NameEnd(T)]
         /\ \A i \in 1 .. Len(T) + 1 :
              /\ ItemsFrom(T)[i] \in Seq(AnItem)
              /\ SkipSpace(T, i) > Len(T) => ItemsFrom(T)[i] = <<>>
              /\ ~(SkipSpace(T, i) > Len(T)) =>
                   ItemsFrom(T)[i] = <<Item(T, SkipSpace(T, i)).item>>
                                       \o ItemsFrom(T)[Item(T, SkipSpace(T, i)).after]
  <1> DEFINE D == Seq(AnItem)
             it(i) == Item(T, SkipSpace(T, i))
             S == {i \in 1 .. Len(T) + 1 : SkipSpace(T, i) > Len(T)}
             nx == [i \in 1 .. Len(T) + 1 |-> it(i).after]
             g == [i \in 1 .. Len(T) |-> [x \in D |-> IF i \in S THEN <<>> ELSE <<it(i).item>> \o x]]
             Body(h) == [i \in 1 .. Len(T) + 1 |->
                           IF i \in S THEN <<>> ELSE <<it(i).item>> \o h[it(i).after]]
             t == ItemsFrom(T)
  <1>1. PICK N \in Nat : N = Len(T)
    BY DEF Text
  <1>2. <<>> \in D
    OBVIOUS
  <1>3. \A i \in 1 .. N + 1 : i \notin S =>
          i # N + 1 /\ it(i).item \in AnItem /\ it(i).after \in i + 1 .. N + 1
    <2>1. SUFFICES ASSUME NEW i \in 1 .. N + 1, i \notin S
                   PROVE  i # N + 1 /\ it(i).item \in AnItem /\ it(i).after \in i + 1 .. N + 1
      OBVIOUS
    <2>2. PICK j : j = SkipSpace(T, i)
      OBVIOUS
    <2>3. j \in i .. N + 1 /\ j \in Nat /\ ~(j > N) /\ T[j] \notin Whitespace
      BY <1>1, <2>1, <2>2, SkipSpaceFacts
    <2>4. j \in 1 .. Len(T)
      BY <1>1, <2>3
    <2>5. Item(T, j).item \in AnItem /\ Item(T, j).after \in j + 1 .. Len(T) + 1
      BY <2>3, <2>4, ItemFacts
    <2> QED
      BY <1>1, <2>2, <2>3, <2>5
  <1>4. \A i \in 1 .. N + 1 : i \notin S => i # N + 1 /\ nx[i] \in i + 1 .. N + 1
    BY <1>1, <1>3
  <1>5. g \in [1 .. N -> [D -> D]]
    <2>1. ASSUME NEW i \in 1 .. N, NEW x \in D PROVE (IF i \in S THEN <<>> ELSE <<it(i).item>> \o x) \in D
      <3>1. i \in 1 .. N + 1
        BY <1>1
      <3> HIDE DEF S, it
      <3> QED
        BY <1>3, <2>1, <3>1
    <2> HIDE DEF S, it, D
    <2> QED
      BY <1>1, <2>1
  <1>6. PICK f \in [1 .. N + 1 -> D] : SolvesDown(f, N, <<>>, g, nx, S)
    <2> HIDE DEF g, nx, S, D
    <2> QED
      BY <1>2, <1>4, <1>5, RecursionDown
  <1>7. \A i \in 1 .. N + 1 : f[i] = IF i \in S THEN <<>> ELSE <<it(i).item>> \o f[it(i).after]
    <2>1. SUFFICES ASSUME NEW i \in 1 .. N + 1
                   PROVE  f[i] = IF i \in S THEN <<>> ELSE <<it(i).item>> \o f[it(i).after]
      OBVIOUS
    <2>2. f[i] = IF i \in S THEN <<>> ELSE g[i][f[nx[i]]]
      BY <1>6, <2>1 DEF SolvesDown
    <2>3. CASE i \notin S
      <3>1. i \in 1 .. N /\ nx[i] \in 1 .. N + 1 /\ nx[i] = it(i).after
        BY <1>1, <1>4, <2>3
      <3>2. f[nx[i]] \in D
        BY <3>1
      <3>3. g[i][f[nx[i]]] = <<it(i).item>> \o f[nx[i]]
        <4> HIDE DEF it, S, nx, D
        <4> QED
          BY <1>1, <2>3, <3>1, <3>2
      <3> HIDE DEF it, S, nx, D, g
      <3> QED
        BY <2>2, <2>3, <3>1, <3>3
    <2> QED
      BY <2>2, <2>3
  <1>8. f = Body(f)
    <2> HIDE DEF S, it, D
    <2> QED
      BY <1>1, <1>7
  <1>9. t = Body(t) /\ Items(T) = t[NameEnd(T)]
    <2>1. t = CHOOSE h : h = Body(h)
      BY DEF ItemsFrom
    <2>2. Items(T) = t[NameEnd(T)]
      BY DEF Items, ItemsFrom
    <2> HIDE DEF t, Body
    <2> QED
      BY <1>8, <2>1, <2>2
  <1> HIDE DEF t
  <1>10. \A i \in 1 .. N + 1 : t[i] = IF i \in S THEN <<>> ELSE <<it(i).item>> \o t[it(i).after]
    <2> HIDE DEF S, it, D
    <2> QED
      BY <1>1, <1>9
  <1>11. \A i \in 1 .. N + 1 : t[i] \in D
    <2> DEFINE U == {k \in 0 .. N : \A i \in N + 1 - k .. N + 1 : t[i] \in D}
    <2>1. 0 \in U
      <3>1. N + 1 \in S
        BY <1>1, <1>3
      <3>2. t[N + 1] = <<>>
        BY <1>1, <1>10, <3>1
      <3> HIDE DEF D
      <3> QED
        BY <1>1, <1>2, <3>2
    <2>2. ASSUME NEW k \in 1 .. N, k - 1 \in U PROVE k \in U
      <3>1. PICK m \in 1 .. N : m = N + 1 - k
        <4>1. N + 1 - k \in 1 .. N
          BY <1>1
        <4> HIDE DEF U
        <4> QED
          BY <4>1
      <3>2. \A i \in m + 1 .. N + 1 : t[i] \in D
        <4>1. N + 1 - (k - 1) = m + 1
          BY <1>1, <3>1
        <4> QED
          BY <2>2, <4>1
      <3>3. t[m] \in D
        <4>1. m \in 1 .. N + 1
          BY <1>1
        <4>2. t[m] = IF m \in S THEN <<>> ELSE <<it(m).item>> \o t[it(m).after]
          BY <1>10, <4>1
        <4>3. m \notin S => it(m).item \in AnItem /\ t[it(m).after] \in D
          BY <1>3, <3>2, <4>1
        <4> HIDE DEF S, it
        <4> QED
          BY <4>2, <4>3
      <3>4. \A i \in N + 1 - k .. N + 1 : i = m \/ i \in m + 1 .. N + 1
        BY <1>1, <3>1
      <3> HIDE DEF D
      <3> QED
        BY <1>1, <3>2, <3>3, <3>4
    <2>3. 0 .. N \subseteq U
      <3> HIDE DEF U
      <3> QED
        BY <1>1, <2>1, <2>2, UpTo
    <2>4. N \in U /\ N + 1 - N = 1
      <3> HIDE DEF U
      <3> QED
        BY <1>1, <2>3
    <2> QED
      BY <2>4
  <1> QED
    BY <1>1, <1>9, <1>10, <1>11 DEF t

\* w stands at place i of the text.
Holds(T, i, w) == i - 1 + Len(w) <= Len(T) /\ \A k \in 1 .. Len(w) : T[i - 1 + k] = w[k]

\* The part of a text that holds a word is the word.
LEMMA PartIs ==
  ASSUME NEW T \in Text, NEW i \in Nat \ {0}, NEW w \in Text, Holds(T, i, w)
  PROVE  SubSeq(T, i, i + Len(w) - 1) = w
  <1>1. Len(T) \in Nat /\ Len(w) \in Nat
    BY DEF Text
  <1>2. PICK j \in Nat : j = i + Len(w) - 1
    <2>1. i + Len(w) - 1 \in Nat
      BY <1>1
    <2> QED
      BY <2>1
  <1>3. j <= Len(T) /\ \A k \in 1 .. Len(w) : T[i - 1 + k] = w[k]
    BY <1>1, <1>2 DEF Holds
  <1>4. PICK s \in Text : s = SubSeq(T, i, j)
    BY <1>3, PartOfText
  <1>5. \A m \in i .. j : T[m] \in Chars
    BY <1>3 DEF Text
  <1>6. Len(s) = IF i <= j THEN j - i + 1 ELSE 0
    BY <1>4, <1>5, SubSeqProperties
  <1>7. \A k \in 1 .. j - i + 1 : s[k] = T[i + k - 1]
    BY <1>4, <1>5, SubSeqProperties
  <1>8. Len(s) = Len(w)
    BY <1>1, <1>2, <1>6
  <1>9. \A k \in 1 .. Len(w) : s[k] = w[k]
    <2>1. j - i + 1 = Len(w)
      BY <1>1, <1>2
    <2>2. \A k \in 1 .. Len(w) : i + k - 1 = i - 1 + k
      BY <1>1
    <2> QED
      BY <1>3, <1>7, <2>1, <2>2
  <1>10. s = w
    BY <1>8, <1>9, SeqEqual DEF Text
  <1> QED
    BY <1>2, <1>4, <1>10

\* Both halves of what stands somewhere.
LEMMA HoldsBoth ==
  ASSUME NEW T \in Text, NEW i \in Nat \ {0}, NEW a \in Text, NEW b \in Text, Holds(T, i, a \o b)
  PROVE  Holds(T, i, a) /\ Holds(T, i + Len(a), b) /\ Len(a \o b) = Len(a) + Len(b)
  <1>1. Len(T) \in Nat /\ Len(a) \in Nat /\ Len(b) \in Nat
    BY DEF Text
  <1>2. /\ Len(a \o b) = Len(a) + Len(b)
        /\ \A k \in 1 .. Len(a) + Len(b) : (a \o b)[k] = IF k <= Len(a) THEN a[k] ELSE b[k - Len(a)]
    BY ConcatProperties DEF Text
  <1>3. \A k \in 1 .. Len(a) : (a \o b)[k] = a[k] /\ k \in 1 .. Len(a) + Len(b)
    BY <1>1, <1>2
  <1>4. \A k \in 1 .. Len(b) : (a \o b)[Len(a) + k] = b[k] /\ Len(a) + k \in 1 .. Len(a) + Len(b)
    <2>1. SUFFICES ASSUME NEW k \in 1 .. Len(b)
                   PROVE  (a \o b)[Len(a) + k] = b[k] /\ Len(a) + k \in 1 .. Len(a) + Len(b)
      OBVIOUS
    <2>2. PICK m \in Nat : m = Len(a) + k
      BY <1>1
    <2>3. m \in 1 .. Len(a) + Len(b) /\ ~(m <= Len(a)) /\ m - Len(a) = k
      BY <1>1, <2>2
    <2> QED
      BY <1>2, <2>2, <2>3
  <1>5. \A k \in 1 .. Len(a) + Len(b) : T[i - 1 + k] = (a \o b)[k]
    BY <1>2 DEF Holds
  <1>6. i - 1 + Len(a) + Len(b) <= Len(T)
    BY <1>1, <1>2 DEF Holds
  <1>7. Holds(T, i, a)
    <2>1. i - 1 + Len(a) <= Len(T)
      BY <1>1, <1>6
    <2> QED
      BY <1>3, <1>5, <2>1 DEF Holds
  <1>8. Holds(T, i + Len(a), b)
    <2>1. i + Len(a) - 1 + Len(b) <= Len(T)
      BY <1>1, <1>6
    <2>2. \A k \in 1 .. Len(b) : i - 1 + (Len(a) + k) = i + Len(a) - 1 + k
      BY <1>1
    <2>3. \A k \in 1 .. Len(b) : T[i - 1 + (Len(a) + k)] = b[k]
      BY <1>4, <1>5
    <2> QED
      BY <2>1, <2>2, <2>3 DEF Holds
  <1> QED
    BY <1>2, <1>7, <1>8

\* What stands somewhere has no place where a name or a value ends.
LEMMA HoldsNone ==
  ASSUME NEW T \in Text, NEW i \in Nat \ {0}, NEW w \in Text, Holds(T, i, w), NEW chars,
         \A k \in 1 .. Len(w) : w[k] \notin chars
  PROVE  \A m \in i .. i + Len(w) - 1 : T[m] \notin chars
  <1>1. Len(w) \in Nat
    BY DEF Text
  <1>2. SUFFICES ASSUME NEW m \in i .. i + Len(w) - 1 PROVE T[m] \notin chars
    OBVIOUS
  <1>3. PICK k \in 1 .. Len(w) : i - 1 + k = m
    <2>1. m - i + 1 \in 1 .. Len(w) /\ i - 1 + (m - i + 1) = m
      BY <1>1, <1>2
    <2> QED
      BY <2>1
  <1>4. T[i - 1 + k] = w[k]
    BY DEF Holds
  <1> QED
    BY <1>3, <1>4

\* An argument that has something to write, and no name that would be read
\* otherwise.
GoodArgument(arg) ==
  /\ arg.name \in Text /\ arg.value \in Text
  /\ \A k \in 1 .. Len(arg.name) : arg.name[k] \notin Separators \cup {Equals}
  /\ arg.name # <<>> \/ arg.value # <<>>

\* What write_arg writes for it.
ValueText(arg) == IF arg.value = <<>> THEN <<>> ELSE <<Equals>> \o Escaped(arg.value)
ArgumentText(arg) == arg.name \o ValueText(arg)

\* An argument is written without any separator.
LEMMA ArgumentTextFacts ==
  ASSUME NEW arg, GoodArgument(arg)
  PROVE  /\ ValueText(arg) \in Text /\ ArgumentText(arg) \in Text /\ ArgumentText(arg) # <<>>
         /\ \A k \in 1 .. Len(ArgumentText(arg)) : ArgumentText(arg)[k] \notin Separators
  <1>1. PICK n \in Text : n = arg.name
    BY DEF GoodArgument
  <1>2. PICK v \in Text : v = arg.value
    BY DEF GoodArgument
  <1>3. PICK e \in Text : e = Escaped(v)
    BY EscapedSafe
  <1>4. \A k \in 1 .. Len(e) : e[k] \notin Separators
    BY <1>3, EscapedSafe
  <1>5. Equals \in Chars \ Separators
    BY CharsFacts DEF Separators, Whitespace, Space, Pipe, Equals
  <1>6. PICK q \in Text : q = <<Equals>>
    <2>1. <<Equals>> \in Seq(Chars)
      BY <1>5
    <2> QED
      BY <2>1 DEF Text
  <1>7. Len(q) = 1 /\ q[1] = Equals
    BY <1>6
  <1>8. /\ q \o e \in Text /\ q \o e # <<>>
        /\ \A k \in 1 .. Len(q \o e) : (q \o e)[k] \notin Separators
    <2>1. /\ q \o e \in Text /\ Len(q \o e) = 1 + Len(e)
          /\ \A k \in 1 .. 1 + Len(e) : (q \o e)[k] = IF k <= 1 THEN q[k] ELSE e[k - 1]
      <3>1. /\ q \o e \in Text /\ Len(q \o e) = Len(q) + Len(e)
            /\ \A k \in 1 .. Len(q) + Len(e) : (q \o e)[k] = IF k <= Len(q) THEN q[k] ELSE e[k - Len(q)]
        BY ConcatProperties DEF Text
      <3> QED
        BY <1>7, <3>1
    <2>2. Len(e) \in Nat
      BY DEF Text
    <2>3. \A k \in 1 .. 1 + Len(e) : k = 1 \/ (~(k <= 1) /\ k - 1 \in 1 .. Len(e))
      BY <2>2
    <2>4. q \o e # <<>>
      BY <2>1, <2>2, EmptySeq DEF Text
    <2> HIDE DEF Separators
    <2> QED
      BY <1>4, <1>5, <1>7, <2>1, <2>2, <2>3, <2>4
  <1>9. PICK w \in Text : w = ValueText(arg)
    <2>1. <<>> \in Text
      BY DEF Text
    <2> QED
      BY <1>2, <1>3, <1>6, <1>8, <2>1 DEF ValueText
  <1>10. (\A k \in 1 .. Len(w) : w[k] \notin Separators) /\ (v # <<>> => w # <<>>)
    <2>1. CASE v = <<>>
      <3>1. Len(w) = 0
        BY <1>2, <1>9, <2>1 DEF ValueText
      <3> QED
        BY <2>1, <3>1
    <2>2. CASE v # <<>>
      BY <1>2, <1>3, <1>6, <1>8, <1>9, <2>2 DEF ValueText
    <2> QED
      BY <2>1, <2>2
  <1>11. \A k \in 1 .. Len(n) : n[k] \notin Separators
    BY <1>1 DEF GoodArgument
  <1>12. /\ n \o w \in Text /\ Len(n \o w) = Len(n) + Len(w)
         /\ \A k \in 1 .. Len(n) + Len(w) : (n \o w)[k] = IF k <= Len(n) THEN n[k] ELSE w[k - Len(n)]
    BY ConcatProperties DEF Text
  <1>13. Len(n) \in Nat /\ Len(w) \in Nat
    BY DEF Text
  <1>14. \A k \in 1 .. Len(n) + Len(w) : k \in 1 .. Len(n) \/ (~(k <= Len(n)) /\ k - Len(n) \in 1 .. Len(w))
    BY <1>13
  <1>15. \A k \in 1 .. Len(n) + Len(w) : (n \o w)[k] \notin Separators
    <2> HIDE DEF Separators
    <2> QED
      BY <1>10, <1>11, <1>12, <1>13, <1>14
  <1>16. n \o w # <<>>
    <2>1. n # <<>> \/ w # <<>>
      BY <1>1, <1>2, <1>10 DEF GoodArgument
    <2>2. Len(n) + Len(w) > 0
      BY <1>13, <2>1, EmptySeq DEF Text
    <2> QED
      BY <1>12, <2>2, EmptySeq DEF Text
  <1>17. ArgumentText(arg) = n \o w
    BY <1>1, <1>9 DEF ArgumentText
  <1> QED
    BY <1>9, <1>12, <1>15, <1>16, <1>17

\* The parser reads an argument where one was written, up to the space, the
\* pipe or the end behind it.
LEMMA ArgumentIsRead ==
  ASSUME NEW T \in Text, NEW i \in Nat \ {0}, NEW arg, GoodArgument(arg),
         Holds(T, i, ArgumentText(arg)), NEW j \in Nat, j = i + Len(ArgumentText(arg)),
         j = Len(T) + 1 \/ (j <= Len(T) /\ T[j] \in {Space, Pipe})
  PROVE  /\ i <= Len(T) /\ T[i] \notin Separators /\ j <= Len(T) + 1
         /\ Item(T, i) = [item |-> Argument(arg.name, arg.value), after |-> j]
  <1>1. PICK n \in Text : n = arg.name
    BY DEF GoodArgument
  <1>2. PICK v \in Text : v = arg.value
    BY DEF GoodArgument
  <1>3. PICK w \in Text : w = ValueText(arg)
    BY ArgumentTextFacts
  <1>4. PICK a \in Text : a = ArgumentText(arg)
    BY ArgumentTextFacts
  <1>5. a = n \o w /\ a # <<>> /\ \A k \in 1 .. Len(a) : a[k] \notin Separators
    BY <1>1, <1>3, <1>4, ArgumentTextFacts DEF ArgumentText
  <1>6. Len(T) \in Nat /\ Len(a) \in Nat /\ Len(a) > 0 /\ Len(n) \in Nat /\ Len(w) \in Nat
    BY <1>5, EmptySeq DEF Text
  <1>7. Holds(T, i, a) /\ Holds(T, i, n) /\ Holds(T, i + Len(n), w) /\ Len(a) = Len(n) + Len(w)
    BY <1>4, <1>5, HoldsBoth
  <1>8. i <= Len(T) /\ T[i] \notin Separators /\ j <= Len(T) + 1 /\ j = i + Len(a)
    <2>1. i - 1 + Len(a) <= Len(T) /\ j = i + Len(a)
      BY <1>4, <1>7 DEF Holds
    <2>2. i \in i .. i + Len(a) - 1
      BY <1>6
    <2>3. \A m \in i .. i + Len(a) - 1 : T[m] \notin Separators
      <3> HIDE DEF Separators
      <3> QED
        BY <1>5, <1>7, HoldsNone
    <2> QED
      BY <1>6, <2>1, <2>2, <2>3
  <1>9. PICK p \in Nat : p = i + Len(n)
    <2>1. i + Len(n) \in Nat
      BY <1>6
    <2> QED
      BY <2>1
  <1>10. \A m \in i .. p - 1 : T[m] \notin {Space, Equals, Pipe}
    <2>1. \A k \in 1 .. Len(n) : n[k] \notin Separators \cup {Equals}
      BY <1>1 DEF GoodArgument
    <2>2. \A k \in 1 .. Len(n) : n[k] \notin {Space, Equals, Pipe}
      BY <2>1 DEF Separators, Whitespace
    <2>3. \A m \in i .. i + Len(n) - 1 : T[m] \notin {Space, Equals, Pipe}
      BY <1>7, <2>2, HoldsNone
    <2> QED
      BY <1>9, <2>3
  <1>11. SubSeq(T, i, p - 1) = n
    BY <1>7, <1>9, PartIs
  <1>12. T[i] # Pipe
    BY <1>8 DEF Separators
  <1>13. CASE v = <<>>
    <2>1. p = j
      <3>1. Len(w) = 0
        BY <1>2, <1>3, <1>13 DEF ValueText
      <3> QED
        BY <1>6, <1>7, <1>8, <1>9, <3>1
    <2>2. FirstIn(T, i, {Space, Equals, Pipe}) = p
      <3>1. p \in i .. Len(T) + 1
        BY <1>6, <1>8, <1>9, <2>1
      <3>2. p = Len(T) + 1 \/ T[p] \in {Space, Equals, Pipe}
        BY <2>1
      <3> QED
        BY <1>10, <3>1, <3>2, FirstInIs
    <2>3. p > Len(T) \/ T[p] # Equals
      <3>1. Equals \notin {Space, Pipe}
        BY DEF Space, Pipe, Equals
      <3> QED
        BY <1>6, <2>1, <3>1
    <2>4. Item(T, i) = [item |-> Argument(n, <<>>), after |-> p]
      BY <1>11, <1>12, <2>2, <2>3 DEF Item
    <2> QED
      BY <1>1, <1>2, <1>8, <1>13, <2>1, <2>4
  <1>14. CASE v # <<>>
    <2>1. PICK e \in Text : e = Escaped(v)
      BY EscapedSafe
    <2>2. (\A k \in 1 .. Len(e) : e[k] \notin Separators) /\ Unescaped(e) = v
      BY <2>1, EscapedSafe, ReadBackValue
    <2>3. PICK q \in Text : q = <<Equals>>
      <3>0. Equals \in Chars
        BY CharsFacts
      <3>1. <<Equals>> \in Seq(Chars)
        BY <3>0
      <3> QED
        BY <3>1 DEF Text
    <2>4. w = q \o e /\ Len(q) = 1 /\ q[1] = Equals
      BY <1>2, <1>3, <1>14, <2>1, <2>3 DEF ValueText
    <2>5. Holds(T, p, q) /\ Holds(T, p + 1, e) /\ Len(w) = 1 + Len(e)
      <3>1. Holds(T, p, q \o e) /\ p \in Nat \ {0}
        BY <1>6, <1>7, <1>9, <2>4
      <3>2. Holds(T, p, q) /\ Holds(T, p + Len(q), e) /\ Len(q \o e) = Len(q) + Len(e)
        BY <3>1, HoldsBoth
      <3> QED
        BY <2>4, <3>2
    <2>6. p <= Len(T) /\ T[p] = Equals
      <3>1. 1 \in 1 .. Len(q) /\ p - 1 + 1 = p
        BY <2>4
      <3>2. T[p - 1 + 1] = q[1] /\ p - 1 + Len(q) <= Len(T)
        BY <2>5, <3>1 DEF Holds
      <3> QED
        BY <2>4, <3>1, <3>2
    <2>7. FirstIn(T, i, {Space, Equals, Pipe}) = p
      <3>1. p \in i .. Len(T) + 1
        <4>1. p >= i /\ p <= Len(T) + 1
          BY <1>6, <1>9, <2>6
        <4> QED
          BY <1>6, <4>1
      <3> QED
        BY <1>10, <2>6, <3>1, FirstInIs
    <2>8. j = p + 1 + Len(e) /\ Len(e) \in Nat
      <3>1. Len(e) \in Nat
        BY DEF Text
      <3> QED
        BY <1>6, <1>7, <1>8, <1>9, <2>5, <3>1
    <2>9. FirstIn(T, p + 1, Separators) = j
      <3>1. j \in p + 1 .. Len(T) + 1 /\ p + 1 \in Nat \ {0}
        BY <1>6, <1>8, <2>8
      <3>2. \A m \in p + 1 .. j - 1 : T[m] \notin Separators
        <4> HIDE DEF Separators
        <4> QED
          BY <2>2, <2>5, <2>8, <3>1, HoldsNone
      <3>3. j = Len(T) + 1 \/ T[j] \in Separators
        BY DEF Separators, Whitespace
      <3> HIDE DEF Separators
      <3> QED
        BY <3>1, <3>2, <3>3, FirstInIs
    <2>10. SubSeq(T, p + 1, j - 1) = e
      <3>1. p + 1 \in Nat \ {0} /\ j - 1 = p + 1 + Len(e) - 1
        BY <2>8
      <3> QED
        BY <2>5, <3>1, PartIs
    <2>11. Item(T, i) = [item |-> Argument(n, v), after |-> j]
      <3>1. ~(p > Len(T) \/ T[p] # Equals)
        BY <1>6, <2>6
      <3> QED
        BY <1>11, <1>12, <2>2, <2>7, <2>9, <2>10, <3>1 DEF Item, Separators
    <2> QED
      BY <1>1, <1>2, <1>8, <2>11
  <1> QED
    BY <1>13, <1>14

-----------------------------------------------------------------------------
(* Commands.                                                               *)

\* The text is read up to here: a part begins, or an argument has ended.
Complete(text, T) ==
  \/ text = <<>> \/ Last(text) = Pipe
  \/ Len(T) = Len(text)
  \/ Len(text) < Len(T) /\ T[Len(text) + 1] \in {Space, Pipe}

\* Whatever is written behind the text, the parser first yields the items.
ReadsAs(name, text, items) ==
  /\ text \in Text /\ items \in Seq(AnItem)
  /\ \A T \in Text :
       (Begins(text, T) /\ NameEnd(T) = Len(name) + 1 /\ Complete(text, T)) =>
         Items(T) = items \o ItemsFrom(T)[Len(text) + 1]

\* Nothing is read for the name.
LEMMA NameReadsAs ==
  ASSUME NEW name \in Text
  PROVE  ReadsAs(name, name, <<>>)
  <1>1. <<>> \in Seq(AnItem)
    OBVIOUS
  <1>2. ASSUME NEW T \in Text, Begins(name, T), NameEnd(T) = Len(name) + 1
        PROVE  Items(T) = <<>> \o ItemsFrom(T)[Len(name) + 1]
    <2>1. Len(name) \in Nat /\ Len(T) \in Nat /\ Len(name) <= Len(T)
      BY <1>2, BeginsFacts DEF Text
    <2>2. Len(name) + 1 \in 1 .. Len(T) + 1
      BY <2>1
    <2>3. PICK x \in Seq(AnItem) : x = ItemsFrom(T)[Len(name) + 1]
      BY <2>2, ItemsSteps
    <2>4. Items(T) = x
      BY <1>2, <2>3, ItemsSteps
    <2>5. <<>> \o x = x
      BY ConcatEmptySeq
    <2> QED
      BY <2>3, <2>4, <2>5
  <1> QED
    BY <1>1, <1>2 DEF ReadsAs

\* Where something was written behind a text.
LEMMA BeginsHolds ==
  ASSUME NEW a \in Text, NEW b \in Text, NEW T \in Text, Begins(a \o b, T)
  PROVE  Begins(a, T) /\ Holds(T, Len(a) + 1, b) /\ Len(a \o b) = Len(a) + Len(b)
  <1>1. PICK c \in Text : c = a \o b
    <2>1. a \o b \in Text
      BY DEF Text
    <2> QED
      BY <2>1
  <1>2. Begins(a, c)
    BY <1>1 DEF Begins
  <1>3. Begins(a, T)
    BY <1>1, <1>2, BeginsTransitive
  <1>4. Len(a) \in Nat /\ Len(b) \in Nat
    BY DEF Text
  <1>5. Holds(T, 1, c)
    <2>1. Len(c) <= Len(T) /\ \A i \in 1 .. Len(c) : T[i] = c[i]
      BY <1>1, BeginsFacts
    <2>2. Len(c) \in Nat /\ \A i \in 1 .. Len(c) : 1 - 1 + i = i
      BY DEF Text
    <2> QED
      BY <2>1, <2>2 DEF Holds
  <1>6. Holds(T, 1 + Len(a), b) /\ Len(a \o b) = Len(a) + Len(b)
    BY <1>1, <1>5, HoldsBoth
  <1>7. 1 + Len(a) = Len(a) + 1
    BY <1>4
  <1> QED
    BY <1>3, <1>6, <1>7

\* The item that starts at the next character that is no space.
LEMMA NextItem ==
  ASSUME NEW T \in Text, NEW i \in Nat \ {0}, NEW j \in Nat, i <= j, j <= Len(T),
         \A m \in i .. j - 1 : T[m] \in Whitespace, T[j] \notin Whitespace
  PROVE  ItemsFrom(T)[i] = <<Item(T, j).item>> \o ItemsFrom(T)[Item(T, j).after]
  <1>1. Len(T) \in Nat /\ \A m \in 1 .. Len(T) : T[m] \in Chars
    BY DEF Text
  <1>2. FirstIn(T, i, Chars \ Whitespace) = j
    <2>1. j \in i .. Len(T) + 1
      BY <1>1
    <2>2. \A m \in i .. j - 1 : T[m] \notin Chars \ Whitespace
      OBVIOUS
    <2>3. T[j] \in Chars \ Whitespace
      BY <1>1
    <2> HIDE DEF Chars, Whitespace
    <2> QED
      BY <2>1, <2>2, <2>3, FirstInIs
  <1>3. SkipSpace(T, i) = j
    BY <1>2, SkipSpaceFirst
  <1>4. i \in 1 .. Len(T) + 1 /\ ~(j > Len(T))
    BY <1>1
  <1> QED
    BY <1>3, <1>4, ItemsSteps

\* A new part.
LEMMA PipeReadsAs ==
  ASSUME NEW name \in Text, NEW text, NEW items, ReadsAs(name, text, items)
  PROVE  ReadsAs(name, Append(text, Pipe), items \o <<NextCommand>>)
  <1>1. text \in Text /\ items \in Seq(AnItem)
    BY DEF ReadsAs
  <1>2. Pipe \in Chars /\ NextCommand \in AnItem
    <2>1. Pipe \in Chars
      BY CharsFacts
    <2>2. NextCommand \in AnItem
      BY DEF AnItem
    <2> QED
      BY <2>1, <2>2
  <1>3. PICK q \in Text : q = <<Pipe>>
    <2>1. <<Pipe>> \in Seq(Chars)
      BY <1>2
    <2> QED
      BY <2>1 DEF Text
  <1>4. PICK more \in Text : more = Append(text, Pipe)
    <2>1. Append(text, Pipe) \in Seq(Chars)
      BY <1>1, <1>2 DEF Text
    <2> QED
      BY <2>1 DEF Text
  <1>5. PICK it \in Seq(AnItem) : it = <<NextCommand>>
    <2>1. <<NextCommand>> \in Seq(AnItem)
      BY <1>2
    <2> QED
      BY <2>1
  <1>6. more = text \o q
    BY <1>1, <1>3, <1>4, AppendIsConcat DEF Text
  <1>7. ASSUME NEW T \in Text, Begins(more, T), NameEnd(T) = Len(name) + 1
        PROVE  Items(T) = (items \o it) \o ItemsFrom(T)[Len(more) + 1]
    <2>1. Begins(text, T) /\ Holds(T, Len(text) + 1, q) /\ Len(more) = Len(text) + Len(q)
      BY <1>1, <1>6, <1>7, BeginsHolds
    <2>2. Len(q) = 1 /\ q[1] = Pipe /\ Len(text) \in Nat /\ Len(T) \in Nat
      BY <1>1, <1>3 DEF Text
    <2>3. PICK i \in Nat \ {0} : i = Len(text) + 1
      <3>1. Len(text) + 1 \in Nat \ {0}
        BY <2>2
      <3> QED
        BY <3>1
    <2>4. i <= Len(T) /\ T[i] = Pipe /\ Len(more) + 1 = i + 1
      <3>1. 1 \in 1 .. Len(q) /\ i - 1 + 1 = i
        BY <2>2
      <3>2. i - 1 + Len(q) <= Len(T) /\ T[i - 1 + 1] = q[1]
        BY <2>1, <2>3, <3>1 DEF Holds
      <3> QED
        BY <2>1, <2>2, <2>3, <3>1, <3>2
    <2>5. Complete(text, T)
      BY <2>2, <2>3, <2>4 DEF Complete
    <2>6. Items(T) = items \o ItemsFrom(T)[i]
      BY <1>7, <2>1, <2>3, <2>5 DEF ReadsAs
    <2>7. ItemsFrom(T)[i] = it \o ItemsFrom(T)[i + 1]
      <3>1. Item(T, i) = [item |-> NextCommand, after |-> i + 1]
        BY <2>4 DEF Item
      <3>2. Pipe \notin Whitespace
        BY DEF Pipe, Whitespace, Space
      <3>3. ItemsFrom(T)[i] = <<Item(T, i).item>> \o ItemsFrom(T)[Item(T, i).after]
        <4>1. \A m \in i .. i - 1 : T[m] \in Whitespace
          OBVIOUS
        <4> HIDE DEF Whitespace
        <4> QED
          BY <2>4, <3>2, <4>1, NextItem
      <3> QED
        BY <1>5, <3>1, <3>3
    <2>8. PICK x \in Seq(AnItem) : x = ItemsFrom(T)[i + 1]
      <3>1. i + 1 \in 1 .. Len(T) + 1
        BY <2>2, <2>4
      <3> QED
        BY <3>1, ItemsSteps
    <2>9. items \o (it \o x) = (items \o it) \o x
      BY <1>1, ConcatAssociative
    <2> QED
      BY <2>4, <2>6, <2>7, <2>8, <2>9
  <1>8. items \o it \in Seq(AnItem)
    BY <1>1
  <1> QED
    BY <1>4, <1>5, <1>7, <1>8 DEF ReadsAs

\* An argument.
Separator(text) == IF text = <<>> \/ Last(text) = Pipe THEN <<>> ELSE <<Space>>
ItemFor(arg) == Argument(arg.name, arg.value)

\* An argument is written after what separates it from the text so far.
LEMMA WriteArgText ==
  ASSUME NEW text \in Text, NEW arg, GoodArgument(arg)
  PROVE  /\ Separator(text) \in Text /\ text \o Separator(text) \in Text
         /\ WriteArg(text, arg) = (text \o Separator(text)) \o ArgumentText(arg)
         /\ WriteArg(text, arg) \in Text /\ ItemFor(arg) \in AnItem
  <1>1. Space \in Chars
    BY CharsFacts
  <1>2. PICK sep \in Text : sep = Separator(text)
    <2>1. <<Space>> \in Text /\ <<>> \in Text
      BY <1>1 DEF Text
    <2>2. Separator(text) \in Text
      BY <2>1 DEF Separator
    <2> QED
      BY <2>2
  <1>3. PICK a \in Text : a = text \o sep
    <2>1. text \o sep \in Text
      BY DEF Text
    <2> QED
      BY <2>1
  <1>4. PICK n \in Text : n = arg.name
    BY DEF GoodArgument
  <1>5. PICK w \in Text : w = ValueText(arg)
    BY ArgumentTextFacts
  <1>6. WriteArg(text, arg) = (a \o n) \o w
    BY <1>2, <1>3, <1>4, <1>5 DEF WriteArg, Separator, ValueText
  <1>7. (a \o n) \o w = a \o (n \o w) /\ n \o w = ArgumentText(arg) /\ a \o (n \o w) \in Text
    <2>1. (a \o n) \o w = a \o (n \o w)
      BY TextAfterText, SMTT(30)
    <2>3. a \o (n \o w) \in Text
      BY DEF Text
    <2>2. n \o w = ArgumentText(arg)
      BY <1>4, <1>5 DEF ArgumentText
    <2> QED
      BY <2>1, <2>2, <2>3
  <1>8. ItemFor(arg) \in AnItem
    BY DEF GoodArgument, AnItem, ItemFor
  <1> QED
    BY <1>2, <1>3, <1>6, <1>7, <1>8

\* If a text is read as some items, it is read as one more with an argument
\* after it.
LEMMA ArgumentReadsAs ==
  ASSUME NEW name \in Text, NEW text, NEW items, ReadsAs(name, text, items),
         NEW arg, GoodArgument(arg)
  PROVE  ReadsAs(name, WriteArg(text, arg), items \o <<ItemFor(arg)>>)
  <1>1. text \in Text /\ items \in Seq(AnItem)
    BY DEF ReadsAs
  <1>2. PICK sep \in Text : sep = Separator(text)
    BY <1>1, WriteArgText
  <1>3. PICK a \in Text : a = text \o sep
    BY <1>1, <1>2, WriteArgText
  <1>4. PICK w \in Text : w = ArgumentText(arg)
    BY ArgumentTextFacts
  <1>5. w # <<>> /\ \A k \in 1 .. Len(w) : w[k] \notin Separators
    BY <1>4, ArgumentTextFacts
  <1>6. PICK more \in Text : more = WriteArg(text, arg)
    BY <1>1, WriteArgText
  <1>7. more = a \o w
    BY <1>1, <1>2, <1>3, <1>4, <1>6, WriteArgText
  <1>8. PICK it \in Seq(AnItem) : it = <<ItemFor(arg)>>
    <2>1. ItemFor(arg) \in AnItem
      BY <1>1, WriteArgText
    <2>2. <<ItemFor(arg)>> \in Seq(AnItem)
      BY <2>1
    <2> QED
      BY <2>2
  <1>9. Len(text) \in Nat /\ Len(a) \in Nat /\ Len(w) \in Nat /\ Len(w) > 0 /\ Len(sep) \in Nat
    BY <1>1, <1>5, EmptySeq DEF Text
  <1>10. Len(more) = Len(a) + Len(w) /\ more # <<>> /\ Last(more) # Pipe
    <2>1. /\ Len(more) = Len(a) + Len(w)
          /\ \A k \in 1 .. Len(a) + Len(w) : more[k] = IF k <= Len(a) THEN a[k] ELSE w[k - Len(a)]
      BY <1>7, ConcatProperties DEF Text
    <2>2. ~(Len(a) + Len(w) <= Len(a)) /\ Len(a) + Len(w) - Len(a) = Len(w)
          /\ Len(a) + Len(w) \in 1 .. Len(a) + Len(w) /\ Len(w) \in 1 .. Len(w)
      BY <1>9
    <2>3. more[Len(more)] = w[Len(w)]
      BY <2>1, <2>2
    <2>4. more[Len(more)] # Pipe
      BY <1>5, <2>2, <2>3 DEF Separators
    <2>5. more # <<>>
      BY <1>9, <2>1, EmptySeq DEF Text
    <2> QED
      BY <2>1, <2>4, <2>5 DEF Last
  <1>11. ASSUME NEW T \in Text, Begins(more, T), NameEnd(T) = Len(name) + 1, Complete(more, T)
         PROVE  Items(T) = (items \o it) \o ItemsFrom(T)[Len(more) + 1]
    <2>1. Begins(a, T) /\ Holds(T, Len(a) + 1, w)
      BY <1>7, <1>11, BeginsHolds
    <2>2. Begins(text, T) /\ Holds(T, Len(text) + 1, sep) /\ Len(a) = Len(text) + Len(sep)
      BY <1>1, <1>3, <2>1, BeginsHolds
    <2>3. Len(T) \in Nat
      BY DEF Text
    <2>4. PICK i \in Nat \ {0} : i = Len(text) + 1
      <3>1. Len(text) + 1 \in Nat \ {0}
        BY <1>9
      <3> QED
        BY <3>1
    <2>5. PICK j \in Nat \ {0} : j = Len(a) + 1
      <3>1. Len(a) + 1 \in Nat \ {0}
        BY <1>9
      <3> QED
        BY <3>1
    <2>6. PICK k \in Nat : k = Len(more) + 1
      <3>1. Len(more) + 1 \in Nat
        BY <1>9, <1>10
      <3> QED
        BY <3>1
    <2>7. /\ j <= Len(T) /\ T[j] \notin Separators /\ k <= Len(T) + 1
          /\ Item(T, j) = [item |-> ItemFor(arg), after |-> k]
      <3>1. k = j + Len(ArgumentText(arg)) /\ Holds(T, j, ArgumentText(arg))
        BY <1>4, <1>9, <1>10, <2>1, <2>5, <2>6
      <3>2. k = Len(T) + 1 \/ (k <= Len(T) /\ T[k] \in {Space, Pipe})
        BY <1>9, <1>10, <1>11, <2>3, <2>6 DEF Complete
      <3> QED
        BY <3>1, <3>2, ArgumentIsRead DEF ItemFor
    <2>8. T[j] \notin Whitespace
      BY <2>7 DEF Separators
    <2>9. i <= j /\ Complete(text, T) /\ \A m \in i .. j - 1 : T[m] \in Whitespace
      <3>1. CASE text = <<>> \/ Last(text) = Pipe
        <4>1. Len(sep) = 0
          BY <1>2, <3>1 DEF Separator
        <4>2. i = j
          BY <1>9, <2>2, <2>4, <2>5, <4>1
        <4> QED
          BY <3>1, <4>2 DEF Complete
      <3>2. CASE ~(text = <<>> \/ Last(text) = Pipe)
        <4>1. Len(sep) = 1 /\ sep[1] = Space
          BY <1>2, <3>2 DEF Separator
        <4>2. j = i + 1 /\ 1 \in 1 .. Len(sep) /\ i - 1 + 1 = i
          BY <1>9, <2>2, <2>4, <2>5, <4>1
        <4>3. T[i - 1 + 1] = sep[1]
          BY <2>2, <2>4, <4>2 DEF Holds
        <4>4. T[i] = Space
          BY <4>1, <4>2, <4>3
        <4>5. Complete(text, T)
          <5>1. Len(text) < Len(T)
            BY <1>9, <2>3, <2>4, <2>7, <4>2
          <5> QED
            BY <2>4, <4>4, <5>1 DEF Complete
        <4>6. \A m \in i .. j - 1 : m = i
          BY <4>2
        <4>7. Space \in Whitespace
          BY DEF Whitespace
        <4> QED
          BY <4>2, <4>4, <4>5, <4>6, <4>7
      <3> QED
        BY <3>1, <3>2
    <2>10. Items(T) = items \o ItemsFrom(T)[i]
      BY <1>11, <2>2, <2>4, <2>9 DEF ReadsAs
    <2>11. ItemsFrom(T)[i] = it \o ItemsFrom(T)[k]
      <3>1. ItemsFrom(T)[i] = <<Item(T, j).item>> \o ItemsFrom(T)[Item(T, j).after]
        BY <2>7, <2>8, <2>9, NextItem
      <3> QED
        BY <1>8, <2>7, <3>1
    <2>12. PICK x \in Seq(AnItem) : x = ItemsFrom(T)[k]
      <3>1. k \in 1 .. Len(T) + 1
        BY <1>9, <1>10, <2>3, <2>6, <2>7
      <3> QED
        BY <3>1, ItemsSteps
    <2>13. items \o (it \o x) = (items \o it) \o x
      BY <1>1, ConcatAssociative
    <2> QED
      BY <2>6, <2>10, <2>11, <2>12, <2>13
  <1>12. items \o it \in Seq(AnItem)
    BY <1>1
  <1> QED
    BY <1>6, <1>8, <1>11, <1>12 DEF ReadsAs

\* Arguments and parts that can be written.
Arguments == {arg \in [name : Text, value : Text] : GoodArgument(arg)}
Parts == Seq(Arguments)
ItemsFor(part) == [j \in DOMAIN part |-> Argument(part[j].name, part[j].value)]

\* A part is written argument by argument.
LEMMA WritePartSteps ==
  ASSUME NEW text \in Text, NEW part \in Parts
  PROVE  \E t \in [0 .. Len(part) -> Text] :
           /\ t[0] = text /\ \A n \in 1 .. Len(part) : t[n] = WriteArg(t[n - 1], part[n])
           /\ WritePart(text, part) = t[Len(part)]
  <1> DEFINE g == [n \in 1 .. Len(part) |-> [x \in Text |-> WriteArg(x, part[n])]]
             Body(f) == [n \in 0 .. Len(part) |-> IF n = 0 THEN text ELSE WriteArg(f[n - 1], part[n])]
             t == CHOOSE f : f = Body(f)
  <1>1. Len(part) \in Nat /\ \A n \in 1 .. Len(part) : GoodArgument(part[n])
    BY DEF Parts, Arguments
  <1>2. \A n \in 1 .. Len(part) : \A x \in Text : WriteArg(x, part[n]) \in Text
    BY <1>1, WriteArgText
  <1>3. g \in [1 .. Len(part) -> [Text -> Text]]
    BY <1>2
  <1>4. PICK f \in [0 .. Len(part) -> Text] :
          f[0] = text /\ \A n \in 1 .. Len(part) : f[n] = g[n][f[n - 1]]
    <2>1. PICK N \in Nat : N = Len(part)
      BY <1>1
    <2>2. PICK h \in [1 .. N -> [Text -> Text]] : h = g
      BY <1>3, <2>1
    <2>3. \E f \in [0 .. N -> Text] : Solves(f, N, text, h)
      BY Recursion
    <2> HIDE DEF g
    <2> QED
      BY <2>1, <2>2, <2>3 DEF Solves
  <1>5. f = Body(f)
    <2>1. \A n \in 1 .. Len(part) : f[n - 1] \in Text
      BY <1>1
    <2>2. \A n \in 1 .. Len(part) : g[n][f[n - 1]] = WriteArg(f[n - 1], part[n])
      BY <2>1
    <2>3. \A n \in 0 .. Len(part) : f[n] = IF n = 0 THEN text ELSE WriteArg(f[n - 1], part[n])
      <3>1. \A n \in 0 .. Len(part) : n = 0 \/ n \in 1 .. Len(part)
        BY <1>1
      <3> HIDE DEF g
      <3> QED
        BY <1>4, <2>2, <3>1
    <2> QED
      BY <2>3
  <1>6. t = Body(t)
    BY <1>5
  <1>7. WritePart(text, part) = t[Len(part)]
    BY DEF WritePart
  <1> HIDE DEF t
  <1>8. t[0] = text /\ \A n \in 1 .. Len(part) : t[n] = WriteArg(t[n - 1], part[n])
    BY <1>1, <1>6
  <1>9. \A n \in 0 .. Len(part) : t[n] \in Text
    <2> DEFINE S == {n \in 0 .. Len(part) : t[n] \in Text}
    <2>1. 0 \in S
      BY <1>1, <1>8
    <2>2. ASSUME NEW n \in 1 .. Len(part), n - 1 \in S PROVE n \in S
      <3>1. t[n - 1] \in Text /\ WriteArg(t[n - 1], part[n]) \in Text
        BY <1>2, <2>2
      <3> QED
        BY <1>1, <1>8, <3>1
    <2>3. 0 .. Len(part) \subseteq S
      <3> HIDE DEF S
      <3> QED
        BY <1>1, <2>1, <2>2, UpTo
    <2> QED
      BY <2>3
  <1> QED
    BY <1>6, <1>7, <1>8, <1>9

\* A part.
LEMMA PartReadsAs ==
  ASSUME NEW name \in Text, NEW text, NEW items, ReadsAs(name, text, items), NEW part \in Parts
  PROVE  /\ ReadsAs(name, WritePart(text, part), items \o ItemsFor(part))
         /\ part # <<>> => Begins(WriteArg(text, part[1]), WritePart(text, part))
         /\ Begins(text, WritePart(text, part))
  <1>1. text \in Text /\ items \in Seq(AnItem)
    BY DEF ReadsAs
  <1>2. PICK t \in [0 .. Len(part) -> Text] :
          /\ t[0] = text /\ \A n \in 1 .. Len(part) : t[n] = WriteArg(t[n - 1], part[n])
          /\ WritePart(text, part) = t[Len(part)]
    BY <1>1, WritePartSteps
  <1>3. Len(part) \in Nat /\ DOMAIN part = 1 .. Len(part)
        /\ \A n \in 1 .. Len(part) : GoodArgument(part[n])
    BY DEF Parts, Arguments
  <1>4. PICK args \in Seq(AnItem) : args = ItemsFor(part) /\ Len(args) = Len(part)
                                    /\ \A n \in 1 .. Len(part) : args[n] = ItemFor(part[n])
    <2>1. ItemsFor(part) = [n \in 1 .. Len(part) |-> ItemFor(part[n])]
      BY <1>3 DEF ItemsFor, ItemFor
    <2>2. \A n \in 1 .. Len(part) : ItemFor(part[n]) \in AnItem
      BY <1>1, <1>3, WriteArgText
    <2>3. [n \in 1 .. Len(part) |-> ItemFor(part[n])] \in Seq(AnItem)
      BY <1>3, <2>2
    <2>4. Len(ItemsFor(part)) = Len(part)
      BY <1>3, <2>1, <2>3
    <2> QED
      BY <2>1, <2>3, <2>4
  <1> DEFINE S == {n \in 0 .. Len(part) : ReadsAs(name, t[n], items \o SubSeq(args, 1, n))}
  <1>5. 0 \in S
    <2>1. SubSeq(args, 1, 0) = <<>>
      BY SubSeqEmpty
    <2>2. items \o <<>> = items
      BY <1>1, ConcatEmptySeq
    <2>3. items \o SubSeq(args, 1, 0) = items
      BY <2>1, <2>2
    <2>4. ReadsAs(name, t[0], items \o SubSeq(args, 1, 0))
      BY <1>2, <2>3
    <2> QED
      BY <1>3, <2>4
  <1>6. ASSUME NEW n \in 1 .. Len(part), n - 1 \in S PROVE n \in S
    <2>1. PICK x \in Seq(AnItem) : x = SubSeq(args, 1, n - 1)
      <3>1. SubSeq(args, 1, n - 1) \in Seq(AnItem)
        BY <1>3, <1>4
      <3> QED
        BY <3>1
    <2>2. ReadsAs(name, t[n - 1], items \o x)
      BY <1>6, <2>1
    <2>3. ReadsAs(name, t[n], (items \o x) \o <<ItemFor(part[n])>>)
      BY <1>2, <1>3, <2>2, ArgumentReadsAs
    <2>4. ItemFor(part[n]) \in AnItem /\ args[n] = ItemFor(part[n])
      BY <1>1, <1>3, <1>4, WriteArgText
    <2>5. (items \o x) \o <<ItemFor(part[n])>> = items \o (x \o <<ItemFor(part[n])>>)
      <3>1. <<ItemFor(part[n])>> \in Seq(AnItem)
        BY <2>4
      <3>2. PICK one \in Seq(AnItem) : one = <<ItemFor(part[n])>>
        BY <3>1
      <3>3. (items \o x) \o one = items \o (x \o one)
        BY <1>1, ConcatAssociative
      <3> QED
        BY <3>2, <3>3
    <2>6. x \o <<ItemFor(part[n])>> = SubSeq(args, 1, n)
      <3>1. Append(x, args[n]) = SubSeq(args, 1, n)
        BY <1>4, <2>1, OneMore
      <3>2. Append(x, args[n]) = x \o <<args[n]>>
        BY <2>4, AppendIsConcat
      <3> QED
        BY <2>4, <3>1, <3>2
    <2>7. items \o (x \o <<ItemFor(part[n])>>) = items \o SubSeq(args, 1, n)
      BY <2>6
    <2>8. ReadsAs(name, t[n], items \o SubSeq(args, 1, n))
      BY <2>3, <2>5, <2>7
    <2> QED
      BY <1>3, <2>8
  <1>7. Len(part) \in S
    <2> HIDE DEF S
    <2>1. 0 .. Len(part) \subseteq S
      BY <1>3, <1>5, <1>6, UpTo
    <2> QED
      BY <1>3, <2>1
  <1>8. SubSeq(args, 1, Len(part)) = args
    BY <1>4, SubSeqFull
  <1>9. \A n \in 0 .. Len(part) : Begins(t[n], t[Len(part)])
    <2>1. ASSUME NEW n \in 1 .. Len(part) PROVE Begins(t[n - 1], t[n])
      <3>1. PICK x \in Text : x = t[n - 1]
        BY <1>3
      <3>2. PICK sep \in Text : sep = Separator(x)
        BY <1>3, WriteArgText
      <3>3. PICK w \in Text : w = ArgumentText(part[n])
        BY <1>3, ArgumentTextFacts
      <3>4. t[n] = (x \o sep) \o w
        BY <1>2, <1>3, <3>1, <3>2, <3>3, WriteArgText
      <3>5. (x \o sep) \o w = x \o (sep \o w)
        BY TextAfterText, SMTT(30)
      <3>6. sep \o w \in Text
        BY DEF Text
      <3> QED
        BY <3>1, <3>4, <3>5, <3>6 DEF Begins
    <2> QED
      BY <1>3, <2>1, BeginsLast
  <1>10. ReadsAs(name, WritePart(text, part), items \o ItemsFor(part)) /\ Begins(text, WritePart(text, part))
    BY <1>2, <1>3, <1>4, <1>7, <1>8, <1>9
  <1>11. part # <<>> => Begins(WriteArg(text, part[1]), WritePart(text, part))
    <2>1. part # <<>> => Len(part) >= 1
      BY <1>3, EmptySeq DEF Parts
    <2>2. Len(part) >= 1 => t[1] = WriteArg(text, part[1]) /\ Begins(t[1], t[Len(part)])
      <3>1. Len(part) >= 1 => 1 \in 1 .. Len(part) /\ 1 \in 0 .. Len(part) /\ 1 - 1 = 0
        BY <1>3
      <3> QED
        BY <1>2, <1>9, <3>1
    <2> QED
      BY <1>2, <2>1, <2>2
  <1> QED
    BY <1>10, <1>11

\* Where the name ends.
NoName == {c \in Chars : ~IsAlphanumeric(c)}

\* The name of a command ends where a character cannot be part of it.
LEMMA NameEndFirst ==
  ASSUME NEW T \in Text
  PROVE  LET end == FirstIn(T, 1, NoName)
         IN NameEnd(T) = IF end > Len(T) \/ T[end] = Space THEN end ELSE 1
  <1>1. DOMAIN T = 1 .. Len(T) /\ \A j \in 1 .. Len(T) : T[j] \in Chars
    BY DEF Text
  <1>2. {j \in DOMAIN T : ~IsAlphanumeric(T[j])} = {j \in 1 .. Len(T) : T[j] \in NoName}
    BY <1>1 DEF NoName
  <1>3. FirstOf(T, {j \in DOMAIN T : ~IsAlphanumeric(T[j])}) = FirstIn(T, 1, NoName)
    BY <1>2 DEF FirstIn
  <1> QED
    BY <1>3 DEF NameEnd

\* A space and a = are not part of a name.
LEMMA NoNameFacts ==
  Space \in NoName /\ Equals \in NoName /\ Equals # Space
  <1>1. ~IsAlphanumeric(Space) /\ ~IsAlphanumeric(Equals)
    BY DEF IsAlphanumeric, Whitespace
  <1>2. Space \in Chars /\ Equals \in Chars
    BY CharsFacts
  <1>3. Equals # Space
    BY DEF Equals, Space
  <1> QED
    BY <1>1, <1>2, <1>3 DEF NoName

\* A name that is followed by a space, or by nothing, is found.
LEMMA NameEndIs ==
  ASSUME NEW T \in Text, NEW name \in Text, Begins(name, T),
         \A k \in 1 .. Len(name) : IsAlphanumeric(name[k]),
         Len(T) = Len(name) \/ (Len(name) < Len(T) /\ T[Len(name) + 1] = Space)
  PROVE  NameEnd(T) = Len(name) + 1
  <1>1. Len(T) \in Nat /\ Len(name) \in Nat /\ \A i \in 1 .. Len(name) : T[i] = name[i]
    BY BeginsFacts DEF Text
  <1>2. PICK j \in Nat \ {0} : j = Len(name) + 1
    <2>1. Len(name) + 1 \in Nat \ {0}
      BY <1>1
    <2> QED
      BY <2>1
  <1>3. \A m \in 1 .. j - 1 : T[m] \notin NoName
    <2>1. \A m \in 1 .. j - 1 : m \in 1 .. Len(name)
      BY <1>1, <1>2
    <2> QED
      BY <1>1, <2>1 DEF NoName
  <1>4. j \in 1 .. Len(T) + 1 /\ (j = Len(T) + 1 \/ (j <= Len(T) /\ T[j] = Space))
    BY <1>1, <1>2
  <1>5. FirstIn(T, 1, NoName) = j
    BY <1>3, <1>4, NoNameFacts, FirstInIs
  <1> QED
    BY <1>1, <1>2, <1>4, <1>5, NameEndFirst

\* A first argument with a value is not taken for the name.
LEMMA NoNameEnd ==
  ASSUME NEW T \in Text, NEW arg, GoodArgument(arg), arg.value # <<>>, Begins(ArgumentText(arg), T)
  PROVE  NameEnd(T) = 1
  <1>1. PICK n \in Text : n = arg.name
    BY DEF GoodArgument
  <1>2. PICK w \in Text : w = ValueText(arg)
    BY ArgumentTextFacts
  <1>3. PICK e \in Text : e = Escaped(arg.value)
    BY EscapedSafe DEF GoodArgument
  <1>4. PICK q \in Text : q = <<Equals>>
    <2>1. Equals \in Chars
      BY CharsFacts
    <2>2. <<Equals>> \in Seq(Chars)
      BY <2>1
    <2> QED
      BY <2>2 DEF Text
  <1>5. w = q \o e /\ Len(q) = 1 /\ q[1] = Equals
    BY <1>2, <1>3, <1>4 DEF ValueText
  <1>6. Begins(n, T) /\ Holds(T, Len(n) + 1, w)
    <2>1. ArgumentText(arg) = n \o w
      BY <1>1, <1>2 DEF ArgumentText
    <2> QED
      BY <2>1, BeginsHolds
  <1>7. Len(T) \in Nat /\ Len(n) \in Nat /\ Len(n) <= Len(T) /\ \A i \in 1 .. Len(n) : T[i] = n[i]
    BY <1>6, BeginsFacts DEF Text
  <1>8. PICK p \in Nat \ {0} : p = Len(n) + 1
    <2>1. Len(n) + 1 \in Nat \ {0}
      BY <1>7
    <2> QED
      BY <2>1
  <1>9. p <= Len(T) /\ T[p] = Equals
    <2>1. Holds(T, p, q)
      BY <1>5, <1>6, <1>8, HoldsBoth
    <2>2. 1 \in 1 .. Len(q) /\ p - 1 + 1 = p
      BY <1>5
    <2>3. p - 1 + Len(q) <= Len(T) /\ T[p - 1 + 1] = q[1]
      BY <2>1, <2>2 DEF Holds
    <2> QED
      BY <1>5, <2>2, <2>3
  <1>10. PICK end \in Nat : end = FirstIn(T, 1, NoName)
    BY <1>7, FirstInFacts
  <1>11. end \in 1 .. Len(T) + 1 /\ \A m \in 1 .. end - 1 : T[m] \notin NoName
    BY <1>7, <1>10, FirstInFacts
  <1>12. end <= p
    <2>1. ~(p < end)
      <3>1. p < end => p \in 1 .. end - 1
        BY <1>11
      <3> QED
        BY <1>9, <1>11, <3>1, NoNameFacts
    <2> QED
      BY <1>11, <2>1
  <1>13. T[end] # Space
    <2>1. CASE end = p
      BY <1>9, <2>1, NoNameFacts
    <2>2. CASE end # p
      <3>1. end \in 1 .. Len(n)
        BY <1>7, <1>8, <1>11, <1>12, <2>2
      <3>2. n[end] \notin Separators
        BY <1>1, <3>1 DEF GoodArgument
      <3>3. T[end] = n[end] /\ Space \in Separators
        BY <1>7, <3>1 DEF Separators, Whitespace
      <3> QED
        BY <3>2, <3>3
    <2> QED
      BY <2>1, <2>2
  <1>14. ~(end > Len(T))
    BY <1>7, <1>9, <1>12
  <1> QED
    BY <1>10, <1>13, <1>14, NameEndFirst

\* Write and ItemsOf, part by part.
Opened(text, n) == IF n = 1 THEN text ELSE Append(text, Pipe)
NewPart(n) == IF n = 1 THEN <<>> ELSE <<NextCommand>>

\* A command is written part by part.
LEMMA WriteSteps ==
  ASSUME NEW name \in Text, NEW parts \in Seq(Parts)
  PROVE  \E t \in [0 .. Len(parts) -> Text] :
           /\ t[0] = name /\ \A n \in 1 .. Len(parts) : t[n] = WritePart(Opened(t[n - 1], n), parts[n])
           /\ Write(name, parts) = t[Len(parts)]
  <1> DEFINE g == [n \in 1 .. Len(parts) |-> [x \in Text |-> WritePart(Opened(x, n), parts[n])]]
             Body(f) == [n \in 0 .. Len(parts) |->
                           IF n = 0 THEN name ELSE WritePart(Opened(f[n - 1], n), parts[n])]
             t == CHOOSE f : f = Body(f)
  <1>1. Len(parts) \in Nat /\ \A n \in 1 .. Len(parts) : parts[n] \in Parts
    OBVIOUS
  <1>2. \A n \in 1 .. Len(parts) : \A x \in Text : WritePart(Opened(x, n), parts[n]) \in Text
    <2>1. SUFFICES ASSUME NEW n \in 1 .. Len(parts), NEW x \in Text
                   PROVE  WritePart(Opened(x, n), parts[n]) \in Text
      OBVIOUS
    <2>2. Pipe \in Chars
      BY CharsFacts
    <2>3. Opened(x, n) \in Text
      BY <2>2 DEF Opened, Text
    <2>4. PICK r \in [0 .. Len(parts[n]) -> Text] :
            WritePart(Opened(x, n), parts[n]) = r[Len(parts[n])]
      BY <1>1, <2>3, WritePartSteps
    <2>5. Len(parts[n]) \in Nat
      BY <1>1 DEF Parts
    <2> QED
      BY <2>4, <2>5
  <1>3. g \in [1 .. Len(parts) -> [Text -> Text]]
    BY <1>2
  <1>4. PICK f \in [0 .. Len(parts) -> Text] :
          f[0] = name /\ \A n \in 1 .. Len(parts) : f[n] = g[n][f[n - 1]]
    <2>1. PICK N \in Nat : N = Len(parts)
      BY <1>1
    <2>2. PICK h \in [1 .. N -> [Text -> Text]] : h = g
      BY <1>3, <2>1
    <2>3. \E f \in [0 .. N -> Text] : Solves(f, N, name, h)
      BY Recursion
    <2> HIDE DEF g
    <2> QED
      BY <2>1, <2>2, <2>3 DEF Solves
  <1>5. f = Body(f)
    <2>1. \A n \in 1 .. Len(parts) : f[n - 1] \in Text
      BY <1>1
    <2>2. \A n \in 1 .. Len(parts) : g[n][f[n - 1]] = WritePart(Opened(f[n - 1], n), parts[n])
      BY <2>1
    <2>3. \A n \in 0 .. Len(parts) : f[n] = IF n = 0 THEN name ELSE WritePart(Opened(f[n - 1], n), parts[n])
      <3>1. \A n \in 0 .. Len(parts) : n = 0 \/ n \in 1 .. Len(parts)
        BY <1>1
      <3> HIDE DEF g
      <3> QED
        BY <1>4, <2>2, <3>1
    <2> QED
      BY <2>3
  <1>6. t = Body(t)
    BY <1>5
  <1>7. Write(name, parts) = t[Len(parts)]
    BY DEF Write, Opened
  <1> HIDE DEF t
  <1>8. t[0] = name /\ \A n \in 1 .. Len(parts) : t[n] = WritePart(Opened(t[n - 1], n), parts[n])
    BY <1>1, <1>6
  <1>9. \A n \in 0 .. Len(parts) : t[n] \in Text
    <2> DEFINE S == {n \in 0 .. Len(parts) : t[n] \in Text}
    <2>1. 0 \in S
      BY <1>1, <1>8
    <2>2. ASSUME NEW n \in 1 .. Len(parts), n - 1 \in S PROVE n \in S
      <3>1. t[n - 1] \in Text /\ WritePart(Opened(t[n - 1], n), parts[n]) \in Text
        BY <1>2, <2>2
      <3> QED
        BY <1>1, <1>8, <3>1
    <2>3. 0 .. Len(parts) \subseteq S
      <3> HIDE DEF S
      <3> QED
        BY <1>1, <2>1, <2>2, UpTo
    <2> QED
      BY <2>3
  <1> QED
    BY <1>6, <1>7, <1>8, <1>9

WithPart(items, n, part) == (items \o NewPart(n)) \o ItemsFor(part)

\* The items of a part are items.
LEMMA ItemsForSeq ==
  ASSUME NEW part \in Parts
  PROVE  ItemsFor(part) \in Seq(AnItem)
  <1>1. Len(part) \in Nat /\ DOMAIN part = 1 .. Len(part)
        /\ \A n \in 1 .. Len(part) : GoodArgument(part[n])
    BY DEF Parts, Arguments
  <1>2. <<>> \in Text
    BY DEF Text
  <1>3. \A n \in 1 .. Len(part) : ItemFor(part[n]) \in AnItem
    BY <1>1, <1>2, WriteArgText
  <1>4. ItemsFor(part) = [n \in 1 .. Len(part) |-> ItemFor(part[n])]
    BY <1>1 DEF ItemsFor, ItemFor
  <1> QED
    BY <1>1, <1>3, <1>4

\* The items of a command, part by part.
LEMMA ItemsOfSteps ==
  ASSUME NEW parts \in Seq(Parts)
  PROVE  \E t \in [0 .. Len(parts) -> Seq(AnItem)] :
           /\ t[0] = <<>>
           /\ \A n \in 1 .. Len(parts) : t[n] = WithPart(t[n - 1], n, parts[n])
           /\ ItemsOf(parts) = t[Len(parts)]
  <1> DEFINE D == Seq(AnItem)
             g == [n \in 1 .. Len(parts) |-> [x \in D |-> WithPart(x, n, parts[n])]]
             Body(f) == [n \in 0 .. Len(parts) |->
                           IF n = 0 THEN <<>> ELSE WithPart(f[n - 1], n, parts[n])]
             t == CHOOSE f : f = Body(f)
  <1>1. Len(parts) \in Nat /\ \A n \in 1 .. Len(parts) : parts[n] \in Parts
    OBVIOUS
  <1>2. \A n \in 1 .. Len(parts) : \A x \in D : WithPart(x, n, parts[n]) \in D
    <2>1. SUFFICES ASSUME NEW n \in 1 .. Len(parts), NEW x \in D
                   PROVE  WithPart(x, n, parts[n]) \in D
      OBVIOUS
    <2>2. NextCommand \in AnItem
      BY DEF AnItem
    <2>3. NewPart(n) \in D
      BY <2>2 DEF NewPart
    <2>4. ItemsFor(parts[n]) \in D
      BY <1>1, ItemsForSeq
    <2> QED
      BY <2>3, <2>4 DEF WithPart
  <1>3. g \in [1 .. Len(parts) -> [D -> D]]
    BY <1>2
  <1>4. PICK f \in [0 .. Len(parts) -> D] :
          f[0] = <<>> /\ \A n \in 1 .. Len(parts) : f[n] = g[n][f[n - 1]]
    <2>1. PICK N \in Nat : N = Len(parts)
      BY <1>1
    <2>2. PICK h \in [1 .. N -> [D -> D]] : h = g
      BY <1>3, <2>1
    <2>3. PICK b \in D : b = <<>>
      <3>1. <<>> \in D
        OBVIOUS
      <3> HIDE DEF D
      <3> QED
        BY <3>1
    <2>4. \E f \in [0 .. N -> D] : Solves(f, N, b, h)
      <3> HIDE DEF D
      <3> QED
        BY Recursion
    <2> HIDE DEF g, D
    <2> QED
      BY <2>1, <2>2, <2>3, <2>4 DEF Solves
  <1>5. f = Body(f)
    <2>1. \A n \in 1 .. Len(parts) : f[n - 1] \in D
      BY <1>1
    <2>2. \A n \in 1 .. Len(parts) : g[n][f[n - 1]] = WithPart(f[n - 1], n, parts[n])
      BY <2>1
    <2>3. \A n \in 0 .. Len(parts) :
            f[n] = IF n = 0 THEN <<>> ELSE WithPart(f[n - 1], n, parts[n])
      <3>1. \A n \in 0 .. Len(parts) : n = 0 \/ n \in 1 .. Len(parts)
        BY <1>1
      <3> HIDE DEF g
      <3> QED
        BY <1>4, <2>2, <3>1
    <2> QED
      BY <2>3
  <1>6. t = Body(t)
    BY <1>5
  <1>7. ItemsOf(parts) = t[Len(parts)]
    BY DEF ItemsOf, ItemsFor, NewPart, WithPart
  <1> HIDE DEF t
  <1>8. t[0] = <<>> /\ \A n \in 1 .. Len(parts) : t[n] = WithPart(t[n - 1], n, parts[n])
    BY <1>1, <1>6
  <1>9. \A n \in 0 .. Len(parts) : t[n] \in D
    <2> DEFINE S == {n \in 0 .. Len(parts) : t[n] \in D}
    <2>1. 0 \in S
      <3>1. t[0] \in D
        BY <1>8
      <3> QED
        BY <1>1, <3>1
    <2>2. ASSUME NEW n \in 1 .. Len(parts), n - 1 \in S PROVE n \in S
      <3>1. t[n - 1] \in D /\ WithPart(t[n - 1], n, parts[n]) \in D
        BY <1>2, <2>2
      <3> QED
        BY <1>1, <1>8, <3>1
    <2>3. 0 .. Len(parts) \subseteq S
      <3> HIDE DEF S
      <3> QED
        BY <1>1, <2>1, <2>2, UpTo
    <2> QED
      BY <2>3
  <1> QED
    BY <1>6, <1>7, <1>8, <1>9

\* All parts.
LEMMA WriteReadsAs ==
  ASSUME NEW name \in Text, NEW parts \in Seq(Parts)
  PROVE  /\ ReadsAs(name, Write(name, parts), ItemsOf(parts))
         /\ parts # <<>> => Begins(WritePart(name, parts[1]), Write(name, parts))
         /\ parts = <<>> => Write(name, parts) = name
         /\ (Len(parts) = 1 /\ parts[1] = <<>>) => Write(name, parts) = name
  <1>1. PICK t \in [0 .. Len(parts) -> Text] :
          /\ t[0] = name /\ \A n \in 1 .. Len(parts) : t[n] = WritePart(Opened(t[n - 1], n), parts[n])
          /\ Write(name, parts) = t[Len(parts)]
    BY WriteSteps
  <1>2. PICK u \in [0 .. Len(parts) -> Seq(AnItem)] :
          /\ u[0] = <<>> /\ \A n \in 1 .. Len(parts) : u[n] = WithPart(u[n - 1], n, parts[n])
          /\ ItemsOf(parts) = u[Len(parts)]
    BY ItemsOfSteps
  <1>3. Len(parts) \in Nat /\ \A n \in 1 .. Len(parts) : parts[n] \in Parts
    OBVIOUS
  <1> DEFINE S == {n \in 0 .. Len(parts) : ReadsAs(name, t[n], u[n])}
  <1>4. 0 \in S
    <2>1. ReadsAs(name, t[0], u[0])
      BY <1>1, <1>2, NameReadsAs
    <2> QED
      BY <1>3, <2>1
  <1>5. ASSUME NEW n \in 1 .. Len(parts), ReadsAs(name, t[n - 1], u[n - 1])
        PROVE  ReadsAs(name, Opened(t[n - 1], n), u[n - 1] \o NewPart(n)) /\ n - 1 \in 0 .. Len(parts)
    <2>1. n - 1 \in 0 .. Len(parts)
      BY <1>3
    <2>2. CASE n = 1
      <3>1. PICK x \in Seq(AnItem) : x = u[n - 1]
        BY <2>1
      <3>2. x \o <<>> = x
        BY ConcatEmptySeq
      <3>3. Opened(t[n - 1], n) = t[n - 1] /\ u[n - 1] \o NewPart(n) = u[n - 1]
        BY <2>2, <3>1, <3>2 DEF Opened, NewPart
      <3> QED
        BY <1>5, <2>1, <3>3
    <2>3. CASE n # 1
      <3>1. Opened(t[n - 1], n) = Append(t[n - 1], Pipe) /\ NewPart(n) = <<NextCommand>>
        BY <2>3 DEF Opened, NewPart
      <3>2. ReadsAs(name, Append(t[n - 1], Pipe), u[n - 1] \o <<NextCommand>>)
        BY <1>5, PipeReadsAs
      <3> QED
        BY <2>1, <3>1, <3>2
    <2> QED
      BY <2>2, <2>3
  <1>6. ASSUME NEW n \in 1 .. Len(parts), n - 1 \in S PROVE n \in S
    <2>1. ReadsAs(name, Opened(t[n - 1], n), u[n - 1] \o NewPart(n))
      BY <1>5, <1>6
    <2>2. ReadsAs(name, WritePart(Opened(t[n - 1], n), parts[n]), (u[n - 1] \o NewPart(n)) \o ItemsFor(parts[n]))
      BY <1>3, <2>1, PartReadsAs
    <2>3. t[n] = WritePart(Opened(t[n - 1], n), parts[n])
          /\ u[n] = (u[n - 1] \o NewPart(n)) \o ItemsFor(parts[n])
      BY <1>1, <1>2 DEF WithPart
    <2>4. ReadsAs(name, t[n], u[n])
      BY <2>2, <2>3
    <2> QED
      BY <1>3, <2>4
  <1>7. 0 .. Len(parts) \subseteq S
    <2> HIDE DEF S
    <2> QED
      BY <1>3, <1>4, <1>6, UpTo
  <1>8. \A n \in 0 .. Len(parts) : ReadsAs(name, t[n], u[n])
    BY <1>7
  <1>9. ReadsAs(name, Write(name, parts), ItemsOf(parts))
    BY <1>1, <1>2, <1>3, <1>8
  <1>10. \A n \in 1 .. Len(parts) : Begins(t[n - 1], t[n])
    <2>1. SUFFICES ASSUME NEW n \in 1 .. Len(parts) PROVE Begins(t[n - 1], t[n])
      OBVIOUS
    <2>2. n - 1 \in 0 .. Len(parts)
      BY <1>3
    <2>3. PICK x \in Text : x = t[n - 1]
      BY <2>2
    <2>4. ReadsAs(name, Opened(x, n), u[n - 1] \o NewPart(n))
      BY <1>5, <1>8, <2>2, <2>3
    <2>5. Begins(Opened(x, n), t[n]) /\ Opened(x, n) \in Text
      <3>1. Begins(Opened(x, n), WritePart(Opened(x, n), parts[n]))
        BY <1>3, <2>4, PartReadsAs
      <3>2. Opened(x, n) \in Text
        BY <2>4 DEF ReadsAs
      <3> QED
        BY <1>1, <2>3, <3>1, <3>2
    <2>6. Begins(x, Opened(x, n))
      <3>1. CASE n = 1
        BY <3>1, BeginsSelf DEF Opened
      <3>2. CASE n # 1
        <4>1. Pipe \in Chars
          BY CharsFacts
        <4>2. <<Pipe>> \in Text
          BY <4>1 DEF Text
        <4>3. Append(x, Pipe) = x \o <<Pipe>>
          BY <4>1, AppendIsConcat DEF Text
        <4> QED
          BY <3>2, <4>2, <4>3 DEF Opened, Begins
      <3> QED
        BY <3>1, <3>2
    <2>7. t[n] \in Text
      BY <1>3
    <2> QED
      BY <2>3, <2>5, <2>6, <2>7, BeginsTransitive
  <1>11. \A n \in 0 .. Len(parts) : Begins(t[n], t[Len(parts)])
    BY <1>3, <1>10, BeginsLast
  <1>12. Len(parts) >= 1 => t[1] = WritePart(name, parts[1])
    <2>1. Len(parts) >= 1 => 1 \in 1 .. Len(parts) /\ 1 - 1 = 0
      BY <1>3
    <2> QED
      BY <1>1, <2>1 DEF Opened
  <1>13. parts # <<>> => Len(parts) >= 1
    BY <1>3, EmptySeq
  <1>14. parts # <<>> => Begins(WritePart(name, parts[1]), Write(name, parts))
    <2>1. Len(parts) >= 1 => 1 \in 0 .. Len(parts)
      BY <1>3
    <2> QED
      BY <1>1, <1>11, <1>12, <1>13, <2>1
  <1>15. parts = <<>> => Write(name, parts) = name
    <2>1. parts = <<>> => Len(parts) = 0
      BY EmptySeq
    <2> QED
      BY <1>1, <2>1
  <1>16. (Len(parts) = 1 /\ parts[1] = <<>>) => Write(name, parts) = name
    <2>1. SUFFICES ASSUME Len(parts) = 1, parts[1] = <<>> PROVE Write(name, parts) = name
      OBVIOUS
    <2>2. parts[1] \in Parts
      BY <1>3, <2>1
    <2>3. Len(parts[1]) = 0
      BY <2>1
    <2>4. WritePart(name, parts[1]) = name
      BY <2>2, <2>3, WritePartSteps
    <2> QED
      BY <1>1, <1>12, <2>1, <2>4
  <1> QED
    BY <1>9, <1>14, <1>15, <1>16

\* Commands that can be written: the name is alphanumeric and, if there is
\* none, the first argument has a value; the first of several parts has an
\* argument.
GoodCommand(name, parts) ==
  /\ name \in Text /\ \A k \in 1 .. Len(name) : IsAlphanumeric(name[k])
  /\ parts \in Seq(Parts)
  /\ Len(parts) > 1 => parts[1] # <<>>
  /\ (name = <<>> /\ parts # <<>> /\ parts[1] # <<>>) => parts[1][1].value # <<>>

\* Every command is read back as it was written: CommandParser yields the
\* name, the arguments and the parts that were given to OutCommand, whatever
\* is in the values, however long they are and however many there are.
THEOREM CommandIsReadBack ==
  ASSUME NEW name, NEW parts, GoodCommand(name, parts)
  PROVE  LET text == Write(name, parts)
         IN Name(text) = name /\ Items(text) = ItemsOf(parts)
  <1>1. name \in Text /\ (\A k \in 1 .. Len(name) : IsAlphanumeric(name[k])) /\ parts \in Seq(Parts)
    BY DEF GoodCommand
  <1>2. ReadsAs(name, Write(name, parts), ItemsOf(parts))
    BY <1>1, WriteReadsAs
  <1>3. PICK T \in Text : T = Write(name, parts)
    BY <1>2 DEF ReadsAs
  <1>4. ItemsOf(parts) \in Seq(AnItem)
    BY <1>2 DEF ReadsAs
  <1>5. Len(T) \in Nat /\ Len(name) \in Nat
    BY <1>1 DEF Text
  <1>6. NameEnd(T) = Len(name) + 1 /\ Begins(name, T)
    <2>1. CASE T = name
      <3>1. Begins(name, T)
        BY <2>1, BeginsSelf
      <3> QED
        BY <1>1, <2>1, <3>1, NameEndIs
    <2>2. CASE T # name
      <3>1. parts # <<>> /\ ~(Len(parts) = 1 /\ parts[1] = <<>>)
        BY <1>1, <1>3, <2>2, WriteReadsAs
      <3>2. Len(parts) \in Nat /\ Len(parts) >= 1
        BY <1>1, <3>1, EmptySeq
      <3>3. parts[1] # <<>> /\ parts[1] \in Parts
        <4>1. Len(parts) > 1 => parts[1] # <<>>
          BY DEF GoodCommand
        <4>2. Len(parts) = 1 \/ Len(parts) > 1
          <5>1. PICK m \in Nat : m = Len(parts)
            BY <3>2
          <5>2. m >= 1
            BY <3>2, <5>1
          <5>3. m = 1 \/ m > 1
            BY <5>2
          <5> QED
            BY <5>1, <5>3
        <4>3. parts[1] \in Parts
          BY <1>1, <3>2
        <4> QED
          BY <3>1, <4>1, <4>2, <4>3
      <3>4. PICK arg : arg = parts[1][1] /\ GoodArgument(arg)
        <4>1. 1 \in 1 .. Len(parts[1])
          BY <3>3, EmptySeq DEF Parts
        <4>2. GoodArgument(parts[1][1])
          BY <3>3, <4>1 DEF Parts, Arguments
        <4> QED
          BY <4>2
      <3>5. PICK sep \in Text : sep = Separator(name)
        BY <1>1, <3>4, WriteArgText
      <3>6. PICK w \in Text : w = ArgumentText(arg)
        BY <3>4, ArgumentTextFacts
      <3>7. PICK a \in Text : a = name \o sep
        BY <1>1, <3>4, <3>5, WriteArgText
      <3>8. PICK first \in Text : first = WriteArg(name, arg)
        BY <1>1, <3>4, WriteArgText
      <3>9. first = a \o w
        BY <1>1, <3>4, <3>5, <3>6, <3>7, <3>8, WriteArgText
      <3>10. Begins(first, T)
        <4>1. ReadsAs(name, name, <<>>)
          BY <1>1, NameReadsAs
        <4>2. PICK part \in Text : part = WritePart(name, parts[1])
          <5>1. ReadsAs(name, WritePart(name, parts[1]), <<>> \o ItemsFor(parts[1]))
            BY <1>1, <3>3, <4>1, PartReadsAs
          <5> QED
            BY <5>1 DEF ReadsAs
        <4>3. Begins(first, part)
          BY <1>1, <3>3, <3>4, <3>8, <4>1, <4>2, PartReadsAs
        <4>4. Begins(part, T)
          BY <1>1, <1>3, <3>1, <4>2, WriteReadsAs
        <4> QED
          BY <4>3, <4>4, BeginsTransitive
      <3>11. Begins(a, T)
        BY <3>9, <3>10, BeginsHolds
      <3>12. Begins(name, T) /\ Holds(T, Len(name) + 1, sep)
        BY <1>1, <3>7, <3>11, BeginsHolds
      <3>13. CASE name = <<>>
        <4>1. Len(name) = 0 /\ arg.value # <<>>
          BY <3>1, <3>3, <3>4, <3>13 DEF GoodCommand
        <4>2. first = w
          <5>1. sep = <<>>
            BY <3>5, <3>13 DEF Separator
          <5>2. <<>> \o <<>> = <<>> /\ <<>> \o w = w
            BY ConcatEmptySeq DEF Text
          <5> QED
            BY <3>7, <3>9, <3>13, <5>1, <5>2
        <4>3. NameEnd(T) = 1
          BY <3>4, <3>6, <3>10, <4>1, <4>2, NoNameEnd
        <4> QED
          BY <3>12, <4>1, <4>3
      <3>14. CASE name # <<>>
        <4>1. Last(name) # Pipe
          <5>1. Len(name) \in 1 .. Len(name)
            BY <1>1, <1>5, <3>14, EmptySeq DEF Text
          <5>2. IsAlphanumeric(name[Len(name)])
            BY <1>1, <5>1
          <5> QED
            BY <5>2 DEF Last, IsAlphanumeric
        <4>2. sep = <<Space>>
          BY <3>5, <3>14, <4>1 DEF Separator
        <4>3. Len(sep) = 1 /\ sep[1] = Space /\ 1 \in 1 .. Len(sep)
          BY <4>2
        <4>4. Len(name) + 1 - 1 + 1 = Len(name) + 1
          BY <1>5
        <4>5. Len(name) < Len(T) /\ T[Len(name) + 1] = Space
          <5>1. Len(name) + 1 - 1 + Len(sep) <= Len(T) /\ T[Len(name) + 1 - 1 + 1] = sep[1]
            BY <3>12, <4>3 DEF Holds
          <5> QED
            BY <1>5, <4>3, <4>4, <5>1
        <4> QED
          BY <1>1, <3>12, <4>5, NameEndIs
      <3> QED
        BY <3>13, <3>14
    <2> QED
      BY <2>1, <2>2
  <1>7. Name(T) = name
    <2>1. Len(name) <= Len(T) /\ \A i \in 1 .. Len(name) : T[i] = name[i]
      BY <1>1, <1>6, BeginsFacts
    <2>2. Holds(T, 1, name)
      <3>1. \A k \in 1 .. Len(name) : 1 - 1 + k = k
        BY <1>5
      <3>2. 1 - 1 + Len(name) <= Len(T)
        BY <1>5, <2>1
      <3> QED
        BY <2>1, <3>1, <3>2 DEF Holds
    <2>3. SubSeq(T, 1, 1 + Len(name) - 1) = name
      BY <1>1, <2>2, PartIs
    <2>4. 1 + Len(name) - 1 = NameEnd(T) - 1
      BY <1>5, <1>6
    <2> QED
      BY <2>3, <2>4 DEF Name
  <1>8. Items(T) = ItemsOf(parts)
    <2>1. Begins(T, T) /\ Complete(T, T)
      BY BeginsSelf DEF Complete
    <2>2. Items(T) = ItemsOf(parts) \o ItemsFrom(T)[Len(T) + 1]
      BY <1>2, <1>3, <1>6, <2>1 DEF ReadsAs
    <2>3. ItemsFrom(T)[Len(T) + 1] = <<>>
      <3>1. Len(T) + 1 \in 1 .. Len(T) + 1
        BY <1>5
      <3>2. SkipSpace(T, Len(T) + 1) \in Len(T) + 1 .. Len(T) + 1
        BY <3>1, SkipSpaceFacts
      <3>3. SkipSpace(T, Len(T) + 1) > Len(T)
        BY <1>5, <3>2
      <3> QED
        BY <3>1, <3>3, ItemsSteps
    <2>4. ItemsOf(parts) \o <<>> = ItemsOf(parts)
      BY <1>4, ConcatEmptySeq
    <2> QED
      BY <2>2, <2>3, <2>4
  <1> QED
    BY <1>3, <1>7, <1>8

\* The commands of the inputs can be written.
InputsWritable == kind = "command" => GoodCommand(input.name, input.parts)

\* The arguments of the inputs can be written.
LEMMA InputArguments ==
  ASSUME NEW v \in Values
  PROVE  v \in Text /\ Arg(v) \in Arguments
  <1>1. Characters \subseteq Chars
    <2>1. \A c \in Characters : c \in {Space, Pipe, Equals, Slash, Escape, "_", "s", "p", "t", "n", "a", "c", "d", "k"}
      BY DEF Characters
    <2> QED
      BY <2>1, CharsFacts
  <1>2. PICK n \in Nat : v \in [1 .. n -> Characters]
    BY ValueLenAssumption DEF Values
  <1>3. v \in Text
    <2>1. v \in Seq(Characters)
      BY <1>2
    <2>2. Len(v) = n /\ \A i \in 1 .. n : v[i] \in Chars
      BY <1>1, <1>2
    <2> QED
      BY <1>2, <2>2 DEF Text
  <1>4. "k" \in Chars /\ "k" \notin Separators \cup {Equals}
    <2>1. "k" \in Chars
      BY CharsFacts
    <2>2. "k" \notin Separators \cup {Equals}
      BY DEF Separators, Whitespace, Space, Pipe, Equals
    <2> QED
      BY <2>1, <2>2
  <1>5. <<"k">> \in Text /\ <<"k">> # <<>> /\ \A i \in 1 .. Len(<<"k">>) : <<"k">>[i] \notin Separators \cup {Equals}
    <2> HIDE DEF Separators
    <2> QED
      BY <1>4 DEF Text
  <1>6. Arg(v) \in [name : Text, value : Text] /\ Arg(v).name = <<"k">> /\ Arg(v).value = v
    BY <1>3, <1>5 DEF Arg
  <1>7. GoodArgument(Arg(v))
    BY <1>3, <1>5, <1>6 DEF GoodArgument
  <1> QED
    BY <1>3, <1>6, <1>7 DEF Arguments

\* So can their commands.
LEMMA InputCommands ==
  ASSUME NEW name \in {<<>>, <<"c", "d">>}, NEW v \in Values, NEW w \in Values,
         name = <<>> => v # <<>>,
         NEW parts \in {<<<<Arg(v), Arg(w)>>>>, <<<<Arg(v)>>, <<Arg(w)>>>>}
  PROVE  GoodCommand(name, parts)
  <1>1. PICK a \in Arguments : a = Arg(v)
    BY InputArguments
  <1>2. PICK b \in Arguments : b = Arg(w)
    BY InputArguments
  <1>3. name \in Text /\ \A i \in 1 .. Len(name) : IsAlphanumeric(name[i])
    <2>1. "c" \in Chars /\ "d" \in Chars
      BY CharsFacts
    <2>2. IsAlphanumeric("c") /\ IsAlphanumeric("d")
      BY DEF IsAlphanumeric, Whitespace, Space, Pipe, Equals, Slash, Escape
    <2>3. PICK c \in Chars : c = "c"
      BY <2>1
    <2>4. PICK d \in Chars : d = "d"
      BY <2>1
    <2>5. name = <<>> \/ name = <<c, d>>
      BY <2>3, <2>4
    <2>6. name \in Text
      <3>1. <<>> \in Seq(Chars) /\ <<c, d>> \in Seq(Chars)
        OBVIOUS
      <3> QED
        BY <2>5, <3>1 DEF Text
    <2>7. IsAlphanumeric(c) /\ IsAlphanumeric(d)
      BY <2>2, <2>3, <2>4
    <2>8. \A i \in 1 .. Len(name) : name[i] \in {c, d}
      BY <2>5
    <2> QED
      BY <2>6, <2>7, <2>8
  <1>4. parts \in {<<<<a, b>>>>, <<<<a>>, <<b>>>>}
    BY <1>1, <1>2
  <1>5. parts \in Seq(Seq(Arguments)) /\ parts # <<>> /\ parts[1] # <<>> /\ parts[1][1] = a
    <2>1. <<a>> \in Seq(Arguments) /\ <<b>> \in Seq(Arguments) /\ <<a, b>> \in Seq(Arguments)
      OBVIOUS
    <2>2. CASE parts = <<<<a, b>>>>
      <3>1. PICK r \in Seq(Arguments) : r = <<a, b>>
        BY <2>1
      <3>2. <<r>> \in Seq(Seq(Arguments)) /\ <<r>> # <<>> /\ <<r>>[1] = r
        OBVIOUS
      <3>3. r # <<>> /\ r[1] = a
        BY <3>1
      <3> QED
        BY <2>2, <3>1, <3>2, <3>3
    <2>3. CASE parts = <<<<a>>, <<b>>>>
      <3>1. PICK p \in Seq(Arguments) : p = <<a>>
        BY <2>1
      <3>2. PICK q \in Seq(Arguments) : q = <<b>>
        BY <2>1
      <3>3. <<p, q>> \in Seq(Seq(Arguments)) /\ <<p, q>> # <<>> /\ <<p, q>>[1] = p
        OBVIOUS
      <3>4. p # <<>> /\ p[1] = a
        BY <3>1
      <3> QED
        BY <2>3, <3>1, <3>2, <3>3, <3>4
    <2> QED
      BY <1>4, <2>2, <2>3
  <1>6. a.value = v
    BY <1>1 DEF Arg
  <1> QED
    BY <1>3, <1>5, <1>6 DEF GoodCommand, Parts

\* Every command that is written by OutCommand is read back by CommandParser,
\* in every state of the inputs, whatever the bound of the values is.
THEOREM CommandsSound == CodecSpec => []CommandsReadBack
  <1>1. CodecInit => InputsWritable
    BY DEF CodecInit, InputsWritable
  <1>2. InputsWritable /\ [CodecNext]_codecVars => InputsWritable'
    <2> SUFFICES ASSUME InputsWritable, [CodecNext]_codecVars PROVE InputsWritable'
      OBVIOUS
    <2>1. CASE PickCommand
      <3>0. PICK name \in {<<>>, <<"c", "d">>}, v \in Values, w \in Values :
              \E parts \in {<<<<Arg(v), Arg(w)>>>>, <<<<Arg(v)>>, <<Arg(w)>>>>} :
                (name = <<>> => v # <<>>) /\ input' = [name |-> name, parts |-> parts]
        BY <2>1 DEF PickCommand, Pick
      <3>1. PICK parts \in {<<<<Arg(v), Arg(w)>>>>, <<<<Arg(v)>>, <<Arg(w)>>>>} :
              (name = <<>> => v # <<>>) /\ input' = [name |-> name, parts |-> parts]
        BY <3>0
      <3>2. GoodCommand(name, parts)
        BY <3>1, InputCommands
      <3> QED
        BY <3>1, <3>2 DEF InputsWritable
    <2>2. CASE PickHeader
      BY <2>2 DEF PickHeader, Pick, InputsWritable
    <2>3. CASE PickAck
      BY <2>3 DEF PickAck, Pick, InputsWritable
    <2>4. CASE PickInit
      BY <2>4 DEF PickInit, Pick, InputsWritable
    <2>5. CASE PickVoice
      BY <2>5 DEF PickVoice, Pick, InputsWritable
    <2>6. CASE PickContent
      BY <2>6 DEF PickContent, Pick, InputsWritable
    <2>7. CASE PickChain
      BY <2>7 DEF PickChain, Pick, InputsWritable
    <2>8. CASE PickLongChain
      BY <2>8 DEF PickLongChain, Pick, InputsWritable
    <2>9. CASE UNCHANGED codecVars
      BY <2>9 DEF codecVars, InputsWritable
    <2> QED
      BY <2>1, <2>2, <2>3, <2>4, <2>5, <2>6, <2>7, <2>8, <2>9 DEF CodecNext
  <1>3. InputsWritable => CommandsReadBack
    BY CommandIsReadBack DEF InputsWritable, CommandsReadBack
  <1> QED
    BY <1>1, <1>2, <1>3, PTL DEF CodecSpec

-----------------------------------------------------------------------------
(* The keys of a license chain.                                            *)

\* Numbers that are equal modulo a number.
LEMMA DivMod ==
  ASSUME NEW x \in Int, NEW O \in Nat, O > 0
  PROVE  \E q \in Int : x = q * O + (x % O) /\ x % O \in 0 .. O - 1
  <1>1. x % O \in 0 .. O - 1
    OBVIOUS
  <1>2. x = (x \div O) * O + (x % O) /\ x \div O \in Int
    OBVIOUS
  <1> QED
    BY <1>1, <1>2

\* A multiple of a number is not smaller than it.
LEMMA Larger ==
  ASSUME NEW d \in Int, NEW O \in Nat, O > 0, d >= 1
  PROVE  d * O >= O
  <1>1. (d - 1) * O >= 0
    OBVIOUS
  <1>2. d * O = (d - 1) * O + O
    OBVIOUS
  <1> QED
    BY <1>1, <1>2

\* There is one remainder.
LEMMA ModUnique ==
  ASSUME NEW x \in Int, NEW O \in Nat, O > 0, NEW q \in Int, NEW r \in 0 .. O - 1, x = q * O + r
  PROVE  x % O = r
  <1>1. PICK p \in Int : x = p * O + (x % O) /\ x % O \in 0 .. O - 1
    BY DivMod
  <1>2. PICK s \in Int : s = x % O
    BY <1>1
  <1>3. (p - q) * O = r - s
    <2>1. (p - q) * O = p * O - q * O
      OBVIOUS
    <2>2. PICK a \in Int : a = p * O
      OBVIOUS
    <2>3. PICK b \in Int : b = q * O
      OBVIOUS
    <2>4. a + s = b + r
      BY <1>1, <1>2, <2>2, <2>3
    <2> QED
      BY <2>1, <2>2, <2>3, <2>4
  <1>4. ~(p - q >= 1)
    <2>1. p - q >= 1 => (p - q) * O >= O
      BY Larger
    <2> QED
      BY <1>1, <1>2, <1>3, <2>1
  <1>5. ~(q - p >= 1)
    <2>1. q - p >= 1 => (q - p) * O >= O
      BY Larger
    <2>2. (q - p) * O = s - r
      <3>1. (q - p) * O = -((p - q) * O)
        OBVIOUS
      <3> QED
        BY <1>1, <1>2, <1>3, <3>1
    <2> QED
      BY <1>1, <1>2, <2>1, <2>2
  <1>6. p = q
    BY <1>4, <1>5
  <1> QED
    BY <1>1, <1>2, <1>6

\* Numbers that differ by a multiple have the same remainder.
LEMMA ModDifference ==
  ASSUME NEW x \in Int, NEW y \in Int, NEW O \in Nat, O > 0, NEW q \in Int, x = y + q * O
  PROVE  x % O = y % O
  <1>1. PICK p \in Int : y = p * O + (y % O) /\ y % O \in 0 .. O - 1
    BY DivMod
  <1>2. PICK r \in 0 .. O - 1 : r = y % O
    BY <1>1
  <1>3. x = (p + q) * O + r /\ p + q \in Int
    BY <1>1, <1>2
  <1> QED
    BY <1>2, <1>3, ModUnique

\* What a block adds to a private key and to its public key.
Commutes(o, b, k, h, p) ==
  (((k * h + p) % o) * b) % o = (((k * b) % o) * h + ((p * b) % o)) % o

\* Deriving a key modulo a number commutes with taking its public key.
LEMMA DeriveMod ==
  ASSUME NEW O \in Nat, O > 0, NEW B \in Int, NEW k \in Int, NEW h \in Int, NEW p \in Int
  PROVE  Commutes(O, B, k, h, p)
  <1>1. PICK a \in Int : k * h + p = a * O + ((k * h + p) % O)
    BY DivMod
  <1>2. PICK b \in Int : k * B = b * O + ((k * B) % O)
    BY DivMod
  <1>3. PICK c \in Int : p * B = c * O + ((p * B) % O)
    BY DivMod
  <1>4. PICK u \in Int : u = (k * h + p) % O
    OBVIOUS
  <1>5. PICK v \in Int : v = (k * B) % O
    OBVIOUS
  <1>6. PICK w \in Int : w = (p * B) % O
    OBVIOUS
  <1>7. u * B = (v * h + w) + (b * h + c - a * B) * O
    <2>1. u = k * h + p - a * O
      BY <1>1, <1>4
    <2>2. v = k * B - b * O
      BY <1>2, <1>5
    <2>3. w = p * B - c * O
      BY <1>3, <1>6
    <2> QED
      BY <2>1, <2>2, <2>3
  <1>8. u * B \in Int /\ v * h + w \in Int /\ b * h + c - a * B \in Int
    OBVIOUS
  <1>9. PICK x \in Int : x = u * B
    BY <1>8
  <1>10. PICK y \in Int : y = v * h + w
    BY <1>8
  <1>11. PICK q \in Int : q = b * h + c - a * B
    BY <1>8
  <1>12. x % O = y % O
    <2>1. x = y + q * O
      BY <1>7, <1>9, <1>10, <1>11, Zenon
    <2> QED
      BY <2>1, ModDifference
  <1> QED
    BY <1>4, <1>5, <1>6, <1>9, <1>10, <1>12 DEF Commutes

\* The hash of a block is a number.
LEMMA HashKeyInt ==
  ASSUME Order \in Nat, Order > 1, NEW block \in Seq(Int), block # <<>>
  PROVE  HashKey(block) \in Int
  <1> DEFINE st(n, x) == (3 * x + At(block, n)) % (Order - 1)
             g == [n \in 1 .. Len(block) - 1 |-> [x \in Int |-> st(n, x)]]
             Body(f) == [n \in 0 .. Len(block) - 1 |->
                           IF n = 0 THEN 0 ELSE st(n, f[n - 1])]
             t == CHOOSE f : f = Body(f)
  <1>1. PICK N \in Nat : N = Len(block) - 1
    <2>1. Len(block) - 1 \in Nat
      BY EmptySeq
    <2> QED
      BY <2>1
  <1>2. \A n \in 1 .. N : \A x \in Int : st(n, x) \in Int
    <2>1. SUFFICES ASSUME NEW n \in 1 .. N, NEW x \in Int
                   PROVE  st(n, x) \in Int
      OBVIOUS
    <2>2. At(block, n) \in Int
      <3>1. n + 1 \in 1 .. Len(block)
        BY <1>1
      <3> QED
        BY <3>1 DEF At
    <2>3. PICK y \in Int : y = 3 * x + At(block, n)
      BY <2>2
    <2>4. PICK o \in Nat : o = Order - 1 /\ o > 0
      <3>1. Order - 1 \in Nat /\ Order - 1 > 0
        OBVIOUS
      <3> QED
        BY <3>1
    <2>5. y % o \in Int
      BY <2>4
    <2> QED
      BY <2>3, <2>4, <2>5
  <1>3. PICK h \in [1 .. N -> [Int -> Int]] : h = g
    <2>1. g \in [1 .. N -> [Int -> Int]]
      BY <1>1, <1>2
    <2> QED
      BY <2>1
  <1>4. PICK f \in [0 .. N -> Int] : Solves(f, N, 0, h)
    <2>1. 0 \in Int
      OBVIOUS
    <2> HIDE DEF g
    <2> QED
      BY <2>1, Recursion
  <1>5. f = Body(f)
    <2>1. \A n \in 1 .. N : f[n - 1] \in Int
      <3>1. \A n \in 1 .. N : n - 1 \in 0 .. N
        BY <1>1
      <3> QED
        BY <3>1
    <2>2. \A n \in 1 .. N : h[n][f[n - 1]] = st(n, f[n - 1])
      BY <1>1, <1>3, <2>1
    <2>3. \A n \in 0 .. N : f[n] = IF n = 0 THEN 0 ELSE st(n, f[n - 1])
      <3>1. \A n \in 0 .. N : n = 0 \/ n \in 1 .. N
        BY <1>1
      <3>2. f[0] = 0 /\ \A n \in 1 .. N : f[n] = h[n][f[n - 1]]
        BY <1>4 DEF Solves
      <3> HIDE DEF g, st
      <3> QED
        BY <2>2, <3>1, <3>2
    <2> QED
      BY <1>1, <2>3
  <1>6. t = Body(t)
    BY <1>5
  <1>7. HashKey(block) = 1 + t[Len(block) - 1]
    BY DEF HashKey
  <1> HIDE DEF t, st
  <1>8. t[0] = 0 /\ \A n \in 1 .. N : t[n] = st(n, t[n - 1])
    <2>1. t = [n \in 0 .. N |-> IF n = 0 THEN 0 ELSE st(n, t[n - 1])]
      BY <1>1, <1>6, Zenon
    <2>2. 0 \in 0 .. N /\ \A n \in 1 .. N : n \in 0 .. N /\ n # 0
      BY <1>1
    <2>3. \A n \in 0 .. N : t[n] = IF n = 0 THEN 0 ELSE st(n, t[n - 1])
      BY <2>1, Zenon
    <2> QED
      BY <2>2, <2>3
  <1>9. N \in {n \in 0 .. N : t[n] \in Int}
    <2> DEFINE S == {n \in 0 .. N : t[n] \in Int}
    <2>1. 0 \in S
      BY <1>1, <1>8
    <2>2. ASSUME NEW n \in 1 .. N, n - 1 \in S PROVE n \in S
      <3>1. t[n - 1] \in Int
        BY <2>2
      <3>2. t[n] \in Int
        BY <1>2, <1>8, <3>1
      <3> QED
        BY <1>1, <3>2
    <2>3. 0 .. N \subseteq S
      <3> HIDE DEF S
      <3> QED
        BY <1>1, <2>1, <2>2, UpTo
    <2>4. N \in 0 .. N
      BY <1>1
    <2> QED
      BY <2>3, <2>4
  <1> QED
    BY <1>1, <1>7, <1>9

\* Every block has a length, bytes, a private key and the public key that
\* belongs to it.
HasKeys(data, blocks, private) ==
  \A i \in 1 .. Len(blocks) :
    /\ blocks[i].len \in Nat
    /\ BlockData(data, blocks, i) \in Seq(Int) /\ BlockData(data, blocks, i) # <<>>
    /\ private[i] \in Int
    /\ GetPublicKey(BlockData(data, blocks, i)) = PublicOf(private[i])

\* A derived private key belongs to the derived public key.
LEMMA DeriveFacts ==
  ASSUME Order \in Nat, Order > 1, Base \in Int,
         NEW k \in Int, NEW block \in Seq(Int), block # <<>>, NEW p \in Int
  PROVE  /\ PublicOf(k) \in Int /\ Derive(k, block, p) \in Int
         /\ PublicOf(Derive(k, block, p)) = Derive(PublicOf(k), block, PublicOf(p))
  <1>1. PICK h \in Int : h = HashKey(block)
    BY HashKeyInt
  <1>2. PICK o \in Nat : o = Order /\ o > 0
    OBVIOUS
  <1>3. PICK b \in Int : b = Base
    OBVIOUS
  <1>4. (((k * h + p) % o) * b) % o = (((k * b) % o) * h + ((p * b) % o)) % o
    <2>1. Commutes(o, b, k, h, p)
      BY <1>1, <1>2, <1>3, DeriveMod
    <2> QED
      BY <2>1 DEF Commutes
  <1>5. (k * b) % o \in Int /\ (k * h + p) % o \in Int
    BY <1>2
  <1>6. PublicOf(k) = (k * b) % o /\ PublicOf(p) = (p * b) % o
    BY <1>2, <1>3 DEF PublicOf
  <1>7. Derive(k, block, p) = (k * h + p) % o
    BY <1>1, <1>2 DEF Derive
  <1>8. PublicOf(Derive(k, block, p)) = (((k * h + p) % o) * b) % o
    BY <1>2, <1>3, <1>7 DEF PublicOf
  <1>9. Derive(PublicOf(k), block, PublicOf(p)) = (((k * b) % o) * h + ((p * b) % o)) % o
    BY <1>1, <1>2, <1>6 DEF Derive
  <1> QED
    BY <1>4, <1>5, <1>6, <1>7, <1>8, <1>9

\* The keys of a client, block by block.
PublicKeys(t, data, blocks, private, root) ==
  /\ t[0] = root
  /\ \A n \in 1 .. Len(blocks) :
       t[n] = Derive(PublicOf(private[n]), BlockData(data, blocks, n), t[n - 1])
  /\ DerivePublicKey(data, blocks, root) = t[Len(blocks)]

\* derive_public_key, block by block.
LEMMA PublicSteps ==
  ASSUME Order \in Nat, Order > 1, Base \in Int, NEW root \in Int,
         NEW S, NEW data, NEW blocks \in Seq(S), NEW private, HasKeys(data, blocks, private)
  PROVE  \E t \in [0 .. Len(blocks) -> Int] : PublicKeys(t, data, blocks, private, root)
  <1> DEFINE st(n, x) == Derive(GetPublicKey(BlockData(data, blocks, n)), BlockData(data, blocks, n), x)
             g == [n \in 1 .. Len(blocks) |-> [x \in Int |-> st(n, x)]]
             Body(f) == [n \in 0 .. Len(blocks) |-> IF n = 0 THEN root ELSE st(n, f[n - 1])]
             t == CHOOSE f : f = Body(f)
  <1>1. PICK N \in Nat : N = Len(blocks)
    OBVIOUS
  <1>2. \A n \in 1 .. N : \A x \in Int :
          st(n, x) \in Int /\ st(n, x) = Derive(PublicOf(private[n]), BlockData(data, blocks, n), x)
    <2>1. SUFFICES ASSUME NEW n \in 1 .. N, NEW x \in Int
                   PROVE  /\ st(n, x) \in Int
                          /\ st(n, x) = Derive(PublicOf(private[n]), BlockData(data, blocks, n), x)
      OBVIOUS
    <2>2. PICK block \in Seq(Int) : block = BlockData(data, blocks, n) /\ block # <<>>
      BY <1>1 DEF HasKeys
    <2>3. PICK k \in Int : k = private[n] /\ GetPublicKey(block) = PublicOf(k)
      BY <1>1, <2>2 DEF HasKeys
    <2>4. PublicOf(k) \in Int
      BY <2>2, DeriveFacts
    <2>5. Derive(PublicOf(k), block, x) \in Int
      BY <2>2, <2>4, DeriveFacts
    <2> QED
      BY <2>2, <2>3, <2>5
  <1> HIDE DEF st
  <1>3. PICK h \in [1 .. N -> [Int -> Int]] : h = g
    <2>1. g \in [1 .. N -> [Int -> Int]]
      BY <1>1, <1>2
    <2> QED
      BY <2>1
  <1>4. PICK f \in [0 .. N -> Int] : Solves(f, N, root, h)
    <2> HIDE DEF g
    <2> QED
      BY Recursion
  <1>5. f = Body(f)
    <2>1. \A n \in 1 .. N : f[n - 1] \in Int
      <3>1. \A n \in 1 .. N : n - 1 \in 0 .. N
        BY <1>1
      <3> QED
        BY <3>1
    <2>2. \A n \in 1 .. N : h[n][f[n - 1]] = st(n, f[n - 1])
      BY <1>1, <1>3, <2>1
    <2>3. \A n \in 0 .. N : f[n] = IF n = 0 THEN root ELSE st(n, f[n - 1])
      <3>1. \A n \in 0 .. N : n = 0 \/ n \in 1 .. N
        BY <1>1
      <3>2. f[0] = root /\ \A n \in 1 .. N : f[n] = h[n][f[n - 1]]
        BY <1>4 DEF Solves
      <3> HIDE DEF g
      <3> QED
        BY <2>2, <3>1, <3>2
    <2> QED
      BY <1>1, <2>3
  <1>6. t = Body(t)
    BY <1>5
  <1>7. DerivePublicKey(data, blocks, root) = t[Len(blocks)]
    BY DEF DerivePublicKey, st
  <1> HIDE DEF t
  <1>8. t = [n \in 0 .. N |-> IF n = 0 THEN root ELSE st(n, t[n - 1])]
    BY <1>1, <1>6, Zenon
  <1>9. t[0] = root /\ \A n \in 1 .. N : t[n] = st(n, t[n - 1])
    <2>1. 0 \in 0 .. N /\ \A n \in 1 .. N : n \in 0 .. N /\ n # 0
      BY <1>1
    <2>2. \A n \in 0 .. N : t[n] = IF n = 0 THEN root ELSE st(n, t[n - 1])
      BY <1>8, Zenon
    <2> QED
      BY <2>1, <2>2
  <1>10. \A n \in 0 .. N : t[n] \in Int
    <2> DEFINE U == {n \in 0 .. N : t[n] \in Int}
    <2>1. 0 \in U
      BY <1>1, <1>9
    <2>2. ASSUME NEW n \in 1 .. N, n - 1 \in U PROVE n \in U
      <3>1. t[n - 1] \in Int /\ n \in 0 .. N
        BY <1>1, <2>2
      <3>2. t[n] \in Int
        BY <1>2, <1>9, <3>1
      <3> QED
        BY <3>1, <3>2
    <2>3. 0 .. N \subseteq U
      <3> HIDE DEF U
      <3> QED
        BY <1>1, <2>1, <2>2, UpTo
    <2> QED
      BY <2>3
  <1>11. t \in [0 .. N -> Int]
    BY <1>8, <1>10
  <1>12. \A n \in 1 .. N : t[n] = Derive(PublicOf(private[n]), BlockData(data, blocks, n), t[n - 1])
    <2>1. \A n \in 1 .. N : n - 1 \in 0 .. N
      BY <1>1
    <2> QED
      BY <1>2, <1>9, <1>10, <2>1
  <1> HIDE DEF Body
  <1> QED
    BY <1>1, <1>7, <1>9, <1>11, <1>12 DEF PublicKeys

\* The keys of a server, block by block.
PrivateKeys(t, data, blocks, private, s, first) ==
  /\ \A n \in 0 .. Len(blocks) :
       t[n] = IF n < s THEN first ELSE Derive(private[n], BlockData(data, blocks, n), t[n - 1])
  /\ DerivePrivateKey(data, blocks, private, s, first) = t[Len(blocks)]

\* derive_private_key, block by block.
LEMMA PrivateSteps ==
  ASSUME Order \in Nat, Order > 1, Base \in Int, NEW s \in Nat \ {0}, NEW first \in Int,
         NEW S, NEW data, NEW blocks \in Seq(S), NEW private, HasKeys(data, blocks, private)
  PROVE  \E t \in [0 .. Len(blocks) -> Int] : PrivateKeys(t, data, blocks, private, s, first)
  <1> DEFINE st(n, x) == Derive(private[n], BlockData(data, blocks, n), x)
             g == [n \in 1 .. Len(blocks) |-> [x \in Int |-> IF n < s THEN first ELSE st(n, x)]]
             Body(f) == [n \in 0 .. Len(blocks) |-> IF n < s THEN first ELSE st(n, f[n - 1])]
             t == CHOOSE f : f = Body(f)
  <1>1. PICK N \in Nat : N = Len(blocks)
    OBVIOUS
  <1>2. \A n \in 1 .. N : \A x \in Int : st(n, x) \in Int
    <2>1. SUFFICES ASSUME NEW n \in 1 .. N, NEW x \in Int PROVE st(n, x) \in Int
      OBVIOUS
    <2>2. PICK block \in Seq(Int) : block = BlockData(data, blocks, n) /\ block # <<>>
      BY <1>1 DEF HasKeys
    <2>3. PICK k \in Int : k = private[n]
      BY <1>1 DEF HasKeys
    <2>4. Derive(k, block, x) \in Int
      BY <2>2, DeriveFacts
    <2> QED
      BY <2>2, <2>3, <2>4
  <1> HIDE DEF st
  <1>3. PICK h \in [1 .. N -> [Int -> Int]] : h = g
    <2>1. g \in [1 .. N -> [Int -> Int]]
      BY <1>1, <1>2
    <2> QED
      BY <2>1
  <1>4. PICK f \in [0 .. N -> Int] : Solves(f, N, first, h)
    <2> HIDE DEF g
    <2> QED
      BY Recursion
  <1>5. f = Body(f)
    <2>1. \A n \in 1 .. N : f[n - 1] \in Int
      <3>1. \A n \in 1 .. N : n - 1 \in 0 .. N
        BY <1>1
      <3> QED
        BY <3>1
    <2>2. \A n \in 1 .. N : h[n][f[n - 1]] = IF n < s THEN first ELSE st(n, f[n - 1])
      BY <1>1, <1>3, <2>1
    <2>3. \A n \in 0 .. N : f[n] = IF n < s THEN first ELSE st(n, f[n - 1])
      <3>1. \A n \in 0 .. N : (n = 0 /\ n < s) \/ n \in 1 .. N
        BY <1>1
      <3>2. f[0] = first /\ \A n \in 1 .. N : f[n] = h[n][f[n - 1]]
        BY <1>4 DEF Solves
      <3> HIDE DEF g
      <3> QED
        BY <2>2, <3>1, <3>2
    <2> QED
      BY <1>1, <2>3
  <1>6. t = Body(t)
    BY <1>5
  <1>7. DerivePrivateKey(data, blocks, private, s, first) = t[Len(blocks)]
    BY DEF DerivePrivateKey, st
  <1> HIDE DEF t
  <1>8. t = [n \in 0 .. N |-> IF n < s THEN first ELSE st(n, t[n - 1])]
    BY <1>1, <1>6, Zenon
  <1>9. \A n \in 0 .. N : t[n] = IF n < s THEN first ELSE st(n, t[n - 1])
    BY <1>8, Zenon
  <1>10. \A n \in 0 .. N : t[n] \in Int
    <2> DEFINE U == {n \in 0 .. N : t[n] \in Int}
    <2>1. 0 \in U
      <3>1. 0 < s /\ 0 \in 0 .. N
        BY <1>1
      <3> QED
        BY <1>9, <3>1
    <2>2. ASSUME NEW n \in 1 .. N, n - 1 \in U PROVE n \in U
      <3>1. n \in 0 .. N
        BY <1>1
      <3> QED
        BY <1>2, <1>9, <2>2, <3>1
    <2>3. 0 .. N \subseteq U
      <3> HIDE DEF U
      <3> QED
        BY <1>1, <2>1, <2>2, UpTo
    <2> QED
      BY <2>3
  <1>11. t \in [0 .. N -> Int]
    BY <1>8, <1>10
  <1>12. \A n \in 0 .. N :
           t[n] = IF n < s THEN first ELSE Derive(private[n], BlockData(data, blocks, n), t[n - 1])
    BY <1>9 DEF st
  <1> HIDE DEF Body
  <1> QED
    BY <1>1, <1>7, <1>11, <1>12 DEF PrivateKeys

\* A chain of bytes is made of blocks with lengths.
HasLens(blocks, n) == \A j \in 1 .. n : blocks[j].len \in Nat
StartAlike(b, blocks, n) == \A j \in 1 .. n : b[j] = blocks[j]

\* Where the blocks of a chain start, one by one.
Offsets(t, blocks, i) ==
  /\ t[0] = 1
  /\ \A n \in 1 .. i - 1 : t[n] = t[n - 1] + blocks[n].len
  /\ Offset(blocks, i) = t[i - 1]

\* The places are found by adding up the lengths.
LEMMA OffsetSteps ==
  ASSUME NEW blocks, NEW i \in Nat \ {0}, HasLens(blocks, i - 1)
  PROVE  \E t \in [0 .. i - 1 -> Nat] : Offsets(t, blocks, i)
  <1> DEFINE st(n, x) == x + blocks[n].len
             g == [n \in 1 .. i - 1 |-> [x \in Nat |-> st(n, x)]]
             Body(f) == [n \in 0 .. i - 1 |-> IF n = 0 THEN 1 ELSE st(n, f[n - 1])]
             t == CHOOSE f : f = Body(f)
  <1>1. PICK N \in Nat : N = i - 1
    <2>1. i - 1 \in Nat
      OBVIOUS
    <2> QED
      BY <2>1
  <1>2. \A n \in 1 .. N : \A x \in Nat : st(n, x) \in Nat
    BY <1>1 DEF HasLens
  <1> HIDE DEF st
  <1>3. PICK h \in [1 .. N -> [Nat -> Nat]] : h = g
    <2>1. g \in [1 .. N -> [Nat -> Nat]]
      BY <1>1, <1>2
    <2> QED
      BY <2>1
  <1>4. PICK f \in [0 .. N -> Nat] : Solves(f, N, 1, h)
    <2>1. 1 \in Nat
      OBVIOUS
    <2> HIDE DEF g
    <2> QED
      BY <2>1, Recursion
  <1>5. f = Body(f)
    <2>1. \A n \in 1 .. N : f[n - 1] \in Nat
      <3>1. \A n \in 1 .. N : n - 1 \in 0 .. N
        BY <1>1
      <3> QED
        BY <3>1
    <2>2. \A n \in 1 .. N : h[n][f[n - 1]] = st(n, f[n - 1])
      BY <1>1, <1>3, <2>1
    <2>3. \A n \in 0 .. N : f[n] = IF n = 0 THEN 1 ELSE st(n, f[n - 1])
      <3>1. \A n \in 0 .. N : n = 0 \/ n \in 1 .. N
        BY <1>1
      <3>2. f[0] = 1 /\ \A n \in 1 .. N : f[n] = h[n][f[n - 1]]
        BY <1>4 DEF Solves
      <3> HIDE DEF g
      <3> QED
        BY <2>2, <3>1, <3>2
    <2> QED
      BY <1>1, <2>3
  <1>6. t = Body(t)
    BY <1>5
  <1>7. Offset(blocks, i) = t[i - 1]
    BY DEF Offset, st
  <1> HIDE DEF t
  <1>8. t = [n \in 0 .. N |-> IF n = 0 THEN 1 ELSE st(n, t[n - 1])]
    BY <1>1, <1>6, Zenon
  <1>9. t[0] = 1 /\ \A n \in 1 .. N : t[n] = st(n, t[n - 1])
    <2>1. 0 \in 0 .. N /\ \A n \in 1 .. N : n \in 0 .. N /\ n # 0
      BY <1>1
    <2>2. \A n \in 0 .. N : t[n] = IF n = 0 THEN 1 ELSE st(n, t[n - 1])
      BY <1>8, Zenon
    <2> QED
      BY <2>1, <2>2
  <1>10. \A n \in 0 .. N : t[n] \in Nat
    <2> DEFINE U == {n \in 0 .. N : t[n] \in Nat}
    <2>1. 0 \in U
      BY <1>1, <1>9
    <2>2. ASSUME NEW n \in 1 .. N, n - 1 \in U PROVE n \in U
      <3>1. t[n - 1] \in Nat /\ n \in 0 .. N
        BY <1>1, <2>2
      <3>2. t[n] \in Nat
        BY <1>2, <1>9, <3>1
      <3> QED
        BY <3>1, <3>2
    <2>3. 0 .. N \subseteq U
      <3> HIDE DEF U
      <3> QED
        BY <1>1, <2>1, <2>2, UpTo
    <2> QED
      BY <2>3
  <1>11. t \in [0 .. N -> Nat]
    BY <1>8, <1>10
  <1> HIDE DEF Body
  <1> QED
    BY <1>1, <1>7, <1>9, <1>11 DEF Offsets, st

\* Two chains that start with the same blocks have them at the same places,
\* whatever follows.
LEMMA SameOffset ==
  ASSUME NEW b, NEW blocks, NEW k \in Nat, NEW i \in Nat \ {0}, i <= k,
         HasLens(blocks, k - 1), StartAlike(b, blocks, i - 1),
         NEW t \in [0 .. k - 1 -> Nat], Offsets(t, blocks, k)
  PROVE  Offset(b, i) = t[i - 1]
  <1>1. HasLens(b, i - 1)
    BY DEF HasLens, StartAlike
  <1>2. PICK u \in [0 .. i - 1 -> Nat] : Offsets(u, b, i)
    BY <1>1, OffsetSteps
  <1> DEFINE U == {n \in 0 .. i - 1 : u[n] = t[n]}
  <1>3. 0 \in U
    BY <1>2 DEF Offsets
  <1>4. ASSUME NEW n \in 1 .. i - 1, n - 1 \in U PROVE n \in U
    <2>1. n \in 0 .. i - 1 /\ n - 1 \in 0 .. i - 1 /\ n \in 1 .. k - 1
      OBVIOUS
    <2>2. u[n] = u[n - 1] + b[n].len
      BY <1>2 DEF Offsets
    <2>3. t[n] = t[n - 1] + blocks[n].len
      BY <2>1 DEF Offsets
    <2>4. u[n - 1] = t[n - 1] /\ b[n].len = blocks[n].len
      BY <1>4 DEF StartAlike
    <2>5. u[n] = t[n]
      BY <2>2, <2>3, <2>4
    <2> QED
      BY <2>1, <2>5
  <1>5. 0 .. i - 1 \subseteq U
    <2>1. i - 1 \in Nat
      OBVIOUS
    <2> HIDE DEF U
    <2> QED
      BY <1>3, <1>4, <2>1, UpTo
  <1>6. i - 1 \in U
    BY <1>5
  <1> QED
    BY <1>2, <1>6 DEF Offsets

\* The first block starts after the version, and each block where the one
\* before it ends.
LEMMA OffsetNext ==
  ASSUME NEW blocks, NEW i \in Nat \ {0}, HasLens(blocks, i)
  PROVE  /\ Offset(blocks, 1) = 1
         /\ Offset(blocks, i) \in Nat
         /\ Offset(blocks, i + 1) = Offset(blocks, i) + blocks[i].len
  <1>1. PICK k \in Nat \ {0} : k = i + 1
    OBVIOUS
  <1>2. HasLens(blocks, k - 1)
    BY <1>1
  <1>3. PICK t \in [0 .. k - 1 -> Nat] : Offsets(t, blocks, k)
    BY <1>2, OffsetSteps
  <1>4. PICK o \in Nat \ {0} : o = 1
    OBVIOUS
  <1>5. Offset(blocks, o) = t[o - 1]
    <2>1. o <= k /\ StartAlike(blocks, blocks, o - 1)
      BY <1>1, <1>4 DEF StartAlike
    <2> QED
      BY <1>2, <1>3, <2>1, SameOffset
  <1>6. Offset(blocks, i) = t[i - 1]
    <2>1. i <= k /\ StartAlike(blocks, blocks, i - 1)
      BY <1>1 DEF StartAlike
    <2> QED
      BY <1>2, <1>3, <2>1, SameOffset
  <1>7. t[0] = 1 /\ t[i] = t[i - 1] + blocks[i].len /\ Offset(blocks, k) = t[k - 1]
    BY <1>1, <1>3 DEF Offsets
  <1>8. t[i - 1] \in Nat
    BY <1>1
  <1> QED
    BY <1>1, <1>4, <1>5, <1>6, <1>7, <1>8

\* So a block starts at the same place in both of them,
LEMMA OffsetSame ==
  ASSUME NEW b, NEW blocks, NEW i \in Nat \ {0}, HasLens(blocks, i - 1),
         StartAlike(b, blocks, i - 1)
  PROVE  Offset(b, i) = Offset(blocks, i)
  <1>1. PICK t \in [0 .. i - 1 -> Nat] : Offsets(t, blocks, i)
    BY OffsetSteps
  <1>2. Offset(b, i) = t[i - 1]
    <2>1. PICK k \in Nat : k = i /\ i <= k
      OBVIOUS
    <2>2. HasLens(blocks, k - 1) /\ t \in [0 .. k - 1 -> Nat] /\ Offsets(t, blocks, k)
      BY <1>1, <2>1
    <2> QED
      BY <2>1, <2>2, SameOffset
  <1>3. Offset(blocks, i) = t[i - 1]
    BY <1>1 DEF Offsets
  <1> QED
    BY <1>2, <1>3

\* and it has the same bytes.
LEMMA SameBlocks ==
  ASSUME NEW data, NEW b, NEW blocks, NEW i \in Nat \ {0}, HasLens(blocks, i),
         StartAlike(b, blocks, i)
  PROVE  BlockData(data, b, i) = BlockData(data, blocks, i)
  <1>1. HasLens(blocks, i - 1) /\ StartAlike(b, blocks, i - 1) /\ b[i] = blocks[i]
    BY DEF HasLens, StartAlike
  <1>2. Offset(b, i) = Offset(blocks, i)
    BY <1>1, OffsetSame
  <1> QED
    BY <1>1, <1>2 DEF BlockData

\* The first blocks of a chain are the same without the others.
LEMMA FirstBlocks ==
  ASSUME NEW S, NEW data, NEW blocks \in Seq(S), HasLens(blocks, Len(blocks)),
         NEW n \in 0 .. Len(blocks)
  PROVE  /\ SubSeq(blocks, 1, n) \in Seq(S) /\ Len(SubSeq(blocks, 1, n)) = n
         /\ \A i \in 1 .. n : /\ SubSeq(blocks, 1, n)[i] = blocks[i]
                              /\ BlockData(data, SubSeq(blocks, 1, n), i) = BlockData(data, blocks, i)
  <1>1. Len(blocks) \in Nat /\ n \in Nat /\ n <= Len(blocks)
    OBVIOUS
  <1>2. PICK b : b = SubSeq(blocks, 1, n)
    OBVIOUS
  <1>3. b \in Seq(S) /\ Len(b) = n /\ \A i \in 1 .. n : b[i] = blocks[i]
    BY <1>1, <1>2
  <1>4. \A i \in 1 .. n : BlockData(data, b, i) = BlockData(data, blocks, i)
    <2>1. SUFFICES ASSUME NEW i \in 1 .. n PROVE BlockData(data, b, i) = BlockData(data, blocks, i)
      OBVIOUS
    <2>2. HasLens(blocks, i)
      BY <1>1 DEF HasLens
    <2>3. i \in Nat \ {0} /\ StartAlike(b, blocks, i)
      BY <1>1, <1>3 DEF StartAlike
    <2> QED
      BY <2>2, <2>3, SameBlocks
  <1> QED
    BY <1>2, <1>3, <1>4

\* A private key that fits the public key of the parent fits those of all
\* blocks that follow.
LEMMA KeysFollow ==
  ASSUME Order \in Nat, Order > 1, Base \in Int,
         NEW S, NEW data, NEW blocks \in Seq(S), NEW private, HasKeys(data, blocks, private),
         NEW key \in [0 .. Len(blocks) -> Int],
         \A i \in 1 .. Len(blocks) :
           key[i] = Derive(PublicOf(private[i]), BlockData(data, blocks, i), key[i - 1]),
         NEW n \in 0 .. Len(blocks), NEW s \in 1 .. n + 1,
         NEW first \in Int, PublicOf(first) = key[s - 1]
  PROVE  LET last == DerivePrivateKey(data, SubSeq(blocks, 1, n), private, s, first)
         IN last \in Int /\ PublicOf(last) = key[n]
  <1>0. HasLens(blocks, Len(blocks))
    BY DEF HasKeys, HasLens
  <1>1. PICK b \in Seq(S) : b = SubSeq(blocks, 1, n) /\ Len(b) = n
    BY <1>0, FirstBlocks
  <1>2. Len(blocks) \in Nat /\ n \in Nat /\ n <= Len(blocks)
    OBVIOUS
  <1>3. \A i \in 1 .. n : /\ b[i] = blocks[i] /\ i \in 1 .. Len(blocks)
                         /\ BlockData(data, b, i) = BlockData(data, blocks, i)
    BY <1>0, <1>1, <1>2, FirstBlocks
  <1>4. HasKeys(data, b, private)
    BY <1>1, <1>3 DEF HasKeys
  <1>5. PICK t \in [0 .. n -> Int] :
          /\ \A i \in 0 .. n : t[i] = IF i < s THEN first ELSE Derive(private[i], BlockData(data, b, i), t[i - 1])
          /\ DerivePrivateKey(data, b, private, s, first) = t[n]
    <2>1. s \in Nat \ {0}
      BY <1>2
    <2>2. PICK r \in Nat \ {0} : r = s
      BY <2>1
    <2>3. PICK t \in [0 .. Len(b) -> Int] : PrivateKeys(t, data, b, private, r, first)
      BY <1>4, PrivateSteps
    <2> QED
      BY <1>1, <2>2, <2>3 DEF PrivateKeys
  <1> DEFINE U == {i \in 0 .. n : i >= s - 1 => PublicOf(t[i]) = key[i]}
  <1>6. ASSUME NEW i \in 0 .. n, i >= s - 1, i < s PROVE PublicOf(t[i]) = key[i]
    <2>1. i = s - 1 /\ t[i] = first
      BY <1>2, <1>5, <1>6
    <2> QED
      BY <2>1
  <1>7. 0 \in U
    <2>1. 0 \in 0 .. n /\ (0 >= s - 1 => 0 < s)
      BY <1>2
    <2> QED
      BY <1>6, <2>1
  <1>8. ASSUME NEW i \in 1 .. n, i - 1 \in U PROVE i \in U
    <2>0. i \in 0 .. n /\ i - 1 \in 0 .. n
      BY <1>2
    <2>1. CASE i < s
      BY <1>6, <2>0, <2>1
    <2>2. CASE ~(i < s)
      <3>1. i - 1 >= s - 1
        BY <2>2
      <3>2. PublicOf(t[i - 1]) = key[i - 1]
        BY <1>8, <3>1
      <3>3. PICK block \in Seq(Int) : block = BlockData(data, blocks, i) /\ block # <<>>
        BY <1>3 DEF HasKeys
      <3>4. PICK k \in Int : k = private[i]
        BY <1>3 DEF HasKeys
      <3>5. PICK p \in Int : p = t[i - 1]
        BY <2>0
      <3>6. t[i] = Derive(k, block, p)
        BY <1>3, <1>5, <2>0, <2>2, <3>3, <3>4, <3>5
      <3>7. PublicOf(Derive(k, block, p)) = Derive(PublicOf(k), block, PublicOf(p))
        BY <3>3, DeriveFacts
      <3>8. key[i] = Derive(PublicOf(k), block, PublicOf(p))
        BY <1>3, <3>2, <3>3, <3>4, <3>5
      <3>9. PublicOf(t[i]) = key[i]
        BY <3>6, <3>7, <3>8
      <3> QED
        BY <2>0, <3>9
    <2> QED
      BY <2>1, <2>2
  <1>9. n \in U
    <2> HIDE DEF U
    <2>1. 0 .. n \subseteq U
      BY <1>2, <1>7, <1>8, UpTo
    <2> QED
      BY <1>2, <2>1
  <1>10. n >= s - 1 /\ n \in 0 .. n
    BY <1>2
  <1>11. PublicOf(t[n]) = key[n] /\ t[n] \in Int
    BY <1>9, <1>10
  <1> QED
    BY <1>1, <1>5, <1>11

\* The private key that a server derives belongs to the public key that the
\* client derives from the root key, for a chain of any length, from whichever
\* of its blocks on the server starts: derive_private_key, given the key of the
\* parent of that block, and derive_public_key agree.
THEOREM KeysOfChainFit ==
  ASSUME Order \in Nat, Order > 1, Base \in Int,
         NEW S, NEW data, NEW blocks \in Seq(S), NEW private, HasKeys(data, blocks, private),
         NEW root \in Int
  PROVE  KeysFit(data, blocks, private, root)
  <1>1. Len(blocks) \in Nat
    OBVIOUS
  <1>2. PublicOf(root) \in Int
    <2>1. <<0>> \in Seq(Int) /\ <<0>> # <<>>
      OBVIOUS
    <2> QED
      BY <2>1, DeriveFacts
  <1>3. PICK key \in [0 .. Len(blocks) -> Int] :
          PublicKeys(key, data, blocks, private, PublicOf(root))
    <2>1. PICK r \in Int : r = PublicOf(root)
      BY <1>2
    <2>2. \E key \in [0 .. Len(blocks) -> Int] : PublicKeys(key, data, blocks, private, r)
      BY PublicSteps
    <2> QED
      BY <2>1, <2>2
  <1> DEFINE upto(n) == DerivePrivateKey(data, SubSeq(blocks, 1, n), private, 1, root)
  <1>4. \A n \in 0 .. Len(blocks) : upto(n) \in Int /\ PublicOf(upto(n)) = key[n]
    <2>1. SUFFICES ASSUME NEW n \in 0 .. Len(blocks)
                   PROVE  upto(n) \in Int /\ PublicOf(upto(n)) = key[n]
      OBVIOUS
    <2>2. 1 \in 1 .. n + 1 /\ 1 - 1 = 0
      BY <1>1
    <2>3. PublicOf(root) = key[1 - 1]
      BY <1>3, <2>2
    <2> QED
      BY <1>3, <2>2, <2>3, KeysFollow DEF PublicKeys
  <1>5. ASSUME NEW s \in 1 .. Len(blocks)
        PROVE  PublicOf(DerivePrivateKey(data, blocks, private, s, upto(s - 1)))
                 = DerivePublicKey(data, blocks, PublicOf(root))
    <2>1. s - 1 \in 0 .. Len(blocks)
      BY <1>1
    <2>2. PICK first \in Int : first = upto(s - 1) /\ PublicOf(first) = key[s - 1]
      BY <1>4, <2>1
    <2>3. PICK n \in 0 .. Len(blocks) : n = Len(blocks) /\ s \in 1 .. n + 1
      BY <1>1
    <2>4. SubSeq(blocks, 1, n) = blocks
      BY <2>3, SubSeqFull
    <2>5. PublicOf(DerivePrivateKey(data, SubSeq(blocks, 1, n), private, s, first)) = key[n]
      BY <1>3, <2>2, <2>3, KeysFollow DEF PublicKeys
    <2> HIDE DEF upto
    <2> QED
      BY <1>3, <2>2, <2>3, <2>4, <2>5 DEF PublicKeys
  <1> QED
    BY <1>5 DEF KeysFit

-----------------------------------------------------------------------------
(* Which license chains are accepted.                                      *)

Byte == 0 .. 255

\* A part of some data, and a part of a part.
LEMMA SliceFacts ==
  ASSUME NEW S, NEW data \in Seq(S), NEW a \in Nat, NEW b \in Nat, a <= b, b <= Len(data)
  PROVE  /\ Slice(data, a, b) \in Seq(S) /\ Len(Slice(data, a, b)) = b - a
         /\ \A i \in 1 .. b - a : Slice(data, a, b)[i] = data[a + i]
  <1>1. PICK x : x = SubSeq(data, a + 1, b)
    OBVIOUS
  <1>2. x \in Seq(S) /\ Len(x) = b - a /\ \A i \in 1 .. b - a : x[i] = data[a + i]
    BY <1>1
  <1> QED
    BY <1>1, <1>2 DEF Slice

\* A part of a part is a part of the data.
LEMMA SliceOfSlice ==
  ASSUME NEW S, NEW data \in Seq(S), NEW a \in Nat, NEW b \in Nat, a <= b, b <= Len(data),
         NEW c \in Nat, NEW d \in Nat, c <= d, d <= b - a
  PROVE  Slice(Slice(data, a, b), c, d) = Slice(data, a + c, a + d)
  <1>1. PICK x \in Seq(S) : x = Slice(data, a, b) /\ Len(x) = b - a
                            /\ \A i \in 1 .. b - a : x[i] = data[a + i]
    <2>1. /\ Slice(data, a, b) \in Seq(S) /\ Len(Slice(data, a, b)) = b - a
          /\ \A i \in 1 .. b - a : Slice(data, a, b)[i] = data[a + i]
      BY SliceFacts, Zenon
    <2> QED
      BY <2>1
  <1>2. PICK y \in Seq(S) : y = Slice(x, c, d) /\ Len(y) = d - c
                            /\ \A i \in 1 .. d - c : y[i] = x[c + i]
    <2>1. d <= Len(x)
      BY <1>1
    <2>2. /\ Slice(x, c, d) \in Seq(S) /\ Len(Slice(x, c, d)) = d - c
          /\ \A i \in 1 .. d - c : Slice(x, c, d)[i] = x[c + i]
      BY <2>1, SliceFacts, Zenon
    <2> QED
      BY <2>2
  <1>3. PICK e \in Nat : e = a + c
    OBVIOUS
  <1>4. PICK f \in Nat : f = a + d /\ e <= f /\ f <= Len(data) /\ f - e = d - c
    BY <1>3
  <1>5. PICK z \in Seq(S) : z = Slice(data, e, f) /\ Len(z) = d - c
                            /\ \A i \in 1 .. d - c : z[i] = data[e + i]
    <2>1. /\ Slice(data, e, f) \in Seq(S) /\ Len(Slice(data, e, f)) = f - e
          /\ \A i \in 1 .. f - e : Slice(data, e, f)[i] = data[e + i]
      <3>1. e <= f /\ f <= Len(data)
        BY <1>4
      <3> QED
        BY <3>1, SliceFacts, Zenon
    <2> QED
      BY <1>4, <2>1
  <1>6. \A i \in 1 .. d - c : y[i] = z[i]
    <2>1. SUFFICES ASSUME NEW i \in 1 .. d - c PROVE y[i] = z[i]
      OBVIOUS
    <2>2. c + i \in 1 .. b - a /\ a + (c + i) = e + i
      BY <1>3
    <2> QED
      BY <1>1, <1>2, <1>5, <2>2
  <1>7. y = z
    BY <1>2, <1>5, <1>6, SeqEqual
  <1> QED
    BY <1>1, <1>2, <1>3, <1>4, <1>5, <1>7

\* What is left of some data from a place on.
LEMMA FromFacts ==
  ASSUME NEW S, NEW data \in Seq(S), NEW a \in Nat, a <= Len(data)
  PROVE  /\ From(data, a) = Slice(data, a, Len(data))
         /\ From(data, a) \in Seq(S) /\ Len(From(data, a)) = Len(data) - a
  <1>1. PICK n \in Nat : n = Len(data)
    OBVIOUS
  <1>2. Slice(data, a, n) \in Seq(S) /\ Len(Slice(data, a, n)) = n - a
    <2>1. a <= n /\ n <= Len(data)
      BY <1>1
    <2> QED
      BY <2>1, SliceFacts, Zenon
  <1>3. From(data, a) = Slice(data, a, n)
    BY <1>1 DEF From, Slice
  <1> QED
    BY <1>1, <1>2, <1>3

\* What is left of what is left.
LEMMA FromFrom ==
  ASSUME NEW S, NEW data \in Seq(S), NEW a \in Nat, NEW b \in Nat, a + b <= Len(data)
  PROVE  From(From(data, a), b) = From(data, a + b)
  <1>1. PICK n \in Nat : n = Len(data) /\ a <= n /\ b <= n - a /\ n - a \in Nat
    <2>1. Len(data) \in Nat
      OBVIOUS
    <2> QED
      BY <2>1
  <1>2. PICK x \in Seq(S) : x = From(data, a) /\ x = Slice(data, a, n) /\ Len(x) = n - a
    BY <1>1, FromFacts
  <1>3. PICK m \in Nat : m = n - a
    BY <1>1
  <1>4. From(x, b) = Slice(x, b, m)
    BY <1>1, <1>2, <1>3, FromFacts
  <1>5. Slice(Slice(data, a, n), b, m) = Slice(data, a + b, a + m)
    <2>1. a <= n /\ n <= Len(data) /\ b <= m /\ m <= n - a
      BY <1>1, <1>3
    <2> QED
      BY <2>1, SliceOfSlice, SMTT(30)
  <1>6. PICK c \in Nat : c = a + b
    OBVIOUS
  <1>7. From(data, c) = Slice(data, c, n) /\ a + m = n
    BY <1>1, <1>3, <1>6, FromFacts
  <1> QED
    BY <1>2, <1>4, <1>5, <1>6, <1>7

\* read_be gives a number.
LEMMA ReadBeNat ==
  ASSUME NEW data \in Seq(Byte)
  PROVE  ReadBe(data) \in Nat
  <1> DEFINE st(n, x) == x * 256 + data[n]
             g == [n \in 1 .. Len(data) |-> [x \in Nat |-> st(n, x)]]
             Body(f) == [n \in 0 .. Len(data) |-> IF n = 0 THEN 0 ELSE st(n, f[n - 1])]
             t == CHOOSE f : f = Body(f)
  <1>1. PICK N \in Nat : N = Len(data)
    OBVIOUS
  <1>2. \A n \in 1 .. N : \A x \in Nat : st(n, x) \in Nat
    <2>1. SUFFICES ASSUME NEW n \in 1 .. N, NEW x \in Nat PROVE st(n, x) \in Nat
      OBVIOUS
    <2>2. data[n] \in Byte /\ Byte \subseteq Nat
      BY <1>1 DEF Byte
    <2>3. data[n] \in Nat
      BY <2>2, Zenon
    <2> QED
      BY <2>3
  <1> HIDE DEF st
  <1>3. PICK h \in [1 .. N -> [Nat -> Nat]] : h = g
    <2>1. g \in [1 .. N -> [Nat -> Nat]]
      BY <1>1, <1>2
    <2> QED
      BY <2>1
  <1>4. PICK f \in [0 .. N -> Nat] : Solves(f, N, 0, h)
    <2>1. 0 \in Nat
      OBVIOUS
    <2> HIDE DEF g
    <2> QED
      BY <2>1, Recursion
  <1>5. f = Body(f)
    <2>1. \A n \in 1 .. N : f[n - 1] \in Nat
      <3>1. \A n \in 1 .. N : n - 1 \in 0 .. N
        BY <1>1
      <3> QED
        BY <3>1
    <2>2. \A n \in 1 .. N : h[n][f[n - 1]] = st(n, f[n - 1])
      BY <1>1, <1>3, <2>1
    <2>3. \A n \in 0 .. N : f[n] = IF n = 0 THEN 0 ELSE st(n, f[n - 1])
      <3>1. \A n \in 0 .. N : n = 0 \/ n \in 1 .. N
        BY <1>1
      <3>2. f[0] = 0 /\ \A n \in 1 .. N : f[n] = h[n][f[n - 1]]
        BY <1>4 DEF Solves
      <3> HIDE DEF g
      <3> QED
        BY <2>2, <3>1, <3>2
    <2> QED
      BY <1>1, <2>3
  <1>6. t = Body(t)
    BY <1>5
  <1>7. ReadBe(data) = t[Len(data)]
    BY DEF ReadBe, st
  <1> HIDE DEF t
  <1>8. t = [n \in 0 .. N |-> IF n = 0 THEN 0 ELSE st(n, t[n - 1])]
    BY <1>1, <1>6, Zenon
  <1>9. t[0] = 0 /\ \A n \in 1 .. N : t[n] = st(n, t[n - 1])
    <2>1. 0 \in 0 .. N /\ \A n \in 1 .. N : n \in 0 .. N /\ n # 0
      BY <1>1
    <2>2. \A n \in 0 .. N : t[n] = IF n = 0 THEN 0 ELSE st(n, t[n - 1])
      BY <1>8, Zenon
    <2> QED
      BY <2>1, <2>2
  <1>10. N \in {n \in 0 .. N : t[n] \in Nat}
    <2> DEFINE U == {n \in 0 .. N : t[n] \in Nat}
    <2>1. 0 \in U
      BY <1>1, <1>9
    <2>2. ASSUME NEW n \in 1 .. N, n - 1 \in U PROVE n \in U
      <3>1. t[n - 1] \in Nat /\ n \in 0 .. N
        BY <1>1, <2>2
      <3>2. t[n] \in Nat
        BY <1>2, <1>9, <3>1
      <3> QED
        BY <3>1, <3>2
    <2>3. 0 .. N \subseteq U
      <3> HIDE DEF U
      <3> QED
        BY <1>1, <2>1, <2>2, UpTo
    <2>4. N \in 0 .. N
      BY <1>1
    <2> QED
      BY <2>3, <2>4
  <1> QED
    BY <1>1, <1>7, <1>10

\* The time in which a block is valid.
TimeBounds == [start : Nat, end : Nat]

\* They are at the same place of the block and of the data that starts with it.
LEMMA BoundsFacts ==
  ASSUME NEW data \in Seq(Byte), Len(data) >= BlockMinLen
  PROVE  /\ Bounds(data) \in TimeBounds
         /\ \A a \in Nat : \A d \in Seq(Byte) :
              (a + Len(data) <= Len(d) /\ data = Slice(d, a, a + Len(data))) =>
                Bounds(data) = Bounds(From(d, a))
  <1>1. Slice(data, 34, 38) \in Seq(Byte) /\ Slice(data, 38, 42) \in Seq(Byte)
    <2>1. 38 <= Len(data) /\ 42 <= Len(data) /\ 34 <= 38 /\ 38 <= 42
      BY DEF BlockMinLen
    <2>2. 34 \in Nat /\ 38 \in Nat /\ 42 \in Nat
      OBVIOUS
    <2> QED
      BY <2>1, <2>2, SliceFacts, Zenon
  <1>2. Bounds(data) = [start |-> ReadBe(Slice(data, 34, 38)), end |-> ReadBe(Slice(data, 38, 42))]
    BY DEF Bounds, NotValidBeforeOffset, NotValidAfterOffset
  <1>3. Bounds(data) \in TimeBounds
    BY <1>1, <1>2, ReadBeNat DEF TimeBounds
  <1>4. ASSUME NEW a \in Nat, NEW d \in Seq(Byte), a + Len(data) <= Len(d),
               data = Slice(d, a, a + Len(data))
        PROVE  Bounds(data) = Bounds(From(d, a))
    <2>1. PICK b \in Nat : b = a + Len(data) /\ a <= b /\ b <= Len(d) /\ b - a >= 42
      <3>1. Len(data) \in Nat /\ Len(d) \in Nat
        OBVIOUS
      <3> QED
        BY <1>4, <3>1 DEF BlockMinLen
    <2>2. PICK n \in Nat : n = Len(d) /\ a <= n /\ n - a >= 42
      BY <2>1
    <2>3. From(d, a) = Slice(d, a, n)
      BY <2>2, FromFacts
    <2>0. 34 <= 38 /\ 38 <= 42 /\ 34 \in Nat /\ 38 \in Nat /\ 42 \in Nat
      OBVIOUS
    <2>4. Slice(Slice(d, a, n), 34, 38) = Slice(d, a + 34, a + 38)
      <3>1. a <= n /\ n <= Len(d) /\ 38 <= n - a
        BY <2>2
      <3> QED
        BY <2>0, <3>1, SliceOfSlice, SMTT(30)
    <2>5. Slice(Slice(d, a, n), 38, 42) = Slice(d, a + 38, a + 42)
      <3>1. a <= n /\ n <= Len(d) /\ 42 <= n - a
        BY <2>2
      <3> QED
        BY <2>0, <3>1, SliceOfSlice, SMTT(30)
    <2>6. Slice(Slice(d, a, b), 34, 38) = Slice(d, a + 34, a + 38)
      <3>1. a <= b /\ b <= Len(d) /\ 38 <= b - a
        BY <2>1
      <3> QED
        BY <2>0, <3>1, SliceOfSlice, SMTT(30)
    <2>7. Slice(Slice(d, a, b), 38, 42) = Slice(d, a + 38, a + 42)
      <3>1. a <= b /\ b <= Len(d) /\ 42 <= b - a
        BY <2>1
      <3> QED
        BY <2>0, <3>1, SliceOfSlice, SMTT(30)
    <2>8. Slice(data, 34, 38) = Slice(From(d, a), 34, 38) /\ Slice(data, 38, 42) = Slice(From(d, a), 38, 42)
      BY <1>4, <2>1, <2>3, <2>4, <2>5, <2>6, <2>7
    <2> QED
      BY <2>8 DEF Bounds, NotValidBeforeOffset, NotValidAfterOffset
  <1> QED
    BY <1>3, <1>4

\* A string ends before the data does.
LEMMA StringLenFacts ==
  ASSUME NEW data \in Seq(Byte), NEW o \in Nat, IsTerminated(data, o)
  PROVE  StringLen(data, o) \in Nat /\ o + StringLen(data, o) + 1 <= Len(data)
  <1> DEFINE S == {i \in o .. Len(data) - 1 : At(data, i) = 0}
  <1>1. S \subseteq Nat /\ S # {}
    BY DEF IsTerminated
  <1>2. \E x \in S : \A y \in S : x <= y
    <2> HIDE DEF S
    <2> QED
      BY <1>1, SmallestNumber
  <1>3. Min(S) \in S
    <2> HIDE DEF S
    <2> QED
      BY <1>2, Zenon DEF Min
  <1>4. PICK m \in S : m = Min(S)
    BY <1>3
  <1>5. StringLen(data, o) = m - o
    BY <1>4 DEF StringLen
  <1>6. m \in Nat /\ o <= m /\ m <= Len(data) - 1
    <2>1. m \in o .. Len(data) - 1 /\ Len(data) \in Nat
      OBVIOUS
    <2> QED
      BY <2>1
  <1> QED
    BY <1>5, <1>6

\* How far the properties of a Ts5Server block have been read.
Ts5Readings(data) ==
  {r \in [error : BOOLEAN, pos : Nat, properties : Seq(Int)] : r.error \/ r.pos <= Len(data)}

\* One more property.
LEMMA Ts5PropertyFacts ==
  ASSUME NEW data \in Seq(Byte), NEW r \in Ts5Readings(data)
  PROVE  Ts5Property(data, r) \in Ts5Readings(data)
  <1>1. /\ r \in [error : BOOLEAN, pos : Nat, properties : Seq(Int)]
        /\ r.error \in BOOLEAN /\ r.pos \in Nat /\ r.properties \in Seq(Int)
    BY DEF Ts5Readings
  <1>2. CASE r.error \/ r.pos >= Len(data) \/ r.pos + 1 + At(data, r.pos) >= Len(data)
    <2>1. Ts5Property(data, r) = [r EXCEPT !.error = TRUE]
      BY <1>2 DEF Ts5Property
    <2>2. [r EXCEPT !.error = TRUE] \in [error : BOOLEAN, pos : Nat, properties : Seq(Int)]
      BY <1>1
    <2>3. [r EXCEPT !.error = TRUE].error
      BY <1>1
    <2> QED
      BY <2>1, <2>2, <2>3 DEF Ts5Readings
  <1>3. CASE ~(r.error \/ r.pos >= Len(data) \/ r.pos + 1 + At(data, r.pos) >= Len(data))
    <2>1. PICK p \in Nat : p = r.pos
      BY <1>1
    <2>2. PICK b \in Byte : b = At(data, p)
      <3>1. p + 1 \in 1 .. Len(data)
        BY <1>3, <2>1
      <3> QED
        BY <3>1 DEF At
    <2>3. p + 1 + b \in Nat /\ p + 1 + b <= Len(data)
      <3>1. Byte \subseteq Nat
        BY DEF Byte
      <3>2. b \in Nat
        BY <3>1, Zenon
      <3> QED
        BY <1>3, <2>1, <2>2, <3>2
    <2>4. Append(r.properties, p - 2) \in Seq(Int)
      BY <1>1
    <2>5. Ts5Property(data, r)
            = [error |-> FALSE, pos |-> p + 1 + b, properties |-> Append(r.properties, p - 2)]
      BY <1>3, <2>1, <2>2 DEF Ts5Property
    <2> QED
      BY <2>3, <2>4, <2>5 DEF Ts5Readings
  <1> QED
    BY <1>2, <1>3

\* All properties are within the data, or reading them fails.
LEMMA Ts5PropertiesFacts ==
  ASSUME NEW data \in Seq(Byte), Len(data) >= 2
  PROVE  Ts5Properties(data) \in Ts5Readings(data)
  <1> DEFINE first == [error |-> FALSE, pos |-> 2, properties |-> <<>>]
             D == Ts5Readings(data)
             g == [n \in 1 .. At(data, 1) |-> [x \in D |-> Ts5Property(data, x)]]
             Body(f) == [n \in 0 .. At(data, 1) |->
                           IF n = 0 THEN first ELSE Ts5Property(data, f[n - 1])]
             t == CHOOSE f : f = Body(f)
  <1>1. PICK N \in Nat : N = At(data, 1)
    <2>1. At(data, 1) \in Byte /\ Byte \subseteq Nat
      <3>1. data[1 + 1] \in Byte
        OBVIOUS
      <3> QED
        BY <3>1 DEF At, Byte
    <2>2. At(data, 1) \in Nat
      BY <2>1, Zenon
    <2> QED
      BY <2>2
  <1>2. first \in D
    <2>1. <<>> \in Seq(Int)
      OBVIOUS
    <2> QED
      BY <2>1 DEF Ts5Readings
  <1>3. \A x \in D : Ts5Property(data, x) \in D
    BY Ts5PropertyFacts
  <1> HIDE DEF D, first
  <1>4. PICK h \in [1 .. N -> [D -> D]] : h = g
    <2>1. g \in [1 .. N -> [D -> D]]
      BY <1>1, <1>3
    <2> QED
      BY <2>1
  <1>5. PICK f \in [0 .. N -> D] : Solves(f, N, first, h)
    <2> HIDE DEF g
    <2> QED
      BY <1>2, Recursion
  <1>6. f = Body(f)
    <2>1. \A n \in 1 .. N : f[n - 1] \in D
      <3>1. \A n \in 1 .. N : n - 1 \in 0 .. N
        BY <1>1
      <3> QED
        BY <3>1
    <2>2. \A n \in 1 .. N : h[n][f[n - 1]] = Ts5Property(data, f[n - 1])
      BY <1>1, <1>4, <2>1
    <2>3. \A n \in 0 .. N : f[n] = IF n = 0 THEN first ELSE Ts5Property(data, f[n - 1])
      <3>1. \A n \in 0 .. N : n = 0 \/ n \in 1 .. N
        BY <1>1
      <3>2. f[0] = first /\ \A n \in 1 .. N : f[n] = h[n][f[n - 1]]
        BY <1>5 DEF Solves
      <3> HIDE DEF g
      <3> QED
        BY <2>2, <3>1, <3>2
    <2> QED
      BY <1>1, <2>3
  <1>7. t = Body(t)
    BY <1>6
  <1>8. Ts5Properties(data) = t[At(data, 1)]
    BY DEF Ts5Properties, first
  <1> HIDE DEF t
  <1>9. t = [n \in 0 .. N |-> IF n = 0 THEN first ELSE Ts5Property(data, t[n - 1])]
    BY <1>1, <1>7, Zenon
  <1>10. t[0] = first /\ \A n \in 1 .. N : t[n] = Ts5Property(data, t[n - 1])
    <2>1. 0 \in 0 .. N /\ \A n \in 1 .. N : n \in 0 .. N /\ n # 0
      BY <1>1
    <2>2. \A n \in 0 .. N : t[n] = IF n = 0 THEN first ELSE Ts5Property(data, t[n - 1])
      BY <1>9, Zenon
    <2> QED
      BY <2>1, <2>2
  <1>11. N \in {n \in 0 .. N : t[n] \in D}
    <2> DEFINE U == {n \in 0 .. N : t[n] \in D}
    <2>1. 0 \in U
      BY <1>1, <1>2, <1>10
    <2>2. ASSUME NEW n \in 1 .. N, n - 1 \in U PROVE n \in U
      <3>1. t[n - 1] \in D
        BY <2>2
      <3>2. t[n] \in D
        BY <1>3, <1>10, <3>1
      <3> QED
        BY <1>1, <3>2
    <2>3. 0 .. N \subseteq U
      <3> HIDE DEF U
      <3> QED
        BY <1>1, <2>1, <2>2, UpTo
    <2>4. N \in 0 .. N
      BY <1>1
    <2> QED
      BY <2>3, <2>4
  <1> QED
    BY <1>1, <1>8, <1>11 DEF D

\* A block that is parsed is within the data.
LicenseBlocks == [len : Nat, properties : Seq(Int)]

\* License::parse returns a length within the data, or fails.
LEMMA ParseLicenseFacts ==
  ASSUME NEW data \in Seq(Byte)
  PROVE  \/ ParseLicense(data) = Err("License")
         \/ \E license \in LicenseBlocks :
              /\ ParseLicense(data) = Ok(license)
              /\ BlockMinLen <= license.len /\ license.len <= Len(data)
  <1> DEFINE rest == From(data, BlockMinLen)
             typ == GetType(data)
             parsed == ParseLicense(data)
  <1> SUFFICES ASSUME parsed # Err("License")
               PROVE  \E license \in LicenseBlocks :
                        /\ parsed = Ok(license)
                        /\ BlockMinLen <= license.len /\ license.len <= Len(data)
    OBVIOUS
  <1>1. Len(data) \in Nat /\ Len(data) >= 42
    <2>1. ~(Len(data) < 42)
      BY DEF ParseLicense, BlockMinLen
    <2> QED
      BY <2>1
  <1>2. PICK n \in Nat : n = Len(data) - 42
    BY <1>1
  <1>3. rest \in Seq(Byte) /\ Len(rest) = n
    BY <1>1, <1>2, FromFacts DEF BlockMinLen
  <1>4. ASSUME NEW extra \in Nat, NEW properties \in Seq(Int), extra <= n,
               parsed = Ok(Block(extra, properties))
        PROVE  \E license \in LicenseBlocks :
                 /\ parsed = Ok(license)
                 /\ BlockMinLen <= license.len /\ license.len <= Len(data)
    <2>1. Block(extra, properties) \in LicenseBlocks
      BY DEF Block, LicenseBlocks, BlockMinLen
    <2>2. BlockMinLen <= Block(extra, properties).len /\ Block(extra, properties).len <= Len(data)
      BY <1>1, <1>2, <1>4 DEF Block, BlockMinLen
    <2> QED
      BY <1>4, <2>1, <2>2
  <1>5. PICK none \in Seq(Int) : none = <<>>
    <2>1. <<>> \in Seq(Int)
      OBVIOUS
    <2> QED
      BY <2>1
  <1>6. CASE typ = "Intermediate"
    <2>1. IsTerminated(rest, 4) /\ parsed = Ok(Block(5 + StringLen(rest, 4), <<>>))
      BY <1>6 DEF ParseLicense
    <2>2. StringLen(rest, 4) \in Nat /\ 4 + StringLen(rest, 4) + 1 <= n
      BY <1>3, <2>1, StringLenFacts
    <2>3. PICK extra \in Nat : extra = 5 + StringLen(rest, 4) /\ extra <= n
      BY <2>2
    <2> HIDE DEF rest, typ, parsed
    <2> QED
      BY <1>4, <1>5, <2>1, <2>3
  <1>7. CASE typ = "Server"
    <2>1. IsTerminated(rest, 5) /\ parsed = Ok(Block(6 + StringLen(rest, 5), <<>>))
      BY <1>7 DEF ParseLicense
    <2>2. StringLen(rest, 5) \in Nat /\ 5 + StringLen(rest, 5) + 1 <= n
      BY <1>3, <2>1, StringLenFacts
    <2>3. PICK extra \in Nat : extra = 6 + StringLen(rest, 5) /\ extra <= n
      BY <2>2
    <2> HIDE DEF rest, typ, parsed
    <2> QED
      BY <1>4, <1>5, <2>1, <2>3
  <1>8. CASE typ = "Ts5Server"
    <2>1. /\ ~(Len(rest) < 2) /\ ~Ts5Properties(rest).error
          /\ parsed = Ok(Block(Ts5Properties(rest).pos, Ts5Properties(rest).properties))
      BY <1>8 DEF ParseLicense
    <2>2. Ts5Properties(rest) \in Ts5Readings(rest)
      BY <1>3, <2>1, Ts5PropertiesFacts
    <2>3. PICK extra \in Nat : extra = Ts5Properties(rest).pos /\ extra <= n
      BY <1>3, <2>1, <2>2 DEF Ts5Readings
    <2>4. PICK properties \in Seq(Int) : properties = Ts5Properties(rest).properties
      BY <2>2 DEF Ts5Readings
    <2> HIDE DEF rest, typ, parsed
    <2> QED
      BY <1>4, <2>1, <2>3, <2>4
  <1>9. CASE typ = "Ephemeral"
    <2>1. parsed = Ok(Block(0, <<>>))
      BY <1>9 DEF ParseLicense
    <2>2. 0 \in Nat /\ 0 <= n
      BY <1>2
    <2> HIDE DEF rest, typ, parsed
    <2> QED
      BY <1>4, <1>5, <2>1, <2>2
  <1>10. CASE typ \notin {"Intermediate", "Server", "Ts5Server", "Ephemeral"}
    BY <1>10 DEF ParseLicense
  <1> QED
    BY <1>6, <1>7, <1>8, <1>9, <1>10

\* What parse_block has checked of a block that it returns.
LEMMA ParseBlockFacts ==
  ASSUME NEW data \in Seq(Byte), NEW check, NEW now, NEW bounds \in SUBSET TimeBounds,
         NEW r, r = ParseBlock(data, check, now, bounds)
  PROVE  \/ r[1] = "Err" /\ r[2] \in {"License", "Expired", "Bounds"}
         \/ /\ r[1] # "Err" /\ r[2].license \in LicenseBlocks
            /\ BlockMinLen <= r[2].license.len /\ r[2].license.len <= Len(data)
            /\ r[2].bounds = Bounds(data) /\ Bounds(data) \in TimeBounds
            /\ check => Bounds(data).start <= now /\ now <= Bounds(data).end
            /\ \A outer \in bounds : Within(Bounds(data), outer)
  <1>1. CASE ParseLicense(data) = Err("License")
    BY <1>1 DEF ParseBlock, Err
  <1>2. ASSUME NEW license \in LicenseBlocks, ParseLicense(data) = Ok(license),
               BlockMinLen <= license.len, license.len <= Len(data)
        PROVE  \/ r[1] = "Err" /\ r[2] \in {"License", "Expired", "Bounds"}
               \/ /\ r[1] # "Err" /\ r[2].license \in LicenseBlocks
                  /\ BlockMinLen <= r[2].license.len /\ r[2].license.len <= Len(data)
                  /\ r[2].bounds = Bounds(data) /\ Bounds(data) \in TimeBounds
                  /\ check => Bounds(data).start <= now /\ now <= Bounds(data).end
                  /\ \A outer \in bounds : Within(Bounds(data), outer)
    <2>1. Bounds(data) \in TimeBounds
      <3>1. Len(data) >= BlockMinLen
        BY <1>2 DEF BlockMinLen, LicenseBlocks
      <3> QED
        BY <3>1, BoundsFacts
    <2>2. ParseLicense(data)[1] # "Err" /\ ParseLicense(data)[2] = license
      BY <1>2 DEF Ok
    <2>3. CASE check /\ ~(Bounds(data).start <= now /\ now <= Bounds(data).end)
      BY <2>2, <2>3 DEF ParseBlock, Err
    <2>4. CASE ~(check /\ ~(Bounds(data).start <= now /\ now <= Bounds(data).end))
      <3>1. CASE \E outer \in bounds : ~Within(Bounds(data), outer)
        BY <2>2, <2>4, <3>1 DEF ParseBlock, Err
      <3>2. CASE ~\E outer \in bounds : ~Within(Bounds(data), outer)
        <4>1. r = Ok([license |-> license, bounds |-> Bounds(data)])
          BY <2>2, <2>4, <3>2 DEF ParseBlock
        <4>2. r[1] # "Err" /\ r[2].license = license /\ r[2].bounds = Bounds(data)
          BY <4>1 DEF Ok
        <4> QED
          BY <1>2, <2>1, <2>4, <3>2, <4>2
      <3> QED
        BY <3>1, <3>2
    <2> QED
      BY <2>3, <2>4
  <1> QED
    BY <1>1, <1>2, ParseLicenseFacts

\* The bounds of a block of a chain.
BoundsOf(data, blocks, i) == Bounds(BlockData(data, blocks, i))

\* The blocks so far: each valid at the time, if that is checked, and not
\* longer than any block before it; they end where the rest of the data starts.
GoodChain(data, blocks, check, now) ==
  \A i \in 1 .. Len(blocks) :
    /\ BoundsOf(data, blocks, i) \in TimeBounds
    /\ check => BoundsOf(data, blocks, i).start <= now /\ now <= BoundsOf(data, blocks, i).end
    /\ \A j \in 1 .. i : Within(BoundsOf(data, blocks, i), BoundsOf(data, blocks, j))

LastBounds(data, blocks) ==
  IF blocks = <<>> THEN {} ELSE {BoundsOf(data, blocks, Len(blocks))}

Results == {"more", "Ok", "TooManyBlocks", "License", "Expired", "Bounds"}

GoodLoops(data, check, now) ==
  {s \in [blocks : Seq(LicenseBlocks), bounds : SUBSET TimeBounds, data : Seq(Byte), result : Results] :
     /\ Len(s.blocks) <= MaxBlocks
     /\ Offset(s.blocks, Len(s.blocks) + 1) \in 0 .. Len(data)
     /\ s.data = From(data, Offset(s.blocks, Len(s.blocks) + 1))
     /\ s.bounds = LastBounds(data, s.blocks)
     /\ GoodChain(data, s.blocks, check, now)
     /\ s.result = "Ok" => s.data = <<>>}

\* One more block after a good chain.
Follows(data, blocks, check, now, license, o, b) ==
  /\ BlockMinLen <= license.len
  /\ o = Offset(blocks, Len(blocks) + 1) /\ o + license.len <= Len(data)
  /\ b = Bounds(From(data, o))
  /\ check => b.start <= now /\ now <= b.end
  /\ \A outer \in LastBounds(data, blocks) : Within(b, outer)

\* It makes a good chain longer.
LEMMA LongerChain ==
  ASSUME NEW data \in Seq(Byte), NEW check, NEW now,
         NEW blocks \in Seq(LicenseBlocks), GoodChain(data, blocks, check, now),
         NEW license \in LicenseBlocks, NEW o \in Nat, NEW b \in TimeBounds,
         Follows(data, blocks, check, now, license, o, b)
  PROVE  LET longer == Append(blocks, license)
         IN /\ longer \in Seq(LicenseBlocks) /\ Len(longer) = Len(blocks) + 1
            /\ Offset(longer, Len(longer) + 1) = o + license.len
            /\ LastBounds(data, longer) = {b}
            /\ GoodChain(data, longer, check, now)
  <1>0. /\ BlockMinLen <= license.len
        /\ o = Offset(blocks, Len(blocks) + 1) /\ o + license.len <= Len(data)
        /\ b = Bounds(From(data, o))
        /\ check => b.start <= now /\ now <= b.end
        /\ \A outer \in LastBounds(data, blocks) : Within(b, outer)
    BY DEF Follows
  <1> PICK longer : longer = Append(blocks, license)
    OBVIOUS
  <1>1. PICK n \in Nat : n = Len(blocks)
    OBVIOUS
  <1>2. PICK m \in Nat : m = n + 1
    OBVIOUS
  <1>3. /\ longer \in Seq(LicenseBlocks) /\ Len(longer) = m /\ longer # <<>> /\ longer[m] = license
        /\ \A i \in 1 .. n : longer[i] = blocks[i]
    BY <1>1, <1>2
  <1>4. HasLens(longer, m)
    <2>1. \A j \in 1 .. m : longer[j] \in LicenseBlocks
      BY <1>3
    <2> QED
      BY <2>1 DEF HasLens, LicenseBlocks
  <1>5. HasLens(blocks, n)
    <2>1. \A j \in 1 .. n : blocks[j] \in LicenseBlocks
      BY <1>1
    <2> QED
      BY <2>1 DEF HasLens, LicenseBlocks
  <1>6. m \in Nat \ {0}
    BY <1>2
  <1>7. Offset(longer, m) = o
    <2>1. HasLens(blocks, m - 1) /\ StartAlike(longer, blocks, m - 1)
      BY <1>2, <1>3, <1>5 DEF StartAlike
    <2>2. Offset(longer, m) = Offset(blocks, m)
      BY <1>6, <2>1, OffsetSame
    <2> QED
      BY <1>0, <1>1, <1>2, <2>2
  <1>8. Offset(longer, m + 1) = o + license.len
    <2>1. Offset(longer, m + 1) = Offset(longer, m) + longer[m].len
      BY <1>4, <1>6, OffsetNext
    <2> QED
      BY <1>3, <1>7, <2>1
  <1>9. BoundsOf(data, longer, m) = b
    <2>1. BlockData(data, longer, m) = Slice(data, o, o + license.len)
      BY <1>3, <1>7 DEF BlockData
    <2>2. PICK e \in Nat : e = o + license.len /\ o <= e /\ e <= Len(data) /\ e - o = license.len
                           /\ license.len >= 42
      <3>1. PICK len \in Nat : len = license.len
        BY DEF LicenseBlocks
      <3>2. PICK e \in Nat : e = o + len
        OBVIOUS
      <3> QED
        BY <1>0, <3>1, <3>2 DEF BlockMinLen
    <2>3. Slice(data, o, e) \in Seq(Byte) /\ Len(Slice(data, o, e)) = e - o
      <3>1. o <= e /\ e <= Len(data)
        BY <2>2
      <3> QED
        BY <3>1, SliceFacts, Zenon
    <2>4. PICK d \in Seq(Byte) : d = Slice(data, o, e) /\ Len(d) = license.len
      BY <2>2, <2>3
    <2>5. Len(d) >= BlockMinLen /\ o + Len(d) = e
      BY <2>2, <2>4 DEF BlockMinLen
    <2>6. Bounds(d) = Bounds(From(data, o))
      <3>1. o + Len(d) <= Len(data) /\ d = Slice(data, o, o + Len(d))
        BY <2>2, <2>4, <2>5
      <3> QED
        BY <2>5, <3>1, BoundsFacts
    <2> QED
      BY <1>0, <2>1, <2>2, <2>4, <2>6 DEF BoundsOf
  <1>10. \A i \in 1 .. n : BoundsOf(data, longer, i) = BoundsOf(data, blocks, i)
    <2>1. SUFFICES ASSUME NEW i \in 1 .. n
                   PROVE  BoundsOf(data, longer, i) = BoundsOf(data, blocks, i)
      OBVIOUS
    <2>2. i \in Nat \ {0} /\ HasLens(blocks, i) /\ StartAlike(longer, blocks, i)
      <3>1. i \in Nat \ {0} /\ \A j \in 1 .. i : j \in 1 .. n
        BY <2>1
      <3>2. StartAlike(longer, blocks, i)
        BY <1>3, <3>1 DEF StartAlike
      <3>3. HasLens(blocks, i)
        BY <1>5, <3>1 DEF HasLens
      <3> QED
        BY <3>1, <3>2, <3>3
    <2>3. BlockData(data, longer, i) = BlockData(data, blocks, i)
      BY <2>2, SameBlocks
    <2> QED
      BY <2>3 DEF BoundsOf
  <1>11. ASSUME NEW j \in 1 .. n PROVE Within(b, BoundsOf(data, blocks, j))
    <2>1. PICK last \in TimeBounds : last = BoundsOf(data, blocks, n)
      BY <1>1, <1>11 DEF GoodChain
    <2>2. PICK outer \in TimeBounds : outer = BoundsOf(data, blocks, j)
      BY <1>1, <1>11 DEF GoodChain
    <2>3. Within(last, outer)
      BY <1>1, <1>11, <2>1, <2>2 DEF GoodChain
    <2>4. Within(b, last)
      BY <1>0, <1>1, <1>11, <2>1 DEF LastBounds
    <2> QED
      BY <2>2, <2>3, <2>4 DEF Within, TimeBounds
  <1>12. Within(b, b)
    BY DEF Within, TimeBounds
  <1>13. GoodChain(data, longer, check, now)
    <2>1. SUFFICES ASSUME NEW i \in 1 .. m
                   PROVE  /\ BoundsOf(data, longer, i) \in TimeBounds
                          /\ check => /\ BoundsOf(data, longer, i).start <= now
                                      /\ now <= BoundsOf(data, longer, i).end
                          /\ \A j \in 1 .. i : Within(BoundsOf(data, longer, i), BoundsOf(data, longer, j))
      BY <1>3 DEF GoodChain
    <2>2. CASE i = m
      <3>1. \A j \in 1 .. m : j = m \/ j \in 1 .. n
        BY <1>2
      <3> QED
        BY <1>0, <1>9, <1>10, <1>11, <1>12, <2>2, <3>1
    <2>3. CASE i \in 1 .. n
      <3>1. \A j \in 1 .. i : j \in 1 .. n
        BY <2>3
      <3> QED
        BY <1>1, <1>10, <2>3, <3>1 DEF GoodChain
    <2> QED
      BY <1>2, <2>2, <2>3
  <1> QED
    BY <1>1, <1>2, <1>3, <1>8, <1>9, <1>13 DEF LastBounds

\* A step of the loop over the blocks of a chain.
LEMMA NextBlockFacts ==
  ASSUME NEW data \in Seq(Byte), NEW check, NEW now, NEW s \in GoodLoops(data, check, now)
  PROVE  NextBlock(check, now, s) \in GoodLoops(data, check, now)
  <1> DEFINE r == ParseBlock(s.data, check, now, s.bounds)
             Record == [blocks : Seq(LicenseBlocks), bounds : SUBSET TimeBounds, data : Seq(Byte),
                        result : Results]
  <1>0. PICK next : next = NextBlock(check, now, s)
    OBVIOUS
  <1>1. /\ s \in Record
        /\ Len(s.blocks) <= MaxBlocks
        /\ Offset(s.blocks, Len(s.blocks) + 1) \in 0 .. Len(data)
        /\ s.data = From(data, Offset(s.blocks, Len(s.blocks) + 1))
        /\ s.bounds = LastBounds(data, s.blocks)
        /\ GoodChain(data, s.blocks, check, now)
        /\ s.result = "Ok" => s.data = <<>>
    BY DEF GoodLoops
  <1>2. /\ s.blocks \in Seq(LicenseBlocks) /\ s.bounds \in SUBSET TimeBounds
        /\ s.data \in Seq(Byte) /\ s.result \in Results
    BY <1>1
  <1>3. ASSUME NEW x \in Results, next = [s EXCEPT !.result = x], x = "Ok" => s.data = <<>>
        PROVE  next \in GoodLoops(data, check, now)
    <2>1. /\ next \in Record /\ next.blocks = s.blocks /\ next.bounds = s.bounds
          /\ next.data = s.data /\ next.result = x
      BY <1>1, <1>2, <1>3
    <2> QED
      BY <1>1, <1>3, <2>1 DEF GoodLoops
  <1>4. CASE s.result # "more"
    <2>1. next = s
      BY <1>0, <1>4 DEF NextBlock
    <2> QED
      BY <1>0, <2>1
  <1>5. CASE s.result = "more" /\ s.data = <<>>
    <2>1. next = [s EXCEPT !.result = "Ok"]
      BY <1>0, <1>5 DEF NextBlock
    <2>2. "Ok" \in Results
      BY DEF Results
    <2>3. PICK x \in Results : x = "Ok"
      BY <2>2
    <2> QED
      BY <1>0, <1>3, <1>5, <2>1, <2>3
  <1>6. CASE s.result = "more" /\ s.data # <<>> /\ Len(s.blocks) >= MaxBlocks
    <2>1. next = [s EXCEPT !.result = "TooManyBlocks"]
      BY <1>0, <1>6 DEF NextBlock
    <2>2. "TooManyBlocks" \in Results /\ "TooManyBlocks" # "Ok"
      BY DEF Results
    <2>3. PICK x \in Results : x = "TooManyBlocks" /\ x # "Ok"
      BY <2>2
    <2> QED
      BY <1>0, <1>3, <2>1, <2>3
  <1>7. CASE s.result = "more" /\ s.data # <<>> /\ ~(Len(s.blocks) >= MaxBlocks) /\ r[1] = "Err"
    <2>1. next = [s EXCEPT !.result = r[2]]
      BY <1>0, <1>7 DEF NextBlock
    <2>2. r[2] \in {"License", "Expired", "Bounds"}
      <3> HIDE DEF Record
      <3> QED
        BY <1>2, <1>7, ParseBlockFacts
    <2>3. PICK x \in Results : x = r[2] /\ x # "Ok"
      <3>1. \A x \in {"License", "Expired", "Bounds"} : x \in Results /\ x # "Ok"
        BY DEF Results
      <3> HIDE DEF Record, r
      <3> QED
        BY <2>2, <3>1
    <2> QED
      BY <1>0, <1>3, <2>1, <2>3
  <1>8. CASE s.result = "more" /\ s.data # <<>> /\ ~(Len(s.blocks) >= MaxBlocks) /\ r[1] # "Err"
    <2> DEFINE license == r[2].license
               b == r[2].bounds
    <2>1. next = [s EXCEPT !.blocks = Append(@, license), !.bounds = {b},
                           !.data = From(@, license.len)]
      BY <1>0, <1>8 DEF NextBlock
    <2>2. /\ license \in LicenseBlocks /\ BlockMinLen <= license.len /\ license.len <= Len(s.data)
          /\ b = Bounds(s.data) /\ b \in TimeBounds
          /\ check => b.start <= now /\ now <= b.end
          /\ \A outer \in s.bounds : Within(b, outer)
      <3>1. PICK q : q = r
        OBVIOUS
      <3>2. /\ q[2].license \in LicenseBlocks
            /\ BlockMinLen <= q[2].license.len /\ q[2].license.len <= Len(s.data)
            /\ q[2].bounds = Bounds(s.data) /\ Bounds(s.data) \in TimeBounds
            /\ check => Bounds(s.data).start <= now /\ now <= Bounds(s.data).end
            /\ \A outer \in s.bounds : Within(Bounds(s.data), outer)
        <4> HIDE DEF Record
        <4> QED
          BY <1>2, <1>8, <3>1, ParseBlockFacts
      <3> HIDE DEF Record, r
      <3> QED
        BY <3>1, <3>2
    <2> HIDE DEF r, license, b
    <2>3. PICK o \in Nat : o = Offset(s.blocks, Len(s.blocks) + 1) /\ o <= Len(data)
      BY <1>1
    <2>4. PICK len \in Nat : len = license.len
      BY <2>2 DEF LicenseBlocks
    <2>5. Len(s.data) = Len(data) - o /\ s.data = From(data, o)
      BY <1>1, <2>3, FromFacts
    <2>6. o + len <= Len(data)
      BY <2>2, <2>3, <2>4, <2>5
    <2>7. PICK longer : longer = Append(s.blocks, license)
      OBVIOUS
    <2>8. /\ longer \in Seq(LicenseBlocks) /\ Len(longer) = Len(s.blocks) + 1
          /\ Offset(longer, Len(longer) + 1) = o + license.len
          /\ LastBounds(data, longer) = {b}
          /\ GoodChain(data, longer, check, now)
      <3>1. o + license.len <= Len(data) /\ b = Bounds(From(data, o))
        BY <2>2, <2>4, <2>5, <2>6
      <3>2. \A outer \in LastBounds(data, s.blocks) : Within(b, outer)
        BY <1>1, <2>2
      <3>3. PICK blocks \in Seq(LicenseBlocks) : blocks = s.blocks
        BY <1>2
      <3>4. PICK l \in LicenseBlocks : l = license
        BY <2>2
      <3>5. PICK c \in TimeBounds : c = b
        BY <2>2
      <3>6. GoodChain(data, blocks, check, now)
        BY <1>1, <3>3
      <3>7. Follows(data, blocks, check, now, l, o, c)
        BY <2>2, <2>3, <3>1, <3>2, <3>3, <3>4, <3>5 DEF Follows
      <3>8. longer = Append(blocks, l)
        BY <2>7, <3>3, <3>4
      <3>9. LET longest == Append(blocks, l)
            IN /\ longest \in Seq(LicenseBlocks) /\ Len(longest) = Len(blocks) + 1
               /\ Offset(longest, Len(longest) + 1) = o + l.len
               /\ LastBounds(data, longest) = {c}
               /\ GoodChain(data, longest, check, now)
        BY <3>6, <3>7, LongerChain, Zenon
      <3> QED
        BY <3>3, <3>4, <3>5, <3>8, <3>9
    <2>9. PICK rest \in Seq(Byte) : rest = From(s.data, license.len) /\ rest = From(data, o + license.len)
      <3>1. From(From(data, o), len) = From(data, o + len)
        BY <2>6, FromFrom
      <3>2. From(s.data, len) \in Seq(Byte)
        BY <1>2, <2>2, <2>4, FromFacts
      <3> QED
        BY <2>4, <2>5, <3>1, <3>2
    <2>10. next = [blocks |-> longer, bounds |-> {b}, data |-> rest, result |-> "more"]
      BY <1>1, <1>8, <2>1, <2>7, <2>9
    <2>11. next \in Record
      <3>1. {b} \in SUBSET TimeBounds /\ "more" \in Results
        BY <2>2 DEF Results
      <3> QED
        BY <2>8, <2>9, <2>10, <3>1
    <2>12. Len(longer) <= MaxBlocks
      <3>1. PICK n \in Nat : n = Len(s.blocks)
        BY <1>2
      <3> QED
        BY <1>8, <2>8, <3>1 DEF MaxBlocks
    <2>13. o + license.len \in 0 .. Len(data)
      BY <2>4, <2>6
    <2>14. /\ next.blocks = longer /\ next.bounds = {b} /\ next.data = rest
           /\ next.result = "more"
      BY <2>10
    <2>15. next \in GoodLoops(data, check, now)
      <3>1. Offset(longer, Len(longer) + 1) \in 0 .. Len(data)
        BY <2>8, <2>13
      <3>2. rest = From(data, Offset(longer, Len(longer) + 1))
        BY <2>8, <2>9
      <3> QED
        BY <2>8, <2>11, <2>12, <2>14, <3>1, <3>2 DEF GoodLoops
    <2> QED
      BY <1>0, <2>15
  <1> QED
    BY <1>0, <1>4, <1>5, <1>6, <1>7, <1>8

\* All steps of that loop.
LEMMA AllBlocksFacts ==
  ASSUME NEW data \in Seq(Byte), NEW check, NEW now, NEW start \in GoodLoops(data, check, now)
  PROVE  AllBlocks(check, now, start) \in GoodLoops(data, check, now)
  <1> DEFINE D == GoodLoops(data, check, now)
             g == [n \in 1 .. MaxBlocks + 1 |-> [x \in D |-> NextBlock(check, now, x)]]
             Body(f) == [n \in 0 .. MaxBlocks + 1 |->
                           IF n = 0 THEN start ELSE NextBlock(check, now, f[n - 1])]
             t == CHOOSE f : f = Body(f)
  <1>1. PICK N \in Nat : N = MaxBlocks + 1
    BY DEF MaxBlocks
  <1>2. start \in D /\ \A x \in D : NextBlock(check, now, x) \in D
    BY NextBlockFacts
  <1> HIDE DEF D
  <1>3. PICK h \in [1 .. N -> [D -> D]] : h = g
    <2>1. g \in [1 .. N -> [D -> D]]
      BY <1>1, <1>2
    <2> QED
      BY <2>1
  <1>4. PICK f \in [0 .. N -> D] : Solves(f, N, start, h)
    <2> HIDE DEF g
    <2> QED
      BY <1>2, Recursion
  <1>5. f = Body(f)
    <2>1. \A n \in 1 .. N : f[n - 1] \in D
      <3>1. \A n \in 1 .. N : n - 1 \in 0 .. N
        BY <1>1
      <3> QED
        BY <3>1
    <2>2. \A n \in 1 .. N : h[n][f[n - 1]] = NextBlock(check, now, f[n - 1])
      BY <1>1, <1>3, <2>1
    <2>3. \A n \in 0 .. N : f[n] = IF n = 0 THEN start ELSE NextBlock(check, now, f[n - 1])
      <3>1. \A n \in 0 .. N : n = 0 \/ n \in 1 .. N
        BY <1>1
      <3>2. f[0] = start /\ \A n \in 1 .. N : f[n] = h[n][f[n - 1]]
        BY <1>4 DEF Solves
      <3> HIDE DEF g
      <3> QED
        BY <2>2, <3>1, <3>2
    <2> QED
      BY <1>1, <2>3
  <1>6. t = Body(t)
    BY <1>5
  <1>7. AllBlocks(check, now, start) = t[MaxBlocks + 1]
    BY DEF AllBlocks
  <1> HIDE DEF t
  <1>8. t = [n \in 0 .. N |-> IF n = 0 THEN start ELSE NextBlock(check, now, t[n - 1])]
    BY <1>1, <1>6, Zenon
  <1>9. t[0] = start /\ \A n \in 1 .. N : t[n] = NextBlock(check, now, t[n - 1])
    <2>1. 0 \in 0 .. N /\ \A n \in 1 .. N : n \in 0 .. N /\ n # 0
      BY <1>1
    <2>2. \A n \in 0 .. N : t[n] = IF n = 0 THEN start ELSE NextBlock(check, now, t[n - 1])
      BY <1>8, Zenon
    <2> QED
      BY <2>1, <2>2
  <1>10. N \in {n \in 0 .. N : t[n] \in D}
    <2> DEFINE U == {n \in 0 .. N : t[n] \in D}
    <2>1. 0 \in U
      BY <1>1, <1>2, <1>9
    <2>2. ASSUME NEW n \in 1 .. N, n - 1 \in U PROVE n \in U
      <3>1. t[n - 1] \in D
        BY <2>2
      <3>2. t[n] \in D
        BY <1>2, <1>9, <3>1
      <3> QED
        BY <1>1, <3>2
    <2>3. 0 .. N \subseteq U
      <3> HIDE DEF U
      <3> QED
        BY <1>1, <2>1, <2>2, UpTo
    <2>4. N \in 0 .. N
      BY <1>1
    <2> QED
      BY <2>3, <2>4
  <1> QED
    BY <1>1, <1>7, <1>10 DEF D

\* Whatever bytes a server sends, Licenses::parse accepts them only as a chain
\* of at most 8 blocks that fill the data, where no block is valid longer than
\* any block before it and, unless expired chains are allowed, every block is
\* valid now: parse_block compares a block with the one right before it, and
\* that is enough.
THEOREM AcceptedChainsNested ==
  ASSUME NEW data \in Seq(Byte), data # <<>>, NEW check, NEW now,
         Parse(data, check, now).result = "Ok"
  PROVE  LET blocks == Parse(data, check, now).blocks
             bounds(i) == Bounds(BlockData(data, blocks, i))
         IN /\ Len(blocks) <= MaxBlocks
            /\ Offset(blocks, Len(blocks) + 1) = Len(data)
            /\ \A j \in 1 .. Len(blocks) :
                 /\ check => bounds(j).start <= now /\ now <= bounds(j).end
                 /\ \A i \in 1 .. j : Within(bounds(j), bounds(i))
  <1> DEFINE start == Start(<<>>, {}, From(data, 1))
             parsed == Parse(data, check, now)
  <1>1. parsed = AllBlocks(check, now, start)
    <2>1. [Start(<<>>, {}, data) EXCEPT !.result = "UnsupportedVersion"].result # "Ok"
      BY DEF Start
    <2> QED
      BY <2>1 DEF Parse
  <1>2. PICK n \in Nat : n = Len(data) /\ 1 <= n
    <2>1. Len(data) \in Nat /\ 1 <= Len(data)
      BY EmptySeq
    <2> QED
      BY <2>1
  <1>3. PICK none \in Seq(LicenseBlocks) : none = <<>> /\ Len(none) = 0
    <2>1. <<>> \in Seq(LicenseBlocks) /\ Len(<<>>) = 0
      OBVIOUS
    <2> QED
      BY <2>1
  <1>4. Offset(none, 1) = 1
    <2>1. PICK o \in Nat \ {0} : o = 1
      OBVIOUS
    <2>2. HasLens(none, o - 1)
      BY <2>1 DEF HasLens
    <2>3. PICK t \in [0 .. o - 1 -> Nat] : Offsets(t, none, o)
      BY <2>2, OffsetSteps
    <2> QED
      BY <2>1, <2>3 DEF Offsets
  <1>5. From(data, 1) \in Seq(Byte)
    <2>1. 1 \in Nat /\ 1 <= Len(data)
      BY <1>2
    <2> QED
      BY <2>1, FromFacts
  <1>6. start \in GoodLoops(data, check, now)
    <2>1. start = [blocks |-> none, bounds |-> {}, data |-> From(data, 1), result |-> "more"]
      BY <1>3 DEF Start
    <2> HIDE DEF start
    <2>2. GoodChain(data, none, check, now) /\ LastBounds(data, none) = {}
      BY <1>3 DEF GoodChain, LastBounds
    <2>3. "more" \in Results /\ {} \in SUBSET TimeBounds
      BY DEF Results
    <2>4. start \in [blocks : Seq(LicenseBlocks), bounds : SUBSET TimeBounds, data : Seq(Byte),
                     result : Results]
      BY <1>5, <2>1, <2>3
    <2>5. /\ start.blocks = none /\ start.bounds = {} /\ start.data = From(data, 1)
          /\ start.result = "more"
      BY <2>1
    <2>6. 0 + 1 = 1 /\ 0 <= MaxBlocks /\ 1 \in 0 .. Len(data)
      BY <1>2 DEF MaxBlocks
    <2> QED
      BY <1>3, <1>4, <2>2, <2>4, <2>5, <2>6 DEF GoodLoops
  <1> HIDE DEF start, parsed
  <1>7. parsed \in GoodLoops(data, check, now)
    BY <1>1, <1>6, AllBlocksFacts
  <1>8. PICK blocks \in Seq(LicenseBlocks) :
          /\ blocks = parsed.blocks /\ Len(blocks) <= MaxBlocks
          /\ Offset(blocks, Len(blocks) + 1) \in 0 .. Len(data)
          /\ From(data, Offset(blocks, Len(blocks) + 1)) = parsed.data
          /\ GoodChain(data, blocks, check, now)
          /\ parsed.result = "Ok" => parsed.data = <<>>
    BY <1>7 DEF GoodLoops
  <1>9. Offset(blocks, Len(blocks) + 1) = Len(data)
    <2>1. PICK o \in Nat : o = Offset(blocks, Len(blocks) + 1) /\ o <= Len(data)
      BY <1>8
    <2>2. From(data, o) = <<>>
      BY <1>8, <2>1 DEF parsed
    <2>3. Len(From(data, o)) = Len(data) - o
      BY <2>1, FromFacts
    <2>4. Len(data) - o = 0
      BY <2>2, <2>3
    <2> QED
      BY <1>2, <2>1, <2>4
  <1> QED
    BY <1>8, <1>9 DEF parsed, GoodChain, BoundsOf

=============================================================================
