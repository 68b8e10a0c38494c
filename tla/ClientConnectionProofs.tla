----------------------- MODULE ClientConnectionProofs -----------------------
(***************************************************************************)
(* Proofs about the Connection of the client library, for any number of    *)
(* commands, changes by the server and connections.                        *)
(*                                                                         *)
(* The argument.  A poll returns the first item of a step at once and lets *)
(* the others wait, so that only items about the audio, the book and the   *)
(* connection wait and an answer never does (IInv).  What the user will    *)
(* know of the audio is what the last waiting item says of it; a step that *)
(* adds items changes it only through these (AudioInv).  Likewise the      *)
(* first item of a connection tells of it, and what tells its loss waits   *)
(* until it is returned (ConnectedInv).  For the handles, every one        *)
(* without an answer is in one place: in a command on the way to the       *)
(* server, in an answer on the way back, or in the list of transfers; and  *)
(* the next one was not given out before (SessionInv).  A step moves a     *)
(* handle, takes the next one, or returns the answer to one, which are the *)
(* steps of Session.                                                       *)
(***************************************************************************)
EXTENDS ClientConnection, SequenceTheorems, TLAPS

-----------------------------------------------------------------------------
(* The invariant.                                                          *)

Codes == 0 .. (CodeCount - 1)

\* The commands and the items that there are.
ToServer ==
  [kind : {"plain"}, code : 0 .. CodeCount]
    \cup [kind : {"mutes"}, mutes : SUBSET Mutes, code : Codes]
    \cup [kind : {"transfer"}, id : Codes, code : Codes]
    \cup [kind : {"disconnect", "info", "subscribe"}]

ToClient ==
  [kind : {"result"}, code : 0 .. CodeCount, ok : BOOLEAN]
    \cup [kind : {"updated"}, mutes : SUBSET Mutes]
    \cup [kind : {"transfer", "status"}, id : Codes]
    \cup [kind : {"left"}, stop : BOOLEAN]
    \cup [kind : {"enter"}, mutes : SUBSET Mutes, channel : Channels]
    \cup [kind : {"moved"}, channel : Channels]
    \cup [kind : {"other", "channel", "inforequest"}]

AudioItem == [kind : {"send", "receive"}, on : BOOLEAN]
AnswerItem == [kind : {"result", "transfer"}, id : Codes, ok : BOOLEAN]
PlainItem == [kind : {"disconnected", "increasing", "increased", "audio", "stats", "message"}]
BookItem == [kind : {"book"}]
Item == PlainItem \cup BookItem \cup AudioItem \cup AnswerItem
WaitingItem == PlainItem \cup BookItem \cup AudioItem

Heard == [send : BOOLEAN, receive : BOOLEAN, connected : BOOLEAN, answers : Nat]

ConType == [code : Codes, transfer : Codes, subscribed : BOOLEAN, transfers : Seq(Codes)]

ChannelsTyped ==
  /\ c2s \in Seq(ToServer) /\ s2c \in Seq(ToClient)
  /\ server \in [mutes : SUBSET Mutes, channel : Channels \cup {0}, shown : BOOLEAN]
  /\ state = "connected" => server.channel \in Channels

\* An answer is returned at once, it never waits; only a connection gives
\* items about the book.
OwnItems ==
  /\ stream_items \in Seq(WaitingItem)
  /\ state # "connected" => stream_items \in Seq(PlainItem \cup AudioItem)

IInv == TypeOK /\ ChannelsTyped /\ OwnItems

-----------------------------------------------------------------------------
(* Items.                                                                  *)

\* Every item is of one sort.
LEMMA ItemTypes ==
    /\ Book \in BookItem /\ Disconnected \in PlainItem
    /\ \A b \in BOOLEAN : Send(b) \in AudioItem /\ Receive(b) \in AudioItem
    /\ \A k \in {"increasing", "increased", "audio", "stats", "message"} : Plain(k) \in PlainItem
    /\ \A k \in {"result", "transfer"}, id \in Codes, ok \in BOOLEAN :
         Answer(k, id, ok) \in AnswerItem
  BY DEF Book, Disconnected, Send, Receive, Plain, Answer, BookItem, PlainItem,
         AudioItem, AnswerItem

\* The audio events are items about audio.
LEMMA AudioTypes ==
    ASSUME NEW me, NEW opts
    PROVE  AudioChanges(me, opts) \in Seq(AudioItem) /\ AudioStops \in Seq(AudioItem)
  <1>1. CanSend(me, opts) \in BOOLEAN /\ CanReceive(me, opts) \in BOOLEAN
    BY DEF CanSend, CanReceive
  <1>2. Send(CanSend(me, opts)) \in AudioItem /\ Receive(CanReceive(me, opts)) \in AudioItem
    BY <1>1, ItemTypes
  <1>3. Send(FALSE) \in AudioItem /\ Receive(FALSE) \in AudioItem
    BY ItemTypes
  <1>4. AudioChanges(me, opts) \in Seq(AudioItem)
    <2> DEFINE a == Send(CanSend(me, opts))
               b == Receive(CanReceive(me, opts))
               p == CanSend(me, opts) = CanSend(own, options)
               q == CanReceive(me, opts) = CanReceive(own, options)
    <2>1. AudioChanges(me, opts) = (IF p THEN <<>> ELSE <<a>>) \o (IF q THEN <<>> ELSE <<b>>)
      BY DEF AudioChanges
    <2>2. a \in AudioItem /\ b \in AudioItem
      BY <1>2
    <2> HIDE DEF a, b, p, q
    <2> QED
      BY <2>1, <2>2
  <1>5. AudioStops \in Seq(AudioItem)
    <2> DEFINE p == CanSend(own, options)
               q == CanReceive(own, options)
               a == Send(FALSE)
               b == Receive(FALSE)
    <2>1. AudioStops = (IF p THEN <<a>> ELSE <<>>) \o (IF q THEN <<b>> ELSE <<>>)
      BY DEF AudioStops
    <2>2. a \in AudioItem /\ b \in AudioItem
      BY <1>3
    <2> HIDE DEF a, b, p, q
    <2> QED
      BY <2>1, <2>2
  <1> QED
    BY <1>4, <1>5

\* Learning from one item keeps the types.
LEMMA LearnTypes ==
    ASSUME NEW known \in Heard, NEW i \in Item PROVE Learn(known, i) \in Heard
  <1>1. CASE i \in PlainItem
    BY <1>1 DEF Learn, Heard, PlainItem
  <1>2. CASE i \in BookItem
    BY <1>2 DEF Learn, Heard, BookItem
  <1>3. CASE i \in AudioItem
    BY <1>3 DEF Learn, Heard, AudioItem
  <1>4. CASE i \in AnswerItem
    BY <1>4 DEF Learn, Heard, AnswerItem
  <1> QED
    BY <1>1, <1>2, <1>3, <1>4 DEF Item

\* Returning the first of the items leaves the rest.
LEMMA ReturnFacts ==
    ASSUME NEW S, S \subseteq Item, NEW items \in Seq(S), stream_items \in Seq(S),
           heard \in Heard, Return(items)
    PROVE  stream_items' \in Seq(S) /\ heard' \in Heard
  <1>1. CASE items = <<>>
    BY <1>1 DEF Return
  <1>2. CASE items # <<>>
    <2>1. Head(items) \in Item /\ Tail(items) \in Seq(S)
      BY <1>2
    <2> QED
      BY <1>2, <2>1, LearnTypes DEF Return
  <1> QED
    BY <1>1, <1>2

\* The same when only the first item belongs to the connection.
LEMMA ReturnRest ==
    ASSUME NEW S, S \subseteq Item, NEW first \in Item, NEW rest \in Seq(S),
           heard \in Heard, Return(<<first>> \o rest)
    PROVE  stream_items' = rest /\ heard' \in Heard /\ heard' = Learn(heard, first)
  <1> DEFINE items == <<first>> \o rest
  <1>1. items \in Seq(Item) /\ items # <<>> /\ Head(items) = first /\ Tail(items) = rest
    <2>1. <<first>> \in Seq(Item) /\ rest \in Seq(Item)
      OBVIOUS
    <2>2. items # <<>> /\ items \in Seq(Item) /\ Len(items) = 1 + Len(rest)
      BY <2>1
    <2>3. Head(items) = first
      BY <2>1, <2>2
    <2>4. Len(Tail(items)) = Len(rest) /\ \A n \in 1 .. Len(rest) : Tail(items)[n] = rest[n]
      BY <2>1, <2>2
    <2>5. Tail(items) = rest
      BY <2>1, <2>2, <2>4, SeqEqual, HeadTailProperties
    <2> QED
      BY <2>2, <2>3, <2>5
  <1> HIDE DEF items
  <1>2. Return(items)
    BY DEF items
  <1> QED
    BY <1>1, <1>2, LearnTypes DEF Return

-----------------------------------------------------------------------------
(* Types: the invariant, one lemma for each group of actions.              *)

ServerType == [mutes : SUBSET Mutes, channel : Channels \cup {0}, shown : BOOLEAN]
AttemptType == [todo : 0 .. MaxAddresses, timedout : BOOLEAN, reconnect : BOOLEAN]

\* The fixed records are of their types.
LEMMA FixedTypes ==
    /\ NoAttempt \in AttemptType
    /\ NoThread \in [needed : Levels \cup {0}, canceled : BOOLEAN]
    /\ NewCon \in ConType
    /\ NoServer \in ServerType
  BY ClientAssumption DEF NoAttempt, NoThread, NewCon, NoServer, AttemptType, ConType,
     ServerType, Codes

\* The levels of identities are numbers.
LEMMA LevelNumbers == \A n \in Levels \cup {0} : n \in Nat
  BY ClientAssumption

\* A new attempt to connect.
LEMMA ConnectingTypes ==
    ASSUME NEW r \in BOOLEAN, Connecting(r) PROVE state' = "connecting" /\ attempt' \in AttemptType
  BY DEF Connecting, AttemptType

\* What is left when a connection is given up.
LEMMA GiveUpTypes ==
    ASSUME IInv, GiveUp, thread' = thread, options' = options, heard' \in Heard,
           stream_items' \in Seq(PlainItem \cup AudioItem)
    PROVE  IInv'
  <1>1. state' = "connecting" /\ attempt' \in AttemptType
    BY ConnectingTypes DEF GiveUp
  <1>2. con' \in ConType /\ server' \in ServerType
    BY FixedTypes DEF GiveUp
  <1>3. stream_items' \in Seq(WaitingItem)
    BY DEF WaitingItem
  <1>4. own' = {} /\ resender' = "connected" /\ c2s' = <<>> /\ s2c' = <<>> /\ ended' = ended
    BY DEF GiveUp
  <1>5. TypeOK'
    BY <1>1, <1>2, <1>4 DEF IInv, TypeOK, AttemptType, ConType, Codes, Heard
  <1>6. ChannelsTyped' /\ OwnItems'
    BY <1>1, <1>2, <1>3, <1>4 DEF ChannelsTyped, OwnItems, ServerType
  <1> QED
    BY <1>5, <1>6 DEF IInv

\* A waiting item is returned.
LEMMA PollWaitingTypes == ASSUME IInv, PollWaiting PROVE IInv'
  <1>1. heard' \in Heard /\ stream_items' \in Seq(WaitingItem)
    <2>1. WaitingItem \subseteq Item
      BY DEF WaitingItem, Item
    <2> QED
      BY <2>1, ReturnFacts DEF IInv, TypeOK, OwnItems, PollWaiting, Heard
  <1>2. state # "connected" => stream_items' \in Seq(PlainItem \cup AudioItem)
    <2>1. PlainItem \cup AudioItem \subseteq Item
      BY DEF Item
    <2> DEFINE S == PlainItem \cup AudioItem
    <2> HIDE DEF S
    <2>2. S \subseteq Item /\ (state # "connected" => stream_items \in Seq(S))
      BY <2>1 DEF S, IInv, OwnItems
    <2>3. heard \in Heard /\ Return(stream_items)
      BY DEF IInv, TypeOK, Heard, PollWaiting
    <2>4. state # "connected" => stream_items' \in Seq(S)
      BY <2>2, <2>3, ReturnFacts
    <2> QED
      BY <2>4 DEF S
  <1> QED
    BY <1>1, <1>2 DEF IInv, TypeOK, ChannelsTyped, OwnItems, PollWaiting, Heard

\* While there is no connection.
LEMMA ConnectingKeeps ==
    ASSUME IInv,
           \/ \E timeout \in BOOLEAN : AddressFails(timeout)
           \/ ConnectFailed \/ ConnectRefused
           \/ \E level \in Levels : IncreaseIdentityLevel(level)
           \/ IdentityIncreased \/ ThreadDied
    PROVE  IInv'
  <1>1. ASSUME NEW timeout \in BOOLEAN, AddressFails(timeout) PROVE IInv'
    <2>1. attempt' \in AttemptType
      <3>1. attempt.todo - 1 \in 0 .. MaxAddresses
        <4>1. attempt.todo \in 0 .. MaxAddresses
          BY DEF IInv, TypeOK
        <4>2. attempt.todo > 0
          BY <1>1 DEF AddressFails
        <4> QED
          BY <4>1, <4>2, ClientAssumption
      <3> DEFINE b == attempt.timedout \/ timeout
      <3>2. b \in BOOLEAN
        OBVIOUS
      <3>3. attempt' = [attempt EXCEPT !.todo = attempt.todo - 1, !.timedout = b]
        BY <1>1 DEF AddressFails
      <3> HIDE DEF b
      <3> QED
        BY <3>1, <3>2, <3>3 DEF IInv, TypeOK, AttemptType
    <2> QED
      BY <1>1, <2>1 DEF IInv, TypeOK, ChannelsTyped, OwnItems, AddressFails,
         PollConnecting, seen, AttemptType, Polling
  <1>2. CASE ConnectFailed
    <2>1. CASE attempt.reconnect /\ attempt.timedout
      <3>1. state' = "connecting" /\ attempt' \in AttemptType
        BY <1>2, <2>1, ConnectingTypes DEF ConnectFailed
      <3> QED
        BY <1>2, <2>1, <3>1 DEF IInv, TypeOK, ChannelsTyped, OwnItems, ConnectFailed,
           PollConnecting, seen, AttemptType, Polling
    <2>2. CASE ~(attempt.reconnect /\ attempt.timedout)
      BY <1>2, <2>2 DEF IInv, TypeOK, ChannelsTyped, OwnItems, ConnectFailed,
         PollConnecting, End, Polling
    <2> QED
      BY <2>1, <2>2
  <1>3. CASE ConnectRefused
    BY <1>3 DEF IInv, TypeOK, ChannelsTyped, OwnItems, ConnectRefused, PollConnecting,
       End, Polling
  <1>4. ASSUME NEW level \in Levels, IncreaseIdentityLevel(level) PROVE IInv'
    <2>1. CASE level > MaxLevel \/ options.level >= level
      BY <1>4, <2>1 DEF IInv, TypeOK, ChannelsTyped, OwnItems, IncreaseIdentityLevel,
         PollConnecting, End, Polling
    <2>2. CASE ~(level > MaxLevel \/ options.level >= level)
      <3>1. Return(<<Plain("increasing")>>)
        BY <1>4, <2>2 DEF IncreaseIdentityLevel
      <3>2. stream_items' = <<>> /\ heard' \in Heard
        <4>1. Plain("increasing") \in Item
          BY ItemTypes DEF Item
        <4>2. <<Plain("increasing")>> # <<>> /\ Head(<<Plain("increasing")>>) = Plain("increasing")
              /\ Tail(<<Plain("increasing")>>) = <<>>
          OBVIOUS
        <4> QED
          BY <3>1, <4>1, <4>2, LearnTypes DEF Return, IInv, TypeOK, Heard
      <3>3. thread' \in [needed : Levels \cup {0}, canceled : BOOLEAN]
        <4>1. thread' = [needed |-> level, canceled |-> FALSE]
          BY <1>4, <2>2 DEF IncreaseIdentityLevel
        <4> QED
          BY <4>1
      <3> QED
        BY <1>4, <2>2, <3>2, <3>3, FixedTypes DEF IInv, TypeOK, ChannelsTyped, OwnItems,
           IncreaseIdentityLevel, PollConnecting, Polling, Heard, AttemptType
    <2> QED
      BY <2>1, <2>2
  <1>5. CASE IdentityIncreased
    <2>1. Return(<<Plain("increased")>>)
      BY <1>5 DEF IdentityIncreased
    <2>2. stream_items' = <<>> /\ heard' \in Heard
      <3>1. Plain("increased") \in Item
        BY ItemTypes DEF Item
      <3>2. <<Plain("increased")>> # <<>> /\ Head(<<Plain("increased")>>) = Plain("increased")
            /\ Tail(<<Plain("increased")>>) = <<>>
        OBVIOUS
      <3> QED
        BY <2>1, <3>1, <3>2, LearnTypes DEF Return, IInv, TypeOK, Heard
    <2>3. state' = "connecting" /\ attempt' \in AttemptType
      BY <1>5, ConnectingTypes DEF IdentityIncreased
    <2>4. options' \in [mutes : SUBSET Mutes, channel : Channels, level : Nat]
      <3>1. thread.needed \in Nat
        <4>1. thread.needed \in Levels \cup {0}
          BY DEF IInv, TypeOK
        <4> QED
          BY <4>1, LevelNumbers
      <3> QED
        BY <1>5, <3>1 DEF IdentityIncreased, IInv, TypeOK
    <2> QED
      BY <1>5, <2>2, <2>3, <2>4, FixedTypes DEF IInv, TypeOK, ChannelsTyped, OwnItems,
         IdentityIncreased, Polling, Heard, AttemptType
  <1>6. CASE ThreadDied
    BY <1>6 DEF IInv, TypeOK, ChannelsTyped, OwnItems, ThreadDied, End, Polling
  <1> QED
    BY <1>1, <1>2, <1>3, <1>4, <1>5, <1>6

\* The connection is there.
LEMMA ConnectKeeps == ASSUME IInv, Connect PROVE IInv'
  <1> DEFINE on == Send(TRUE)
             rec == Receive(TRUE)
             a == IF CanSend({}, options) THEN <<on>> ELSE <<>>
             b == IF CanReceive({}, options) THEN <<rec>> ELSE <<>>
  <1>1. a \in Seq(WaitingItem) /\ b \in Seq(WaitingItem) /\ <<Book>> \in Seq(WaitingItem)
    <2>1. on \in WaitingItem /\ rec \in WaitingItem /\ Book \in WaitingItem
      BY ItemTypes DEF WaitingItem
    <2> HIDE DEF on, rec
    <2> QED
      BY <2>1
  <1>2. Return(<<Book>> \o a \o b)
    BY DEF Connect
  <1> HIDE DEF a, b
  <1>3. <<Book>> \o a \o b \in Seq(WaitingItem)
    BY <1>1, ConcatProperties
  <1>4. stream_items' \in Seq(WaitingItem) /\ heard' \in Heard
    <2>1. WaitingItem \subseteq Item
      BY DEF WaitingItem, Item
    <2> QED
      BY <1>2, <1>3, <2>1, ReturnFacts DEF IInv, TypeOK, OwnItems, Heard
  <1>5. server' \in ServerType /\ server'.channel \in Channels
    BY DEF Connect, IInv, TypeOK, ServerType
  <1> QED
    BY <1>4, <1>5, FixedTypes DEF IInv, TypeOK, ChannelsTyped, OwnItems, Connect, Polling,
       Heard, ServerType, AttemptType, ConType, Codes

\* The thread that improves the identity is told to stop.
LEMMA CancelKeeps == ASSUME IInv, CancelIdentityLevelIncrease PROVE IInv'
  <1>1. thread' \in [needed : Levels \cup {0}, canceled : BOOLEAN]
    BY DEF CancelIdentityLevelIncrease, IInv, TypeOK
  <1>2. TypeOK'
    BY <1>1 DEF CancelIdentityLevelIncrease, IInv, TypeOK, seen
  <1>3. ChannelsTyped' /\ OwnItems'
    BY DEF CancelIdentityLevelIncrease, IInv, ChannelsTyped, OwnItems, seen
  <1> QED
    BY <1>2, <1>3 DEF IInv

\* The next return code.
LEMMA NextCodeType == ASSUME NEW n \in Codes PROVE NextCode(n) \in Codes
  BY ClientAssumption DEF NextCode, Codes

\* Calls of the user.
LEMMA UserKeeps == ASSUME IInv, User PROVE IInv'
  <1>1. con.code \in Codes /\ con.transfer \in Codes /\ NextCode(con.code) \in Codes
        /\ NextCode(con.transfer) \in Codes /\ con \in ConType
    BY NextCodeType DEF IInv, TypeOK, ConType, Codes
  <1>2. con.code \in 0 .. CodeCount /\ NoCode \in 0 .. CodeCount
    BY <1>1, ClientAssumption DEF NoCode, Codes
  <1>3. ASSUME UNCHANGED <<options, own, resender, stream_items>>,
               NEW c \in ToServer, c2s' = Append(c2s, c), UserStep, con' \in ConType
        PROVE  IInv'
    BY <1>3 DEF IInv, TypeOK, ChannelsTyped, OwnItems, UserStep, Polling, seen, ConType, Codes
  <1>4. CASE StartTransfer
    <2> DEFINE c == [kind |-> "transfer", id |-> con.transfer, code |-> con.code]
    <2>1. c \in ToServer
      BY <1>1 DEF ToServer
    <2>2. con' \in ConType
      BY <1>1, <1>4 DEF StartTransfer, ConType
    <2> QED
      BY <1>3, <1>4, <2>1, <2>2 DEF StartTransfer
  <1>5. CASE Disconnect
    <2>1. Plain("disconnect") \in ToServer
      BY DEF Plain, ToServer
    <2> QED
      BY <1>5, <2>1 DEF Disconnect, IInv, TypeOK, ChannelsTyped, OwnItems, UserStep, Polling, seen
  <1>6. ASSUME NEW with_result \in BOOLEAN, SendCommand(with_result) PROVE IInv'
    <2> DEFINE k == IF with_result THEN con.code ELSE NoCode
               c == [kind |-> "plain", code |-> k]
    <2>1. k \in 0 .. CodeCount
      BY <1>2
    <2>2. c \in ToServer
      BY <2>1 DEF ToServer
    <2>3. con' \in ConType
      BY <1>1, <1>6 DEF SendCommand, ConType
    <2>4. c2s' = Append(c2s, c) /\ UserStep /\ UNCHANGED <<options, own, resender, stream_items>>
      BY <1>6 DEF SendCommand
    <2> HIDE DEF c
    <2> QED
      BY <1>3, <2>2, <2>3, <2>4
  <1>7. ASSUME NEW m \in SUBSET Mutes, SetMutes(m) PROVE IInv'
    <2> DEFINE c == [kind |-> "mutes", mutes |-> m, code |-> con.code]
               bk == IF own' = own THEN <<>> ELSE <<Book>>
               ac == AudioChanges(own', options')
    <2>1. c \in ToServer /\ c2s' = Append(c2s, c)
      BY <1>1, <1>7 DEF ToServer, SetMutes
    <2>2. con' \in ConType
      BY <1>1, <1>7 DEF SetMutes, ConType
    <2>3. own' \subseteq [mutes : SUBSET Mutes, channel : Channels]
      <3>1. ASSUME NEW x \in own PROVE [x EXCEPT !.mutes = m] \in [mutes : SUBSET Mutes, channel : Channels]
        BY <3>1 DEF IInv, TypeOK
      <3> QED
        BY <1>7, <3>1 DEF SetMutes
    <2>4. options' \in [mutes : SUBSET Mutes, channel : Channels, level : Nat]
      BY <1>7 DEF SetMutes, IInv, TypeOK
    <2>5. bk \in Seq(WaitingItem) /\ ac \in Seq(WaitingItem) /\ stream_items \in Seq(WaitingItem)
      <3>1. Book \in WaitingItem
        BY ItemTypes DEF WaitingItem
      <3>2. ac \in Seq(AudioItem)
        BY AudioTypes
      <3>3. stream_items \in Seq(WaitingItem)
        BY DEF IInv, OwnItems
      <3> HIDE DEF ac
      <3>4. ac \in Seq(WaitingItem)
        BY <3>2 DEF WaitingItem
      <3>5. bk \in Seq(WaitingItem)
        BY <3>1
      <3> QED
        BY <3>3, <3>4, <3>5
    <2>6. stream_items' = stream_items \o bk \o ac
      BY <1>7 DEF SetMutes
    <2> HIDE DEF bk, ac
    <2>7. stream_items' \in Seq(WaitingItem)
      BY <2>5, <2>6, ConcatProperties
    <2>8. UserStep /\ UNCHANGED resender
      BY <1>7 DEF SetMutes
    <2>9. TypeOK'
      BY <2>2, <2>3, <2>4, <2>8 DEF IInv, TypeOK, UserStep, Polling, seen, ConType, Codes
    <2>10. ChannelsTyped'
      BY <2>1, <2>8 DEF IInv, ChannelsTyped, UserStep
    <2> QED
      BY <2>7, <2>8, <2>9, <2>10 DEF IInv, OwnItems, UserStep, Polling
  <1>8. ASSUME NEW all \in BOOLEAN, Subscribe(all) PROVE IInv'
    <2> DEFINE c == [kind |-> "plain", code |-> con.code]
    <2>1. c \in ToServer
      BY <1>2 DEF ToServer
    <2>2. con' \in ConType
      BY <1>1, <1>8 DEF Subscribe, ConType
    <2> QED
      BY <1>3, <1>8, <2>1, <2>2 DEF Subscribe
  <1> QED
    BY <1>4, <1>5, <1>6, <1>7, <1>8 DEF User

OptionsType == [mutes : SUBSET Mutes, channel : Channels, level : Nat]
OwnType == [mutes : SUBSET Mutes, channel : Channels]
ResenderStates == {"connected", "disconnecting", "disconnected"}

\* What a step of a connection that stays connected has to keep.
LEMMA StayConnected ==
    ASSUME IInv, PollConnected, UNCHANGED <<state, attempt, server>>,
           options' \in OptionsType, own' \subseteq OwnType, con' \in ConType,
           resender' \in ResenderStates, ended' \in {"no", "error", "end"},
           c2s' \in Seq(ToServer), s2c' \in Seq(ToClient),
           stream_items' \in Seq(WaitingItem), heard' \in Heard
    PROVE  IInv'
  <1>1. state' = "connected" /\ thread' = thread
    BY DEF PollConnected, Polling
  <1>2. TypeOK'
    BY <1>1 DEF IInv, TypeOK, OptionsType, OwnType, ConType, Codes, ResenderStates, Heard
  <1>3. ChannelsTyped'
    BY DEF IInv, ChannelsTyped
  <1>4. OwnItems'
    BY <1>1 DEF OwnItems
  <1> QED
    BY <1>2, <1>3, <1>4 DEF IInv

\* The parts of the invariant that are used below.
LEMMA Parts ==
    ASSUME IInv
    PROVE  /\ options \in OptionsType /\ own \subseteq OwnType /\ con \in ConType
           /\ resender \in ResenderStates /\ ended \in {"no", "error", "end"}
           /\ c2s \in Seq(ToServer) /\ s2c \in Seq(ToClient)
           /\ stream_items \in Seq(WaitingItem) /\ stream_items \in Seq(Item) /\ heard \in Heard
  <1>1. stream_items \in Seq(WaitingItem) /\ WaitingItem \subseteq Item
    BY DEF IInv, OwnItems, WaitingItem, Item
  <1>2. stream_items \in Seq(Item)
    BY <1>1, SeqMonotonic
  <1> QED
    BY <1>1, <1>2 DEF IInv, TypeOK, ChannelsTyped, OptionsType, OwnType, ConType, Codes,
       ResenderStates, Heard

\* One item is returned at once, and nothing waits.
LEMMA ReturnOne ==
    ASSUME heard \in Heard, NEW i \in Item, Return(<<i>>)
    PROVE  stream_items' = <<>> /\ heard' = Learn(heard, i) /\ heard' \in Heard
  <1>1. <<i>> # <<>> /\ Head(<<i>>) = i /\ Tail(<<i>>) = <<>>
    OBVIOUS
  <1> QED
    BY <1>1, LearnTypes DEF Return

\* What a connection returns that is not a command.
LEMMA PollItemKeeps == ASSUME IInv, PollItem PROVE IInv'
  <1> USE Parts
  <1>1. CASE PollTimeout
    <2>1. CASE resender = "connected"
      <3>1. GiveUp /\ Return(<<Disconnected>>)
        BY <1>1, <2>1 DEF PollTimeout
      <3>2. Disconnected \in Item
        BY ItemTypes DEF Item
      <3>3. stream_items' = <<>> /\ heard' \in Heard
        BY <3>1, <3>2, ReturnOne
      <3>4. stream_items' \in Seq(PlainItem \cup AudioItem) /\ options' = options /\ thread' = thread
        BY <1>1, <3>3 DEF PollTimeout, PollConnected
      <3> QED
        BY <3>1, <3>3, <3>4, GiveUpTypes
    <2>2. CASE resender # "connected"
      BY <1>1, <2>2, StayConnected DEF PollTimeout, End
    <2> QED
      BY <2>1, <2>2
  <1>2. CASE PollError
    BY <1>2, StayConnected DEF PollError, End
  <1>3. CASE PollEnd
    BY <1>3, StayConnected DEF PollEnd, End
  <1>4. CASE PollStats
    <2>1. Plain("stats") \in Item
      BY ItemTypes DEF Item
    <2>2. stream_items' = <<>> /\ heard' \in Heard
      BY <1>4, <2>1, ReturnOne DEF PollStats
    <2>3. stream_items' \in Seq(WaitingItem)
      BY <2>2
    <2> QED
      BY <1>4, <2>2, <2>3, StayConnected DEF PollStats
  <1>5. ASSUME NEW e \in BOOLEAN, NEW u \in BOOLEAN, PollAudio(e, u) PROVE IInv'
    <2>1. Plain("audio") \in Item
      BY ItemTypes DEF Item
    <2>2. stream_items' = <<>> /\ heard' \in Heard
      BY <1>5, <2>1, ReturnOne DEF PollAudio
    <2>3. stream_items' \in Seq(WaitingItem)
      BY <2>2
    <2> QED
      BY <1>5, <2>2, <2>3, StayConnected DEF PollAudio
  <1>6. ASSUME NEW i \in DOMAIN con.transfers, NEW ok \in BOOLEAN, PollTransfer(i, ok) PROVE IInv'
    <2> DEFINE t == Answer("transfer", con.transfers[i], ok)
               r == RemoveAt(con.transfers, i)
    <2>0. con.transfers \in Seq(Codes) /\ i \in 1 .. Len(con.transfers)
      BY DEF ConType
    <2>1. t \in Item
      <3>1. con.transfers[i] \in Codes
        BY <2>0
      <3> QED
        BY <3>1, ItemTypes DEF Item
    <2>2. Return(<<t>>)
      BY <1>6 DEF PollTransfer
    <2> HIDE DEF t
    <2>3. stream_items' = <<>> /\ heard' \in Heard
      BY <2>1, <2>2, ReturnOne
    <2>4. stream_items' \in Seq(WaitingItem)
      BY <2>3
    <2>5. r \in Seq(Codes)
      BY <2>0, SubSeqProperties, ConcatProperties DEF RemoveAt
    <2>6. con' = [con EXCEPT !.transfers = r]
      BY <1>6 DEF PollTransfer
    <2> HIDE DEF r
    <2>7. con' \in ConType
      BY <2>5, <2>6 DEF ConType
    <2> QED
      BY <1>6, <2>3, <2>4, <2>7, StayConnected DEF PollTransfer
  <1> QED
    BY <1>1, <1>2, <1>3, <1>4, <1>5, <1>6 DEF PollItem

\* Items at most one, and not about audio.
QuietItems == {<<>>} \cup {<<i>> : i \in AnswerItem \cup BookItem \cup {Plain("message")}}

\* The items of a command, with the changes of the audio after them.
LEMMA HandledTypes ==
    ASSUME heard \in Heard, stream_items = <<>>, NEW items \in QuietItems, NEW me, NEW opts,
           Return(items \o AudioChanges(me, opts))
    PROVE  /\ stream_items' \in Seq(AudioItem) /\ stream_items' \in Seq(WaitingItem) /\ heard' \in Heard
           /\ items = <<>> => heard'.answers = heard.answers
           /\ \A i \in Item : items = <<i>> => heard'.answers = Learn(heard, i).answers
  <1> DEFINE ac == AudioChanges(me, opts)
  <1>1. ac \in Seq(AudioItem) /\ AudioItem \subseteq Item /\ AudioItem \subseteq WaitingItem
    BY AudioTypes DEF Item, WaitingItem
  <1> HIDE DEF ac
  <1>2. Return(items \o ac)
    BY DEF ac
  <1>3. CASE items = <<>>
    <2>1. Return(ac) /\ stream_items \in Seq(AudioItem)
      BY <1>1, <1>2, <1>3
    <2>2. stream_items' \in Seq(AudioItem) /\ heard' \in Heard
      BY <1>1, <2>1, ReturnFacts
    <2>3. heard'.answers = heard.answers
      <3>1. CASE ac = <<>>
        BY <2>1, <3>1 DEF Return
      <3>2. CASE ac # <<>>
        <4>1. Head(ac) \in AudioItem /\ heard' = Learn(heard, Head(ac))
          BY <1>1, <2>1, <3>2 DEF Return
        <4>2. ASSUME NEW i \in AudioItem PROVE Learn(heard, i).answers = heard.answers
          BY DEF Learn, AudioItem, Heard
        <4> QED
          BY <4>1, <4>2
      <3> QED
        BY <3>1, <3>2
    <2>4. \A i \in Item : items # <<i>>
      BY <1>3
    <2> QED
      BY <1>1, <1>3, <2>2, <2>3, <2>4, SeqMonotonic
  <1>4. ASSUME NEW i \in AnswerItem \cup BookItem \cup {Plain("message")}, items = <<i>>
        PROVE  /\ stream_items' \in Seq(AudioItem) /\ stream_items' \in Seq(WaitingItem) /\ heard' \in Heard
               /\ items = <<>> => heard'.answers = heard.answers
               /\ \A j \in Item : items = <<j>> => heard'.answers = Learn(heard, j).answers
    <2>1. i \in Item
      BY <1>4, ItemTypes DEF Item
    <2>2. stream_items' = ac /\ heard' \in Heard /\ heard' = Learn(heard, i)
      BY <1>1, <1>2, <1>4, <2>1, ReturnRest
    <2>3. items # <<>> /\ \A j \in Item : items = <<j>> => j = i
      BY <1>4
    <2> QED
      BY <1>1, <2>2, <2>3, SeqMonotonic
  <1> QED
    BY <1>3, <1>4 DEF QuietItems

\* The commands of the server.
LEMMA CommandTypes ==
    ASSUME IInv, NEW kind, Arrived(kind)
    PROVE  /\ Head(s2c) \in ToClient /\ Head(s2c).kind = kind /\ Tail(s2c) \in Seq(ToClient)
           /\ PollConnected /\ s2c # <<>>
  BY Parts DEF Arrived

\* The items of a connection.
LEMMA SmallItems ==
    /\ <<>> \in Seq(Item) /\ <<Book>> \in Seq(Item) /\ <<Plain("message")>> \in Seq(Item)
    /\ <<Disconnected>> \in Seq(Item)
    /\ <<Disconnected>> \in Seq(PlainItem \cup AudioItem)
  <1>1. Book \in Item /\ Plain("message") \in Item /\ Disconnected \in PlainItem
    BY ItemTypes DEF Item
  <1> QED
    BY <1>1 DEF Item

\* handle_command, except for the own client leaving.
LEMMA HandleKeeps ==
    ASSUME IInv,
           \/ HandleResult \/ HandleTransferStart \/ HandleTransferStatus
           \/ HandleInfoRequest \/ HandleEnter \/ HandleUpdated \/ HandleMoved
           \/ HandleChannelCreated \/ HandleOther
    PROVE  IInv'
  <1> USE Parts
  <1> DEFINE c == Head(s2c)
  <1> DEFINE msg == <<Plain("message")>>
  <1>0. <<>> \in QuietItems /\ <<Book>> \in QuietItems /\ msg \in QuietItems
        /\ \A i \in AnswerItem : <<i>> \in QuietItems
    BY ItemTypes DEF QuietItems
  <1>1. ASSUME NEW items \in QuietItems, Handled(items), NEW kind, Receiving(kind),
               options' \in OptionsType, own' \subseteq OwnType, con' \in ConType,
               resender' = resender, c2s' \in Seq(ToServer)
        PROVE  IInv'
    <2>0. stream_items = <<>> /\ PollConnected
      BY <1>1 DEF Receiving, Arrived, PollConnected
    <2>1. stream_items' \in Seq(WaitingItem) /\ heard' \in Heard /\ UNCHANGED <<state, attempt, ended, server>>
      BY <1>1, <2>0, HandledTypes DEF Handled
    <2>2. s2c' \in Seq(ToClient) /\ PollConnected
      BY <1>1, CommandTypes DEF Receiving
    <2> QED
      BY <1>1, <2>1, <2>2, StayConnected
  <1>2. CASE HandleResult
    <2>1. c \in ToClient /\ c.kind = "result"
      BY <1>2, CommandTypes DEF HandleResult, Receiving
    <2>2. c.code \in 0 .. CodeCount /\ c.ok \in BOOLEAN
      BY <2>1 DEF ToClient
    <2> DEFINE i == Answer("result", c.code, c.ok)
               items == IF c.code = NoCode THEN msg ELSE <<i>>
    <2>3. c.code # NoCode => c.code \in Codes
      BY <2>2, ClientAssumption DEF NoCode, Codes
    <2>4. c.code # NoCode => i \in AnswerItem
      BY <2>2, <2>3, ItemTypes
    <2>5. Handled(items)
      BY <1>2 DEF HandleResult
    <2> HIDE DEF i, msg
    <2>6. items \in QuietItems
      BY <2>4, <1>0
    <2> HIDE DEF items
    <2> QED
      BY <1>1, <1>2, <2>5, <2>6 DEF HandleResult
  <1>3. CASE HandleTransferStart
    <2>1. c \in ToClient /\ c.kind = "transfer"
      BY <1>3, CommandTypes DEF HandleTransferStart, Receiving
    <2>2. c.id \in Codes
      BY <2>1 DEF ToClient
    <2>3. con' \in ConType
      <3> DEFINE r == Append(con.transfers, c.id)
      <3>1. r \in Seq(Codes)
        BY <2>2 DEF ConType
      <3>2. con' = [con EXCEPT !.transfers = r]
        BY <1>3 DEF HandleTransferStart
      <3> HIDE DEF r
      <3> QED
        BY <3>1, <3>2 DEF ConType
    <2> QED
      BY <1>1, <1>3, <2>3, <1>0 DEF HandleTransferStart
  <1>4. CASE HandleTransferStatus
    <2>1. c \in ToClient /\ c.kind = "status"
      BY <1>4, CommandTypes DEF HandleTransferStatus, Receiving
    <2>2. c.id \in Codes
      BY <2>1 DEF ToClient
    <2> DEFINE i == Answer("transfer", c.id, FALSE)
    <2>3. i \in AnswerItem /\ Handled(<<i>>)
      BY <1>4, <2>2, ItemTypes DEF HandleTransferStatus
    <2> HIDE DEF i
    <2>4. <<i>> \in QuietItems
      BY <1>0, <2>3
    <2> QED
      BY <1>1, <1>4, <2>3, <2>4 DEF HandleTransferStatus
  <1>5. CASE HandleInfoRequest
    <2>1. Plain("info") \in ToServer
      BY DEF Plain, ToServer
    <2>2. c2s' \in Seq(ToServer)
      BY <1>5, <2>1 DEF HandleInfoRequest
    <2> QED
      BY <1>1, <1>5, <2>2, <1>0 DEF HandleInfoRequest
  <1>6. CASE HandleEnter
    <2>1. c \in ToClient /\ c.kind = "enter"
      BY <1>6, CommandTypes DEF HandleEnter, Receiving
    <2>2. c.mutes \in SUBSET Mutes /\ c.channel \in Channels
      BY <2>1 DEF ToClient
    <2>3. own' \subseteq OwnType
      BY <1>6, <2>2 DEF HandleEnter, OwnType
    <2> QED
      BY <1>1, <1>6, <2>3, <1>0 DEF HandleEnter
  <1>7. CASE HandleUpdated
    <2> DEFINE items == IF own = {} THEN msg
                        ELSE IF \A x \in own : x.mutes = c.mutes THEN <<>>
                        ELSE <<Book>>
    <2>1. Handled(items)
      BY <1>7 DEF HandleUpdated
    <2>2. items \in QuietItems
      BY <1>0
    <2> HIDE DEF items
    <2> QED
      BY <1>1, <1>7, <2>1, <2>2 DEF HandleUpdated
  <1>8. CASE HandleMoved
    <2>1. c \in ToClient /\ c.kind = "moved"
      BY <1>8, CommandTypes DEF HandleMoved, Receiving
    <2>2. c.channel \in Channels
      BY <2>1 DEF ToClient
    <2>3. own' \subseteq OwnType
      <3>1. ASSUME NEW x \in own PROVE [x EXCEPT !.channel = c.channel] \in OwnType
        BY <2>2, <3>1 DEF OwnType
      <3> QED
        BY <1>8, <3>1 DEF HandleMoved
    <2>4. options' \in OptionsType
      BY <1>8, <2>2 DEF HandleMoved, OptionsType
    <2> DEFINE items == IF own = {} THEN msg
                        ELSE IF own' = own THEN <<>> ELSE <<Book>>
    <2>5. Handled(items)
      BY <1>8 DEF HandleMoved
    <2>6. items \in QuietItems
      BY <1>0
    <2> HIDE DEF items
    <2> QED
      BY <1>1, <1>8, <2>3, <2>4, <2>5, <2>6 DEF HandleMoved
  <1>9. CASE HandleChannelCreated
    <2>1. Plain("subscribe") \in ToServer
      BY DEF Plain, ToServer
    <2>2. c2s' \in Seq(ToServer)
      BY <1>9, <2>1 DEF HandleChannelCreated
    <2> QED
      BY <1>1, <1>9, <2>2, <1>0 DEF HandleChannelCreated
  <1>10. CASE HandleOther
    BY <1>1, <1>10, <1>0 DEF HandleOther
  <1> QED
    BY <1>2, <1>3, <1>4, <1>5, <1>6, <1>7, <1>8, <1>9, <1>10

\* Concatenation is associative.
LEMMA Assoc ==
    ASSUME NEW s \in Seq(Item), NEW t \in Seq(Item), NEW u \in Seq(Item)
    PROVE  s \o t \o u = s \o (t \o u)
  BY ConcatAssociative

\* The items when the server stops: of the book at most the first.
LEMMA StopItems ==
    ASSUME heard \in Heard, Return(ServerStopItems), stream_items = <<>>
    PROVE  stream_items' \in Seq(PlainItem \cup AudioItem) /\ heard' \in Heard
  <1> DEFINE S == PlainItem \cup AudioItem
             as == AudioStops
             d == <<Disconnected>>
             b == IF own = {} THEN <<>> ELSE <<Book>>
  <1>1. as \in Seq(AudioItem) /\ d \in Seq(S) /\ S \subseteq Item /\ Book \in Item
    BY AudioTypes, SmallItems, ItemTypes DEF Item
  <1>2. Return(b \o as \o d)
    BY DEF ServerStopItems
  <1> HIDE DEF as, d
  <1>3. as \in Seq(S) /\ as \o d \in Seq(S) /\ stream_items \in Seq(S)
    <2>1. as \in Seq(S)
      BY <1>1, SeqMonotonic
    <2>2. stream_items \in Seq(S)
      OBVIOUS
    <2> HIDE DEF S
    <2> QED
      BY <1>1, <2>1, <2>2, ConcatProperties
  <1> HIDE DEF S
  <1>4. CASE own = {}
    <2>1. b \o as = as
      BY <1>3, <1>4
    <2> QED
      BY <1>1, <1>2, <1>3, <2>1, ReturnFacts DEF S
  <1>5. CASE own # {}
    <2>1. <<Book>> \in Seq(Item) /\ as \in Seq(Item) /\ d \in Seq(Item)
      BY <1>1, <1>3, SmallItems, SeqMonotonic
    <2>2. b \o as \o d = <<Book>> \o (as \o d)
      <3>1. b = <<Book>>
        BY <1>5
      <3> HIDE DEF b
      <3> QED
        <4>1. b \in Seq(Item)
          BY <2>1, <3>1
        <4>2. (b \o as) \o d = b \o (as \o d)
          BY <2>1, <4>1, Assoc
        <4> QED
          BY <3>1, <4>2
    <2>3. Return(<<Book>> \o (as \o d))
      BY <1>2, <2>2
    <2>4. stream_items' = as \o d /\ heard' \in Heard
      BY <1>1, <1>3, <2>3, ReturnRest
    <2> QED
      BY <1>3, <2>4 DEF S
  <1> QED
    BY <1>4, <1>5

\* The own client leaves: the end, or a restart of the server.
LEMMA LeftKeeps == ASSUME IInv, HandleLeft PROVE IInv'
  <1> USE Parts
  <1>1. Arrived("left") /\ PollConnected /\ Tail(s2c) \in Seq(ToClient) /\ options' = options
    BY CommandTypes DEF HandleLeft
  <1>2. CASE Head(s2c).stop
    <2>1. GiveUp /\ Return(ServerStopItems)
      BY <1>2 DEF HandleLeft
    <2>2. stream_items = <<>> /\ thread' = thread
      BY <1>1 DEF PollConnected
    <2> QED
      BY <1>1, <2>1, <2>2, StopItems, GiveUpTypes
  <1>3. CASE ~Head(s2c).stop
    <2> DEFINE i == IF own = {} THEN <<Plain("message")>> ELSE <<Book>>
               ac == AudioChanges({}, options)
    <2>1. /\ s2c' = Tail(s2c) /\ own' = {} /\ resender' = "disconnected"
          /\ UNCHANGED <<state, attempt, con, ended, c2s, server>>
          /\ Return(i \o ac)
      BY <1>3 DEF HandleLeft
    <2>2. i \in QuietItems
      BY ItemTypes DEF QuietItems
    <2> HIDE DEF i
    <2>3. stream_items = <<>>
      BY <1>1 DEF PollConnected
    <2>4. stream_items' \in Seq(WaitingItem) /\ heard' \in Heard
      BY <2>1, <2>2, <2>3, HandledTypes
    <2>5. own' \subseteq OwnType /\ resender' \in ResenderStates
      BY <2>1 DEF ResenderStates
    <2> QED
      BY <1>1, <2>1, <2>4, <2>5, StayConnected
  <1> QED
    BY <1>2, <1>3

\* The answers of the server.
LEMMA ServerTypes ==
    /\ \A n \in 0 .. CodeCount, ok \in BOOLEAN :
         [kind |-> "result", code |-> n, ok |-> ok] \in ToClient
    /\ \A m \in SUBSET Mutes : [kind |-> "updated", mutes |-> m] \in ToClient
    /\ \A id \in Codes :
         /\ [kind |-> "transfer", id |-> id] \in ToClient
         /\ [kind |-> "status", id |-> id] \in ToClient
    /\ \A b \in BOOLEAN : [kind |-> "left", stop |-> b] \in ToClient
    /\ \A m \in SUBSET Mutes, ch \in Channels :
         [kind |-> "enter", mutes |-> m, channel |-> ch] \in ToClient
    /\ \A ch \in Channels : [kind |-> "moved", channel |-> ch] \in ToClient
    /\ \A k \in {"other", "channel", "inforequest"} : Plain(k) \in ToClient
  BY DEF ToClient, Plain

\* Steps of the server.
LEMMA ServerKeeps == ASSUME IInv, Server PROVE IInv'
  <1> USE Parts
  <1>0. server \in ServerType
    BY DEF IInv, ChannelsTyped, ServerType
  <1>1. ASSUME ServerStep, c2s' \in Seq(ToServer), s2c' \in Seq(ToClient), server' \in ServerType,
               server'.channel \in Channels
        PROVE  IInv'
    <2>1. UNCHANGED <<state, attempt, thread, options, own, con, resender, stream_items, heard, ended>>
      BY <1>1 DEF ServerStep, client, seen
    <2>2. TypeOK' /\ OwnItems'
      BY <2>1 DEF IInv, TypeOK, OwnItems
    <2>3. ChannelsTyped'
      BY <1>1 DEF ChannelsTyped, ServerType
    <2> QED
      BY <2>2, <2>3 DEF IInv
  <1>2. ServerStep => server.channel \in Channels
    BY DEF ServerStep, Polling, IInv, ChannelsTyped
  <1>3. CASE ServerShows
    <2> DEFINE e == [kind |-> "enter", mutes |-> server.mutes, channel |-> server.channel]
    <2>1. ServerStep /\ s2c' = Append(s2c, e) /\ c2s' = c2s /\ server' = [server EXCEPT !.shown = TRUE]
      BY <1>3 DEF ServerShows
    <2>2. e \in ToClient
      BY <1>0, <1>2, <2>1, ServerTypes DEF ServerType
    <2> HIDE DEF e
    <2>3. s2c' \in Seq(ToClient)
      BY <2>1, <2>2
    <2>4. server' \in ServerType /\ server'.channel \in Channels
      BY <1>0, <1>2, <2>1 DEF ServerType
    <2> QED
      BY <1>1, <2>1, <2>3, <2>4
  <1>4. CASE ServerNews
    <2>1. ServerStep /\ c2s' = c2s /\ server.channel \in Channels
      BY <1>2, <1>4 DEF ServerNews
    <2>2. ASSUME NEW k \in {"other", "channel", "inforequest"},
                 s2c' = Append(s2c, Plain(k)), UNCHANGED server
          PROVE  IInv'
      <3>1. Plain(k) \in ToClient
        BY ServerTypes
      <3>2. s2c' \in Seq(ToClient)
        BY <2>2, <3>1
      <3> QED
        BY <1>0, <1>1, <2>1, <2>2, <3>2
    <2>3. ASSUME NEW ch \in Channels, server' = [server EXCEPT !.channel = ch],
                 s2c' = Append(s2c, [kind |-> "moved", channel |-> ch])
          PROVE  IInv'
      <3> DEFINE e == [kind |-> "moved", channel |-> ch]
      <3>1. e \in ToClient /\ s2c' = Append(s2c, e)
        BY <2>3, ServerTypes
      <3> HIDE DEF e
      <3>2. s2c' \in Seq(ToClient)
        BY <3>1
      <3>3. server' \in ServerType /\ server'.channel \in Channels
        BY <1>0, <2>3 DEF ServerType
      <3> QED
        BY <1>1, <2>1, <3>2, <3>3
    <2>4. ASSUME NEW stop \in BOOLEAN, UNCHANGED server,
                 s2c' = Append(s2c, [kind |-> "left", stop |-> stop])
          PROVE  IInv'
      <3> DEFINE e == [kind |-> "left", stop |-> stop]
      <3>1. e \in ToClient /\ s2c' = Append(s2c, e)
        BY <2>4, ServerTypes
      <3> HIDE DEF e
      <3>2. s2c' \in Seq(ToClient)
        BY <3>1
      <3> QED
        BY <1>0, <1>1, <2>1, <2>4, <3>2
    <2>5. \/ \E k \in {"other", "channel", "inforequest"} :
               s2c' = Append(s2c, Plain(k)) /\ UNCHANGED server
          \/ \E ch \in Channels :
               /\ server' = [server EXCEPT !.channel = ch]
               /\ s2c' = Append(s2c, [kind |-> "moved", channel |-> ch])
          \/ \E stop \in BOOLEAN :
               s2c' = Append(s2c, [kind |-> "left", stop |-> stop]) /\ UNCHANGED server
      BY <1>4 DEF ServerNews
    <2> QED
      BY <2>2, <2>3, <2>4, <2>5
  <1>5. ASSUME NEW ok \in BOOLEAN, ServerAnswer(ok) PROVE IInv'
    <2> DEFINE c == Head(c2s)
               r == [kind |-> "result", code |-> c.code, ok |-> ok]
    <2>1. ServerStep /\ c2s' = Tail(c2s) /\ c2s # <<>> /\ server.channel \in Channels
      BY <1>2, <1>5 DEF ServerAnswer
    <2>2. c2s' \in Seq(ToServer) /\ c \in ToServer
      BY <2>1
    <2>3. CASE c.kind = "plain"
      <3>1. c.code \in 0 .. CodeCount
        BY <2>2, <2>3 DEF ToServer
      <3>2. r \in ToClient
        BY <3>1, ServerTypes
      <3>3. s2c' = Append(s2c, r) /\ server' = server
        BY <1>5, <2>3 DEF ServerAnswer
      <3> HIDE DEF r
      <3>4. s2c' \in Seq(ToClient)
        BY <3>2, <3>3
      <3> QED
        BY <1>0, <1>1, <2>1, <2>2, <3>3, <3>4
    <2>4. CASE c.kind = "mutes"
      <3>1. c.code \in 0 .. CodeCount /\ c.mutes \in SUBSET Mutes
        BY <2>2, <2>4, ClientAssumption DEF ToServer, Codes
      <3> DEFINE u == [kind |-> "updated", mutes |-> c.mutes]
      <3>2. r \in ToClient /\ u \in ToClient
        BY <3>1, ServerTypes
      <3>3. /\ server' = [server EXCEPT !.mutes = c.mutes]
            /\ s2c' = IF server.shown THEN s2c \o <<u, r>> ELSE Append(s2c, r)
        BY <1>5, <2>4 DEF ServerAnswer
      <3> HIDE DEF r, u
      <3>4. s2c' \in Seq(ToClient)
        BY <3>2, <3>3
      <3>5. server' \in ServerType /\ server'.channel \in Channels
        BY <1>0, <2>1, <3>1, <3>3 DEF ServerType
      <3> QED
        BY <1>1, <2>1, <2>2, <3>4, <3>5
    <2>5. CASE c.kind = "transfer"
      <3>1. c.code \in 0 .. CodeCount /\ c.id \in Codes
        BY <2>2, <2>5, ClientAssumption DEF ToServer, Codes
      <3> DEFINE k == IF ok THEN "transfer" ELSE "status"
                 t == [kind |-> k, id |-> c.id]
      <3>2. r \in ToClient
        BY <3>1, ServerTypes
      <3>3. s2c' = s2c \o <<t, r>> /\ server' = server
        BY <1>5, <2>5 DEF ServerAnswer
      <3>4. t \in ToClient
        <4>1. k \in {"transfer", "status"}
          OBVIOUS
        <4> HIDE DEF k
        <4> QED
          BY <3>1, <4>1, ServerTypes
      <3> HIDE DEF r, t
      <3>5. s2c' \in Seq(ToClient)
        BY <3>2, <3>3, <3>4
      <3> QED
        BY <1>0, <1>1, <2>1, <2>2, <3>3, <3>5
    <2>6. CASE c.kind = "disconnect"
      <3> DEFINE l == [kind |-> "left", stop |-> FALSE]
      <3>1. l \in ToClient
        BY ServerTypes
      <3>2. s2c' = Append(s2c, l) /\ server' = server
        BY <1>5, <2>6 DEF ServerAnswer
      <3> HIDE DEF l
      <3>3. s2c' \in Seq(ToClient)
        BY <3>1, <3>2
      <3> QED
        BY <1>0, <1>1, <2>1, <2>2, <3>2, <3>3
    <2>7. CASE c.kind \in {"info", "subscribe"}
      <3>1. s2c' = s2c /\ server' = server
        BY <1>5, <2>7 DEF ServerAnswer
      <3> QED
        BY <1>0, <1>1, <2>1, <2>2, <3>1
    <2>8. c.kind \in {"plain", "mutes", "transfer", "disconnect", "info", "subscribe"}
      BY <2>2 DEF ToServer
    <2> QED
      BY <2>3, <2>4, <2>5, <2>6, <2>7, <2>8
  <1> QED
    BY <1>3, <1>4, <1>5 DEF Server

\* The invariant holds at the beginning.
LEMMA InitKeeps == ASSUME Init PROVE IInv
  <1>1. stream_items \in Seq(PlainItem)
    <2>1. Plain("increased") \in PlainItem
      BY ItemTypes
    <2> DEFINE p == Plain("increased")
    <2>2. stream_items = <<>> \/ stream_items = <<p>>
      BY DEF Init
    <2> HIDE DEF p
    <2>3. p \in PlainItem
      BY <2>1 DEF p
    <2>4. <<>> \in Seq(PlainItem) /\ <<p>> \in Seq(PlainItem)
      BY <2>3
    <2> QED
      BY <2>2, <2>4
  <1>2. stream_items \in Seq(PlainItem \cup AudioItem) /\ stream_items \in Seq(WaitingItem)
    BY <1>1, SeqMonotonic DEF WaitingItem
  <1>3. attempt \in AttemptType /\ options \in OptionsType /\ heard \in Heard
    <2>1. attempt \in AttemptType
      BY DEF Init, AttemptType
    <2>2. options \in OptionsType
      BY DEF Init, OptionsType
    <2>3. heard \in Heard
      BY DEF Init, Heard
    <2> QED
      BY <2>1, <2>2, <2>3
  <1>4. TypeOK
    BY <1>3, FixedTypes DEF Init, TypeOK, AttemptType, OptionsType, Heard, ConType, Codes
  <1>5. ChannelsTyped
    BY FixedTypes DEF Init, ChannelsTyped, ServerType
  <1> QED
    BY <1>2, <1>4, <1>5 DEF IInv, OwnItems

\* Every step keeps the invariant.
LEMMA NextKeeps == ASSUME IInv, [Next]_vars PROVE IInv'
  <1>1. CASE Next
    <2>1. CASE Poll
      BY <2>1, PollWaitingTypes, ConnectingKeeps, ConnectKeeps, HandleKeeps, LeftKeeps,
         PollItemKeeps DEF Poll, ConnectStep, HandleCommand
    <2> QED
      BY <1>1, <2>1, UserKeeps, ServerKeeps, CancelKeeps DEF Next
  <1>2. CASE UNCHANGED vars
    BY <1>2 DEF vars, client, seen, IInv, TypeOK, ChannelsTyped, OwnItems
  <1> QED
    BY <1>1, <1>2

\* The invariant holds in every state.
THEOREM ClientInvariant == Spec => []IInv
  <1>1. Init => IInv
    BY InitKeeps
  <1>2. IInv /\ [Next]_vars => IInv'
    BY NextKeeps
  <1> QED
    BY <1>1, <1>2, PTL DEF Spec

-----------------------------------------------------------------------------
(* The audio events.                                                       *)

Sides == {"send", "receive"}

\* No item of t is about side k.
Silent(t, k) == \A n \in DOMAIN t : ~About(t[n], k)

\* What two lists of items tell one after the other.
LEMMA ToldConcat ==
    ASSUME NEW s \in Seq(Item), NEW t \in Seq(Item), NEW k \in Sides, NEW b \in BOOLEAN
    PROVE  /\ Told(s \o t, k, b) <=> (Told(s, k, b) /\ Silent(t, k)) \/ Told(t, k, FALSE)
           /\ Silent(s \o t, k) <=> Silent(s, k) /\ Silent(t, k)
  <1> DEFINE st == s \o t
             On(i) == i = [kind |-> k, on |-> TRUE]
  <1>1. /\ st \in Seq(Item) /\ Len(st) = Len(s) + Len(t) /\ Len(s) \in Nat /\ Len(t) \in Nat
        /\ DOMAIN s = 1 .. Len(s) /\ DOMAIN t = 1 .. Len(t) /\ DOMAIN st = 1 .. (Len(s) + Len(t))
        /\ \A n \in DOMAIN s : st[n] = s[n]
        /\ \A n \in DOMAIN t : st[n + Len(s)] = t[n]
    OBVIOUS
  <1>2. \A n \in DOMAIN st : n \in DOMAIN s \/ (n - Len(s) \in DOMAIN t /\ st[n] = t[n - Len(s)])
    <2> TAKE n \in DOMAIN st
    <2>1. CASE n <= Len(s)
      BY <1>1, <2>1
    <2>2. CASE n > Len(s)
      <3> DEFINE m == n - Len(s)
      <3>1. m \in DOMAIN t /\ m + Len(s) = n
        BY <1>1, <2>2
      <3> QED
        BY <1>1, <3>1
    <2> QED
      BY <1>1, <2>1, <2>2
  <1>3. \A n \in DOMAIN s : n \in DOMAIN st
    BY <1>1
  <1>4. \A n \in DOMAIN t : n + Len(s) \in DOMAIN st
    BY <1>1
  <1> HIDE DEF st
  <1>5. Silent(st, k) <=> Silent(s, k) /\ Silent(t, k)
    <2>1. ASSUME Silent(st, k) PROVE Silent(s, k) /\ Silent(t, k)
      BY <1>1, <1>3, <1>4, <2>1 DEF Silent
    <2>2. ASSUME Silent(s, k), Silent(t, k) PROVE Silent(st, k)
      BY <1>1, <1>2, <2>2 DEF Silent
    <2> QED
      BY <2>1, <2>2
  <1>6. ASSUME Told(st, k, b) PROVE (Told(s, k, b) /\ Silent(t, k)) \/ Told(t, k, FALSE)
    <2>1. CASE b /\ Silent(st, k)
      BY <1>5, <2>1 DEF Told, Silent
    <2>2. ASSUME NEW n \in DOMAIN st, On(st[n]), \A m \in DOMAIN st : m > n => ~About(st[m], k)
          PROVE  (Told(s, k, b) /\ Silent(t, k)) \/ Told(t, k, FALSE)
      <3>1. CASE n \in DOMAIN s
        <4>1. \A m \in DOMAIN s : m > n => ~About(s[m], k)
          BY <1>1, <1>3, <2>2
        <4>2. Told(s, k, b)
          BY <1>1, <2>2, <3>1, <4>1 DEF Told
        <4>3. ASSUME NEW m \in DOMAIN t PROVE ~About(t[m], k)
          <5>1. m + Len(s) \in DOMAIN st /\ m + Len(s) > n /\ st[m + Len(s)] = t[m]
            BY <1>1, <1>4, <3>1
          <5> QED
            BY <2>2, <5>1
        <4> QED
          BY <4>2, <4>3 DEF Silent
      <3>2. CASE n \notin DOMAIN s
        <4> DEFINE p == n - Len(s)
        <4>1. p \in DOMAIN t /\ On(t[p])
          BY <1>2, <2>2, <3>2
        <4>2. ASSUME NEW m \in DOMAIN t, m > p PROVE ~About(t[m], k)
          <5>1. m + Len(s) \in DOMAIN st /\ m + Len(s) > n /\ st[m + Len(s)] = t[m]
            BY <1>1, <1>4, <4>2
          <5> QED
            BY <2>2, <5>1
        <4> QED
          BY <4>1, <4>2 DEF Told
      <3> QED
        BY <3>1, <3>2
    <2> QED
      BY <1>6, <2>1, <2>2 DEF Told, Silent
  <1>7. ASSUME Told(s, k, b), Silent(t, k) PROVE Told(st, k, b)
    <2>1. CASE b /\ Silent(s, k)
      BY <1>5, <1>7, <2>1 DEF Told, Silent
    <2>2. ASSUME NEW n \in DOMAIN s, On(s[n]), \A m \in DOMAIN s : m > n => ~About(s[m], k)
          PROVE  Told(st, k, b)
      <3>1. n \in DOMAIN st /\ On(st[n])
        BY <1>1, <1>3, <2>2
      <3>2. ASSUME NEW m \in DOMAIN st, m > n PROVE ~About(st[m], k)
        <4>1. CASE m \in DOMAIN s
          BY <1>1, <2>2, <3>2, <4>1
        <4>2. CASE m \notin DOMAIN s
          BY <1>2, <1>7, <4>2 DEF Silent
        <4> QED
          BY <4>1, <4>2
      <3> QED
        BY <3>1, <3>2 DEF Told
    <2> QED
      BY <1>7, <2>1, <2>2 DEF Told, Silent
  <1>8. ASSUME Told(t, k, FALSE) PROVE Told(st, k, b)
    <2>1. PICK n \in DOMAIN t : On(t[n]) /\ \A m \in DOMAIN t : m > n => ~About(t[m], k)
      BY <1>8 DEF Told
    <2> DEFINE p == n + Len(s)
    <2>2. p \in DOMAIN st /\ On(st[p])
      BY <1>1, <1>4, <2>1
    <2>3. ASSUME NEW m \in DOMAIN st, m > p PROVE ~About(st[m], k)
      <3>1. m \notin DOMAIN s /\ m - Len(s) > n
        BY <1>1, <2>3
      <3> QED
        BY <1>2, <2>1, <3>1
    <2> QED
      BY <2>2, <2>3 DEF Told
  <1>9. Told(st, k, b) <=> (Told(s, k, b) /\ Silent(t, k)) \/ Told(t, k, FALSE)
    BY <1>6, <1>7, <1>8
  <1> QED
    BY <1>5, <1>9 DEF st

\* What no item, or one, tells.
LEMMA ToldSmall ==
    ASSUME NEW i \in Item, NEW k \in Sides, NEW b \in BOOLEAN
    PROVE  /\ Told(<<>>, k, b) <=> b
           /\ Silent(<<>>, k)
           /\ Told(<<i>>, k, b) <=> (b /\ ~About(i, k)) \/ i = [kind |-> k, on |-> TRUE]
           /\ Silent(<<i>>, k) <=> ~About(i, k)
  <1>1. DOMAIN <<>> = {} /\ DOMAIN <<i>> = {1} /\ <<i>>[1] = i
    OBVIOUS
  <1>2. (Told(<<>>, k, b) <=> b) /\ Silent(<<>>, k)
    BY <1>1 DEF Told, Silent
  <1> DEFINE s == <<i>>
  <1>3. DOMAIN s = {1} /\ s[1] = i
    BY <1>1
  <1> HIDE DEF s
  <1>4. (Silent(s, k) <=> ~About(i, k)) /\ ~(1 > 1)
    BY <1>3 DEF Silent
  <1>5. Told(s, k, b) <=> (b /\ ~About(i, k)) \/ i = [kind |-> k, on |-> TRUE]
    BY <1>3, <1>4 DEF Told
  <1> QED
    BY <1>2, <1>4, <1>5 DEF s

\* Which items are about which side.
LEMMA AboutFacts ==
    /\ \A k \in Sides, v \in BOOLEAN :
         /\ About(Send(v), k) <=> k = "send"
         /\ About(Receive(v), k) <=> k = "receive"
         /\ Send(v) = [kind |-> k, on |-> TRUE] <=> k = "send" /\ v
         /\ Receive(v) = [kind |-> k, on |-> TRUE] <=> k = "receive" /\ v
    /\ \A k \in Sides : About(Disconnected, k) /\ Disconnected # [kind |-> k, on |-> TRUE]
    /\ \A k \in Sides, i \in AnswerItem \cup BookItem :
         ~About(i, k) /\ i # [kind |-> k, on |-> TRUE]
    /\ \A k \in Sides, i \in PlainItem :
         (About(i, k) <=> i = Disconnected) /\ i # [kind |-> k, on |-> TRUE]
  <1>1. \A k \in Sides, v \in BOOLEAN :
          /\ About(Send(v), k) <=> k = "send"
          /\ About(Receive(v), k) <=> k = "receive"
    BY DEF Sides, About, Send, Receive
  <1>2. ASSUME NEW k \in Sides, NEW v \in BOOLEAN
        PROVE  /\ Send(v) = [kind |-> k, on |-> TRUE] <=> k = "send" /\ v
               /\ Receive(v) = [kind |-> k, on |-> TRUE] <=> k = "receive" /\ v
    <2>1. CASE v
      BY <2>1 DEF Sides, Send, Receive
    <2>2. CASE ~v
      <3>1. v = FALSE /\ TRUE # FALSE
        BY <2>2
      <3>2. Send(v).on = FALSE /\ Receive(v).on = FALSE /\ [kind |-> k, on |-> TRUE].on = TRUE
        BY <3>1 DEF Send, Receive
      <3> QED
        BY <2>2, <3>1, <3>2
    <2> QED
      BY <2>1, <2>2
  <1>3. \A k \in Sides : About(Disconnected, k) /\ Disconnected # [kind |-> k, on |-> TRUE]
    BY DEF Sides, About, Disconnected
  <1>4. \A k \in Sides, i \in AnswerItem \cup BookItem :
          ~About(i, k) /\ i # [kind |-> k, on |-> TRUE]
    BY DEF Sides, About, AnswerItem, BookItem
  <1>5. \A k \in Sides, i \in PlainItem :
          (About(i, k) <=> i = Disconnected) /\ i # [kind |-> k, on |-> TRUE]
    BY DEF Sides, About, PlainItem, Disconnected
  <1> QED
    BY <1>1, <1>2, <1>3, <1>4, <1>5

\* Either side of the audio of a client.
Can(k, me, opts) == IF k = "send" THEN CanSend(me, opts) ELSE CanReceive(me, opts)
Knows(h, k) == IF k = "send" THEN h.send ELSE h.receive

\* The events of a change tell the user about it.
LEMMA ChangesTell ==
    ASSUME NEW me, NEW opts, NEW items \in Seq(Item), NEW k \in Sides, heard \in Heard,
           Told(items, k, Knows(heard, k)) <=> Can(k, own, options)
    PROVE  Told(items \o AudioChanges(me, opts), k, Knows(heard, k)) <=> Can(k, me, opts)
  <1> DEFINE b == Knows(heard, k)
  <1>0. b \in BOOLEAN /\ (Told(items, k, b) <=> Can(k, own, options))
    BY DEF Knows, Heard
  <1> HIDE DEF b
  <1> DEFINE s == CanSend(me, opts)
             r == CanReceive(me, opts)
             x == Send(s)
             y == Receive(r)
             X == IF s = CanSend(own, options) THEN <<>> ELSE <<x>>
             Y == IF r = CanReceive(own, options) THEN <<>> ELSE <<y>>
             s0 == CanSend(own, options)
             r0 == CanReceive(own, options)
  <1>1. s \in BOOLEAN /\ r \in BOOLEAN /\ s0 \in BOOLEAN /\ r0 \in BOOLEAN
    BY DEF CanSend, CanReceive
  <1>2. AudioChanges(me, opts) = X \o Y
    BY DEF AudioChanges
  <1>3. /\ Can(k, me, opts) <=> IF k = "send" THEN s ELSE r
        /\ Can(k, own, options) <=> IF k = "send" THEN s0 ELSE r0
    BY DEF Can
  <1>4. x \in Item /\ y \in Item
    BY <1>1, ItemTypes DEF Item
  <1>5. /\ About(x, k) <=> k = "send"
        /\ About(y, k) <=> k = "receive"
        /\ x = [kind |-> k, on |-> TRUE] <=> k = "send" /\ s
        /\ y = [kind |-> k, on |-> TRUE] <=> k = "receive" /\ r
    BY <1>1, AboutFacts
  <1>6. X \in Seq(Item) /\ (Silent(X, k) <=> (k = "send" => (s <=> s0)))
        /\ (Told(X, k, FALSE) <=> k = "send" /\ s /\ ~s0)
    <2>1. CASE s <=> s0
      <3>1. X = <<>> /\ <<>> \in Seq(Item)
        BY <1>1, <2>1
      <3> HIDE DEF X, s, s0
      <3>2. Silent(<<>>, k) /\ ~Told(<<>>, k, FALSE)
        BY <1>4, ToldSmall
      <3> QED
        BY <2>1, <3>1, <3>2
    <2>2. CASE ~(s <=> s0)
      <3>1. X = <<x>>
        BY <2>2
      <3> HIDE DEF x, X
      <3>2. X \in Seq(Item)
        BY <1>4, <3>1
      <3> QED
        BY <1>4, <1>5, <2>2, <3>1, <3>2, ToldSmall
    <2> QED
      BY <2>1, <2>2
  <1>7. Y \in Seq(Item) /\ (Silent(Y, k) <=> (k = "receive" => (r <=> r0)))
        /\ (Told(Y, k, FALSE) <=> k = "receive" /\ r /\ ~r0)
    <2>1. CASE r <=> r0
      <3>1. Y = <<>> /\ <<>> \in Seq(Item)
        BY <1>1, <2>1
      <3> HIDE DEF Y, r, r0
      <3>2. Silent(<<>>, k) /\ ~Told(<<>>, k, FALSE)
        BY <1>4, ToldSmall
      <3> QED
        BY <2>1, <3>1, <3>2
    <2>2. CASE ~(r <=> r0)
      <3>1. Y = <<y>>
        BY <2>2
      <3> HIDE DEF y, Y
      <3>2. Y \in Seq(Item)
        BY <1>4, <3>1
      <3> QED
        BY <1>4, <1>5, <2>2, <3>1, <3>2, ToldSmall
    <2> QED
      BY <2>1, <2>2
  <1> HIDE DEF X, Y, s, r, s0, r0
  <1>8. X \o Y \in Seq(Item)
    BY <1>6, <1>7
  <1>9. /\ Told(X \o Y, k, FALSE) <=> (Told(X, k, FALSE) /\ Silent(Y, k)) \/ Told(Y, k, FALSE)
        /\ Silent(X \o Y, k) <=> Silent(X, k) /\ Silent(Y, k)
    BY <1>6, <1>7, ToldConcat
  <1>10. Told(items \o (X \o Y), k, b) <=> (Told(items, k, b) /\ Silent(X \o Y, k)) \/ Told(X \o Y, k, FALSE)
    <2> DEFINE w == X \o Y
    <2>1. w \in Seq(Item)
      BY <1>8
    <2> HIDE DEF w
    <2> DEFINE v == items \o w
    <2>2. /\ Told(v, k, FALSE) <=> (Told(items, k, FALSE) /\ Silent(w, k)) \/ Told(w, k, FALSE)
          /\ Silent(v, k) <=> Silent(items, k) /\ Silent(w, k)
      BY <2>1, ToldConcat
    <2> HIDE DEF v
    <2>3. /\ Told(v, k, b) <=> (b /\ Silent(v, k)) \/ Told(v, k, FALSE)
          /\ Told(items, k, b) <=> (b /\ Silent(items, k)) \/ Told(items, k, FALSE)
      BY <1>0 DEF Told, Silent
    <2> QED
      BY <2>2, <2>3 DEF v, w
  <1>11. k = "send" \/ k = "receive"
    BY DEF Sides
  <1>12. Told(items \o (X \o Y), k, b) <=> Can(k, me, opts)
    <2>1. CASE k = "send"
      <3>1. k # "receive"
        BY <2>1
      <3> QED
        BY <1>0, <1>3, <1>6, <1>7, <1>9, <1>10, <2>1, <3>1
    <2>2. CASE k = "receive"
      <3>1. k # "send"
        BY <2>2
      <3> QED
        BY <1>0, <1>3, <1>6, <1>7, <1>9, <1>10, <2>2, <3>1
    <2> QED
      BY <1>11, <2>1, <2>2
  <1> QED
    BY <1>2, <1>12 DEF b

\* What the user learns from one item is what the item tells.
LEMMA LearnTold ==
    ASSUME NEW h \in Heard, NEW i \in Item, NEW k \in Sides
    PROVE  /\ Knows(h, k) \in BOOLEAN
           /\ Knows(Learn(h, i), k) <=> (Knows(h, k) /\ ~About(i, k)) \/ i = [kind |-> k, on |-> TRUE]
  <1>1. CASE i \in PlainItem
    <2>1. CASE i = Disconnected
      BY <1>1, <2>1, AboutFacts DEF Learn, Heard, Knows, Sides, Disconnected
    <2>2. CASE i # Disconnected
      <3>1. Learn(h, i) = h
        BY <1>1, <2>2 DEF Learn, PlainItem, Disconnected
      <3> QED
        BY <1>1, <2>2, <3>1, AboutFacts DEF Heard, Knows, Sides
    <2> QED
      BY <2>1, <2>2
  <1>2. CASE i \in BookItem
    <2>1. Learn(h, i) = [h EXCEPT !.connected = TRUE]
      BY <1>2 DEF Learn, BookItem
    <2> QED
      BY <1>2, <2>1, AboutFacts DEF Heard, Knows, Sides
  <1>3. CASE i \in AudioItem
    <2>1. PICK v \in BOOLEAN : i = Send(v) \/ i = Receive(v)
      BY <1>3 DEF AudioItem, Send, Receive
    <2>2. CASE i = Send(v)
      <3>1. i.kind = "send" /\ i.on = v
        BY <2>2 DEF Send
      <3>2. Learn(h, i) = [h EXCEPT !.send = v]
        BY <3>1 DEF Learn
      <3> QED
        BY <2>2, <3>2, AboutFacts DEF Heard, Knows, Sides
    <2>3. CASE i = Receive(v)
      <3>1. i.kind = "receive" /\ i.on = v
        BY <2>3 DEF Receive
      <3>2. Learn(h, i) = [h EXCEPT !.receive = v]
        BY <3>1 DEF Learn
      <3> QED
        BY <2>3, <3>2, AboutFacts DEF Heard, Knows, Sides
    <2> QED
      BY <2>1, <2>2, <2>3
  <1>4. CASE i \in AnswerItem
    <2>1. Learn(h, i) = [h EXCEPT !.answers = h.answers + 1]
      BY <1>4 DEF Learn, AnswerItem
    <2> QED
      BY <1>4, <2>1, AboutFacts DEF Heard, Knows, Sides
  <1> QED
    BY <1>1, <1>2, <1>3, <1>4 DEF Item

\* An item tells the same before and after it is returned.
LEMMA ReturnTells ==
    ASSUME heard \in Heard, NEW items \in Seq(Item), Return(items), stream_items = <<>> \/ items # <<>>,
           NEW k \in Sides
    PROVE  Told(stream_items', k, Knows(heard', k)) <=> Told(items, k, Knows(heard, k))
  <1>1. CASE items = <<>>
    BY <1>1 DEF Return
  <1>2. CASE items # <<>>
    <2> DEFINE i == Head(items)
               t == Tail(items)
               n == Knows(heard, k)
               m == Knows(heard', k)
    <2>1. i \in Item /\ t \in Seq(Item) /\ items = <<i>> \o t /\ <<i>> \in Seq(Item)
      BY <1>2
    <2>2. stream_items' = t /\ heard' = Learn(heard, i)
      BY <1>2 DEF Return
    <2>3. n \in BOOLEAN /\ (m <=> (n /\ ~About(i, k)) \/ i = [kind |-> k, on |-> TRUE])
      BY <2>1, <2>2, LearnTold
    <2>4. m \in BOOLEAN
      BY <2>1, <2>2, LearnTold, LearnTypes
    <2> HIDE DEF i, t, n, m
    <2>5. Told(<<i>>, k, n) <=> m
      BY <2>1, <2>3, ToldSmall
    <2>6. Told(<<i>> \o t, k, n) <=> (Told(<<i>>, k, n) /\ Silent(t, k)) \/ Told(t, k, FALSE)
      <3> DEFINE one == <<i>>
      <3>1. one \in Seq(Item)
        BY <2>1
      <3> HIDE DEF one
      <3> DEFINE v == one \o t
      <3>2. /\ Told(v, k, FALSE) <=> (Told(one, k, FALSE) /\ Silent(t, k)) \/ Told(t, k, FALSE)
            /\ Silent(v, k) <=> Silent(one, k) /\ Silent(t, k)
        BY <2>1, <3>1, ToldConcat
      <3> HIDE DEF v
      <3>3. /\ Told(v, k, n) <=> (n /\ Silent(v, k)) \/ Told(v, k, FALSE)
            /\ Told(one, k, n) <=> (n /\ Silent(one, k)) \/ Told(one, k, FALSE)
        BY <2>3 DEF Told, Silent
      <3> QED
        BY <3>2, <3>3 DEF v, one
    <2>7. Told(t, k, m) <=> (m /\ Silent(t, k)) \/ Told(t, k, FALSE)
      BY <2>4 DEF Told, Silent
    <2> QED
      BY <2>1, <2>2, <2>5, <2>6, <2>7 DEF n, m
  <1> QED
    BY <1>1, <1>2

\* The inductive form of AudioEventsSuffice.
AudioInv ==
  ended = "no" =>
    \A k \in Sides :
      Told(stream_items, k, Knows(heard, k)) <=> state = "connected" /\ Can(k, own, options)

\* Nothing that matters happens.
LEMMA AudioQuiet ==
    ASSUME AudioInv, UNCHANGED <<stream_items, heard>>, ended' = "no" => ended = "no",
           \/ UNCHANGED <<state, own, options>>
           \/ state # "connected" /\ state' # "connected"
    PROVE  AudioInv'
  <1> SUFFICES ASSUME ended' = "no", NEW k \in Sides
               PROVE  Told(stream_items', k, Knows(heard', k)) <=>
                        state' = "connected" /\ Can(k, own', options')
    BY DEF AudioInv
  <1>1. Told(stream_items, k, Knows(heard, k)) <=> state = "connected" /\ Can(k, own, options)
    BY DEF AudioInv
  <1>2. CASE UNCHANGED <<state, own, options>>
    BY <1>1, <1>2
  <1>3. CASE state # "connected" /\ state' # "connected"
    BY <1>1, <1>3
  <1> QED
    BY <1>2, <1>3

\* An item that is not about audio.
LEMMA QuietItem ==
    ASSUME NEW i \in Item, i \in PlainItem => i # Disconnected, i \notin AudioItem, NEW k \in Sides
    PROVE  ~About(i, k) /\ i # [kind |-> k, on |-> TRUE]
  BY AboutFacts DEF Item

\* Returning such an item.
LEMMA ReturnQuiet ==
    ASSUME heard \in Heard, stream_items = <<>>, NEW i \in Item,
           i \in PlainItem => i # Disconnected, i \notin AudioItem, Return(<<i>>), NEW k \in Sides
    PROVE  Told(stream_items', k, Knows(heard', k)) <=> Told(stream_items, k, Knows(heard, k))
  <1> DEFINE n == Knows(heard, k)
             m == Knows(heard', k)
  <1>1. stream_items' = <<>> /\ heard' = Learn(heard, i) /\ heard' \in Heard
    BY ReturnOne
  <1>2. m <=> n
    BY <1>1, LearnTold, QuietItem
  <1>3. n \in BOOLEAN /\ m \in BOOLEAN
    BY <1>1, LearnTold
  <1> HIDE DEF n, m
  <1>4. (Told(<<>>, k, n) <=> n) /\ (Told(<<>>, k, m) <=> m)
    BY <1>3, ToldSmall
  <1> QED
    BY <1>1, <1>2, <1>4 DEF n, m

\* A single quiet item of a step that changes nothing else that matters.
LEMMA AudioQuietItem ==
    ASSUME IInv, AudioInv, stream_items = <<>>, NEW i \in Item,
           i \in PlainItem => i # Disconnected, i \notin AudioItem, Return(<<i>>),
           ended' = "no" => ended = "no",
           \/ UNCHANGED <<state, own, options>>
           \/ state # "connected" /\ state' # "connected"
    PROVE  AudioInv'
  <1> SUFFICES ASSUME ended' = "no", NEW k \in Sides
               PROVE  Told(stream_items', k, Knows(heard', k)) <=>
                        state' = "connected" /\ Can(k, own', options')
    BY DEF AudioInv
  <1>1. Told(stream_items, k, Knows(heard, k)) <=> state = "connected" /\ Can(k, own, options)
    BY DEF AudioInv
  <1>2. Told(stream_items', k, Knows(heard', k)) <=> Told(stream_items, k, Knows(heard, k))
    BY ReturnQuiet, Parts
  <1>3. CASE UNCHANGED <<state, own, options>>
    BY <1>1, <1>2, <1>3
  <1>4. CASE state # "connected" /\ state' # "connected"
    BY <1>1, <1>2, <1>4
  <1> QED
    BY <1>3, <1>4

\* Such items tell nothing about audio.
LEMMA QuietFacts ==
    ASSUME NEW items \in QuietItems, NEW k \in Sides
    PROVE  items \in Seq(Item) /\ Silent(items, k) /\ ~Told(items, k, FALSE)
  <1>0. Book \in Item
    BY ItemTypes DEF Item
  <1>1. CASE items = <<>>
    <2>1. Silent(<<>>, k) /\ ~Told(<<>>, k, FALSE)
      BY <1>0, ToldSmall
    <2> QED
      BY <1>1, <2>1, SmallItems
  <1>2. ASSUME NEW i \in AnswerItem \cup BookItem \cup {Plain("message")}, items = <<i>>
        PROVE  items \in Seq(Item) /\ Silent(items, k) /\ ~Told(items, k, FALSE)
    <2>1. i \in Item /\ ~About(i, k) /\ i # [kind |-> k, on |-> TRUE]
      <3>1. Plain("message") \in PlainItem /\ Plain("message") # Disconnected
        BY DEF Plain, PlainItem, Disconnected
      <3> QED
        BY <1>2, <3>1, AboutFacts DEF Item
    <2>2. <<i>> \in Seq(Item)
      BY <2>1
    <2> QED
      BY <1>2, <2>1, <2>2, ToldSmall
  <1> QED
    BY <1>1, <1>2 DEF QuietItems

\* A command, its items and the audio events after them.
LEMMA AudioReturn ==
    ASSUME IInv, AudioInv, stream_items = <<>>, state = "connected", ended = "no",
           NEW items \in QuietItems, NEW me, NEW opts,
           Return(items \o AudioChanges(me, opts)), NEW k \in Sides
    PROVE  Told(stream_items', k, Knows(heard', k)) <=> Can(k, me, opts)
  <1> DEFINE n == Knows(heard, k)
             ac == AudioChanges(me, opts)
  <1>1. heard \in Heard /\ n \in BOOLEAN
    BY Parts DEF Knows, Heard
  <1>2. Told(<<>>, k, n) <=> Can(k, own, options)
    BY DEF AudioInv
  <1>3. items \in Seq(Item) /\ Silent(items, k) /\ ~Told(items, k, FALSE)
    BY QuietFacts
  <1>4. (Told(<<>>, k, n) <=> n) /\ (Told(items, k, n) <=> n)
    <2> HIDE DEF n
    <2>1. DOMAIN <<>> = {}
      OBVIOUS
    <2>2. Told(<<>>, k, n) <=> n
      BY <1>1, <2>1 DEF Told
    <2>3. Told(items, k, n) <=> n
      BY <1>1, <1>3 DEF Told, Silent
    <2> QED
      BY <2>2, <2>3
  <1>5. Told(items \o ac, k, n) <=> Can(k, me, opts)
    BY <1>1, <1>2, <1>3, <1>4, ChangesTell
  <1>6. items \o ac \in Seq(Item)
    <2>1. ac \in Seq(AudioItem)
      BY AudioTypes
    <2> HIDE DEF ac
    <2>2. ac \in Seq(Item)
      BY <2>1, SeqMonotonic DEF Item
    <2> QED
      BY <1>3, <2>2
  <1> DEFINE all == items \o ac
  <1> HIDE DEF all
  <1>7. all \in Seq(Item) /\ Return(all)
    BY <1>6 DEF all
  <1>8. Told(stream_items', k, Knows(heard', k)) <=> Told(all, k, Knows(heard, k))
    BY <1>1, <1>7, ReturnTells
  <1> QED
    BY <1>5, <1>8 DEF all

\* The waiting items are returned one by one.
LEMMA AudioWaiting == ASSUME IInv, AudioInv, PollWaiting PROVE AudioInv'
  <1> SUFFICES ASSUME ended' = "no", NEW k \in Sides
               PROVE  Told(stream_items', k, Knows(heard', k)) <=>
                        state' = "connected" /\ Can(k, own', options')
    BY DEF AudioInv
  <1>1. ended = "no" /\ stream_items # <<>> /\ Return(stream_items) /\ UNCHANGED <<state, own, options>>
    BY DEF PollWaiting
  <1>2. Told(stream_items', k, Knows(heard', k)) <=> Told(stream_items, k, Knows(heard, k))
    BY <1>1, Parts, ReturnTells
  <1>3. Told(stream_items, k, Knows(heard, k)) <=> state = "connected" /\ Can(k, own, options)
    BY <1>1 DEF AudioInv
  <1> QED
    BY <1>1, <1>2, <1>3

\* While there is no connection.
LEMMA AudioConnecting ==
    ASSUME IInv, AudioInv,
           \/ \E timeout \in BOOLEAN : AddressFails(timeout)
           \/ ConnectFailed \/ ConnectRefused
           \/ \E level \in Levels : IncreaseIdentityLevel(level)
           \/ IdentityIncreased \/ ThreadDied
    PROVE  AudioInv'
  <1>1. ASSUME NEW timeout \in BOOLEAN, AddressFails(timeout) PROVE AudioInv'
    BY <1>1, AudioQuiet DEF AddressFails, PollConnecting, seen
  <1>2. CASE ConnectFailed
    <2>1. CASE attempt.reconnect /\ attempt.timedout
      BY <1>2, <2>1, AudioQuiet, ConnectingTypes DEF ConnectFailed, PollConnecting, seen, Polling
    <2>2. CASE ~(attempt.reconnect /\ attempt.timedout)
      BY <1>2, <2>2, AudioQuiet DEF ConnectFailed, PollConnecting, End
    <2> QED
      BY <2>1, <2>2
  <1>3. CASE ConnectRefused
    BY <1>3, AudioQuiet DEF ConnectRefused, PollConnecting, End
  <1>4. ASSUME NEW level \in Levels, IncreaseIdentityLevel(level) PROVE AudioInv'
    <2>1. CASE level > MaxLevel \/ options.level >= level
      BY <1>4, <2>1, AudioQuiet DEF IncreaseIdentityLevel, PollConnecting, End
    <2>2. CASE ~(level > MaxLevel \/ options.level >= level)
      <3>1. /\ Return(<<Plain("increasing")>>) /\ stream_items = <<>> /\ ended' = ended
            /\ state # "connected" /\ state' # "connected"
        BY <1>4, <2>2 DEF IncreaseIdentityLevel, PollConnecting, Polling
      <3> DEFINE i == Plain("increasing")
      <3>2. i \in Item /\ i # Disconnected /\ i \notin AudioItem
        BY DEF Plain, Item, PlainItem, Disconnected, AudioItem
      <3> HIDE DEF i
      <3>3. Return(<<i>>)
        BY <3>1 DEF i
      <3> QED
        BY <3>1, <3>2, <3>3, AudioQuietItem
    <2> QED
      BY <2>1, <2>2
  <1>5. CASE IdentityIncreased
    <2> DEFINE i == Plain("increased")
    <2>1. /\ Return(<<i>>) /\ stream_items = <<>> /\ ended' = ended
          /\ state # "connected" /\ state' # "connected"
      BY <1>5 DEF IdentityIncreased, Polling, Connecting
    <2>2. i \in Item /\ i # Disconnected /\ i \notin AudioItem
      BY DEF Plain, Item, PlainItem, Disconnected, AudioItem
    <2> HIDE DEF i
    <2> QED
      BY <2>1, <2>2, AudioQuietItem
  <1>6. CASE ThreadDied
    BY <1>6, AudioQuiet DEF ThreadDied, End
  <1> QED
    BY <1>1, <1>2, <1>3, <1>4, <1>5, <1>6

\* The first items of a connection tell what can be heard and said.
LEMMA AudioConnect == ASSUME IInv, AudioInv, Connect PROVE AudioInv'
  <1> SUFFICES ASSUME ended' = "no", NEW k \in Sides
               PROVE  Told(stream_items', k, Knows(heard', k)) <=>
                        state' = "connected" /\ Can(k, own', options')
    BY DEF AudioInv
  <1>1. /\ ended = "no" /\ stream_items = <<>> /\ state # "connected" /\ state' = "connected"
        /\ own' = {} /\ options' = options
    BY DEF Connect, Polling
  <1> DEFINE n == Knows(heard, k)
             x == Send(TRUE)
             y == Receive(TRUE)
             z == <<Book>>
             s == CanSend({}, options)
             r == CanReceive({}, options)
             X == IF s THEN <<x>> ELSE <<>>
             Y == IF r THEN <<y>> ELSE <<>>
  <1>2. heard \in Heard /\ n \in BOOLEAN
    BY Parts DEF Knows, Heard
  <1>3. ~n
    <2>1. ~Told(<<>>, k, n)
      BY <1>1 DEF AudioInv
    <2> HIDE DEF n
    <2>2. DOMAIN <<>> = {}
      OBVIOUS
    <2> QED
      BY <1>2, <2>1, <2>2 DEF Told
  <1>4. Return(z \o X \o Y)
    BY DEF Connect
  <1>5. x \in Item /\ y \in Item /\ Book \in Item
    BY ItemTypes DEF Item
  <1>6. /\ About(x, k) <=> k = "send"
        /\ About(y, k) <=> k = "receive"
        /\ x = [kind |-> k, on |-> TRUE] <=> k = "send"
        /\ y = [kind |-> k, on |-> TRUE] <=> k = "receive"
        /\ ~About(Book, k) /\ Book # [kind |-> k, on |-> TRUE]
    BY AboutFacts, ItemTypes
  <1>7. z \in Seq(Item) /\ Silent(z, k) /\ ~Told(z, k, FALSE)
    BY <1>5, <1>6, ToldSmall, SmallItems
  <1> HIDE DEF x, y, z, s, r
  <1>8. X \in Seq(Item) /\ (Silent(X, k) <=> ~(k = "send" /\ s)) /\ (Told(X, k, FALSE) <=> k = "send" /\ s)
    <2>1. CASE s
      <3>1. X = <<x>> /\ <<x>> \in Seq(Item)
        BY <1>5, <2>1
      <3> HIDE DEF X
      <3> QED
        BY <1>5, <1>6, <2>1, <3>1, ToldSmall
    <2>2. CASE ~s
      <3>1. X = <<>> /\ <<>> \in Seq(Item)
        BY <2>2
      <3> HIDE DEF X
      <3>2. Silent(<<>>, k) /\ ~Told(<<>>, k, FALSE)
        BY <1>5, ToldSmall
      <3> QED
        BY <2>2, <3>1, <3>2
    <2> QED
      BY <2>1, <2>2
  <1>9. Y \in Seq(Item) /\ (Silent(Y, k) <=> ~(k = "receive" /\ r)) /\ (Told(Y, k, FALSE) <=> k = "receive" /\ r)
    <2>1. CASE r
      <3>1. Y = <<y>> /\ <<y>> \in Seq(Item)
        BY <1>5, <2>1
      <3> HIDE DEF Y
      <3> QED
        BY <1>5, <1>6, <2>1, <3>1, ToldSmall
    <2>2. CASE ~r
      <3>1. Y = <<>> /\ <<>> \in Seq(Item)
        BY <2>2
      <3> HIDE DEF Y
      <3>2. Silent(<<>>, k) /\ ~Told(<<>>, k, FALSE)
        BY <1>5, ToldSmall
      <3> QED
        BY <2>2, <3>1, <3>2
    <2> QED
      BY <2>1, <2>2
  <1> HIDE DEF X, Y
  <1> DEFINE zX == z \o X
             all == zX \o Y
  <1>10. zX \in Seq(Item) /\ (Told(zX, k, FALSE) <=> k = "send" /\ s) /\ (Silent(zX, k) <=> ~(k = "send" /\ s))
    <2>1. zX \in Seq(Item)
      BY <1>7, <1>8
    <2>2. /\ Told(zX, k, FALSE) <=> (Told(z, k, FALSE) /\ Silent(X, k)) \/ Told(X, k, FALSE)
          /\ Silent(zX, k) <=> Silent(z, k) /\ Silent(X, k)
      BY <1>7, <1>8, ToldConcat
    <2> QED
      BY <1>7, <1>8, <2>1, <2>2
  <1>11. all \in Seq(Item) /\ Return(all)
    <2>1. Return(all)
      BY <1>4
    <2> HIDE DEF zX
    <2> QED
      BY <1>9, <1>10, <2>1
  <1>12. Told(all, k, FALSE) <=> (k = "send" /\ s) \/ (k = "receive" /\ r)
    <2> HIDE DEF zX
    <2>1. Told(all, k, FALSE) <=> (Told(zX, k, FALSE) /\ Silent(Y, k)) \/ Told(Y, k, FALSE)
      BY <1>9, <1>10, ToldConcat
    <2> QED
      BY <1>9, <1>10, <2>1
  <1> HIDE DEF all
  <1>13. Told(stream_items', k, Knows(heard', k)) <=> Told(all, k, n)
    BY <1>1, <1>2, <1>11, ReturnTells
  <1>14. n = FALSE
    BY <1>2, <1>3
  <1>15. Can(k, {}, options) <=> (k = "send" /\ s) \/ (k = "receive" /\ r)
    BY DEF Can, Sides, s, r
  <1> QED
    BY <1>1, <1>12, <1>13, <1>14, <1>15

\* Commands of the user: only a change of the mutes concerns the audio.
LEMMA AudioUser == ASSUME IInv, AudioInv, User PROVE AudioInv'
  <1>1. CASE StartTransfer
    BY <1>1, AudioQuiet DEF StartTransfer, UserStep, seen
  <1>2. CASE Disconnect
    BY <1>2, AudioQuiet DEF Disconnect, UserStep, seen
  <1>3. ASSUME NEW w \in BOOLEAN, SendCommand(w) PROVE AudioInv'
    BY <1>3, AudioQuiet DEF SendCommand, UserStep, seen
  <1>4. ASSUME NEW all \in BOOLEAN, Subscribe(all) PROVE AudioInv'
    BY <1>4, AudioQuiet DEF Subscribe, UserStep, seen
  <1>5. ASSUME NEW m \in SUBSET Mutes, SetMutes(m) PROVE AudioInv'
    <2> SUFFICES ASSUME ended' = "no", NEW k \in Sides
                 PROVE  Told(stream_items', k, Knows(heard', k)) <=>
                          state' = "connected" /\ Can(k, own', options')
      BY DEF AudioInv
    <2>1. state = "connected" /\ ended = "no" /\ UNCHANGED <<state, heard, ended>>
      BY <1>5 DEF SetMutes, UserStep, seen, Polling
    <2> DEFINE bk == IF own' = own THEN <<>> ELSE <<Book>>
               ac == AudioChanges(own', options')
               si == stream_items
               n == Knows(heard, k)
    <2>2. stream_items' = si \o bk \o ac
      BY <1>5 DEF SetMutes
    <2>3. bk \in QuietItems
      BY ItemTypes DEF QuietItems
    <2>4. Told(si, k, n) <=> Can(k, own, options)
      BY <2>1 DEF AudioInv
    <2>5. si \in Seq(Item) /\ heard \in Heard /\ n \in BOOLEAN
      BY Parts DEF Knows, Heard
    <2> DEFINE sb == si \o bk
    <2>6. bk \in Seq(Item) /\ Silent(bk, k) /\ ~Told(bk, k, FALSE)
      BY <2>3, QuietFacts
    <2>7. /\ Told(sb, k, FALSE) <=> (Told(si, k, FALSE) /\ Silent(bk, k)) \/ Told(bk, k, FALSE)
          /\ Silent(sb, k) <=> Silent(si, k) /\ Silent(bk, k)
      <3> HIDE DEF bk, si
      <3> QED
        BY <2>5, <2>6, ToldConcat
    <2>8. sb \in Seq(Item)
      <3> HIDE DEF bk, si
      <3> QED
        BY <2>5, <2>6
    <2>9. Told(sb, k, n) <=> Can(k, own, options)
      <3> HIDE DEF sb, n, bk, si
      <3>1. /\ Told(si, k, n) <=> (n /\ Silent(si, k)) \/ Told(si, k, FALSE)
            /\ Told(sb, k, n) <=> (n /\ Silent(sb, k)) \/ Told(sb, k, FALSE)
        BY <2>5 DEF Told, Silent
      <3> QED
        BY <2>4, <2>6, <2>7, <3>1
    <2>10. Told(sb \o ac, k, n) <=> Can(k, own', options')
      <3> HIDE DEF sb
      <3> QED
        BY <2>5, <2>8, <2>9, ChangesTell
    <2> QED
      BY <2>1, <2>2, <2>10
  <1> QED
    BY <1>1, <1>2, <1>3, <1>4, <1>5 DEF User

\* A temporary disconnect silences both sides, whatever was told before it.
LEMMA DisconnectTells ==
    ASSUME heard \in Heard, stream_items = <<>>, NEW items \in Seq(Item),
           Return(items \o <<Disconnected>>), NEW k \in Sides
    PROVE  ~Told(stream_items', k, Knows(heard', k))
  <1> DEFINE d == <<Disconnected>>
             all == items \o d
             n == Knows(heard, k)
  <1>0. n \in BOOLEAN
    BY DEF Knows, Heard
  <1>1. d \in Seq(Item) /\ ~Silent(d, k) /\ ~Told(d, k, FALSE)
    <2>1. Disconnected \in Item
      BY ItemTypes DEF Item
    <2> QED
      BY <2>1, SmallItems, ToldSmall, AboutFacts
  <1> HIDE DEF d
  <1>2. all \in Seq(Item) /\ Return(all)
    <2>1. Return(all)
      BY DEF d
    <2> QED
      BY <1>1, <2>1
  <1>3. /\ Told(all, k, FALSE) <=> (Told(items, k, FALSE) /\ Silent(d, k)) \/ Told(d, k, FALSE)
        /\ Silent(all, k) <=> Silent(items, k) /\ Silent(d, k)
    BY <1>1, ToldConcat
  <1> HIDE DEF all, n
  <1>4. ~Told(all, k, n)
    <2>1. Told(all, k, n) <=> (n /\ Silent(all, k)) \/ Told(all, k, FALSE)
      BY <1>0 DEF Told, Silent
    <2> QED
      BY <1>1, <1>3, <2>1
  <1>5. Told(stream_items', k, Knows(heard', k)) <=> Told(all, k, Knows(heard, k))
    BY <1>2, ReturnTells
  <1> QED
    BY <1>4, <1>5 DEF n

\* Giving up the connection after such an item.
LEMMA AudioGiveUp ==
    ASSUME heard \in Heard, stream_items = <<>>, NEW items \in Seq(Item), GiveUp,
           Return(items \o <<Disconnected>>)
    PROVE  AudioInv'
  <1>1. state' # "connected"
    BY DEF GiveUp, Connecting
  <1>2. \A k \in Sides : ~Told(stream_items', k, Knows(heard', k))
    BY DisconnectTells
  <1> QED
    BY <1>1, <1>2 DEF AudioInv

\* What a connection returns that is not a command.
LEMMA AudioPollItem == ASSUME IInv, AudioInv, PollItem PROVE AudioInv'
  <1>1. CASE PollTimeout
    <2>1. CASE resender = "connected"
      <3>1. GiveUp /\ Return(<<Disconnected>>) /\ stream_items = <<>> /\ heard \in Heard
        BY <1>1, <2>1, Parts DEF PollTimeout, PollConnected
      <3>2. <<>> \o <<Disconnected>> = <<Disconnected>> /\ <<>> \in Seq(Item)
        <4> DEFINE d == <<Disconnected>>
        <4>1. d \in Seq(Item)
          BY SmallItems
        <4> HIDE DEF d
        <4>2. <<>> \o d = d
          BY <4>1
        <4> QED
          BY <4>2, SmallItems DEF d
      <3> QED
        BY <3>1, <3>2, AudioGiveUp
    <2>2. CASE resender # "connected"
      BY <1>1, <2>2, AudioQuiet DEF PollTimeout, PollConnected, End, Polling
    <2> QED
      BY <2>1, <2>2
  <1>2. CASE PollError
    BY <1>2, AudioQuiet DEF PollError, PollConnected, End, Polling
  <1>3. CASE PollEnd
    BY <1>3, AudioQuiet DEF PollEnd, PollConnected, End, Polling
  <1>4. CASE PollStats
    <2> DEFINE i == Plain("stats")
    <2>1. Return(<<i>>) /\ stream_items = <<>> /\ UNCHANGED <<state, own, options, ended>>
      BY <1>4 DEF PollStats, PollConnected
    <2>2. i \in Item /\ i # Disconnected /\ i \notin AudioItem
      BY DEF Plain, Item, PlainItem, Disconnected, AudioItem
    <2> HIDE DEF i
    <2> QED
      BY <2>1, <2>2, AudioQuietItem
  <1>5. ASSUME NEW e \in BOOLEAN, NEW u \in BOOLEAN, PollAudio(e, u) PROVE AudioInv'
    <2> DEFINE i == Plain("audio")
    <2>1. Return(<<i>>) /\ stream_items = <<>> /\ UNCHANGED <<state, own, options, ended>>
      BY <1>5 DEF PollAudio, PollConnected
    <2>2. i \in Item /\ i # Disconnected /\ i \notin AudioItem
      BY DEF Plain, Item, PlainItem, Disconnected, AudioItem
    <2> HIDE DEF i
    <2> QED
      BY <2>1, <2>2, AudioQuietItem
  <1>6. ASSUME NEW n \in DOMAIN con.transfers, NEW ok \in BOOLEAN, PollTransfer(n, ok) PROVE AudioInv'
    <2> DEFINE i == Answer("transfer", con.transfers[n], ok)
    <2>1. Return(<<i>>) /\ stream_items = <<>> /\ UNCHANGED <<state, own, options, ended>>
      BY <1>6 DEF PollTransfer, PollConnected
    <2>2. con.transfers[n] \in Codes
      BY Parts DEF ConType
    <2>3. i \in AnswerItem /\ i.kind = "transfer"
      BY <2>2, ItemTypes DEF Answer
    <2> HIDE DEF i
    <2>4. i \in Item /\ i # Disconnected /\ i \notin AudioItem
      BY <2>3 DEF Item, Disconnected, AudioItem
    <2> QED
      BY <2>1, <2>4, AudioQuietItem
  <1> QED
    BY <1>1, <1>2, <1>3, <1>4, <1>5, <1>6 DEF PollItem

\* Handled commands: their items and the audio events.
LEMMA AudioHandled ==
    ASSUME IInv, AudioInv, PollConnected, NEW items \in QuietItems, Handled(items)
    PROVE  AudioInv'
  <1> SUFFICES ASSUME ended' = "no", NEW k \in Sides
               PROVE  Told(stream_items', k, Knows(heard', k)) <=>
                        state' = "connected" /\ Can(k, own', options')
    BY DEF AudioInv
  <1>1. state = "connected" /\ stream_items = <<>> /\ ended = "no" /\ state' = state
    BY DEF PollConnected, Polling, Handled
  <1>2. Return(items \o AudioChanges(own', options'))
    BY DEF Handled
  <1>3. Told(stream_items', k, Knows(heard', k)) <=> Can(k, own', options')
    BY <1>1, <1>2, AudioReturn
  <1> QED
    BY <1>1, <1>3

\* handle_command, except for the own client leaving.
LEMMA AudioHandle ==
    ASSUME IInv, AudioInv,
           \/ HandleResult \/ HandleTransferStart \/ HandleTransferStatus
           \/ HandleInfoRequest \/ HandleEnter \/ HandleUpdated \/ HandleMoved
           \/ HandleChannelCreated \/ HandleOther
    PROVE  AudioInv'
  <1> DEFINE c == Head(s2c)
             msg == <<Plain("message")>>
  <1>1. <<>> \in QuietItems /\ <<Book>> \in QuietItems /\ msg \in QuietItems
        /\ \A i \in AnswerItem : <<i>> \in QuietItems
    BY ItemTypes DEF QuietItems
  <1>2. CASE HandleResult
    <2>1. Receiving("result") /\ c \in ToClient /\ c.kind = "result" /\ PollConnected
      BY <1>2, CommandTypes DEF HandleResult, Receiving
    <2>2. c.code \in 0 .. CodeCount /\ c.ok \in BOOLEAN
      BY <2>1 DEF ToClient
    <2> DEFINE i == Answer("result", c.code, c.ok)
               items == IF c.code = NoCode THEN msg ELSE <<i>>
    <2>3. c.code # NoCode => c.code \in Codes
      BY <2>2, ClientAssumption DEF NoCode, Codes
    <2>4. c.code # NoCode => i \in AnswerItem
      BY <2>2, <2>3, ItemTypes
    <2>5. Handled(items)
      BY <1>2 DEF HandleResult
    <2> HIDE DEF i, msg
    <2>6. items \in QuietItems
      BY <1>1, <2>4
    <2> HIDE DEF items
    <2> QED
      BY <2>1, <2>5, <2>6, AudioHandled
  <1>3. CASE HandleTransferStart
    BY <1>1, <1>3, AudioHandled DEF HandleTransferStart, Receiving, Arrived
  <1>4. CASE HandleTransferStatus
    <2>1. c \in ToClient /\ c.kind = "status" /\ PollConnected
      BY <1>4, CommandTypes DEF HandleTransferStatus, Receiving
    <2>2. c.id \in Codes
      BY <2>1 DEF ToClient
    <2> DEFINE i == Answer("transfer", c.id, FALSE)
    <2>3. i \in AnswerItem /\ Handled(<<i>>)
      BY <1>4, <2>2, ItemTypes DEF HandleTransferStatus
    <2> HIDE DEF i
    <2> QED
      BY <1>1, <2>1, <2>3, AudioHandled
  <1>5. CASE HandleInfoRequest
    BY <1>1, <1>5, AudioHandled DEF HandleInfoRequest, Receiving, Arrived
  <1>6. CASE HandleEnter
    BY <1>1, <1>6, AudioHandled DEF HandleEnter, Receiving, Arrived
  <1>7. CASE HandleUpdated
    <2> DEFINE items == IF own = {} THEN msg
                        ELSE IF \A x \in own : x.mutes = c.mutes THEN <<>>
                        ELSE <<Book>>
    <2>1. Handled(items) /\ PollConnected
      BY <1>7 DEF HandleUpdated, Receiving, Arrived
    <2> HIDE DEF msg
    <2>2. items \in QuietItems
      BY <1>1
    <2> HIDE DEF items
    <2> QED
      BY <2>1, <2>2, AudioHandled
  <1>8. CASE HandleMoved
    <2> DEFINE items == IF own = {} THEN msg ELSE IF own' = own THEN <<>> ELSE <<Book>>
    <2>1. Handled(items) /\ PollConnected
      BY <1>8 DEF HandleMoved, Receiving, Arrived
    <2> HIDE DEF msg
    <2>2. items \in QuietItems
      BY <1>1
    <2> HIDE DEF items
    <2> QED
      BY <2>1, <2>2, AudioHandled
  <1>9. CASE HandleChannelCreated
    BY <1>1, <1>9, AudioHandled DEF HandleChannelCreated, Receiving, Arrived
  <1>10. CASE HandleOther
    BY <1>1, <1>10, AudioHandled DEF HandleOther, Receiving, Arrived
  <1> QED
    BY <1>2, <1>3, <1>4, <1>5, <1>6, <1>7, <1>8, <1>9, <1>10

\* The own client leaves.
LEMMA AudioLeft == ASSUME IInv, AudioInv, HandleLeft PROVE AudioInv'
  <1>1. PollConnected /\ options' = options /\ stream_items = <<>> /\ heard \in Heard
        /\ state = "connected" /\ ended = "no"
    BY Parts DEF HandleLeft, Arrived, PollConnected, Polling
  <1>2. CASE Head(s2c).stop
    <2> DEFINE b == IF own = {} THEN <<>> ELSE <<Book>>
               as == AudioStops
               items == b \o as
    <2>1. GiveUp /\ Return(items \o <<Disconnected>>)
      BY <1>2 DEF HandleLeft, ServerStopItems
    <2>2. b \in Seq(Item) /\ as \in Seq(AudioItem)
      BY SmallItems, AudioTypes
    <2> HIDE DEF b, as
    <2>3. as \in Seq(Item)
      BY <2>2, SeqMonotonic DEF Item
    <2>4. items \in Seq(Item)
      <3>1. b \in Seq(Item)
        BY <2>2
      <3> QED
        BY <2>3, <3>1, ConcatProperties
    <2> HIDE DEF items
    <2> QED
      BY <1>1, <2>1, <2>4, AudioGiveUp
  <1>3. CASE ~Head(s2c).stop
    <2> SUFFICES ASSUME ended' = "no", NEW k \in Sides
                 PROVE  Told(stream_items', k, Knows(heard', k)) <=>
                          state' = "connected" /\ Can(k, own', options')
      BY DEF AudioInv
    <2> DEFINE items == IF own = {} THEN <<Plain("message")>> ELSE <<Book>>
    <2>1. own' = {} /\ state' = state /\ Return(items \o AudioChanges({}, options))
      BY <1>3 DEF HandleLeft
    <2>2. items \in QuietItems
      BY ItemTypes DEF QuietItems
    <2> HIDE DEF items
    <2>3. Told(stream_items', k, Knows(heard', k)) <=> Can(k, {}, options)
      BY <1>1, <2>1, <2>2, AudioReturn
    <2> QED
      BY <1>1, <2>1, <2>3
  <1> QED
    BY <1>2, <1>3

\* Every step keeps the user informed.
LEMMA AudioNext == ASSUME IInv, AudioInv, [Next]_vars PROVE AudioInv'
  <1>1. CASE Poll
    BY <1>1, AudioWaiting, AudioConnecting, AudioConnect, AudioHandle, AudioLeft,
       AudioPollItem DEF Poll, ConnectStep, HandleCommand
  <1>2. CASE Server
    <2>1. UNCHANGED <<client, seen>>
      <3>1. CASE ServerShows
        BY <3>1 DEF ServerShows, ServerStep
      <3>2. CASE ServerNews
        BY <3>2 DEF ServerNews, ServerStep
      <3>3. ASSUME NEW ok \in BOOLEAN, ServerAnswer(ok) PROVE UNCHANGED <<client, seen>>
        BY <3>3 DEF ServerAnswer, ServerStep
      <3> QED
        BY <1>2, <3>1, <3>2, <3>3 DEF Server
    <2> QED
      BY <2>1, AudioQuiet DEF client, seen
  <1>3. CASE CancelIdentityLevelIncrease
    BY <1>3, AudioQuiet DEF CancelIdentityLevelIncrease, seen
  <1>4. CASE UNCHANGED vars
    BY <1>4, AudioQuiet DEF vars, client, seen
  <1> QED
    BY <1>1, <1>2, <1>3, <1>4, AudioUser DEF Next

\* Nothing can be said or heard at the beginning.
LEMMA AudioInit == ASSUME Init PROVE AudioInv
  <1> SUFFICES ASSUME NEW k \in Sides PROVE ~Told(stream_items, k, Knows(heard, k))
    BY DEF AudioInv, Init
  <1>1. Knows(heard, k) = FALSE
    BY DEF Init, Knows
  <1> DEFINE p == Plain("increased")
  <1>2. stream_items = <<>> \/ stream_items = <<p>>
    BY DEF Init
  <1>3. p \in Item /\ ~About(p, k) /\ p # [kind |-> k, on |-> TRUE]
    BY DEF Plain, Item, PlainItem, About, Sides
  <1> HIDE DEF p
  <1>4. ~Told(<<>>, k, FALSE) /\ ~Told(<<p>>, k, FALSE)
    BY <1>3, ToldSmall
  <1> QED
    BY <1>1, <1>2, <1>4

\* A user who follows the events knows at any time whether audio can be sent
\* and received: no order of mutes, moves, restarts and timeouts, with any
\* number of items still waiting, loses a change or reports one that is not.
THEOREM AudioIsTold == Spec => []AudioEventsSuffice
  <1>1. Init => AudioInv
    BY AudioInit
  <1>2. IInv /\ AudioInv /\ [Next]_vars => AudioInv'
    BY AudioNext
  <1>3. AudioInv => AudioEventsSuffice
    <2> SUFFICES ASSUME AudioInv, ended = "no"
                 PROVE  /\ Told(stream_items, "send", heard.send) <=> CanSendAudio
                        /\ Told(stream_items, "receive", heard.receive) <=> CanReceiveAudio
      BY DEF AudioEventsSuffice, Told, CanSendAudio, CanReceiveAudio
    <2>1. "send" \in Sides /\ "receive" \in Sides /\ "send" # "receive"
      BY DEF Sides
    <2>2. /\ Told(stream_items, "send", Knows(heard, "send")) <=>
               state = "connected" /\ Can("send", own, options)
          /\ Told(stream_items, "receive", Knows(heard, "receive")) <=>
               state = "connected" /\ Can("receive", own, options)
      BY <2>1 DEF AudioInv
    <2>3. Knows(heard, "send") = heard.send /\ Knows(heard, "receive") = heard.receive
      BY <2>1 DEF Knows
    <2>4. (Can("send", own, options) <=> CanSend(own, options))
          /\ (Can("receive", own, options) <=> CanReceive(own, options))
      BY <2>1 DEF Can
    <2> QED
      BY <2>2, <2>3, <2>4 DEF CanSendAudio, CanReceiveAudio
  <1> QED
    BY <1>1, <1>2, <1>3, ClientInvariant, PTL DEF Spec

-----------------------------------------------------------------------------
(* The user knows whether there is a connection.                           *)

\* The items that do not tell of a loss.
LiveItem == Item \ {Disconnected}

\* While connected, the user knows it already and no loss waits to be told;
\* otherwise a loss that the user does not know of yet waits.
ConnectedInv ==
  ended = "no" =>
    /\ state = "connected" => heard.connected /\ stream_items \in Seq(LiveItem)
    /\ state # "connected" /\ heard.connected =>
         \E n \in DOMAIN stream_items : stream_items[n] = Disconnected

\* Only a temporary disconnect is not such an item.
LEMMA LiveTypes ==
    /\ LiveItem \subseteq Item /\ AudioItem \subseteq LiveItem
    /\ BookItem \subseteq LiveItem /\ AnswerItem \subseteq LiveItem
    /\ \A k \in {"increasing", "increased", "audio", "stats", "message"} :
         Plain(k) \in LiveItem /\ Plain(k) # Book
    /\ \A i \in AnswerItem : i # Book
    /\ Book # Disconnected
  BY DEF LiveItem, Item, AudioItem, BookItem, AnswerItem, PlainItem, Disconnected, Plain, Book

\* What one item tells of the connection.
LEMMA LearnConnected ==
    ASSUME NEW h \in Heard, NEW i \in Item
    PROVE  /\ h.connected \in BOOLEAN
           /\ Learn(h, i).connected <=> (h.connected /\ i # Disconnected) \/ i = Book
  <1>1. CASE i \in PlainItem
    <2>1. CASE i = Disconnected
      BY <2>1 DEF Learn, Heard, Disconnected, Book
    <2>2. CASE i # Disconnected
      <3>1. Learn(h, i) = h /\ i # Book
        BY <1>1, <2>2 DEF Learn, PlainItem, Disconnected, Book
      <3> QED
        BY <2>2, <3>1 DEF Heard
    <2> QED
      BY <2>1, <2>2
  <1>2. CASE i \in BookItem
    <2>1. i = Book /\ Learn(h, i) = [h EXCEPT !.connected = TRUE]
      BY <1>2 DEF Learn, BookItem, Book
    <2> QED
      BY <2>1 DEF Heard
  <1>3. CASE i \in AudioItem
    <2>1. i # Disconnected /\ i # Book
      BY <1>3 DEF AudioItem, Disconnected, Book
    <2>2. Learn(h, i).connected = h.connected
      BY <1>3 DEF Learn, AudioItem, Heard
    <2> QED
      BY <2>1, <2>2 DEF Heard
  <1>4. CASE i \in AnswerItem
    <2>1. i # Disconnected /\ i # Book
      BY <1>4 DEF AnswerItem, Disconnected, Book
    <2>2. Learn(h, i).connected = h.connected
      BY <1>4 DEF Learn, AnswerItem, Heard
    <2> QED
      BY <2>1, <2>2 DEF Heard
  <1> QED
    BY <1>1, <1>2, <1>3, <1>4 DEF Item

\* Returning such items while connected.
LEMMA ReturnLive ==
    ASSUME heard \in Heard, heard.connected, stream_items \in Seq(LiveItem),
           NEW items \in Seq(LiveItem), Return(items)
    PROVE  heard'.connected /\ stream_items' \in Seq(LiveItem)
  <1>1. LiveItem \subseteq Item
    BY LiveTypes
  <1>2. stream_items' \in Seq(LiveItem)
    BY <1>1, ReturnFacts
  <1>3. CASE items = <<>>
    BY <1>2, <1>3 DEF Return
  <1>4. CASE items # <<>>
    <2>1. Head(items) \in LiveItem /\ heard' = Learn(heard, Head(items))
      BY <1>4 DEF Return
    <2>2. Head(items) \in Item /\ Head(items) # Disconnected
      BY <2>1 DEF LiveItem
    <2> QED
      BY <1>2, <2>1, <2>2, LearnConnected
  <1> QED
    BY <1>3, <1>4

\* A connection that is there stays.
LEMMA ConnectedStays ==
    ASSUME IInv, ConnectedInv, ended = "no", state = "connected", state' = "connected",
           NEW items \in Seq(LiveItem), Return(items)
    PROVE  ConnectedInv'
  <1>1. heard \in Heard /\ heard.connected /\ stream_items \in Seq(LiveItem)
    BY Parts DEF ConnectedInv
  <1>2. heard'.connected /\ stream_items' \in Seq(LiveItem)
    BY <1>1, ReturnLive
  <1> QED
    BY <1>2 DEF ConnectedInv

\* Nothing that matters happens.
LEMMA ConnectedQuiet ==
    ASSUME ConnectedInv, UNCHANGED <<stream_items, heard>>, ended' = "no" => ended = "no",
           state' = "connected" <=> state = "connected"
    PROVE  ConnectedInv'
  BY DEF ConnectedInv

\* An item that tells nothing of the connection.
LEMMA ConnectedQuietItem ==
    ASSUME IInv, ConnectedInv, stream_items = <<>>, NEW i \in LiveItem, i # Book,
           Return(<<i>>), ended' = "no" => ended = "no",
           state' = "connected" <=> state = "connected"
    PROVE  ConnectedInv'
  <1> SUFFICES ASSUME ended' = "no" PROVE ConnectedInv'
    BY DEF ConnectedInv
  <1>1. CASE state = "connected"
    <2>1. <<i>> \in Seq(LiveItem)
      OBVIOUS
    <2> QED
      BY <1>1, <2>1, ConnectedStays
  <1>2. CASE state # "connected"
    <2>1. heard \in Heard /\ i \in Item
      BY Parts, LiveTypes
    <2>2. ~heard.connected
      <3>1. DOMAIN stream_items = {}
        OBVIOUS
      <3> QED
        BY <1>2, <3>1 DEF ConnectedInv
    <2>3. heard' = Learn(heard, i)
      BY <2>1, ReturnOne
    <2>4. ~heard'.connected
      BY <2>1, <2>2, <2>3, LearnConnected
    <2> QED
      BY <1>2, <2>4 DEF ConnectedInv
  <1> QED
    BY <1>1, <1>2

\* Items that wait are returned.
LEMMA ConnectedWaiting == ASSUME IInv, ConnectedInv, PollWaiting PROVE ConnectedInv'
  <1>1. /\ ended = "no" /\ stream_items # <<>> /\ Return(stream_items)
        /\ UNCHANGED <<state, ended>>
    BY DEF PollWaiting
  <1>2. CASE state = "connected"
    BY <1>1, <1>2, ConnectedStays DEF ConnectedInv
  <1>3. CASE state # "connected"
    <2> DEFINE s == stream_items
    <2>1. s \in Seq(Item) /\ s \in Seq(PlainItem \cup AudioItem) /\ heard \in Heard
      BY <1>3, Parts DEF IInv, OwnItems
    <2>2. /\ stream_items' = Tail(s) /\ heard' = Learn(heard, Head(s)) /\ Head(s) \in Item
          /\ Head(s) = s[1]
      BY <1>1, <2>1 DEF Return
    <2>3. Head(s) # Book
      <3>1. Head(s) \in PlainItem \cup AudioItem
        BY <1>1, <2>1
      <3> QED
        BY <3>1 DEF PlainItem, AudioItem, Book
    <2> SUFFICES ASSUME heard'.connected
                 PROVE  \E n \in DOMAIN stream_items' : stream_items'[n] = Disconnected
      BY <1>1, <1>3 DEF ConnectedInv
    <2>4. heard.connected /\ s[1] # Disconnected
      BY <2>1, <2>2, <2>3, LearnConnected
    <2>5. PICK n \in DOMAIN s : s[n] = Disconnected
      BY <1>1, <1>3, <2>4 DEF ConnectedInv
    <2>6. n - 1 \in DOMAIN Tail(s) /\ Tail(s)[n - 1] = s[n]
      BY <1>1, <2>1, <2>4, <2>5
    <2> QED
      BY <2>2, <2>5, <2>6
  <1> QED
    BY <1>2, <1>3

\* While there is no connection.
LEMMA ConnectedConnecting ==
    ASSUME IInv, ConnectedInv,
           \/ \E timeout \in BOOLEAN : AddressFails(timeout)
           \/ ConnectFailed \/ ConnectRefused
           \/ \E level \in Levels : IncreaseIdentityLevel(level)
           \/ IdentityIncreased \/ ThreadDied
    PROVE  ConnectedInv'
  <1>1. ASSUME NEW timeout \in BOOLEAN, AddressFails(timeout) PROVE ConnectedInv'
    BY <1>1, ConnectedQuiet DEF AddressFails, PollConnecting, seen
  <1>2. CASE ConnectFailed
    <2>1. CASE attempt.reconnect /\ attempt.timedout
      BY <1>2, <2>1, ConnectedQuiet, ConnectingTypes DEF ConnectFailed, PollConnecting, seen, Polling
    <2>2. CASE ~(attempt.reconnect /\ attempt.timedout)
      BY <1>2, <2>2, ConnectedQuiet DEF ConnectFailed, PollConnecting, End
    <2> QED
      BY <2>1, <2>2
  <1>3. CASE ConnectRefused
    BY <1>3, ConnectedQuiet DEF ConnectRefused, PollConnecting, End
  <1>4. ASSUME NEW level \in Levels, IncreaseIdentityLevel(level) PROVE ConnectedInv'
    <2>1. CASE level > MaxLevel \/ options.level >= level
      BY <1>4, <2>1, ConnectedQuiet DEF IncreaseIdentityLevel, PollConnecting, End
    <2>2. CASE ~(level > MaxLevel \/ options.level >= level)
      <3> DEFINE i == Plain("increasing")
      <3>1. /\ Return(<<i>>) /\ stream_items = <<>> /\ ended' = ended
            /\ state # "connected" /\ state' # "connected"
        BY <1>4, <2>2 DEF IncreaseIdentityLevel, PollConnecting, Polling
      <3>2. i \in LiveItem /\ i # Book
        BY LiveTypes
      <3> HIDE DEF i
      <3> QED
        BY <3>1, <3>2, ConnectedQuietItem
    <2> QED
      BY <2>1, <2>2
  <1>5. CASE IdentityIncreased
    <2> DEFINE i == Plain("increased")
    <2>1. /\ Return(<<i>>) /\ stream_items = <<>> /\ ended' = ended
          /\ state # "connected" /\ state' # "connected"
      BY <1>5 DEF IdentityIncreased, Polling, Connecting
    <2>2. i \in LiveItem /\ i # Book
      BY LiveTypes
    <2> HIDE DEF i
    <2> QED
      BY <2>1, <2>2, ConnectedQuietItem
  <1>6. CASE ThreadDied
    BY <1>6, ConnectedQuiet DEF ThreadDied, End
  <1> QED
    BY <1>1, <1>2, <1>3, <1>4, <1>5, <1>6

\* The first item of a connection tells of it.
LEMMA ConnectedConnect == ASSUME IInv, ConnectedInv, Connect PROVE ConnectedInv'
  <1> DEFINE on == Send(TRUE)
             rec == Receive(TRUE)
             a == IF CanSend({}, options) THEN <<on>> ELSE <<>>
             b == IF CanReceive({}, options) THEN <<rec>> ELSE <<>>
             rest == a \o b
  <1>1. on \in LiveItem /\ rec \in LiveItem /\ Book \in Item /\ LiveItem \subseteq Item
    BY ItemTypes, LiveTypes
  <1>2. a \in Seq(LiveItem) /\ b \in Seq(LiveItem)
    <2> HIDE DEF on, rec
    <2> QED
      BY <1>1
  <1>3. Return(<<Book>> \o a \o b) /\ state' = "connected"
    BY DEF Connect
  <1> HIDE DEF a, b
  <1>4. rest \in Seq(LiveItem) /\ <<Book>> \o a \o b = <<Book>> \o rest
    <2>1. rest \in Seq(LiveItem) /\ a \in Seq(Item) /\ b \in Seq(Item)
      BY <1>1, <1>2, SeqMonotonic, ConcatProperties
    <2> QED
      BY <2>1, SmallItems, Assoc
  <1> HIDE DEF rest
  <1>5. stream_items' = rest /\ heard' = Learn(heard, Book)
    BY <1>1, <1>3, <1>4, Parts, ReturnRest
  <1>6. heard'.connected
    BY <1>1, <1>5, Parts, LearnConnected
  <1> QED
    BY <1>3, <1>4, <1>5, <1>6 DEF ConnectedInv

\* Commands of the user.
LEMMA ConnectedUser == ASSUME IInv, ConnectedInv, User PROVE ConnectedInv'
  <1>1. CASE StartTransfer
    BY <1>1, ConnectedQuiet DEF StartTransfer, UserStep, seen
  <1>2. CASE Disconnect
    BY <1>2, ConnectedQuiet DEF Disconnect, UserStep, seen
  <1>3. ASSUME NEW w \in BOOLEAN, SendCommand(w) PROVE ConnectedInv'
    BY <1>3, ConnectedQuiet DEF SendCommand, UserStep, seen
  <1>4. ASSUME NEW all \in BOOLEAN, Subscribe(all) PROVE ConnectedInv'
    BY <1>4, ConnectedQuiet DEF Subscribe, UserStep, seen
  <1>5. ASSUME NEW m \in SUBSET Mutes, SetMutes(m) PROVE ConnectedInv'
    <2>1. state = "connected" /\ ended = "no" /\ UNCHANGED <<state, heard, ended>>
      BY <1>5 DEF SetMutes, UserStep, seen, Polling
    <2> DEFINE bk == IF own' = own THEN <<>> ELSE <<Book>>
               ac == AudioChanges(own', options')
    <2>2. stream_items' = stream_items \o bk \o ac
      BY <1>5 DEF SetMutes
    <2>3. heard.connected /\ stream_items \in Seq(LiveItem)
      BY <2>1 DEF ConnectedInv
    <2>4. bk \in Seq(LiveItem)
      <3>1. Book \in LiveItem
        BY ItemTypes, LiveTypes
      <3> QED
        BY <3>1
    <2>5. ac \in Seq(LiveItem)
      <3>1. ac \in Seq(AudioItem) /\ AudioItem \subseteq LiveItem
        BY AudioTypes, LiveTypes
      <3> HIDE DEF ac
      <3> QED
        BY <3>1, SeqMonotonic
    <2> HIDE DEF bk, ac
    <2>6. stream_items' \in Seq(LiveItem)
      BY <2>2, <2>3, <2>4, <2>5, ConcatProperties
    <2> QED
      BY <2>1, <2>3, <2>6 DEF ConnectedInv
  <1> QED
    BY <1>1, <1>2, <1>3, <1>4, <1>5 DEF User

\* A lost connection is told, or will be by an item that waits.
LEMMA ConnectedGiveUp ==
    ASSUME heard \in Heard, NEW items \in Seq(Item), GiveUp, Return(items \o <<Disconnected>>)
    PROVE  ConnectedInv'
  <1> DEFINE d == Disconnected
             all == items \o <<d>>
  <1>1. state' # "connected"
    BY DEF GiveUp, Connecting
  <1>2. d \in Item /\ d # Book
    BY ItemTypes, LiveTypes DEF Item
  <1>3. Return(all)
    OBVIOUS
  <1> HIDE DEF d
  <1>4. all \in Seq(Item) /\ Len(all) = Len(items) + 1 /\ all # <<>> /\ all[Len(items) + 1] = d
    BY <1>2
  <1>5. stream_items' = Tail(all) /\ heard' = Learn(heard, Head(all))
    BY <1>3, <1>4 DEF Return
  <1>6. CASE items = <<>>
    <2>1. Head(all) = d
      BY <1>4, <1>6
    <2> QED
      BY <1>1, <1>2, <1>5, <2>1, LearnConnected DEF ConnectedInv, d
  <1>7. CASE items # <<>>
    <2>1. Len(items) \in DOMAIN Tail(all) /\ Tail(all)[Len(items)] = d
      BY <1>4, <1>7
    <2> QED
      BY <1>1, <1>5, <2>1 DEF ConnectedInv, d
  <1> QED
    BY <1>6, <1>7

\* What a connection returns that is not a command.
LEMMA ConnectedPollItem == ASSUME IInv, ConnectedInv, PollItem PROVE ConnectedInv'
  <1>1. CASE PollTimeout
    <2>1. CASE resender = "connected"
      <3>1. GiveUp /\ Return(<<Disconnected>>) /\ heard \in Heard
        BY <1>1, <2>1, Parts DEF PollTimeout, PollConnected
      <3>2. <<>> \o <<Disconnected>> = <<Disconnected>> /\ <<>> \in Seq(Item)
        <4> DEFINE d == <<Disconnected>>
        <4>1. d \in Seq(Item)
          BY SmallItems
        <4> HIDE DEF d
        <4>2. <<>> \o d = d
          BY <4>1
        <4> QED
          BY <4>2, SmallItems DEF d
      <3> QED
        BY <3>1, <3>2, ConnectedGiveUp
    <2>2. CASE resender # "connected"
      BY <1>1, <2>2, ConnectedQuiet DEF PollTimeout, PollConnected, End, Polling
    <2> QED
      BY <2>1, <2>2
  <1>2. CASE PollError
    BY <1>2, ConnectedQuiet DEF PollError, PollConnected, End, Polling
  <1>3. CASE PollEnd
    BY <1>3, ConnectedQuiet DEF PollEnd, PollConnected, End, Polling
  <1>4. CASE PollStats
    <2> DEFINE i == Plain("stats")
    <2>1. Return(<<i>>) /\ stream_items = <<>> /\ UNCHANGED <<state, ended>>
      BY <1>4 DEF PollStats, PollConnected
    <2>2. i \in LiveItem /\ i # Book
      BY LiveTypes
    <2> HIDE DEF i
    <2> QED
      BY <2>1, <2>2, ConnectedQuietItem
  <1>5. ASSUME NEW e \in BOOLEAN, NEW u \in BOOLEAN, PollAudio(e, u) PROVE ConnectedInv'
    <2> DEFINE i == Plain("audio")
    <2>1. Return(<<i>>) /\ stream_items = <<>> /\ UNCHANGED <<state, ended>>
      BY <1>5 DEF PollAudio, PollConnected
    <2>2. i \in LiveItem /\ i # Book
      BY LiveTypes
    <2> HIDE DEF i
    <2> QED
      BY <2>1, <2>2, ConnectedQuietItem
  <1>6. ASSUME NEW n \in DOMAIN con.transfers, NEW ok \in BOOLEAN, PollTransfer(n, ok)
        PROVE  ConnectedInv'
    <2> DEFINE i == Answer("transfer", con.transfers[n], ok)
    <2>1. Return(<<i>>) /\ stream_items = <<>> /\ UNCHANGED <<state, ended>>
      BY <1>6 DEF PollTransfer, PollConnected
    <2>2. con.transfers[n] \in Codes
      BY Parts DEF ConType
    <2>3. i \in AnswerItem
      BY <2>2, ItemTypes
    <2> HIDE DEF i
    <2>4. i \in LiveItem /\ i # Book
      BY <2>3, LiveTypes
    <2> QED
      BY <2>1, <2>4, ConnectedQuietItem
  <1> QED
    BY <1>1, <1>2, <1>3, <1>4, <1>5, <1>6 DEF PollItem

\* A handled command: its items and the audio events, none of them a loss.
LEMMA ConnectedReturn ==
    ASSUME IInv, ConnectedInv, PollConnected, state' = state, NEW items \in QuietItems,
           NEW me, NEW opts, Return(items \o AudioChanges(me, opts))
    PROVE  ConnectedInv'
  <1> DEFINE ac == AudioChanges(me, opts)
  <1>1. items \in Seq(LiveItem)
    <2>1. ASSUME NEW i \in AnswerItem \cup BookItem \cup {Plain("message")}, items = <<i>>
          PROVE  items \in Seq(LiveItem)
      <3>1. i \in LiveItem
        BY LiveTypes
      <3> QED
        BY <2>1, <3>1
    <2>2. CASE items = <<>>
      BY <2>2
    <2> QED
      BY <2>1, <2>2 DEF QuietItems
  <1>2. ac \in Seq(AudioItem) /\ AudioItem \subseteq LiveItem
    BY AudioTypes, LiveTypes
  <1> DEFINE all == items \o ac
  <1>3. Return(all)
    OBVIOUS
  <1> HIDE DEF ac
  <1>4. all \in Seq(LiveItem)
    BY <1>1, <1>2, SeqMonotonic, ConcatProperties
  <1> HIDE DEF all
  <1> QED
    BY <1>3, <1>4, ConnectedStays DEF PollConnected, Polling

\* handle_command, except for the own client leaving.
LEMMA ConnectedHandle ==
    ASSUME IInv, ConnectedInv,
           \/ HandleResult \/ HandleTransferStart \/ HandleTransferStatus
           \/ HandleInfoRequest \/ HandleEnter \/ HandleUpdated \/ HandleMoved
           \/ HandleChannelCreated \/ HandleOther
    PROVE  ConnectedInv'
  <1> DEFINE c == Head(s2c)
             msg == <<Plain("message")>>
  <1>1. <<>> \in QuietItems /\ <<Book>> \in QuietItems /\ msg \in QuietItems
        /\ \A i \in AnswerItem : <<i>> \in QuietItems
    BY ItemTypes DEF QuietItems
  <1>2. ASSUME PollConnected, NEW items \in QuietItems, Handled(items) PROVE ConnectedInv'
    BY <1>2, ConnectedReturn DEF Handled
  <1>3. CASE HandleResult
    <2>1. c \in ToClient /\ c.kind = "result" /\ PollConnected
      BY <1>3, CommandTypes DEF HandleResult, Receiving
    <2>2. c.code \in 0 .. CodeCount /\ c.ok \in BOOLEAN
      BY <2>1 DEF ToClient
    <2> DEFINE i == Answer("result", c.code, c.ok)
               items == IF c.code = NoCode THEN msg ELSE <<i>>
    <2>3. c.code # NoCode => c.code \in Codes
      BY <2>2, ClientAssumption DEF NoCode, Codes
    <2>4. c.code # NoCode => i \in AnswerItem
      BY <2>2, <2>3, ItemTypes
    <2>5. Handled(items)
      BY <1>3 DEF HandleResult
    <2> HIDE DEF i, msg
    <2>6. items \in QuietItems
      BY <1>1, <2>4
    <2> HIDE DEF items
    <2> QED
      BY <1>2, <2>1, <2>5, <2>6
  <1>4. CASE HandleTransferStart
    BY <1>1, <1>2, <1>4 DEF HandleTransferStart, Receiving, Arrived
  <1>5. CASE HandleTransferStatus
    <2>1. c \in ToClient /\ c.kind = "status" /\ PollConnected
      BY <1>5, CommandTypes DEF HandleTransferStatus, Receiving
    <2>2. c.id \in Codes
      BY <2>1 DEF ToClient
    <2> DEFINE i == Answer("transfer", c.id, FALSE)
    <2>3. i \in AnswerItem /\ Handled(<<i>>)
      BY <1>5, <2>2, ItemTypes DEF HandleTransferStatus
    <2> HIDE DEF i
    <2> QED
      BY <1>1, <1>2, <2>1, <2>3
  <1>6. CASE HandleInfoRequest
    BY <1>1, <1>2, <1>6 DEF HandleInfoRequest, Receiving, Arrived
  <1>7. CASE HandleEnter
    BY <1>1, <1>2, <1>7 DEF HandleEnter, Receiving, Arrived
  <1>8. CASE HandleUpdated
    <2> DEFINE items == IF own = {} THEN msg
                        ELSE IF \A x \in own : x.mutes = c.mutes THEN <<>>
                        ELSE <<Book>>
    <2>1. Handled(items) /\ PollConnected
      BY <1>8 DEF HandleUpdated, Receiving, Arrived
    <2> HIDE DEF msg
    <2>2. items \in QuietItems
      BY <1>1
    <2> HIDE DEF items
    <2> QED
      BY <1>2, <2>1, <2>2
  <1>9. CASE HandleMoved
    <2> DEFINE items == IF own = {} THEN msg ELSE IF own' = own THEN <<>> ELSE <<Book>>
    <2>1. Handled(items) /\ PollConnected
      BY <1>9 DEF HandleMoved, Receiving, Arrived
    <2> HIDE DEF msg
    <2>2. items \in QuietItems
      BY <1>1
    <2> HIDE DEF items
    <2> QED
      BY <1>2, <2>1, <2>2
  <1>10. CASE HandleChannelCreated
    BY <1>1, <1>2, <1>10 DEF HandleChannelCreated, Receiving, Arrived
  <1>11. CASE HandleOther
    BY <1>1, <1>2, <1>11 DEF HandleOther, Receiving, Arrived
  <1> QED
    BY <1>3, <1>4, <1>5, <1>6, <1>7, <1>8, <1>9, <1>10, <1>11

\* The own client leaves.
LEMMA ConnectedLeft == ASSUME IInv, ConnectedInv, HandleLeft PROVE ConnectedInv'
  <1>1. PollConnected /\ heard \in Heard
    BY Parts DEF HandleLeft, Arrived
  <1>2. CASE Head(s2c).stop
    <2> DEFINE b == IF own = {} THEN <<>> ELSE <<Book>>
               as == AudioStops
               items == b \o as
    <2>1. GiveUp /\ Return(items \o <<Disconnected>>)
      BY <1>2 DEF HandleLeft, ServerStopItems
    <2>2. b \in Seq(Item) /\ as \in Seq(AudioItem)
      BY SmallItems, AudioTypes
    <2> HIDE DEF b, as
    <2>3. as \in Seq(Item)
      BY <2>2, SeqMonotonic DEF Item
    <2>4. items \in Seq(Item)
      BY <2>2, <2>3, ConcatProperties
    <2> HIDE DEF items
    <2> QED
      BY <1>1, <2>1, <2>4, ConnectedGiveUp
  <1>3. CASE ~Head(s2c).stop
    <2> DEFINE items == IF own = {} THEN <<Plain("message")>> ELSE <<Book>>
    <2>1. state' = state /\ Return(items \o AudioChanges({}, options))
      BY <1>3 DEF HandleLeft
    <2>2. items \in QuietItems
      BY ItemTypes DEF QuietItems
    <2> HIDE DEF items
    <2> QED
      BY <1>1, <2>1, <2>2, ConnectedReturn
  <1> QED
    BY <1>2, <1>3

\* Every step tells the user what becomes of the connection.
LEMMA ConnectedNext == ASSUME IInv, ConnectedInv, [Next]_vars PROVE ConnectedInv'
  <1>1. CASE Poll
    BY <1>1, ConnectedWaiting, ConnectedConnecting, ConnectedConnect, ConnectedHandle,
       ConnectedLeft, ConnectedPollItem DEF Poll, ConnectStep, HandleCommand
  <1>2. CASE Server
    <2>1. UNCHANGED <<client, seen>>
      <3>1. CASE ServerShows
        BY <3>1 DEF ServerShows, ServerStep
      <3>2. CASE ServerNews
        BY <3>2 DEF ServerNews, ServerStep
      <3>3. ASSUME NEW ok \in BOOLEAN, ServerAnswer(ok) PROVE UNCHANGED <<client, seen>>
        BY <3>3 DEF ServerAnswer, ServerStep
      <3> QED
        BY <1>2, <3>1, <3>2, <3>3 DEF Server
    <2> QED
      BY <2>1, ConnectedQuiet DEF client, seen
  <1>3. CASE CancelIdentityLevelIncrease
    BY <1>3, ConnectedQuiet DEF CancelIdentityLevelIncrease, seen
  <1>4. CASE UNCHANGED vars
    BY <1>4, ConnectedQuiet DEF vars, client, seen
  <1> QED
    BY <1>1, <1>2, <1>3, <1>4, ConnectedUser DEF Next

\* The state and the items agree: a user who takes BookEvents for the
\* connection (lib.rs:882) and a temporary disconnect for its loss is right
\* once the waiting items are read, whatever order messages, timeouts, calls
\* and restarts of the server (lib.rs:1253-1271) come in.
THEOREM StateIsSound == Spec => []StateSound
  <1>1. Init => ConnectedInv
    BY DEF Init, ConnectedInv
  <1>2. IInv /\ ConnectedInv /\ [Next]_vars => ConnectedInv'
    BY ConnectedNext
  <1>3. IInv /\ ConnectedInv => StateSound
    <2> SUFFICES ASSUME IInv, ConnectedInv, ended = "no"
                 PROVE  ConnectedAfter(stream_items, heard.connected) <=> state = "connected"
      <3>1. ConnectedAfter(stream_items, heard.connected) \in BOOLEAN
        BY Parts DEF ConnectedAfter, Heard
      <3> QED
        BY <3>1 DEF IInv, StateSound, ConnectionTold
    <2>1. CASE state = "connected"
      <3>1. heard.connected /\ stream_items \in Seq(LiveItem)
        BY <2>1 DEF ConnectedInv
      <3>2. \A n \in DOMAIN stream_items : stream_items[n] # Disconnected
        BY <3>1 DEF LiveItem
      <3> QED
        BY <2>1, <3>1, <3>2 DEF ConnectedAfter
    <2>2. CASE state # "connected"
      <3>1. stream_items \in Seq(PlainItem \cup AudioItem)
        BY <2>2 DEF IInv, OwnItems
      <3>2. \A n \in DOMAIN stream_items : stream_items[n] # Book
        <4> SUFFICES ASSUME NEW n \in DOMAIN stream_items PROVE stream_items[n] # Book
          OBVIOUS
        <4>1. stream_items[n] \in PlainItem \cup AudioItem
          BY <3>1
        <4> QED
          BY <4>1 DEF PlainItem, AudioItem, Book
      <3>3. heard.connected => \E n \in DOMAIN stream_items : stream_items[n] = Disconnected
        BY <2>2 DEF ConnectedInv
      <3> QED
        BY <2>2, <3>2, <3>3 DEF ConnectedAfter
    <2> QED
      BY <2>1, <2>2
  <1> QED
    BY <1>1, <1>2, <1>3, ClientInvariant, PTL DEF Spec

-----------------------------------------------------------------------------
(* The connection implements Session.                                      *)

\* The user does not make more calls than there are handles.  Beyond that a
\* handle would repeat while its first use waits, and one answer would not
\* tell which of the two it is for.
HandlesSuffice == MaxOps <= CodeCount

\* The handles that a command answers or will be answered by.
HandlesOf(c) ==
  (IF "code" \in DOMAIN c /\ c.code # NoCode THEN {<<"result", c.code>>} ELSE {})
    \cup (IF c.kind \in {"transfer", "status"} THEN {<<"transfer", c.id>>} ELSE {})

OfCommands(s) == [n \in DOMAIN s |-> HandlesOf(s[n])]
OfTransfers(s) == [n \in DOMAIN s |-> {<<"transfer", s[n]>>}]

All(q) == UNION {q[n] : n \in DOMAIN q}
Apart(q) == \A m, n \in DOMAIN q : m # n => q[m] \cap q[n] = {}

AtServer == OfCommands(c2s)
AtClient == OfCommands(s2c)
Loading == OfTransfers(con.transfers)
Outstanding == All(AtServer) \cup All(AtClient) \cup All(Loading)

\* Every handle is in one place only.
OnePlace ==
  /\ Apart(AtServer) /\ Apart(AtClient) /\ Apart(Loading)
  /\ All(AtServer) \cap All(AtClient) = {}
  /\ All(AtServer) \cap All(Loading) = {}
  /\ All(AtClient) \cap All(Loading) = {}

\* The next handle was never given out on this connection.
NextIsNew ==
  ops > 0 => /\ con.code <= MaxOps - ops /\ con.transfer <= MaxOps - ops
             /\ \A c \in Codes : /\ <<"result", c>> \in Outstanding => c < con.code
                                 /\ <<"transfer", c>> \in Outstanding => c < con.transfer

SessionInv == OnePlace /\ NextIsNew /\ ops \in Nat /\ ops <= MaxOps

\* A queue of sets of handles that grows.
LEMMA MoreHandles ==
    ASSUME NEW S, NEW q \in Seq(S), NEW h \in S
    PROVE  /\ All(Append(q, h)) = All(q) \cup h
           /\ Apart(q) /\ h \cap All(q) = {} => Apart(Append(q, h))
  <1> DEFINE p == Append(q, h)
  <1>1. /\ DOMAIN p = 1 .. (Len(q) + 1) /\ DOMAIN q = 1 .. Len(q) /\ Len(q) \in Nat
        /\ p[Len(q) + 1] = h /\ \A n \in DOMAIN q : p[n] = q[n]
    OBVIOUS
  <1> HIDE DEF p
  <1>2. \A n \in DOMAIN p : n \in DOMAIN q \/ n = Len(q) + 1
    BY <1>1
  <1>3. All(p) = All(q) \cup h
    <2>1. ASSUME NEW x \in All(p) PROVE x \in All(q) \cup h
      <3>1. PICK n \in DOMAIN p : x \in p[n]
        BY DEF All
      <3>2. CASE n \in DOMAIN q
        BY <1>1, <3>1, <3>2 DEF All
      <3>3. CASE n = Len(q) + 1
        BY <1>1, <3>1, <3>3
      <3> QED
        BY <1>2, <3>2, <3>3
    <2>2. ASSUME NEW x \in All(q) PROVE x \in All(p)
      <3>1. PICK n \in DOMAIN q : x \in q[n]
        BY DEF All
      <3>2. n \in DOMAIN p /\ x \in p[n]
        BY <1>1, <3>1
      <3> QED
        BY <3>2 DEF All
    <2>3. ASSUME NEW x \in h PROVE x \in All(p)
      <3>1. Len(q) + 1 \in DOMAIN p /\ x \in p[Len(q) + 1]
        BY <1>1
      <3> QED
        BY <3>1 DEF All
    <2> QED
      BY <2>1, <2>2, <2>3
  <1>4. ASSUME Apart(q), h \cap All(q) = {} PROVE Apart(p)
    <2> SUFFICES ASSUME NEW m \in DOMAIN p, NEW n \in DOMAIN p, m # n
                 PROVE  p[m] \cap p[n] = {}
      BY DEF Apart
    <2>1. CASE m \in DOMAIN q /\ n \in DOMAIN q
      BY <1>1, <1>4, <2>1 DEF Apart
    <2>2. CASE m \in DOMAIN q /\ n = Len(q) + 1
      <3>1. q[m] \subseteq All(q)
        BY <2>2 DEF All
      <3> QED
        BY <1>1, <1>4, <2>2, <3>1
    <2>3. CASE n \in DOMAIN q /\ m = Len(q) + 1
      <3>1. q[n] \subseteq All(q)
        BY <2>3 DEF All
      <3> QED
        BY <1>1, <1>4, <2>3, <3>1
    <2> QED
      BY <1>2, <2>1, <2>2, <2>3
  <1> QED
    BY <1>3, <1>4 DEF p

\* A sequence without its element i.
LEMMA RemoveFacts ==
    ASSUME NEW S, NEW q \in Seq(S), NEW i \in DOMAIN q
    PROVE  /\ RemoveAt(q, i) \in Seq(S) /\ Len(RemoveAt(q, i)) = Len(q) - 1
           /\ \A n \in 1 .. (Len(q) - 1) : RemoveAt(q, i)[n] = q[IF n < i THEN n ELSE n + 1]
  <1> DEFINE p == RemoveAt(q, i)
             Old(n) == IF n < i THEN n ELSE n + 1
  <1>0. i \in 1 .. Len(q) /\ Len(q) \in Nat /\ DOMAIN q = 1 .. Len(q)
    OBVIOUS
  <1> DEFINE a == SubSeq(q, 1, i - 1)
             b == SubSeq(q, i + 1, Len(q))
  <1>1. a \in Seq(S) /\ Len(a) = i - 1 /\ \A n \in 1 .. (i - 1) : a[n] = q[n]
    BY <1>0
  <1>2. b \in Seq(S) /\ Len(b) = Len(q) - i /\ \A n \in 1 .. (Len(q) - i) : b[n] = q[n + i]
    BY <1>0
  <1>3. p = a \o b
    BY DEF RemoveAt
  <1> HIDE DEF a, b, p
  <1>4. p \in Seq(S) /\ Len(p) = Len(q) - 1
    <2>1. p \in Seq(S) /\ Len(p) = Len(a) + Len(b)
      BY <1>1, <1>2, <1>3, ConcatProperties
    <2> QED
      BY <1>0, <1>1, <1>2, <2>1
  <1>5. ASSUME NEW n \in 1 .. Len(p) PROVE p[n] = q[Old(n)]
    <2>1. CASE n < i
      BY <1>0, <1>1, <1>2, <1>3, <1>4, <2>1
    <2>2. CASE n >= i
      <3>1. p[n] = b[n - Len(a)] /\ n - Len(a) \in 1 .. (Len(q) - i)
        BY <1>0, <1>1, <1>2, <1>3, <1>4, <2>2
      <3>2. b[n - Len(a)] = q[n - Len(a) + i] /\ n - Len(a) + i = n + 1
        BY <1>0, <1>1, <1>2, <3>1
      <3> QED
        BY <1>0, <2>2, <3>1, <3>2
    <2> QED
      BY <1>0, <1>4, <2>1, <2>2
  <1> QED
    BY <1>4, <1>5 DEF p

\* A queue of sets of handles from which one is taken.
LEMMA FewerHandles ==
    ASSUME NEW S, NEW q \in Seq(S), Apart(q), NEW i \in DOMAIN q
    PROVE  /\ All(RemoveAt(q, i)) = All(q) \ q[i]
           /\ Apart(RemoveAt(q, i)) /\ q[i] \subseteq All(q)
           /\ RemoveAt(q, i) \in Seq(S)
  <1> DEFINE p == RemoveAt(q, i)
             Old(n) == IF n < i THEN n ELSE n + 1
  <1>1. i \in 1 .. Len(q) /\ Len(q) \in Nat /\ DOMAIN q = 1 .. Len(q)
    OBVIOUS
  <1>2. p \in Seq(S) /\ Len(p) = Len(q) - 1 /\ \A n \in 1 .. Len(p) : p[n] = q[Old(n)]
    BY <1>1, RemoveFacts
  <1> HIDE DEF p
  <1>3. DOMAIN p = 1 .. (Len(q) - 1) /\ \A n \in DOMAIN p : Old(n) \in DOMAIN q /\ Old(n) # i /\ p[n] = q[Old(n)]
    BY <1>1, <1>2
  <1>4. \A m, n \in DOMAIN p : m # n => Old(m) # Old(n)
    BY <1>1, <1>3
  <1>5. \A n \in DOMAIN q : n # i => \E m \in DOMAIN p : Old(m) = n
    <2> SUFFICES ASSUME NEW n \in DOMAIN q, n # i PROVE \E m \in DOMAIN p : Old(m) = n
      OBVIOUS
    <2>1. CASE n < i
      BY <1>1, <1>3, <2>1
    <2>2. CASE n > i
      <3>1. n - 1 \in DOMAIN p /\ Old(n - 1) = n
        BY <1>1, <1>3, <2>2
      <3> QED
        BY <3>1
    <2> QED
      BY <1>1, <2>1, <2>2
  <1>6. q[i] \subseteq All(q)
    BY DEF All
  <1> HIDE DEF Old
  <1>7. Apart(p)
    BY <1>3, <1>4 DEF Apart
  <1>8. All(p) = All(q) \ q[i]
    <2>1. ASSUME NEW x \in All(p) PROVE x \in All(q) /\ x \notin q[i]
      <3>1. PICK n \in DOMAIN p : x \in p[n]
        BY DEF All
      <3>2. Old(n) \in DOMAIN q /\ Old(n) # i /\ x \in q[Old(n)]
        BY <1>3, <3>1
      <3>3. q[Old(n)] \cap q[i] = {}
        BY <3>2 DEF Apart
      <3> QED
        BY <3>2, <3>3 DEF All
    <2>2. ASSUME NEW x \in All(q), x \notin q[i] PROVE x \in All(p)
      <3>1. PICK n \in DOMAIN q : x \in q[n]
        BY DEF All
      <3>2. n # i
        BY <2>2, <3>1
      <3>3. PICK m \in DOMAIN p : Old(m) = n
        BY <1>5, <3>2
      <3>4. x \in p[m]
        BY <1>3, <3>1, <3>3
      <3> QED
        BY <3>4 DEF All
    <2> QED
      BY <2>1, <2>2
  <1> QED
    BY <1>2, <1>6, <1>7, <1>8 DEF p

\* The first is taken.
LEMMA FirstHandles ==
    ASSUME NEW S, NEW q \in Seq(S), Apart(q), q # <<>>
    PROVE  All(Tail(q)) = All(q) \ Head(q) /\ Apart(Tail(q)) /\ Head(q) \subseteq All(q)
  <1>1. 1 \in DOMAIN q /\ Head(q) = q[1]
    OBVIOUS
  <1>2. Tail(q) = RemoveAt(q, 1)
    <2> DEFINE b == SubSeq(q, 2, Len(q))
    <2>1. Tail(q) = b /\ b \in Seq(S)
      BY TailIsSubSeq
    <2>2. SubSeq(q, 1, 0) = <<>>
      BY SubSeqEmpty
    <2>3. RemoveAt(q, 1) = SubSeq(q, 1, 0) \o b
      BY DEF RemoveAt
    <2> HIDE DEF b
    <2>4. <<>> \o b = b
      BY <2>1
    <2> QED
      BY <2>1, <2>2, <2>3, <2>4
  <1> QED
    BY <1>1, <1>2, FewerHandles

\* The handles of a queue of commands.
LEMMA CommandQueue ==
    ASSUME NEW S, NEW s \in Seq(S)
    PROVE  /\ OfCommands(s) \in Seq({HandlesOf(x) : x \in S}) /\ Len(OfCommands(s)) = Len(s)
           /\ \A n \in 1 .. Len(s) : OfCommands(s)[n] = HandlesOf(s[n])
  <1> DEFINE T == {HandlesOf(x) : x \in S}
             q == OfCommands(s)
  <1>1. \A n \in 1 .. Len(s) : HandlesOf(s[n]) \in T
    OBVIOUS
  <1>2. q = [n \in 1 .. Len(s) |-> HandlesOf(s[n])]
    BY DEF OfCommands
  <1> HIDE DEF T, q
  <1>3. q \in [1 .. Len(s) -> T]
    BY <1>1, <1>2
  <1>4. q \in Seq(T)
    BY <1>3, IsASeq
  <1> QED
    BY <1>2, <1>4 DEF q, T

\* It follows the queue.
LEMMA CommandQueues ==
    ASSUME NEW S, NEW s \in Seq(S), NEW c \in S
    PROVE  /\ OfCommands(Append(s, c)) = Append(OfCommands(s), HandlesOf(c))
           /\ s # <<>> => /\ OfCommands(s) # <<>>
                          /\ OfCommands(Tail(s)) = Tail(OfCommands(s))
                          /\ Head(OfCommands(s)) = HandlesOf(Head(s))
  <1> DEFINE T == {HandlesOf(x) : x \in S}
             q == OfCommands(s)
  <1>1. q \in Seq(T) /\ Len(q) = Len(s) /\ \A n \in 1 .. Len(s) : q[n] = HandlesOf(s[n])
    BY CommandQueue
  <1>2. OfCommands(Append(s, c)) = Append(q, HandlesOf(c))
    <2> DEFINE a == Append(s, c)
               h == HandlesOf(c)
               oa == OfCommands(a)
               ah == Append(q, h)
    <2>1. a \in Seq(S) /\ Len(a) = Len(s) + 1 /\ a[Len(s) + 1] = c
          /\ \A n \in 1 .. Len(s) : a[n] = s[n]
      OBVIOUS
    <2>2. h \in T
      OBVIOUS
    <2> HIDE DEF a
    <2>3. oa \in Seq(T) /\ Len(oa) = Len(s) + 1 /\ \A n \in 1 .. (Len(s) + 1) : oa[n] = HandlesOf(a[n])
      BY <2>1, CommandQueue
    <2> HIDE DEF h, T, q
    <2>4. ah \in Seq(T) /\ Len(ah) = Len(s) + 1 /\ ah[Len(s) + 1] = h
          /\ \A n \in 1 .. Len(s) : ah[n] = q[n]
      BY <1>1, <2>2
    <2> HIDE DEF oa, ah
    <2>5. \A n \in 1 .. (Len(s) + 1) : oa[n] = ah[n]
      <3> TAKE n \in 1 .. (Len(s) + 1)
      <3>1. CASE n <= Len(s)
        BY <1>1, <2>1, <2>3, <2>4, <3>1
      <3>2. CASE n = Len(s) + 1
        BY <2>1, <2>3, <2>4, <3>2 DEF h
      <3> QED
        BY <3>1, <3>2
    <2>6. oa = ah
      BY <2>3, <2>4, <2>5, SeqEqual
    <2> QED
      BY <2>6 DEF a, h, oa, ah
  <1>3. ASSUME s # <<>>
        PROVE  q # <<>> /\ OfCommands(Tail(s)) = Tail(q) /\ Head(q) = HandlesOf(Head(s))
    <2> DEFINE a == Tail(s)
               oa == OfCommands(a)
               tq == Tail(q)
    <2>1. a \in Seq(S) /\ Len(a) = Len(s) - 1 /\ \A n \in 1 .. (Len(s) - 1) : a[n] = s[n + 1]
      BY <1>3
    <2> HIDE DEF a
    <2>2. oa \in Seq(T) /\ Len(oa) = Len(s) - 1 /\ \A n \in 1 .. (Len(s) - 1) : oa[n] = HandlesOf(a[n])
      BY <2>1, CommandQueue
    <2> HIDE DEF T, q
    <2>3. Len(s) >= 1 /\ q # <<>> /\ Head(q) = q[1] /\ Head(s) = s[1]
      BY <1>1, <1>3
    <2>4. tq \in Seq(T) /\ Len(tq) = Len(s) - 1 /\ \A n \in 1 .. (Len(s) - 1) : tq[n] = q[n + 1]
      BY <1>1, <2>3
    <2> HIDE DEF oa, tq
    <2>5. \A n \in 1 .. (Len(s) - 1) : oa[n] = tq[n]
      BY <1>1, <2>1, <2>2, <2>3, <2>4
    <2>6. oa = tq
      BY <2>2, <2>4, <2>5, SeqEqual
    <2>7. Head(q) = HandlesOf(Head(s))
      BY <1>1, <2>3
    <2> QED
      BY <2>3, <2>6, <2>7 DEF a, oa, tq
  <1> QED
    BY <1>2, <1>3

\* The handles of the transfers.
LEMMA TransferQueue ==
    ASSUME NEW s \in Seq(Codes)
    PROVE  /\ OfTransfers(s) \in Seq(SUBSET ({"transfer"} \X Codes)) /\ Len(OfTransfers(s)) = Len(s)
           /\ \A n \in 1 .. Len(s) : OfTransfers(s)[n] = {<<"transfer", s[n]>>}
  <1> DEFINE T == SUBSET ({"transfer"} \X Codes)
             q == OfTransfers(s)
  <1>1. \A n \in 1 .. Len(s) : {<<"transfer", s[n]>>} \in T
    OBVIOUS
  <1>2. q = [n \in 1 .. Len(s) |-> {<<"transfer", s[n]>>}]
    BY DEF OfTransfers
  <1> HIDE DEF T, q
  <1>3. q \in [1 .. Len(s) -> T]
    BY <1>1, <1>2
  <1>4. q \in Seq(T)
    BY <1>3, IsASeq
  <1> QED
    BY <1>2, <1>4 DEF q, T

\* They follow the transfers.
LEMMA TransferQueues ==
    ASSUME NEW s \in Seq(Codes)
    PROVE  /\ \A id \in Codes :
                OfTransfers(Append(s, id)) = Append(OfTransfers(s), {<<"transfer", id>>})
           /\ DOMAIN OfTransfers(s) = DOMAIN s
           /\ \A i \in DOMAIN s : /\ OfTransfers(s)[i] = {<<"transfer", s[i]>>}
                                  /\ OfTransfers(RemoveAt(s, i)) = RemoveAt(OfTransfers(s), i)
  <1> DEFINE T == SUBSET ({"transfer"} \X Codes)
             q == OfTransfers(s)
  <1>1. q \in Seq(T) /\ Len(q) = Len(s) /\ \A n \in 1 .. Len(s) : q[n] = {<<"transfer", s[n]>>}
    BY TransferQueue
  <1>2. DOMAIN q = DOMAIN s /\ DOMAIN s = 1 .. Len(s) /\ Len(s) \in Nat
    <2> HIDE DEF T, q
    <2> QED
      BY <1>1
  <1>3. ASSUME NEW id \in Codes PROVE OfTransfers(Append(s, id)) = Append(q, {<<"transfer", id>>})
    <2> DEFINE a == Append(s, id)
               h == {<<"transfer", id>>}
               oa == OfTransfers(a)
               ah == Append(q, h)
    <2>1. a \in Seq(Codes) /\ Len(a) = Len(s) + 1 /\ a[Len(s) + 1] = id
          /\ \A n \in 1 .. Len(s) : a[n] = s[n]
      OBVIOUS
    <2>2. h \in T
      OBVIOUS
    <2> HIDE DEF a
    <2>3. oa \in Seq(T) /\ Len(oa) = Len(s) + 1
          /\ \A n \in 1 .. (Len(s) + 1) : oa[n] = {<<"transfer", a[n]>>}
      BY <2>1, TransferQueue
    <2> HIDE DEF h, T, q
    <2>4. ah \in Seq(T) /\ Len(ah) = Len(s) + 1 /\ ah[Len(s) + 1] = h
          /\ \A n \in 1 .. Len(s) : ah[n] = q[n]
      BY <1>1, <2>2
    <2> HIDE DEF oa, ah
    <2>5. \A n \in 1 .. (Len(s) + 1) : oa[n] = ah[n]
      <3> TAKE n \in 1 .. (Len(s) + 1)
      <3>1. CASE n <= Len(s)
        <4>1. n \in 1 .. Len(s)
          BY <1>2, <3>1
        <4>2. ah[n] = {<<"transfer", s[n]>>} /\ a[n] = s[n] /\ oa[n] = {<<"transfer", a[n]>>}
          BY <1>1, <2>1, <2>3, <2>4, <4>1
        <4> QED
          BY <4>2
      <3>2. CASE n = Len(s) + 1
        BY <2>1, <2>3, <2>4, <3>2 DEF h
      <3> QED
        BY <3>1, <3>2
    <2>6. oa = ah
      BY <2>3, <2>4, <2>5, SeqEqual
    <2> QED
      BY <2>6 DEF a, h, oa, ah
  <1>4. ASSUME NEW i \in DOMAIN s PROVE OfTransfers(RemoveAt(s, i)) = RemoveAt(q, i)
    <2> DEFINE a == RemoveAt(s, i)
               oa == OfTransfers(a)
               ra == RemoveAt(q, i)
               Old(n) == IF n < i THEN n ELSE n + 1
    <2>1. a \in Seq(Codes) /\ Len(a) = Len(s) - 1 /\ \A n \in 1 .. (Len(s) - 1) : a[n] = s[Old(n)]
      BY RemoveFacts
    <2> HIDE DEF a
    <2>2. oa \in Seq(T) /\ Len(oa) = Len(s) - 1
          /\ \A n \in 1 .. (Len(s) - 1) : oa[n] = {<<"transfer", a[n]>>}
      BY <2>1, TransferQueue
    <2>3. i \in DOMAIN q
      BY <1>2
    <2> HIDE DEF T, q
    <2>4. ra \in Seq(T) /\ Len(ra) = Len(s) - 1 /\ \A n \in 1 .. (Len(s) - 1) : ra[n] = q[Old(n)]
      BY <1>1, <2>3, RemoveFacts
    <2>5. \A n \in 1 .. (Len(s) - 1) : Old(n) \in 1 .. Len(s)
      BY <1>2
    <2> HIDE DEF oa, ra, Old
    <2>6. \A n \in 1 .. (Len(s) - 1) : oa[n] = ra[n]
      BY <1>1, <2>1, <2>2, <2>4, <2>5
    <2>7. oa = ra
      BY <2>2, <2>4, <2>6, SeqEqual
    <2> QED
      BY <2>7 DEF a, oa, ra
  <1> QED
    BY <1>1, <1>2, <1>3, <1>4

\* Which handles a command has.
LEMMA ServerCommandHandles ==
    ASSUME NEW c \in ToServer
    PROVE  /\ c.kind \in {"plain", "mutes"} =>
                HandlesOf(c) = IF c.code = NoCode THEN {} ELSE {<<"result", c.code>>}
           /\ c.kind = "transfer" =>
                HandlesOf(c) = {<<"result", c.code>>, <<"transfer", c.id>>} /\ c.code # NoCode
           /\ c.kind \in {"disconnect", "info", "subscribe"} => HandlesOf(c) = {}
  <1>1. CASE c \in [kind : {"plain"}, code : 0 .. CodeCount]
    <2>1. "code" \in DOMAIN c /\ c.kind = "plain"
      BY <1>1
    <2> QED
      BY <2>1 DEF HandlesOf
  <1>2. CASE c \in [kind : {"mutes"}, mutes : SUBSET Mutes, code : Codes]
    <2>1. "code" \in DOMAIN c /\ c.kind = "mutes"
      BY <1>2
    <2> QED
      BY <2>1 DEF HandlesOf
  <1>3. CASE c \in [kind : {"transfer"}, id : Codes, code : Codes]
    <2>1. "code" \in DOMAIN c /\ c.kind = "transfer" /\ c.code \in Codes
      BY <1>3
    <2>2. c.code # NoCode
      BY <2>1, ClientAssumption DEF Codes, NoCode
    <2> QED
      BY <2>1, <2>2 DEF HandlesOf
  <1>4. CASE c \in [kind : {"disconnect", "info", "subscribe"}]
    <2>1. "code" \notin DOMAIN c /\ c.kind \in {"disconnect", "info", "subscribe"}
      BY <1>4
    <2> QED
      BY <2>1 DEF HandlesOf
  <1> QED
    BY <1>1, <1>2, <1>3, <1>4 DEF ToServer

\* The same for the commands of the server.
LEMMA ClientCommandHandles ==
    ASSUME NEW c \in ToClient
    PROVE  /\ c.kind = "result" =>
                HandlesOf(c) = IF c.code = NoCode THEN {} ELSE {<<"result", c.code>>}
           /\ c.kind \in {"transfer", "status"} => HandlesOf(c) = {<<"transfer", c.id>>}
           /\ c.kind \in {"updated", "left", "enter", "moved", "other", "channel", "inforequest"} =>
                HandlesOf(c) = {}
  <1>1. CASE c \in [kind : {"result"}, code : 0 .. CodeCount, ok : BOOLEAN]
    <2>1. "code" \in DOMAIN c /\ c.kind = "result"
      BY <1>1
    <2> QED
      BY <2>1 DEF HandlesOf
  <1>2. CASE c \in [kind : {"transfer", "status"}, id : Codes]
    <2>1. "code" \notin DOMAIN c /\ c.kind \in {"transfer", "status"}
      BY <1>2
    <2> QED
      BY <2>1 DEF HandlesOf
  <1>3. CASE c \in [kind : {"updated"}, mutes : SUBSET Mutes] \cup [kind : {"left"}, stop : BOOLEAN]
    <2>1. "code" \notin DOMAIN c /\ c.kind \in {"updated", "left"}
      BY <1>3
    <2> QED
      BY <2>1 DEF HandlesOf
  <1>4. CASE c \in [kind : {"enter"}, mutes : SUBSET Mutes, channel : Channels]
                     \cup [kind : {"moved"}, channel : Channels]
    <2>1. "code" \notin DOMAIN c /\ c.kind \in {"enter", "moved"}
      BY <1>4
    <2> QED
      BY <2>1 DEF HandlesOf
  <1>5. CASE c \in [kind : {"other", "channel", "inforequest"}]
    <2>1. "code" \notin DOMAIN c /\ c.kind \in {"other", "channel", "inforequest"}
      BY <1>5
    <2> QED
      BY <2>1 DEF HandlesOf
  <1> QED
    BY <1>1, <1>2, <1>3, <1>4, <1>5 DEF ToClient

\* The handles without an answer, by the place where they are.
LEMMA UnansweredIs ==
    ASSUME IInv
    PROVE  Unanswered = IF state # "connected" \/ ended # "no" THEN {} ELSE Outstanding
  <1> DEFINE R == Results(OnTheWay)
             T == TransfersOn(OnTheWay)
             L == {<<"transfer", id>> : id \in Range(con.transfers)}
             I == {<<i.kind, i.id>> : i \in {i \in Range(stream_items) : i.kind \in {"result", "transfer"}}}
  <1>1. I = {}
    <2>1. ASSUME NEW n \in DOMAIN stream_items PROVE stream_items[n].kind \notin {"result", "transfer"}
      <3>1. stream_items[n] \in WaitingItem
        BY Parts
      <3> QED
        BY <3>1 DEF WaitingItem, PlainItem, BookItem, AudioItem
    <2> QED
      BY <2>1 DEF Range
  <1>2. L = All(Loading)
    <2>1. con.transfers \in Seq(Codes)
      BY Parts DEF ConType
    <2>2. ASSUME NEW h PROVE h \in All(Loading) <=> \E n \in DOMAIN con.transfers : h = <<"transfer", con.transfers[n]>>
      BY DEF All, Loading, OfTransfers
    <2>3. ASSUME NEW h PROVE h \in L <=> \E n \in DOMAIN con.transfers : h = <<"transfer", con.transfers[n]>>
      BY DEF Range
    <2> QED
      BY <2>2, <2>3
  <1>3. R \cup T = All(AtServer) \cup All(AtClient)
    <2> DEFINE Has(c, h) == \/ "code" \in DOMAIN c /\ c.code # NoCode /\ h = <<"result", c.code>>
                            \/ c.kind \in {"transfer", "status"} /\ h = <<"transfer", c.id>>
    <2>1. ASSUME NEW h PROVE h \in R \cup T <=> \E c \in OnTheWay : Has(c, h)
      BY DEF Results, TransfersOn
    <2>2. ASSUME NEW c, NEW h PROVE h \in HandlesOf(c) <=> Has(c, h)
      BY DEF HandlesOf
    <2> HIDE DEF Has, R, T
    <2>3. ASSUME NEW h PROVE h \in All(AtServer) <=> \E n \in DOMAIN c2s : Has(c2s[n], h)
      BY <2>2 DEF All, AtServer, OfCommands
    <2>4. ASSUME NEW h PROVE h \in All(AtClient) <=> \E n \in DOMAIN s2c : Has(s2c[n], h)
      BY <2>2 DEF All, AtClient, OfCommands
    <2>5. ASSUME NEW h
          PROVE  (\E c \in OnTheWay : Has(c, h)) <=>
                   (\E n \in DOMAIN c2s : Has(c2s[n], h)) \/ (\E n \in DOMAIN s2c : Has(s2c[n], h))
      BY DEF OnTheWay, Range
    <2> QED
      BY <2>1, <2>3, <2>4, <2>5
  <1> HIDE DEF R, T, L, I
  <1>4. Unanswered = IF state # "connected" \/ ended # "no" THEN {} ELSE R \cup T \cup L \cup I
    BY DEF Unanswered, R, T, L, I
  <1> QED
    BY <1>1, <1>2, <1>3, <1>4 DEF Outstanding

\* Nothing happens to the commands and transfers.
LEMMA SessionQuiet ==
    ASSUME SessionInv, UNCHANGED <<c2s, s2c, con, ops>>
    PROVE  SessionInv' /\ Outstanding' = Outstanding
  BY DEF SessionInv, OnePlace, NextIsNew, Outstanding, AtServer, AtClient, Loading

\* A connection begins with no handle.
LEMMA SessionEmpty ==
    ASSUME c2s = <<>>, s2c = <<>>, con = NewCon, ops \in Nat, ops <= MaxOps
    PROVE  SessionInv /\ Outstanding = {}
  <1>1. con.transfers = <<>> /\ con.code = 0 /\ con.transfer = 0
    BY DEF NewCon
  <1>2. DOMAIN <<>> = {}
    OBVIOUS
  <1>3. DOMAIN AtServer = {} /\ DOMAIN AtClient = {} /\ DOMAIN Loading = {}
    BY <1>1, <1>2 DEF AtServer, AtClient, Loading, OfCommands, OfTransfers
  <1>4. All(AtServer) = {} /\ All(AtClient) = {} /\ All(Loading) = {}
    BY <1>3 DEF All
  <1>5. OnePlace
    BY <1>3, <1>4 DEF OnePlace, Apart
  <1>6. Outstanding = {}
    BY <1>4 DEF Outstanding
  <1> QED
    BY <1>1, <1>5, <1>6, ClientAssumption DEF SessionInv, NextIsNew

\* A command joins its queue, with its handles.
LEMMA QueueGrows ==
    ASSUME NEW S, NEW s \in Seq(S), NEW c \in S, NEW t, t = Append(s, c),
           Apart(OfCommands(s)), HandlesOf(c) \cap All(OfCommands(s)) = {}
    PROVE  All(OfCommands(t)) = All(OfCommands(s)) \cup HandlesOf(c) /\ Apart(OfCommands(t))
  <1> DEFINE T == {HandlesOf(x) : x \in S}
             q == OfCommands(s)
             h == HandlesOf(c)
  <1>1. q \in Seq(T) /\ h \in T
    BY CommandQueue
  <1>2. OfCommands(t) = Append(q, h)
    BY CommandQueues
  <1>3. Apart(q) /\ h \cap All(q) = {}
    OBVIOUS
  <1> HIDE DEF T, q, h
  <1>4. All(Append(q, h)) = All(q) \cup h /\ Apart(Append(q, h))
    BY <1>1, <1>3, MoreHandles
  <1> QED
    BY <1>2, <1>4 DEF q, h

\* The first command leaves its queue, with its handles.
LEMMA QueueShrinks ==
    ASSUME NEW S, NEW s \in Seq(S), s # <<>>, NEW t, t = Tail(s), Apart(OfCommands(s))
    PROVE  /\ All(OfCommands(t)) = All(OfCommands(s)) \ HandlesOf(Head(s)) /\ Apart(OfCommands(t))
           /\ HandlesOf(Head(s)) \subseteq All(OfCommands(s))
  <1> DEFINE T == {HandlesOf(x) : x \in S}
             q == OfCommands(s)
  <1>1. q \in Seq(T)
    BY CommandQueue
  <1>2. Head(s) \in S
    OBVIOUS
  <1>3. q # <<>> /\ OfCommands(t) = Tail(q) /\ Head(q) = HandlesOf(Head(s))
    BY <1>2, CommandQueues
  <1>4. Apart(q)
    OBVIOUS
  <1> HIDE DEF T, q
  <1>5. All(Tail(q)) = All(q) \ Head(q) /\ Apart(Tail(q)) /\ Head(q) \subseteq All(q)
    BY <1>1, <1>3, <1>4, FirstHandles
  <1> QED
    BY <1>3, <1>5 DEF q

\* A transfer joins the list, with its handle.
LEMMA TransfersGrow ==
    ASSUME NEW s \in Seq(Codes), NEW id \in Codes, NEW t, t = Append(s, id),
           Apart(OfTransfers(s)), <<"transfer", id>> \notin All(OfTransfers(s))
    PROVE  All(OfTransfers(t)) = All(OfTransfers(s)) \cup {<<"transfer", id>>} /\ Apart(OfTransfers(t))
  <1> DEFINE T == SUBSET ({"transfer"} \X Codes)
             q == OfTransfers(s)
             h == {<<"transfer", id>>}
  <1>1. q \in Seq(T) /\ h \in T
    BY TransferQueue
  <1>2. OfTransfers(t) = Append(q, h)
    BY TransferQueues
  <1>3. Apart(q) /\ h \cap All(q) = {}
    OBVIOUS
  <1> HIDE DEF T, q, h
  <1>4. All(Append(q, h)) = All(q) \cup h /\ Apart(Append(q, h))
    BY <1>1, <1>3, MoreHandles
  <1> QED
    BY <1>2, <1>4 DEF q, h

\* A transfer leaves the list, with its handle.
LEMMA TransfersShrink ==
    ASSUME NEW s \in Seq(Codes), NEW i \in DOMAIN s, NEW t, t = RemoveAt(s, i), Apart(OfTransfers(s))
    PROVE  /\ All(OfTransfers(t)) = All(OfTransfers(s)) \ {<<"transfer", s[i]>>}
           /\ Apart(OfTransfers(t)) /\ <<"transfer", s[i]>> \in All(OfTransfers(s))
  <1> DEFINE T == SUBSET ({"transfer"} \X Codes)
             q == OfTransfers(s)
  <1>1. q \in Seq(T)
    BY TransferQueue
  <1>2. i \in DOMAIN q /\ q[i] = {<<"transfer", s[i]>>} /\ OfTransfers(t) = RemoveAt(q, i)
    BY TransferQueues
  <1>3. Apart(q)
    OBVIOUS
  <1> HIDE DEF T, q
  <1>4. All(RemoveAt(q, i)) = All(q) \ q[i] /\ Apart(RemoveAt(q, i)) /\ q[i] \subseteq All(q)
    BY <1>1, <1>2, <1>3, FewerHandles
  <1> QED
    BY <1>2, <1>4 DEF q

\* As long as the codes do not wrap the next one is one more.
LEMMA NextCodeIs == ASSUME NEW n \in Codes, n + 1 < CodeCount PROVE NextCode(n) = n + 1
  BY ClientAssumption DEF NextCode, Codes

\* A call of the user takes new handles.
LEMMA SessionUser ==
    ASSUME HandlesSuffice, IInv, SessionInv, UserStep,
           NEW c \in ToServer, c2s' = Append(c2s, c), con'.transfers = con.transfers,
           \/ /\ HandlesOf(c) = {}
              /\ con'.code = con.code /\ con'.transfer = con.transfer
           \/ /\ HandlesOf(c) = {<<"result", con.code>>}
              /\ con'.code = NextCode(con.code) /\ con'.transfer = con.transfer
           \/ /\ HandlesOf(c) = {<<"result", con.code>>, <<"transfer", con.transfer>>}
              /\ con'.code = NextCode(con.code) /\ con'.transfer = NextCode(con.transfer)
    PROVE  SessionInv' /\ Outstanding' = Outstanding \cup HandlesOf(c)
  <1> DEFINE h == HandlesOf(c)
  <1>1. /\ ops \in Nat /\ ops > 0 /\ ops' = ops - 1 /\ ops <= MaxOps /\ MaxOps \in Nat
        /\ MaxOps <= CodeCount /\ CodeCount \in Nat /\ s2c' = s2c
        /\ con.code \in Codes /\ con.transfer \in Codes
    BY ClientAssumption, Parts DEF SessionInv, UserStep, HandlesSuffice, ConType
  <1>2. h \cap Outstanding = {}
    <2>1. \A x \in Codes : /\ <<"result", x>> \in Outstanding => x < con.code
                           /\ <<"transfer", x>> \in Outstanding => x < con.transfer
      BY <1>1 DEF SessionInv, NextIsNew
    <2>2. ~(con.code < con.code) /\ ~(con.transfer < con.transfer)
      BY <1>1 DEF Codes
    <2>3. <<"result", con.code>> \notin Outstanding /\ <<"transfer", con.transfer>> \notin Outstanding
      BY <1>1, <2>1, <2>2
    <2> QED
      BY <2>3
  <1>3. c2s \in Seq(ToServer) /\ OnePlace
    BY Parts DEF SessionInv
  <1> HIDE DEF h
  <1>4. All(AtServer)' = All(AtServer) \cup h /\ Apart(AtServer)'
    <2>1. h \cap All(AtServer) = {} /\ Apart(AtServer)
      BY <1>2, <1>3 DEF Outstanding, OnePlace
    <2> DEFINE t == c2s'
    <2>2. t = Append(c2s, c)
      OBVIOUS
    <2> HIDE DEF t
    <2>3. All(OfCommands(t)) = All(OfCommands(c2s)) \cup HandlesOf(c) /\ Apart(OfCommands(t))
      BY <1>3, <2>1, <2>2, QueueGrows DEF AtServer, h
    <2> QED
      BY <2>3 DEF AtServer, h, t
  <1>5. AtClient' = AtClient /\ Loading' = Loading
    BY <1>1 DEF AtClient, Loading
  <1>6. OnePlace'
    BY <1>2, <1>3, <1>4, <1>5 DEF OnePlace, Outstanding
  <1>7. Outstanding' = Outstanding \cup h
    BY <1>4, <1>5 DEF Outstanding
  <1>8. NextIsNew'
    <2> SUFFICES ASSUME ops' > 0 PROVE NextIsNew'
      BY DEF NextIsNew
    <2>1. /\ con.code <= MaxOps - ops /\ con.transfer <= MaxOps - ops
          /\ \A x \in Codes : /\ <<"result", x>> \in Outstanding => x < con.code
                              /\ <<"transfer", x>> \in Outstanding => x < con.transfer
      BY <1>1 DEF SessionInv, NextIsNew
    <2>2. NextCode(con.code) = con.code + 1 /\ NextCode(con.transfer) = con.transfer + 1
      <3>1. con.code + 1 < CodeCount /\ con.transfer + 1 < CodeCount
        BY <1>1, <2>1 DEF Codes
      <3> QED
        BY <1>1, <3>1, NextCodeIs
    <2>3. con'.code <= MaxOps - ops' /\ con'.transfer <= MaxOps - ops'
      BY <1>1, <2>1, <2>2 DEF Codes
    <2>4. ASSUME NEW x \in Codes
          PROVE  /\ <<"result", x>> \in Outstanding' => x < con'.code
                 /\ <<"transfer", x>> \in Outstanding' => x < con'.transfer
      BY <1>1, <1>7, <2>1, <2>2 DEF Codes, h
    <2> QED
      BY <2>3, <2>4 DEF NextIsNew
  <1> QED
    BY <1>1, <1>6, <1>7, <1>8 DEF SessionInv, h

\* No call, no new handle.
LEMMA SessionKeeps ==
    ASSUME SessionInv, OnePlace', Outstanding' \subseteq Outstanding, ops' = ops,
           con'.code = con.code, con'.transfer = con.transfer
    PROVE  SessionInv'
  BY DEF SessionInv, NextIsNew

\* The server answers a command: its handles change sides.
LEMMA SessionAnswered ==
    ASSUME IInv, SessionInv, con' = con, ops' = ops, c2s # <<>>, c2s' = Tail(c2s),
           All(AtClient)' = All(AtClient) \cup HandlesOf(Head(c2s)), Apart(AtClient)'
    PROVE  SessionInv' /\ Outstanding' = Outstanding
  <1> DEFINE h == HandlesOf(Head(c2s))
  <1>1. c2s \in Seq(ToServer) /\ OnePlace
    BY Parts DEF SessionInv
  <1>2. All(AtServer)' = All(AtServer) \ h /\ Apart(AtServer)' /\ h \subseteq All(AtServer)
    <2> DEFINE t == c2s'
    <2>1. t = Tail(c2s) /\ Apart(OfCommands(c2s))
      BY <1>1 DEF OnePlace, AtServer
    <2> HIDE DEF t
    <2>2. /\ All(OfCommands(t)) = All(OfCommands(c2s)) \ HandlesOf(Head(c2s)) /\ Apart(OfCommands(t))
          /\ HandlesOf(Head(c2s)) \subseteq All(OfCommands(c2s))
      BY <1>1, <2>1, QueueShrinks
    <2> QED
      BY <2>2 DEF AtServer, t
  <1>3. Loading' = Loading
    BY DEF Loading
  <1> HIDE DEF h
  <1>4. All(AtClient)' = All(AtClient) \cup h
    BY DEF h
  <1>5. OnePlace'
    BY <1>1, <1>2, <1>3, <1>4 DEF OnePlace
  <1>6. Outstanding' = Outstanding
    BY <1>2, <1>3, <1>4 DEF Outstanding
  <1> QED
    BY <1>5, <1>6, SessionKeeps

\* One more command for the client.
LEMMA ClientQueueGrows ==
    ASSUME NEW s \in Seq(ToClient), NEW x \in ToClient, NEW t, t = Append(s, x), Apart(OfCommands(s)),
           HandlesOf(x) \cap All(OfCommands(s)) = {}
    PROVE  t \in Seq(ToClient) /\ All(OfCommands(t)) = All(OfCommands(s)) \cup HandlesOf(x) /\ Apart(OfCommands(t))
  <1>1. t \in Seq(ToClient)
    OBVIOUS
  <1> QED
    BY <1>1, QueueGrows

\* The answer to a command, in one part.
LEMMA AnswerOne ==
    ASSUME IInv, SessionInv, c2s # <<>>, NEW x \in ToClient, HandlesOf(x) = HandlesOf(Head(c2s)),
           s2c' = Append(s2c, x)
    PROVE  All(AtClient)' = All(AtClient) \cup HandlesOf(Head(c2s)) /\ Apart(AtClient)'
  <1>1. s2c \in Seq(ToClient) /\ c2s \in Seq(ToServer) /\ OnePlace
    BY Parts DEF SessionInv
  <1>2. HandlesOf(Head(c2s)) \subseteq All(AtServer)
    <2> DEFINE t == Tail(c2s)
    <2>1. t = Tail(c2s)
      OBVIOUS
    <2> HIDE DEF t
    <2> QED
      BY <1>1, <2>1, QueueShrinks DEF OnePlace, AtServer
  <1>3. HandlesOf(x) \cap All(OfCommands(s2c)) = {} /\ Apart(OfCommands(s2c))
    BY <1>1, <1>2 DEF OnePlace, AtClient
  <1> DEFINE t == s2c'
  <1>4. t = Append(s2c, x)
    OBVIOUS
  <1> HIDE DEF t
  <1>5. All(OfCommands(t)) = All(OfCommands(s2c)) \cup HandlesOf(x) /\ Apart(OfCommands(t))
    BY <1>1, <1>3, <1>4, ClientQueueGrows
  <1> QED
    BY <1>5 DEF AtClient, t

\* The answer in two parts, each with handles of its own.
LEMMA AnswerTwo ==
    ASSUME IInv, SessionInv, c2s # <<>>, NEW x \in ToClient, NEW y \in ToClient,
           HandlesOf(x) \cup HandlesOf(y) = HandlesOf(Head(c2s)), HandlesOf(x) \cap HandlesOf(y) = {},
           s2c' = s2c \o <<x, y>>
    PROVE  All(AtClient)' = All(AtClient) \cup HandlesOf(Head(c2s)) /\ Apart(AtClient)'
  <1>1. s2c \in Seq(ToClient) /\ c2s \in Seq(ToServer) /\ OnePlace
    BY Parts DEF SessionInv
  <1>2. HandlesOf(Head(c2s)) \subseteq All(AtServer)
    <2> DEFINE t == Tail(c2s)
    <2>1. t = Tail(c2s)
      OBVIOUS
    <2> HIDE DEF t
    <2> QED
      BY <1>1, <2>1, QueueShrinks DEF OnePlace, AtServer
  <1>3. /\ HandlesOf(x) \cap All(OfCommands(s2c)) = {} /\ Apart(OfCommands(s2c))
        /\ HandlesOf(y) \cap All(OfCommands(s2c)) = {}
    BY <1>1, <1>2 DEF OnePlace, AtClient
  <1> DEFINE m == Append(s2c, x)
             t == s2c'
  <1>4. t = Append(m, y)
    BY <1>1
  <1>5. m = Append(s2c, x)
    OBVIOUS
  <1> HIDE DEF m, t
  <1>6. m \in Seq(ToClient) /\ All(OfCommands(m)) = All(OfCommands(s2c)) \cup HandlesOf(x) /\ Apart(OfCommands(m))
    BY <1>1, <1>3, <1>5, ClientQueueGrows
  <1>7. HandlesOf(y) \cap All(OfCommands(m)) = {}
    BY <1>3, <1>6
  <1>8. All(OfCommands(t)) = All(OfCommands(m)) \cup HandlesOf(y) /\ Apart(OfCommands(t))
    BY <1>4, <1>6, <1>7, ClientQueueGrows
  <1> QED
    BY <1>6, <1>8 DEF AtClient, t

\* The server tells something that answers no handle.
LEMMA SessionNews ==
    ASSUME IInv, SessionInv, con' = con, ops' = ops, c2s' = c2s, NEW x \in ToClient, HandlesOf(x) = {},
           s2c' = Append(s2c, x)
    PROVE  SessionInv' /\ Outstanding' = Outstanding
  <1>1. s2c \in Seq(ToClient) /\ OnePlace
    BY Parts DEF SessionInv
  <1> DEFINE t == s2c'
  <1>2. t = Append(s2c, x) /\ Apart(OfCommands(s2c))
    BY <1>1 DEF OnePlace, AtClient
  <1> HIDE DEF t
  <1>3. All(OfCommands(t)) = All(OfCommands(s2c)) \cup HandlesOf(x) /\ Apart(OfCommands(t))
    BY <1>1, <1>2, ClientQueueGrows
  <1>4. All(AtClient)' = All(AtClient) /\ Apart(AtClient)' /\ AtServer' = AtServer /\ Loading' = Loading
    BY <1>3 DEF AtClient, AtServer, Loading, t
  <1>5. OnePlace' /\ Outstanding' = Outstanding
    BY <1>1, <1>4 DEF OnePlace, Outstanding
  <1> QED
    BY <1>5, SessionKeeps

\* Steps of the server move handles and answer none.
LEMMA SessionServer ==
    ASSUME IInv, SessionInv, Server PROVE SessionInv' /\ Outstanding' = Outstanding
  <1> USE Parts
  <1>1. ServerStep => con' = con /\ ops' = ops /\ server.channel \in Channels /\ server \in ServerType
    BY DEF ServerStep, client, Polling, IInv, ChannelsTyped, ServerType
  <1>2. CASE ServerShows
    <2> DEFINE e == [kind |-> "enter", mutes |-> server.mutes, channel |-> server.channel]
    <2>1. ServerStep /\ s2c' = Append(s2c, e) /\ c2s' = c2s
      BY <1>2 DEF ServerShows
    <2>2. e \in ToClient /\ e.kind = "enter"
      BY <1>1, <2>1, ServerTypes DEF ServerType
    <2> HIDE DEF e
    <2>3. HandlesOf(e) = {}
      BY <2>2, ClientCommandHandles
    <2> QED
      BY <1>1, <2>1, <2>2, <2>3, SessionNews
  <1>3. CASE ServerNews
    <2>1. ServerStep /\ c2s' = c2s
      BY <1>3 DEF ServerNews
    <2>2. ASSUME NEW e \in ToClient, e.kind \in {"other", "channel", "inforequest", "moved", "left"},
                 s2c' = Append(s2c, e)
          PROVE  SessionInv' /\ Outstanding' = Outstanding
      <3>1. HandlesOf(e) = {}
        BY <2>2, ClientCommandHandles
      <3> QED
        BY <1>1, <2>1, <2>2, <3>1, SessionNews
    <2>3. ASSUME NEW k \in {"other", "channel", "inforequest"}, s2c' = Append(s2c, Plain(k))
          PROVE  SessionInv' /\ Outstanding' = Outstanding
      <3>1. Plain(k) \in ToClient /\ Plain(k).kind = k
        BY ServerTypes DEF Plain
      <3> QED
        BY <2>2, <2>3, <3>1
    <2>4. ASSUME NEW ch \in Channels, s2c' = Append(s2c, [kind |-> "moved", channel |-> ch])
          PROVE  SessionInv' /\ Outstanding' = Outstanding
      <3> DEFINE e == [kind |-> "moved", channel |-> ch]
      <3>1. e \in ToClient /\ e.kind = "moved" /\ s2c' = Append(s2c, e)
        BY <2>4, ServerTypes
      <3> HIDE DEF e
      <3> QED
        BY <2>2, <3>1
    <2>5. ASSUME NEW stop \in BOOLEAN, s2c' = Append(s2c, [kind |-> "left", stop |-> stop])
          PROVE  SessionInv' /\ Outstanding' = Outstanding
      <3> DEFINE e == [kind |-> "left", stop |-> stop]
      <3>1. e \in ToClient /\ e.kind = "left" /\ s2c' = Append(s2c, e)
        BY <2>5, ServerTypes
      <3> HIDE DEF e
      <3> QED
        BY <2>2, <3>1
    <2>6. \/ \E k \in {"other", "channel", "inforequest"} : s2c' = Append(s2c, Plain(k))
          \/ \E ch \in Channels : s2c' = Append(s2c, [kind |-> "moved", channel |-> ch])
          \/ \E stop \in BOOLEAN : s2c' = Append(s2c, [kind |-> "left", stop |-> stop])
      BY <1>3 DEF ServerNews
    <2> QED
      BY <2>3, <2>4, <2>5, <2>6
  <1>4. ASSUME NEW ok \in BOOLEAN, ServerAnswer(ok) PROVE SessionInv' /\ Outstanding' = Outstanding
    <2> DEFINE c == Head(c2s)
               r == [kind |-> "result", code |-> c.code, ok |-> ok]
               h == HandlesOf(Head(c2s))
    <2>1. con' = con /\ ops' = ops /\ c2s' = Tail(c2s) /\ c2s # <<>>
      BY <1>1, <1>4 DEF ServerAnswer
    <2>2. c \in ToServer
      BY <2>1
    <2> SUFFICES All(AtClient)' = All(AtClient) \cup h /\ Apart(AtClient)'
      BY <2>1, SessionAnswered
    <2>3. c.kind \in {"plain", "mutes", "transfer"} =>
            /\ c.code \in 0 .. CodeCount /\ r \in ToClient
            /\ HandlesOf(r) = IF c.code = NoCode THEN {} ELSE {<<"result", c.code>>}
      <3>1. c.kind \in {"plain", "mutes", "transfer"} => c.code \in 0 .. CodeCount
        BY <2>2, ClientAssumption DEF ToServer, Codes
      <3>2. c.code \in 0 .. CodeCount => r \in ToClient
        BY ServerTypes
      <3>3. r.kind = "result" /\ r.code = c.code
        OBVIOUS
      <3> HIDE DEF r, c
      <3> QED
        BY <3>1, <3>2, <3>3, ClientCommandHandles
    <2>4. CASE c.kind = "plain"
      <3>1. s2c' = Append(s2c, r)
        BY <1>4, <2>4 DEF ServerAnswer
      <3> HIDE DEF r
      <3>2. HandlesOf(r) = HandlesOf(Head(c2s))
        BY <2>2, <2>3, <2>4, ServerCommandHandles
      <3> QED
        BY <2>1, <2>3, <2>4, <3>1, <3>2, AnswerOne
    <2>5. CASE c.kind = "mutes"
      <3> DEFINE u == [kind |-> "updated", mutes |-> c.mutes]
      <3>1. c.mutes \in SUBSET Mutes
        BY <2>2, <2>5 DEF ToServer
      <3>2. u \in ToClient /\ u.kind = "updated"
        BY <3>1, ServerTypes
      <3>3. s2c' = IF server.shown THEN s2c \o <<u, r>> ELSE Append(s2c, r)
        BY <1>4, <2>5 DEF ServerAnswer
      <3> HIDE DEF r, u
      <3>4. HandlesOf(r) = HandlesOf(Head(c2s)) /\ r \in ToClient
        BY <2>2, <2>3, <2>5, ServerCommandHandles
      <3>5. HandlesOf(u) = {}
        BY <3>2, ClientCommandHandles
      <3>6. CASE server.shown
        <4>1. HandlesOf(u) \cup HandlesOf(r) = HandlesOf(Head(c2s)) /\ HandlesOf(u) \cap HandlesOf(r) = {}
          BY <3>4, <3>5
        <4> QED
          BY <2>1, <3>2, <3>3, <3>4, <3>6, <4>1, AnswerTwo
      <3>7. CASE ~server.shown
        BY <2>1, <3>3, <3>4, <3>7, AnswerOne
      <3> QED
        BY <3>6, <3>7
    <2>6. CASE c.kind = "transfer"
      <3> DEFINE k == IF ok THEN "transfer" ELSE "status"
                 t == [kind |-> k, id |-> c.id]
      <3>1. c.id \in Codes
        BY <2>2, <2>6 DEF ToServer
      <3>2. s2c' = s2c \o <<t, r>>
        BY <1>4, <2>6 DEF ServerAnswer
      <3>3. t \in ToClient /\ t.kind \in {"transfer", "status"} /\ t.id = c.id
        <4>1. k \in {"transfer", "status"}
          OBVIOUS
        <4> HIDE DEF k
        <4> QED
          BY <3>1, <4>1, ServerTypes
      <3> HIDE DEF r, t
      <3>4. HandlesOf(t) = {<<"transfer", c.id>>}
        BY <3>3, ClientCommandHandles
      <3>5. h = {<<"result", c.code>>, <<"transfer", c.id>>} /\ c.code # NoCode
        BY <2>2, <2>6, ServerCommandHandles
      <3>6. HandlesOf(r) = {<<"result", c.code>>} /\ r \in ToClient
        BY <2>3, <2>6, <3>5
      <3>7. HandlesOf(t) \cup HandlesOf(r) = HandlesOf(Head(c2s)) /\ HandlesOf(t) \cap HandlesOf(r) = {}
        BY <3>4, <3>5, <3>6
      <3> QED
        BY <2>1, <3>2, <3>3, <3>6, <3>7, AnswerTwo
    <2>7. CASE c.kind = "disconnect"
      <3> DEFINE l == [kind |-> "left", stop |-> FALSE]
      <3>1. l \in ToClient /\ l.kind = "left"
        BY ServerTypes
      <3>2. s2c' = Append(s2c, l)
        BY <1>4, <2>7 DEF ServerAnswer
      <3> HIDE DEF l
      <3>3. HandlesOf(l) = HandlesOf(Head(c2s))
        BY <2>2, <2>7, <3>1, ClientCommandHandles, ServerCommandHandles
      <3> QED
        BY <2>1, <3>1, <3>2, <3>3, AnswerOne
    <2>8. CASE c.kind \in {"info", "subscribe"}
      <3>1. s2c' = s2c
        BY <1>4, <2>8 DEF ServerAnswer
      <3>2. h = {}
        BY <2>2, <2>8, ServerCommandHandles
      <3> HIDE DEF h
      <3> QED
        BY <3>1, <3>2 DEF AtClient, SessionInv, OnePlace
    <2>9. c.kind \in {"plain", "mutes", "transfer", "disconnect", "info", "subscribe"}
      BY <2>2 DEF ToServer
    <2> QED
      BY <2>4, <2>5, <2>6, <2>7, <2>8, <2>9
  <1> QED
    BY <1>2, <1>3, <1>4 DEF Server

\* The client takes a command out of its queue.
LEMMA ClientTakes ==
    ASSUME IInv, SessionInv, s2c # <<>>, s2c' = Tail(s2c)
    PROVE  /\ All(AtClient)' = All(AtClient) \ HandlesOf(Head(s2c)) /\ Apart(AtClient)'
           /\ HandlesOf(Head(s2c)) \subseteq All(AtClient)
  <1>1. s2c \in Seq(ToClient) /\ Apart(OfCommands(s2c))
    BY Parts DEF SessionInv, OnePlace, AtClient
  <1> DEFINE t == s2c'
  <1>2. t = Tail(s2c)
    OBVIOUS
  <1> HIDE DEF t
  <1>3. /\ All(OfCommands(t)) = All(OfCommands(s2c)) \ HandlesOf(Head(s2c)) /\ Apart(OfCommands(t))
        /\ HandlesOf(Head(s2c)) \subseteq All(OfCommands(s2c))
    BY <1>1, <1>2, QueueShrinks
  <1> QED
    BY <1>3 DEF AtClient, t

\* The client handles a command: its handles have their answer now.
LEMMA SessionReceive ==
    ASSUME IInv, SessionInv, s2c # <<>>, s2c' = Tail(s2c), con' = con, ops' = ops,
           c2s' = c2s \/ \E c \in ToServer : c2s' = Append(c2s, c) /\ HandlesOf(c) = {}
    PROVE  /\ SessionInv' /\ Outstanding' = Outstanding \ HandlesOf(Head(s2c))
           /\ HandlesOf(Head(s2c)) \subseteq Outstanding
  <1> DEFINE h == HandlesOf(Head(s2c))
  <1>1. All(AtClient)' = All(AtClient) \ h /\ Apart(AtClient)' /\ h \subseteq All(AtClient)
    BY ClientTakes
  <1>2. OnePlace /\ c2s \in Seq(ToServer)
    BY Parts DEF SessionInv
  <1>3. All(AtServer)' = All(AtServer) /\ Apart(AtServer)'
    <2>1. CASE c2s' = c2s
      BY <1>2, <2>1 DEF AtServer, OnePlace
    <2>2. ASSUME NEW c \in ToServer, c2s' = Append(c2s, c), HandlesOf(c) = {}
          PROVE  All(AtServer)' = All(AtServer) /\ Apart(AtServer)'
      <3> DEFINE t == c2s'
      <3>1. t = Append(c2s, c) /\ Apart(OfCommands(c2s))
        BY <1>2, <2>2 DEF AtServer, OnePlace
      <3> HIDE DEF t
      <3>2. All(OfCommands(t)) = All(OfCommands(c2s)) \cup HandlesOf(c) /\ Apart(OfCommands(t))
        BY <1>2, <2>2, <3>1, QueueGrows
      <3> QED
        BY <2>2, <3>2 DEF AtServer, t
    <2> QED
      BY <2>1, <2>2
  <1>4. Loading' = Loading
    BY DEF Loading
  <1> HIDE DEF h
  <1>5. OnePlace'
    BY <1>1, <1>2, <1>3, <1>4 DEF OnePlace
  <1>6. Outstanding' = Outstanding \ h /\ h \subseteq Outstanding
    BY <1>1, <1>2, <1>3, <1>4 DEF Outstanding, OnePlace
  <1> QED
    BY <1>5, <1>6, SessionKeeps DEF h

\* A transfer begins.
LEMMA SessionLoads ==
    ASSUME IInv, SessionInv, s2c # <<>>, Head(s2c).kind = "transfer", s2c' = Tail(s2c), ops' = ops,
           c2s' = c2s, con' = [con EXCEPT !.transfers = Append(@, Head(s2c).id)]
    PROVE  SessionInv' /\ Outstanding' = Outstanding
  <1> DEFINE id == Head(s2c).id
             h == <<"transfer", id>>
  <1>1. Head(s2c) \in ToClient /\ con \in ConType /\ con.transfers \in Seq(Codes) /\ OnePlace
    BY Parts DEF ConType, SessionInv
  <1>2. id \in Codes /\ HandlesOf(Head(s2c)) = {h}
    BY <1>1, ClientCommandHandles DEF ToClient
  <1>3. All(AtClient)' = All(AtClient) \ {h} /\ Apart(AtClient)' /\ h \in All(AtClient)
    BY <1>2, ClientTakes
  <1>4. /\ con'.transfers = Append(con.transfers, id)
        /\ con'.code = con.code /\ con'.transfer = con.transfer
    BY <1>1 DEF ConType
  <1>5. AtServer' = AtServer
    BY DEF AtServer
  <1> HIDE DEF id
  <1>6. All(Loading)' = All(Loading) \cup {h} /\ Apart(Loading)'
    <2> DEFINE t == con'.transfers
    <2>1. t = Append(con.transfers, id) /\ Apart(OfTransfers(con.transfers))
      BY <1>1, <1>4 DEF OnePlace, Loading
    <2>2. <<"transfer", id>> \notin All(OfTransfers(con.transfers))
      BY <1>1, <1>3 DEF OnePlace, Loading
    <2> HIDE DEF t
    <2>3. All(OfTransfers(t)) = All(OfTransfers(con.transfers)) \cup {<<"transfer", id>>} /\ Apart(OfTransfers(t))
      BY <1>1, <1>2, <2>1, <2>2, TransfersGrow
    <2> QED
      BY <2>3 DEF Loading, t
  <1> HIDE DEF h
  <1>7. OnePlace'
    BY <1>1, <1>3, <1>5, <1>6 DEF OnePlace
  <1>8. Outstanding' = Outstanding
    BY <1>3, <1>5, <1>6 DEF Outstanding
  <1> QED
    BY <1>4, <1>7, <1>8, SessionKeeps

\* A transfer is ready or failed.
LEMMA SessionLoaded ==
    ASSUME IInv, SessionInv, NEW i \in DOMAIN con.transfers, s2c' = s2c, c2s' = c2s, ops' = ops,
           con' = [con EXCEPT !.transfers = RemoveAt(@, i)]
    PROVE  /\ SessionInv' /\ Outstanding' = Outstanding \ {<<"transfer", con.transfers[i]>>}
           /\ <<"transfer", con.transfers[i]>> \in Outstanding
           /\ con'.code = con.code /\ con'.transfer = con.transfer
  <1> DEFINE h == <<"transfer", con.transfers[i]>>
  <1>1. con \in ConType /\ con.transfers \in Seq(Codes) /\ OnePlace
    BY Parts DEF ConType, SessionInv
  <1>2. /\ con'.transfers = RemoveAt(con.transfers, i)
        /\ con'.code = con.code /\ con'.transfer = con.transfer
    BY <1>1 DEF ConType
  <1>3. AtServer' = AtServer /\ AtClient' = AtClient
    BY DEF AtServer, AtClient
  <1>4. All(Loading)' = All(Loading) \ {h} /\ Apart(Loading)' /\ h \in All(Loading)
    <2> DEFINE t == con'.transfers
    <2>1. t = RemoveAt(con.transfers, i) /\ Apart(OfTransfers(con.transfers))
      BY <1>1, <1>2 DEF OnePlace, Loading
    <2> HIDE DEF t
    <2>2. /\ All(OfTransfers(t)) = All(OfTransfers(con.transfers)) \ {<<"transfer", con.transfers[i]>>}
          /\ Apart(OfTransfers(t))
          /\ <<"transfer", con.transfers[i]>> \in All(OfTransfers(con.transfers))
      BY <1>1, <2>1, TransfersShrink
    <2> QED
      BY <2>2 DEF Loading, t
  <1> HIDE DEF h
  <1>5. OnePlace'
    BY <1>1, <1>3, <1>4 DEF OnePlace
  <1>6. Outstanding' = Outstanding \ {h} /\ h \in Outstanding
    BY <1>1, <1>3, <1>4 DEF Outstanding, OnePlace
  <1> QED
    BY <1>2, <1>5, <1>6, SessionKeeps DEF h

\* What is promised to the user, in terms of the places of the handles.
UnansweredAt ==
  Unanswered = IF state # "connected" \/ ended # "no" THEN {} ELSE Outstanding

SessionStep == [TheSession!SessionNext]_(TheSession!session)

\* A step that the user does not see.
LEMMA SeesNothing ==
    ASSUME Unanswered' = Unanswered, heard'.answers = heard.answers, con'.code = con.code,
           con'.transfer = con.transfer, epoch' = epoch, resender' = resender, ended' = ended,
           state' = "connected" <=> state = "connected"
    PROVE  SessionStep
  BY DEF SessionStep, TheSession!session

\* A handle is answered.
LEMMA SeesAnswer ==
    ASSUME NEW h \in {"result", "transfer"} \X Codes, h \in Unanswered, Unanswered' = Unanswered \ {h},
           heard'.answers = heard.answers + 1, con'.code = con.code,
           con'.transfer = con.transfer, epoch' = epoch, resender' = resender, ended' = ended, state' = state
    PROVE  SessionStep
  <1>1. h \in TheSession!Handles
    BY DEF TheSession!Handles, Codes
  <1>2. TheSession!AnswerHandle(h)
    BY DEF TheSession!AnswerHandle
  <1> QED
    BY <1>1, <1>2 DEF SessionStep, TheSession!SessionNext

\* The stream ends.
LEMMA SeesEnd ==
    ASSUME UnansweredAt', ended = "no", ended' # "no", UNCHANGED <<heard, con, epoch, resender>>
    PROVE  SessionStep
  <1>1. Unanswered' = {}
    BY DEF UnansweredAt
  <1>2. TheSession!Finish
    BY <1>1 DEF TheSession!Finish
  <1> QED
    BY <1>2 DEF SessionStep, TheSession!SessionNext

\* The connection is given up.
LEMMA SeesLoss ==
    ASSUME UnansweredAt', state = "connected", ended = "no", GiveUp, epoch' = epoch,
           heard'.answers = heard.answers
    PROVE  SessionStep
  <1>1. state' = "connecting" /\ ended' = "no" /\ con' = NewCon /\ resender' = "connected"
    BY DEF GiveUp, Connecting
  <1>2. con'.code = 0 /\ con'.transfer = 0 /\ Unanswered' = {}
    BY <1>1 DEF NewCon, UnansweredAt
  <1>3. TheSession!Lose
    BY <1>1, <1>2 DEF TheSession!Lose
  <1> QED
    BY <1>3 DEF SessionStep, TheSession!SessionNext

\* A return of items that wait answers nothing.
LEMMA ReturnNoAnswer ==
    ASSUME heard \in Heard, NEW items \in Seq(WaitingItem), Return(items)
    PROVE  heard'.answers = heard.answers
  <1>1. CASE items = <<>>
    BY <1>1 DEF Return
  <1>2. CASE items # <<>>
    <2>1. Head(items) \in WaitingItem /\ heard' = Learn(heard, Head(items))
      BY <1>2 DEF Return
    <2>2. ASSUME NEW i \in WaitingItem PROVE Learn(heard, i).answers = heard.answers
      BY <2>2 DEF Learn, WaitingItem, PlainItem, BookItem, AudioItem, Heard
    <2> QED
      BY <2>1, <2>2
  <1> QED
    BY <1>1, <1>2

\* The return of one item that is no answer.
LEMMA ReturnOther ==
    ASSUME heard \in Heard, NEW i \in WaitingItem, Return(<<i>>)
    PROVE  heard'.answers = heard.answers
  <1>1. <<i>> \in Seq(WaitingItem)
    OBVIOUS
  <1> QED
    BY <1>1, ReturnNoAnswer

\* The return of an answer.
LEMMA ReturnAnswer ==
    ASSUME heard \in Heard, NEW i \in AnswerItem
    PROVE  Learn(heard, i).answers = heard.answers + 1
  BY DEF Learn, AnswerItem, Heard

\* While there is no connection the user sees nothing or the end.
LEMMA SessionConnecting ==
    ASSUME IInv, SessionInv, UnansweredAt, UnansweredAt',
           \/ \E timeout \in BOOLEAN : AddressFails(timeout)
           \/ ConnectFailed \/ ConnectRefused
           \/ \E level \in Levels : IncreaseIdentityLevel(level)
           \/ IdentityIncreased \/ ThreadDied \/ CancelIdentityLevelIncrease
    PROVE  SessionInv' /\ SessionStep
  <1> USE Parts
  <1>0. Plain("increasing") \in WaitingItem /\ Plain("increased") \in WaitingItem
    BY ItemTypes DEF WaitingItem
  <1>1. ASSUME state # "connected", state' # "connected", ended' = ended, heard'.answers = heard.answers,
               UNCHANGED <<c2s, s2c, con, ops, epoch, resender>>
        PROVE  SessionInv' /\ SessionStep
    <2>1. Unanswered' = Unanswered
      BY <1>1 DEF UnansweredAt
    <2> QED
      BY <1>1, <2>1, SessionQuiet, SeesNothing
  <1>2. ASSUME ended = "no", ended' = "error", UNCHANGED <<c2s, s2c, con, ops, epoch, resender, heard>>
        PROVE  SessionInv' /\ SessionStep
    <2>1. SessionInv'
      BY <1>2, SessionQuiet
    <2>2. SessionStep
      BY <1>2, SeesEnd
    <2> QED
      BY <2>1, <2>2
  <1>3. ASSUME NEW timeout \in BOOLEAN, AddressFails(timeout) PROVE SessionInv' /\ SessionStep
    BY <1>1, <1>3 DEF AddressFails, PollConnecting, Polling, seen
  <1>4. CASE ConnectFailed
    <2>1. CASE attempt.reconnect /\ attempt.timedout
      BY <1>1, <1>4, <2>1 DEF ConnectFailed, Connecting, PollConnecting, Polling, seen
    <2>2. CASE ~(attempt.reconnect /\ attempt.timedout)
      BY <1>2, <1>4, <2>2 DEF ConnectFailed, PollConnecting, Polling, End
    <2> QED
      BY <2>1, <2>2
  <1>5. CASE ConnectRefused
    BY <1>2, <1>5 DEF ConnectRefused, PollConnecting, Polling, End
  <1>6. ASSUME NEW level \in Levels, IncreaseIdentityLevel(level) PROVE SessionInv' /\ SessionStep
    <2>1. CASE level > MaxLevel \/ options.level >= level
      BY <1>2, <1>6, <2>1 DEF IncreaseIdentityLevel, PollConnecting, Polling, End
    <2>2. CASE ~(level > MaxLevel \/ options.level >= level)
      <3>1. Return(<<Plain("increasing")>>) /\ state' = "increasing" /\ ended' = ended /\ PollConnecting
        BY <1>6, <2>2 DEF IncreaseIdentityLevel
      <3>2. heard'.answers = heard.answers
        BY <1>0, <3>1, ReturnOther
      <3> QED
        BY <1>1, <3>1, <3>2 DEF PollConnecting, Polling
    <2> QED
      BY <2>1, <2>2
  <1>7. CASE IdentityIncreased
    <2>1. heard'.answers = heard.answers
      BY <1>0, <1>7, ReturnOther DEF IdentityIncreased
    <2> QED
      BY <1>1, <1>7, <2>1 DEF IdentityIncreased, Connecting, Polling
  <1>8. CASE ThreadDied
    BY <1>2, <1>8 DEF ThreadDied, Polling, End
  <1>9. CASE CancelIdentityLevelIncrease
    BY <1>1, <1>9 DEF CancelIdentityLevelIncrease, seen
  <1> QED
    BY <1>3, <1>4, <1>5, <1>6, <1>7, <1>8, <1>9

\* No handle is left when a connection begins or is given up.
LEMMA SessionFresh ==
    ASSUME c2s' = <<>>, s2c' = <<>>, con' = NewCon, ops' \in Nat, ops' <= MaxOps
    PROVE  SessionInv' /\ Outstanding' = {}
  <1>1. con'.transfers = <<>> /\ con'.code = 0 /\ con'.transfer = 0
    BY DEF NewCon
  <1>2. DOMAIN <<>> = {}
    OBVIOUS
  <1>3. DOMAIN AtServer' = {} /\ DOMAIN AtClient' = {} /\ DOMAIN Loading' = {}
    BY <1>1, <1>2 DEF AtServer, AtClient, Loading, OfCommands, OfTransfers
  <1>4. All(AtServer)' = {} /\ All(AtClient)' = {} /\ All(Loading)' = {}
    BY <1>3 DEF All
  <1>5. OnePlace'
    BY <1>3, <1>4 DEF OnePlace, Apart
  <1>6. Outstanding' = {}
    BY <1>4 DEF Outstanding
  <1>7. 0 <= MaxOps - ops'
    <2>1. MaxOps \in Nat
      BY ClientAssumption
    <2> DEFINE n == ops'
    <2>2. n \in Nat /\ n <= MaxOps
      OBVIOUS
    <2> HIDE DEF n
    <2>3. 0 <= MaxOps - n
      BY <2>1, <2>2
    <2> QED
      BY <2>3 DEF n
  <1>8. NextIsNew'
    BY <1>1, <1>6, <1>7 DEF NextIsNew
  <1> QED
    BY <1>5, <1>6, <1>8 DEF SessionInv

\* The connection is there.
LEMMA SessionConnect ==
    ASSUME IInv, SessionInv, UnansweredAt', Connect
    PROVE  SessionInv' /\ SessionStep
  <1> DEFINE on == Send(TRUE)
             rec == Receive(TRUE)
             a == IF CanSend({}, options) THEN <<on>> ELSE <<>>
             b == IF CanReceive({}, options) THEN <<rec>> ELSE <<>>
  <1>1. a \in Seq(WaitingItem) /\ b \in Seq(WaitingItem) /\ <<Book>> \in Seq(WaitingItem)
    <2>1. on \in WaitingItem /\ rec \in WaitingItem /\ Book \in WaitingItem
      BY ItemTypes DEF WaitingItem
    <2> HIDE DEF on, rec
    <2> QED
      BY <2>1
  <1>2. Return(<<Book>> \o a \o b)
    BY DEF Connect
  <1> HIDE DEF a, b
  <1>3. <<Book>> \o a \o b \in Seq(WaitingItem)
    BY <1>1, ConcatProperties
  <1>4. heard'.answers = heard.answers
    BY <1>2, <1>3, Parts, ReturnNoAnswer
  <1>5. /\ state = "connecting" /\ ended = "no" /\ epoch < MaxConnects
        /\ state' = "connected" /\ ended' = "no" /\ epoch' = epoch + 1 /\ resender' = "connected"
        /\ con' = NewCon /\ c2s' = <<>> /\ s2c' = <<>> /\ ops' = ops
    BY DEF Connect, Polling
  <1>6. SessionInv' /\ Outstanding' = {}
    BY <1>5, SessionFresh DEF SessionInv
  <1>7. Unanswered' = {} /\ con'.code = 0 /\ con'.transfer = 0
    BY <1>5, <1>6 DEF UnansweredAt, NewCon
  <1>8. TheSession!Establish
    BY <1>4, <1>5, <1>7 DEF TheSession!Establish
  <1> QED
    BY <1>6, <1>8 DEF SessionStep, TheSession!SessionNext

\* A waiting item is returned.
LEMMA SessionWaiting ==
    ASSUME IInv, SessionInv, UnansweredAt, UnansweredAt', PollWaiting
    PROVE  SessionInv' /\ SessionStep
  <1>1. heard'.answers = heard.answers
    BY Parts, ReturnNoAnswer DEF PollWaiting
  <1>2. SessionInv' /\ Outstanding' = Outstanding
    BY SessionQuiet DEF PollWaiting
  <1>3. Unanswered' = Unanswered
    BY <1>2 DEF UnansweredAt, PollWaiting
  <1> QED
    BY <1>1, <1>2, <1>3, SeesNothing DEF PollWaiting

\* The server does nothing that the user sees.
LEMMA SessionServes ==
    ASSUME IInv, SessionInv, UnansweredAt, UnansweredAt', Server
    PROVE  SessionInv' /\ SessionStep
  <1>1. SessionInv' /\ Outstanding' = Outstanding
    BY SessionServer
  <1>2. ServerStep
    BY DEF Server, ServerShows, ServerNews, ServerAnswer
  <1>3. UNCHANGED <<state, ended, con, heard, epoch, resender>>
    BY <1>2 DEF ServerStep, client, seen
  <1>4. Unanswered' = Unanswered
    BY <1>1, <1>3 DEF UnansweredAt
  <1> QED
    BY <1>1, <1>3, <1>4, SeesNothing

\* The calls of the user.
LEMMA SessionCalls ==
    ASSUME HandlesSuffice, IInv, SessionInv, UnansweredAt, UnansweredAt', User
    PROVE  SessionInv' /\ SessionStep
  <1> USE Parts
  <1>1. /\ con \in ConType /\ con.code \in Codes /\ con.transfer \in Codes
        /\ con.code \in 0 .. CodeCount /\ con.code # NoCode /\ NoCode \in 0 .. CodeCount
    BY ClientAssumption DEF ConType, Codes, NoCode
  <1>2. UserStep
    BY DEF User, StartTransfer, Disconnect, SendCommand, SetMutes, Subscribe
  <1>3. /\ state = "connected" /\ ended = "no"
        /\ state' = "connected" /\ ended' = "no" /\ heard' = heard /\ epoch' = epoch
    BY <1>2 DEF UserStep, Polling, seen
  <1>4. Unanswered = Outstanding /\ Unanswered' = Outstanding'
    BY <1>3 DEF UnansweredAt
  <1>5. ASSUME NEW c \in ToServer, c2s' = Append(c2s, c), HandlesOf(c) = {<<"result", con.code>>},
               con'.code = NextCode(con.code), con'.transfer = con.transfer,
               con'.transfers = con.transfers, resender' = resender
        PROVE  SessionInv' /\ SessionStep
    <2>1. SessionInv' /\ Outstanding' = Outstanding \cup {<<"result", con.code>>}
      BY <1>2, <1>5, SessionUser
    <2>2. TheSession!SendWithResult
      BY <1>3, <1>4, <1>5, <2>1 DEF TheSession!SendWithResult, TheSession!Result, TheSession!Follow, NextCode
    <2> QED
      BY <2>1, <2>2 DEF SessionStep, TheSession!SessionNext
  <1>6. CASE StartTransfer
    <2> DEFINE c == [kind |-> "transfer", id |-> con.transfer, code |-> con.code]
    <2>1. c \in ToServer /\ c.kind = "transfer" /\ c.code = con.code /\ c.id = con.transfer
      BY <1>1 DEF ToServer
    <2>2. c2s' = Append(c2s, c) /\ resender' = resender
      BY <1>6 DEF StartTransfer
    <2> HIDE DEF c
    <2>3. HandlesOf(c) = {<<"result", con.code>>, <<"transfer", con.transfer>>}
      BY <2>1, ServerCommandHandles
    <2>4. /\ con'.code = NextCode(con.code) /\ con'.transfer = NextCode(con.transfer)
          /\ con'.transfers = con.transfers
      BY <1>1, <1>6 DEF StartTransfer, ConType
    <2>5. SessionInv' /\ Outstanding' = Outstanding \cup {<<"result", con.code>>, <<"transfer", con.transfer>>}
      BY <1>2, <2>1, <2>2, <2>3, <2>4, SessionUser
    <2>6. TheSession!Transmit
      BY <1>3, <1>4, <2>2, <2>4, <2>5
         DEF TheSession!Transmit, TheSession!Result, TheSession!Transfer, TheSession!Follow, NextCode
    <2> QED
      BY <2>5, <2>6 DEF SessionStep, TheSession!SessionNext
  <1>7. CASE Disconnect
    <2> DEFINE c == Plain("disconnect")
    <2>1. c \in ToServer /\ c.kind = "disconnect" /\ c2s' = Append(c2s, c)
      BY <1>7 DEF Plain, ToServer, Disconnect
    <2> HIDE DEF c
    <2>2. HandlesOf(c) = {}
      BY <2>1, ServerCommandHandles
    <2>3. con' = con /\ resender' = "disconnecting"
      BY <1>7 DEF Disconnect
    <2>4. SessionInv' /\ Outstanding' = Outstanding
      BY <1>2, <2>1, <2>2, <2>3, SessionUser
    <2>5. TheSession!Close
      BY <1>3, <1>4, <2>3, <2>4 DEF TheSession!Close
    <2> QED
      BY <2>4, <2>5 DEF SessionStep, TheSession!SessionNext
  <1>8. ASSUME NEW with_result \in BOOLEAN, SendCommand(with_result) PROVE SessionInv' /\ SessionStep
    <2>1. CASE with_result
      <3> DEFINE c == [kind |-> "plain", code |-> con.code]
      <3>1. c \in ToServer /\ c.kind = "plain" /\ c.code = con.code
        BY <1>1 DEF ToServer
      <3>2. c2s' = Append(c2s, c) /\ resender' = resender
        BY <1>8, <2>1 DEF SendCommand
      <3> HIDE DEF c
      <3>3. HandlesOf(c) = {<<"result", con.code>>}
        BY <1>1, <3>1, ServerCommandHandles
      <3>4. /\ con'.code = NextCode(con.code) /\ con'.transfer = con.transfer
            /\ con'.transfers = con.transfers
        BY <1>1, <1>8, <2>1 DEF SendCommand, ConType
      <3> QED
        BY <1>5, <3>1, <3>2, <3>3, <3>4
    <2>2. CASE ~with_result
      <3> DEFINE c == [kind |-> "plain", code |-> NoCode]
      <3>1. c \in ToServer /\ c.kind = "plain" /\ c.code = NoCode
        BY <1>1 DEF ToServer
      <3>2. c2s' = Append(c2s, c) /\ resender' = resender /\ con' = con
        BY <1>8, <2>2 DEF SendCommand
      <3> HIDE DEF c
      <3>3. HandlesOf(c) = {}
        BY <3>1, ServerCommandHandles
      <3>4. SessionInv' /\ Outstanding' = Outstanding
        BY <1>2, <3>1, <3>2, <3>3, SessionUser
      <3> QED
        BY <1>3, <1>4, <3>2, <3>4, SeesNothing
    <2> QED
      BY <2>1, <2>2
  <1>9. ASSUME NEW m \in SUBSET Mutes, SetMutes(m) PROVE SessionInv' /\ SessionStep
    <2> DEFINE c == [kind |-> "mutes", mutes |-> m, code |-> con.code]
    <2>1. c \in ToServer /\ c.kind = "mutes" /\ c.code = con.code
      BY <1>1 DEF ToServer
    <2>2. c2s' = Append(c2s, c) /\ resender' = resender
      BY <1>9 DEF SetMutes
    <2> HIDE DEF c
    <2>3. HandlesOf(c) = {<<"result", con.code>>}
      BY <1>1, <2>1, ServerCommandHandles
    <2>4. /\ con'.code = NextCode(con.code) /\ con'.transfer = con.transfer
          /\ con'.transfers = con.transfers
      BY <1>1, <1>9 DEF SetMutes, ConType
    <2> QED
      BY <1>5, <2>1, <2>2, <2>3, <2>4
  <1>10. ASSUME NEW all \in BOOLEAN, Subscribe(all) PROVE SessionInv' /\ SessionStep
    <2> DEFINE c == [kind |-> "plain", code |-> con.code]
    <2>1. c \in ToServer /\ c.kind = "plain" /\ c.code = con.code
      BY <1>1 DEF ToServer
    <2>2. c2s' = Append(c2s, c) /\ resender' = resender
      BY <1>10 DEF Subscribe
    <2> HIDE DEF c
    <2>3. HandlesOf(c) = {<<"result", con.code>>}
      BY <1>1, <2>1, ServerCommandHandles
    <2>4. /\ con'.code = NextCode(con.code) /\ con'.transfer = con.transfer
          /\ con'.transfers = con.transfers
      BY <1>1, <1>10 DEF Subscribe, ConType
    <2> QED
      BY <1>5, <2>1, <2>2, <2>3, <2>4
  <1> QED
    BY <1>6, <1>7, <1>8, <1>9, <1>10 DEF User

\* What a connection returns that is not a command.
LEMMA SessionPolls ==
    ASSUME IInv, SessionInv, UnansweredAt, UnansweredAt', PollItem
    PROVE  SessionInv' /\ SessionStep
  <1> USE Parts
  <1>0. /\ Plain("stats") \in WaitingItem /\ Plain("audio") \in WaitingItem
        /\ Disconnected \in WaitingItem
    BY ItemTypes DEF WaitingItem
  <1>1. ASSUME PollConnected, ended' # "no", UNCHANGED <<c2s, s2c, con, resender, heard>>
        PROVE  SessionInv' /\ SessionStep
    <2>1. ended = "no" /\ ops' = ops /\ epoch' = epoch
      BY <1>1 DEF PollConnected, Polling
    <2>2. SessionInv'
      BY <1>1, <2>1, SessionQuiet
    <2>3. SessionStep
      BY <1>1, <2>1, SeesEnd
    <2> QED
      BY <2>2, <2>3
  <1>2. ASSUME PollConnected, NEW i \in WaitingItem, Return(<<i>>),
               UNCHANGED <<state, ended, c2s, s2c, con, resender>>
        PROVE  SessionInv' /\ SessionStep
    <2>1. ops' = ops /\ epoch' = epoch
      BY <1>2 DEF PollConnected
    <2>2. SessionInv' /\ Outstanding' = Outstanding
      BY <1>2, <2>1, SessionQuiet
    <2>3. Unanswered' = Unanswered
      BY <1>2, <2>2 DEF UnansweredAt
    <2>4. heard'.answers = heard.answers
      BY <1>2, ReturnOther
    <2> QED
      BY <1>2, <2>1, <2>2, <2>3, <2>4, SeesNothing
  <1>3. CASE PollTimeout
    <2>1. CASE resender = "connected"
      <3>1. /\ GiveUp /\ Return(<<Disconnected>>) /\ ops' = ops /\ epoch' = epoch
            /\ state = "connected" /\ ended = "no"
        BY <1>3, <2>1 DEF PollTimeout, PollConnected, Polling
      <3>2. heard'.answers = heard.answers
        BY <1>0, <3>1, ReturnOther
      <3>3. SessionInv'
        BY <3>1, SessionFresh DEF GiveUp, SessionInv
      <3> QED
        BY <3>1, <3>2, <3>3, SeesLoss
    <2>2. CASE resender # "connected"
      BY <1>1, <1>3, <2>2 DEF PollTimeout, End
    <2> QED
      BY <2>1, <2>2
  <1>4. CASE PollError
    BY <1>1, <1>4 DEF PollError, End
  <1>5. CASE PollEnd
    BY <1>1, <1>5 DEF PollEnd, End
  <1>6. CASE PollStats
    BY <1>0, <1>2, <1>6 DEF PollStats
  <1>7. ASSUME NEW e \in BOOLEAN, NEW u \in BOOLEAN, PollAudio(e, u) PROVE SessionInv' /\ SessionStep
    BY <1>0, <1>2, <1>7 DEF PollAudio
  <1>8. ASSUME NEW i \in DOMAIN con.transfers, NEW ok \in BOOLEAN, PollTransfer(i, ok)
        PROVE  SessionInv' /\ SessionStep
    <2> DEFINE a == Answer("transfer", con.transfers[i], ok)
               h == <<"transfer", con.transfers[i]>>
    <2>1. con.transfers[i] \in Codes
      <3>1. con.transfers \in Seq(Codes)
        BY DEF ConType
      <3> QED
        BY <3>1
    <2>2. a \in AnswerItem /\ a \in Item
      BY <2>1, ItemTypes DEF Item
    <2>3. Return(<<a>>)
      BY <1>8 DEF PollTransfer
    <2> HIDE DEF a
    <2>4. heard'.answers = heard.answers + 1
      BY <2>2, <2>3, ReturnOne, ReturnAnswer
    <2>5. /\ PollConnected /\ con' = [con EXCEPT !.transfers = RemoveAt(@, i)]
          /\ UNCHANGED <<state, resender, ended, c2s, s2c>>
      BY <1>8 DEF PollTransfer
    <2>6. ops' = ops /\ epoch' = epoch /\ state = "connected" /\ ended = "no"
      BY <2>5 DEF PollConnected, Polling
    <2>7. /\ SessionInv' /\ Outstanding' = Outstanding \ {h} /\ h \in Outstanding
          /\ con'.code = con.code /\ con'.transfer = con.transfer
      BY <2>5, <2>6, SessionLoaded
    <2>8. h \in {"result", "transfer"} \X Codes
      BY <2>1
    <2> HIDE DEF h
    <2>9. Unanswered' = Unanswered \ {h} /\ h \in Unanswered
      BY <2>5, <2>6, <2>7 DEF UnansweredAt
    <2> QED
      BY <2>4, <2>5, <2>6, <2>7, <2>8, <2>9, SeesAnswer
  <1> QED
    BY <1>3, <1>4, <1>5, <1>6, <1>7, <1>8 DEF PollItem

\* handle_command, except for the own client leaving: an answer returns the
\* handle that it is for, and nothing else does.
LEMMA SessionHandles ==
    ASSUME IInv, SessionInv, UnansweredAt, UnansweredAt',
           \/ HandleResult \/ HandleTransferStart \/ HandleTransferStatus
           \/ HandleInfoRequest \/ HandleEnter \/ HandleUpdated \/ HandleMoved
           \/ HandleChannelCreated \/ HandleOther
    PROVE  SessionInv' /\ SessionStep
  <1> USE Parts
  <1> DEFINE c == Head(s2c)
             msg == <<Plain("message")>>
  <1>0. /\ <<>> \in QuietItems /\ <<Book>> \in QuietItems /\ msg \in QuietItems
        /\ \A i \in AnswerItem : <<i>> \in QuietItems
        /\ Book \in Item /\ Plain("message") \in Item
    BY ItemTypes DEF QuietItems, Item
  <1>1. ASSUME NEW items \in {<<>>, <<Book>>, msg}, Handled(items), NEW kind, Receiving(kind)
        PROVE  heard'.answers = heard.answers
    <2>1. stream_items = <<>> /\ Return(items \o AudioChanges(own', options')) /\ items \in QuietItems
      BY <1>0, <1>1 DEF Receiving, Arrived, PollConnected, Handled
    <2>2. /\ items = <<>> => heard'.answers = heard.answers
          /\ \A i \in Item : items = <<i>> => heard'.answers = Learn(heard, i).answers
      BY <2>1, HandledTypes
    <2>3. Learn(heard, Book).answers = heard.answers /\ Learn(heard, Plain("message")).answers = heard.answers
      BY Parts DEF Learn, Book, Plain, Heard
    <2> QED
      BY <1>0, <1>1, <2>2, <2>3
  <1>2. ASSUME NEW i \in AnswerItem, Handled(<<i>>), NEW kind, Receiving(kind)
        PROVE  heard'.answers = heard.answers + 1
    <2>1. /\ stream_items = <<>> /\ Return(<<i>> \o AudioChanges(own', options'))
          /\ <<i>> \in QuietItems /\ i \in Item
      BY <1>0, <1>2 DEF Receiving, Arrived, PollConnected, Handled, Item
    <2>2. \A j \in Item : <<i>> = <<j>> => heard'.answers = Learn(heard, j).answers
      BY <2>1, HandledTypes
    <2> QED
      BY <2>1, <2>2, ReturnAnswer
  <1>3. ASSUME NEW kind, Receiving(kind), NEW items, Handled(items)
        PROVE  /\ c \in ToClient /\ c.kind = kind /\ s2c # <<>> /\ s2c' = Tail(s2c)
               /\ state = "connected" /\ ended = "no" /\ state' = state /\ ended' = ended
               /\ ops' = ops /\ epoch' = epoch
    BY <1>3, CommandTypes DEF Receiving, Handled, Arrived, PollConnected, Polling
  <1>4. ASSUME NEW kind \in {"inforequest", "enter", "updated", "moved", "channel", "other"},
               Receiving(kind), NEW items \in {<<>>, <<Book>>, msg}, Handled(items),
               con' = con, resender' = resender,
               c2s' = c2s \/ \E x \in ToServer : c2s' = Append(c2s, x) /\ HandlesOf(x) = {}
        PROVE  SessionInv' /\ SessionStep
    <2>1. heard'.answers = heard.answers
      BY <1>1, <1>4
    <2>2. /\ c \in ToClient /\ c.kind = kind /\ s2c # <<>> /\ s2c' = Tail(s2c)
          /\ state = "connected" /\ ended = "no" /\ state' = state /\ ended' = ended
          /\ ops' = ops /\ epoch' = epoch
      BY <1>3, <1>4
    <2>3. HandlesOf(c) = {}
      BY <1>4, <2>2, ClientCommandHandles
    <2>4. SessionInv' /\ Outstanding' = Outstanding
      BY <1>4, <2>2, <2>3, SessionReceive
    <2>5. Unanswered' = Unanswered
      BY <2>2, <2>4 DEF UnansweredAt
    <2> QED
      BY <1>4, <2>1, <2>2, <2>4, <2>5, SeesNothing
  <1>5. ASSUME NEW kind, Receiving(kind), NEW i \in AnswerItem, Handled(<<i>>),
               NEW h \in {"result", "transfer"} \X Codes, HandlesOf(c) = {h},
               con' = con, resender' = resender, c2s' = c2s
        PROVE  SessionInv' /\ SessionStep
    <2>1. heard'.answers = heard.answers + 1
      BY <1>2, <1>5
    <2>2. /\ c \in ToClient /\ c.kind = kind /\ s2c # <<>> /\ s2c' = Tail(s2c)
          /\ state = "connected" /\ ended = "no" /\ state' = state /\ ended' = ended
          /\ ops' = ops /\ epoch' = epoch
      BY <1>3, <1>5
    <2>3. SessionInv' /\ Outstanding' = Outstanding \ {h} /\ h \in Outstanding
      BY <1>5, <2>2, SessionReceive
    <2>4. Unanswered' = Unanswered \ {h} /\ h \in Unanswered
      BY <2>2, <2>3 DEF UnansweredAt
    <2> QED
      BY <1>5, <2>1, <2>2, <2>3, <2>4, SeesAnswer
  <1>6. CASE HandleResult
    <2> DEFINE i == Answer("result", c.code, c.ok)
               h == <<"result", c.code>>
    <2>0. Receiving("result") /\ con' = con /\ resender' = resender /\ c2s' = c2s
          /\ Handled(IF c.code = NoCode THEN msg ELSE <<i>>)
      BY <1>6 DEF HandleResult
    <2>1. c \in ToClient /\ c.kind = "result"
      BY <2>0, CommandTypes DEF Receiving
    <2>2. c.code \in 0 .. CodeCount /\ c.ok \in BOOLEAN
      BY <2>1 DEF ToClient
    <2>3. CASE c.code = NoCode
      <3>1. Handled(msg)
        BY <2>0, <2>3
      <3>2. heard'.answers = heard.answers
        BY <1>1, <2>0, <3>1
      <3>3. /\ s2c # <<>> /\ s2c' = Tail(s2c)
            /\ state = "connected" /\ ended = "no" /\ state' = state /\ ended' = ended
            /\ ops' = ops /\ epoch' = epoch
        BY <1>3, <2>0, <3>1
      <3>4. HandlesOf(c) = {}
        BY <2>1, <2>3, ClientCommandHandles
      <3>5. SessionInv' /\ Outstanding' = Outstanding
        BY <2>0, <3>3, <3>4, SessionReceive
      <3>6. Unanswered' = Unanswered
        BY <3>3, <3>5 DEF UnansweredAt
      <3> QED
        BY <2>0, <3>2, <3>3, <3>5, <3>6, SeesNothing
    <2>4. CASE c.code # NoCode
      <3>1. c.code \in Codes
        BY <2>2, <2>4, ClientAssumption DEF NoCode, Codes
      <3>2. i \in AnswerItem /\ h \in {"result", "transfer"} \X Codes
        BY <2>2, <3>1, ItemTypes
      <3>3. Handled(<<i>>)
        BY <2>0, <2>4
      <3>4. HandlesOf(c) = {h}
        BY <2>1, <2>4, ClientCommandHandles
      <3> HIDE DEF i, h
      <3> QED
        BY <1>5, <2>0, <3>2, <3>3, <3>4
    <2> QED
      BY <2>3, <2>4
  <1>7. CASE HandleTransferStart
    <2>0. Receiving("transfer") /\ resender' = resender /\ c2s' = c2s /\ Handled(<<>>)
          /\ con' = [con EXCEPT !.transfers = Append(@, c.id)]
      BY <1>7 DEF HandleTransferStart
    <2>1. heard'.answers = heard.answers
      BY <1>1, <2>0
    <2>2. /\ c \in ToClient /\ c.kind = "transfer" /\ s2c # <<>> /\ s2c' = Tail(s2c)
          /\ state = "connected" /\ ended = "no" /\ state' = state /\ ended' = ended
          /\ ops' = ops /\ epoch' = epoch
      BY <1>3, <2>0
    <2>3. SessionInv' /\ Outstanding' = Outstanding
      BY <2>0, <2>2, SessionLoads
    <2>4. con'.code = con.code /\ con'.transfer = con.transfer
      BY <2>0 DEF ConType
    <2>5. Unanswered' = Unanswered
      BY <2>2, <2>3 DEF UnansweredAt
    <2> QED
      BY <2>0, <2>1, <2>2, <2>3, <2>4, <2>5, SeesNothing
  <1>8. CASE HandleTransferStatus
    <2> DEFINE i == Answer("transfer", c.id, FALSE)
               h == <<"transfer", c.id>>
    <2>0. Receiving("status") /\ con' = con /\ resender' = resender /\ c2s' = c2s /\ Handled(<<i>>)
      BY <1>8 DEF HandleTransferStatus
    <2>1. c \in ToClient /\ c.kind = "status"
      BY <2>0, CommandTypes DEF Receiving
    <2>2. c.id \in Codes
      BY <2>1 DEF ToClient
    <2>3. i \in AnswerItem /\ h \in {"result", "transfer"} \X Codes
      BY <2>2, ItemTypes
    <2>4. HandlesOf(c) = {h}
      BY <2>1, ClientCommandHandles
    <2> HIDE DEF i, h
    <2> QED
      BY <1>5, <2>0, <2>3, <2>4
  <1>9. CASE HandleInfoRequest
    <2> DEFINE x == Plain("info")
    <2>1. x \in ToServer /\ x.kind = "info" /\ c2s' = Append(c2s, x)
      BY <1>9 DEF Plain, ToServer, HandleInfoRequest
    <2> HIDE DEF x
    <2>2. HandlesOf(x) = {}
      BY <2>1, ServerCommandHandles
    <2>3. \E y \in ToServer : c2s' = Append(c2s, y) /\ HandlesOf(y) = {}
      BY <2>1, <2>2
    <2>4. Receiving("inforequest") /\ Handled(<<>>) /\ con' = con /\ resender' = resender
      BY <1>9 DEF HandleInfoRequest
    <2> QED
      BY <1>4, <2>3, <2>4
  <1>10. CASE HandleEnter
    BY <1>4, <1>10 DEF HandleEnter
  <1>11. CASE HandleUpdated
    <2> DEFINE items == IF own = {} THEN msg
                        ELSE IF \A x \in own : x.mutes = c.mutes THEN <<>>
                        ELSE <<Book>>
    <2>1. Handled(items) /\ Receiving("updated") /\ con' = con /\ resender' = resender /\ c2s' = c2s
      BY <1>11 DEF HandleUpdated
    <2>2. items \in {<<>>, <<Book>>, msg}
      OBVIOUS
    <2> HIDE DEF items
    <2> QED
      BY <1>4, <2>1, <2>2
  <1>12. CASE HandleMoved
    <2> DEFINE items == IF own = {} THEN msg ELSE IF own' = own THEN <<>> ELSE <<Book>>
    <2>1. Handled(items) /\ Receiving("moved") /\ con' = con /\ resender' = resender /\ c2s' = c2s
      BY <1>12 DEF HandleMoved
    <2>2. items \in {<<>>, <<Book>>, msg}
      OBVIOUS
    <2> HIDE DEF items
    <2> QED
      BY <1>4, <2>1, <2>2
  <1>13. CASE HandleChannelCreated
    <2> DEFINE x == Plain("subscribe")
    <2>1. x \in ToServer /\ x.kind = "subscribe" /\ (c2s' = Append(c2s, x) \/ c2s' = c2s)
      BY <1>13 DEF Plain, ToServer, HandleChannelCreated
    <2> HIDE DEF x
    <2>2. HandlesOf(x) = {}
      BY <2>1, ServerCommandHandles
    <2>3. c2s' = c2s \/ \E y \in ToServer : c2s' = Append(c2s, y) /\ HandlesOf(y) = {}
      BY <2>1, <2>2
    <2>4. Receiving("channel") /\ Handled(<<Book>>) /\ con' = con /\ resender' = resender
      BY <1>13 DEF HandleChannelCreated
    <2> QED
      BY <1>4, <2>3, <2>4
  <1>14. CASE HandleOther
    BY <1>4, <1>14 DEF HandleOther
  <1> QED
    BY <1>6, <1>7, <1>8, <1>9, <1>10, <1>11, <1>12, <1>13, <1>14

\* The own client leaves: the connection is closed, or lost when the server
\* stops.
LEMMA SessionLeft ==
    ASSUME IInv, SessionInv, UnansweredAt, UnansweredAt', HandleLeft
    PROVE  SessionInv' /\ SessionStep
  <1> USE Parts
  <1>1. /\ Head(s2c) \in ToClient /\ Head(s2c).kind = "left" /\ s2c # <<>> /\ PollConnected
        /\ stream_items = <<>> /\ state = "connected" /\ ended = "no" /\ ops' = ops /\ epoch' = epoch
    BY CommandTypes DEF HandleLeft, PollConnected, Polling, Arrived
  <1>2. CASE Head(s2c).stop
    <2>1. GiveUp /\ Return(ServerStopItems)
      BY <1>2 DEF HandleLeft
    <2> DEFINE as == AudioStops
               d == <<Disconnected>>
               b == IF own = {} THEN <<>> ELSE <<Book>>
    <2>2. as \in Seq(WaitingItem) /\ d \in Seq(WaitingItem) /\ b \in Seq(WaitingItem)
      <3>1. AudioItem \subseteq WaitingItem /\ Disconnected \in WaitingItem /\ Book \in WaitingItem
        BY ItemTypes DEF WaitingItem
      <3>2. as \in Seq(AudioItem)
        BY AudioTypes
      <3> HIDE DEF as
      <3>3. as \in Seq(WaitingItem)
        BY <3>1, <3>2, SeqMonotonic
      <3>4. d \in Seq(WaitingItem)
        BY <3>1
      <3> HIDE DEF d
      <3>5. b \in Seq(WaitingItem)
        <4>1. <<>> \in Seq(WaitingItem) /\ <<Book>> \in Seq(WaitingItem)
          BY <3>1
        <4> QED
          BY <4>1
      <3> QED
        BY <3>3, <3>4, <3>5
    <2>3. Return(b \o as \o d)
      BY <2>1 DEF ServerStopItems
    <2> HIDE DEF as, d, b
    <2>4. b \o as \o d \in Seq(WaitingItem)
      BY <2>2, ConcatProperties
    <2>5. heard'.answers = heard.answers
      BY <2>3, <2>4, ReturnNoAnswer
    <2>6. SessionInv'
      BY <1>1, <2>1, SessionFresh DEF GiveUp, SessionInv
    <2> QED
      BY <1>1, <2>1, <2>5, <2>6, SeesLoss
  <1>3. CASE ~Head(s2c).stop
    <2> DEFINE b == IF own = {} THEN <<Plain("message")>> ELSE <<Book>>
               ac == AudioChanges({}, options)
    <2>1. /\ s2c' = Tail(s2c) /\ resender' = "disconnected"
          /\ UNCHANGED <<state, con, ended, c2s>>
          /\ Return(b \o ac)
      BY <1>3 DEF HandleLeft
    <2>2. b \in Seq(WaitingItem) /\ ac \in Seq(WaitingItem)
      <3>1. AudioItem \subseteq WaitingItem /\ Plain("message") \in WaitingItem /\ Book \in WaitingItem
        BY ItemTypes DEF WaitingItem
      <3>2. ac \in Seq(AudioItem)
        BY AudioTypes
      <3> HIDE DEF ac
      <3>3. ac \in Seq(WaitingItem)
        BY <3>1, <3>2, SeqMonotonic
      <3> QED
        BY <3>1, <3>3
    <2> HIDE DEF b, ac
    <2>3. b \o ac \in Seq(WaitingItem)
      BY <2>2, ConcatProperties
    <2>4. heard'.answers = heard.answers
      BY <2>1, <2>3, ReturnNoAnswer
    <2>5. HandlesOf(Head(s2c)) = {}
      BY <1>1, ClientCommandHandles
    <2>6. SessionInv' /\ Outstanding' = Outstanding
      BY <1>1, <2>1, <2>5, SessionReceive
    <2>7. Unanswered' = Unanswered
      BY <2>1, <2>6 DEF UnansweredAt
    <2>8. TheSession!Close
      BY <1>1, <2>1, <2>4, <2>7 DEF TheSession!Close
    <2> QED
      BY <2>6, <2>8 DEF SessionStep, TheSession!SessionNext
  <1> QED
    BY <1>2, <1>3

\* Every step is one of the session, or the user does not see it.
LEMMA SessionNextStep ==
    ASSUME HandlesSuffice, IInv, SessionInv, UnansweredAt, UnansweredAt', [Next]_vars
    PROVE  SessionInv' /\ SessionStep
  <1>1. CASE UNCHANGED vars
    <2>1. UNCHANGED <<c2s, s2c, con, ops, state, ended, heard, epoch, resender>>
      BY <1>1 DEF vars, client, seen
    <2>2. SessionInv' /\ Outstanding' = Outstanding
      BY <2>1, SessionQuiet
    <2>3. Unanswered' = Unanswered
      BY <2>1, <2>2 DEF UnansweredAt
    <2> QED
      BY <2>1, <2>2, <2>3, SeesNothing
  <1>2. CASE PollWaiting
    BY <1>2, SessionWaiting
  <1>3. CASE ConnectStep \/ ConnectRefused \/ CancelIdentityLevelIncrease
    BY <1>3, SessionConnecting, SessionConnect DEF ConnectStep
  <1>4. CASE HandleCommand
    BY <1>4, SessionHandles, SessionLeft DEF HandleCommand
  <1>5. CASE PollItem
    BY <1>5, SessionPolls
  <1>6. CASE User
    BY <1>6, SessionCalls
  <1>7. CASE Server
    BY <1>7, SessionServes
  <1> QED
    BY <1>1, <1>2, <1>3, <1>4, <1>5, <1>6, <1>7 DEF Next, Poll

\* ConnectOptions::connect starts a session.
LEMMA SessionStarts == ASSUME Init PROVE SessionInv /\ TheSession!SessionInit
  <1>1. SessionInv
    BY ClientAssumption, SessionEmpty DEF Init
  <1>2. Unanswered = {}
    BY DEF Init, Unanswered
  <1>3. con.code = 0 /\ con.transfer = 0 /\ heard.answers = 0
    BY DEF Init, NewCon
  <1> QED
    BY <1>1, <1>2, <1>3 DEF Init, TheSession!SessionInit

\* Connection implements Session as long as the handles do not repeat:
\* whatever the server and the network do, a handle that send_with_result,
\* download_file or upload_file returned is answered at most once, only while
\* the connection it was given out on lasts, and the stream moves through
\* connecting, connected and over the way Session says.
THEOREM ClientImplementsSession == HandlesSuffice => (Spec => ImplementsSession)
  <1> SUFFICES ASSUME HandlesSuffice PROVE Spec => ImplementsSession
    OBVIOUS
  <1>1. Init => SessionInv /\ TheSession!SessionInit
    BY SessionStarts
  <1>2. IInv => UnansweredAt
    BY UnansweredIs DEF UnansweredAt
  <1>3. IInv /\ SessionInv /\ UnansweredAt /\ UnansweredAt' /\ [Next]_vars =>
          SessionInv' /\ [TheSession!SessionNext]_(TheSession!session)
    BY SessionNextStep DEF SessionStep
  <1> QED
    BY <1>1, <1>2, <1>3, ClientInvariant, PTL DEF Spec, ImplementsSession, TheSession!SessionSpec

=============================================================================
