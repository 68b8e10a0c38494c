------------------------ MODULE SyncConnectionProofs ------------------------
(***************************************************************************)
(* Proofs about the SyncConnection, for any number of callers and any      *)
(* number of connections.                                                  *)
(*                                                                         *)
(* The argument.  A caller makes one request: before it is taken out of    *)
(* the channel the caller is in no map, and afterwards only in the one of  *)
(* its request.  An entry disappears only when its caller is answered, or  *)
(* when another one replaces it, which answers the caller too.  A handle   *)
(* that was given out on the current connection is therefore still the     *)
(* caller's.  For files that is true only while the transfer ids do not    *)
(* repeat: an upload under the id of a waiting download would answer it.   *)
(***************************************************************************)
EXTENDS SyncConnection, TLAPS, FiniteSetTheorems

-----------------------------------------------------------------------------
(* The invariant.                                                          *)

Codes == 0 .. (CodeCount - 1)

CallerStates ==
  [Callers -> [at : {"idle", "sending", "waiting", "done"}, op : Ops,
               epoch : 0 .. MaxConnects, handle : Codes]]

SessionTyped ==
  /\ epoch \in 0 .. MaxConnects /\ code \in Codes /\ transfer \in Codes
  /\ pending \subseteq Handles
  /\ phase = "connected" => epoch >= 1

Typed ==
  /\ caller \in CallerStates
  /\ recv = <<>> \/ \E c \in Callers : recv = <<c>>
  /\ IsMap(commands) /\ IsMap(downloads) /\ IsMap(uploads)
  /\ connects \subseteq Callers /\ disconnects \subseteq Callers

\* The callers that wait for the connection.
Elsewhere ==
  Range(commands) \cup Range(downloads) \cup Range(uploads) \cup connects \cup disconnects

\* A request that was not taken out of the channel is known nowhere else.
FreshPart ==
  \A c \in Callers :
    /\ caller[c].at \in {"idle", "sending"} => recv # <<c>>
    /\ (caller[c].at \in {"idle", "sending"} \/ recv = <<c>>) =>
         c \notin Elsewhere /\ caller[c].epoch = 0

\* Everybody is where the request belongs.
PlacePart ==
  /\ \A c \in Range(commands) : caller[c].op = "command"
  /\ \A c \in Range(downloads) : caller[c].op = "download"
  /\ \A c \in Range(uploads) : caller[c].op = "upload"
  /\ \A c \in connects : caller[c].op = "connect"
  /\ \A c \in disconnects : caller[c].op = "disconnect"

WaitPart == \A c \in Callers : Waiting(c) => recv = <<c>> \/ c \in Elsewhere

\* A caller got its handle on this connection.
Current(c) == Waiting(c) /\ caller[c].epoch = epoch /\ phase = "connected"

EpochPart == \A c \in Callers : caller[c].epoch <= epoch

CommandPart ==
  \A c \in Callers : (Current(c) /\ caller[c].op = "command") =>
    LET h == caller[c].handle IN
      Result(h) \in pending /\ h \in DOMAIN commands /\ commands[h] = c

IInv ==
  /\ SessionTyped /\ Typed /\ FreshPart /\ PlacePart /\ WaitPart /\ EpochPart /\ CommandPart

\* The callers whose request was taken out of the channel.
Taken == {c \in Callers : caller[c].at \in {"waiting", "done"} /\ recv # <<c>>}

\* A handle of a download is the caller's and no upload has its number.
DownloadPart ==
  \A c \in Callers : (Current(c) /\ caller[c].op = "download") =>
    LET h == caller[c].handle IN
      /\ Transfer(h) \in pending /\ h \in DOMAIN downloads /\ downloads[h] = c
      /\ h \notin uploading

\* No transfer id was given out twice on this connection: every id has been
\* asked for by another caller.
CountPart ==
  \/ /\ transfer <= Cardinality(Taken)
     /\ \A c \in Callers : (Current(c) /\ caller[c].op = "download") => caller[c].handle < transfer
  \/ transfer = 0 /\ Taken = Callers

FileInv == IInv /\ DownloadPart /\ CountPart

\* The transfer ids suffice for the requests.
IdsSuffice == IsFiniteSet(Callers) /\ Cardinality(Callers) <= CodeCount

-----------------------------------------------------------------------------
(* Operators.                                                              *)

\* Session: the handles go round.
LEMMA FollowFacts ==
  ASSUME NEW n \in Codes
  PROVE  /\ Follow(n) \in Codes
         /\ n + 1 < CodeCount => Follow(n) = n + 1
         /\ n + 1 >= CodeCount => Follow(n) = 0 /\ n + 1 = CodeCount
  BY SyncAssumption DEF Follow, Codes

\* Session: a handle is of one kind and has one number.
LEMMA HandleFacts ==
  /\ \A n \in Codes : Result(n) \in Handles /\ Transfer(n) \in Handles
  /\ \A m, n : Result(m) = Result(n) => m = n
  /\ \A m, n : Transfer(m) = Transfer(n) => m = n
  /\ \A m, n : Result(m) # Transfer(n)
  BY DEF Result, Transfer, Handles, Codes

\* HashMap::insert: an entry is added or replaced, the others stay.
LEMMA PutFacts ==
  ASSUME NEW map, IsMap(map), NEW k \in Codes, NEW c \in Callers
  PROVE  /\ IsMap(Put(map, k, c))
         /\ k \in DOMAIN Put(map, k, c) /\ Put(map, k, c)[k] = c
         /\ \A x \in DOMAIN map : x # k =>
              x \in DOMAIN Put(map, k, c) /\ Put(map, k, c)[x] = map[x]
         /\ Range(Put(map, k, c)) \subseteq Range(map) \cup {c}
         /\ c \in Range(Put(map, k, c))
         /\ Range(map) \ Who(map, k) \subseteq Range(Put(map, k, c))
  <1> DEFINE new == Put(map, k, c)
  <1>1. /\ DOMAIN new = DOMAIN map \cup {k} /\ new[k] = c
        /\ \A x \in DOMAIN map : x # k => new[x] = map[x]
    BY DEF Put
  <1> HIDE DEF new
  <1>2. IsMap(new) /\ Range(new) \subseteq Range(map) \cup {c} /\ c \in Range(new)
    BY <1>1 DEF IsMap, Range, Codes
  <1>3. Range(map) \ Who(map, k) \subseteq Range(new)
    BY <1>1 DEF Range, Who
  <1> QED
    BY <1>1, <1>2, <1>3 DEF new

\* HashMap::remove: one entry goes, the others stay.
LEMMA DropFacts ==
  ASSUME NEW map, IsMap(map), NEW k
  PROVE  /\ IsMap(Drop(map, k))
         /\ \A x \in DOMAIN map : x # k =>
              x \in DOMAIN Drop(map, k) /\ Drop(map, k)[x] = map[x]
         /\ Range(Drop(map, k)) \subseteq Range(map)
         /\ Range(map) \ Who(map, k) \subseteq Range(Drop(map, k))
  <1> DEFINE new == Drop(map, k)
  <1>1. /\ DOMAIN new = DOMAIN map \ {k}
        /\ \A x \in DOMAIN map : x # k => new[x] = map[x]
    BY DEF Drop, Restrict
  <1> HIDE DEF new
  <1>2. IsMap(new) /\ Range(new) \subseteq Range(map)
    BY <1>1 DEF IsMap, Range
  <1>3. Range(map) \ Who(map, k) \subseteq Range(new)
    BY <1>1 DEF Range, Who
  <1> QED
    BY <1>1, <1>2, <1>3 DEF new

\* An empty map.
LEMMA EmptyFacts == IsMap(<<>>) /\ Range(<<>>) = {}
  BY DEF IsMap, Range

\* What the answers to cs do to a caller.
Told(new, cs) ==
  \A c \in Callers :
    new[c].at = IF c \in cs /\ Waiting(c) THEN "done" ELSE caller[c].at

Same(new, c) ==
  /\ new[c].op = caller[c].op
  /\ new[c].epoch = caller[c].epoch /\ new[c].handle = caller[c].handle

\* An answer changes nothing but that the caller no longer waits.
LEMMA AnsweredFacts ==
  ASSUME caller \in CallerStates, NEW cs
  PROVE  /\ Answered(cs) \in CallerStates /\ Told(Answered(cs), cs)
         /\ \A c \in Callers : Same(Answered(cs), c)
  <1>1. \A c \in Callers :
          Answered(cs)[c] = IF c \in cs /\ Waiting(c) THEN [caller[c] EXCEPT !.at = "done"]
                            ELSE caller[c]
    BY DEF Answered
  <1>2. \A c \in Callers :
          /\ caller[c] \in [at : {"idle", "sending", "waiting", "done"}, op : Ops,
                            epoch : 0 .. MaxConnects, handle : Codes]
          /\ [caller[c] EXCEPT !.at = "done"] \in
               [at : {"idle", "sending", "waiting", "done"}, op : Ops,
                epoch : 0 .. MaxConnects, handle : Codes]
    BY DEF CallerStates
  <1>3. Answered(cs) \in CallerStates
    BY <1>2 DEF Answered, CallerStates
  <1>4. \A c \in Callers : [caller[c] EXCEPT !.at = "done"].at = "done"
    BY <1>2
  <1> QED
    BY <1>1, <1>2, <1>3, <1>4 DEF Told, Same

\* A call got the handle k: its caller is noted, and one that had the number
\* before is told.
LEMMA StoredFacts ==
  ASSUME caller \in CallerStates, epoch \in 0 .. MaxConnects,
         NEW c0 \in Callers, recv = <<c0>>, NEW map, NEW k \in Codes, Stored(map, k)
  PROVE  /\ caller' \in CallerStates /\ Told(caller', Who(map, k))
         /\ \A c \in Callers \ {c0} : Same(caller', c)
         /\ caller'[c0].op = caller[c0].op
         /\ caller'[c0].epoch = epoch /\ caller'[c0].handle = k
  <1> DEFINE new == Answered(Who(map, k))
  <1>1. caller' = [new EXCEPT ![c0].epoch = epoch, ![c0].handle = k]
    BY DEF Stored
  <1>2. new \in CallerStates /\ Told(new, Who(map, k)) /\ \A c \in Callers : Same(new, c)
    BY AnsweredFacts
  <1> HIDE DEF new
  <1>3. /\ caller' \in CallerStates
        /\ \A c \in Callers \ {c0} : caller'[c] = new[c]
        /\ caller'[c0].op = new[c0].op /\ caller'[c0].at = new[c0].at
        /\ caller'[c0].epoch = epoch /\ caller'[c0].handle = k
    BY <1>1, <1>2 DEF CallerStates
  <1> QED
    BY <1>2, <1>3 DEF Told, Same

-----------------------------------------------------------------------------
(* Kinds of steps.                                                         *)

\* The maps and sets lose nobody but those in cs and gain at most new ones.
MapsKeep(cs, new) ==
  /\ IsMap(commands)' /\ IsMap(downloads)' /\ IsMap(uploads)'
  /\ Range(commands') \subseteq Range(commands) \cup {c \in new : caller[c].op = "command"}
  /\ Range(downloads') \subseteq Range(downloads) \cup {c \in new : caller[c].op = "download"}
  /\ Range(uploads') \subseteq Range(uploads) \cup {c \in new : caller[c].op = "upload"}
  /\ connects' \subseteq connects \cup {c \in new : caller[c].op = "connect"}
  /\ disconnects' \subseteq disconnects \cup {c \in new : caller[c].op = "disconnect"}
  /\ \A c \in Elsewhere : c \in cs \/ c \in Elsewhere'

\* Everybody in a place is a caller.
LEMMA ElsewhereType == ASSUME Typed PROVE Elsewhere \subseteq Callers
  BY DEF Typed, Elsewhere, IsMap

\* A step that tells the callers in cs and takes nothing out of the channel.
LEMMA TellStep ==
  ASSUME IInv, SessionTyped', CommandPart', recv' = recv, epoch <= epoch',
         NEW cs, caller' \in CallerStates, Told(caller', cs),
         \A c \in Callers : Same(caller', c), MapsKeep(cs, {})
  PROVE  IInv'
  <1>1. Typed'
    BY DEF IInv, Typed, MapsKeep
  <1>2. /\ Elsewhere' \subseteq Elsewhere
        /\ Elsewhere \subseteq Callers
    BY ElsewhereType DEF IInv, MapsKeep, Elsewhere
  <1>3. \A c \in Callers : caller'[c].at \in {"idle", "sending"} =>
          caller[c].at \in {"idle", "sending"}
    BY DEF Told
  <1>4. FreshPart'
    BY <1>2, <1>3 DEF IInv, FreshPart, Same
  <1>5. PlacePart'
    <2>1. \A c \in Callers : caller'[c].op = caller[c].op
      BY DEF Same
    <2>2. /\ Range(commands) \subseteq Callers /\ Range(downloads) \subseteq Callers
          /\ Range(uploads) \subseteq Callers /\ connects \subseteq Callers
          /\ disconnects \subseteq Callers
      BY DEF IInv, Typed, IsMap
    <2> QED
      BY <2>1, <2>2 DEF IInv, PlacePart, MapsKeep
  <1>6. \A c \in Callers : Waiting(c)' => Waiting(c) /\ c \notin cs
    BY DEF Told, Waiting
  <1>7. WaitPart'
    BY <1>6 DEF IInv, WaitPart, MapsKeep
  <1>8. EpochPart'
    <2>1. \A c \in Callers : caller[c].epoch \in Nat /\ caller[c].epoch <= epoch
      BY DEF IInv, EpochPart, Typed, CallerStates
    <2>2. epoch \in Nat /\ epoch' \in Nat
      BY DEF IInv, SessionTyped
    <2> QED
      BY <2>1, <2>2 DEF EpochPart, Same
  <1> QED
    BY <1>1, <1>4, <1>5, <1>7, <1>8 DEF IInv

\* A step that takes the request of c0 out of the channel: c0 is told or is
\* put where its request belongs.
LEMMA TakeStep ==
  ASSUME IInv, SessionTyped', CommandPart', epoch' = epoch,
         NEW c0 \in Callers, recv = <<c0>>, recv' = <<>>,
         NEW cs, caller' \in CallerStates, Told(caller', cs),
         \A c \in Callers \ {c0} : Same(caller', c),
         caller'[c0].op = caller[c0].op, caller'[c0].epoch <= epoch,
         MapsKeep(cs, {c0}), c0 \in cs \/ c0 \in Elsewhere'
  PROVE  IInv'
  <1>1. Typed'
    BY DEF IInv, Typed, MapsKeep
  <1>2. /\ Elsewhere' \subseteq Elsewhere \cup {c0}
        /\ Elsewhere \subseteq Callers
    BY ElsewhereType DEF IInv, MapsKeep, Elsewhere
  <1>3. \A c \in Callers : caller'[c].at \in {"idle", "sending"} =>
          caller[c].at \in {"idle", "sending"} /\ c # c0
    BY DEF Told, IInv, FreshPart
  <1>4. FreshPart'
    <2>1. \A c \in Callers : recv' # <<c>>
      OBVIOUS
    <2> QED
      BY <1>2, <1>3, <2>1 DEF IInv, FreshPart, Same
  <1>5. PlacePart'
    <2>1. \A c \in Callers : caller'[c].op = caller[c].op
      BY DEF Same
    <2>2. /\ Range(commands) \subseteq Callers /\ Range(downloads) \subseteq Callers
          /\ Range(uploads) \subseteq Callers /\ connects \subseteq Callers
          /\ disconnects \subseteq Callers
      BY DEF IInv, Typed, IsMap
    <2> QED
      BY <2>1, <2>2 DEF IInv, PlacePart, MapsKeep
  <1>6. \A c \in Callers : Waiting(c)' => Waiting(c) /\ c \notin cs
    BY DEF Told, Waiting
  <1>7. \A c \in Callers : recv = <<c>> => c = c0
    OBVIOUS
  <1>8. WaitPart'
    BY <1>6, <1>7 DEF IInv, WaitPart, MapsKeep
  <1>9. EpochPart'
    BY DEF IInv, EpochPart, Same
  <1> QED
    BY <1>1, <1>4, <1>5, <1>8, <1>9 DEF IInv

\* A step that leaves the commands alone: their answers are still found.
LEMMA CommandsKept ==
  ASSUME IInv, NEW cs, Told(caller', cs), epoch' = epoch, phase' = phase, commands' = commands,
         \A n \in Codes : Result(n) \in pending => Result(n) \in pending',
         \A c \in Callers : caller'[c].op = "command" => Same(caller', c)
  PROVE  CommandPart'
  <1> SUFFICES ASSUME NEW c \in Callers, Current(c)', caller'[c].op = "command"
               PROVE  LET h == caller'[c].handle IN
                        Result(h) \in pending' /\ h \in DOMAIN commands' /\ commands'[h] = c
    BY DEF CommandPart
  <1>1. Current(c) /\ caller[c].op = "command" /\ caller'[c].handle = caller[c].handle
    BY DEF Current, Waiting, Told, Same
  <1>2. caller[c].handle \in Codes
    BY DEF IInv, Typed, CallerStates
  <1> QED
    BY <1>1, <1>2 DEF IInv, CommandPart

\* A step that leaves no connection, or a new one, has nobody to find.
LEMMA NobodyCurrent ==
  ASSUME IInv, SessionTyped', \A c \in Callers : Same(caller', c),
         phase' # "connected" \/ epoch' = epoch + 1, NEW c \in Callers
  PROVE  ~Current(c)'
  <1>1. /\ caller[c].epoch \in Nat /\ caller[c].epoch <= epoch
        /\ caller'[c].epoch = caller[c].epoch /\ epoch \in Nat
    BY DEF IInv, EpochPart, Typed, CallerStates, Same, SessionTyped
  <1> QED
    BY <1>1 DEF Current

\* The Connection keeps its types, and connections are only counted up.
LEMMA SessionKeeps ==
  ASSUME SessionTyped,
         \/ Establish \/ Lose \/ Finish \/ SendWithResult \/ Transmit \/ Close
         \/ (\E h : AnswerHandle(h)) \/ UNCHANGED session
  PROVE  SessionTyped' /\ epoch <= epoch' /\ epoch \in Nat
  <1>1. Follow(code) \in Codes /\ Follow(transfer) \in Codes /\ 0 \in Codes
    BY FollowFacts, SyncAssumption DEF SessionTyped, Codes
  <1>2. Result(code) \in Handles /\ Transfer(transfer) \in Handles
    BY HandleFacts DEF SessionTyped
  <1>3. CASE Establish
    BY <1>1, <1>3, SyncAssumption DEF Establish, SessionTyped
  <1>4. CASE Lose \/ Finish
    BY <1>1, <1>4, SyncAssumption DEF Lose, Finish, SessionTyped
  <1>5. CASE SendWithResult \/ Transmit
    BY <1>1, <1>2, <1>5, SyncAssumption DEF SendWithResult, Transmit, SessionTyped
  <1>6. CASE Close \/ (\E h : AnswerHandle(h)) \/ UNCHANGED session
    BY <1>6, SyncAssumption DEF Close, AnswerHandle, session, SessionTyped
  <1> QED
    BY <1>3, <1>4, <1>5, <1>6

\* A request leaves the connection as it is and forgets no handle.
LEMMA RequestFacts ==
  ASSUME SendWithResult \/ Transmit \/ Close \/ UNCHANGED session
  PROVE  phase' = phase /\ epoch' = epoch /\ pending \subseteq pending'
  BY DEF SendWithResult, Transmit, Close, session

\* The maps do not change.
LEMMA MapsSame ==
  ASSUME Typed, UNCHANGED <<maps, waits>>, NEW cs, NEW new
  PROVE  MapsKeep(cs, new)
  BY DEF MapsKeep, Typed, maps, waits, Elsewhere

\* Message::SendCommand: the caller is noted in commands.
LEMMA PutCommands ==
  ASSUME Typed, NEW k \in Codes, NEW c0 \in Callers, caller[c0].op = "command",
         commands' = Put(commands, k, c0), UNCHANGED <<downloads, uploads, waits>>
  PROVE  MapsKeep(Who(commands, k), {c0}) /\ c0 \in Elsewhere'
  <1> DEFINE new == Put(commands, k, c0)
  <1>1. /\ IsMap(new) /\ Range(new) \subseteq Range(commands) \cup {c0} /\ c0 \in Range(new)
        /\ Range(commands) \ Who(commands, k) \subseteq Range(new)
    BY PutFacts DEF Typed
  <1>2. commands' = new
    OBVIOUS
  <1> HIDE DEF new
  <1> QED
    BY <1>1, <1>2 DEF MapsKeep, Elsewhere, Typed, waits

\* Message::Download: the caller is noted in downloads.
LEMMA PutDownloads ==
  ASSUME Typed, NEW k \in Codes, NEW c0 \in Callers, caller[c0].op = "download",
         downloads' = Put(downloads, k, c0), UNCHANGED <<commands, uploads, waits>>
  PROVE  MapsKeep(Who(downloads, k), {c0}) /\ c0 \in Elsewhere'
  <1> DEFINE new == Put(downloads, k, c0)
  <1>1. /\ IsMap(new) /\ Range(new) \subseteq Range(downloads) \cup {c0} /\ c0 \in Range(new)
        /\ Range(downloads) \ Who(downloads, k) \subseteq Range(new)
    BY PutFacts DEF Typed
  <1>2. downloads' = new
    OBVIOUS
  <1> HIDE DEF new
  <1> QED
    BY <1>1, <1>2 DEF MapsKeep, Elsewhere, Typed, waits

\* Message::Upload: the caller is noted in uploads.
LEMMA PutUploads ==
  ASSUME Typed, NEW k \in Codes, NEW c0 \in Callers, caller[c0].op = "upload",
         uploads' = Put(uploads, k, c0), UNCHANGED <<commands, downloads, waits>>
  PROVE  MapsKeep(Who(uploads, k), {c0}) /\ c0 \in Elsewhere'
  <1> DEFINE new == Put(uploads, k, c0)
  <1>1. /\ IsMap(new) /\ Range(new) \subseteq Range(uploads) \cup {c0} /\ c0 \in Range(new)
        /\ Range(uploads) \ Who(uploads, k) \subseteq Range(new)
    BY PutFacts DEF Typed
  <1>2. uploads' = new
    OBVIOUS
  <1> HIDE DEF new
  <1> QED
    BY <1>1, <1>2 DEF MapsKeep, Elsewhere, Typed, waits

\* An answer is looked up in commands.
LEMMA DropCommands ==
  ASSUME Typed, NEW k, commands' = Drop(commands, k), UNCHANGED <<downloads, uploads, waits>>
  PROVE  MapsKeep(Who(commands, k), {})
  <1> DEFINE new == Drop(commands, k)
  <1>1. /\ IsMap(new) /\ Range(new) \subseteq Range(commands)
        /\ Range(commands) \ Who(commands, k) \subseteq Range(new)
    BY DropFacts DEF Typed
  <1>2. commands' = new
    OBVIOUS
  <1> HIDE DEF new
  <1> QED
    BY <1>1, <1>2 DEF MapsKeep, Elsewhere, Typed, waits

\* An answer is looked up in downloads.
LEMMA DropDownloads ==
  ASSUME Typed, NEW k, downloads' = Drop(downloads, k), UNCHANGED <<commands, uploads, waits>>
  PROVE  MapsKeep(Who(downloads, k), {})
  <1> DEFINE new == Drop(downloads, k)
  <1>1. /\ IsMap(new) /\ Range(new) \subseteq Range(downloads)
        /\ Range(downloads) \ Who(downloads, k) \subseteq Range(new)
    BY DropFacts DEF Typed
  <1>2. downloads' = new
    OBVIOUS
  <1> HIDE DEF new
  <1> QED
    BY <1>1, <1>2 DEF MapsKeep, Elsewhere, Typed, waits

\* An answer is looked up in uploads.
LEMMA DropUploads ==
  ASSUME Typed, NEW k, uploads' = Drop(uploads, k), UNCHANGED <<commands, downloads, waits>>
  PROVE  MapsKeep(Who(uploads, k), {})
  <1> DEFINE new == Drop(uploads, k)
  <1>1. /\ IsMap(new) /\ Range(new) \subseteq Range(uploads)
        /\ Range(uploads) \ Who(uploads, k) \subseteq Range(new)
    BY DropFacts DEF Typed
  <1>2. uploads' = new
    OBVIOUS
  <1> HIDE DEF new
  <1> QED
    BY <1>1, <1>2 DEF MapsKeep, Elsewhere, Typed, waits

-----------------------------------------------------------------------------
(* Every step keeps the invariant.                                         *)

\* poll_next takes a message.
LEMMA TakesFacts ==
  ASSUME IInv, NEW op, Takes(op)
  PROVE  \E c0 \in Callers : /\ recv = <<c0>> /\ recv' = <<>> /\ Head(recv) = c0
                              /\ caller[c0].op = op
  BY DEF Takes, IInv, Typed

\* A request that is answered at once.
LEMMA RequestTold ==
  ASSUME IInv, NEW c0 \in Callers, recv = <<c0>>, recv' = <<>>,
         SendWithResult \/ Transmit \/ Close \/ UNCHANGED session,
         caller' = Answered({c0}), UNCHANGED <<maps, waits>>
  PROVE  IInv'
  <1>1. SessionTyped' /\ epoch' = epoch /\ phase' = phase /\ pending \subseteq pending'
    BY SessionKeeps, RequestFacts DEF IInv
  <1>2. /\ caller' \in CallerStates /\ Told(caller', {c0})
        /\ \A c \in Callers : Same(caller', c)
    BY AnsweredFacts DEF IInv, Typed
  <1>3. MapsKeep({c0}, {c0}) /\ commands' = commands
    BY MapsSame DEF IInv, maps
  <1>4. CommandPart'
    BY <1>1, <1>2, <1>3, CommandsKept
  <1>5. caller'[c0].op = caller[c0].op /\ caller'[c0].epoch <= epoch
    BY <1>2 DEF Same, IInv, EpochPart
  <1> QED
    BY <1>1, <1>2, <1>3, <1>4, <1>5, TakeStep

\* A request whose caller has to wait for the connection.
LEMMA RequestWaits ==
  ASSUME IInv, NEW c0 \in Callers, recv = <<c0>>, recv' = <<>>,
         Close \/ UNCHANGED session, UNCHANGED <<caller, maps>>,
         \/ /\ caller[c0].op = "connect" /\ connects' = connects \cup {c0}
            /\ disconnects' = disconnects
         \/ /\ caller[c0].op = "disconnect" /\ disconnects' = disconnects \cup {c0}
            /\ connects' = connects
  PROVE  IInv'
  <1>1. SessionTyped' /\ epoch' = epoch /\ phase' = phase /\ pending \subseteq pending'
    BY SessionKeeps, RequestFacts DEF IInv
  <1>2. /\ caller' \in CallerStates /\ Told(caller', {}) /\ \A c \in Callers : Same(caller', c)
    BY DEF IInv, Typed, Told, Same
  <1>3. MapsKeep({}, {c0}) /\ c0 \in Elsewhere' /\ commands' = commands
    BY DEF IInv, Typed, MapsKeep, Elsewhere, maps
  <1>4. CommandPart'
    BY <1>1, <1>2, <1>3, CommandsKept
  <1>5. caller'[c0].op = caller[c0].op /\ caller'[c0].epoch <= epoch
    BY <1>2 DEF Same, IInv, EpochPart
  <1> QED
    BY <1>1, <1>2, <1>3, <1>4, <1>5, TakeStep

\* Message::RunFn
LEMMA RunFnKeeps == ASSUME IInv, RunFn PROVE IInv'
  <1>1. PICK c0 \in Callers : recv = <<c0>> /\ recv' = <<>> /\ Head(recv) = c0
    BY TakesFacts DEF RunFn
  <1> QED
    BY <1>1, RequestTold DEF RunFn

\* Message::WaitConnected
LEMMA WaitConnectedKeeps == ASSUME IInv, WaitConnected PROVE IInv'
  <1>1. PICK c0 \in Callers : /\ recv = <<c0>> /\ recv' = <<>> /\ Head(recv) = c0
                              /\ caller[c0].op = "connect"
    BY TakesFacts DEF WaitConnected
  <1>2. CASE phase = "connected"
    BY <1>1, <1>2, RequestTold DEF WaitConnected, waits
  <1>3. CASE phase # "connected"
    BY <1>1, <1>3, RequestWaits DEF WaitConnected
  <1> QED
    BY <1>2, <1>3

\* Message::Disconnect
LEMMA DisconnectKeeps == ASSUME IInv, Disconnect PROVE IInv'
  <1>1. PICK c0 \in Callers : /\ recv = <<c0>> /\ recv' = <<>> /\ Head(recv) = c0
                              /\ caller[c0].op = "disconnect"
    BY TakesFacts DEF Disconnect
  <1> QED
    BY <1>1, RequestWaits DEF Disconnect, Refused

\* Message::SendCommand
LEMMA SendCommandKeeps == ASSUME IInv, SendCommand PROVE IInv'
  <1>1. PICK c0 \in Callers : /\ recv = <<c0>> /\ recv' = <<>> /\ Head(recv) = c0
                              /\ caller[c0].op = "command"
    BY TakesFacts DEF SendCommand
  <1>2. CASE Refused /\ caller' = Answered({c0}) /\ UNCHANGED <<maps, waits>>
    BY <1>1, <1>2, RequestTold DEF Refused
  <1>3. CASE /\ SendWithResult /\ commands' = Put(commands, code, c0) /\ Stored(commands, code)
             /\ UNCHANGED <<downloads, uploads, waits>>
    <2>1. /\ SessionTyped' /\ epoch' = epoch /\ phase' = phase
          /\ pending' = pending \cup {Result(code)}
          /\ code \in Codes /\ Typed /\ epoch \in Nat
      BY <1>3, SessionKeeps, RequestFacts DEF IInv, SessionTyped, SendWithResult
    <2>2. /\ caller' \in CallerStates /\ Told(caller', Who(commands, code))
          /\ \A c \in Callers \ {c0} : Same(caller', c)
          /\ caller'[c0].op = caller[c0].op /\ caller'[c0].epoch = epoch
          /\ caller'[c0].handle = code
      BY <1>1, <1>3, StoredFacts DEF IInv, SessionTyped, Typed
    <2>3. MapsKeep(Who(commands, code), {c0}) /\ c0 \in Elsewhere'
      BY <1>1, <1>3, <2>1, PutCommands
    <2>4. CommandPart'
      <3> SUFFICES ASSUME NEW c \in Callers, Current(c)', caller'[c].op = "command"
                   PROVE  /\ Result(caller'[c].handle) \in pending'
                          /\ caller'[c].handle \in DOMAIN commands'
                          /\ commands'[caller'[c].handle] = c
        BY DEF CommandPart
      <3>1. /\ code \in DOMAIN commands' /\ commands'[code] = c0
            /\ \A x \in DOMAIN commands : x # code =>
                 x \in DOMAIN commands' /\ commands'[x] = commands[x]
        BY <1>3, <2>1, PutFacts DEF Typed
      <3>2. CASE c = c0
        BY <2>1, <2>2, <3>1, <3>2
      <3>3. CASE c # c0
        <4>1. /\ Current(c) /\ caller[c].op = "command" /\ c \notin Who(commands, code)
              /\ caller'[c].handle = caller[c].handle
          BY <2>1, <2>2, <3>3 DEF Current, Waiting, Told, Same
        <4>2. /\ Result(caller[c].handle) \in pending /\ caller[c].handle \in DOMAIN commands
              /\ commands[caller[c].handle] = c
          BY <4>1 DEF IInv, CommandPart
        <4>3. caller[c].handle # code
          BY <4>1, <4>2 DEF Who
        <4> QED
          BY <2>1, <3>1, <4>1, <4>2, <4>3
      <3> QED
        BY <3>2, <3>3
    <2> QED
      BY <1>1, <2>1, <2>2, <2>3, <2>4, TakeStep
  <1> QED
    BY <1>1, <1>2, <1>3 DEF SendCommand, maps

\* Message::DownloadFile
LEMMA DownloadFileKeeps == ASSUME IInv, DownloadFile PROVE IInv'
  <1>1. PICK c0 \in Callers : /\ recv = <<c0>> /\ recv' = <<>> /\ Head(recv) = c0
                              /\ caller[c0].op = "download"
    BY TakesFacts DEF DownloadFile
  <1>2. CASE Refused /\ caller' = Answered({c0}) /\ UNCHANGED <<maps, waits>>
    BY <1>1, <1>2, RequestTold DEF Refused
  <1>3. CASE /\ Transmit /\ downloads' = Put(downloads, transfer, c0) /\ Stored(downloads, transfer)
             /\ UNCHANGED <<commands, uploads, waits>>
    <2>1. /\ SessionTyped' /\ epoch' = epoch /\ phase' = phase /\ pending \subseteq pending'
          /\ transfer \in Codes /\ Typed /\ epoch \in Nat
      BY <1>3, SessionKeeps, RequestFacts DEF IInv, SessionTyped
    <2>2. /\ caller' \in CallerStates /\ Told(caller', Who(downloads, transfer))
          /\ \A c \in Callers \ {c0} : Same(caller', c)
          /\ caller'[c0].op = caller[c0].op /\ caller'[c0].epoch = epoch
      BY <1>1, <1>3, StoredFacts DEF IInv, SessionTyped, Typed
    <2>3. MapsKeep(Who(downloads, transfer), {c0}) /\ c0 \in Elsewhere'
      BY <1>1, <1>3, <2>1, PutDownloads
    <2>4. \A c \in Callers : caller'[c].op = "command" => Same(caller', c)
      BY <1>1, <2>2
    <2>5. CommandPart'
      BY <1>3, <2>1, <2>2, <2>4, CommandsKept
    <2> QED
      BY <1>1, <2>1, <2>2, <2>3, <2>5, TakeStep
  <1> QED
    BY <1>1, <1>2, <1>3 DEF DownloadFile, maps

\* Message::UploadFile
LEMMA UploadFileKeeps == ASSUME IInv, UploadFile PROVE IInv'
  <1>1. PICK c0 \in Callers : /\ recv = <<c0>> /\ recv' = <<>> /\ Head(recv) = c0
                              /\ caller[c0].op = "upload"
    BY TakesFacts DEF UploadFile
  <1>2. CASE Refused /\ caller' = Answered({c0}) /\ UNCHANGED <<maps, waits>>
    BY <1>1, <1>2, RequestTold DEF Refused
  <1>3. CASE /\ Transmit /\ uploads' = Put(uploads, transfer, c0) /\ Stored(uploads, transfer)
             /\ UNCHANGED <<commands, downloads, waits>>
    <2>1. /\ SessionTyped' /\ epoch' = epoch /\ phase' = phase /\ pending \subseteq pending'
          /\ transfer \in Codes /\ Typed /\ epoch \in Nat
      BY <1>3, SessionKeeps, RequestFacts DEF IInv, SessionTyped
    <2>2. /\ caller' \in CallerStates /\ Told(caller', Who(uploads, transfer))
          /\ \A c \in Callers \ {c0} : Same(caller', c)
          /\ caller'[c0].op = caller[c0].op /\ caller'[c0].epoch = epoch
      BY <1>1, <1>3, StoredFacts DEF IInv, SessionTyped, Typed
    <2>3. MapsKeep(Who(uploads, transfer), {c0}) /\ c0 \in Elsewhere'
      BY <1>1, <1>3, <2>1, PutUploads
    <2>4. \A c \in Callers : caller'[c].op = "command" => Same(caller', c)
      BY <1>1, <2>2
    <2>5. CommandPart'
      BY <1>3, <2>1, <2>2, <2>4, CommandsKept
    <2> QED
      BY <1>1, <2>1, <2>2, <2>3, <2>5, TakeStep
  <1> QED
    BY <1>1, <1>2, <1>3 DEF UploadFile, maps

\* StreamItem::MessageResult
LEMMA MessageResultKeeps ==
  ASSUME IInv, NEW n \in Codes, MessageResult(n) PROVE IInv'
  <1>1. /\ AnswerHandle(Result(n)) /\ caller' = Answered(Who(commands, n))
        /\ commands' = Drop(commands, n) /\ recv' = recv
        /\ UNCHANGED <<downloads, uploads, waits>>
    BY DEF MessageResult, Polls, Delivered
  <1>2. /\ SessionTyped' /\ epoch <= epoch' /\ Typed
        /\ pending' = pending \ {Result(n)} /\ epoch' = epoch /\ phase' = phase
    BY <1>1, SessionKeeps DEF IInv, AnswerHandle
  <1>3. /\ caller' \in CallerStates /\ Told(caller', Who(commands, n))
        /\ \A c \in Callers : Same(caller', c)
    BY <1>1, <1>2, AnsweredFacts DEF Typed
  <1>4. MapsKeep(Who(commands, n), {})
    BY <1>1, <1>2, DropCommands
  <1>5. CommandPart'
    <2> SUFFICES ASSUME NEW c \in Callers, Current(c)', caller'[c].op = "command"
                 PROVE  /\ Result(caller'[c].handle) \in pending'
                        /\ caller'[c].handle \in DOMAIN commands'
                        /\ commands'[caller'[c].handle] = c
      BY DEF CommandPart
    <2>1. /\ Current(c) /\ caller[c].op = "command" /\ c \notin Who(commands, n)
          /\ caller'[c].handle = caller[c].handle
      BY <1>2, <1>3 DEF Current, Waiting, Told, Same
    <2>2. /\ Result(caller[c].handle) \in pending /\ caller[c].handle \in DOMAIN commands
          /\ commands[caller[c].handle] = c
      BY <2>1 DEF IInv, CommandPart
    <2>3. caller[c].handle # n
      BY <2>1, <2>2 DEF Who
    <2>4. \A x \in DOMAIN commands : x # n => x \in DOMAIN commands' /\ commands'[x] = commands[x]
      BY <1>1, <1>2, DropFacts DEF Typed
    <2> QED
      BY <1>2, <2>1, <2>2, <2>3, <2>4, HandleFacts
  <1> QED
    BY <1>1, <1>2, <1>3, <1>4, <1>5, TellStep

\* A file transfer is answered to the one who waits in one of the maps.
LEMMA FileAnswered ==
  ASSUME IInv, NEW n \in Codes, AnswerHandle(Transfer(n)), recv' = recv,
         UNCHANGED <<commands, waits>>,
         \/ /\ caller' = Answered(Who(downloads, n)) /\ downloads' = Drop(downloads, n)
            /\ uploads' = uploads
         \/ /\ caller' = Answered(Who(uploads, n)) /\ uploads' = Drop(uploads, n)
            /\ downloads' = downloads
  PROVE  IInv'
  <1>1. /\ SessionTyped' /\ epoch <= epoch' /\ Typed
        /\ pending' = pending \ {Transfer(n)} /\ epoch' = epoch /\ phase' = phase
    BY SessionKeeps DEF IInv, AnswerHandle
  <1>2. PICK cs : caller' = Answered(cs) /\ MapsKeep(cs, {})
    <2>1. CASE /\ caller' = Answered(Who(downloads, n)) /\ downloads' = Drop(downloads, n)
               /\ uploads' = uploads
      BY <1>1, <2>1, DropDownloads
    <2>2. CASE /\ caller' = Answered(Who(uploads, n)) /\ uploads' = Drop(uploads, n)
               /\ downloads' = downloads
      BY <1>1, <2>2, DropUploads
    <2> QED
      BY <2>1, <2>2
  <1>3. /\ caller' \in CallerStates /\ Told(caller', cs) /\ \A c \in Callers : Same(caller', c)
    BY <1>1, <1>2, AnsweredFacts DEF Typed
  <1>4. \A m \in Codes : Result(m) \in pending => Result(m) \in pending'
    BY <1>1, HandleFacts
  <1>5. CommandPart'
    BY <1>1, <1>3, <1>4, CommandsKept
  <1> QED
    BY <1>1, <1>2, <1>3, <1>5, TellStep

\* StreamItem::FileDownload, StreamItem::FileUpload and
\* StreamItem::FiletransferFailed
LEMMA TransferItemKeeps ==
  ASSUME IInv, NEW n \in Codes, FileDownload(n) \/ FileUpload(n) \/ FiletransferFailed(n)
  PROVE  IInv'
  BY FileAnswered DEF FileDownload, FileUpload, FiletransferFailed, Polls, Delivered

\* A new connection, a lost one or the last one.
LEMMA ConnectionKeeps ==
  ASSUME IInv, Establish \/ Lose \/ Finish, recv' = recv, UNCHANGED maps,
         \/ caller' = Answered(connects) /\ connects' = {} /\ disconnects' = disconnects
         \/ caller' = Answered(disconnects) /\ disconnects' = {} /\ connects' = connects
         \/ UNCHANGED <<caller, waits>>
  PROVE  IInv'
  <1>1. /\ SessionTyped' /\ epoch <= epoch' /\ Typed
        /\ phase' # "connected" \/ epoch' = epoch + 1
    BY SessionKeeps DEF IInv, Establish, Lose, Finish
  <1>2. PICK cs : /\ caller' \in CallerStates /\ Told(caller', cs)
                  /\ \A c \in Callers : Same(caller', c)
                  /\ MapsKeep(cs, {})
    <2>1. CASE caller' = Answered(connects) /\ connects' = {} /\ disconnects' = disconnects
      <3>1. MapsKeep(connects, {})
        BY <1>1, <2>1 DEF Typed, MapsKeep, Elsewhere, maps
      <3> QED
        BY <1>1, <2>1, <3>1, AnsweredFacts DEF Typed
    <2>2. CASE caller' = Answered(disconnects) /\ disconnects' = {} /\ connects' = connects
      <3>1. MapsKeep(disconnects, {})
        BY <1>1, <2>2 DEF Typed, MapsKeep, Elsewhere, maps
      <3> QED
        BY <1>1, <2>2, <3>1, AnsweredFacts DEF Typed
    <2>3. CASE UNCHANGED <<caller, waits>>
      <3>1. MapsKeep({}, {})
        BY <1>1, <2>3, MapsSame
      <3>2. /\ caller' \in CallerStates /\ Told(caller', {})
            /\ \A c \in Callers : Same(caller', c)
        BY <1>1, <2>3 DEF Typed, Told, Same
      <3> QED
        BY <3>1, <3>2
    <2> QED
      BY <2>1, <2>2, <2>3
  <1>3. CommandPart'
    BY <1>1, <1>2, NobodyCurrent DEF CommandPart
  <1> QED
    BY <1>1, <1>2, <1>3, TellStep

\* The SyncConnection is dropped: nobody waits any more.
LEMMA DropConnectionKeeps == ASSUME IInv, DropConnection PROVE IInv'
  <1>1. /\ UNCHANGED session /\ caller' = Answered(Callers) /\ recv' = <<>>
        /\ commands' = <<>> /\ downloads' = <<>> /\ uploads' = <<>>
        /\ connects' = {} /\ disconnects' = {}
    BY DEF DropConnection
  <1>2. SessionTyped' /\ epoch' = epoch /\ Typed
    BY <1>1, SessionKeeps DEF IInv, session
  <1>3. /\ caller' \in CallerStates /\ Told(caller', Callers)
        /\ \A c \in Callers : Same(caller', c)
    BY <1>1, <1>2, AnsweredFacts DEF Typed
  <1>4. \A c \in Callers : ~Waiting(c)'
    BY <1>3 DEF Told, Waiting
  <1>5. Elsewhere' = {} /\ Typed'
    BY <1>1, <1>3, EmptyFacts DEF Elsewhere, Typed
  <1>6. WaitPart' /\ CommandPart'
    BY <1>4 DEF WaitPart, CommandPart, Current
  <1>7. PlacePart'
    BY <1>1, EmptyFacts DEF PlacePart
  <1>8. EpochPart'
    BY <1>2, <1>3 DEF IInv, EpochPart, Same
  <1>9. FreshPart'
    <2>1. \A c \in Callers : recv' # <<c>>
      BY <1>1
    <2>2. \A c \in Callers : caller'[c].at \in {"idle", "sending"} =>
            caller[c].at \in {"idle", "sending"}
      BY <1>3 DEF Told
    <2> QED
      BY <1>3, <1>5, <2>1, <2>2 DEF IInv, FreshPart, Same
  <1> QED
    BY <1>2, <1>5, <1>6, <1>7, <1>8, <1>9 DEF IInv

\* The callers.
LEMMA CallersKeep ==
  ASSUME IInv, NEW c0 \in Callers,
         Enqueue(c0) \/ Cancel(c0) \/ \E op \in Ops : Call(c0, op)
  PROVE  IInv'
  <1>1. /\ UNCHANGED <<session, maps, waits>> /\ UNCHANGED Elsewhere
        /\ commands' = commands /\ epoch' = epoch /\ phase' = phase /\ pending' = pending
    BY DEF Enqueue, Cancel, Call, session, maps, waits, Elsewhere
  <1>2. SessionTyped' /\ Typed
    BY <1>1, SessionKeeps DEF IInv
  <1>3. \A c \in Callers :
          caller[c] \in [at : {"idle", "sending", "waiting", "done"}, op : Ops,
                         epoch : 0 .. MaxConnects, handle : Codes]
    BY <1>2 DEF Typed, CallerStates
  <1>4. CASE Cancel(c0)
    <2>1. caller' = Answered({c0}) /\ recv' = recv
      BY <1>2, <1>4 DEF Cancel, Answered, Typed, CallerStates
    <2>2. /\ caller' \in CallerStates /\ Told(caller', {c0})
          /\ \A c \in Callers : Same(caller', c)
      BY <1>2, <2>1, AnsweredFacts DEF Typed
    <2>3. CommandPart'
      BY <1>1, <2>2, CommandsKept
    <2>4. MapsKeep({c0}, {})
      BY <1>1, <1>2, MapsSame
    <2>5. epoch \in Nat
      BY DEF IInv, SessionTyped
    <2> QED
      BY <1>1, <1>2, <2>1, <2>2, <2>3, <2>4, <2>5, TellStep
  <1>5. CASE Enqueue(c0) \/ \E op \in Ops : Call(c0, op)
    <2>1. /\ caller' \in CallerStates /\ \A c \in Callers \ {c0} : caller'[c] = caller[c]
          /\ caller[c0].at \in {"idle", "sending"}
          /\ caller'[c0].epoch = caller[c0].epoch
          /\ \/ recv' = recv /\ caller'[c0].at \in {"sending", "done"}
             \/ recv = <<>> /\ recv' = <<c0>> /\ caller'[c0].at = "waiting"
      BY <1>2, <1>3, <1>5 DEF Enqueue, Call, Typed, CallerStates
    <2>2. c0 \notin Elsewhere /\ caller[c0].epoch = 0 /\ recv # <<c0>>
      BY <2>1 DEF IInv, FreshPart
    <2>3. Typed'
      BY <1>1, <1>2, <2>1 DEF Typed, maps, waits, IsMap
    <2>4. FreshPart'
      BY <1>1, <2>1, <2>2 DEF IInv, FreshPart
    <2>5. PlacePart'
      <3>1. /\ Range(commands) \cup Range(downloads) \cup Range(uploads) \cup connects
                 \cup disconnects \subseteq Callers \ {c0}
        BY <1>2, <2>2, ElsewhereType DEF Elsewhere
      <3> QED
        BY <1>1, <2>1, <3>1 DEF IInv, PlacePart, maps, waits
    <2>6. WaitPart'
      <3>1. \A c \in Callers : recv = <<c>> => recv # <<>>
        OBVIOUS
      <3> QED
        BY <1>1, <2>1, <2>2, <3>1 DEF IInv, WaitPart, Waiting
    <2>7. EpochPart'
      BY <1>1, <2>1 DEF IInv, EpochPart
    <2>8. CommandPart'
      <3>1. ~Current(c0)'
        <4>1. phase = "connected" => epoch >= 1
          BY DEF IInv, SessionTyped
        <4>2. epoch \in Nat /\ caller'[c0].epoch = 0
          BY <2>1, <2>2 DEF IInv, SessionTyped
        <4> QED
          BY <1>1, <4>1, <4>2 DEF Current
      <3>2. \A c \in Callers \ {c0} : Current(c)' => Current(c)
        BY <1>1, <2>1 DEF Current, Waiting
      <3> QED
        BY <1>1, <2>1, <3>1, <3>2 DEF IInv, CommandPart
    <2> QED
      BY <1>2, <2>3, <2>4, <2>5, <2>6, <2>7, <2>8 DEF IInv
  <1> QED
    BY <1>4, <1>5

\* Nothing is there in the beginning.
LEMMA InitKeeps == ASSUME Init PROVE IInv
  <1>1. SessionTyped
    BY SyncAssumption DEF Init, SessionInit, SessionTyped, Codes
  <1>2. /\ caller = [c \in Callers |-> [at |-> "idle", op |-> "run", epoch |-> 0, handle |-> 0]]
        /\ recv = <<>> /\ commands = <<>> /\ downloads = <<>> /\ uploads = <<>>
        /\ connects = {} /\ disconnects = {}
    BY DEF Init
  <1>3. caller \in CallerStates
    BY <1>2, SyncAssumption DEF CallerStates, Codes, Ops
  <1>4. /\ \A c \in Callers : caller[c].at = "idle" /\ caller[c].epoch = 0
        /\ \A c \in Callers : recv # <<c>>
    BY <1>2
  <1>5. Elsewhere = {} /\ Typed
    BY <1>2, <1>3, EmptyFacts DEF Elsewhere, Typed
  <1>6. FreshPart /\ WaitPart /\ CommandPart
    BY <1>4, <1>5 DEF FreshPart, WaitPart, CommandPart, Current, Waiting
  <1>7. PlacePart
    BY <1>2, EmptyFacts DEF PlacePart
  <1>8. EpochPart
    BY <1>1, <1>4 DEF EpochPart, SessionTyped
  <1> QED
    BY <1>1, <1>5, <1>6, <1>7, <1>8 DEF IInv

\* Every step of the SyncConnection and of the callers keeps the invariant.
LEMMA NextKeeps == ASSUME IInv, [Next]_vars PROVE IInv'
  <1>1. CASE Message
    BY <1>1, RunFnKeeps, SendCommandKeeps, WaitConnectedKeeps, DisconnectKeeps,
       DownloadFileKeeps, UploadFileKeeps DEF Message
  <1>2. CASE Connected \/ Disconnected \/ Ended \/ Failed
    BY <1>2, ConnectionKeeps DEF Connected, Disconnected, Ended, Failed, Polls
  <1>3. CASE DropConnection
    BY <1>3, DropConnectionKeeps
  <1>4. ASSUME NEW n \in 0 .. (CodeCount - 1), AnswerItem(n) PROVE IInv'
    BY <1>4, MessageResultKeeps, TransferItemKeeps DEF AnswerItem, Codes
  <1>5. ASSUME NEW c \in Callers, Enqueue(c) \/ Cancel(c) \/ \E op \in Ops : Call(c, op)
        PROVE  IInv'
    BY <1>5, CallersKeep
  <1>6. CASE UNCHANGED vars
    <2>1. UNCHANGED <<phase, epoch, code, transfer, pending, caller, recv, commands, downloads,
                      uploads, connects, disconnects>>
      BY <1>6 DEF vars, session, maps, waits
    <2> QED
      BY <2>1 DEF IInv, SessionTyped, Typed, IsMap, FreshPart, Elsewhere, PlacePart, WaitPart,
         Waiting, EpochPart, CommandPart, Current
  <1> QED
    BY <1>1, <1>2, <1>3, <1>4, <1>5, <1>6 DEF Next

\* The invariant of the SyncConnection.
THEOREM SyncInvariant == Spec => []IInv
  <1>1. Init => IInv
    BY InitKeeps
  <1>2. IInv /\ [Next]_vars => IInv'
    BY NextKeeps
  <1> QED
    BY <1>1, <1>2, PTL DEF Spec

\* poll_next, while requests are taken, answered, overwritten and cancelled
\* and connections come and go: whoever waits is known in exactly one place,
\* in the channel or where the request belongs.
THEOREM NobodyIsForgotten == Spec => []NobodyForgotten
  <1>1. IInv => NobodyForgotten
    <2> SUFFICES ASSUME IInv, NEW c \in Callers, Waiting(c)
                 PROVE  Cardinality(Places(c)) = 1
      BY DEF NobodyForgotten
    <2>1. Places(c) =
            {p \in {"recv", "commands", "downloads", "uploads", "connects", "disconnects"} :
               \/ p = "recv" /\ c \in Range(recv)
               \/ p = "commands" /\ c \in Range(commands)
               \/ p = "downloads" /\ c \in Range(downloads)
               \/ p = "uploads" /\ c \in Range(uploads)
               \/ p = "connects" /\ c \in connects
               \/ p = "disconnects" /\ c \in disconnects}
      BY DEF Places
    <2>2. c \in Range(recv) <=> recv = <<c>>
      <3>1. recv = <<>> \/ \E d \in Callers : recv = <<d>>
        BY DEF IInv, Typed
      <3>2. Range(<<>>) = {}
        BY DEF Range
      <3>3. \A d : Range(<<d>>) = {d}
        BY DEF Range
      <3> QED
        BY <3>1, <3>2, <3>3
    <2>3. recv = <<c>> =>
            /\ c \notin Range(commands) /\ c \notin Range(downloads) /\ c \notin Range(uploads)
            /\ c \notin connects /\ c \notin disconnects
      BY DEF IInv, FreshPart, Elsewhere
    <2>4. \/ recv = <<c>> \/ c \in Range(commands) \/ c \in Range(downloads)
          \/ c \in Range(uploads) \/ c \in connects \/ c \in disconnects
      BY DEF IInv, WaitPart, Elsewhere
    <2>5. /\ c \in Range(commands) => caller[c].op = "command"
          /\ c \in Range(downloads) => caller[c].op = "download"
          /\ c \in Range(uploads) => caller[c].op = "upload"
          /\ c \in connects => caller[c].op = "connect"
          /\ c \in disconnects => caller[c].op = "disconnect"
      BY DEF IInv, PlacePart
    <2>6. \E p : Places(c) = {p}
      <3>1. CASE recv = <<c>>
        <4>1. Places(c) = {"recv"}
          BY <2>1, <2>2, <2>3, <3>1
        <4> QED
          BY <4>1
      <3>2. CASE c \in Range(commands)
        <4>1. Places(c) = {"commands"}
          BY <2>1, <2>2, <2>3, <2>5, <3>2
        <4> QED
          BY <4>1
      <3>3. CASE c \in Range(downloads)
        <4>1. Places(c) = {"downloads"}
          BY <2>1, <2>2, <2>3, <2>5, <3>3
        <4> QED
          BY <4>1
      <3>4. CASE c \in Range(uploads)
        <4>1. Places(c) = {"uploads"}
          BY <2>1, <2>2, <2>3, <2>5, <3>4
        <4> QED
          BY <4>1
      <3>5. CASE c \in connects
        <4>1. Places(c) = {"connects"}
          BY <2>1, <2>2, <2>3, <2>5, <3>5
        <4> QED
          BY <4>1
      <3>6. CASE c \in disconnects
        <4>1. Places(c) = {"disconnects"}
          BY <2>1, <2>2, <2>3, <2>5, <3>6
        <4> QED
          BY <4>1
      <3> QED
        BY <2>4, <3>1, <3>2, <3>3, <3>4, <3>5, <3>6
    <2> QED
      BY <2>6, FS_Singleton
  <1> QED
    BY <1>1, SyncInvariant, PTL

-----------------------------------------------------------------------------
(* Files: the ids suffice.                                                 *)

\* The callers of downloads that have a handle of this connection.
Downloading(c) == Current(c) /\ caller[c].op = "download"

\* No request that was taken is forgotten.
LEMMA TakenKept ==
  ASSUME Typed, NEW cs, Told(caller', cs), recv' = recv \/ recv' = <<>>
  PROVE  Taken \subseteq Taken'
  <1>1. \A c \in Callers : caller[c].at \in {"waiting", "done"} =>
          caller'[c].at \in {"waiting", "done"}
    BY DEF Told
  <1>2. \A c \in Callers : recv # <<c>> => recv' # <<c>>
    OBVIOUS
  <1> QED
    BY <1>1, <1>2 DEF Taken

\* A step that gives out no transfer id.
LEMMA CountKept ==
  ASSUME IdsSuffice, SessionTyped, CountPart, Taken \subseteq Taken', transfer' = transfer,
         \A c \in Callers : Downloading(c)' => Downloading(c) /\ caller'[c].handle = caller[c].handle
  PROVE  CountPart'
  <1>1. Taken' \subseteq Callers /\ IsFiniteSet(Callers)
    BY DEF Taken, IdsSuffice
  <1>2. /\ IsFiniteSet(Taken') /\ IsFiniteSet(Taken)
        /\ Cardinality(Taken) <= Cardinality(Taken')
    BY <1>1, FS_Subset
  <1>3. Cardinality(Taken) \in Nat /\ Cardinality(Taken') \in Nat /\ transfer \in Nat
    BY <1>2, FS_CardinalityType DEF SessionTyped, Codes
  <1>4. CASE transfer = 0 /\ Taken = Callers
    BY <1>1, <1>4 DEF CountPart
  <1>5. CASE transfer <= Cardinality(Taken) /\ \A c \in Callers : Downloading(c) => caller[c].handle < transfer
    <2>1. transfer' <= Cardinality(Taken')
      BY <1>2, <1>3, <1>5
    <2> QED
      BY <1>5, <2>1 DEF CountPart, Downloading
  <1> QED
    BY <1>4, <1>5 DEF CountPart, Downloading

\* The ids start again when nobody has one.
LEMMA CountReset ==
  ASSUME IdsSuffice, transfer' = 0, \A c \in Callers : ~Downloading(c)'
  PROVE  CountPart'
  <1>1. Taken' \subseteq Callers /\ IsFiniteSet(Callers)
    BY DEF Taken, IdsSuffice
  <1>2. IsFiniteSet(Taken')
    BY <1>1, FS_Subset
  <1>3. Cardinality(Taken') \in Nat
    BY <1>2, FS_CardinalityType
  <1> QED
    BY <1>3 DEF CountPart, Downloading

\* A request takes a transfer id that nobody has yet.
LEMMA IdIsNew ==
  ASSUME FileInv, NEW c0 \in Callers, recv = <<c0>>, NEW c \in Callers, Downloading(c)
  PROVE  caller[c].handle < transfer
  <1>1. c0 \notin Taken
    BY DEF Taken
  <1> QED
    BY <1>1 DEF FileInv, CountPart, Downloading

\* A request takes a transfer id: the others have smaller ones.
LEMMA CountNext ==
  ASSUME IdsSuffice, FileInv, NEW c0 \in Callers, recv = <<c0>>, recv' = <<>>,
         NEW cs, Told(caller', cs), caller' \in CallerStates, transfer' = Follow(transfer),
         \A c \in Callers \ {c0} : Downloading(c)' => Downloading(c) /\ caller'[c].handle = caller[c].handle,
         Downloading(c0)' => caller'[c0].handle = transfer
  PROVE  CountPart'
  <1>1. c0 \notin Taken /\ Taken \subseteq Callers /\ Taken' \subseteq Callers
    BY DEF Taken
  <1>2. /\ transfer \in Codes /\ transfer \in Nat /\ CodeCount \in Nat /\ Typed
    BY SyncAssumption DEF FileInv, IInv, SessionTyped, Codes
  <1>3. transfer <= Cardinality(Taken)
    BY <1>1 DEF FileInv, CountPart
  <1>4. c0 \in Taken' /\ Taken \subseteq Taken'
    <2>1. caller[c0].at \in {"waiting", "done"}
      BY DEF FileInv, IInv, FreshPart, Typed, CallerStates
    <2>2. caller'[c0].at \in {"waiting", "done"} /\ recv' # <<c0>>
      BY <2>1 DEF Told
    <2> QED
      BY <1>2, <2>2, TakenKept DEF Taken
  <1>5. /\ IsFiniteSet(Taken) /\ IsFiniteSet(Taken') /\ IsFiniteSet(Callers)
        /\ Cardinality(Taken) \in Nat /\ Cardinality(Taken') \in Nat
        /\ Cardinality(Callers) \in Nat /\ Cardinality(Taken') <= Cardinality(Callers)
    BY <1>1, FS_Subset, FS_CardinalityType DEF IdsSuffice
  <1>6. Cardinality(Taken) + 1 <= Cardinality(Taken')
    <2>1. IsFiniteSet(Taken \cup {c0}) /\ Cardinality(Taken \cup {c0}) = Cardinality(Taken) + 1
      BY <1>1, <1>5, FS_AddElement
    <2>2. Taken \cup {c0} \subseteq Taken'
      BY <1>4
    <2>3. Cardinality(Taken \cup {c0}) <= Cardinality(Taken')
      BY <1>5, <2>2, FS_Subset
    <2> QED
      BY <2>1, <2>3
  <1>7. Cardinality(Callers) <= CodeCount
    BY DEF IdsSuffice
  <1>8. CASE transfer + 1 < CodeCount
    <2>1. transfer' = transfer + 1
      BY <1>2, <1>8, FollowFacts
    <2>2. transfer' <= Cardinality(Taken')
      BY <1>2, <1>3, <1>5, <1>6, <2>1
    <2>3. ASSUME NEW c \in Callers, Downloading(c)' PROVE caller'[c].handle < transfer'
      <3>1. CASE c = c0
        BY <1>2, <2>1, <2>3, <3>1
      <3>2. CASE c # c0
        <4>1. caller[c].handle < transfer /\ caller'[c].handle = caller[c].handle
          BY <2>3, <3>2, IdIsNew
        <4>2. caller[c].handle \in Nat
          BY <1>2 DEF Typed, CallerStates, Codes
        <4> QED
          BY <1>2, <2>1, <4>1, <4>2
      <3> QED
        BY <3>1, <3>2
    <2> QED
      BY <2>2, <2>3 DEF CountPart, Downloading
  <1>9. CASE transfer + 1 >= CodeCount
    <2>1. transfer' = 0
      BY <1>2, <1>9, FollowFacts
    <2>2. Cardinality(Taken') = Cardinality(Callers)
      BY <1>2, <1>3, <1>5, <1>6, <1>7, <1>9
    <2>3. Taken' = Callers
      BY <1>1, <1>5, <2>2, FS_Subset
    <2> QED
      BY <2>1, <2>3 DEF CountPart
  <1> QED
    BY <1>2, <1>8, <1>9

\* A step that leaves the downloads alone: their answers are still found.
LEMMA DownloadsKept ==
  ASSUME FileInv, NEW cs, Told(caller', cs), epoch' = epoch, phase' = phase,
         downloads' = downloads,
         \A c \in Callers : caller'[c].op = "download" => Same(caller', c),
         \A c \in Callers : Downloading(c) =>
           Transfer(caller[c].handle) \in pending' /\ caller[c].handle \notin uploading'
  PROVE  /\ DownloadPart'
         /\ \A c \in Callers : Downloading(c)' =>
              Downloading(c) /\ caller'[c].handle = caller[c].handle
  <1>1. ASSUME NEW c \in Callers, Downloading(c)'
        PROVE  Downloading(c) /\ caller'[c].handle = caller[c].handle
    BY <1>1 DEF Downloading, Current, Waiting, Told, Same
  <1>2. \A c \in Callers : Downloading(c) =>
          caller[c].handle \in DOMAIN downloads /\ downloads[caller[c].handle] = c
    BY DEF FileInv, DownloadPart, Downloading
  <1> QED
    BY <1>1, <1>2 DEF DownloadPart, Downloading

\* What the invariant says about a caller that waits for a file.
LEMMA DownloadingFacts ==
  ASSUME FileInv, NEW c \in Callers, Downloading(c)
  PROVE  /\ Transfer(caller[c].handle) \in pending /\ caller[c].handle \in Codes
         /\ caller[c].handle \in DOMAIN downloads /\ downloads[caller[c].handle] = c
         /\ caller[c].handle \notin uploading
  BY DEF FileInv, DownloadPart, Downloading, IInv, Typed, CallerStates

\* A request that changes no map of files.
LEMMA RequestFiles ==
  ASSUME IdsSuffice, FileInv, NEW c0 \in Callers, recv = <<c0>>, recv' = <<>>,
         NEW cs, caller' \in CallerStates, Told(caller', cs), downloads' = downloads,
         \A c \in Callers : caller'[c].op = "download" => Same(caller', c),
         \/ (SendWithResult \/ Close \/ UNCHANGED session) /\ uploading' = uploading
         \/ Transmit /\ uploading' \subseteq uploading \cup {transfer}
  PROVE  DownloadPart' /\ CountPart'
  <1>1. phase' = phase /\ epoch' = epoch /\ pending \subseteq pending'
    BY RequestFacts
  <1>2. uploading' \subseteq uploading \cup {transfer}
    OBVIOUS
  <1>3. \A c \in Callers : Downloading(c) =>
          Transfer(caller[c].handle) \in pending' /\ caller[c].handle \notin uploading'
    <2> SUFFICES ASSUME NEW c \in Callers, Downloading(c)
                 PROVE  /\ Transfer(caller[c].handle) \in pending'
                        /\ caller[c].handle \notin uploading'
      OBVIOUS
    <2>1. caller[c].handle < transfer /\ caller[c].handle \in Nat /\ transfer \in Nat
      BY IdIsNew, DownloadingFacts DEF Codes, FileInv, IInv, SessionTyped
    <2> QED
      BY <1>1, <1>2, <2>1, DownloadingFacts
  <1>4. /\ DownloadPart'
        /\ \A c \in Callers : Downloading(c)' =>
             Downloading(c) /\ caller'[c].handle = caller[c].handle
    BY <1>1, <1>3, DownloadsKept
  <1>5. CountPart'
    <2>1. CASE Transmit
      <3>1. transfer' = Follow(transfer)
        BY <2>1 DEF Transmit
      <3>2. Downloading(c0)' => FALSE
        <4>1. caller[c0].epoch = 0 /\ epoch \in Nat /\ (phase = "connected" => epoch >= 1)
          BY DEF FileInv, IInv, FreshPart, SessionTyped
        <4>2. ~Downloading(c0)
          BY <4>1 DEF Downloading, Current
        <4> QED
          BY <1>4, <4>2
      <3> QED
        BY <1>4, <3>1, <3>2, CountNext
    <2>2. CASE ~Transmit
      <3>1. transfer' = transfer
        BY <2>2 DEF SendWithResult, Close, session
      <3>2. Taken \subseteq Taken'
        BY TakenKept DEF FileInv, IInv
      <3> QED
        BY <1>4, <3>1, <3>2, CountKept DEF FileInv, IInv
    <2> QED
      BY <2>1, <2>2
  <1> QED
    BY <1>4, <1>5

\* Message::DownloadFile got a handle.
LEMMA DownloadStored ==
  ASSUME IdsSuffice, FileInv, NEW c0 \in Callers, recv = <<c0>>, recv' = <<>>,
         caller[c0].op = "download", Transmit, downloads' = Put(downloads, transfer, c0),
         Stored(downloads, transfer), uploading' = uploading \ {transfer}
  PROVE  DownloadPart' /\ CountPart'
  <1>1. /\ phase' = phase /\ epoch' = epoch /\ transfer' = Follow(transfer)
        /\ pending' = pending \cup {Result(code), Transfer(transfer)}
        /\ transfer \in Codes /\ epoch \in 0 .. MaxConnects /\ Typed
    BY DEF Transmit, FileInv, IInv, SessionTyped
  <1>2. /\ caller' \in CallerStates /\ Told(caller', Who(downloads, transfer))
        /\ \A c \in Callers \ {c0} : Same(caller', c)
        /\ caller'[c0].op = caller[c0].op /\ caller'[c0].epoch = epoch
        /\ caller'[c0].handle = transfer
    BY <1>1, StoredFacts DEF Typed
  <1>3. ASSUME NEW c \in Callers \ {c0}, Downloading(c)'
        PROVE  Downloading(c) /\ caller'[c].handle = caller[c].handle
    BY <1>1, <1>2, <1>3 DEF Downloading, Current, Waiting, Told, Same
  <1>4. CountPart'
    BY <1>1, <1>2, <1>3, CountNext
  <1>5. /\ transfer \in DOMAIN downloads' /\ downloads'[transfer] = c0
        /\ \A x \in DOMAIN downloads : x # transfer =>
             x \in DOMAIN downloads' /\ downloads'[x] = downloads[x]
    BY <1>1, PutFacts DEF Typed
  <1>6. ASSUME NEW c \in Callers, Downloading(c)'
        PROVE  /\ Transfer(caller'[c].handle) \in pending'
               /\ caller'[c].handle \in DOMAIN downloads' /\ downloads'[caller'[c].handle] = c
               /\ caller'[c].handle \notin uploading'
    <2>1. CASE c = c0
      BY <1>1, <1>2, <1>5, <2>1
    <2>2. CASE c # c0
      <3>1. Downloading(c) /\ caller'[c].handle = caller[c].handle
        BY <1>3, <1>6, <2>2
      <3>2. caller[c].handle < transfer /\ caller[c].handle \in Nat /\ transfer \in Nat
        BY <1>1, <3>1, IdIsNew, DownloadingFacts DEF Codes
      <3> QED
        BY <1>1, <1>5, <3>1, <3>2, DownloadingFacts
    <2> QED
      BY <2>1, <2>2
  <1> QED
    BY <1>4, <1>6 DEF DownloadPart, Downloading

\* Every message keeps the handles of the downloads apart.
LEMMA MessageFiles ==
  ASSUME IdsSuffice, FileInv, Message PROVE DownloadPart' /\ CountPart'
  <1>1. IInv /\ Typed /\ caller \in CallerStates /\ transfer \in Codes /\ code \in Codes
        /\ epoch \in 0 .. MaxConnects
    BY DEF FileInv, IInv, Typed, SessionTyped
  <1>2. PICK op : Takes(op)
    BY DEF Message, RunFn, SendCommand, WaitConnected, Disconnect, DownloadFile, UploadFile
  <1>3. PICK c0 \in Callers : recv = <<c0>> /\ recv' = <<>> /\ Head(recv) = c0
    BY <1>1, <1>2, TakesFacts
  <1>4. /\ Answered({c0}) \in CallerStates /\ Told(Answered({c0}), {c0})
        /\ \A c \in Callers : Same(Answered({c0}), c)
    BY <1>1, AnsweredFacts
  <1>5. /\ Told(caller, {}) /\ \A c \in Callers : Same(caller, c)
    BY DEF Told, Same
  <1>6. CASE RunFn
    <2>1. /\ caller' = Answered({c0}) /\ downloads' = downloads
          /\ \/ (SendWithResult \/ Close \/ UNCHANGED session) /\ uploading' = uploading
             \/ Transmit /\ uploading' \subseteq uploading \cup {transfer}
      BY <1>3, <1>6 DEF RunFn, maps
    <2> QED
      BY <1>3, <1>4, <2>1, RequestFiles
  <1>7. CASE SendCommand
    <2>1. CASE Refused /\ caller' = Answered({c0}) /\ UNCHANGED commands
      <3>1. downloads' = downloads /\ uploading' = uploading /\ UNCHANGED session
        BY <1>7, <2>1 DEF SendCommand, Refused
      <3> QED
        BY <1>3, <1>4, <2>1, <3>1, RequestFiles
    <2>2. CASE SendWithResult /\ Stored(commands, code)
      <3>1. downloads' = downloads /\ uploading' = uploading /\ caller[c0].op = "command"
        BY <1>3, <1>7 DEF SendCommand, Takes
      <3>2. /\ caller' \in CallerStates /\ Told(caller', Who(commands, code))
            /\ \A c \in Callers \ {c0} : Same(caller', c)
            /\ caller'[c0].op = caller[c0].op
        BY <1>1, <1>3, <2>2, StoredFacts
      <3>3. \A c \in Callers : caller'[c].op = "download" => Same(caller', c)
        BY <3>1, <3>2
      <3> QED
        BY <1>3, <2>2, <3>1, <3>2, <3>3, RequestFiles
    <2> QED
      BY <1>3, <1>7, <2>1, <2>2 DEF SendCommand
  <1>8. CASE WaitConnected
    <2>1. /\ caller' = Answered({c0}) \/ caller' = caller
          /\ downloads' = downloads /\ uploading' = uploading /\ UNCHANGED session
      BY <1>3, <1>8 DEF WaitConnected, maps
    <2>2. CASE caller' = Answered({c0})
      BY <1>3, <1>4, <2>1, <2>2, RequestFiles
    <2>3. CASE caller' = caller
      BY <1>1, <1>3, <1>5, <2>1, <2>3, RequestFiles
    <2> QED
      BY <2>1, <2>2, <2>3
  <1>9. CASE Disconnect
    <2>1. /\ caller' = caller /\ downloads' = downloads /\ uploading' = uploading
          /\ Close \/ UNCHANGED session
      BY <1>9 DEF Disconnect, maps, Refused
    <2> QED
      BY <1>1, <1>3, <1>5, <2>1, RequestFiles
  <1>10. CASE DownloadFile
    <2>1. CASE Refused /\ caller' = Answered({c0}) /\ UNCHANGED <<downloads, uploading>>
      BY <1>3, <1>4, <2>1, RequestFiles DEF Refused
    <2>2. CASE /\ Transmit /\ downloads' = Put(downloads, transfer, c0)
               /\ Stored(downloads, transfer) /\ uploading' = uploading \ {transfer}
      <3>1. caller[c0].op = "download"
        BY <1>3, <1>10 DEF DownloadFile, Takes
      <3> QED
        BY <1>3, <2>2, <3>1, DownloadStored
    <2> QED
      BY <1>3, <1>10, <2>1, <2>2 DEF DownloadFile
  <1>11. CASE UploadFile
    <2>1. CASE Refused /\ caller' = Answered({c0}) /\ UNCHANGED <<downloads, uploading>>
      BY <1>3, <1>4, <2>1, RequestFiles DEF Refused
    <2>2. CASE Transmit /\ Stored(uploads, transfer) /\ uploading' = uploading \cup {transfer}
      <3>1. downloads' = downloads /\ caller[c0].op = "upload"
        BY <1>3, <1>11 DEF UploadFile, Takes
      <3>2. /\ caller' \in CallerStates /\ Told(caller', Who(uploads, transfer))
            /\ \A c \in Callers \ {c0} : Same(caller', c)
            /\ caller'[c0].op = caller[c0].op
        BY <1>1, <1>3, <2>2, StoredFacts
      <3>3. \A c \in Callers : caller'[c].op = "download" => Same(caller', c)
        BY <3>1, <3>2
      <3>4. uploading' \subseteq uploading \cup {transfer}
        BY <2>2
      <3> QED
        BY <1>3, <2>2, <3>1, <3>2, <3>3, <3>4, RequestFiles
    <2> QED
      BY <1>3, <1>11, <2>1, <2>2 DEF UploadFile, maps
  <1> QED
    BY <1>6, <1>7, <1>8, <1>9, <1>10, <1>11 DEF Message

\* An item of the connection: an answer is only given to its caller.
LEMMA AnswerFiles ==
  ASSUME IdsSuffice, FileInv, NEW n \in Codes, AnswerItem(n)
  PROVE  DownloadPart' /\ CountPart'
  <1>1. /\ IInv /\ Typed /\ SessionTyped /\ caller \in CallerStates
        /\ recv' = recv /\ uploading' = uploading
        /\ epoch' = epoch /\ phase' = phase /\ transfer' = transfer
    BY DEF FileInv, IInv, Typed, AnswerItem, MessageResult, FileDownload, FileUpload,
       FiletransferFailed, Polls, AnswerHandle
  <1>2. ASSUME NEW cs, caller' = Answered(cs)
        PROVE  /\ Told(caller', cs) /\ Taken \subseteq Taken'
               /\ \A c \in Callers : Same(caller', c)
               /\ \A c \in Callers : Downloading(c)' =>
                    /\ Downloading(c) /\ caller'[c].handle = caller[c].handle
                    /\ c \notin cs
    <2>1. Told(caller', cs) /\ \A c \in Callers : Same(caller', c)
      BY <1>1, <1>2, AnsweredFacts
    <2>2. Taken \subseteq Taken'
      BY <1>1, <2>1, TakenKept
    <2>3. ASSUME NEW c \in Callers, Downloading(c)'
          PROVE  /\ Downloading(c) /\ caller'[c].handle = caller[c].handle
                 /\ c \notin cs
      BY <1>1, <2>1, <2>3 DEF Downloading, Current, Waiting, Told, Same
    <2> QED
      BY <2>1, <2>2, <2>3
  <1>3. PICK cs : caller' = Answered(cs)
    BY DEF AnswerItem, MessageResult, FileDownload, FileUpload, FiletransferFailed, Delivered
  <1>4. CountPart'
    BY <1>1, <1>2, <1>3, CountKept DEF FileInv
  <1>5. ASSUME downloads' = downloads,
               \A c \in Callers : Downloading(c) => Transfer(caller[c].handle) \in pending'
        PROVE  DownloadPart'
    BY <1>1, <1>2, <1>3, <1>5, DownloadsKept, DownloadingFacts
  <1>6. ASSUME AnswerHandle(Transfer(n)), caller' = Answered(Who(downloads, n)),
               downloads' = Drop(downloads, n)
        PROVE  DownloadPart'
    <2> SUFFICES ASSUME NEW c \in Callers, Downloading(c)'
                 PROVE  /\ Transfer(caller'[c].handle) \in pending'
                        /\ caller'[c].handle \in DOMAIN downloads'
                        /\ downloads'[caller'[c].handle] = c
                        /\ caller'[c].handle \notin uploading'
      BY DEF DownloadPart, Downloading
    <2>1. Downloading(c) /\ caller'[c].handle = caller[c].handle /\ c \notin Who(downloads, n)
      BY <1>2, <1>6
    <2>2. caller[c].handle # n
      BY <2>1, DownloadingFacts DEF Who
    <2>3. \A x \in DOMAIN downloads : x # n =>
            x \in DOMAIN downloads' /\ downloads'[x] = downloads[x]
      BY <1>1, <1>6, DropFacts DEF Typed
    <2>4. pending' = pending \ {Transfer(n)}
      BY <1>6 DEF AnswerHandle
    <2> QED
      BY <1>1, <2>1, <2>2, <2>3, <2>4, DownloadingFacts, HandleFacts
  <1>7. CASE MessageResult(n)
    <2>1. downloads' = downloads /\ pending' = pending \ {Result(n)}
      BY <1>7 DEF MessageResult, AnswerHandle
    <2> QED
      BY <1>4, <1>5, <2>1, DownloadingFacts, HandleFacts
  <1>8. CASE FileDownload(n)
    BY <1>4, <1>6, <1>8 DEF FileDownload, Delivered
  <1>9. CASE FileUpload(n)
    <2>1. downloads' = downloads /\ pending' = pending \ {Transfer(n)} /\ n \in uploading
      BY <1>9 DEF FileUpload, AnswerHandle
    <2> QED
      BY <1>4, <1>5, <2>1, DownloadingFacts, HandleFacts
  <1>10. CASE FiletransferFailed(n)
    <2>1. CASE n \in DOMAIN downloads
      BY <1>4, <1>6, <1>10, <2>1 DEF FiletransferFailed, Delivered
    <2>2. CASE n \notin DOMAIN downloads
      <3>1. downloads' = downloads /\ pending' = pending \ {Transfer(n)}
        BY <1>10, <2>2 DEF FiletransferFailed, AnswerHandle
      <3> QED
        BY <1>4, <1>5, <2>2, <3>1, DownloadingFacts, HandleFacts
    <2> QED
      BY <2>1, <2>2
  <1> QED
    BY <1>7, <1>8, <1>9, <1>10 DEF AnswerItem

\* While nobody has a handle of the connection there is nothing to find.
LEMMA ConnectionFiles ==
  ASSUME IdsSuffice, FileInv, Connected \/ Disconnected \/ Ended \/ Failed
  PROVE  DownloadPart' /\ CountPart'
  <1>1. /\ IInv /\ Typed /\ SessionTyped /\ caller \in CallerStates /\ recv' = recv
        /\ Establish \/ Lose \/ Finish
    BY DEF FileInv, IInv, Typed, Connected, Disconnected, Ended, Failed, Polls
  <1>2. SessionTyped' /\ (phase' # "connected" \/ epoch' = epoch + 1)
    BY <1>1, SessionKeeps DEF Establish, Lose, Finish
  <1>3. PICK cs : Told(caller', cs) /\ \A c \in Callers : Same(caller', c)
    <2>1. CASE UNCHANGED caller
      <3>1. Told(caller', {}) /\ \A c \in Callers : Same(caller', c)
        BY <2>1 DEF Told, Same
      <3> QED
        BY <3>1
    <2>2. CASE \E cs : caller' = Answered(cs)
      BY <1>1, <2>2, AnsweredFacts
    <2> QED
      BY <2>1, <2>2 DEF Connected, Disconnected, Ended, Failed
  <1>4. \A c \in Callers : ~Downloading(c)'
    BY <1>1, <1>2, <1>3, NobodyCurrent DEF Downloading
  <1>5. DownloadPart'
    BY <1>4 DEF DownloadPart, Downloading
  <1>6. CASE Establish \/ Lose
    BY <1>4, <1>5, <1>6, CountReset DEF Establish, Lose
  <1>7. CASE Finish
    <2>1. Taken \subseteq Taken'
      BY <1>1, <1>3, TakenKept
    <2> QED
      BY <1>1, <1>4, <1>5, <1>7, <2>1, CountKept DEF Finish, FileInv
  <1> QED
    BY <1>1, <1>6, <1>7

\* The drop and the callers' own steps.
LEMMA CallerFiles ==
  ASSUME IdsSuffice, FileInv, NEW c0,
         \/ DropConnection
         \/ c0 \in Callers /\ (Enqueue(c0) \/ Cancel(c0) \/ \E op \in Ops : Call(c0, op))
  PROVE  DownloadPart' /\ CountPart'
  <1>1. /\ IInv /\ Typed /\ SessionTyped /\ caller \in CallerStates /\ UNCHANGED session
        /\ uploading' = uploading
    BY DEF FileInv, IInv, Typed, DropConnection, Enqueue, Cancel, Call
  <1>2. epoch' = epoch /\ phase' = phase /\ transfer' = transfer /\ pending' = pending
    BY <1>1 DEF session
  <1>3. CASE DropConnection
    <2>1. caller' = Answered(Callers) /\ recv' = <<>>
      BY <1>3 DEF DropConnection
    <2>2. Told(caller', Callers)
      BY <1>1, <2>1, AnsweredFacts
    <2>3. Taken \subseteq Taken'
      BY <1>1, <2>1, <2>2, TakenKept
    <2>4. \A c \in Callers : ~Downloading(c)'
      BY <2>2 DEF Told, Downloading, Current, Waiting
    <2> QED
      BY <1>1, <1>2, <2>3, <2>4, CountKept DEF DownloadPart, Downloading, FileInv
  <1>4. CASE c0 \in Callers /\ Cancel(c0)
    <2>1. caller' = Answered({c0}) /\ recv' = recv /\ downloads' = downloads
      BY <1>1, <1>4 DEF Cancel, Answered, CallerStates, maps
    <2>2. Told(caller', {c0}) /\ \A c \in Callers : Same(caller', c)
      BY <1>1, <2>1, AnsweredFacts
    <2>3. Taken \subseteq Taken'
      BY <1>1, <2>1, <2>2, TakenKept
    <2>4. /\ DownloadPart'
          /\ \A c \in Callers : Downloading(c)' =>
               Downloading(c) /\ caller'[c].handle = caller[c].handle
      BY <1>1, <1>2, <2>1, <2>2, DownloadsKept, DownloadingFacts
    <2> QED
      BY <1>1, <1>2, <2>3, <2>4, CountKept DEF FileInv
  <1>5. CASE c0 \in Callers /\ (Enqueue(c0) \/ \E op \in Ops : Call(c0, op))
    <2>1. /\ \A c \in Callers \ {c0} : caller'[c] = caller[c]
          /\ caller[c0].at \in {"idle", "sending"}
          /\ caller'[c0].epoch = caller[c0].epoch
          /\ \/ recv' = recv
             \/ recv = <<>> /\ recv' = <<c0>>
          /\ downloads' = downloads
      BY <1>1, <1>5 DEF Enqueue, Call, CallerStates, maps
    <2>2. caller[c0].epoch = 0 /\ epoch \in Nat /\ (phase = "connected" => epoch >= 1)
      BY <1>1, <1>5, <2>1 DEF IInv, FreshPart, SessionTyped
    <2>3. ~Downloading(c0)'
      BY <1>2, <2>1, <2>2 DEF Downloading, Current
    <2>4. \A c \in Callers : Downloading(c)' =>
            c # c0 /\ Downloading(c) /\ caller'[c].handle = caller[c].handle
      BY <1>2, <2>1, <2>3 DEF Downloading, Current, Waiting
    <2>5. DownloadPart'
      BY <1>1, <1>2, <2>1, <2>4 DEF DownloadPart, Downloading, FileInv
    <2>6. Taken \subseteq Taken'
      <3>1. c0 \notin Taken
        BY <2>1 DEF Taken
      <3>2. \A c \in Callers \ {c0} : recv # <<c>> => recv' # <<c>>
        BY <2>1
      <3> QED
        BY <2>1, <3>1, <3>2 DEF Taken
    <2> QED
      BY <1>1, <1>2, <2>4, <2>5, <2>6, CountKept DEF FileInv
  <1> QED
    BY <1>3, <1>4, <1>5

\* Every step keeps the handles of the downloads apart.
LEMMA NextFiles == ASSUME IdsSuffice, FileInv, [Next]_vars PROVE FileInv'
  <1>1. IInv'
    BY NextKeeps DEF FileInv
  <1>2. CASE Message
    BY <1>1, <1>2, MessageFiles DEF FileInv
  <1>3. CASE Connected \/ Disconnected \/ Ended \/ Failed
    BY <1>1, <1>3, ConnectionFiles DEF FileInv
  <1>4. CASE DropConnection
    BY <1>1, <1>4, CallerFiles DEF FileInv
  <1>5. ASSUME NEW n \in 0 .. (CodeCount - 1), AnswerItem(n) PROVE FileInv'
    BY <1>1, <1>5, AnswerFiles DEF FileInv, Codes
  <1>6. ASSUME NEW c \in Callers, Enqueue(c) \/ Cancel(c) \/ \E op \in Ops : Call(c, op)
        PROVE  FileInv'
    BY <1>1, <1>6, CallerFiles DEF FileInv
  <1>7. CASE UNCHANGED vars
    <2>1. UNCHANGED <<phase, epoch, transfer, pending, caller, recv, downloads, uploading>>
      BY <1>7 DEF vars, session, maps
    <2> QED
      BY <1>1, <2>1 DEF FileInv, DownloadPart, CountPart, Taken, Current, Waiting
  <1> QED
    BY <1>2, <1>3, <1>4, <1>5, <1>6, <1>7 DEF Next

\* The whole state has its types.
LEMMA TypesFollow == ASSUME IInv, alive \in BOOLEAN PROVE TypeOK
  <1>1. recv \in Seq(Callers) /\ Len(recv) <= 1
    <2>1. recv = <<>> \/ \E c \in Callers : recv = <<c>>
      BY DEF IInv, Typed
    <2>2. <<>> \in Seq(Callers) /\ Len(<<>>) = 0
      OBVIOUS
    <2>3. \A c \in Callers : <<c>> \in Seq(Callers) /\ Len(<<c>>) = 1
      OBVIOUS
    <2>4. CASE recv = <<>>
      BY <2>2, <2>4
    <2>5. ASSUME NEW c \in Callers, recv = <<c>> PROVE recv \in Seq(Callers) /\ Len(recv) <= 1
      <3>1. recv \in Seq(Callers) /\ Len(recv) = 1
        BY <2>3, <2>5
      <3> QED
        BY <3>1
    <2> QED
      BY <2>1, <2>4, <2>5
  <1>2. caller \in [Callers -> [at : {"idle", "sending", "waiting", "done"}, op : Ops,
                                epoch : 0 .. MaxConnects, handle : 0 .. (CodeCount - 1)]]
    BY DEF IInv, Typed, CallerStates, Codes
  <1> QED
    BY <1>1, <1>2 DEF TypeOK, IInv, Typed, SessionTyped

\* What the invariants say of handles is what AnswersFindCaller asks.
LEMMA HandlesFound == ASSUME FileInv PROVE AnswersFindCaller
  <1> SUFFICES ASSUME NEW c \in Callers, Current(c)
               PROVE  LET h == caller[c].handle IN
                        /\ caller[c].op = "command" =>
                             Result(h) \in pending /\ Who(commands, h) = {c}
                        /\ caller[c].op = "download" =>
                             Transfer(h) \in pending /\ Who(downloads, h) = {c}
    BY DEF AnswersFindCaller, Current
  <1>1. caller[c].op = "command" =>
          /\ Result(caller[c].handle) \in pending
          /\ caller[c].handle \in DOMAIN commands /\ commands[caller[c].handle] = c
    BY DEF FileInv, IInv, CommandPart
  <1>2. caller[c].op = "download" =>
          /\ Transfer(caller[c].handle) \in pending
          /\ caller[c].handle \in DOMAIN downloads /\ downloads[caller[c].handle] = c
    BY DEF FileInv, DownloadPart
  <1> QED
    BY <1>1, <1>2 DEF Who

\* sync.rs: whoever waits is in one place, and a handle of the current
\* connection leads to the caller that got it, provided that the connection
\* has at least as many transfer ids as there are requests.
THEOREM CallersAreTracked == IdsSuffice => (Spec => []CallersTracked)
  <1>1. ASSUME IdsSuffice PROVE Init => FileInv
    <2> SUFFICES ASSUME Init PROVE FileInv
      OBVIOUS
    <2>1. IInv
      BY InitKeeps
    <2>2. \A c \in Callers : ~Downloading(c)
      BY DEF Init, SessionInit, Downloading, Current
    <2>3. Taken \subseteq Callers /\ IsFiniteSet(Callers) /\ transfer = 0
      BY <1>1 DEF Taken, IdsSuffice, Init, SessionInit
    <2>4. Cardinality(Taken) \in Nat
      BY <2>3, FS_Subset, FS_CardinalityType
    <2> QED
      BY <2>1, <2>2, <2>3, <2>4 DEF FileInv, DownloadPart, CountPart, Downloading
  <1>2. ASSUME IdsSuffice PROVE FileInv /\ [Next]_vars => FileInv'
    BY <1>2, NextFiles
  <1>3. Init => alive \in BOOLEAN
    BY DEF Init
  <1>4. (alive \in BOOLEAN) /\ [Next]_vars => (alive \in BOOLEAN)'
    BY DEF Next, Message, RunFn, SendCommand, WaitConnected, Disconnect, DownloadFile,
       UploadFile, Takes, Connected, Disconnected, Ended, Failed, Polls, DropConnection,
       AnswerItem, MessageResult, FileDownload, FileUpload, FiletransferFailed, Enqueue, Cancel,
       Call, vars
  <1>5. FileInv /\ alive \in BOOLEAN => TypeOK /\ AnswersFindCaller
    BY TypesFollow, HandlesFound DEF FileInv
  <1>6. CASE IdsSuffice
    BY <1>1, <1>2, <1>3, <1>4, <1>5, <1>6, NobodyIsForgotten, PTL DEF Spec, CallersTracked
  <1> QED
    BY <1>6

=============================================================================
