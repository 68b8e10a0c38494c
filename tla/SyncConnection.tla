--------------------------- MODULE SyncConnection ---------------------------
(***************************************************************************)
(* tsclientlib/src/sync.rs: handles that can be used from other tasks send *)
(* messages through a channel with one place to the SyncConnection, which  *)
(* takes them out when it is polled, calls the Connection (Session) and    *)
(* keeps who waits for which answer in maps until the connection returns   *)
(* the answer as an item.                                                  *)
(*                                                                         *)
(* Every caller makes one request.  The task that polls drops the          *)
(* SyncConnection when the stream has ended or failed, as the future of    *)
(* for_each in the examples does.                                          *)
(***************************************************************************)
EXTENDS Session, Sequences, FiniteSets, Functions

CONSTANTS Callers

ASSUME SyncAssumption == CodeCount \in Nat \ {0} /\ MaxConnects \in Nat

VARIABLES
  caller,        \* what each caller asked for and whether it waits
  recv,          \* the channel (capacity 1)
  commands,      \* who waits for a result, by return code
  downloads,     \* who waits for a file, by transfer id
  uploads,
  connects,      \* who waits until connected
  disconnects,   \* who waits for the end
  uploading,     \* the transfer ids of this connection that are uploads
  foreign,       \* callers that got the answer to another request
  alive          \* the SyncConnection is not dropped

maps == <<commands, downloads, uploads>>
waits == <<connects, disconnects>>
vars == <<session, caller, recv, maps, waits, uploading, foreign, alive>>

Ops == {"run", "command", "connect", "disconnect", "download", "upload"}

Waiting(c) == caller[c].at = "waiting"

\* The callers in cs that still wait have their answer (a oneshot).
Answered(cs) ==
  [c \in Callers |-> IF c \in cs /\ Waiting(c) THEN [caller[c] EXCEPT !.at = "done"]
                     ELSE caller[c]]

\* Mutant: an entry that is there is kept.
PutNew(map, k, c) == [x \in DOMAIN map \cup {k} |-> IF x \in DOMAIN map THEN map[x] ELSE c]

\* A map with one more entry, which may replace another.
Put(map, k, c) == [x \in DOMAIN map \cup {k} |-> IF x = k THEN c ELSE map[x]]
Drop(map, k) == Restrict(map, DOMAIN map \ {k})
Who(map, k) == IF k \in DOMAIN map THEN {map[k]} ELSE {}

----------------------------------------------------------------------------
(* SyncConnectionHandle *)

\* A caller starts to send its message.
Call(c, op) ==
  /\ caller[c].at = "idle"
  /\ caller' = [caller EXCEPT ![c].at = "sending", ![c].op = op]
  /\ UNCHANGED <<session, recv, maps, waits, uploading, foreign, alive>>

\* There is room in the channel; after a drop the send fails (ConnectionGone).
Enqueue(c) ==
  /\ caller[c].at = "sending"
  /\ IF alive
     THEN /\ recv = <<>>
          /\ recv' = <<c>>
          /\ caller' = [caller EXCEPT ![c].at = "waiting"]
     ELSE /\ caller' = [caller EXCEPT ![c].at = "done"]
          /\ UNCHANGED recv
  /\ UNCHANGED <<session, maps, waits, uploading, foreign, alive>>

\* The future of the call is dropped; the message and the entry in the map
\* stay.
Cancel(c) ==
  /\ Waiting(c)
  /\ caller' = [caller EXCEPT ![c].at = "done"]
  /\ UNCHANGED <<session, recv, maps, waits, uploading, foreign, alive>>

----------------------------------------------------------------------------
(* poll_next: messages *)

Takes(op) ==
  /\ alive /\ phase # "over"
  /\ recv # <<>> /\ caller[Head(recv)].op = op
  /\ recv' = <<>>
  /\ UNCHANGED <<foreign, alive>>

\* NotConnected
Refused == phase # "connected" /\ UNCHANGED session

\* The call got a handle: the caller remembers on which connection, and a
\* caller whose entry is overwritten finds its oneshot closed.
Stored(map, k) ==
  LET c == Head(recv) IN
    caller' = [Answered(Who(map, k)) EXCEPT ![c].epoch = epoch, ![c].handle = k]

\* The function of with_connection may do what it likes.
RunFn ==
  /\ Takes("run")
  /\ \/ UNCHANGED <<session, uploading>>
     \/ SendWithResult /\ UNCHANGED uploading
     \/ Transmit /\ uploading' \in {uploading \ {transfer}, uploading \cup {transfer}}
     \/ Close /\ UNCHANGED uploading
  /\ caller' = Answered({Head(recv)})
  /\ UNCHANGED <<maps, waits>>

SendCommand ==
  /\ Takes("command")
  /\ \/ /\ SendWithResult
        /\ commands' = Put(commands, code, Head(recv))
        /\ Stored(commands, code)
     \/ /\ Refused
        /\ caller' = Answered({Head(recv)})
        /\ UNCHANGED commands
  /\ UNCHANGED <<downloads, uploads, waits, uploading>>

WaitConnected ==
  /\ Takes("connect")
  /\ IF phase = "connected"
     THEN caller' = Answered({Head(recv)}) /\ UNCHANGED connects
     ELSE connects' = connects \cup {Head(recv)} /\ UNCHANGED caller
  /\ UNCHANGED <<session, maps, disconnects, uploading>>

\* Connection::disconnect does nothing when it is not connected.
Disconnect ==
  /\ Takes("disconnect")
  /\ Close \/ Refused
  /\ disconnects' = disconnects \cup {Head(recv)}
  /\ UNCHANGED <<caller, maps, connects, uploading>>

DownloadFile ==
  /\ Takes("download")
  /\ \/ /\ Transmit
        /\ downloads' = Put(downloads, transfer, Head(recv))
        /\ Stored(downloads, transfer)
        /\ uploading' = uploading \ {transfer}
     \/ /\ Refused
        /\ caller' = Answered({Head(recv)})
        /\ UNCHANGED <<downloads, uploading>>
  /\ UNCHANGED <<commands, uploads, waits>>

UploadFile ==
  /\ Takes("upload")
  /\ \/ /\ Transmit
        /\ uploads' = Put(uploads, transfer, Head(recv))
        /\ Stored(uploads, transfer)
        /\ uploading' = uploading \cup {transfer}
     \/ /\ Refused
        /\ caller' = Answered({Head(recv)})
        /\ UNCHANGED <<uploads, uploading>>
  /\ UNCHANGED <<commands, downloads, waits>>

----------------------------------------------------------------------------
(* poll_next: items of the connection *)

Polls == alive /\ UNCHANGED <<recv, alive>>

\* Mutant: only one of those who wait is told.
ConnectedOne ==
  /\ Polls
  /\ Establish
  /\ \/ connects = {} /\ UNCHANGED <<caller, connects>>
     \/ \E c \in connects : caller' = Answered({c}) /\ connects' = connects \ {c}
  /\ uploading' = {}
  /\ UNCHANGED <<maps, disconnects, foreign>>

\* BookEvents: everybody who waits for the connection is told.
Connected ==
  /\ Polls
  /\ Establish
  /\ caller' = Answered(connects)
  /\ connects' = {}
  /\ uploading' = {}
  /\ UNCHANGED <<maps, disconnects, foreign>>

\* DisconnectedTemporarily is passed on; the maps are left as they are.
Disconnected ==
  /\ Polls
  /\ Lose
  /\ UNCHANGED <<caller, maps, waits, uploading, foreign>>

\* The answers of cs come from the request behind the handle of this
\* connection.
Delivered(cs) ==
  /\ caller' = Answered(cs)
  /\ foreign' = foreign \cup {c \in cs : Waiting(c) /\ caller[c].epoch # epoch}

MessageResult(n) ==
  /\ Polls
  /\ AnswerHandle(Result(n))
  /\ Delivered(Who(commands, n))
  /\ commands' = Drop(commands, n)
  /\ UNCHANGED <<downloads, uploads, waits, uploading>>

\* Mutant: the file is looked up among the uploads.
FileDownloadMisses(n) ==
  /\ Polls
  /\ n \notin uploading
  /\ AnswerHandle(Transfer(n))
  /\ Delivered(Who(uploads, n))
  /\ uploads' = Drop(uploads, n)
  /\ UNCHANGED <<commands, downloads, waits, uploading>>

FileDownload(n) ==
  /\ Polls
  /\ n \notin uploading
  /\ AnswerHandle(Transfer(n))
  /\ Delivered(Who(downloads, n))
  /\ downloads' = Drop(downloads, n)
  /\ UNCHANGED <<commands, uploads, waits, uploading>>

FileUpload(n) ==
  /\ Polls
  /\ n \in uploading
  /\ AnswerHandle(Transfer(n))
  /\ Delivered(Who(uploads, n))
  /\ uploads' = Drop(uploads, n)
  /\ UNCHANGED <<commands, downloads, waits, uploading>>

\* The item does not say what kind of transfer failed: downloads are looked
\* up first.
FiletransferFailed(n) ==
  /\ Polls
  /\ AnswerHandle(Transfer(n))
  /\ IF n \in DOMAIN downloads
     THEN /\ Delivered(Who(downloads, n))
          /\ downloads' = Drop(downloads, n)
          /\ UNCHANGED uploads
     ELSE /\ Delivered(Who(uploads, n))
          /\ uploads' = Drop(uploads, n)
          /\ UNCHANGED downloads
  /\ UNCHANGED <<commands, waits, uploading>>

\* The end of the stream: everybody who wants to disconnect is told.
Ended ==
  /\ Polls
  /\ closing
  /\ Finish
  /\ caller' = Answered(disconnects)
  /\ disconnects' = {}
  /\ UNCHANGED <<maps, connects, uploading, foreign>>

\* An error is only returned.
Failed ==
  /\ Polls
  /\ Finish
  /\ UNCHANGED <<caller, maps, waits, uploading, foreign>>

\* Mutant: the message in the channel is not dropped.
DropKeepsMessage ==
  /\ alive
  /\ phase = "over"
  /\ alive' = FALSE
  /\ caller' = Answered(Callers \ Range(recv))
  /\ commands' = <<>> /\ downloads' = <<>> /\ uploads' = <<>>
  /\ connects' = {} /\ disconnects' = {}
  /\ UNCHANGED <<session, recv, uploading, foreign>>

\* With the SyncConnection all oneshots are dropped: ConnectionGone.
DropConnection ==
  /\ alive
  /\ phase = "over"
  /\ alive' = FALSE
  /\ caller' = Answered(Callers)
  /\ recv' = <<>>
  /\ commands' = <<>> /\ downloads' = <<>> /\ uploads' = <<>>
  /\ connects' = {} /\ disconnects' = {}
  /\ UNCHANGED <<session, uploading, foreign>>

----------------------------------------------------------------------------

Init ==
  /\ SessionInit
  /\ caller = [c \in Callers |-> [at |-> "idle", op |-> "run", epoch |-> 0, handle |-> 0]]
  /\ recv = <<>>
  /\ commands = <<>> /\ downloads = <<>> /\ uploads = <<>>
  /\ connects = {} /\ disconnects = {}
  /\ uploading = {} /\ foreign = {}
  /\ alive = TRUE

Message ==
  RunFn \/ SendCommand \/ WaitConnected \/ Disconnect \/ DownloadFile \/ UploadFile

AnswerItem(n) ==
  MessageResult(n) \/ FileDownload(n) \/ FileUpload(n) \/ FiletransferFailed(n)

Next ==
  \/ Message \/ Connected \/ Disconnected \/ Ended \/ Failed \/ DropConnection
  \/ \E n \in 0 .. (CodeCount - 1) : AnswerItem(n)
  \/ \E c \in Callers : Enqueue(c) \/ Cancel(c) \/ \E op \in Ops : Call(c, op)

\* The stream is polled, the server answers, and a connection that is not
\* there is established or given up.
Fairness ==
  /\ WF_vars(Message) /\ WF_vars(DropConnection)
  /\ WF_vars(phase = "connecting" /\ (Connected \/ Failed))
  /\ \A n \in 0 .. (CodeCount - 1) :
       /\ WF_vars(MessageResult(n))
       /\ WF_vars(FileDownload(n) \/ FileUpload(n) \/ FiletransferFailed(n))
  /\ \A c \in Callers : SF_vars(Enqueue(c))

Spec == Init /\ [][Next]_vars /\ Fairness

----------------------------------------------------------------------------
(* Properties *)

IsMap(map) == DOMAIN map \subseteq 0 .. (CodeCount - 1) /\ Range(map) \subseteq Callers

TypeOK ==
  /\ caller \in [Callers -> [at : {"idle", "sending", "waiting", "done"}, op : Ops,
                             epoch : 0 .. MaxConnects, handle : 0 .. (CodeCount - 1)]]
  /\ recv \in Seq(Callers) /\ Len(recv) <= 1
  /\ IsMap(commands) /\ IsMap(downloads) /\ IsMap(uploads)
  /\ connects \subseteq Callers /\ disconnects \subseteq Callers
  /\ pending \subseteq Handles
  /\ alive \in BOOLEAN

\* Where a caller that waits is known.
Places(c) ==
  {p \in {"recv", "commands", "downloads", "uploads", "connects", "disconnects"} :
     c \in CASE p = "recv" -> Range(recv)
             [] p = "commands" -> Range(commands)
             [] p = "downloads" -> Range(downloads)
             [] p = "uploads" -> Range(uploads)
             [] p = "connects" -> connects
             [] p = "disconnects" -> disconnects}

\* Nobody waits in vain for an answer that was lost on the way through the
\* maps: whoever waits is in exactly one place, through overwritten entries,
\* reconnects and dropped futures.
NobodyForgotten == \A c \in Callers : Waiting(c) => Cardinality(Places(c)) = 1

\* The map entry behind a handle of the current connection is its caller's:
\* entries that an earlier connection left behind, under the same numbers,
\* do not keep an answer from the caller it belongs to.
AnswersFindCaller ==
  \A c \in Callers :
    (Waiting(c) /\ caller[c].epoch = epoch /\ phase = "connected") =>
      LET h == caller[c].handle IN
        /\ caller[c].op = "command" =>
             Result(h) \in pending /\ Who(commands, h) = {c}
        /\ caller[c].op = "download" =>
             Transfer(h) \in pending /\ Who(downloads, h) = {c}

\* Every caller that waits is where its answer will look for it.
CallersTracked == TypeOK /\ NobodyForgotten /\ AnswersFindCaller

\* A caller is answered unless its connection is lost: "returns if the
\* corresponding answer is received" (sync.rs:320).
WaitersAnswered ==
  \A c \in Callers :
    (Waiting(c) /\ caller[c].op \in {"command", "download"})
      ~> (~Waiting(c) \/ caller[c].epoch < epoch \/ phase # "connected")

\* wait_until_connected resolves: we are connected, or it is all over.
ConnectsAnswered ==
  \A c \in Callers : (Waiting(c) /\ caller[c].op = "connect") ~> ~Waiting(c)

\* When the stream is over nobody is left waiting, neither in the maps nor in
\* front of the channel.
NobodyWaitsForDead ==
  (phase = "over") ~> (\A c \in Callers : caller[c].at \in {"idle", "done"})

\* A caller gets the answer to its own request: send_command "returns if the
\* corresponding answer is received" (sync.rs:320).
\* It does not hold (README, section 7).
AnswersAreOwn == foreign = {}

=============================================================================
