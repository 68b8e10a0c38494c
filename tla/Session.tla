------------------------------- MODULE Session -------------------------------
(***************************************************************************)
(* What a Connection of tsclientlib promises to the one who polls it: it   *)
(* connects, loses the connection and connects again until it is over.     *)
(* While it is connected it takes commands and file transfers, each of     *)
(* which gets a handle, and it answers a handle at most once, and only on  *)
(* the connection on which the handle was given out.  The handles count    *)
(* from 0 again on every connection.                                       *)
(*                                                                         *)
(* ClientConnection implements this; SyncConnection is built on it.        *)
(***************************************************************************)
EXTENDS Integers

CONSTANTS
  CodeCount,     \* handles are counted modulo CodeCount (2^16)
  MaxConnects    \* bound: established connections

VARIABLES
  phase,         \* "connecting", "connected" or "over"
  epoch,         \* how many connections were established
  code,          \* ConnectedConnection::cur_return_code
  transfer,      \* ConnectedConnection::cur_filetransfer_id
  pending,       \* the handles that are not answered yet
  answers,       \* how many answers were returned
  closing        \* the user has asked to disconnect

session == <<phase, epoch, code, transfer, pending, answers, closing>>

Result(n) == <<"result", n>>
Transfer(n) == <<"transfer", n>>
Handles == {"result", "transfer"} \X (0 .. (CodeCount - 1))

Follow(n) == (n + 1) % CodeCount

SessionInit ==
  /\ phase = "connecting"
  /\ epoch = 0 /\ code = 0 /\ transfer = 0
  /\ pending = {} /\ answers = 0 /\ closing = FALSE

\* BookEvents with the added server is returned.
Establish ==
  /\ phase = "connecting"
  /\ epoch < MaxConnects
  /\ phase' = "connected"
  /\ epoch' = epoch + 1
  /\ code' = 0 /\ transfer' = 0
  /\ pending' = {} /\ closing' = FALSE
  /\ UNCHANGED answers

\* DisconnectedTemporarily: what was not answered is forgotten.
Lose ==
  /\ phase = "connected"
  /\ phase' = "connecting"
  /\ code' = 0 /\ transfer' = 0
  /\ pending' = {} /\ closing' = FALSE
  /\ UNCHANGED <<epoch, answers>>

\* The stream returns an error or ends.
Finish ==
  /\ phase # "over"
  /\ phase' = "over"
  /\ pending' = {}
  /\ UNCHANGED <<epoch, code, transfer, answers, closing>>

SendWithResult ==
  /\ phase = "connected"
  /\ pending' = pending \cup {Result(code)}
  /\ code' = Follow(code)
  /\ UNCHANGED <<phase, epoch, transfer, answers, closing>>

Transmit ==
  /\ phase = "connected"
  /\ pending' = pending \cup {Result(code), Transfer(transfer)}
  /\ code' = Follow(code)
  /\ transfer' = Follow(transfer)
  /\ UNCHANGED <<phase, epoch, answers, closing>>

AnswerHandle(h) ==
  /\ h \in pending
  /\ pending' = pending \ {h}
  /\ answers' = answers + 1
  /\ UNCHANGED <<phase, epoch, code, transfer, closing>>

\* Outside of a connection there is nothing to disconnect.
Close ==
  /\ phase = "connected"
  /\ closing' = TRUE
  /\ UNCHANGED <<phase, epoch, code, transfer, pending, answers>>

SessionNext ==
  \/ Establish \/ Lose \/ Finish \/ SendWithResult \/ Transmit \/ Close
  \/ \E h \in Handles : AnswerHandle(h)

SessionSpec == SessionInit /\ [][SessionNext]_session

=============================================================================
