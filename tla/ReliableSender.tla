--------------------------- MODULE ReliableSender ---------------------------
(***************************************************************************)
(* What the resender promises for one packet type (Command or CommandLow), *)
(* seen from outside: packets are numbered in the order in which they are  *)
(* queued, they go out for the first time in that order, at most           *)
(* SendWindow of them are in flight without an acknowledgement, and a      *)
(* packet stays in the queue, from which it is sent again, until it is     *)
(* acknowledged.                                                           *)
(*                                                                         *)
(* A packet is its number n, counted without wraparound from FirstId on.   *)
(* Sending a packet again changes none of these variables; the modules     *)
(* that use this one let a transmitted packet arrive any number of times.  *)
(* Resender is the implementation.                                         *)
(***************************************************************************)
EXTENDS Integers, FiniteSets

CONSTANTS
    FirstId,      \* number of the first packet (Connection::new: 1 or 0; larger
                  \* when a behaviour starts with everything before it acked)
    MaxPackets,   \* bound: packets queued in one behaviour
    Backlog,      \* bound: the ids in the send queue span at most this many
    SendWindow    \* largest value of Resender::get_window

ASSUME FirstIdAssumption == FirstId \in Nat
ASSUME MaxPacketsAssumption == MaxPackets \in Nat
ASSUME BacklogAssumption == Backlog \in Nat
ASSUME SendWindowAssumption == SendWindow \in Nat /\ SendWindow >= 1

VARIABLES
    queued,       \* number of the next packet: outgoing_p_ids without wraparound
    transmitted,  \* numbers of the packets that were sent at least once
    unacked       \* numbers of the records of full_send_queue

senderVars == <<queued, transmitted, unacked>>

PacketNumber == FirstId .. FirstId + MaxPackets - 1

InFlight == unacked \cap transmitted

SenderTypeOK ==
    /\ queued \in FirstId .. FirstId + MaxPackets
    /\ transmitted \in SUBSET (FirstId .. queued - 1)
    /\ unacked \in SUBSET (FirstId .. queued - 1)

SenderInit ==
    /\ queued = FirstId
    /\ transmitted = {}
    /\ unacked = {}

\* Connection::send_packet: all k packets of a command enter the queue.
Enqueue(k) ==
    /\ queued + k <= FirstId + MaxPackets
    /\ \A n \in unacked : queued + k - n <= Backlog
    /\ queued' = queued + k
    /\ unacked' = unacked \cup (queued .. queued + k - 1)
    /\ UNCHANGED transmitted

\* Resender::poll_resend sends a packet for the first time: the lowest one
\* that was not sent yet.
TransmitNext ==
    \E n \in unacked \ transmitted :
        /\ \A m \in unacked \ transmitted : n <= m
        /\ Cardinality(InFlight) < SendWindow
        /\ transmitted' = transmitted \cup {n}
        /\ UNCHANGED <<queued, unacked>>

\* Resender::ack_packet removes the record of a packet that was sent.
Acknowledge(n) ==
    /\ n \in InFlight
    /\ unacked' = unacked \ {n}
    /\ UNCHANGED <<queued, transmitted>>

SenderNext ==
    \/ \E k \in 1 .. MaxPackets : Enqueue(k)
    \/ TransmitNext
    \/ \E n \in InFlight : Acknowledge(n)

SenderSpec == SenderInit /\ [][SenderNext]_senderVars

=============================================================================
