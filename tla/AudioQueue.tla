----------------------------- MODULE AudioQueue -----------------------------
(***************************************************************************)
(* The jitter buffer of tsclientlib/src/audio.rs.  AudioHandler keeps one  *)
(* AudioQueue for every talking client: packets arrive from the network in *)
(* any order (handle_packet), the sound card takes samples out of it       *)
(* (fill_buffer).                                                          *)
(*                                                                         *)
(* Samples are counted, not represented: a packet is its place in the      *)
(* stream of the talker, its 16 bit id and the number of samples it        *)
(* decodes to; decoded_buffer is its length.  A packet with 0 samples is   *)
(* the end of the stream (at most one byte of data).  The opus decoder     *)
(* either returns the samples that were asked for or fails.                *)
(***************************************************************************)
EXTENDS SlidingWindow, SequencesExt, TLC

CONSTANTS
  Talkers,             \* the clients that may talk
  Streams,             \* the streams each talker may send: sequences of samples
  IdCount,             \* ids are counted modulo IdCount (2^16)
  FirstId,             \* the id of the first packet of a stream
  Lag,                 \* how far the network may delay a packet
  MaxDeliveries,       \* bound: how many packets the network delivers
  BufferLens,          \* the lengths of the buffers fill_buffer is given
  ChannelNum, MaxPacketLosses, MaxBufferPackets, MaxBufferSize,
  MaxBufferTime, UsualFrameSize, SpeedChangeSteps, MaxFrames,
  DecoderFails,        \* may the opus decoder refuse a packet?
  DebugAssertions      \* a build that evaluates debug_assert!

ASSUME AudioAssumption ==
  /\ IsFiniteSet(Talkers)
  /\ IdCount \in Nat /\ FirstId \in 0 .. (IdCount - 1)
  /\ MaxBufferPackets \in Nat \ {0} /\ Lag \in Nat
  /\ Lag + 2 * MaxBufferPackets < IdCount
  /\ BufferLens \subseteq Nat \ {0}
  /\ \A t \in Talkers : \A s \in Streams[t] : s \in Seq(Int)
  /\ MaxDeliveries \in Nat /\ ChannelNum \in Nat /\ MaxFrames \in Nat
  /\ MaxBufferSize \in Nat /\ MaxBufferTime \in Nat /\ MaxPacketLosses \in Nat
  /\ UsualFrameSize \in Nat \ {0} /\ SpeedChangeSteps \in Nat \ {0}
  /\ DecoderFails \in BOOLEAN

VARIABLES
  queues,     \* AudioHandler.queues: the queues of the clients that talk
  avg_buffer_samples,
  stream,     \* the stream each talker sends
  newest,     \* the newest packet delivered from each talker, 0 for none
  filling,    \* fill_buffer: the length, the talkers to do, the current one
  budget,     \* how many more packets the network delivers
  panicked    \* the thread of the audio handler has panicked

vars == <<queues, avg_buffer_samples, stream, newest, filling, budget, panicked>>

Talking == DOMAIN queues

Packet(t, n) ==
  [pos |-> n, id |-> (FirstId + n) % IdCount, samples |-> stream[t][n]]

\* A codec that is not opus is given a negative number of samples.
Unsupported(p) == p.samples < 0

SatSub(a, b) == IF a > b THEN a - b ELSE 0

\* u16::wrapping_sub
Distance(a, b) == (a - b) % IdCount

SumSamples(buffer) ==
  LET sum[n \in 0 .. Len(buffer)] ==
        IF n = 0 THEN 0 ELSE sum[n - 1] + buffer[n].samples
  IN  sum[Len(buffer)]

----------------------------------------------------------------------------
(* AudioQueue *)

AddBufferSize(q, size) ==
  LET frames == size \div UsualFrameSize
  IN  IF frames > MaxFrames THEN q
      ELSE [q EXCEPT !.size_min = PushValue(@, frames),
                     !.size_max = PushValue(@, Reversed(frames))]

Deviation(q) == Reversed(GetMin(q.size_max)) - GetMin(q.size_min)

\* Mutant of InsertPos: the ids are compared without wrapping.
InsertPosPlain(q, p) ==
  Max({0} \cup {i \in DOMAIN q.packet_buffer : q.packet_buffer[i].id < p.id})

\* How many packets stay in front of a new packet.
InsertPos(q, p) ==
  Max({0} \cup {i \in DOMAIN q.packet_buffer :
                  Distance(q.packet_buffer[i].id, p.id) > MaxBufferPackets})

Duplicate(q, p) ==
  LET i == InsertPos(q, p) + 1
  IN  i <= Len(q.packet_buffer) /\ q.packet_buffer[i].id = p.id

TooLate(q, p) == Distance(p.id, q.next_id) > MaxBufferPackets

QueueFull(q) == Len(q.packet_buffer) >= MaxBufferPackets

\* The samples that still have to be buffered, less the new packet and the
\* packets lost before it.  The ids are compared without wrapping.
StillBuffering(q, p) ==
  LET last_id == IF q.packet_buffer = <<>> THEN p.id
                 ELSE (Last(q.packet_buffer).id + 1) % IdCount
  IN  IF last_id <= p.id
      THEN SatSub(SatSub(q.buffering_samples, p.samples),
                  (p.id - last_id) * q.last_packet_samples)
      ELSE q.buffering_samples

AddPacket(q, p) ==
  IF QueueFull(q) \/ p.samples > MaxBufferSize \/ TooLate(q, p) \/ Duplicate(q, p)
  THEN q
  ELSE [q EXCEPT !.packet_buffer = InsertAt(@, InsertPos(q, p) + 1, p),
                 !.packet_buffer_samples = @ + p.samples,
                 !.buffering_samples = StillBuffering(q, p)]

NewQueue(p) ==
  LET q == [next_id |-> p.id, packet_buffer |-> <<>>,
            packet_buffer_samples |-> 0, decoded |-> 0, decoded_pos |-> 0,
            last_packet_samples |-> p.samples * ChannelNum,
            packet_loss_num |-> 0, buffering_samples |-> 0,
            size_min |-> EmptyWindow, size_max |-> EmptyWindow,
            buffered_for_samples |-> 0, heard |-> <<>>]
  IN  AddPacket(AddBufferSize(q, 0), p)

\* The samples that wait, the lost ones included, when a packet is decoded.
WaitingSamples(q) ==
  IF q.packet_buffer = <<>> THEN q.packet_buffer_samples
  ELSE q.packet_buffer_samples
         + (Distance(Last(q.packet_buffer).id, q.next_id) + 1 - Len(q.packet_buffer))
             * q.last_packet_samples

\* Mutant of DecodePacket: a loss that decodes well is no loss any more.
DecodePacketForgets(q, p, play, ok) ==
  LET len   == IF play = "loss" THEN q.last_packet_samples ELSE p.samples
      begun == [q EXCEPT !.packet_loss_num = @ + 1,
                         !.decoded = @ + len * ChannelNum]
      done  == [begun EXCEPT
                  !.last_packet_samples = len,
                  !.packet_loss_num = 0,
                  !.heard = IF play = "packet" THEN Append(@, p.pos) ELSE @]
  IN  IF ok THEN AddBufferSize(done, WaitingSamples(done)) ELSE begun

\* decode_packet: play is what the decoder is given, "packet" for the packet
\* p itself, "fec" for the error correction data of p, "loss" for nothing.
\* The buffer is extended before the decoder runs and stays so if it fails.
DecodePacket(q, p, play, ok) ==
  LET len   == IF play = "loss" THEN q.last_packet_samples ELSE p.samples
      begun == [q EXCEPT !.packet_loss_num = @ + 1,
                         !.decoded = @ + len * ChannelNum]
      done  == [begun EXCEPT
                  !.last_packet_samples = len,
                  !.packet_loss_num = IF play = "packet" THEN 0 ELSE @,
                  !.heard = IF play = "packet" THEN Append(@, p.pos) ELSE @]
  IN  IF ok THEN AddBufferSize(done, WaitingSamples(done)) ELSE begun

\* Playback is too far behind: only the newest packets stay.
Truncated(q, min) ==
  LET n    == Len(q.packet_buffer)
      Back(k) == SubSeq(q.packet_buffer, n - k + 1, n)
      keep == Max({0} \cup {k \in 1 .. n : SumSamples(Back(k)) < min + UsualFrameSize})
  IN  [q EXCEPT !.packet_buffer = Back(keep),
                !.packet_buffer_samples = SumSamples(Back(keep)),
                !.next_id = IF keep = 0 THEN @ ELSE Back(keep)[1].id]

SpedUp(q) ==
  [q EXCEPT !.decoded = @ - (q.last_packet_samples \div SpeedChangeSteps) * ChannelNum]

AdjustSpeed(q) ==
  LET min == GetMin(q.size_min)
  IN  IF min > MaxBufferSize \div UsualFrameSize THEN Truncated(q, min)
      ELSE IF min > Deviation(q) THEN SpedUp(q)
      ELSE q

\* The front of the packet buffer is taken out and the next id is due.
Popped(q) ==
  [q EXCEPT !.packet_buffer = Tail(@),
            !.packet_buffer_samples = @ - Head(q.packet_buffer).samples,
            !.next_id = (@ + 1) % IdCount]

PushedFront(q, p) ==
  [q EXCEPT !.packet_buffer = <<p>> \o @,
            !.packet_buffer_samples = @ + p.samples]

\* Mutant of Play: the front packet is played although it is not due.
PlayEarly(q) == IF q.packet_buffer = <<>> THEN "loss" ELSE "packet"

\* What one iteration of the loop of get_next_data gives the decoder.
Play(q) ==
  IF q.packet_buffer = <<>> THEN "loss"
  ELSE LET id == Head(q.packet_buffer).id
       IN  IF id = q.next_id THEN "packet"
           ELSE IF id = (q.next_id + 1) % IdCount THEN "fec" ELSE "loss"

EndOfStream(q) == q.packet_buffer # <<>> /\ Head(q.packet_buffer).samples = 0

\* debug_assert!(packet.id.wrapping_sub(cur_id) < MAX_BUFFER_PACKETS)
AssertionFails(q) ==
  /\ DebugAssertions
  /\ q.packet_buffer # <<>>
  /\ Distance(Head(q.packet_buffer).id, q.next_id) >= MaxBufferPackets

\* One iteration: a packet that is not due yet is put back after the loss
\* before it was decoded, unless decoding failed.
Iteration(q, ok) ==
  IF q.packet_buffer = <<>> THEN DecodePacket(q, <<>>, "loss", ok)
  ELSE LET p == Head(q.packet_buffer)
           d == DecodePacket(Popped(q), p, Play(q), ok)
       IN  IF Play(q) = "packet" \/ ~ok THEN d ELSE PushedFront(d, p)

----------------------------------------------------------------------------
(* AudioHandler *)

\* The samples a new talker buffers, from the queues that play already.
AvgBufferSamples ==
  UsualFrameSize
    + FoldSet(LAMBDA t, s : GetMin(queues[t].size_min) + s, 0, Talking)
        \div Cardinality(Talking)

\* A packet of a client that does not talk yet starts a new queue, unless it
\* is the end of a stream or is refused.
StartTalking(t, p) ==
  IF p.samples = 0 \/ p.samples > MaxBufferSize
  THEN UNCHANGED <<queues, avg_buffer_samples>>
  ELSE /\ avg_buffer_samples' =
            IF Talking = {} THEN avg_buffer_samples ELSE AvgBufferSamples
       /\ queues' = [u \in Talking \cup {t} |->
            IF u \in Talking THEN queues[u]
            ELSE [NewQueue(p) EXCEPT !.buffering_samples = avg_buffer_samples']]

HandlePacket(t, p) ==
  IF Unsupported(p) THEN UNCHANGED <<queues, avg_buffer_samples>>
  ELSE IF t \in Talking
  THEN /\ queues' = [queues EXCEPT ![t] = AddPacket(@, p)]
       /\ UNCHANGED avg_buffer_samples
  ELSE StartTalking(t, p)

\* No call of fill_buffer is running.
Idle == filling.todo = {} /\ filling.cur = {}

\* The network delivers packet n: late, out of order, again or never.
Deliver(t, n) ==
  /\ ~panicked /\ Idle
  /\ budget > 0
  /\ n + Lag >= newest[t]
  /\ HandlePacket(t, Packet(t, n))
  /\ budget' = budget - 1
  /\ newest' = [newest EXCEPT ![t] = IF n > @ THEN n ELSE @]
  /\ UNCHANGED <<stream, filling, panicked>>

\* fill_buffer visits every queue and runs the loop of get_next_data for it.
\* It owns the handler until it returns: no packet is handled meanwhile.
BeginFill(len) ==
  /\ ~panicked /\ Idle
  /\ Talking # {}
  /\ filling' = [len |-> len, todo |-> Talking, cur |-> {}]
  /\ UNCHANGED <<queues, avg_buffer_samples, stream, newest, budget, panicked>>

\* The order of the queues, that of a hash map, does not matter: what is done
\* for one of them depends on that queue only.
Visiting(t) ==
  /\ ~panicked
  /\ filling.cur = {} /\ filling.todo # {}
  /\ t = CHOOSE u \in filling.todo : TRUE

\* A talker whose last packets were all lost is removed without being asked.
Lost(q) == q.packet_loss_num >= MaxPacketLosses

RemoveLost(t) ==
  /\ Visiting(t)
  /\ Lost(queues[t])
  /\ queues' = Restrict(queues, Talking \ {t})
  /\ filling' = [filling EXCEPT !.todo = @ \ {t}]
  /\ UNCHANGED <<avg_buffer_samples, stream, newest, budget, panicked>>

StillWaits(q) == q.buffering_samples > 0 /\ q.buffered_for_samples < MaxBufferTime

KeepBuffering(t) ==
  /\ Visiting(t)
  /\ ~Lost(queues[t]) /\ StillWaits(queues[t])
  /\ queues' = [queues EXCEPT ![t].buffered_for_samples = @ + filling.len]
  /\ filling' = [filling EXCEPT !.todo = @ \ {t}]
  /\ UNCHANGED <<avg_buffer_samples, stream, newest, budget, panicked>>

\* The samples that were returned are drained, at most those there are.
StartPlaying(t) ==
  /\ Visiting(t)
  /\ ~Lost(queues[t]) /\ ~StillWaits(queues[t])
  /\ IF queues[t].decoded_pos > queues[t].decoded
     THEN panicked' = TRUE /\ UNCHANGED <<queues, filling>>
     ELSE /\ queues' = [queues EXCEPT
               ![t].decoded = @ - queues[t].decoded_pos,
               ![t].buffering_samples = 0,
               ![t].buffered_for_samples = IF queues[t].buffering_samples > 0 THEN 0 ELSE @]
          /\ filling' = [filling EXCEPT !.todo = @ \ {t}, !.cur = {t}]
          /\ UNCHANGED panicked
  /\ UNCHANGED <<avg_buffer_samples, stream, newest, budget>>

Playing(t) == ~panicked /\ t \in filling.cur

PlayEnd(t) ==
  /\ Playing(t)
  /\ queues[t].decoded < filling.len
  /\ EndOfStream(queues[t])
  /\ queues' = Restrict(queues, Talking \ {t})
  /\ filling' = [filling EXCEPT !.cur = {}]
  /\ UNCHANGED <<avg_buffer_samples, stream, newest, budget, panicked>>

\* The decoder fails: get_next_data returns, the talker stays.
PlayNext(t, ok) ==
  /\ Playing(t)
  /\ ok \/ DecoderFails
  /\ queues[t].decoded < filling.len
  /\ ~EndOfStream(queues[t])
  /\ IF AssertionFails(queues[t])
     THEN panicked' = TRUE /\ UNCHANGED <<queues, filling>>
     ELSE /\ \E d \in {Iteration(queues[t], ok)} :
               queues' = [queues EXCEPT ![t] = IF ok THEN AdjustSpeed(d) ELSE d]
          /\ filling' = IF ok THEN filling ELSE [filling EXCEPT !.cur = {}]
          /\ UNCHANGED panicked
  /\ UNCHANGED <<avg_buffer_samples, stream, newest, budget>>

PlayDone(t) ==
  /\ Playing(t)
  /\ queues[t].decoded >= filling.len
  /\ queues' = [queues EXCEPT ![t].decoded_pos = filling.len]
  /\ filling' = [filling EXCEPT !.cur = {}]
  /\ UNCHANGED <<avg_buffer_samples, stream, newest, budget, panicked>>

Visit(t) == RemoveLost(t) \/ KeepBuffering(t) \/ StartPlaying(t)

Fill ==
  \/ \E len \in BufferLens : BeginFill(len)
  \/ \E t \in Talking :
       \/ Visit(t)
       \/ PlayEnd(t) \/ PlayDone(t)
       \/ \E ok \in BOOLEAN : PlayNext(t, ok)

\* AudioHandler::reset
Reset ==
  /\ ~panicked /\ Idle
  /\ Talking # {}
  /\ queues' = <<>>
  /\ UNCHANGED <<avg_buffer_samples, stream, newest, filling, budget, panicked>>

Init ==
  /\ queues = <<>>
  /\ avg_buffer_samples = 0
  /\ stream \in {f \in [Talkers -> UNION {Streams[t] : t \in Talkers}] :
                  \A t \in Talkers : f[t] \in Streams[t]}
  /\ newest = [t \in Talkers |-> 0]
  /\ filling = [len |-> 0, todo |-> {}, cur |-> {}]
  /\ budget = MaxDeliveries
  /\ panicked = FALSE

Next ==
  \/ \E t \in Talkers : \E n \in DOMAIN stream[t] : Deliver(t, n)
  \/ Fill
  \/ Reset

Spec == Init /\ [][Next]_vars /\ WF_vars(Fill)

----------------------------------------------------------------------------
(* Properties *)

QueueType ==
  [next_id : 0 .. (IdCount - 1),
   packet_buffer : Seq([pos : Nat, id : 0 .. (IdCount - 1), samples : Nat]),
   packet_buffer_samples : Nat, decoded : Nat, decoded_pos : Nat,
   last_packet_samples : Nat, packet_loss_num : Nat,
   buffering_samples : Nat,
   size_min : [queue : Seq([time : Nat, value : 0 .. MaxFrames]),
               cur_time : 0 .. (TimeCount - 1)],
   size_max : [queue : Seq([time : Nat, value : -MaxFrames .. 0]),
               cur_time : 0 .. (TimeCount - 1)],
   buffered_for_samples : Nat, heard : Seq(Nat)]

\* Every number of a queue stays in its type.  In particular, the number of
\* lost packets that decode_packet subtracts from the distance of two ids
\* never makes a buffer size negative.
TypeOK ==
  /\ Talking \subseteq Talkers
  /\ \A t \in Talking : queues[t] \in QueueType
  /\ avg_buffer_samples \in Nat
  /\ filling \in [len : Nat, todo : SUBSET Talkers, cur : SUBSET Talkers]
  /\ panicked \in BOOLEAN

\* The packet buffer of a queue stays sorted by the distance from the next
\* id, without duplicates, also when the ids wrap around: what add_packet,
\* which searches from the back, and get_next_data, which only looks at the
\* front, both rely on.
BufferOrdered ==
  \A t \in Talking :
    LET b == queues[t].packet_buffer
        D(i) == Distance(b[i].id, queues[t].next_id)
    IN  /\ \A i \in DOMAIN b : D(i) <= MaxBufferPackets
        /\ \A i, j \in DOMAIN b : i < j => D(i) < D(j)

\* However the network reorders, repeats or loses packets, a queue plays the
\* packets of its talker in the order they were sent and none of them twice.
PlayedInOrder ==
  \A t \in Talking :
    LET h == queues[t].heard IN \A i, j \in DOMAIN h : i < j => h[i] < h[j]

\* packet_buffer_samples, from which the playback speed is decided, is the
\* number of samples in the packet buffer after every mix of insertions,
\* losses that put a packet back, decoding errors and truncations.
SamplesCounted ==
  \A t \in Talking :
    queues[t].packet_buffer_samples = SumSamples(queues[t].packet_buffer)

\* get_deviation subtracts the smallest of the last buffer sizes from the
\* largest one: the two windows drop old sizes at different times, but the
\* difference of their minima is never negative.
DeviationFits == \A t \in Talking : Deviation(queues[t]) >= 0

\* The invariant of a queue: its numbers, its order, its count of samples and
\* its measure of jitter.
QueueSound == TypeOK /\ BufferOrdered /\ SamplesCounted /\ DeviationFits

\* The doc of decoded_pos (audio.rs): "The number of samples in
\* `decoded_buffer` that have been returned."  So between two calls it is at
\* most the length of the buffer, which drain relies on.  It does not hold
\* after an error of the decoder (README, section 3).
ReturnedWereDecoded ==
  Idle => \A t \in Talking : queues[t].decoded_pos <= queues[t].decoded

\* A talker from whom nothing arrives any more is removed, whether the end
\* of the stream arrived or was lost: either packet_loss_num or the packet
\* that ends the stream gets there, with whatever is left in the buffers and
\* also if packets cannot be decoded.  What it needs is that decoded_pos is
\* what its doc says.  An error of the decoder can break that, and then the
\* next call panics and nobody is removed.
TalkerEnds ==
  []ReturnedWereDecoded =>
    \A t \in Talkers : (t \in Talking /\ budget = 0) ~> t \notin Talking

=============================================================================
