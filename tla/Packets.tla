------------------------------ MODULE Packets ------------------------------
(***************************************************************************)
(* The layout of packets in tsproto-packets/src/packets.rs: how headers,   *)
(* acks, Init packets and voice are written and how they are read again.   *)
(* A packet is a sequence of bytes; contents without a meaning (random     *)
(* numbers, keys, sound) are sequences of bytes of the right length.       *)
(* Results are <<"Ok", value>>, <<"Err", error>>, or <<"Panic">> where the *)
(* code indexes a slice out of its bounds.                                 *)
(***************************************************************************)
EXTENDS Integers, Sequences, SequencesExt

Ok(value) == <<"Ok", value>>
Err(error) == <<"Err", error>>
Panic == <<"Panic">>

\* Bytes a to b - 1 of data, counted from 0, and the byte at i.
Slice(data, a, b) == SubSeq(data, a + 1, b)
From(data, a) == SubSeq(data, a + 1, Len(data))
At(data, i) == data[i + 1]

\* write_be and read_be of a number with some bytes.  Numbers of the model
\* need at most three of them.
Be(num, bytes) ==
  [i \in 1 .. bytes |-> IF bytes - i > 2 THEN 0 ELSE (num \div 256 ^ (bytes - i)) % 256]
ReadBe(data) ==
  LET num[n \in 0 .. Len(data)] == IF n = 0 THEN 0 ELSE num[n - 1] * 256 + data[n]
  IN num[Len(data)]

----------------------------------------------------------------------------
(* Headers *)

PacketTypes == [Voice |-> 0, VoiceWhisper |-> 1, Command |-> 2, CommandLow |-> 3, Ping |-> 4,
                Pong |-> 5, Ack |-> 6, AckLow |-> 7, Init |-> 8]
TypeOf(num) == CHOOSE t \in DOMAIN PacketTypes : PacketTypes[t] = num
Flags == {128, 64, 32, 16}     \* UNENCRYPTED, COMPRESSED, NEWPROTOCOL, FRAGMENTED
NewProtocol == 32

HeaderLen(dir) == IF dir = "S2C" THEN 11 ELSE 13
TypeOffset(dir) == IF dir = "S2C" THEN 10 ELSE 12

\* OutPacket: flags and packet_type share a byte, and each setter keeps the
\* other half.
SetByte(data, i, byte) == Slice(data, 0, i) \o <<byte>> \o From(data, i + 1)
SetFlags(dir, data, flags) ==
  SetByte(data, TypeOffset(dir), (At(data, TypeOffset(dir)) % 16) + FoldSet(+, 0, flags))
SetType(dir, data, type) ==
  SetByte(data, TypeOffset(dir), (At(data, TypeOffset(dir)) \div 16) * 16 + PacketTypes[type])

\* OutPacket::new_with_dir
NewWithDir(dir, flags, type) ==
  SetType(dir, SetFlags(dir, [i \in 1 .. HeaderLen(dir) |-> 0], flags), type)

Mac(data) == Slice(data, 0, 8)
SetMac(data, mac) == mac \o From(data, 8)
SetPacketId(data, id) == Slice(data, 0, 8) \o Be(id, 2) \o From(data, 10)
SetClientId(data, id) == Slice(data, 0, 10) \o Be(id, 2) \o From(data, 12)

\* OutPacket::new: only packets to a server have a client id.
NewPacket(mac, id, client_id, flags, type) ==
  LET dir == IF client_id = -1 THEN "S2C" ELSE "C2S"
      data == SetPacketId(SetMac(NewWithDir(dir, flags, type), mac), id)
  IN IF client_id = -1 THEN data ELSE SetClientId(data, client_id)

\* InHeader
HeaderType(dir, data) == At(data, TypeOffset(dir)) % 16
HeaderFlags(dir, data) == {f \in Flags : (At(data, TypeOffset(dir)) \div f) % 2 = 1}
HeaderId(data) == ReadBe(Slice(data, 8, 10))
HeaderClientId(dir, data) == IF dir = "S2C" THEN -1 ELSE ReadBe(Slice(data, 10, 12))
Content(dir, data) == From(data, HeaderLen(dir))

\* InPacket::try_new
TryNew(dir, data) ==
  IF Len(data) < HeaderLen(dir) THEN Err("PacketTooShort")
  ELSE IF HeaderType(dir, data) > 8 THEN Err("UnknownPacketType") ELSE Ok(data)

----------------------------------------------------------------------------
(* Acks and Init packets *)

AckTypes == [Command |-> "Ack", CommandLow |-> "AckLow", Ping |-> "Pong"]

\* OutAck::new
NewAck(dir, for_type, id) == NewWithDir(dir, {}, AckTypes[for_type]) \o Be(id, 2)

InitMac == <<84, 83, 51, 73, 78, 73, 84, 49>>
NewInit(dir, content) ==
  SetPacketId(SetMac(NewWithDir(dir, {}, "Init"), InitMac), 101) \o content

\* The Init packets: what is in them, in order.  Step 127 is only ever read.
OutC2SInit(d) ==
  NewInit("C2S",
    Be(d.version, 4) \o <<d.step>> \o
    CASE d.step = 0 -> Be(d.timestamp, 4) \o d.random0 \o [i \in 1 .. 8 |-> 0]
      [] d.step = 2 -> d.random1 \o d.random0_r
      [] d.step = 4 -> d.x \o d.n \o Be(d.level, 4) \o d.random2 \o d.y \o d.command)
OutS2CInit(d) ==
  NewInit("S2C",
    <<d.step>> \o
    CASE d.step = 1 -> d.random1 \o d.random0_r
      [] d.step = 3 -> d.x \o d.n \o Be(d.level, 4) \o d.random2
      [] d.step = 127 -> <<>>)

\* What into_s2cinit and into_c2sinit check before the content.
CheckInit(dir, data) ==
  IF HeaderType(dir, data) # PacketTypes.Init THEN Err("WrongPacketType")
  ELSE IF Mac(data) # InitMac THEN Err("WrongInitMac") ELSE Ok(data)

ParseS2CInit(data) ==
  LET c == Content("S2C", data) IN
  IF CheckInit("S2C", data)[1] = "Err" THEN CheckInit("S2C", data)
  ELSE CASE c = <<>> -> Err("PacketContentTooShort")
         [] c # <<>> /\ c[1] = 1 ->
              IF Len(c) < 21 THEN Err("PacketContentTooShort")
              ELSE Ok([step |-> 1, random1 |-> Slice(c, 1, 17), random0_r |-> Slice(c, 17, 21)])
         [] c # <<>> /\ c[1] = 3 ->
              IF Len(c) < 233 THEN Err("PacketContentTooShort")
              ELSE Ok([step |-> 3, x |-> Slice(c, 1, 65), n |-> Slice(c, 65, 129),
                       level |-> ReadBe(Slice(c, 129, 133)), random2 |-> Slice(c, 133, 233)])
         [] c # <<>> /\ c[1] = 127 -> Ok([step |-> 127])
         [] OTHER -> Err("InvalidInitStep")

\* The command of Init4 has at least 20 characters.
ParseC2SInit(data) ==
  LET c == Content("C2S", data)
      step == At(c, 4)
      version == ReadBe(Slice(c, 0, 4))
      len == 5 + 128 + 4 + 100 + 64
  IN IF CheckInit("C2S", data)[1] = "Err" THEN CheckInit("C2S", data)
     ELSE IF Len(c) < 5 THEN Err("PacketContentTooShort")
     ELSE CASE step = 0 ->
                 IF Len(c) < 13 THEN Err("PacketContentTooShort")
                 ELSE Ok([step |-> 0, version |-> version, timestamp |-> ReadBe(Slice(c, 5, 9)),
                          random0 |-> Slice(c, 9, 13)])
            [] step = 2 ->
                 IF Len(c) < 25 THEN Err("PacketContentTooShort")
                 ELSE Ok([step |-> 2, version |-> version, random1 |-> Slice(c, 5, 21),
                          random0_r |-> Slice(c, 21, 25)])
            [] step = 4 ->
                 IF Len(c) < len + 20 THEN Err("PacketContentTooShort")
                 ELSE Ok([step |-> 4, version |-> version, x |-> Slice(c, 5, 69),
                          n |-> Slice(c, 69, 133), level |-> ReadBe(Slice(c, 133, 137)),
                          random2 |-> Slice(c, 137, 237), y |-> Slice(c, 237, 301),
                          command |-> From(c, len)])
            [] OTHER -> Err("InvalidInitStep")

\* OutUdpPacket::packet_id: an Init packet is known by its step.
UdpPacketId(dir, data) ==
  IF HeaderType(dir, data) = PacketTypes.Init
  THEN At(Content(dir, data), IF dir = "S2C" THEN 0 ELSE 4)
  ELSE HeaderId(data)

\* Mutant: the content of an ack is taken as one byte.
AckPacketByte(dir, data) ==
  IF TypeOf(HeaderType(dir, data)) \in {"Ack", "AckLow", "Pong"}
  THEN Ok(At(Content(dir, data), 0)) ELSE Ok(-1)

\* InPacket::ack_packet: the id of the packet that this one acknowledges, or
\* -1 (None).  127 sends us back to Init0, and removes Init2, too.
AckPacket(dir, data) ==
  LET c == Content(dir, data)
      type == TypeOf(HeaderType(dir, data))
      i == IF dir = "S2C" THEN 0 ELSE 4
      acked == IF dir = "S2C" THEN (1 :> 0 @@ 3 :> 2 @@ 127 :> 2)
               ELSE (0 :> -1 @@ 2 :> 1 @@ 4 :> 3)
  IN CASE type \in {"Ack", "AckLow", "Pong"} ->
            IF Len(c) < 2 THEN Err("PacketContentTooShort") ELSE Ok(ReadBe(Slice(c, 0, 2)))
       [] type = "Init" ->
            IF Len(c) <= i THEN Err("PacketContentTooShort")
            ELSE IF At(c, i) \notin DOMAIN acked THEN Err("InvalidInitStep")
            ELSE Ok(acked[At(c, i)])
       [] OTHER -> Ok(-1)

----------------------------------------------------------------------------
(* Voice *)

MaxCodec == 5

\* AudioData::packet_type, direction and flags
AudioType(d) == IF d.kind \in {"C2S", "S2C"} THEN "Voice" ELSE "VoiceWhisper"
AudioDirection(d) == IF d.kind \in {"S2C", "S2CWhisper"} THEN "S2C" ELSE "C2S"
AudioFlags(d) == IF d.kind = "C2SWhisperNew" THEN {NewProtocol} ELSE {}

Concat(seqs) == FoldLeft(LAMBDA all, s : all \o s, <<>>, seqs)

\* OutAudio::new.  The lengths of the lists are written as one byte.
NewAudio(d) ==
  NewWithDir(AudioDirection(d), AudioFlags(d), AudioType(d)) \o Be(d.id, 2) \o
  CASE d.kind = "C2S" -> <<d.codec>> \o d.data
    [] d.kind = "C2SWhisper" ->
         <<d.codec, Len(d.channels) % 256, Len(d.clients) % 256>>
           \o Concat([i \in DOMAIN d.channels |-> Be(d.channels[i], 8)])
           \o Concat([i \in DOMAIN d.clients |-> Be(d.clients[i], 2)]) \o d.data
    [] d.kind = "C2SWhisperNew" ->
         <<d.codec, d.whisper_type, d.target>> \o Be(d.target_id, 8) \o d.data
    [] d.kind \in {"S2C", "S2CWhisper"} -> Be(d.from, 2) \o <<d.codec>> \o d.data

\* The error names the byte at 4, which a short packet does not have.
InvalidCodec(c) == IF Len(c) < 5 THEN Panic ELSE Err("InvalidCodec")

ParseOfServer(type, c) ==
  CASE Len(c) < 5 -> Err("PacketContentTooShort")
    [] Len(c) >= 5 /\ At(c, 4) > MaxCodec -> InvalidCodec(c)
    [] OTHER -> Ok([kind |-> IF type = "Voice" THEN "S2C" ELSE "S2CWhisper",
                    id |-> ReadBe(Slice(c, 0, 2)), from |-> ReadBe(Slice(c, 2, 4)),
                    codec |-> At(c, 4), data |-> From(c, 5)])

ParseWhisper(c) ==
  LET client_off == 5 + At(c, 3) * 8
      off == client_off + At(c, 4) * 2
  IN IF Len(c) < 5 \/ Len(c) < off THEN Err("PacketContentTooShort")
     ELSE Ok([kind |-> "C2SWhisper", id |-> ReadBe(Slice(c, 0, 2)), codec |-> At(c, 2),
              channels |-> [i \in 1 .. At(c, 3) |-> ReadBe(Slice(c, 8 * i - 3, 8 * i + 5))],
              clients |-> [i \in 1 .. At(c, 4) |->
                             ReadBe(Slice(c, client_off + 2 * i - 2, client_off + 2 * i))],
              data |-> From(c, off)])

\* 13 bytes come before the data, but 14 are asked for.
ParseWhisperNew(c) ==
  IF Len(c) < 14 THEN Err("PacketContentTooShort")
  ELSE Ok([kind |-> "C2SWhisperNew", id |-> ReadBe(Slice(c, 0, 2)), codec |-> At(c, 2),
           whisper_type |-> At(c, 3), target |-> At(c, 4), target_id |-> ReadBe(Slice(c, 5, 13)),
           data |-> From(c, 13)])

\* AudioData::parse
ParseAudio(type, newprotocol, dir, c) ==
  CASE Len(c) < 2 -> Err("Io")
    [] Len(c) >= 2 /\ dir = "S2C" -> ParseOfServer(type, c)
    [] Len(c) = 2 /\ dir = "C2S" -> Err("PacketContentTooShort")
    [] OTHER ->
         IF At(c, 2) > MaxCodec THEN InvalidCodec(c)
         ELSE CASE type = "Voice" -> Ok([kind |-> "C2S", id |-> ReadBe(Slice(c, 0, 2)),
                                         codec |-> At(c, 2), data |-> From(c, 3)])
                [] type # "Voice" /\ newprotocol -> ParseWhisperNew(c)
                [] OTHER -> ParseWhisper(c)

\* InPacket::into_audio
IntoAudio(dir, data) ==
  ParseAudio(TypeOf(HeaderType(dir, data)), NewProtocol \in HeaderFlags(dir, data), dir,
             Content(dir, data))

=============================================================================
