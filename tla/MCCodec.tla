------------------------------- MODULE MCCodec -------------------------------
(***************************************************************************)
(* Commands, Packets and License on bounded inputs: every state has one    *)
(* input, and the properties compare what is written with what is read.    *)
(***************************************************************************)
EXTENDS Commands, License

CONSTANTS
  ValueLen,     \* bound: characters of a value
  Times,        \* bound: times in licenses
  Lens,         \* bound: lengths of sounds
  ListLens      \* bound: numbers of channels and clients a whisper goes to

ASSUME ValueLenAssumption == ValueLen \in Nat

VARIABLES
  kind,         \* what the input is
  input

codecVars == <<kind, input>>

Nothing == [kind |-> "nothing"]

CodecInit == kind = "none" /\ input = Nothing

Pick(k, i) == kind' = k /\ input' = i

----------------------------------------------------------------------------
(* Inputs *)

Characters == {"a", "s", Space, Pipe, Equals, Slash, Escape}
Values == UNION {[1 .. n -> Characters] : n \in 0 .. ValueLen}
Arg(value) == [name |-> <<"k">>, value |-> value]

\* Commands with one or two arguments in one or two parts, with or without a
\* name.  Without one the first argument has a value, else its name would be
\* taken for that of the command.
PickCommand ==
  \E name \in {<<>>, <<"c", "d">>}, v \in Values, w \in Values :
    \E parts \in {<<<<Arg(v), Arg(w)>>>>, <<<<Arg(v)>>, <<Arg(w)>>>>} :
      /\ name = <<>> => v # <<>>
      /\ Pick("command", [name |-> name, parts |-> parts])

Bytes(len, first) == [i \in 1 .. len |-> (first + i) % 256]

PickHeader ==
  \E id \in {0, 255, 65535}, client_id \in {-1, 0, 513}, flags \in SUBSET Flags,
     type \in DOMAIN PacketTypes :
    Pick("header", [id |-> id, client_id |-> client_id, flags |-> flags, type |-> type])

PickAck ==
  \E dir \in {"S2C", "C2S"}, type \in DOMAIN AckTypes, id \in {0, 1, 255, 256, 65535} :
    Pick("ack", [dir |-> dir, type |-> type, id |-> id])

S2CInits ==
  {[step |-> 1, random1 |-> Bytes(16, 1), random0_r |-> Bytes(4, 50)],
   [step |-> 3, x |-> Bytes(64, 1), n |-> Bytes(64, 101), level |-> 70000, random2 |-> Bytes(100, 7)],
   [step |-> 127]}
C2SInits ==
  {[step |-> 0, version |-> 66000, timestamp |-> 70000, random0 |-> Bytes(4, 30)],
   [step |-> 2, version |-> 66000, random1 |-> Bytes(16, 1), random0_r |-> Bytes(4, 50)],
   [step |-> 4, version |-> 66000, x |-> Bytes(64, 1), n |-> Bytes(64, 101), level |-> 300,
    random2 |-> Bytes(100, 7), y |-> Bytes(64, 180), command |-> Bytes(30, 60)]}

\* An Init packet of which some bytes are missing at the end.
PickInit ==
  \/ \E d \in S2CInits, cut \in 0 .. 20 : Pick("s2cinit", [d |-> d, cut |-> cut])
  \/ \E d \in C2SInits, cut \in 0 .. 20 : Pick("c2sinit", [d |-> d, cut |-> cut])

Voices(len) ==
  [kind : {"C2S"}, id : {0, 65535}, codec : {0, MaxCodec}, data : {Bytes(len, 9)}]
    \cup [kind : {"S2C", "S2CWhisper"}, id : {0, 65535}, from : {1, 256}, codec : {4}, data : {Bytes(len, 9)}]
    \cup [kind : {"C2SWhisper"}, id : {513}, codec : {4}, channels : {Bytes(n, 250) : n \in ListLens},
          clients : {Bytes(n, 3) : n \in ListLens}, data : {Bytes(len, 9)}]
    \cup [kind : {"C2SWhisperNew"}, id : {513}, codec : {4}, whisper_type : {2}, target : {1},
          target_id : {70000}, data : {Bytes(len, 9)}]

PickVoice == \E len \in Lens : \E d \in Voices(len) : Pick("voice", d)

\* Anything at all in the content of a voice packet.
PickContent ==
  \E len \in 0 .. 6, type \in {"Voice", "VoiceWhisper"}, byte \in {0, MaxCodec, MaxCodec + 1, 255} :
    Pick("content", [type |-> type, content |-> [i \in 1 .. len |-> byte]])

\* Chains of three blocks that end with an ephemeral key, as the ones of
\* servers do; they are built in two steps.  The first step does not end with
\* the properties of a Ts5Server block, which have to be followed by something.
Calls(typ) ==
  CASE typ = "Ephemeral" -> {<<>>}
    [] typ = "Intermediate" -> {<<<<"max_clients", 300>>, <<"issuer", issuer>>>> :
                                  issuer \in {<<>>, <<65, 66>>}}
    [] typ = "Server" -> {<<<<"server_license_type", 2>>, <<"issuer", <<65>>>>, <<"max_clients", 300>>>>}
    [] typ = "Ts5Server" -> {<<<<"server_license_type", 2>>>>, <<<<"issuer", <<65, 66>>>>>>,
                             <<<<"max_clients", 300>>, <<"issuer", <<65>>>>>>}
    [] typ = "Website" -> {<<>>}

BlocksOf(typ) ==
  {[typ |-> typ, key |-> key, start |-> s, end |-> e,
    calls |-> calls \o <<<<"public_key", PublicOf(key)>>, <<"not_valid_before", s>>,
                         <<"not_valid_after", e>>>>] :
     key \in {2}, s \in Times, e \in Times, calls \in Calls(typ)}

PickChain ==
  \E typ \in {"Intermediate", "Server", "Ts5Server", "Website"}, now \in Times :
    \E a \in BlocksOf("Intermediate"), b \in BlocksOf(typ), c \in BlocksOf("Ephemeral"),
       steps \in 0 .. 2 :
      /\ a.start = Min(Times) /\ a.end = Max(Times)
      /\ typ = "Ts5Server" => steps # 2
      /\ Pick("chain", [builds |-> <<a, b, c>>, now |-> now, steps |-> steps])

\* Chains at the limit of the number of blocks.
PickLongChain ==
  \E n \in MaxBlocks - 1 .. MaxBlocks + 1, now \in Times : \E c \in BlocksOf("Ephemeral") :
    Pick("chain", [builds |-> [i \in 1 .. n |-> c], now |-> now, steps |-> 1])

CodecNext ==
  /\ kind = "none"
  /\ \/ PickCommand \/ PickHeader \/ PickAck \/ PickInit \/ PickVoice \/ PickContent
     \/ PickChain \/ PickLongChain

CodecSpec == CodecInit /\ [][CodecNext]_codecVars

----------------------------------------------------------------------------
(* Properties of commands and packets *)

\* Whatever is in the values of a command, the parser finds the name, the
\* arguments and the parts that were written: no value can end its argument
\* or start a part.
CommandsReadBack ==
  kind = "command" =>
    LET text == Write(input.name, input.parts)
    IN Name(text) = input.name /\ Items(text) = ItemsOf(input.parts)

HeadersReadBack ==
  kind = "header" =>
    LET dir == IF input.client_id = -1 THEN "S2C" ELSE "C2S"
        data == NewPacket(Bytes(8, 1), input.id, input.client_id, input.flags, input.type)
    IN /\ TryNew(dir, data) = Ok(data) /\ Mac(data) = Bytes(8, 1)
       /\ HeaderId(data) = input.id /\ HeaderClientId(dir, data) = input.client_id
       /\ HeaderFlags(dir, data) = input.flags /\ TypeOf(HeaderType(dir, data)) = input.type
       /\ Content(dir, data) = <<>>

\* A packet that was cut is rejected, or nothing is missing that is read.
InitsReadBack ==
  /\ kind = "s2cinit" =>
       LET full == OutS2CInit(input.d)
           cut == ParseS2CInit(Slice(full, 0, Len(full) - (input.cut % (Len(full) - 10))))
       IN ParseS2CInit(full) = Ok(input.d) /\ (cut[1] = "Ok" => cut = Ok(input.d))
  /\ kind = "c2sinit" =>
       LET full == OutC2SInit(input.d)
           cut == ParseC2SInit(Slice(full, 0, Len(full) - input.cut))
       IN /\ ParseC2SInit(full) = Ok(input.d)
          /\ (cut[1] = "Ok" /\ input.d.step # 4) => cut = Ok(input.d)

\* An ack names the packet it was made for, and an Init packet the one that it
\* answers, under the id that the sender keeps it with.
AcksNamePacket ==
  /\ kind = "ack" =>
       AckPacket(input.dir, NewAck(input.dir, input.type, input.id)) = Ok(input.id)
  /\ (kind = "s2cinit" /\ input.d.step # 127) =>
       \E d \in C2SInits : AckPacket("S2C", OutS2CInit(input.d)) = Ok(UdpPacketId("C2S", OutC2SInit(d)))
                             /\ d.step + 1 = input.d.step
  /\ (kind = "c2sinit" /\ input.d.step # 0) =>
       \E d \in S2CInits : AckPacket("C2S", OutC2SInit(input.d)) = Ok(UdpPacketId("S2C", OutS2CInit(d)))
                             /\ d.step + 1 = input.d.step

\* What the layout has room for: the numbers of channels and clients are
\* written as one byte (packets.rs:1158), and the reader of a new whisper asks
\* for one byte more than its header has.
HasRoom(d) ==
  /\ d.kind = "C2SWhisper" => Len(d.channels) < 256 /\ Len(d.clients) < 256
  /\ d.kind = "C2SWhisperNew" => d.data # <<>>

\* Voice is read as it was written if and only if it fits: a whisper to 256 or
\* more channels or clients is not, nor is the end of a new whisper.
VoiceReadBack ==
  kind = "voice" =>
    (IntoAudio(AudioDirection(input), NewAudio(input)) = Ok(input)) = HasRoom(input)

\* No content of a voice packet of a server makes the client panic.
ServerVoiceIsSafe ==
  kind = "content" => ParseAudio(input.type, FALSE, "S2C", input.content) # Panic

\* All of these: what this library writes is what it reads.
PacketsReadBack ==
  HeadersReadBack /\ InitsReadBack /\ AcksNamePacket /\ VoiceReadBack /\ ServerVoiceIsSafe

----------------------------------------------------------------------------
(* Properties of licenses *)

\* The chain of the input, built in two steps.
Built ==
  LET first == Build(<<1>>, <<>>, SubSeq(input.builds, 1, input.steps))
  IN IF first.parsed.result # "Ok" THEN first
     ELSE Build(first.data, first.parsed.blocks,
                SubSeq(input.builds, input.steps + 1, Len(input.builds)))

Nested(builds) == \A i \in 2 .. Len(builds) : Within(builds[i], builds[i - 1])
Supported(builds) == \A i \in DOMAIN builds : builds[i].typ # "Website"

\* A chain is accepted if and only if it has at most 8 blocks of known types,
\* no block is valid longer than any block before it, and all of them are
\* valid now; in how many steps it was built makes no difference.
ChainsNested ==
  kind = "chain" =>
    \E b \in {Built} :
      LET good == Nested(input.builds) /\ Supported(input.builds) /\ Len(input.builds) <= MaxBlocks
          all == Concat([i \in DOMAIN input.builds |-> BuildBlock(input.builds[i])])
          parsed == Parse(<<1>> \o all, TRUE, input.now)
      IN /\ (b.parsed.result = "Ok") = good
         /\ good => Parse(b.data, FALSE, 0).blocks = b.parsed.blocks
         /\ (parsed.result = "Ok") =
              (good /\ \A i \in DOMAIN input.builds :
                         input.builds[i].start <= input.now /\ input.now <= input.builds[i].end)

\* The value that a call has set, if there was one.
Set(build, name) == {build.calls[i][2] : i \in {j \in DOMAIN build.calls : build.calls[j][1] = name}}

\* Every block of an accepted chain has the fields it was built with (the
\* number of clients of a Ts5Server block has not, see MaxClientsReadBack).
FieldsReadBack ==
  (kind = "chain" /\ Built.parsed.result = "Ok") =>
    \E b \in {Built} : \A i \in DOMAIN input.builds :
      LET license == b.parsed.blocks[i]
          data == BlockData(b.data, b.parsed.blocks, i)
          build == input.builds[i]
      IN /\ GetType(data) = build.typ /\ Bounds(data) = [start |-> build.start, end |-> build.end]
         /\ \A issuer \in Set(build, "issuer") : GetIssuer(data, license) = Ok(issuer)
         /\ \A num \in Set(build, "server_license_type") : GetLicenseType(data) = Ok(num)
         /\ build.typ # "Ts5Server" =>
              \A num \in Set(build, "max_clients") : GetMaxClients(data, license) = Ok(num)

\* max_clients is "only valid for Intermediate, Server and Ts5Server license
\* types": what it writes should be read by get_max_clients for all of them.
\* It does not hold for Ts5Server (README, section 7).
MaxClientsReadBack ==
  (kind = "chain" /\ Built.parsed.result = "Ok") =>
    \E b \in {Built} : \A i \in DOMAIN input.builds :
      \A num \in Set(input.builds[i], "max_clients") :
        GetMaxClients(BlockData(b.data, b.parsed.blocks, i), b.parsed.blocks[i]) = Ok(num)

\* From whichever block on a private key is derived, it belongs to the public
\* key that is derived from the root key.
KeysFit(data, blocks, private, root) ==
  LET upto(n) == DerivePrivateKey(data, SubSeq(blocks, 1, n), private, 1, root)
  IN \A s \in 1 .. Len(blocks) :
       PublicOf(DerivePrivateKey(data, blocks, private, s, upto(s - 1)))
         = DerivePublicKey(data, blocks, PublicOf(root))

\* The private key that a server derives, from whichever block on, belongs to
\* the public key that a client derives from the root key.
KeysAgree ==
  (kind = "chain" /\ Built.parsed.result = "Ok") =>
    \E b \in {Built} :
      KeysFit(b.data, b.parsed.blocks, [i \in DOMAIN b.parsed.blocks |-> input.builds[i].key], 3)

LicensesSound == ChainsNested /\ FieldsReadBack

=============================================================================
