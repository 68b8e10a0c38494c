------------------------------ MODULE License ------------------------------
(***************************************************************************)
(* The license chain of a server, tsproto/src/license.rs: how its blocks   *)
(* are built and parsed, which chains are accepted, what can be read from  *)
(* a block, and which keys a chain leads to.                               *)
(*                                                                         *)
(* A chain is a sequence of bytes.  Keys are numbers modulo Order, which   *)
(* form a group like the points of the curve: the public key of k is       *)
(* k * Base.  The hash of a block is any number that depends on its bytes. *)
(***************************************************************************)
EXTENDS Packets

CONSTANTS
  Order, Base,
  LicenseTypes   \* the numbers of the known kinds of licenses (declarations)

BlockMinLen == 42
BlockTypeOffset == 33
NotValidBeforeOffset == 34
NotValidAfterOffset == 38
MaxBlocks == 8

BlockTypes == [Intermediate |-> 0, Website |-> 1, Server |-> 2, Code |-> 3, Ts5Server |-> 8,
               Ephemeral |-> 32]

\* LicenseBlockType::min_len, without the part that all blocks have.
MinExtra == [Intermediate |-> 5, Website |-> 1, Server |-> 6, Code |-> 1, Ts5Server |-> 2,
             Ephemeral |-> 0]

----------------------------------------------------------------------------
(* LicenseBlockBuilder.  A block is built by a sequence of calls. *)

Zeros(len) == [i \in 1 .. len |-> 0]
Overwrite(data, o, bytes) == Slice(data, 0, o) \o bytes \o From(data, o + Len(bytes))

\* add_block
AddBlock(typ) == SetByte(Zeros(BlockMinLen + MinExtra[typ]), BlockTypeOffset, BlockTypes[typ])

PublicKey(block, key) == Overwrite(block, 1, Be(key, 32))
NotValidBefore(block, time) == Overwrite(block, NotValidBeforeOffset, Be(time, 4))
NotValidAfter(block, time) == Overwrite(block, NotValidAfterOffset, Be(time, 4))
ServerLicenseType(block, num) == SetByte(block, BlockMinLen, num)

\* ts5_add_property: the length counts the id and the type, too.
Ts5AddProperty(block, id, typ, content) ==
  SetByte(block, BlockMinLen + 1, At(block, BlockMinLen + 1) + 1)
    \o <<Len(content) + 2, id, typ>> \o content

MaxClients(typ, block, num) ==
  CASE typ = "Ts5Server" -> Ts5AddProperty(block, 3, 1, Be(num, 4))
    [] typ = "Intermediate" -> Overwrite(block, BlockMinLen, Be(num, 4))
    [] typ = "Server" -> Overwrite(block, BlockMinLen + 1, Be(num, 4))

\* The issuer goes before the zero at the end of the block.
Issuer(typ, block, issuer) ==
  IF typ = "Ts5Server" THEN Ts5AddProperty(block, 2, 0, issuer \o <<0>>)
  ELSE Slice(block, 0, Len(block) - 1) \o issuer \o <<0>>

Called(typ, block, call) ==
  CASE call[1] = "public_key" -> PublicKey(block, call[2])
    [] call[1] = "not_valid_before" -> NotValidBefore(block, call[2])
    [] call[1] = "not_valid_after" -> NotValidAfter(block, call[2])
    [] call[1] = "server_license_type" -> ServerLicenseType(block, call[2])
    [] call[1] = "max_clients" -> MaxClients(typ, block, call[2])
    [] call[1] = "issuer" -> Issuer(typ, block, call[2])

BuildBlock(b) == FoldLeft(LAMBDA block, call : Called(b.typ, block, call), AddBlock(b.typ), b.calls)

----------------------------------------------------------------------------
(* License: a single block at the start of some data *)

TypNum(data) == At(data, BlockTypeOffset)
HasType(data) == \E t \in DOMAIN BlockTypes : BlockTypes[t] = TypNum(data)
GetType(data) == CHOOSE t \in DOMAIN BlockTypes : BlockTypes[t] = TypNum(data)

\* The length of a string that ends with the first zero at or after o.
StringLen(data, o) == Min({i \in o .. Len(data) - 1 : At(data, i) = 0}) - o
IsTerminated(data, o) == \E i \in o .. Len(data) - 1 : At(data, i) = 0

\* The properties of a Ts5Server block: their offsets, and where they end.  A
\* property has to be followed by something.
Ts5Property(data, acc) ==
  IF acc.error \/ acc.pos >= Len(data)
     \/ acc.pos + 1 + At(data, acc.pos) >= Len(data) THEN [acc EXCEPT !.error = TRUE]
  ELSE [error |-> FALSE, pos |-> acc.pos + 1 + At(data, acc.pos),
        properties |-> Append(acc.properties, acc.pos - 2)]

Ts5Properties(data) ==
  LET read[i \in 0 .. At(data, 1)] ==
        IF i = 0 THEN [error |-> FALSE, pos |-> 2, properties |-> <<>>]
        ELSE Ts5Property(data, read[i - 1])
  IN read[At(data, 1)]

Block(extra, properties) == [len |-> BlockMinLen + extra, properties |-> properties]

\* License::parse; all of its errors are alike here.
ParseLicense(data) ==
  LET rest == From(data, BlockMinLen)
      typ == GetType(data)
  IN IF Len(data) < BlockMinLen \/ At(data, 0) # 0 \/ ~HasType(data) THEN Err("License")
     ELSE CASE typ = "Intermediate" ->
                 IF Len(rest) < 5 \/ ~IsTerminated(rest, 4) THEN Err("License")
                 ELSE Ok(Block(5 + StringLen(rest, 4), <<>>))
            [] typ = "Server" ->
                 IF Len(rest) < 6 \/ ~IsTerminated(rest, 5) THEN Err("License")
                 ELSE Ok(Block(6 + StringLen(rest, 5), <<>>))
            [] typ = "Ts5Server" ->
                 IF Len(rest) < 2 \/ Ts5Properties(rest).error THEN Err("License")
                 ELSE Ok(Block(Ts5Properties(rest).pos, Ts5Properties(rest).properties))
            [] typ = "Ephemeral" -> Ok(Block(0, <<>>))
            [] OTHER -> Err("License")

\* get_not_valid_before, get_not_valid_after
Bounds(data) ==
  [start |-> ReadBe(Slice(data, NotValidBeforeOffset, NotValidBeforeOffset + 4)),
   end |-> ReadBe(Slice(data, NotValidAfterOffset, NotValidAfterOffset + 4))]

----------------------------------------------------------------------------
(* Licenses: the chain *)

Within(inner, outer) == inner.start >= outer.start /\ inner.end <= outer.end

\* parse_block: bounds is a set with the bounds of the block before, if any.
\* The result has the license and its bounds.
ParseBlock(data, check_expired, now, bounds) ==
  LET license == ParseLicense(data)
      new == Bounds(data)
  IN IF license[1] = "Err" THEN license
     ELSE IF check_expired /\ ~(new.start <= now /\ now <= new.end) THEN Err("Expired")
     ELSE IF \E outer \in bounds : ~Within(new, outer) THEN Err("Bounds")
     ELSE Ok([license |-> license[2], bounds |-> new])

\* The state of a loop over blocks: parsed is the blocks so far, and data what
\* is still to be read.
Start(blocks, bounds, data) ==
  [blocks |-> blocks, bounds |-> bounds, data |-> data, result |-> "more"]

\* Mutant: a block is compared with the first one only.
NextBlockFirst(check_expired, now, s) ==
  LET r == ParseBlock(s.data, check_expired, now, s.bounds) IN
  CASE s.result # "more" -> s
    [] s.result = "more" /\ s.data = <<>> -> [s EXCEPT !.result = "Ok"]
    [] s.result = "more" /\ s.data # <<>> /\ Len(s.blocks) >= MaxBlocks ->
         [s EXCEPT !.result = "TooManyBlocks"]
    [] OTHER ->
         IF r[1] = "Err" THEN [s EXCEPT !.result = r[2]]
         ELSE [s EXCEPT !.blocks = Append(@, r[2].license),
                        !.bounds = IF @ = {} THEN {r[2].bounds} ELSE @,
                        !.data = From(@, r[2].license.len)]

NextBlock(check_expired, now, s) ==
  LET r == ParseBlock(s.data, check_expired, now, s.bounds) IN
  CASE s.result # "more" -> s
    [] s.result = "more" /\ s.data = <<>> -> [s EXCEPT !.result = "Ok"]
    [] s.result = "more" /\ s.data # <<>> /\ Len(s.blocks) >= MaxBlocks ->
         [s EXCEPT !.result = "TooManyBlocks"]
    [] OTHER ->
         IF r[1] = "Err" THEN [s EXCEPT !.result = r[2]]
         ELSE [s EXCEPT !.blocks = Append(@, r[2].license), !.bounds = {r[2].bounds},
                        !.data = From(@, r[2].license.len)]

AllBlocks(check_expired, now, start) ==
  LET after[i \in 0 .. MaxBlocks + 1] ==
        IF i = 0 THEN start ELSE NextBlock(check_expired, now, after[i - 1])
  IN after[MaxBlocks + 1]

\* parse_internal: the version comes first.
Parse(data, check_expired, now) ==
  IF At(data, 0) \notin {0, 1} THEN [Start(<<>>, {}, data) EXCEPT !.result = "UnsupportedVersion"]
  ELSE AllBlocks(check_expired, now, Start(<<>>, {}, From(data, 1)))

\* build: new blocks are written after a chain, and only they are parsed, with
\* the bounds of the last block that was there before.
Build(data, blocks, builds) ==
  LET last == IF blocks = <<>> THEN {} ELSE {Bounds(From(data, Len(data) - Last(blocks).len))}
      new == Concat([i \in DOMAIN builds |-> BuildBlock(builds[i])])
  IN [data |-> data \o new, parsed |-> AllBlocks(FALSE, 0, Start(blocks, last, new))]

\* Where the i-th block starts, and its bytes.
Offset(blocks, i) ==
  LET offset[n \in 0 .. i - 1] == IF n = 0 THEN 1 ELSE offset[n - 1] + blocks[n].len
  IN offset[i - 1]

BlockData(data, blocks, i) ==
  LET offset == Offset(blocks, i) IN Slice(data, offset, offset + blocks[i].len)

----------------------------------------------------------------------------
(* Reading fields of a block *)

\* get_license_type
GetLicenseType(data) ==
  IF GetType(data) \notin {"Server", "Ts5Server"} THEN Err("NoSuchProperty")
  ELSE IF At(data, BlockMinLen) \in LicenseTypes THEN Ok(At(data, BlockMinLen))
  ELSE Err("UnknownLicenseType")

\* get_properties: numbers have to be 4 or 8 bytes long, but the length that is
\* compared counts the id and the type.
GetProperty(data, p) ==
  LET o == BlockMinLen + 2 + p
      len == At(data, o)
      id == At(data, o + 1)
      typ == At(data, o + 2)
  IN CASE typ = 0 /\ At(data, o + len) # 0 -> Err("NonterminatedString")
       [] typ \in {1, 3} /\ len # 4 -> Err("WrongPropertyLength")
       [] typ \in {2, 4} /\ len # 8 -> Err("WrongPropertyLength")
       [] OTHER ->
            CASE id \in {1, 3} -> IF typ # 1 THEN Err("WrongPropertyType")
                                  ELSE Ok(<<id, ReadBe(Slice(data, o + 3, o + 7))>>)
              [] id = 2 -> IF typ # 0 THEN Err("WrongPropertyType")
                           ELSE Ok(<<id, Slice(data, o + 3, o + len)>>)
              [] OTHER -> Ok(<<id, Slice(data, o + 3, o + len)>>)

\* The first property with an id that can be read.
FindProperty(data, license, id) ==
  LET results == [i \in DOMAIN license.properties |-> GetProperty(data, license.properties[i])]
      found == SelectSeq(results, LAMBDA r : r[1] = "Ok" /\ r[2][1] = id)
  IN IF found = <<>> THEN Err("NoSuchProperty") ELSE Ok(found[1][2][2])

IssuerOffset == [Intermediate |-> 4, Website |-> 0, Code |-> 0, Server |-> 5]
GetIssuer(data, license) ==
  LET typ == GetType(data) IN
  CASE typ = "Ts5Server" -> FindProperty(data, license, 2)
    [] typ \in DOMAIN IssuerOffset ->
         Ok(Slice(data, BlockMinLen + IssuerOffset[typ], license.len - 1))
    [] OTHER -> Err("NoSuchProperty")

GetMaxClients(data, license) ==
  LET typ == GetType(data)
      o == BlockMinLen + IF typ = "Server" THEN 1 ELSE 0
  IN CASE typ = "Ts5Server" -> FindProperty(data, license, 3)
       [] typ \in {"Intermediate", "Server"} -> Ok(ReadBe(Slice(data, o, o + 4)))
       [] OTHER -> Err("NoSuchProperty")

----------------------------------------------------------------------------
(* Keys *)

PublicOf(key) == (key * Base) % Order

\* get_hash_key
HashKey(data) ==
  LET hash[n \in 0 .. Len(data) - 1] ==
        IF n = 0 THEN 0 ELSE (3 * hash[n - 1] + At(data, n)) % (Order - 1)
  IN 1 + hash[Len(data) - 1]

GetPublicKey(data) == ReadBe(Slice(data, 1, 33))

\* What a block adds to the key of its parent: the same for public keys, which
\* are in the block, and for private ones, which the builder keeps.
Derive(key, data, parent) == (key * HashKey(data) + parent) % Order

DerivePublicKey(data, blocks, root) ==
  LET key[i \in 0 .. Len(blocks)] ==
        IF i = 0 THEN root
        ELSE Derive(GetPublicKey(BlockData(data, blocks, i)), BlockData(data, blocks, i), key[i - 1])
  IN key[Len(blocks)]

\* Mutant: the block with the first key is skipped.
DerivePrivateKeyLate(data, blocks, private, starting_block, first_key) ==
  LET key[i \in 0 .. Len(blocks)] ==
        IF i <= starting_block THEN first_key
        ELSE Derive(private[i], BlockData(data, blocks, i), key[i - 1])
  IN key[Len(blocks)]

\* private[i] is License::private_key of the i-th block; the key starts with
\* that of the parent of block starting_block (counted from 1).
DerivePrivateKey(data, blocks, private, starting_block, first_key) ==
  LET key[i \in 0 .. Len(blocks)] ==
        IF i < starting_block THEN first_key
        ELSE Derive(private[i], BlockData(data, blocks, i), key[i - 1])
  IN key[Len(blocks)]

=============================================================================
