------------------------------- MODULE Book -------------------------------
(***************************************************************************)
(* The book of ts-bookkeeping/src/data.rs: the channels and clients of a   *)
(* server as the client knows them, kept up to date by Connection::handle_ *)
(* command from the commands of the server, and the events it reports.     *)
(*                                                                         *)
(* handle_command_generated is generated from build/MessagesToBook.tt: per *)
(* part of a message first the functions of its rule, in order, then the   *)
(* plain fields.  Which message has which rule comes from declarations     *)
(* that are not part of the repository; the names of the functions (cc for *)
(* ChannelCreated, ce for ChannelEdited, cm for ChannelMoved, cl for       *)
(* ChannelList, cev for ClientEnterView, cu for ClientUpdated) tell it.    *)
(*                                                                         *)
(* The server is external: it keeps an ordered tree of channels, and tells *)
(* us of changes to channels, and to clients in channels we subscribed to. *)
(* A channel is moved, created or deleted with one message: the client has *)
(* to find out for itself which sibling now follows which.                 *)
(***************************************************************************)
EXTENDS Integers, Sequences, FiniteSets, SequencesExt

CONSTANTS
  Channels, Root,    \* channel ids, and id 0
  Clients, Own,      \* client ids, and own_client
  Nothing,           \* None
  Names,             \* names of clients
  MaxEdits           \* bound: changes to attributes of channels and clients

ASSUME BookAssumption ==
  /\ Root \notin Channels /\ Own \in Clients /\ MaxEdits \in Nat
  /\ IsFiniteSet(Channels) /\ IsFiniteSet(Clients)
  /\ Nothing \notin Clients /\ Nothing \notin Channels /\ Nothing # Root
  /\ Nothing \notin BOOLEAN /\ Nothing \notin Int /\ Nothing \notin {"", "lunch", "sleep"}
  /\ Nothing \notin {<<"Unlimited">>, <<"Inherited">>, <<"Limited", 5>>}

VARIABLES
  channels, clients, \* Connection::channels, Connection::clients
  told,              \* the events of the last commands told all (see Undone)
  \* The server (external): the children of every channel in order, the
  \* attributes of the channels, where its clients are, and what we subscribed
  tree, attrs, members, subscribed,
  joined,            \* we are connected and have got the list of channels
  edits              \* changes of attributes left

book == <<channels, clients, told>>
server == <<tree, attrs, members, subscribed, joined, edits>>
bookVars == <<book, server>>

----------------------------------------------------------------------------
(* Events *)

\* An event with its id and the old value.  The invoker is Nothing or a
\* client with its name.
PropertyAdded(id, invoker) == [type |-> "Added", id |-> id, old |-> Nothing, invoker |-> invoker]
PropertyChanged(id, old, invoker) ==
  [type |-> "Changed", id |-> id, old |-> old, invoker |-> invoker]
PropertyRemoved(id, old, invoker) ==
  [type |-> "Removed", id |-> id, old |-> old, invoker |-> invoker]
Message(invoker) == [type |-> "Message", id |-> <<"message">>, old |-> Nothing, invoker |-> invoker]

Reported(b, event) == [b EXCEPT !.events = Append(@, event)]

\* Every change of an attribute is reported with the value it replaces.
SetChannel(b, c, attr, value, invoker) ==
  Reported([b EXCEPT !.channels[c][attr] = value],
           PropertyChanged(<<"channel", c, attr>>, b.channels[c][attr], invoker))
SetClient(b, k, attr, value, invoker) ==
  Reported([b EXCEPT !.clients[k][attr] = value],
           PropertyChanged(<<"client", k, attr>>, b.clients[k][attr], invoker))

Without(f, x) == [y \in DOMAIN f \ {x} |-> f[y]]
With(f, x, value) == [y \in DOMAIN f \cup {x} |-> IF y = x THEN value ELSE f[y]]

----------------------------------------------------------------------------
(* The order of channels: a channel has the id of the sibling before it.   *)
(* The sibling is the first that is found in a hash map: any that fits.    *)

\* Mutant: the first channel of every parent has order 0, so the parent has
\* to be compared, too.
InsertedAnywhere(b, id, order, parent) ==
  LET next == {c \in DOMAIN b.channels \ {id} : b.channels[c].order = order}
  IN IF next = {} THEN {b} ELSE {SetChannel(b, c, "order", id, Nothing) : c \in next}

\* channel_order_insert
OrderInsert(b, id, order, parent) ==
  LET next == {c \in DOMAIN b.channels \ {id} :
                 b.channels[c].order = order /\ b.channels[c].parent = parent}
  IN IF next = {} THEN {b} ELSE {SetChannel(b, c, "order", id, Nothing) : c \in next}

\* channel_order_remove
OrderRemove(b, id, order) ==
  LET next == {c \in DOMAIN b.channels \ {id} : b.channels[c].order = id}
  IN IF next = {} THEN {b} ELSE {SetChannel(b, c, "order", order, Nothing) : c \in next}

\* channel_order_move_fun
OrderMove(b, id, new_order, parent) ==
  IF new_order = Nothing /\ parent = Nothing THEN {b}
  ELSE LET old_order == b.channels[id].order
           new_parent == IF parent = Nothing THEN b.channels[id].parent ELSE parent
           moved == IF new_order = Nothing THEN b
                    ELSE SetChannel(b, id, "order", new_order, Nothing)
       IN UNION {OrderInsert(r, id, IF new_order = Nothing THEN old_order ELSE new_order,
                             new_parent) : r \in OrderRemove(moved, id, old_order)}

----------------------------------------------------------------------------
(* Attributes of channels *)

\* How many clients may be in a channel.  The fields of a message may be
\* missing (Nothing), and the number has to fit 16 bits.
Unlimited == <<"Unlimited">>
Inherited == <<"Inherited">>
Limited(num) == <<"Limited", num>>
InRange(num) == num # Nothing /\ num >= 0 /\ num < 65536

\* max_clients!: Nothing when the number is out of range.
MaxClients(unlimited, num) ==
  CASE unlimited = TRUE -> Unlimited
    [] unlimited # TRUE /\ InRange(num) -> Limited(num)
    [] OTHER -> Nothing

MaxFamilyClients(unlimited, inherits, num) ==
  CASE unlimited = TRUE -> Unlimited
    [] unlimited # TRUE /\ inherits = TRUE -> Inherited
    [] TRUE \notin {unlimited, inherits} /\ InRange(num) -> Limited(num)
    [] OTHER -> Nothing

\* max_clients_cl_fun: in a list of channels a wrong number is no limit.
MaxFamilyClientsOfList(unlimited, inherits, num) ==
  LET limit == MaxFamilyClients(unlimited, inherits, num)
  IN IF limit = Nothing THEN Unlimited ELSE limit

\* channel_flags_to_type
ChannelFlagsToType(perm, semi) ==
  IF perm = TRUE THEN "Permanent" ELSE IF semi = TRUE THEN "SemiPermanent" ELSE "Temporary"

\* max_clients_ce_fun, then channel_type_ce_fun: what the message does not
\* mention, or what is out of range, stays.
EditLimits(b, m) ==
  LET max == MaxClients(m.unlimited, m.num)
      family == MaxFamilyClients(m.family_unlimited, m.inherits, m.family_num)
      b1 == IF max = Nothing THEN b ELSE SetChannel(b, m.id, "max", max, m.invoker)
  IN IF family = Nothing THEN b1 ELSE SetChannel(b1, m.id, "family", family, m.invoker)

EditType(b, m) ==
  IF m.permanent = Nothing /\ m.semi = Nothing THEN b
  ELSE SetChannel(b, m.id, "type", ChannelFlagsToType(m.permanent, m.semi), m.invoker)

----------------------------------------------------------------------------
(* Channels *)

NewChannel(m, family) ==
  [parent |-> m.parent, order |-> m.order, max |-> MaxClients(m.unlimited, m.num),
   family |-> family, type |-> ChannelFlagsToType(m.permanent, m.semi), subscribed |-> FALSE]

\* add_channel makes place for the channel.
AddChannel(b, m, family) ==
  {Reported([r EXCEPT !.channels = With(@, m.id, NewChannel(m, family))],
            PropertyAdded(<<"channel", m.id>>, m.invoker)) :
     r \in OrderInsert(b, m.id, m.order, m.parent)}

\* channel_order_cc_fun has made place before add_channel does.
ChannelCreated(b, m) ==
  UNION {AddChannel(r, m, MaxFamilyClients(m.family_unlimited, m.inherits, m.family_num)) :
           r \in OrderInsert(b, m.id, m.order, m.parent)}

ChannelList(b, m) ==
  AddChannel(b, m, MaxFamilyClientsOfList(m.family_unlimited, m.inherits, m.family_num))

\* The functions come first, so the parent is still the old one when the
\* order changes.
ChannelMoved(b, m) ==
  {SetChannel(r, m.id, "parent", m.parent, m.invoker) :
     r \in OrderMove(b, m.id, m.order, m.parent)}

ChannelEdited(b, m) == OrderMove(EditType(EditLimits(b, m), m), m.id, m.order, Nothing)

\* remove_channel
ChannelDeleted(b, m) ==
  {Reported(r, PropertyRemoved(<<"channel", m.id>>, b.channels[m.id], m.invoker)) :
     r \in OrderRemove([b EXCEPT !.channels = Without(@, m.id)], m.id, b.channels[m.id].order)}

ChannelSubscribed(b, m) == {SetChannel(b, m.id, "subscribed", TRUE, Nothing)}

\* Mutant: the clients of the channel stay in the book.
UnsubscribedKeepsClients(b, m) == {SetChannel(b, m.id, "subscribed", FALSE, Nothing)}

\* channel_unsubscribe_fun: nobody tells us about the clients in it any more.
ChannelUnsubscribed(b, m) ==
  LET gone == {k \in DOMAIN b.clients : b.clients[k].channel = m.id}
      list == SetToSeq(gone)
      removed == [i \in DOMAIN list |->
                    PropertyRemoved(<<"client", list[i]>>, b.clients[list[i]], Nothing)]
      b1 == SetChannel(b, m.id, "subscribed", FALSE, Nothing)
  IN {[channels |-> b1.channels, clients |-> [k \in DOMAIN b.clients \ gone |-> b.clients[k]],
       events |-> b1.events \o removed]}

----------------------------------------------------------------------------
(* Clients *)

\* away_cev_fun; the data of the connection comes only when asked for.
ClientEnterView(b, m) ==
  {Reported([b EXCEPT !.clients = With(@, m.id,
               [channel |-> m.channel, name |-> m.name, data |-> Nothing,
                away |-> IF m.is_away THEN m.message ELSE Nothing])],
            PropertyAdded(<<"client", m.id>>, m.invoker))}

ClientLeftView(b, m) ==
  {Reported([b EXCEPT !.clients = Without(@, m.id)],
            PropertyRemoved(<<"client", m.id>>, b.clients[m.id], m.invoker))}

\* Mutant: the event is forgotten when we are the one who moves.
MovedUnreported(b, m) ==
  {[b EXCEPT !.clients[m.id].channel = m.channel,
             !.channels = IF m.id = Own THEN [@ EXCEPT ![m.channel].subscribed = TRUE] ELSE @]}

\* subscribe_channel_fun: our own channel is always subscribed.
ClientMoved(b, m) ==
  LET b1 == IF m.id = Own THEN SetChannel(b, m.channel, "subscribed", TRUE, Nothing) ELSE b
  IN {SetClient(b1, m.id, "channel", m.channel, m.invoker)}

\* away_cu_fun: the message counts only while the client is, or gets, away.
\* A new name is a plain field.
ClientUpdated(b, m) ==
  LET away == b.clients[m.id].away
      new == CASE m.is_away = TRUE /\ away = Nothing ->
                    IF m.message = Nothing THEN "" ELSE m.message
               [] m.is_away = FALSE -> Nothing
               [] m.is_away = Nothing /\ Nothing \notin {m.message, away} -> m.message
               [] OTHER -> away
      b1 == IF new = away THEN b ELSE SetClient(b, m.id, "away", new, m.invoker)
  IN {IF m.name = Nothing THEN b1 ELSE SetClient(b1, m.id, "name", m.name, m.invoker)}

\* replace_connection_client_data; a client that we do not know is an error
\* (NotFound), as is an ip that cannot be parsed (address_fun).
ClientConnectionInfo(b, m) ==
  IF m.id \notin DOMAIN b.clients \/ m.data = "invalid" THEN {}
  ELSE {SetClient(b, m.id, "data", m.data, Nothing)}

\* An unknown target is an error.
TextMessage(b, m) == IF m.target = "Unknown" THEN {} ELSE {Reported(b, Message(m.invoker))}

----------------------------------------------------------------------------
(* Connection::handle_command *)

HandleGenerated(b, m) ==
  CASE m.type = "ChannelList" -> ChannelList(b, m)
    [] m.type = "ChannelCreated" -> ChannelCreated(b, m)
    [] m.type = "ChannelEdited" -> ChannelEdited(b, m)
    [] m.type = "ChannelMoved" -> ChannelMoved(b, m)
    [] m.type = "ChannelDeleted" -> ChannelDeleted(b, m)
    [] m.type = "ChannelSubscribed" -> ChannelSubscribed(b, m)
    [] m.type = "ChannelUnsubscribed" -> ChannelUnsubscribed(b, m)
    [] m.type = "ClientEnterView" -> ClientEnterView(b, m)
    [] m.type = "ClientLeftView" -> ClientLeftView(b, m)
    [] m.type = "ClientMoved" -> ClientMoved(b, m)
    [] m.type = "ClientUpdated" -> ClientUpdated(b, m)
    [] m.type = "ClientConnectionInfo" -> ClientConnectionInfo(b, m)
    [] m.type = "TextMessage" -> TextMessage(b, m)

\* The invoker of the first event of a command may have a new name.
AdjustName(b) ==
  IF b.events = <<>> \/ b.events[1].invoker = Nothing THEN b
  ELSE LET invoker == b.events[1].invoker IN
       IF invoker.id \in DOMAIN b.clients /\ b.clients[invoker.id].name # invoker.name
       THEN SetClient(b, invoker.id, "name", invoker.name, Nothing) ELSE b

\* All the ways in which one command is handled.  After an error its events
\* are dropped (tsclientlib's handle_command); a command of this server has
\* one part, so that nothing is left half done.
HandleCommand(b, m) ==
  LET results == {AdjustName(r) : r \in HandleGenerated([b EXCEPT !.events = <<>>], m)}
  IN IF results = {} THEN {b}
     ELSE {[r EXCEPT !.events = b.events \o @] : r \in results}

\* What a reader of the events knows about the book before an event: added
\* objects were not there, removed ones were, and attributes had the old value.
Undone(e, b) ==
  LET field == IF e.id[1] = "channel" THEN "channels" ELSE "clients"
  IN CASE e.type = "Added" -> [b EXCEPT ![field] = Without(@, e.id[2])]
       [] e.type = "Removed" -> [b EXCEPT ![field] = With(@, e.id[2], e.old)]
       [] e.type = "Changed" -> [b EXCEPT ![field][e.id[2]][e.id[3]] = e.old]
       [] e.type = "Message" -> b

\* The book before all events, undone from the last to the first.
UndoneAll(b) ==
  LET n == Len(b.events)
      undone[i \in 0 .. n] ==
        IF i = 0 THEN [channels |-> b.channels, clients |-> b.clients]
        ELSE Undone(b.events[n - i + 1], undone[i - 1])
  IN undone[n]

\* The books that commands lead to, which are handled one after the other.
AllHandled(b, sent) ==
  LET after[n \in 0 .. Len(sent)] ==
        IF n = 0 THEN {b} ELSE UNION {HandleCommand(r, sent[n]) : r \in after[n - 1]}
  IN after[Len(sent)]

\* The server sends some commands to us when we are connected.
Commands(ms) ==
  \E r \in AllHandled([channels |-> channels, clients |-> clients, events |-> <<>>],
                      IF joined' THEN ms ELSE <<>>) :
    /\ channels' = r.channels /\ clients' = r.clients
    /\ told' = (UndoneAll(r) = [channels |-> channels, clients |-> clients])

----------------------------------------------------------------------------
(* The server *)

Present == DOMAIN attrs
ParentOf(c) == CHOOSE p \in Present \cup {Root} : \E i \in DOMAIN tree[p] : tree[p][i] = c
PredecessorIn(seq, i) == IF i = 1 THEN Root ELSE seq[i - 1]
IndexOf(c) == CHOOSE i \in DOMAIN tree[ParentOf(c)] : tree[ParentOf(c)][i] = c
OrderOf(c) == PredecessorIn(tree[ParentOf(c)], IndexOf(c))

\* The children of all channels without c.
TakenOut(c) == [tree EXCEPT ![ParentOf(c)] = RemoveAt(@, IndexOf(c))]

\* Root, and the channels below the ones that are reached.
Below(c) == LET kids(S) == S \cup UNION {ToSet(tree[x]) : x \in S}
            IN kids(kids(kids({c})))

\* The fields that tell of the attributes of a channel.
Number(limit) == IF Len(limit) = 2 THEN limit[2] ELSE -1
Fields(a) ==
  [unlimited |-> a.max = Unlimited, num |-> Number(a.max),
   family_unlimited |-> a.family = Unlimited, inherits |-> a.family = Inherited,
   family_num |-> Number(a.family),
   permanent |-> a.type = "Permanent", semi |-> a.type = "SemiPermanent"]

Attributes == [max : {Unlimited, Limited(5)}, family : {Unlimited, Inherited, Limited(5)},
               type : {"Permanent", "SemiPermanent", "Temporary"}]
DefaultAttrs == [max |-> Unlimited, family |-> Inherited, type |-> "Permanent"]

ChannelMessage(type, c, parent, order, fields) ==
  [type |-> type, id |-> c, parent |-> parent, order |-> order, invoker |-> Nothing,
   unlimited |-> fields.unlimited, num |-> fields.num,
   family_unlimited |-> fields.family_unlimited, inherits |-> fields.inherits,
   family_num |-> fields.family_num, permanent |-> fields.permanent, semi |-> fields.semi]

\* Clients in channels that we have subscribed to, in a state of the server.
Visible(where, subs) == {k \in DOMAIN where : where[k].channel \in subs}
EnterView(k, where) ==
  [type |-> "ClientEnterView", id |-> k, channel |-> where[k].channel, name |-> where[k].name,
   is_away |-> where[k].away # Nothing,
   message |-> IF where[k].away = Nothing THEN "" ELSE where[k].away, invoker |-> Nothing]
Entering(ks, where) == SetToSeq({EnterView(k, where) : k \in ks})
Invoker(k) == IF k = Nothing THEN Nothing ELSE [id |-> k, name |-> members[k].name]

----------------------------------------------------------------------------
(* What the server does *)

\* We connect: the server sends its channels in some order, subscribes us to
\* some of them, our own at least, and shows us the clients in there.
Join(c, subs, list) ==
  /\ ~joined
  /\ c \in subs /\ subs \subseteq Present
  /\ joined' = TRUE /\ subscribed' = subs
  /\ members' = With(members, Own, [channel |-> c, name |-> CHOOSE n \in Names : TRUE,
                                    away |-> Nothing])
  /\ UNCHANGED <<tree, attrs, edits>>
  /\ Commands([i \in DOMAIN list |-> ChannelMessage("ChannelList", list[i],
                   ParentOf(list[i]), OrderOf(list[i]), Fields(attrs[list[i]]))]
              \o SetToSeq({[type |-> "ChannelSubscribed", id |-> x] : x \in subs})
              \o Entering(Visible(members', subs), members'))

\* A channel appears as the i-th child of p.
Create(c, p, i) ==
  /\ c \in Channels \ Present /\ p \in Present \cup {Root} /\ i \in 1 .. Len(tree[p]) + 1
  /\ tree' = With([tree EXCEPT ![p] = InsertAt(@, i, c)], c, <<>>)
  /\ attrs' = With(attrs, c, DefaultAttrs)
  /\ UNCHANGED <<members, subscribed, joined, edits>>
  /\ Commands(<<ChannelMessage("ChannelCreated", c, p, PredecessorIn(tree[p], i),
                               Fields(DefaultAttrs))>>)

\* A channel becomes the i-th child of p, not below itself.  The server may
\* tell of a move among siblings as an edit.
Move(c, p, i, type) ==
  LET left == TakenOut(c) IN
  /\ c \in Present /\ p \in (Present \cup {Root}) \ Below(c)
  /\ i \in 1 .. Len(left[p]) + 1
  /\ type = "ChannelEdited" => p = ParentOf(c)
  /\ tree' = [left EXCEPT ![p] = InsertAt(@, i, c)]
  /\ UNCHANGED <<attrs, members, subscribed, joined, edits>>
  /\ Commands(<<ChannelMessage(type, c, p, PredecessorIn(left[p], i),
                   [f \in DOMAIN Fields(DefaultAttrs) |-> Nothing])>>)

\* Only an empty channel is deleted.
Delete(c) ==
  /\ c \in Present /\ tree[c] = <<>>
  /\ \A k \in DOMAIN members : members[k].channel # c
  /\ tree' = Without(TakenOut(c), c)
  /\ attrs' = Without(attrs, c) /\ subscribed' = subscribed \ {c}
  /\ UNCHANGED <<members, joined, edits>>
  /\ Commands(<<[type |-> "ChannelDeleted", id |-> c, invoker |-> Nothing]>>)

\* Only the fields that are new are sent.
Edit(c, a, k) ==
  /\ edits > 0 /\ c \in Present /\ a # attrs[c] /\ k \in DOMAIN members \cup {Nothing}
  /\ attrs' = [attrs EXCEPT ![c] = a]
  /\ edits' = edits - 1
  /\ UNCHANGED <<tree, members, subscribed, joined>>
  /\ Commands(<<[ChannelMessage("ChannelEdited", c, Nothing, Nothing,
                   [f \in DOMAIN Fields(a) |->
                      IF Fields(a)[f] = Fields(attrs[c])[f] THEN Nothing ELSE Fields(a)[f]])
                 EXCEPT !.invoker = Invoker(k)]>>)

Subscribe(c) ==
  /\ joined /\ c \in Present \ subscribed
  /\ subscribed' = subscribed \cup {c}
  /\ UNCHANGED <<tree, attrs, members, joined, edits>>
  /\ Commands(<<[type |-> "ChannelSubscribed", id |-> c]>>
              \o Entering(Visible(members, {c}), members))

Unsubscribe(c) ==
  /\ joined /\ c \in subscribed \ {members[Own].channel}
  /\ subscribed' = subscribed \ {c}
  /\ UNCHANGED <<tree, attrs, members, joined, edits>>
  /\ Commands(<<[type |-> "ChannelUnsubscribed", id |-> c]>>)

\* A client appears, moves or leaves; we are told what we can see.  When we
\* move to a channel we are subscribed to it.
Enter(k, c) ==
  /\ k \in Clients \ (DOMAIN members \cup {Own}) /\ c \in Present
  /\ members' = With(members, k, [channel |-> c, name |-> CHOOSE n \in Names : TRUE,
                                  away |-> Nothing])
  /\ UNCHANGED <<tree, attrs, subscribed, joined, edits>>
  /\ Commands(IF c \in subscribed THEN <<EnterView(k, members')>> ELSE <<>>)

Moved(k, c) == [type |-> "ClientMoved", id |-> k, channel |-> c, invoker |-> Nothing]
LeftView(k) == [type |-> "ClientLeftView", id |-> k, invoker |-> Nothing]

ClientMove(k, c) ==
  /\ k \in DOMAIN members /\ c \in Present \ {members[k].channel}
  /\ members' = [members EXCEPT ![k].channel = c]
  /\ subscribed' = IF k = Own THEN subscribed \cup {c} ELSE subscribed
  /\ UNCHANGED <<tree, attrs, joined, edits>>
  /\ Commands(CASE members[k].channel \in subscribed /\ c \in subscribed' ->
                      <<Moved(k, c)>> \o Entering(Visible(members, subscribed' \ subscribed), members)
                 [] members[k].channel \in subscribed /\ c \notin subscribed' -> <<LeftView(k)>>
                 [] members[k].channel \notin subscribed /\ c \in subscribed' ->
                      <<EnterView(k, members')>>
                 [] OTHER -> <<>>)

Leave(k) ==
  /\ k \in DOMAIN members \ {Own}
  /\ members' = Without(members, k)
  /\ UNCHANGED <<tree, attrs, subscribed, joined, edits>>
  /\ Commands(IF k \in Visible(members, subscribed) THEN <<LeftView(k)>> ELSE <<>>)

\* A client goes away, comes back, changes its message or its name.  Only
\* what is new is sent, and not every new name.
Update(k, away, name, shown) ==
  /\ edits > 0 /\ k \in DOMAIN members /\ <<away, name>> # <<members[k].away, members[k].name>>
  /\ members' = [members EXCEPT ![k].away = away, ![k].name = name]
  /\ edits' = edits - 1
  /\ UNCHANGED <<tree, attrs, subscribed, joined>>
  /\ Commands(IF k \notin Visible(members, subscribed) THEN <<>> ELSE
       <<[type |-> "ClientUpdated", id |-> k, invoker |-> Nothing,
          is_away |-> IF (away = Nothing) = (members[k].away = Nothing) THEN Nothing
                      ELSE away # Nothing,
          message |-> IF away = members[k].away THEN Nothing
                      ELSE IF away = Nothing THEN "" ELSE away,
          name |-> IF shown /\ name # members[k].name THEN name ELSE Nothing]>>)

\* A client writes to us, and we may have asked for its connection data.
Text(k, target) ==
  /\ k \in DOMAIN members
  /\ UNCHANGED server
  /\ Commands(<<[type |-> "TextMessage", target |-> target, invoker |-> Invoker(k)]>>)

ConnectionInfo(k, data) ==
  /\ k \in Clients
  /\ UNCHANGED server
  /\ Commands(<<[type |-> "ClientConnectionInfo", id |-> k, data |-> data]>>)

----------------------------------------------------------------------------

\* Connection::new; the server has no channels yet.
BookInit ==
  /\ channels = <<>> /\ clients = <<>> /\ told = TRUE
  /\ tree = [p \in {Root} |-> <<>>] /\ attrs = <<>>
  /\ members = <<>> /\ subscribed = {} /\ joined = FALSE
  /\ edits = MaxEdits

BookNext ==
  \/ \E c \in Present, subs \in SUBSET Present, list \in SetToSeqs(Present) : Join(c, subs, list)
  \/ \E c \in Channels, p \in Channels \cup {Root}, i \in 1 .. Cardinality(Channels) :
       Create(c, p, i) \/ \E type \in {"ChannelMoved", "ChannelEdited"} : Move(c, p, i, type)
  \/ \E c \in Channels : Delete(c) \/ Subscribe(c) \/ Unsubscribe(c)
  \/ \E c \in Channels, a \in Attributes, k \in Clients \cup {Nothing} : Edit(c, a, k)
  \/ \E k \in Clients, c \in Channels : Enter(k, c) \/ ClientMove(k, c)
  \/ \E k \in Clients : Leave(k)
  \/ \E k \in Clients, away \in {Nothing, "lunch", "sleep"}, name \in Names, shown \in BOOLEAN :
       Update(k, away, name, shown)
  \/ \E k \in Clients : (\E target \in {"Server", "Unknown"} : Text(k, target))
                          \/ \E data \in {"valid", "invalid"} : ConnectionInfo(k, data)

BookSpec == BookInit /\ [][BookNext]_bookVars

----------------------------------------------------------------------------
(* Properties *)

\* After every command the book has the channels of the server in the order
\* of the server, although only the one that was created, moved or deleted is
\* mentioned: a channel follows the sibling with the id in its order.
ChannelsMatch ==
  joined =>
    /\ DOMAIN channels = Present
    /\ \A c \in Present :
         /\ channels[c].parent = ParentOf(c) /\ channels[c].order = OrderOf(c)
         /\ channels[c].subscribed = (c \in subscribed)
         /\ \A f \in {"max", "family", "type"} : channels[c][f] = attrs[c][f]

\* The clients in the book are exactly the ones that we can see, where they
\* are, and away when they are: nobody is left over from a channel that we do
\* not watch any more.
ClientsMatch ==
  joined =>
    /\ DOMAIN clients = Visible(members, subscribed)
    /\ \A k \in DOMAIN clients : clients[k].channel = members[k].channel
                               /\ clients[k].away = members[k].away

\* The events tell everything that has changed, with the right old values:
\* undone from the last to the first they lead back to the book as it was.
EventsTellAll == told

=============================================================================
