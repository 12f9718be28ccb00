---------------------------- MODULE HAPMessages -----------------------------
(***************************************************************************)
(* What is inside a frame (HAPMessages), as the tables every encode() and   *)
(* decode() of the source spells out: the fields of each message in their   *)
(* order, and for five of them an item that repeats.  A message is a record *)
(* of its type and its fields; a field that repeats is a sequence.          *)
(***************************************************************************)
EXTENDS HAPCodec

CONSTANTS MaxPayload,    \* HAP_MAX_PAYLOAD_SIZE
          MaxDepth,      \* HAP_MAX_DEPTH
          MaxInstances,  \* HAP_MAX_INSTANCES
          MaxEntries,    \* HAP_MAX_REPORT_ENTRIES
          MaxPage,       \* HAPListLinksResponse::links' capacity
          KeyLen, MacLen,
          MaxSsid, MaxPass, MaxUrl

ASSUME MessagesAssumption ==
  /\ MaxPayload \in 1 .. 255 /\ MaxDepth \in Nat \ {0} /\ MaxInstances \in 1 .. 255
  /\ MaxEntries \in 1 .. 255 /\ MaxPage \in Nat /\ KeyLen \in Nat /\ MacLen \in Nat
  /\ 2 + (1 + MaxSsid) + (1 + MaxPass) + (1 + MaxUrl) =< MaxPayload

MessageCode ==
  [BindAnnounce |-> 1, BindAccept |-> 2, BindConfirm |-> 3, ChildAttached |-> 4,
   DescribeRequest |-> 16, DescribeResponse |-> 17, Report |-> 18,
   ReadRequest |-> 19, ReadResponse |-> 20, WriteRequest |-> 21, WriteResponse |-> 22,
   SetPolicyRequest |-> 23, SetPolicyResponse |-> 24,
   SetNameRequest |-> 25, SetNameResponse |-> 26, Ping |-> 32, Pong |-> 33,
   Ack |-> 48, Nack |-> 49, RouteError |-> 64,
   SetLinkRequest |-> 80, SetLinkResponse |-> 81,
   ClearLinkRequest |-> 82, ClearLinkResponse |-> 83,
   ListLinksRequest |-> 84, ListLinksResponse |-> 85,
   OtaRequest |-> 96, OtaResponse |-> 97]

\* kAnyClass; instances and ports have the same wildcard.
AnyOf == 255
ClassCode ==
  [Thermometer |-> 1, Hygrometer |-> 2, Barometer |-> 3, Switch |-> 16, Lamp |-> 17,
   Door |-> 18, Relay |-> 19, BatteryState |-> 32, Alarm |-> 33, Regulator |-> 48,
   Any |-> AnyOf]

ResultCode ==
  [Ok |-> 0, NoSuchChild |-> 1, ChildUnreachable |-> 2, NoSuchClass |-> 3,
   NotWritable |-> 4, BadValue |-> 5, BadRequest |-> 6, NotBound |-> 7, Busy |-> 8,
   Unsupported |-> 9, NoRoom |-> 10, NoSuchPort |-> 11, TypeMismatch |-> 12,
   InputBusy |-> 13, NoLinkSlot |-> 14]

TypeCode == [Null |-> 0, Bool |-> 1, Int |-> 2, Float |-> 3, String |-> 4]

Meaning(codes, n) ==
  IF \E c \in DOMAIN codes : codes[c] = n
  THEN CHOOSE c \in DOMAIN codes : codes[c] = n ELSE "Unknown"

-----------------------------------------------------------------------------
(* The layouts: fields and the kind of each, in the order they travel. *)

PortFields == << <<"class", "class">>, <<"inst", "u8">>, <<"port", "u8">> >>

Descriptor == << <<"class", "class">>, <<"inst", "u8">>, <<"flags", "u8">>,
                 <<"type", "valueType">>, <<"name", "name">> >>
Entry      == PortFields \o << <<"value", "value">> >>
LinkSpec   == << <<"id", "u8">>, <<"src", "ref">>, <<"dst", "ref">> >>
Policy     == PortFields \o << <<"interval", "u16">>, <<"deadband", "value">> >>
Result     == << <<"result", "result">> >>
PageOf     == << <<"count", "u8">>, <<"page", "u8">>, <<"pages", "u8">> >>
Revision   == << <<"rev", "u16">> >>
Valued     == Revision \o << <<"count", "u8">> >>
FromPage   == << <<"page", "u8">> >>
Device     == << <<"deviceType", "u8">>, <<"capabilities", "u8">>, <<"interval", "u16">> >>

BindLayout ==
  [BindAnnounce      |-> Device \o Revision \o PageOf \o << <<"name", "name">> >>,
   BindAccept        |-> << <<"index", "u8">>, <<"channel", "u8">>, <<"key", "key">>,
                            <<"name", "name">> >>,
   BindConfirm       |-> Revision,
   ChildAttached     |-> << <<"index", "u8">> >> \o Device \o Revision
                           \o << <<"mac", "mac">> >>]

TellLayout ==
  [DescribeRequest   |-> FromPage,
   DescribeResponse  |-> Revision \o PageOf \o << <<"name", "name">> >>,
   Report            |-> Valued,
   ReadRequest       |-> PortFields,
   ReadResponse      |-> Valued]

ChangeLayout ==
  [WriteRequest      |-> Entry,
   WriteResponse     |-> Result \o Entry,
   SetPolicyRequest  |-> Policy,
   SetPolicyResponse |-> Result \o Policy,
   SetNameRequest    |-> << <<"target", "u8">>, <<"class", "class">>, <<"inst", "u8">>,
                            <<"name", "name">> >>,
   SetNameResponse   |-> Result \o Revision]

ControlLayout ==
  [Ping              |-> <<>>,
   Pong              |-> Revision,
   Ack               |-> << <<"seq", "u16">> >>,
   Nack              |-> << <<"seq", "u16">>, <<"reason", "result">> >>,
   RouteError        |-> << <<"seq", "u16">>, <<"hop", "u8">>, <<"reason", "result">> >>]

LinkLayout ==
  [SetLinkRequest    |-> LinkSpec,
   SetLinkResponse   |-> Result \o << <<"id", "u8">> >>,
   ClearLinkRequest  |-> << <<"id", "u8">> >>,
   ClearLinkResponse |-> Result,
   ListLinksRequest  |-> FromPage,
   ListLinksResponse |-> PageOf]

ServiceLayout ==
  [OtaRequest        |-> << <<"flags", "u8">>, <<"channel", "u8">>, <<"ssid", "ssid">>,
                            <<"pass", "pass">>, <<"url", "url">> >>,
   OtaResponse       |-> Result \o << <<"name", "name">> >>]

Layouts ==
  {BindLayout, TellLayout, ChangeLayout, ControlLayout, LinkLayout, ServiceLayout}

Layout ==
  [type \in UNION {DOMAIN l : l \in Layouts} |->
     (CHOOSE l \in Layouts : type \in DOMAIN l)[type]]

\* What repeats, and how many of them a message holds.
Item ==
  [BindAnnounce     |-> [layout |-> Descriptor, most |-> MaxInstances],
   DescribeResponse |-> [layout |-> Descriptor, most |-> MaxInstances],
   Report           |-> [layout |-> Entry, most |-> MaxEntries],
   ReadResponse     |-> [layout |-> Entry, most |-> MaxEntries],
   ListLinksResponse |-> [layout |-> LinkSpec, most |-> MaxPage]]

\* Only a count that is stated is believed; other items run to the end.
Counted == {"Report", "ReadResponse"}

-----------------------------------------------------------------------------
(* encode() *)

RefChunks(ref) ==
  << <<Len(ref.path)>>,
     ref.path \o [k \in 1 .. MaxDepth - Len(ref.path) |-> 0],
     <<ClassCode[ref.class]>>, <<ref.inst>>, <<ref.port>> >>

\* maxName is HAP_MAX_NAME_LEN in the build that writes.
Chunks(kind, v, maxName) ==
  CASE kind = "u8"            -> << <<v>> >>
    [] kind = "u16"           -> << Little(v, 2) >>
    [] kind = "class"         -> << <<ClassCode[v]>> >>
    [] kind = "result"        -> << <<ResultCode[v]>> >>
    [] kind = "valueType"     -> << <<TypeCode[v]>> >>
    [] kind \in {"key", "mac"} -> << v >>
    [] kind = "name"          -> TextChunks(v, maxName)
    [] kind = "ssid"          -> TextChunks(v, MaxSsid)
    [] kind = "pass"          -> TextChunks(v, MaxPass)
    [] kind = "url"           -> TextChunks(v, MaxUrl)
    [] kind = "value"         -> ValueChunks(v)
    [] kind = "ref"           -> RefChunks(v)

FieldChunks(layout, s, maxName) ==
  FlattenSeq([k \in DOMAIN layout |-> Chunks(layout[k][2], s[layout[k][1]], maxName)])

ItemChunks(m, maxName) ==
  IF m.type \notin DOMAIN Item THEN <<>>
  ELSE FlattenSeq([k \in DOMAIN m.items |->
                     FieldChunks(Item[m.type].layout, m.items[k], maxName)])

\* The interval behind the descriptors, in a build that has it.
TrailerChunks(m) ==
  IF m.type = "DescribeResponse" /\ m.trailer # <<>> THEN << Little(m.trailer[1], 2) >>
  ELSE <<>>

\* A writer that ran full is not asked whether it did.
Encode(m, maxName) ==
  Written(FieldChunks(Layout[m.type], m, maxName) \o ItemChunks(m, maxName)
            \o TrailerChunks(m), MaxPayload)

-----------------------------------------------------------------------------
(* decode() *)

IsLegalHop(n) == n \in 1 .. 254

NoRef == [path |-> <<>>, class |-> "Unknown", inst |-> 0, port |-> 0]

\* What is cut short, or has a path of no legal hops, refers to nothing.
GetRef(r) ==
  LET got    == GetBytes(r, MaxDepth + 4)
      length == got.v[1]
      hops   == SubSeq(got.v, 2, MaxDepth + 1)
      ids    == SubSeq(got.v, MaxDepth + 2, MaxDepth + 4)
      legal  == /\ got.r.ok /\ length =< MaxDepth
                /\ \A k \in 1 .. length : IsLegalHop(hops[k])
  IN  IF ~legal THEN [r |-> Failed(r), v |-> NoRef]
      ELSE [r |-> got.r,
            v |-> [path |-> SubSeq(hops, 1, length), class |-> Meaning(ClassCode, ids[1]),
                   inst |-> ids[2], port |-> ids[3]]]

Get(kind, r, maxName) ==
  LET n == GetNumber(r, IF kind = "u16" THEN 2 ELSE 1)
      Meant(codes) == [r |-> n.r, v |-> Meaning(codes, n.v)]
  IN  CASE kind \in {"u8", "u16"}  -> n
        [] kind = "class"     -> Meant(ClassCode)
        [] kind = "result"    -> Meant(ResultCode)
        [] kind = "valueType" -> Meant(TypeCode)
        [] kind = "key"       -> GetBytes(r, KeyLen)
        [] kind = "mac"       -> GetBytes(r, MacLen)
        [] kind = "name"      -> GetText(r, maxName)
        [] kind = "ssid"      -> GetText(r, MaxSsid)
        [] kind = "pass"      -> GetText(r, MaxPass)
        [] kind = "url"       -> GetText(r, MaxUrl)
        [] kind = "value"     -> GetValue(r)
        [] kind = "ref"       -> GetRef(r)

\* Some fields, and those of others that have another name.
Merged(f, g) == [x \in DOMAIN f \cup DOMAIN g |-> IF x \in DOMAIN f THEN f[x] ELSE g[x]]

GetFields(layout, r, start, maxName) ==
  LET Named(got, name, one) == [r |-> one.r, v |-> Merged(got.v, [x \in {name} |-> one.v])]
      Field(got, f)         == Named(got, f[1], Get(f[2], got.r, maxName))
      read[k \in 0 .. Len(layout)] ==
        IF k = 0 THEN [r |-> r, v |-> start] ELSE Field(read[k - 1], layout[k])
  IN  read[Len(layout)]

\* Exactly the trailer left: the interval, not a descriptor.
AtTrailer(type, r) == type = "DescribeResponse" /\ Remaining(r) = 2

NoFields == [f \in {} |-> 0]

\* The items that follow: as many as are promised, or as many as there are; one
\* more than there is room for fails.
GetItems(type, reader, promised, maxName) ==
  LET Done(got) == IF type \in Counted THEN Len(got.v) = promised
                   ELSE Remaining(got.r) = 0 \/ AtTrailer(type, got.r)
      With(got, next) ==
        [r |-> next.r,
         v |-> IF next.r.ok \/ type \in Counted THEN Append(got.v, next.v) ELSE got.v]
      Another(got, k) ==
        CASE ~got.r.ok \/ Done(got)  -> got
          [] got.r.ok /\ ~Done(got) /\ k > Item[type].most
                                     -> [got EXCEPT !.r = Failed(@)]
          [] OTHER -> With(got, GetFields(Item[type].layout, got.r, NoFields, maxName))
      read[k \in 0 .. Item[type].most + 1] ==
        IF k = 0 THEN [r |-> reader, v |-> <<>>] ELSE Another(read[k - 1], k)
  IN  read[Item[type].most + 1]

Trailer(type, r) == IF AtTrailer(type, r) THEN <<GetNumber(r, 2).v>> ELSE <<>>

\* The message, and whether it was whole.
Decode(type, bytes, maxName) ==
  LET Items(head) ==
        IF head.r.ok
        THEN GetItems(type, head.r, IF type \in Counted THEN head.v.count ELSE 0, maxName)
        ELSE [r |-> head.r, v |-> <<>>]
      Message(fields, body) ==
        [ok |-> body.r.ok,
         m  |-> IF type = "DescribeResponse"
                THEN Merged(fields, [items |-> body.v, trailer |-> Trailer(type, body.r)])
                ELSE Merged(fields, [items |-> body.v])]
      After(head) ==
        IF type \in DOMAIN Item THEN Message(head.v, Items(head))
        ELSE [ok |-> head.r.ok, m |-> head.v]
  IN  After(GetFields(Layout[type], Reader(bytes), [type |-> type], maxName))
=============================================================================
