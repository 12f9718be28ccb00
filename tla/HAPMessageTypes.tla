-------------------------- MODULE HAPMessageTypes --------------------------
(***************************************************************************)
(* What a message may be: the values the fields of the source's structs     *)
(* have, as far as a build has room for them.  A message that is one of     *)
(* these is what an encode() can be asked for.                              *)
(***************************************************************************)
EXTENDS HAPFrame

Byte == 0 .. 255
Half == 0 .. 65535
Word == {n \in Nat : n \div 65536 < 65536}

IsText(v, limit) == v \in Seq(Byte) /\ Len(v) =< limit /\ Len(v) =< 255

\* HAPValue: nothing, a number of four bytes, a text of a limited length.
IsValue(v) ==
  \/ v \in {Null, Bool(0), Bool(1)}
  \/ v \in [type : {"Float", "Int"}, n : Word]
  \/ v \in [type : {"String"}, text : Seq(Byte)] /\ IsText(v.text, MaxText)

\* HAPPortRef: one end of a link.
IsRef(v) ==
  /\ v \in [path : Seq(1 .. 254), class : DOMAIN ClassCode, inst : Byte, port : Byte]
  /\ Len(v.path) =< MaxDepth

\* What a field of each kind may hold, in a build whose names have a limit.
IsOf(kind, v, limit) ==
  CASE kind = "u8"        -> v \in Byte
    [] kind = "u16"       -> v \in Half
    [] kind = "class"     -> v \in DOMAIN ClassCode
    [] kind = "result"    -> v \in DOMAIN ResultCode
    [] kind = "valueType" -> v \in DOMAIN TypeCode
    [] kind = "key"       -> v \in Seq(Byte) /\ Len(v) = KeyLen
    [] kind = "mac"       -> v \in Seq(Byte) /\ Len(v) = MacLen
    [] kind = "name"      -> IsText(v, limit)
    [] kind = "ssid"      -> IsText(v, MaxSsid)
    [] kind = "pass"      -> IsText(v, MaxPass)
    [] kind = "url"       -> IsText(v, MaxUrl)
    [] kind = "value"     -> IsValue(v)
    [] kind = "ref"       -> IsRef(v)

\* Every field holds what its kind may hold.
Holds(l, s, limit) == \A k \in DOMAIN l : IsOf(l[k][2], s[l[k][1]], limit)

NamesIn(l, n) == {l[k][1] : k \in 1 .. n}

\* The items of a message, as many as it has room for, and each of them whole.
IsItem(l, s) == s = [x \in NamesIn(l, Len(l)) |-> s[x]]

HoldsItems(m, limit) ==
  /\ Len(m.items) \in Nat /\ DOMAIN m.items = 1 .. Len(m.items)
  /\ Len(m.items) =< Item[m.type].most
  /\ \A j \in DOMAIN m.items : Holds(Item[m.type].layout, m.items[j], limit)

\* What a message has besides its fields.
Besides(type) ==
  {"type"} \cup (IF type \in DOMAIN Item THEN {"items"} ELSE {})
           \cup (IF type = "DescribeResponse" THEN {"trailer"} ELSE {})

\* A message has its type, its fields and no others, each holds what its kind may
\* hold, what repeats is no more than there is room for, and a count that is
\* believed is the count of what there is.
IsMessage(m, limit) ==
  /\ m.type \in DOMAIN Layout
  /\ LET l == Layout[m.type] IN
     /\ m = [x \in Besides(m.type) \cup NamesIn(l, Len(l)) |-> m[x]]
     /\ Holds(l, m, limit)
  /\ m.type \in DOMAIN Item =>
       /\ HoldsItems(m, limit)
       /\ m.items = [j \in 1 .. Len(m.items) |-> m.items[j]]
       /\ \A j \in 1 .. Len(m.items) : IsItem(Item[m.type].layout, m.items[j])
  /\ m.type \in Counted => m.count = Len(m.items)
  /\ m.type = "DescribeResponse" =>
       m.trailer = <<>> \/ \E n \in Half : m.trailer = <<n>>
=============================================================================
