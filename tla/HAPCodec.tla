------------------------------ MODULE HAPCodec ------------------------------
(***************************************************************************)
(* How values become bytes and bytes values (HAPCodec).  A writer drops     *)
(* what no longer fits, and everything after it; a reader that ran out of   *)
(* bytes returns zeroes and nothings from then on.  Both remember that they *)
(* failed, and it is for their callers to ask.                              *)
(***************************************************************************)
EXTENDS HAPClasses, SequencesExt

CONSTANT MaxText   \* HVALUE_MAX_STRING_LEN

ASSUME CodecAssumption == MaxText \in 0 .. 255

\* Little endian, whatever the width; a float is the number its bits spell.
Little(n, width) == [k \in 1 .. width |-> (n \div 256 ^ (k - 1)) % 256]
Number(bytes) ==
  LET n[k \in 0 .. Len(bytes)] == IF k = 0 THEN 0 ELSE n[k - 1] + bytes[k] * 256 ^ (k - 1)
  IN  n[Len(bytes)]

\* Mutant: a name is cut where the room ends.
SafeLengthAnywhere(text, limit) == IF Len(text) =< limit THEN Len(text) ELSE limit

\* utf8SafeLength(): the longest prefix within the limit that ends between two
\* characters.
IsContinuation(byte) == byte \in 128 .. 191
SafeLength(text, limit) ==
  IF Len(text) =< limit THEN Len(text)
  ELSE Max({cut \in 0 .. limit : cut = 0 \/ ~IsContinuation(text[cut + 1])})

Cut(text, limit) == SubSeq(text, 1, SafeLength(text, limit))

-----------------------------------------------------------------------------
(* HAPWriter.  What is written whole or not at all is a chunk. *)

Writer(capacity) == [bytes |-> <<>>, capacity |-> capacity, ok |-> TRUE]

Put(w, chunk) ==
  IF w.ok /\ Len(w.bytes) + Len(chunk) =< w.capacity
  THEN [w EXCEPT !.bytes = @ \o chunk]
  ELSE [w EXCEPT !.ok = FALSE]

Written(chunks, capacity) ==
  LET w[k \in 0 .. Len(chunks)] ==
        IF k = 0 THEN Writer(capacity) ELSE Put(w[k - 1], chunks[k])
  IN  w[Len(chunks)]

TextChunks(text, limit) ==
  LET cut == Cut(text, limit) IN << <<Len(cut)>> \o cut >>

ValueChunks(v) ==
  CASE v.type = "Null"   -> << <<0>> >>
    [] v.type = "Bool"   -> << <<1>>, <<v.n>> >>
    [] v.type = "Int"    -> << <<2>>, Little(v.n, 4) >>
    [] v.type = "Float"  -> << <<3>>, Little(v.n, 4) >>
    [] v.type = "String" -> << <<4>>, <<Len(v.text)>>, v.text >>

-----------------------------------------------------------------------------
(* HAPReader.  Each operator returns the reader behind what it read, and v. *)

Reader(bytes) == [bytes |-> bytes, at |-> 0, ok |-> TRUE]
Remaining(r)  == IF r.ok THEN Len(r.bytes) - r.at ELSE 0
Failed(r)     == [r EXCEPT !.ok = FALSE]

GetBytes(r, n) ==
  IF r.ok /\ n =< Remaining(r)
  THEN [r |-> [r EXCEPT !.at = @ + n], v |-> SubSeq(r.bytes, r.at + 1, r.at + n)]
  ELSE [r |-> Failed(r), v |-> <<>>]

GetNumber(r, width) ==
  LET got == GetBytes(r, width) IN [r |-> got.r, v |-> Number(got.v)]

GetText(r, limit) ==
  LET Short(got)    == [r |-> got.r, v |-> Cut(got.v, limit)]
      After(length) == Short(GetBytes(length.r, length.v))
  IN  After(GetNumber(r, 1))

GetValue(r) ==
  LET Parsed(got, v) == [r |-> got.r, v |-> IF got.r.ok THEN v ELSE Null]
      AsBool(got)    == Parsed(got, Bool(IF got.v # 0 THEN 1 ELSE 0))
      After(type) ==
        CASE type.v = 0 -> [r |-> type.r, v |-> Null]
          [] type.v = 1 -> AsBool(GetNumber(type.r, 1))
          [] type.v = 2 -> LET got == GetNumber(type.r, 4)
                           IN  Parsed(got, [type |-> "Int", n |-> got.v])
          [] type.v = 3 -> LET got == GetNumber(type.r, 4) IN Parsed(got, Float(got.v))
          [] type.v = 4 -> LET got == GetText(type.r, MaxText) IN Parsed(got, Text(got.v))
          [] OTHER      -> [r |-> Failed(type.r), v |-> Null]
  IN  After(GetNumber(r, 1))
=============================================================================
