----------------------------- MODULE HAPClasses -----------------------------
(***************************************************************************)
(* What an instance of each class has: its ports, the quantity each carries *)
(* and the type that quantity travels as.  HAPLinks wires them, HAPDevice   *)
(* gives them values.                                                       *)
(***************************************************************************)
EXTENDS Integers, Sequences, FiniteSets

Out(id, kind) == [dir |-> "Out", id |-> id, kind |-> kind]
In(id, kind)  == [dir |-> "In", id |-> id, kind |-> kind]

Catalogue ==
  [Thermometer  |-> {Out(0, "Temperature")},
   Hygrometer   |-> {Out(0, "Humidity")},
   Barometer    |-> {Out(0, "Pressure")},
   Switch       |-> {Out(0, "OnOff")},
   Lamp         |-> {Out(0, "OnOff"), In(0, "OnOff")},
   Door         |-> {Out(0, "OnOff"), Out(1, "Text"),
                     In(0, "OnOff"), In(1, "OnOff"), In(2, "OnOff")},
   Relay        |-> {Out(0, "OnOff"), In(0, "OnOff")},
   BatteryState |-> {Out(0, "Ratio"), Out(1, "Voltage")},
   Alarm        |-> {Out(0, "OnOff"), In(0, "OnOff")},
   Regulator    |-> {In(0, "Temperature"), In(1, "Temperature"), Out(0, "Ratio")}]

ClassId == DOMAIN Catalogue

TypeOfKind(kind) == CASE kind = "OnOff" -> "Bool"
                      [] kind = "Text" -> "String"
                      [] OTHER -> "Float"

\* The ports of a class that face one way; none for a class nobody knows.
PortsOf(class, dir) ==
  IF class \in ClassId THEN {p \in Catalogue[class] : p.dir = dir} ELSE {}

HasPort(class, dir, id) == \E p \in PortsOf(class, dir) : p.id = id
KindOf(class, dir, id)  == (CHOOSE p \in PortsOf(class, dir) : p.id = id).kind
ValueType(class, dir, id) == TypeOfKind(KindOf(class, dir, id))

IsWritable(class) == PortsOf(class, "In") # {}

\* Whether an output of one class may drive an input of another.
ValidateLink(src, dst) ==
  CASE src.class \notin ClassId \/ dst.class \notin ClassId -> "NoSuchClass"
    [] ~HasPort(src.class, "Out", src.port)                 -> "NoSuchPort"
    [] ~IsWritable(dst.class)                               -> "NotWritable"
    [] ~HasPort(dst.class, "In", dst.port)                  -> "NoSuchPort"
    [] KindOf(src.class, "Out", src.port) # KindOf(dst.class, "In", dst.port)
                                                            -> "TypeMismatch"
    [] OTHER                                                -> "Ok"

-----------------------------------------------------------------------------
(* Values: a port that has no reading says so. *)

Null        == [type |-> "Null", n |-> 0]
Float(n)    == [type |-> "Float", n |-> n]
Bool(n)     == [type |-> "Bool", n |-> n]
Text(bytes) == [type |-> "String", text |-> bytes]
Value       == [type : {"Null", "Bool", "Int", "Float"}, n : Nat]
                 \cup [type : {"String"}, text : Seq(0 .. 255)]

Fits(v, type) == v = Null \/ v.type = type
=============================================================================
