------------------------- MODULE MCHAPConversation --------------------------
(***************************************************************************)
(* A small instance of HAPConversation: a child with a thermometer, a lamp  *)
(* and a hygrometer, whose descriptor takes two pages or three.             *)
(***************************************************************************)
EXTENDS HAPConversation

Thermometer == Ref(<<>>, "Thermometer", 0, 0)
Lamp        == Ref(<<>>, "Lamp", 1, 0)
Hygrometer  == Ref(<<>>, "Hygrometer", 2, 0)

MCInstances == <<"Thermometer", "Lamp", "Hygrometer">>
MCMagic     == <<72, 65>>
MCFactory   == [name |-> <<65>>, instances |-> << <<66>>, <<67>>, <<68>> >>]
MCShown     == (Thermometer :> Float(215)) @@ (Lamp :> Bool(1)) @@ (Hygrometer :> Null)
MCFirmware  == <<49>>

\* ABя: four bytes and three characters, of which a shorter build keeps two.
Cyrillic == <<65, 66, 209, 143>>

MCNodeNames     == {<<65>>, <<65, 66, 67>>}
MCInstanceNames == <<{<<66>>}, {<<67>>, Cut(Cyrillic, MaxName)}, {<<68>>}>>

SetName(target, class, inst, name) ==
  [type |-> "SetNameRequest", target |-> target, class |-> class, inst |-> inst,
   name |-> name]

Describing == {[type |-> "DescribeRequest", page |-> k] : k \in 0 .. 2}

Renaming == {SetName(NodeTarget, "Any", 0, <<65, 66, 67>>),
             SetName(InstanceTarget, "Lamp", 1, Cyrillic)}

Reading == {[type |-> "ReadRequest", class |-> "Any", inst |-> AnyOf, port |-> AnyOf],
            [type |-> "ReadRequest", class |-> "Lamp", inst |-> AnyOf, port |-> 1]}

Writing == {[type |-> "WriteRequest", class |-> "Lamp", inst |-> 1, port |-> 0,
             value |-> Bool(1)],
            [type |-> "WriteRequest", class |-> "Hygrometer", inst |-> 2, port |-> 0,
             value |-> Float(3)]}

Setting == {[type |-> "SetPolicyRequest", class |-> "Thermometer", inst |-> 0, port |-> p,
             interval |-> 300, deadband |-> Null] : p \in {0, 1}}

Wiring == {[type |-> "SetLinkRequest", id |-> 0, src |-> Ref(<<1>>, "Switch", 0, 0),
            dst |-> Lamp],
           [type |-> "SetLinkRequest", id |-> 1, src |-> Ref(<<1>>, "Switch", 1, 0),
            dst |-> Lamp],
           [type |-> "ClearLinkRequest", id |-> 0],
           [type |-> "ListLinksRequest", page |-> 0]}

Updating == {[type |-> "OtaRequest", flags |-> f, channel |-> 1, ssid |-> <<119>>,
              pass |-> <<112>>, url |-> <<117>>] : f \in {0, 2}}

Serving == {[type |-> "Ping"], [type |-> "Unknown"]} \cup Updating

\* Who describes and renames also polls; values go together, and wires and service.
MCAgendas == {Describing \cup Renaming \cup {[type |-> "Ping"]},
              Reading \cup Writing \cup Setting,
              Reading \cup Wiring \cup Serving}
MCDescribing == {Describing}

\* What the theorems of HAPConversationProofs ask.
ASSUME TheoremsApply ==
  /\ NodeFits /\ RequestsAreMessages /\ MeasuresFit
  /\ DescriptorsFit /\ AnnouncementsFit /\ RevisionsDiffer
  /\ NoneEmptied /\ NamesGivenAreText
=============================================================================
