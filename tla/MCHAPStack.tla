----------------------------- MODULE MCHAPStack -----------------------------
(***************************************************************************)
(* Small instances of HAPStack: the network of Docs/Protocol.md section 8,  *)
(* a chain, a half-made binding and a loop.                                 *)
(***************************************************************************)
EXTENDS HAPStack

CONSTANTS gateway, controller, thermometer, lamp

Bind(p, c) ==
  [parent |-> p,
   children |-> [n \in Node |-> [i \in Index |->
                   IF c[n][i] \in Node THEN [mac |-> c[n][i]] ELSE NoChild]]]

Below(n1, n2) == <<n1, n2>>
None == <<NoNode, NoNode>>

\* Gateway --1-- Controller --1-- Thermometer
\*                         \--2-- Lamp
ProtocolTree ==
  Bind([n \in Node |-> CASE n = gateway -> NoNode
                         [] n = controller -> gateway
                         [] OTHER -> controller],
       [n \in Node |-> CASE n = gateway -> Below(controller, NoNode)
                         [] n = controller -> Below(thermometer, lamp)
                         [] OTHER -> None])

\* The thermometer is the root's own child, and the lamp believes it has a
\* parent that does not list it.
HalfBound ==
  Bind([n \in Node |-> CASE n = gateway -> NoNode
                         [] n = lamp -> controller
                         [] OTHER -> gateway],
       [n \in Node |-> IF n = gateway THEN Below(thermometer, controller) ELSE None])

\* Three mains nodes bound in a ring, as HAPBinder allows.
Ring ==
  Bind([n \in Node |-> CASE n = gateway -> lamp
                         [] n = controller -> gateway
                         [] n = lamp -> controller
                         [] OTHER -> NoNode],
       [n \in Node |-> CASE n = gateway -> Below(controller, NoNode)
                         [] n = controller -> Below(lamp, NoNode)
                         [] n = lamp -> Below(gateway, NoNode)
                         [] OTHER -> None])

\* The gateway and the sleeping thermometer are each other's parent: nothing
\* keeps a battery node from accepting a child.
EachOther ==
  Bind([n \in Node |-> CASE n = gateway -> thermometer
                         [] n = thermometer -> gateway
                         [] OTHER -> NoNode],
       [n \in Node |-> CASE n = gateway -> Below(thermometer, NoNode)
                         [] n = thermometer -> Below(gateway, NoNode)
                         [] OTHER -> None])

MCNode       == {gateway, controller, thermometer, lamp}
MCBattery    == {thermometer}
MCTrees      == {ProtocolTree, HalfBound}
MCAll        == {ProtocolTree, HalfBound, Ring, EachOther}
MCRoot       == {gateway}
MCRepCtl     == {thermometer}
MCPaths      == {<<1>>, <<1, 1>>, <<1, 3>>}
NoLinks      == [n \in Node |-> {}]
\* The controller feeds the input of its sleeping thermometer from its lamp, and
\* its lamp from itself.
MCLinks      == [NoLinks EXCEPT ![controller] =
                   {[src |-> <<2>>, dest |-> <<1>>], [src |-> <<>>, dest |-> <<2>>]}]
MCLinkReps   == {thermometer, lamp, controller}
MCDeep       == {<<1, 1>>, <<1, 3>>}
=============================================================================
