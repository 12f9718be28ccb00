----------------------------- MODULE MCHAPBinder -----------------------------
(* Small instances of HAPBinder. *)
EXTENDS HAPBinder, TLC

CONSTANTS gateway, controller, lamp

MCNode == {gateway, controller, lamp}

Cast(listeners, announcers, resetting, restarting) ==
  [listeners |-> listeners, announcers |-> announcers,
   resetting |-> resetting, restarting |-> restarting]

\* Two slaves after one master, one of them reset, the master's power lost; and
\* a node that is master and slave at once and loses power.
TwoSlaves == Cast({gateway}, {controller, lamp}, {lamp}, {gateway})
TwoLevels == Cast({gateway, controller}, {controller, lamp}, {}, {controller})

MCCasts   == {TwoSlaves, TwoLevels}
MCOneBond == {Cast({gateway}, {lamp}, {}, {})}
MCEachOther == {Cast({gateway, controller}, {gateway, controller}, {}, {})}
=============================================================================
