---------------------------- MODULE MCHAPMaster -----------------------------
(* Small instances of HAPMaster: a controller, which promises no interval,   *)
(* and a leaf, which does.                                                   *)
EXTENDS HAPMaster

CONSTANTS controller, leaf

MCDevices == {controller, leaf}

LeafAt(places) == [d \in MCDevices |-> IF d = leaf THEN places ELSE <<<<1>>>>]
Intervals(n)   == [d \in Devices |-> IF d = leaf THEN n ELSE 0]
Askable(set)   == [d \in Devices |-> IF d = leaf THEN set ELSE {}]

(* Moved up: a leaf below the controller is later bound to the master.       *)
MovedUp == LeafAt(<<<<1, 1>>, <<2>>>>)
(* Moved down: a child of the master is later bound to the controller.       *)
MovedDown == LeafAt(<<<<2>>, <<1, 1>>>>)
StaysPut == LeafAt(<<<<2>>>>)

Two == Intervals(2)
One == Intervals(1)
Tightened == Askable({1})
Relaxed == Askable({4})
Nothing == Askable({})
Nobody == {}
TheLeaf == {leaf}
=============================================================================
