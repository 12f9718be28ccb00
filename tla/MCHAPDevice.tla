----------------------------- MODULE MCHAPDevice -----------------------------
(***************************************************************************)
(* Small instances of HAPDevice: a thermometer and a regulator in one node, *)
(* with another thermometer below, as in Docs/Links.md section 8.           *)
(***************************************************************************)
EXTENDS HAPDevice

Thermometer == Ref(<<>>, "Thermometer", 0, 0)
Below       == Ref(<<1>>, "Thermometer", 0, 0)
Measure     == Ref(<<>>, "Regulator", 1, 0)

Link(id, src, dst) == [id |-> id, src |-> src, dst |-> dst]

MCInstances == <<"Thermometer", "Regulator">>
MCReadings  == {Null, Float(0), Float(1), Float(2)}
MCHeard     == {Float(2), Bool(1)}
MCMeasured  == {Thermometer}
MCWritten   == {Measure}
MCDeadbands == {Float(1)}
MCSpecs     == {Link(0, Thermometer, Measure),
                Link(1, Below, Measure), Link(1, Ref(<<1>>, "Hygrometer", 0, 0), Measure),
                Link(1, Ref(<<>>, "Thermometer", 1, 0), Measure)}
=============================================================================
