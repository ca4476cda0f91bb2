---------------------------- MODULE MCSensorAxis ----------------------------
(* A small instance of SensorAxis: two sensors that turn in opposite        *)
(* directions, as those of an accelerator, an edge dead zone no larger than *)
(* the noise, and tolerances with readings on either side of their          *)
(* hysteresis.                                                              *)
EXTENDS SensorAxis, TLC

CONSTANTS s1, s2

MCSensors == <<s1, s2>>
MCInMin == s1 :> 0 @@ s2 :> 1000000
MCInMax == s1 :> 1000000 @@ s2 :> 0
MCRangeTolerance == s1 :> 10 @@ s2 :> 10
MCWeights == s1 :> 1 @@ s2 :> 1
MCReadings == {0, 50000, 95000, 950000, 1000000, 1095000, 1200000}
=============================================================================
