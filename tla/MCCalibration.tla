--------------------------- MODULE MCCalibration ---------------------------
(* A small instance of Calibration: two shells, a channel of two sensors    *)
(* and the first of them by itself.                                         *)
EXTENDS Calibration, TLC

CONSTANTS s1, s2

MCTargets == {<<s1>>, <<s1, s2>>}
MCDevicetree == [s \in {s1, s2} |-> Around(2, 2)]
MCSymmetry == Permutations(Operators)
=============================================================================
