------------------------------ MODULE MCAccel ------------------------------
(* A small instance of Accel: values on either side of both thresholds of   *)
(* the plausibility check, and a queue of three events.                     *)
EXTENDS Accel
=============================================================================
