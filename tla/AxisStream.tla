----------------------------- MODULE AxisStream -----------------------------
(***************************************************************************)
(* What a channel of a sensor-axis device promises to those who listen to  *)
(* its input events (drivers/input/accel/accel.c is one): values, and      *)
(* errors that are set and cleared in turn.  No value comes between an     *)
(* error and its clearance, and after the clearance the listener is told   *)
(* the value again even when it is the one it knew.                        *)
(***************************************************************************)
CONSTANTS
    Values,     \* the values of the channel
    NoValue     \* none known; not one of them

VARIABLES
    inError,    \* the last error event set an error
    last        \* the last value since the last error, or NoValue

streamVars == <<inError, last>>

Init == inError = FALSE /\ last = NoValue

Output ==
    /\ ~inError
    /\ last' \in Values
    /\ UNCHANGED inError

SetError ==
    /\ ~inError
    /\ inError' = TRUE /\ last' = NoValue

ClearError ==
    /\ inError
    /\ inError' = FALSE
    /\ UNCHANGED last

Next == Output \/ SetError \/ ClearError

Spec == Init /\ [][Next]_streamVars
=============================================================================
