---------------------------- MODULE Calibration ----------------------------
(***************************************************************************)
(* Calibration of the sensors of a sensor axis: the functions of           *)
(* drivers/input/sensor-axis/sensor_axis.c that set the travel of a sensor *)
(* to its current position, the shell commands of shell.c that call them   *)
(* and save the result, and settings.c, which stores it and loads it again *)
(* at boot.                                                                *)
(*                                                                         *)
(* Every shell backend has a thread of its own: two commands can run at a  *)
(* time.  A sensor's mutex is held for one sample, and then for the change *)
(* of its travel; a command is preempted anywhere else.  The two bounds of *)
(* a travel are two records in the settings file, written and loaded one   *)
(* by one, and the system can be reset between any two steps.              *)
(***************************************************************************)
EXTENDS Integers, Sequences

CONSTANTS
    Sensors, Operators,
    Targets,      \* what can be calibrated: the sensors of a channel, or one
    Kinds,        \* what they are calibrated to, of the five in NewTravel
    Positions,    \* readings of the underlying sensors, in millionths
    Samples,      \* CALIB_TIMES
    Grain,        \* divisor of a travel in sensor_get() before it divides: 1000
    Devicetree,   \* in_min and in_max of each sensor as built
    NULL,         \* no record
    MaxCommands,  \* bound: commands given
    MaxRestarts   \* bound: resets of the system

Bounds == {"min", "max"}
SensorsOf(t) == {t[i] : i \in 1..Len(t)}

ASSUME CalibrationAssumption ==
    /\ Targets \subseteq Seq(Sensors) \ {<<>>}
    /\ Kinds \subseteq Bounds \cup {"center", "min_range", "max_range"}
    /\ Positions \subseteq Int
    /\ Samples \in Nat \ {0} /\ Grain \in Nat \ {0} /\ Grain % 4 = 0
    /\ NULL \notin Int
    /\ Devicetree \in [Sensors -> [Bounds -> Int]]
    /\ MaxCommands \in Nat /\ MaxRestarts \in Nat

VARIABLES
    in,        \* in_min and in_max of each sensor
    stored,    \* the records of each sensor in the settings file, or NULL
    unloaded,  \* records that settings_load() has still to come to
    op,        \* the command of each operator
    commands, restarts,
    \* Bookkeeping for the properties.
    calibrated, \* the travel each sensor was last given
    disturbed   \* sensors whose last command failed, was cut short or overlapped

calibrationVars == <<in, stored, unloaded, op, commands, restarts, calibrated, disturbed>>

-----------------------------------------------------------------------------
(* Arithmetic of C: division truncates, DIV_ROUND_CLOSEST rounds.           *)
Abs(x) == IF x < 0 THEN -x ELSE x
Sign(x) == IF x < 0 THEN -1 ELSE 1
Quotient(x, y) == Sign(x) * Sign(y) * (Abs(x) \div Abs(y))
DIV_ROUND_CLOSEST(x, y) == Quotient(x + Sign(x) * Sign(y) * (y \div 2), y)

(* sensor_get() divides a position by this; the travel is usable if it can. *)
Divisor(b) == DIV_ROUND_CLOSEST(b["max"] - b["min"], Grain)
Usable(b) == Divisor(b) # 0

Around(center, range) == [x \in Bounds |-> IF x = "min" THEN center - range ELSE center + range]

(* Faulty: the travel is halved twice. *)
QuarterTravel(b, kind, curr) ==
    CASE kind \in Bounds -> [b EXCEPT ![kind] = curr]
      [] kind = "center" -> Around(curr, Quotient(b["max"] - b["min"], 4))
      [] OTHER -> b

(* The travel that calibration makes of the travel b at position curr.      *)
NewTravel(b, kind, curr) ==
    LET center == Quotient(b["min"] + b["max"], 2) IN
    CASE kind \in Bounds -> [b EXCEPT ![kind] = curr]
      [] kind = "center" -> Around(curr, Quotient(b["max"] - b["min"], 2))
      [] kind = "min_range" -> Around(center, center - curr)
      [] kind = "max_range" -> Around(center, curr - center)

-----------------------------------------------------------------------------
Idle == [pc |-> "idle"]
Active(s) == {o \in Operators : op[o].pc # "idle" /\ s \in SensorsOf(op[o].target)}
Current(o) == op[o].target[op[o].i]

(* A calib_set command of the shell, for a sensor or a channel.  It is      *)
(* alone on a sensor while no other command and no load works on it.        *)
Command(o, kind, target) ==
    LET alone == {s \in SensorsOf(target) :
                    Active(s) = {} /\ \A b \in Bounds : <<s, b>> \notin unloaded} IN
    /\ op[o].pc = "idle" /\ commands < MaxCommands
    /\ commands' = commands + 1
    /\ op' = [p \in Operators |->
                CASE p = o -> [pc |-> "sample", kind |-> kind, target |-> target,
                               i |-> 1, n |-> 0, val |-> 0, alone |-> alone]
                  [] op[p].pc # "idle" -> [op[p] EXCEPT !.alone = @ \ SensorsOf(target)]
                  [] OTHER -> op[p]]
    /\ disturbed' = disturbed \cup (SensorsOf(target) \ alone)
    /\ UNCHANGED <<in, stored, unloaded, restarts, calibrated>>

(* An error ends the command: the sensors before keep what they were given. *)
Fails(o) ==
    /\ op' = [op EXCEPT ![o] = Idle]
    /\ disturbed' = disturbed \cup SensorsOf(op[o].target)
    /\ UNCHANGED <<in, stored, unloaded, commands, restarts, calibrated>>

(* sensor_axis_sensor_get_curr() takes one sample, with the mutex, of the   *)
(* sum it then divides; it sleeps until the next.                           *)
Sample(o, raw) ==
    LET sum == op[o].val + raw IN
    /\ op[o].pc = "sample"
    /\ op' = [op EXCEPT ![o] =
                IF op[o].n + 1 < Samples
                  THEN [op[o] EXCEPT !.n = @ + 1, !.val = sum]
                  ELSE [op[o] EXCEPT !.n = @ + 1, !.val = DIV_ROUND_CLOSEST(sum, Samples), !.pc = "set"]]
    /\ UNCHANGED <<in, stored, unloaded, commands, restarts, calibrated, disturbed>>

SampleFails(o) == op[o].pc = "sample" /\ Fails(o)

(* The loops of the channel functions: the next sensor, or what follows.    *)
NextSensor(o, pc) == [op[o] EXCEPT !.i = @ + 1, !.pc = pc, !.n = 0, !.val = 0]
IsLast(o) == op[o].i = Len(op[o].target)

(* Faulty: the loop over the sensors goes on where the other one ended.     *)
SaveLastSensor(o) == [op[o] EXCEPT !.pc = "get", !.kind = "save", !.n = 0, !.val = 0]

(* All sensors are calibrated: the shell has them saved. *)
StartSave(o) == [op[o] EXCEPT !.pc = "get", !.kind = "save", !.i = 1, !.n = 0, !.val = 0]

(* The locked part of the *_set_curr() functions. *)
SetCurr(o) ==
    LET s == Current(o) IN
    /\ op[o].pc = "set"
    /\ in' = [in EXCEPT ![s] = NewTravel(@, op[o].kind, op[o].val)]
    /\ calibrated' = [calibrated EXCEPT ![s] = in'[s]]
    /\ op' = [op EXCEPT ![o] = IF IsLast(o) THEN StartSave(o) ELSE NextSensor(o, "sample")]
    /\ UNCHANGED <<stored, unloaded, commands, restarts, disturbed>>

(* sensor_axis_sensor_calib_save(): a bound is read with the mutex, and     *)
(* saved without; n tells the bounds of a sensor apart.                     *)
SavedBound(o) == IF op[o].n = 0 THEN "min" ELSE "max"

SaveGet(o) ==
    /\ op[o].pc = "get"
    /\ op' = [op EXCEPT ![o] = [op[o] EXCEPT !.val = in[Current(o)][SavedBound(o)], !.pc = "save"]]
    /\ UNCHANGED <<in, stored, unloaded, commands, restarts, calibrated, disturbed>>

SaveOne(o) ==
    /\ op[o].pc = "save"
    /\ stored' = [stored EXCEPT ![Current(o)][SavedBound(o)] = op[o].val]
    /\ op' = [op EXCEPT ![o] = CASE op[o].n = 0 -> [@ EXCEPT !.n = 1, !.val = 0, !.pc = "get"]
                                 [] op[o].n = 1 /\ IsLast(o) -> Idle
                                 [] OTHER -> NextSensor(o, "get")]
    /\ disturbed' = IF op'[o] = Idle THEN disturbed \ op[o].alone ELSE disturbed
    /\ UNCHANGED <<in, unloaded, commands, restarts, calibrated>>

(* A save that fails is only printed: the command returns success. *)
SaveFails(o) == op[o].pc = "save" /\ Fails(o)

-----------------------------------------------------------------------------
Records == {r \in Sensors \X Bounds : stored[r[1]][r[2]] # NULL}

(* A reset: the travels are those of the devicetree again, until            *)
(* settings_load() has come to the records.                                 *)
Restart ==
    /\ restarts < MaxRestarts
    /\ restarts' = restarts + 1
    /\ in' = Devicetree
    /\ op' = [o \in Operators |-> Idle]
    /\ unloaded' = Records
    /\ disturbed' = disturbed \cup {s \in Sensors : Active(s) # {} \/ \E b \in Bounds : <<s, b>> \in unloaded}
    /\ UNCHANGED <<stored, commands, calibrated>>

(* calib_load() for one record. *)
Load(r) ==
    /\ r \in unloaded
    /\ unloaded' = unloaded \ {r}
    /\ in' = [in EXCEPT ![r[1]][r[2]] = stored[r[1]][r[2]]]
    /\ UNCHANGED <<stored, op, commands, restarts, calibrated, disturbed>>

(* The record cannot be read: settings_load() goes on with the next. *)
LoadFails(r) ==
    /\ r \in unloaded
    /\ unloaded' = unloaded \ {r}
    /\ disturbed' = disturbed \cup {r[1]}
    /\ UNCHANGED <<in, stored, op, commands, restarts, calibrated>>

-----------------------------------------------------------------------------
CalibrationInit ==
    /\ in = Devicetree
    /\ stored = [s \in Sensors |-> [b \in Bounds |-> NULL]]
    /\ unloaded = {}
    /\ op = [o \in Operators |-> Idle]
    /\ commands = 0 /\ restarts = 0
    /\ calibrated = Devicetree /\ disturbed = {}

Operator(o) ==
    \/ \E kind \in Kinds, target \in Targets : Command(o, kind, target)
    \/ \E raw \in Positions : Sample(o, raw)
    \/ SampleFails(o) \/ SetCurr(o) \/ SaveGet(o) \/ SaveOne(o) \/ SaveFails(o)

CalibrationNext ==
    \/ \E o \in Operators : Operator(o)
    \/ Restart
    \/ \E r \in Sensors \X Bounds : Load(r) \/ LoadFails(r)

CalibrationSpec == CalibrationInit /\ [][CalibrationNext]_calibrationVars

-----------------------------------------------------------------------------
(* Properties. *)

(* The state is well typed. *)
CalibrationTypeOK ==
    /\ in \in [Sensors -> [Bounds -> Int]] /\ calibrated \in [Sensors -> [Bounds -> Int]]
    /\ stored \in [Sensors -> [Bounds -> Int \cup {NULL}]]
    /\ unloaded \subseteq Records
    /\ disturbed \subseteq Sensors
    /\ commands \in 0..MaxCommands /\ restarts \in 0..MaxRestarts

(* Between commands, also after a reset, a sensor has the travel it was     *)
(* last given, and so have its records if it was given one.  The exceptions *)
(* are a sensor whose last command failed, in whole or for another sensor   *)
(* of the channel, was cut by a reset, or ran at the same time as another   *)
(* one or the load: the settings can then hold one bound of each command.   *)
CalibrationKept ==
    \A s \in Sensors \ disturbed :
      Active(s) = {} /\ (\A b \in Bounds : <<s, b>> \notin unloaded) =>
        /\ in[s] = calibrated[s]
        /\ stored[s] # [b \in Bounds |-> NULL] => stored[s] = in[s]

(* The travel of a sensor becomes unusable, so that sensor_get() divides by *)
(* zero, only where a command puts a bound at the other one, or both at the *)
(* center, or while the records of the sensor or what disturbed it leave it *)
(* one bound of each travel.  Moving the center never does it.              *)
UnusableOnlyByHand ==
    [][\A s \in Sensors :
         Usable(in[s]) /\ ~Usable(in'[s]) =>
           \/ \E o \in Operators :
                /\ op[o].pc = "set" /\ op'[o].pc # "set" /\ Current(o) = s
                /\ op[o].kind # "center" /\ in'[s] = calibrated'[s]
           \/ ~Usable(calibrated[s]) \/ s \in disturbed
           \/ \E b \in Bounds : <<s, b>> \in unloaded']_calibrationVars
=============================================================================
