----------------------------- MODULE SensorAxis -----------------------------
(***************************************************************************)
(* One channel of a sensor-axis device, drivers/input/sensor-axis.         *)
(*                                                                         *)
(* Each period the device's thread reads the sensors of the channel one    *)
(* after the other, checks each value's range and their deviation, and     *)
(* reports a value or an error as an input event.  input_report() puts the *)
(* event in a queue without waiting, and is refused when it is full.       *)
(* Values are in one-millionth parts of the range, tolerances in per cent. *)
(***************************************************************************)
EXTENDS Integers, Sequences, FiniteSets

CONSTANTS
    Sensors,         \* the sensors of the channel, in order
    InMin, InMax,    \* of each sensor, as calibrated
    RangeTolerance,  \* of each sensor; < 0: no range check
    Weights,         \* of each sensor
    DevTolerance,    \* < 0: no deviation check
    DeadzoneMode,    \* "center" or "edge"
    DeadzoneSize, Noise,
    PollPeriod, TimeTolerance, TimeToleranceDecay,
    Readings,        \* what a sensor may read
    InvalidOut       \* INVALID_OUT

(* The whole range, in one-millionth parts. *)
Whole == 1000000

SensorSet == {Sensors[i] : i \in 1..Len(Sensors)}

(* A channel without sensors does not compile.                              *)
ASSUME SensorsAssumption == Sensors \in Seq(SensorSet) /\ Sensors # <<>>

(* The build asserts that the dead zone is not smaller than the noise.  The *)
(* travel of a sensor can be divided by; module Calibration shows when a    *)
(* calibration leaves one that cannot.                                      *)
ASSUME ChannelAssumption ==
    /\ \A s \in SensorSet :
         /\ InMin[s] \in Int /\ InMax[s] \in Int /\ InMax[s] - InMin[s] \notin -499..499
         /\ RangeTolerance[s] \in Int
    /\ Weights \in [SensorSet -> Nat \ {0}]
    /\ Readings \subseteq Int /\ DevTolerance \in Int
    /\ DeadzoneMode \in {"center", "edge"} /\ DeadzoneSize \in Nat
    /\ DeadzoneSize = 0 \/ DeadzoneSize * 10000 >= Noise
    /\ Noise \in Nat /\ PollPeriod \in Nat \ {0} /\ TimeTolerance \in Nat
    /\ TimeToleranceDecay \in 0..100 /\ InvalidOut \in Int \ (0..Whole)

VARIABLES
    ready,         \* the sensors whose device came up at boot
    sensorError,   \* sensor_axis_sensor_data.error
    error,         \* sensor_axis_channel_data.error
    prevOut,       \* sensor_axis_channel_data.prev_out
    accum,         \* sensor_axis_channel_data.accum_error_time
    stage, at,     \* channel_update(): its part, and the sensor it is at
    vals,          \* values of the sensors read in this update
    failed,        \* ret < 0
    out,           \* the value to report
    \* Bookkeeping.
    told,          \* the last value reported since the last error
    result,        \* how the last update ended
    refused,       \* the last event of the channel that was due was refused
    failedTime     \* as accum, but a period counts once

channelVars == <<error, prevOut, accum>>
vars == <<ready, sensorError, channelVars, stage, at, vals, failed, out,
          told, result, refused, failedTime>>

-----------------------------------------------------------------------------
(* C division, DIV_ROUND_CLOSEST, CLAMP, MIN and MAX. *)
Quot(n, d) == IF (n < 0) = (d < 0) THEN (IF n < 0 THEN -n ELSE n) \div (IF d < 0 THEN -d ELSE d)
              ELSE -((IF n < 0 THEN -n ELSE n) \div (IF d < 0 THEN -d ELSE d))
DivRoundClosest(n, d) ==
    IF (n < 0) # (d < 0) THEN Quot(n - Quot(d, 2), d) ELSE Quot(n + Quot(d, 2), d)
Least(S) == CHOOSE x \in S : \A y \in S : x <= y
Greatest(S) == CHOOSE x \in S : \A y \in S : y <= x
Clamp(x, low, high) == Greatest({low, Least({x, high})})

(* A reading, in one-millionth parts of its sensor's range. *)
Normalized(s, reading) ==
    DivRoundClosest((reading - InMin[s]) * 1000, DivRoundClosest(InMax[s] - InMin[s], 1000))

(* A tolerance is smaller by RANGE_HYSTERESIS once it has been exceeded. *)
Tolerance(tolerance, exceeded) ==
    10000 * (IF exceeded THEN tolerance - Quot(tolerance * 10, 100) ELSE tolerance)

RangeError(s, val) ==
    LET tolerance == Tolerance(RangeTolerance[s], sensorError[s] \in {"under", "over"}) IN
    IF RangeTolerance[s] < 0 THEN "none"
    ELSE IF val < -tolerance THEN "under"
    ELSE IF val > Whole + tolerance THEN "over"
    ELSE "none"

OutDeadzone(val) ==
    LET size == DeadzoneSize * 10000 IN
    IF DeadzoneSize = 0 THEN val
    ELSE IF DeadzoneMode = "center" /\ val \in (Whole \div 2 - size)..(Whole \div 2 + size) THEN Whole \div 2
    ELSE IF DeadzoneMode = "edge" /\ val < size THEN 0
    ELSE val

(* What the loop over the sensors adds up. *)
Total(f) ==
    LET sum[i \in 0..Len(Sensors)] == IF i = 0 THEN 0 ELSE f[Sensors[i]] + sum[i - 1]
    IN sum[Len(Sensors)]

(* The weighted mean of the sensors' values. *)
Mean(values) ==
    DivRoundClosest(Total([s \in SensorSet |-> values[s] * Weights[s]]), Total(Weights))

(* accum_error_time after a failed and after a passed check. *)
Accumulated(time) == IF time < TimeTolerance THEN Least({time + PollPeriod, TimeTolerance}) ELSE time
Decayed(time) == Greatest({time - Quot(TimeTolerance * TimeToleranceDecay, 100), 0})

-----------------------------------------------------------------------------
NoVals == [s \in SensorSet |-> 0]

(* Devices that did not come up at boot stay so. *)
Init ==
    /\ ready \in SUBSET SensorSet
    /\ sensorError = [s \in SensorSet |-> "none"]
    /\ error = "none" /\ prevOut = InvalidOut /\ accum = 0
    /\ stage = "sensors" /\ at = 1 /\ vals = NoVals /\ failed = FALSE
    /\ out = 0 /\ told = InvalidOut
    /\ result = "none" /\ refused = FALSE /\ failedTime = 0

(* Faulty: the accumulated time must exceed the tolerance, and never does. *)
ChannelErrorLate(e, accepted) ==
    /\ accum' = Accumulated(accum)
    /\ error' = IF accum' > TimeTolerance /\ accepted THEN e ELSE error
    /\ UNCHANGED <<prevOut, told, refused>>

(* channel_error_update() with an error: it is reported if none is set and  *)
(* the failures have lasted.                                                *)
ChannelError(e, accepted) ==
    /\ accum' = Accumulated(accum)
    /\ LET due == error = "none" /\ accum' >= TimeTolerance
           AfterReport(new, old) == IF due /\ accepted THEN new ELSE old
       IN /\ error' = AfterReport(e, error)
          /\ prevOut' = AfterReport(InvalidOut, prevOut)
          /\ told' = AfterReport(InvalidOut, told)
          /\ refused' = IF due THEN ~accepted ELSE refused

(* channel_error_update(INPUT_ERROR_NONE): the error is cleared once the    *)
(* accumulated time has decayed.                                            *)
ChannelPass(accepted) ==
    /\ accum' = Decayed(accum)
    /\ LET due == error # "none" /\ accum' = 0 IN
         /\ error' = IF due /\ accepted THEN "none" ELSE error
         /\ refused' = IF due THEN ~accepted ELSE refused
    /\ UNCHANGED <<prevOut, told>>

(* sensor_error_update(): an event only when an error appears or            *)
(* disappears; a refused one fails the update of the sensor.                *)
SensorError(s, e, accepted) ==
    LET due == (sensorError[s] = "none") # (e = "none") IN
    sensorError' = [sensorError EXCEPT ![s] = IF due /\ accepted THEN e ELSE @]

NextSensor ==
    IF at < Len(Sensors) THEN at' = at + 1 /\ UNCHANGED stage
                         ELSE at' = 1 /\ stage' = "combine"

(* The sensor cannot be used in this update: the channel is told, and the   *)
(* other sensors are read nevertheless.                                     *)
SensorFails(e) ==
    /\ \E accepted \in BOOLEAN : ChannelError(e, accepted)
    /\ failed' = TRUE
    /\ NextSensor
    /\ UNCHANGED <<ready, vals, out, result, failedTime>>

SensorNotReady ==
    /\ stage = "sensors" /\ Sensors[at] \notin ready
    /\ SensorFails("nodev")
    /\ UNCHANGED sensorError

(* sensor_get() with error e or a value, and what channel_update() makes of *)
(* its return value.                                                        *)
SensorGet(s, e, val) ==
    /\ stage = "sensors" /\ Sensors[at] = s /\ s \in ready
    /\ \E accepted \in BOOLEAN : SensorError(s, e, accepted)
    /\ IF e = "none" /\ sensorError'[s] = "none"
         THEN /\ vals' = [vals EXCEPT ![s] = Clamp(val, 0, Whole)]
              /\ NextSensor
              /\ UNCHANGED <<ready, channelVars, failed, out, told, result, refused, failedTime>>
         ELSE SensorFails("io")

(* The sensor is locked for calibration, or cannot be read. *)
SensorFault(s) == \E e \in {"busy", "io"} : SensorGet(s, e, 0)

SensorReading(s, reading) ==
    LET val == Normalized(s, reading) IN SensorGet(s, RangeError(s, val), val)

(* The update ends. *)
Finish(how) ==
    /\ stage' = "sensors" /\ at' = 1 /\ vals' = NoVals /\ failed' = FALSE
    /\ result' = how
    /\ failedTime' = IF how = "failed" THEN Accumulated(failedTime) ELSE Decayed(failedTime)

Deviates ==
    /\ DevTolerance >= 0
    /\ Greatest({vals[s] : s \in SensorSet}) - Least({vals[s] : s \in SensorSet})
         > Tolerance(DevTolerance, error = "dev")

SomeSensorFailed ==
    /\ stage = "combine" /\ failed
    /\ Finish("failed")
    /\ UNCHANGED <<ready, sensorError, channelVars, out, told, refused>>

SensorsDeviate ==
    /\ stage = "combine" /\ ~failed /\ Deviates
    /\ \E accepted \in BOOLEAN : ChannelError("dev", accepted)
    /\ Finish("failed")
    /\ UNCHANGED <<ready, sensorError, out>>

(* Faulty: the value is reported although the error has not been cleared. *)
ChecksPassAnyway ==
    /\ stage = "combine" /\ ~failed /\ ~Deviates
    /\ \E accepted \in BOOLEAN : ChannelPass(accepted)
    /\ out' = OutDeadzone(Mean(vals))
    /\ stage' = "out"
    /\ UNCHANGED <<ready, sensorError, at, vals, failed, result, failedTime>>

ChecksPass ==
    /\ stage = "combine" /\ ~failed /\ ~Deviates
    /\ \E accepted \in BOOLEAN : ChannelPass(accepted)
    /\ IF error' = "none"
         THEN /\ out' = OutDeadzone(Mean(vals))
              /\ stage' = "out"
              /\ UNCHANGED <<at, vals, failed, result, failedTime>>
         ELSE /\ Finish("waiting")
              /\ UNCHANGED out
    /\ UNCHANGED <<ready, sensorError>>

Distance(x, y) == IF x < y THEN y - x ELSE x - y

(* Faulty: a change as large as the noise is noise. *)
IsNoiseInclusive == prevOut # InvalidOut /\ Distance(out, prevOut) <= Noise

(* The change since the reported value is too small to be reported. *)
IsNoise == prevOut # InvalidOut /\ Distance(out, prevOut) < Noise

(* The value is reported, scaled to the range of the output. *)
ReportValue ==
    /\ stage = "out"
    /\ \/ IsNoise /\ refused' = FALSE /\ UNCHANGED <<prevOut, told>>
       \/ ~IsNoise /\ refused' = FALSE /\ prevOut' = out /\ told' = out
       \/ ~IsNoise /\ refused' = TRUE /\ UNCHANGED <<prevOut, told>>
    /\ Finish("value")
    /\ UNCHANGED <<ready, sensorError, error, accum, out>>

Next ==
    \/ SensorNotReady
    \/ \E s \in SensorSet : SensorFault(s) \/ \E reading \in Readings : SensorReading(s, reading)
    \/ SomeSensorFailed \/ SensorsDeviate \/ ChecksPass \/ ReportValue

Spec == Init /\ [][Next]_vars

-----------------------------------------------------------------------------
(* Properties. *)

SensorErrors == {"none", "io", "busy", "under", "over"}

(* Every variable keeps its type. *)
TypeOK ==
    /\ ready \subseteq SensorSet
    /\ sensorError \in [SensorSet -> SensorErrors]
    /\ error \in {"none", "io", "nodev", "dev"}
    /\ prevOut = InvalidOut \/ prevOut \in 0..Whole
    /\ told = InvalidOut \/ told \in 0..Whole
    /\ accum \in 0..TimeTolerance
    /\ stage \in {"sensors", "combine", "out"} /\ at \in 1..Len(Sensors)
    /\ vals \in [SensorSet -> 0..Whole]
    /\ failed \in BOOLEAN /\ out \in 0..Whole
    /\ result \in {"none", "failed", "waiting", "value"} /\ refused \in BOOLEAN
    /\ failedTime \in 0..TimeTolerance

(* Between updates, a value that passed all checks is the one the listeners *)
(* were told, within the noise; and the dead zone's value is never taken    *)
(* for noise: listeners are told exactly that the pedal is released, or the *)
(* stick centred.                                                           *)
ValueKnown ==
    stage = "sensors" /\ at = 1 /\ result = "value" /\ ~refused =>
      /\ told # InvalidOut
      /\ Distance(out, told) < Noise \/ out = told
      /\ DeadzoneSize # 0 /\ out = (IF DeadzoneMode = "edge" THEN 0 ELSE Whole \div 2) => told = out

(* A failure that has lasted the tolerance, counting each period once, is   *)
(* reported, unless the report was refused.                                 *)
ReportedInTime ==
    stage = "sensors" /\ at = 1 /\ result = "failed" /\ failedTime >= TimeTolerance /\ ~refused
      => error # "none"

(* Listeners of the channel see an AxisStream, of the scaled values. *)
Stream == INSTANCE AxisStream WITH
    Values <- 0..Whole, NoValue <- InvalidOut,
    inError <- error # "none", last <- told
ImplementsStream == Stream!Spec
=============================================================================
