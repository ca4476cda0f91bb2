------------------------------- MODULE Accel -------------------------------
(***************************************************************************)
(* The accelerator device, drivers/input/accel/accel.c, between the        *)
(* accelerator's and the brake's channels (each an AxisStream) and those   *)
(* who listen to its throttle.                                             *)
(*                                                                         *)
(* All events pass through one input queue, and the input thread calls the *)
(* listeners of each.  The device's callbacks run on that thread and       *)
(* report events themselves; a report is refused when the queue is full.   *)
(* The brake and the pedal must not both be pressed: the throttle is then  *)
(* zero until the pedal is released.                                       *)
(***************************************************************************)
EXTENDS Integers, Sequences

CONSTANTS
    MIN, MAX,       \* accel_config.min, .max
    AccelValues,    \* values of the accelerator's channel
    BrakeValues,    \* values of the brake's channel
    QueueSize,      \* events the input queue holds
    NoValue         \* INVALID_OUT

ASSUME AccelAssumption ==
    /\ MIN \in Int /\ MAX \in Int /\ MIN < MAX
    /\ AccelValues \subseteq Int /\ BrakeValues \subseteq Int
    /\ NoValue \in Int \ (AccelValues \cup BrakeValues \cup {0})
    /\ QueueSize \in Nat \ {0}

Pedals == {"accel", "brake"}

VARIABLES
    accelInError, accelLast, brakeInError, brakeLast,  \* the pedals' streams
    queue,          \* their events in the input queue
    state,          \* accel_state and brake_state
    accelValue, brakeActuated, plausFailed, error, prevOut,  \* accel_data
    \* Bookkeeping.
    throttle,       \* the last throttle value reported
    refused,        \* a report of the device was refused at the last event
    latched         \* both pedals were pressed, and the accelerator not released since

streamVars == <<accelInError, accelLast, brakeInError, brakeLast>>
pedalVars == <<state, accelValue, brakeActuated>>
reportVars == <<error, prevOut, throttle, refused>>
vars == <<streamVars, queue, pedalVars, plausFailed, reportVars, latched>>

AccelAxis == INSTANCE AxisStream WITH
    Values <- AccelValues, inError <- accelInError, last <- accelLast
BrakeAxis == INSTANCE AxisStream WITH
    Values <- BrakeValues, inError <- brakeInError, last <- brakeLast

Init ==
    /\ AccelAxis!Init /\ BrakeAxis!Init
    /\ queue = <<>>
    /\ state = [p \in Pedals |-> "init"]
    /\ accelValue = 0 /\ brakeActuated = FALSE
    /\ plausFailed = FALSE /\ error = "none" /\ prevOut = NoValue
    /\ throttle = NoValue /\ refused = FALSE /\ latched = FALSE

-----------------------------------------------------------------------------
(* The channels report their events, when the queue has room. *)
Events ==
    [pedal : {"accel"}, type : {"value"}, value : AccelValues]
      \cup [pedal : {"brake"}, type : {"value"}, value : BrakeValues]
      \cup [pedal : Pedals, type : {"error", "clear"}, value : {0}]
Event(p, type, value) == [pedal |-> p, type |-> type, value |-> value]

Enqueue(event) ==
    /\ Len(queue) < QueueSize
    /\ queue' = Append(queue, event)
    /\ UNCHANGED <<pedalVars, plausFailed, reportVars, latched>>

AccelReports ==
    /\ \/ AccelAxis!Output /\ Enqueue(Event("accel", "value", accelLast'))
       \/ AccelAxis!SetError /\ Enqueue(Event("accel", "error", 0))
       \/ AccelAxis!ClearError /\ Enqueue(Event("accel", "clear", 0))
    /\ UNCHANGED <<brakeInError, brakeLast>>

BrakeReports ==
    /\ \/ BrakeAxis!Output /\ Enqueue(Event("brake", "value", brakeLast'))
       \/ BrakeAxis!SetError /\ Enqueue(Event("brake", "error", 0))
       \/ BrakeAxis!ClearError /\ Enqueue(Event("brake", "clear", 0))
    /\ UNCHANGED <<accelInError, accelLast>>

-----------------------------------------------------------------------------
(* Faulty: the end of an error is taken for its channel working again. *)
CallbackClears(event) ==
    /\ state' = [state EXCEPT ![event.pedal] = IF event.type = "error" THEN "err" ELSE "normal"]
    /\ accelValue' = IF event.pedal = "accel" /\ event.type = "value" THEN event.value ELSE accelValue
    /\ brakeActuated' = IF event.pedal = "brake" /\ event.type = "value" THEN event.value > 0
                        ELSE brakeActuated

(* accel_cb() and brake_cb(), up to update().  A channel clears its error   *)
(* with code INPUT_ERROR_NONE, that the callbacks ignore: a value follows.  *)
Callback(event) ==
    /\ state' = [state EXCEPT ![event.pedal] =
                   CASE event.type = "value" -> "normal"
                     [] event.type = "error" -> "err"
                     [] OTHER -> @]
    /\ accelValue' = IF event.pedal = "accel" /\ event.type = "value" THEN event.value ELSE accelValue
    /\ brakeActuated' = IF event.pedal = "brake" /\ event.type = "value" THEN event.value > 0
                        ELSE brakeActuated

(* PLAUS_ACTIVATE_TH and PLAUS_DEACTIVATE_TH of the range. *)
Pressed(value) == value > ((MAX - MIN) * 25) \div 100
Released(value) == value <= ((MAX - MIN) * 5) \div 100

(* Faulty: the failure ends when the brake is released. *)
PlausibilityByBrake ==
    plausFailed' = (Pressed(accelValue') /\ brakeActuated')

(* The failure ends when the accelerator is released, whatever the brake. *)
Plausibility ==
    plausFailed' = IF plausFailed THEN ~Released(accelValue')
                   ELSE Pressed(accelValue') /\ brakeActuated'

(* Faulty: the value that was reported before the error is kept. *)
SetErrorKeepsOut(e) ==
    IF error # "none" THEN UNCHANGED <<error, prevOut, throttle>> /\ refused' = FALSE
    ELSE /\ UNCHANGED prevOut
         /\ \/ UNCHANGED <<error, throttle>> /\ refused' = TRUE
            \/ throttle' = 0 /\ UNCHANGED error /\ refused' = TRUE
            \/ throttle' = 0 /\ error' = e /\ refused' = FALSE

(* error_update() with an error: the throttle is zeroed, then the error is  *)
(* reported; either report may be refused, which leaves the rest undone.    *)
SetError(e) ==
    IF error # "none" THEN UNCHANGED <<error, prevOut, throttle>> /\ refused' = FALSE
    ELSE \/ UNCHANGED <<error, prevOut, throttle>> /\ refused' = TRUE
         \/ throttle' = 0 /\ prevOut' = NoValue
              /\ \/ UNCHANGED error /\ refused' = TRUE
                 \/ error' = e /\ refused' = FALSE

(* The error, if any, is cleared, and the value reported if it is news. *)
Pass ==
    \/ error # "none" /\ refused' = TRUE /\ UNCHANGED <<error, prevOut, throttle>>
    \/ /\ error' = "none"
       /\ IF accelValue' = prevOut THEN UNCHANGED <<prevOut, throttle>> /\ refused' = FALSE
          ELSE \/ throttle' = accelValue' /\ prevOut' = accelValue' /\ refused' = FALSE
               \/ UNCHANGED <<prevOut, throttle>> /\ refused' = TRUE

(* update() *)
Update ==
    IF \E p \in Pedals : state'[p] = "init"
      THEN UNCHANGED <<plausFailed, error, prevOut, throttle>> /\ refused' = FALSE
    ELSE IF \E p \in Pedals : state'[p] = "err"
      THEN UNCHANGED plausFailed /\ SetError("io")
    ELSE /\ Plausibility
         /\ IF plausFailed' THEN SetError("plaus") ELSE Pass

(* Bookkeeping: the pedal is past a part of its travel, in per cent. *)
Past(percent, value) == 100 * (value - MIN) > percent * (MAX - MIN)
BothPressed ==
    /\ \A p \in Pedals : state'[p] = "normal"
    /\ brakeActuated' /\ Past(25, accelValue')
Latch == latched' = (BothPressed \/ (latched /\ Past(5, accelValue')))

(* The input thread takes an event and calls the callback of its channel. *)
HandleEvent ==
    /\ queue # <<>>
    /\ queue' = Tail(queue)
    /\ Callback(Head(queue))
    /\ Update
    /\ Latch
    /\ UNCHANGED streamVars

Next == AccelReports \/ BrakeReports \/ HandleEvent

Spec == Init /\ [][Next]_vars

-----------------------------------------------------------------------------
(* Properties. *)

NoThrottle == throttle \in {0, NoValue}

(* Every variable keeps its type, and the queue its bound. *)
TypeOK ==
    /\ accelInError \in BOOLEAN /\ accelLast \in AccelValues \cup {NoValue}
    /\ brakeInError \in BOOLEAN /\ brakeLast \in BrakeValues \cup {NoValue}
    /\ queue \in Seq(Events) /\ Len(queue) <= QueueSize
    /\ state \in [Pedals -> {"init", "normal", "err"}]
    /\ accelValue \in AccelValues \cup {0} /\ brakeActuated \in BOOLEAN
    /\ plausFailed \in BOOLEAN /\ error \in {"none", "io", "plaus"}
    /\ prevOut \in AccelValues \cup {0, NoValue}
    /\ throttle \in AccelValues \cup {0, NoValue}
    /\ refused \in BOOLEAN /\ latched \in BOOLEAN

(* Rule EV4.7, that the device is for (nturt,accel.yaml): once both pedals  *)
(* have been pressed there is no throttle until the accelerator is          *)
(* released, whatever the brake does, and whatever errors come and go.      *)
NoThrottleWhileLatched == latched /\ ~refused => NoThrottle

(* Once its events have been handled, a pedal that has reported no value    *)
(* since its last error, or since boot, leaves no throttle.                 *)
NoThrottleWithoutPedal ==
    queue = <<>> /\ ~refused /\ (accelLast = NoValue \/ brakeLast = NoValue) => NoThrottle

(* Once its events have been handled, and with nothing against it, the      *)
(* throttle is the accelerator: also after errors, and when the value is    *)
(* the one before them.                                                     *)
ThrottleFollows ==
    queue = <<>> /\ ~refused /\ ~plausFailed /\ accelLast # NoValue /\ brakeLast # NoValue
      => throttle = accelLast
=============================================================================
