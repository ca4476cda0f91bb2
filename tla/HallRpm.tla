------------------------------ MODULE HallRpm ------------------------------
(***************************************************************************)
(* The wheel speed driver, drivers/sensor/hall-rpm/hall_rpm.c.             *)
(*                                                                         *)
(* The interrupt of the Hall sensor counts pulses.  A timer reads the      *)
(* count and the cycles since the last reading, and zeroes the count; its  *)
(* callback may be pre-empted by a pulse.  A thread changes the sampling   *)
(* interval meanwhile.  The speed is modelled by the two numbers that it   *)
(* is the quotient of.                                                     *)
(***************************************************************************)
EXTENDS Naturals

CONSTANTS
    Cycles,     \* values of the cycle counter, 2^32 in the code
    Intervals,  \* sampling intervals, in cycles
    MaxPulses   \* bound: pulses in a reading

ASSUME HallRpmAssumption ==
    /\ Cycles \in Nat \ {0} /\ MaxPulses \in Nat
    /\ Intervals # {} /\ \A i \in Intervals : i \in 1..(Cycles - 1)

VARIABLES
    now,           \* the cycle counter
    sampling_int,  \* the sampling interval
    left,          \* cycles until the timer expires
    count,         \* pulses counted
    cycle,         \* the cycle counter at the last reading
    reading,       \* the last reading: pulses over cycles
    clearing,      \* the timer callback has read the count and not zeroed it
    restarting,    \* attr_set() has restarted the timer and not read the cycles
    \* Bookkeeping for the properties.
    actual         \* what there was to read: pulses, those lost, cycles, and whether
                   \* the interval was changed

hallVars == <<now, sampling_int, left, count, cycle, reading, clearing, restarting, actual>>

(* The difference is unsigned and twice as wide as the counter. *)
Elapsed == IF now >= cycle THEN now - cycle ELSE Cycles * Cycles + now - cycle

Tick ==
    /\ left > 0
    /\ left' = left - 1
    /\ now' = (now + 1) % Cycles
    /\ actual' = [actual EXCEPT !.cycles = @ + 1]
    /\ UNCHANGED <<sampling_int, count, cycle, reading, clearing, restarting>>

(* hall_rpm_gpio_cb(). *)
Pulse ==
    /\ actual.pulses < MaxPulses
    /\ count' = count + 1
    /\ actual' = [actual EXCEPT !.pulses = @ + 1, !.lost = IF clearing THEN @ + 1 ELSE @]
    /\ UNCHANGED <<now, sampling_int, left, cycle, reading, clearing, restarting>>

(* Faulty: the cycles are counted from the start. *)
TimerCbOldCycle ==
    /\ left = 0 /\ ~clearing
    /\ reading' = [pulses |-> count, cycles |-> Elapsed]
    /\ clearing' = TRUE
    /\ left' = sampling_int
    /\ actual' = [pulses |-> 0, lost |-> 0, cycles |-> 0, mixed |-> restarting]
    /\ UNCHANGED <<now, cycle, sampling_int, count, restarting>>

(* hall_rpm_timer_cb() up to the new reading; the timer is periodic. *)
TimerCb ==
    /\ left = 0 /\ ~clearing
    /\ reading' = [pulses |-> count, cycles |-> Elapsed]
    /\ cycle' = now
    /\ clearing' = TRUE
    /\ left' = sampling_int
    /\ actual' = [pulses |-> 0, lost |-> 0, cycles |-> 0, mixed |-> restarting]
    /\ UNCHANGED <<now, sampling_int, count, restarting>>

(* atomic_set(&data->count, 0). *)
ClearCount ==
    /\ clearing
    /\ count' = 0 /\ clearing' = FALSE
    /\ UNCHANGED <<now, sampling_int, left, cycle, reading, restarting, actual>>

(* hall_rpm_attr_set(): the timer is restarted first, the cycles are read   *)
(* after it; the count stays.                                               *)
AttrSet(i) ==
    /\ ~restarting /\ ~clearing
    /\ sampling_int' = i /\ left' = i
    /\ restarting' = TRUE
    /\ actual' = [actual EXCEPT !.mixed = TRUE]
    /\ UNCHANGED <<now, count, cycle, reading, clearing>>

AttrCycle ==
    /\ restarting /\ ~clearing
    /\ cycle' = now
    /\ restarting' = FALSE
    /\ actual' = [actual EXCEPT !.cycles = 0]
    /\ UNCHANGED <<now, sampling_int, left, count, reading, clearing>>

(* The state that hall_rpm_init() leaves. *)
HallInit ==
    /\ now \in 0..(Cycles - 1) /\ cycle = now
    /\ sampling_int \in Intervals /\ left = sampling_int
    /\ count = 0 /\ clearing = FALSE /\ restarting = FALSE
    /\ reading = [pulses |-> 0, cycles |-> 1]
    /\ actual = [pulses |-> 0, lost |-> 0, cycles |-> 0, mixed |-> FALSE]

HallNext ==
    \/ Tick \/ Pulse \/ TimerCb \/ ClearCount \/ AttrCycle
    \/ \E i \in Intervals : AttrSet(i)

-----------------------------------------------------------------------------
(* Properties. *)

(* A reading is the pulses since the last one over the time since then; but *)
(* for pulses between the reading of the count and its zeroing, which are   *)
(* never counted, and for a reading after the interval was changed or the   *)
(* counter wrapped.                                                         *)
RateTrue ==
    [][~clearing /\ clearing' =>
         \/ reading' = [pulses |-> actual.pulses - actual.lost, cycles |-> actual.cycles]
         \/ actual.mixed \/ now < cycle]_hallVars
=============================================================================
