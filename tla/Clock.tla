------------------------------- MODULE Clock -------------------------------
(***************************************************************************)
(* The system clock and the real-time clock: subsys/sys/rtc/rtc.c, the     *)
(* CANopen time consumer subsys/canbus/canopen/time.c that sets them once, *)
(* and get_fattime() of subsys/sys/fs/fs.c, which shares gmtime()'s result *)
(* with them if the C library has one for all threads.                     *)
(*                                                                         *)
(* A clock is modelled by where its time comes from: all clocks tick       *)
(* alike.  The real-time clock survives a restart, the rest does not.      *)
(***************************************************************************)
EXTENDS Naturals

CONSTANTS
    Epochs,          \* the time messages of the CANopen network
    Start,           \* the system clock at start: the epoch
    Unset,           \* a real-time clock that has no time yet
    Dummy,           \* the time it is given then
    SharedTm,        \* whether gmtime() has one result for all threads
    MaxRtcFailures   \* bound: operations that the real-time clock refuses

ASSUME ClockAssumption ==
    /\ Epochs \cap {Start, Unset, Dummy} = {} /\ Start # Unset /\ Dummy \notin {Start, Unset}
    /\ SharedTm \in BOOLEAN /\ MaxRtcFailures \in Nat

VARIABLES
    initialized,  \* whether init() of rtc.c has run
    clock,        \* the system clock
    rtc,          \* the real-time clock
    set,          \* set of canopen_time_ctx
    setting,      \* the message time_cb() is at, or Unset
    converted,    \* whether sys_set_time() has called gmtime() for it
    tm,           \* the result of the last gmtime()
    fat,          \* the time get_fattime() has read, or Unset
    rtcFailures,
    \* Bookkeeping for the properties.
    rtcRefused,   \* the real-time clock refused the last time it was given
    crossed       \* get_fattime() used gmtime() while sys_set_time() did

clockVars == <<initialized, clock, rtc, set, setting, converted, tm, fat, rtcFailures, rtcRefused,
               crossed>>

RtcFails == rtcFailures < MaxRtcFailures /\ rtcFailures' = rtcFailures + 1

(* init() of rtc.c: a clock without time is given the dummy time, and the   *)
(* system clock what the clock then says, unless one of the calls fails.    *)
RtcInit ==
    /\ ~initialized
    /\ initialized' = TRUE
    /\ \/ RtcFails /\ rtcRefused' = TRUE /\ UNCHANGED <<rtc, clock>>
       \/ RtcFails /\ rtc = Unset /\ rtc' = Dummy /\ rtcRefused' = TRUE /\ UNCHANGED clock
       \/ /\ rtc' = IF rtc = Unset THEN Dummy ELSE rtc
          /\ clock' = rtc'
          /\ UNCHANGED <<rtcFailures, rtcRefused>>
    /\ UNCHANGED <<set, setting, converted, tm, fat, crossed>>

(* time_cb() for the first time message, up to sys_clock_settime(). *)
TimeCb(e) ==
    /\ initialized /\ ~set /\ setting = Unset
    /\ setting' = e
    /\ clock' = e
    /\ tm' = IF SharedTm THEN e ELSE tm
    /\ UNCHANGED <<initialized, rtc, set, converted, fat, rtcFailures, rtcRefused, crossed>>

(* The rest of sys_set_time(): gmtime(), which returns a pointer, and then  *)
(* rtc_set_time(); time_cb() tries again with the next message if it fails. *)
Convert ==
    /\ setting # Unset /\ ~converted
    /\ converted' = TRUE
    /\ tm' = setting
    /\ UNCHANGED <<initialized, clock, rtc, set, setting, fat, rtcFailures, rtcRefused, crossed>>

(* Faulty: the time counts as set whatever the real-time clock says. *)
RtcSetTimeUnchecked ==
    /\ converted
    /\ \/ rtc' = tm /\ UNCHANGED rtcFailures
       \/ RtcFails /\ UNCHANGED rtc
    /\ set' = TRUE /\ rtcRefused' = FALSE
    /\ setting' = Unset /\ converted' = FALSE
    /\ UNCHANGED <<initialized, clock, tm, fat, crossed>>

RtcSetTime ==
    /\ converted
    /\ \/ rtc' = tm /\ set' = TRUE /\ rtcRefused' = FALSE /\ UNCHANGED rtcFailures
       \/ RtcFails /\ rtcRefused' = TRUE /\ UNCHANGED <<rtc, set>>
    /\ setting' = Unset /\ converted' = FALSE
    /\ UNCHANGED <<initialized, clock, tm, fat, crossed>>

(* get_fattime(), by any thread that writes to a file. *)
FatGetTime ==
    /\ fat = Unset
    /\ fat' = clock
    /\ UNCHANGED <<initialized, clock, rtc, set, setting, converted, tm, rtcFailures, rtcRefused,
                   crossed>>

FatConvert ==
    /\ fat # Unset
    /\ tm' = IF SharedTm THEN fat ELSE tm
    /\ crossed' = (crossed \/ converted)
    /\ fat' = Unset
    /\ UNCHANGED <<initialized, clock, rtc, set, setting, converted, rtcFailures, rtcRefused>>

ClockInit ==
    /\ initialized = FALSE /\ clock = Start /\ rtc = Unset /\ set = FALSE
    /\ setting = Unset /\ converted = FALSE /\ tm = Start /\ fat = Unset
    /\ rtcFailures = 0 /\ rtcRefused = FALSE /\ crossed = FALSE

(* Everything but the real-time clock starts anew. *)
Restart ==
    /\ initialized' = FALSE /\ clock' = Start /\ set' = FALSE
    /\ setting' = Unset /\ converted' = FALSE /\ tm' = Start /\ fat' = Unset
    /\ rtcRefused' = FALSE /\ crossed' = FALSE
    /\ UNCHANGED <<rtc, rtcFailures>>

ClockStep ==
    \/ RtcInit
    \/ \E e \in Epochs : TimeCb(e)
    \/ Convert \/ RtcSetTime
    \/ FatGetTime \/ FatConvert

ClockNext == ClockStep \/ Restart

-----------------------------------------------------------------------------
(* Properties. *)

(* The two clocks agree whenever nobody is setting them, unless the         *)
(* real-time clock refused or a thread that stamped a file overwrote        *)
(* gmtime()'s result in between; and once time_cb() counts the time as set, *)
(* the real-time clock has not refused it.                                  *)
ClocksAgree ==
    /\ initialized /\ setting = Unset /\ ~rtcRefused /\ ~crossed => clock = rtc
    /\ set => ~rtcRefused
=============================================================================
