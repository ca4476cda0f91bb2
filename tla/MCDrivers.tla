----------------------------- MODULE MCDrivers -----------------------------
(* Small instances of the clocks, the sensor drivers, the dashboard and the *)
(* work contexts, which do not interact: a behaviour is of the one that     *)
(* "part" names, and the others stay where they start.                      *)
EXTENDS Clock, HallRpm, Amt21, PhyGeneric, Lights, WorkBuf, Jy901b, TLC

CONSTANTS e1, e2, r1, r2, r3, speed, accel, irq, thread, other

VARIABLE part

Others(p, v) == part # p /\ UNCHANGED v

MCAngles == -1..1
MCIntervals == {2, 3}

(* A display of two digits on two registers and a strip that shares the     *)
(* second.                                                                  *)
MCGpios ==
    (speed :> <<<<0, 0>>, <<0, 1>>, <<1, 0>>, <<1, 1>>>>)
      @@ (accel :> <<<<1, 2>>, <<1, 3>>>>)
MCFont == ("8" :> {0}) @@ (" " :> {})
MCTexts ==
    UNION {[1..n -> {"8", " ", ".", "x", NUL}] : n \in 0..2} \cup [1..3 -> {"8", "."}]
      \cup {<<"8", "8", "x">>, <<"8", " ", ".", "8">>}

(* Two components of the data, the pressure and one of the quaternion. *)
MCBursts == <<<<"accel_x", "accel_y">>, <<"press">>, <<"quat_w">>>>
MCChannels == {<<"accel_x", "accel_y">>, <<"quat_w">>}

(* Initial states that differ in another part than "part" are one.         *)
Init ==
    /\ part \in {"clock", "hall", "amt21", "phy", "lights", "work", "jy901b"}
    /\ ClockInit /\ HallInit /\ AmtInit /\ PhyInit /\ LightsInit /\ WorkInit /\ JyInit
    /\ part # "hall" => now = 0 /\ sampling_int = 2
    /\ part # "lights" => \A p \in Ports : register[p] = {}

Next ==
    /\ UNCHANGED part
    /\ (part = "clock" /\ ClockNext) \/ Others("clock", clockVars)
    /\ (part = "hall" /\ HallNext) \/ Others("hall", hallVars)
    /\ (part = "amt21" /\ AmtNext) \/ Others("amt21", amtVars)
    /\ (part = "phy" /\ PhyNext) \/ Others("phy", phyVars)
    /\ (part = "lights" /\ LightsNext) \/ Others("lights", lightsVars)
    /\ (part = "work" /\ WorkNext) \/ Others("work", workVars)
    /\ (part = "jy901b" /\ JyNext) \/ Others("jy901b", jyVars)

Spec == Init /\ [][Next]_<<part, clockVars, hallVars, amtVars, phyVars, lightsVars, workVars, jyVars>>
=============================================================================
