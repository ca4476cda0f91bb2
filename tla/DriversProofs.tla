---------------------------- MODULE DriversProofs ----------------------------
(***************************************************************************)
(* Proofs about the accelerator device, the clocks, the drivers and the    *)
(* dashboard, which do not interact: each has its own initial predicate,   *)
(* next-state relation and variables, and the theorems are about the       *)
(* behaviours of each on its own.                                          *)
(***************************************************************************)
EXTENDS Accel, Clock, HallRpm, Amt21, PhyGeneric, WorkBuf, Jy901b, Lights, FiniteSetTheorems, TLAPS

-----------------------------------------------------------------------------
(***************************************************************************)
(* The accelerator device gives no throttle after both pedals have been    *)
(* pressed, until the accelerator is released, nor while one of them is    *)
(* not heard from; otherwise the throttle is the accelerator.  All this    *)
(* for every set of values and size of the queue.                          *)
(*                                                                         *)
(* The plausibility failure covers the history (latched => plausFailed),   *)
(* and a failure, or an error that is set, covers the throttle.  The       *)
(* thresholds are compared with the value, not with its distance from MIN, *)
(* so that the history is covered only where MIN is zero.                  *)
(*                                                                         *)
(* For the other two, the queue is what the device has yet to hear: the    *)
(* last event of a pedal in it tells how the pedal's stream stands, and    *)
(* with none the state of the device does.                                 *)
(***************************************************************************)

(* The inductive invariant. *)
Covered ==
    /\ latched => plausFailed
    /\ plausFailed => \A p \in Pedals : state[p] # "init"
    /\ plausFailed /\ ~refused => NoThrottle
    /\ error # "none" => throttle = 0

IInv == TypeOK /\ Covered

(* Where MIN is zero the thresholds are exact. *)
LEMMA Thresholds ==
    ASSUME MIN = 0, MAX \in Int, 0 < MAX, NEW v \in Int
    PROVE  /\ Pressed(v) <=> Past(25, v)
           /\ Released(v) <=> ~Past(5, v)
           /\ Past(25, v) => Past(5, v)
BY DEF Pressed, Released, Past

(* The first event leaves the queue well typed. *)
LEMMA HeadTail ==
    ASSUME NEW S, NEW q \in Seq(S), q # <<>>
    PROVE  Head(q) \in S /\ Tail(q) \in Seq(S) /\ Len(Tail(q)) = Len(q) - 1
OBVIOUS

(* The initial states satisfy the invariant. *)
LEMMA InitIInv == Init => IInv
<1> SUFFICES ASSUME Init PROVE IInv
  OBVIOUS
<1> USE DEF Init
<1>1. queue \in Seq(Events) /\ Len(queue) <= QueueSize
  BY AccelAssumption
<1>2. TypeOK
  BY <1>1 DEF TypeOK, AccelAxis!Init, BrakeAxis!Init
<1>3. Covered
  BY DEF Covered, NoThrottle
<1> QED BY <1>2, <1>3 DEF IInv

(* The channels' reports change only the streams and the queue. *)
LEMMA ReportsTypes ==
    ASSUME TypeOK, AccelReports \/ BrakeReports
    PROVE  TypeOK'
<1> USE DEF Enqueue, Event, pedalVars, reportVars
<1>1. CASE AccelReports
  <2>1. accelInError' \in BOOLEAN /\ accelLast' \in AccelValues \cup {NoValue}
    BY <1>1 DEF AccelReports, AccelAxis!Output, AccelAxis!SetError, AccelAxis!ClearError, TypeOK
  <2>2. \E e \in Events : Enqueue(e)
    BY <1>1 DEF AccelReports, AccelAxis!Output, Events, Pedals
  <2>3. queue' \in Seq(Events) /\ Len(queue') <= QueueSize
    BY <2>2, AccelAssumption DEF TypeOK
  <2> QED BY <1>1, <2>1, <2>2, <2>3 DEF AccelReports, TypeOK
<1>2. CASE BrakeReports
  <2>1. brakeInError' \in BOOLEAN /\ brakeLast' \in BrakeValues \cup {NoValue}
    BY <1>2 DEF BrakeReports, BrakeAxis!Output, BrakeAxis!SetError, BrakeAxis!ClearError, TypeOK
  <2>2. \E e \in Events : Enqueue(e)
    BY <1>2 DEF BrakeReports, BrakeAxis!Output, Events, Pedals
  <2>3. queue' \in Seq(Events) /\ Len(queue') <= QueueSize
    BY <2>2, AccelAssumption DEF TypeOK
  <2> QED BY <1>2, <2>1, <2>2, <2>3 DEF BrakeReports, TypeOK
<1> QED BY <1>1, <1>2

(* They leave what covers the throttle alone. *)
LEMMA ReportsIInv ==
    ASSUME IInv, AccelReports \/ BrakeReports
    PROVE  IInv'
<1>1. TypeOK'
  BY ReportsTypes DEF IInv
<1>2. UNCHANGED <<pedalVars, plausFailed, reportVars, latched>>
  BY DEF AccelReports, BrakeReports, Enqueue
<1> QED BY <1>1, <1>2 DEF IInv, Covered, NoThrottle, pedalVars, reportVars

(* An event is handled: the types, and that a pedal heard from once is      *)
(* never "init" again.                                                      *)
LEMMA HandleTypes ==
    ASSUME TypeOK, HandleEvent
    PROVE  /\ TypeOK' /\ accelValue' \in Int /\ Head(queue) \in Events
           /\ \A p \in Pedals : state'[p] = "init" => state[p] = "init"
<1> DEFINE e == Head(queue)
<1>1. e \in Events /\ queue' \in Seq(Events) /\ Len(queue') <= QueueSize
  <2>1. queue \in Seq(Events) /\ queue # <<>> /\ Len(queue) <= QueueSize /\ queue' = Tail(queue)
    BY DEF HandleEvent, TypeOK
  <2>2. Len(queue) \in Nat
    BY <2>1
  <2> QED BY <2>1, <2>2, HeadTail, AccelAssumption
<1>2. /\ state' \in [Pedals -> {"init", "normal", "err"}]
      /\ accelValue' \in AccelValues \cup {0} /\ accelValue' \in Int
      /\ brakeActuated' \in BOOLEAN
      /\ \A p \in Pedals : state'[p] = "init" => state[p] = "init"
  <2>1. e.pedal \in Pedals /\ e.type \in {"value", "error", "clear"}
        /\ (e.type = "value" /\ e.pedal = "accel" => e.value \in AccelValues)
        /\ (e.type = "value" /\ e.pedal = "brake" => e.value \in BrakeValues)
    BY <1>1 DEF Events, Pedals
  <2>2. Callback(e)
    BY DEF HandleEvent
  <2>3. /\ state' \in [Pedals -> {"init", "normal", "err"}]
        /\ \A p \in Pedals : state'[p] = "init" => state[p] = "init"
    BY <2>1, <2>2 DEF Callback, TypeOK
  <2>4. accelValue' \in AccelValues \cup {0} /\ accelValue' \in Int
    BY <2>1, <2>2, AccelAssumption DEF Callback, TypeOK
  <2>5. brakeActuated' = (e.value > 0) \/ brakeActuated' = brakeActuated
    BY <2>2, Zenon DEF Callback
  <2>6. brakeActuated' \in BOOLEAN
    <3>1. (e.value > 0) \in BOOLEAN
      OBVIOUS
    <3>2. brakeActuated \in BOOLEAN
      BY DEF TypeOK
    <3> QED BY <2>5, <3>1, <3>2, Zenon
  <2> QED BY <2>3, <2>4, <2>6
<1>3. plausFailed' \in BOOLEAN /\ latched' \in BOOLEAN
  BY DEF HandleEvent, Update, Plausibility, SetError, Latch, TypeOK
<1>4. /\ error' \in {"none", "io", "plaus"} /\ refused' \in BOOLEAN
      /\ prevOut' \in AccelValues \cup {0, NoValue} /\ throttle' \in AccelValues \cup {0, NoValue}
  <2>1. Update
    BY DEF HandleEvent
  <2>2. Pass \/ SetError("io") \/ SetError("plaus")
        \/ (UNCHANGED <<error, prevOut, throttle>> /\ refused' = FALSE)
    BY <2>1 DEF Update
  <2> QED BY <1>2, <2>2 DEF Pass, SetError, TypeOK
<1>5. TypeOK'
  BY <1>1, <1>2, <1>3, <1>4 DEF TypeOK, HandleEvent, streamVars
<1> QED BY <1>1, <1>2, <1>5

(* An event is handled: the failure covers the history, and the throttle.   *)
LEMMA HandleIInv ==
    ASSUME IInv, HandleEvent, MIN = 0
    PROVE  IInv'
<1>1. /\ TypeOK' /\ accelValue' \in Int
      /\ \A p \in Pedals : state'[p] = "init" => state[p] = "init"
  BY HandleTypes DEF IInv
<1>2. plausFailed' => \A p \in Pedals : state'[p] # "init"
  BY <1>1 DEF HandleEvent, Update, IInv, Covered, SetError
<1>3. latched' => plausFailed'
  <2>1. Latch /\ Update
    BY DEF HandleEvent
  <2>2. MAX \in Int /\ 0 < MAX
    BY AccelAssumption
  <2>3. /\ Pressed(accelValue') <=> Past(25, accelValue')
        /\ Released(accelValue') <=> ~Past(5, accelValue')
        /\ Past(25, accelValue') => Past(5, accelValue')
    BY <1>1, <2>2, Thresholds
  <2> QED BY <1>1, <2>1, <2>3
        DEF Latch, BothPressed, Update, Plausibility, IInv, TypeOK, Covered
<1>4. /\ error' # "none" => throttle' = 0
      /\ plausFailed' /\ ~refused' => throttle' \in {0, NoValue}
  <2> USE <1>1, <1>2 DEF IInv, TypeOK, Covered
  <2>1. Update
    BY DEF HandleEvent
  <2>2. CASE \E p \in Pedals : state'[p] = "init"
    BY <2>1, <2>2 DEF Update
  <2>3. CASE (~\E p \in Pedals : state'[p] = "init") /\ (\E p \in Pedals : state'[p] = "err")
    BY <2>1, <2>3 DEF Update, SetError
  <2>4. CASE (~\E p \in Pedals : state'[p] = "init") /\ (~\E p \in Pedals : state'[p] = "err")
    <3>1. Plausibility /\ IF plausFailed' THEN SetError("plaus") ELSE Pass
      BY <2>1, <2>4 DEF Update
    <3>2. CASE plausFailed'
      BY <3>1, <3>2 DEF SetError
    <3>3. CASE ~plausFailed'
      BY <3>1, <3>3 DEF Pass
    <3> QED BY <3>2, <3>3
  <2> QED BY <2>2, <2>3, <2>4
<1>5. Covered'
  BY <1>2, <1>3, <1>4 DEF Covered, NoThrottle
<1> QED BY <1>1, <1>5 DEF IInv

(* No throttle after both pedals have been pressed, until the accelerator   *)
(* is released (nturt,accel.yaml, rule EV4.7), and the types.               *)
THEOREM NoThrottleWhileLatchedHolds ==
    ASSUME MIN = 0
    PROVE  Spec => [](TypeOK /\ NoThrottleWhileLatched)
<1>1. Init => IInv
  BY InitIInv
<1>2. IInv /\ [Next]_vars => IInv'
  <2> SUFFICES ASSUME IInv, [Next]_vars PROVE IInv'
    OBVIOUS
  <2>1. CASE AccelReports \/ BrakeReports
    BY <2>1, ReportsIInv
  <2>2. CASE HandleEvent
    BY <2>2, HandleIInv
  <2>3. CASE UNCHANGED vars
    BY <2>3 DEF vars, streamVars, pedalVars, reportVars, IInv, TypeOK, Covered, NoThrottle
  <2> QED BY <2>1, <2>2, <2>3 DEF Next
<1>3. IInv => TypeOK /\ NoThrottleWhileLatched
  BY DEF IInv, Covered, NoThrottleWhileLatched
<1> QED BY <1>1, <1>2, <1>3, PTL DEF Spec

-----------------------------------------------------------------------------
(* What the device has heard of the pedals. *)

(* No event of a pedal is among some of the queue. *)
Silent(q, m, n, p) == \A i \in m..n : q[i].pedal # p

(* The queue, handled to its end, brings the device up to date with the     *)
(* stream of a pedal; and a clearance follows an error.                     *)
LastTells(q, p, inErr, last) ==
    \A i \in 1..Len(q) : q[i].pedal = p /\ Silent(q, i + 1, Len(q), p) =>
      /\ inErr <=> q[i].type = "error"
      /\ last = IF q[i].type = "value" THEN q[i].value ELSE NoValue
StateTells(q, p, s, inErr, last) ==
    Silent(q, 1, Len(q), p) =>
      /\ inErr => s = "err"
      /\ last # NoValue <=> s = "normal"
ClearsErrors(q, p, s) ==
    \A i \in 1..Len(q) : q[i].pedal = p /\ q[i].type = "clear" =>
      /\ Silent(q, 1, i - 1, p) => s = "err"
      /\ \A j \in 1..i - 1 : q[j].pedal = p /\ Silent(q, j + 1, i - 1, p) => q[j].type = "error"
Replays(q, p, s, inErr, last) ==
    LastTells(q, p, inErr, last) /\ StateTells(q, p, s, inErr, last) /\ ClearsErrors(q, p, s)

Heard ==
    /\ Replays(queue, "accel", state["accel"], accelInError, accelLast)
    /\ Replays(queue, "brake", state["brake"], brakeInError, brakeLast)
    /\ (accelInError => accelLast = NoValue) /\ (brakeInError => brakeLast = NoValue)
    /\ Silent(queue, 1, Len(queue), "accel") /\ accelLast # NoValue => accelValue = accelLast

(* What the throttle is, by what the device knows. *)
Normal == \A p \in Pedals : state[p] = "normal"
ThrottleKept ==
    /\ error # "none" => throttle = 0
    /\ prevOut # NoValue => throttle = prevOut
    /\ (\E p \in Pedals : state[p] = "init") => NoThrottle
    /\ ~refused /\ ~Normal => NoThrottle
    /\ ~refused /\ ~plausFailed /\ Normal => throttle = accelValue

HInv == TypeOK /\ Heard /\ ThrottleKept

(* An event behind the queue. *)
LEMMA Behind ==
    ASSUME NEW q \in Seq(Events), NEW e \in Events
    PROVE  /\ Len(q) \in Nat /\ Len(Append(q, e)) = Len(q) + 1
           /\ \A i \in 1..Len(q) : Append(q, e)[i] = q[i]
           /\ Append(q, e)[Len(q) + 1] = e
OBVIOUS

(* Another pedal's event changes nothing for this one. *)
LEMMA OtherEnqueued ==
    ASSUME NEW q \in Seq(Events), NEW e \in Events, NEW p, e.pedal # p,
           NEW s, NEW inErr, NEW last, Replays(q, p, s, inErr, last)
    PROVE  Replays(Append(q, e), p, s, inErr, last)
<1> DEFINE r == Append(q, e)
<1>1. /\ Len(q) \in Nat /\ Len(r) = Len(q) + 1
      /\ \A i \in 1..Len(q) : r[i] = q[i]
      /\ r[Len(q) + 1] = e
  BY Behind
<1> HIDE DEF r
<1>2. \A m \in Nat \ {0} : Silent(r, m, Len(r), p) => Silent(q, m, Len(q), p)
  BY <1>1 DEF Silent
<1>3. \A m \in Nat \ {0}, n \in 0..Len(q) : Silent(r, m, n, p) <=> Silent(q, m, n, p)
  BY <1>1 DEF Silent
<1>4. \A i \in 1..Len(r) : r[i].pedal = p => i \in 1..Len(q)
  BY <1>1
<1>5. LastTells(r, p, inErr, last)
  <2> SUFFICES ASSUME NEW i \in 1..Len(r), r[i].pedal = p, Silent(r, i + 1, Len(r), p)
               PROVE  /\ inErr <=> r[i].type = "error"
                      /\ last = IF r[i].type = "value" THEN r[i].value ELSE NoValue
    BY DEF LastTells
  <2>1. i \in 1..Len(q) /\ r[i] = q[i] /\ Silent(q, i + 1, Len(q), p)
    BY <1>1, <1>2, <1>4
  <2> QED BY <2>1 DEF Replays, LastTells
<1>6. StateTells(r, p, s, inErr, last)
  BY <1>2 DEF Replays, StateTells
<1>7. ClearsErrors(r, p, s)
  <2> SUFFICES ASSUME NEW i \in 1..Len(r), r[i].pedal = p, r[i].type = "clear"
               PROVE  /\ Silent(r, 1, i - 1, p) => s = "err"
                      /\ \A j \in 1..i - 1 :
                           r[j].pedal = p /\ Silent(r, j + 1, i - 1, p) => r[j].type = "error"
    BY DEF ClearsErrors
  <2>1. i \in 1..Len(q) /\ r[i] = q[i] /\ i - 1 \in 0..Len(q)
    BY <1>1, <1>4
  <2>2. Silent(r, 1, i - 1, p) <=> Silent(q, 1, i - 1, p)
    BY <1>3, <2>1
  <2>3. \A j \in 1..i - 1 : r[j] = q[j] /\ (Silent(r, j + 1, i - 1, p) <=> Silent(q, j + 1, i - 1, p))
    BY <1>1, <1>3, <2>1
  <2> QED BY <2>1, <2>2, <2>3 DEF Replays, ClearsErrors
<1> QED BY <1>5, <1>6, <1>7 DEF Replays, r

(* The pedal's own event is its last one. *)
LEMMA OwnEnqueued ==
    ASSUME NEW q \in Seq(Events), NEW e \in Events, NEW p, e.pedal = p,
           NEW s, NEW inErr, NEW last, Replays(q, p, s, inErr, last),
           NEW inErr2, NEW last2,
           inErr2 <=> e.type = "error",
           last2 = IF e.type = "value" THEN e.value ELSE NoValue,
           e.type = "clear" => inErr
    PROVE  Replays(Append(q, e), p, s, inErr2, last2)
<1> DEFINE r == Append(q, e)
           n == Len(q) + 1
<1>1. /\ Len(q) \in Nat /\ Len(r) = n /\ n \in Nat
      /\ \A i \in 1..Len(q) : r[i] = q[i]
      /\ r[n] = e
  BY Behind
<1> HIDE DEF r
<1>2. \A i \in 1..Len(q) : ~Silent(r, i + 1, Len(r), p)
  BY <1>1 DEF Silent
<1>3. \A i \in 1..Len(r) : i = n \/ i \in 1..Len(q)
  BY <1>1
<1>4. \A k \in Nat \ {0}, m \in 0..Len(q) : Silent(r, k, m, p) <=> Silent(q, k, m, p)
  BY <1>1 DEF Silent
<1>5. LastTells(r, p, inErr2, last2)
  BY <1>1, <1>2, <1>3 DEF LastTells
<1>6. StateTells(r, p, s, inErr2, last2)
  BY <1>1 DEF StateTells, Silent
<1>7. ClearsErrors(r, p, s)
  <2> SUFFICES ASSUME NEW i \in 1..Len(r), r[i].pedal = p, r[i].type = "clear"
               PROVE  /\ Silent(r, 1, i - 1, p) => s = "err"
                      /\ \A j \in 1..i - 1 :
                           r[j].pedal = p /\ Silent(r, j + 1, i - 1, p) => r[j].type = "error"
    BY DEF ClearsErrors
  <2>1. i - 1 \in 0..Len(q) /\ \A j \in 1..i - 1 : j \in 1..Len(q) /\ r[j] = q[j]
    BY <1>1, <1>3
  <2>2. /\ Silent(r, 1, i - 1, p) <=> Silent(q, 1, i - 1, p)
        /\ \A j \in 1..i - 1 : Silent(r, j + 1, i - 1, p) <=> Silent(q, j + 1, i - 1, p)
    BY <1>4, <2>1
  <2>3. CASE i \in 1..Len(q)
    BY <1>1, <2>1, <2>2, <2>3 DEF Replays, ClearsErrors
  <2>4. CASE i = n
    <3>1. inErr /\ i - 1 = Len(q)
      BY <1>1, <2>4
    <3>2. Silent(q, 1, i - 1, p) => s = "err"
      BY <3>1 DEF Replays, StateTells
    <3>3. \A j \in 1..i - 1 : q[j].pedal = p /\ Silent(q, j + 1, i - 1, p) => q[j].type = "error"
      BY <2>1, <3>1 DEF Replays, LastTells
    <3> QED BY <2>1, <2>2, <3>2, <3>3
  <2> QED BY <1>3, <2>3, <2>4
<1> QED BY <1>5, <1>6, <1>7 DEF Replays, r

(* Handling the first event brings the state of its pedal along. *)
LEMMA Dequeued ==
    ASSUME NEW q \in Seq(Events), q # <<>>, NEW p, NEW s, NEW inErr, NEW last,
           p = "accel" => NoValue \notin AccelValues, p = "brake" => NoValue \notin BrakeValues,
           Replays(q, p, s, inErr, last), NEW s2,
           q[1].pedal # p => s2 = s,
           q[1].pedal = p => s2 = CASE q[1].type = "value" -> "normal"
                                    [] q[1].type = "error" -> "err"
                                    [] OTHER -> s
    PROVE  Replays(Tail(q), p, s2, inErr, last)
<1> DEFINE r == Tail(q)
<1>1. /\ Len(q) \in Nat \ {0} /\ Len(r) = Len(q) - 1
      /\ \A i \in 1..Len(q) - 1 : r[i] = q[i + 1]
      /\ 1 \in 1..Len(q) /\ q[1] \in Events
  OBVIOUS
<1> HIDE DEF r
<1>2. \A m, n \in Int : 1 <= m /\ n <= Len(q) - 1 => (Silent(r, m, n, p) <=> Silent(q, m + 1, n + 1, p))
  <2> SUFFICES ASSUME NEW m \in Int, NEW n \in Int, 1 <= m, n <= Len(q) - 1
               PROVE  Silent(r, m, n, p) <=> Silent(q, m + 1, n + 1, p)
    OBVIOUS
  <2>1. \A i \in m..n : r[i] = q[i + 1] /\ i + 1 \in m + 1..n + 1
    BY <1>1
  <2>2. \A i \in m + 1..n + 1 : i - 1 \in m..n /\ r[i - 1] = q[i]
    BY <1>1
  <2> QED BY <2>1, <2>2 DEF Silent
<1>3. LastTells(r, p, inErr, last)
  <2> SUFFICES ASSUME NEW i \in 1..Len(r), r[i].pedal = p, Silent(r, i + 1, Len(r), p)
               PROVE  /\ inErr <=> r[i].type = "error"
                      /\ last = IF r[i].type = "value" THEN r[i].value ELSE NoValue
    BY DEF LastTells
  <2>1. i + 1 \in 1..Len(q) /\ r[i] = q[i + 1] /\ Silent(q, (i + 1) + 1, Len(q), p)
    BY <1>1, <1>2
  <2> QED BY <2>1 DEF Replays, LastTells
<1>4. StateTells(r, p, s2, inErr, last)
  <2> SUFFICES ASSUME Silent(r, 1, Len(r), p)
               PROVE  (inErr => s2 = "err") /\ (last # NoValue <=> s2 = "normal")
    BY DEF StateTells
  <2>1. Silent(q, 2, Len(q), p)
    BY <1>1, <1>2
  <2>2. CASE q[1].pedal # p
    <3>1. Silent(q, 1, Len(q), p)
      BY <1>1, <2>1, <2>2 DEF Silent
    <3> QED BY <2>2, <3>1 DEF Replays, StateTells
  <2>3. CASE q[1].pedal = p
    <3>1. /\ inErr <=> q[1].type = "error"
          /\ last = IF q[1].type = "value" THEN q[1].value ELSE NoValue
      BY <1>1, <2>1, <2>3 DEF Replays, LastTells
    <3>2. q[1].type = "clear" => s = "err"
      BY <1>1, <2>3 DEF Replays, ClearsErrors, Silent
    <3>3. q[1].type \in {"value", "error", "clear"} /\ (q[1].type = "value" => q[1].value # NoValue)
      BY <1>1, <2>3 DEF Events, Pedals
    <3> QED BY <2>3, <3>1, <3>2, <3>3
  <2> QED BY <2>2, <2>3
<1>5. ClearsErrors(r, p, s2)
  <2> SUFFICES ASSUME NEW i \in 1..Len(r), r[i].pedal = p, r[i].type = "clear"
               PROVE  /\ Silent(r, 1, i - 1, p) => s2 = "err"
                      /\ \A j \in 1..i - 1 :
                           r[j].pedal = p /\ Silent(r, j + 1, i - 1, p) => r[j].type = "error"
    BY DEF ClearsErrors
  <2>1. i + 1 \in 1..Len(q) /\ r[i] = q[i + 1] /\ (i + 1) - 1 = i /\ (i - 1) + 1 = i
    BY <1>1
  <2>2. /\ Silent(q, 1, i, p) => s = "err"
        /\ \A j \in 1..i : q[j].pedal = p /\ Silent(q, j + 1, i, p) => q[j].type = "error"
    BY <2>1 DEF Replays, ClearsErrors
  <2>3. ASSUME Silent(r, 1, i - 1, p) PROVE s2 = "err"
    <3>1. Silent(q, 2, i, p)
      BY <1>1, <1>2, <2>1, <2>3
    <3>2. CASE q[1].pedal # p
      <4>1. Silent(q, 1, i, p)
        BY <3>1, <3>2 DEF Silent
      <4> QED BY <2>2, <3>2, <4>1
    <3>3. CASE q[1].pedal = p
      <4>1. q[1].type = "error"
        BY <1>1, <2>2, <3>1, <3>3
      <4> QED BY <3>3, <4>1
    <3> QED BY <3>2, <3>3
  <2>4. ASSUME NEW j \in 1..i - 1, r[j].pedal = p, Silent(r, j + 1, i - 1, p)
        PROVE  r[j].type = "error"
    <3>1. j + 1 \in 1..i /\ r[j] = q[j + 1]
      <4>1. j \in 1..Len(q) - 1 /\ j + 1 \in 1..i
        BY <1>1
      <4> QED BY <1>1, <4>1
    <3>2. j + 1 \in Int /\ i - 1 \in Int /\ 1 <= j + 1 /\ i - 1 <= Len(q) - 1
      BY <1>1
    <3>3. Silent(q, (j + 1) + 1, (i - 1) + 1, p)
      BY <1>2, <2>4, <3>2
    <3> QED BY <2>1, <2>2, <2>4, <3>1, <3>3
  <2> QED BY <2>3, <2>4
<1> QED BY <1>3, <1>4, <1>5 DEF Replays, r

(* The initial states. *)
LEMMA InitHInv == Init => HInv
<1> SUFFICES ASSUME Init PROVE HInv
  OBVIOUS
<1>1. TypeOK
  BY InitIInv DEF IInv
<1>2. queue = <<>> /\ Len(queue) = 0
  BY DEF Init
<1>3. Heard
  BY <1>2 DEF Init, AccelAxis!Init, BrakeAxis!Init, Heard, Replays, LastTells, StateTells,
              ClearsErrors, Pedals
<1>4. ThrottleKept
  BY DEF Init, ThrottleKept, NoThrottle, Normal, Pedals
<1> QED BY <1>1, <1>3, <1>4 DEF HInv

(* A report of a channel. *)
LEMMA AccelReportsHInv ==
    ASSUME HInv, AccelReports
    PROVE  HInv'
<1> USE DEF HInv
<1>1. TypeOK' /\ queue \in Seq(Events)
  BY ReportsTypes DEF TypeOK
<1>2. UNCHANGED <<pedalVars, plausFailed, reportVars, latched, brakeInError, brakeLast>>
  BY DEF AccelReports, Enqueue
<1>3. PICK e \in Events :
        /\ queue' = Append(queue, e) /\ e.pedal = "accel"
        /\ accelInError' <=> e.type = "error"
        /\ accelLast' = IF e.type = "value" THEN e.value ELSE NoValue
        /\ e.type = "clear" => accelInError
        /\ accelInError' => accelLast' = NoValue
  <2>1. CASE AccelAxis!Output /\ Enqueue(Event("accel", "value", accelLast'))
    <3>1. accelLast' \in AccelValues /\ ~accelInError' /\ Event("accel", "value", accelLast') \in Events
      BY <2>1 DEF AccelAxis!Output, Events, Event, Pedals
    <3> QED BY <2>1, <3>1 DEF Enqueue, Event
  <2>2. CASE AccelAxis!SetError /\ Enqueue(Event("accel", "error", 0))
    <3>1. accelLast' = NoValue /\ accelInError' /\ Event("accel", "error", 0) \in Events
      BY <2>2 DEF AccelAxis!SetError, Events, Event, Pedals
    <3> QED BY <2>2, <3>1 DEF Enqueue, Event
  <2>3. CASE AccelAxis!ClearError /\ Enqueue(Event("accel", "clear", 0))
    <3>1. accelInError /\ ~accelInError' /\ accelLast' = accelLast
          /\ Event("accel", "clear", 0) \in Events
      BY <2>3 DEF AccelAxis!ClearError, Events, Event, Pedals
    <3>2. accelLast = NoValue
      BY <3>1 DEF Heard
    <3> QED BY <2>3, <3>1, <3>2 DEF Enqueue, Event
  <2> QED BY <2>1, <2>2, <2>3 DEF AccelReports
<1>4. Replays(queue', "accel", state'["accel"], accelInError', accelLast')
  BY <1>1, <1>2, <1>3, OwnEnqueued DEF Heard, pedalVars
<1>5. Replays(queue', "brake", state'["brake"], brakeInError', brakeLast')
  BY <1>1, <1>2, <1>3, OtherEnqueued DEF Heard, pedalVars
<1>6. ~Silent(queue', 1, Len(queue'), "accel")
  BY <1>1, <1>3, Behind DEF Silent
<1>7. ThrottleKept'
  BY <1>2 DEF ThrottleKept, NoThrottle, Normal, pedalVars, reportVars
<1> QED BY <1>1, <1>2, <1>3, <1>4, <1>5, <1>6, <1>7 DEF Heard

(* The same for the brake. *)
LEMMA BrakeReportsHInv ==
    ASSUME HInv, BrakeReports
    PROVE  HInv'
<1> USE DEF HInv
<1>1. TypeOK' /\ queue \in Seq(Events)
  BY ReportsTypes DEF TypeOK
<1>2. UNCHANGED <<pedalVars, plausFailed, reportVars, latched, accelInError, accelLast>>
  BY DEF BrakeReports, Enqueue
<1>3. PICK e \in Events :
        /\ queue' = Append(queue, e) /\ e.pedal = "brake"
        /\ brakeInError' <=> e.type = "error"
        /\ brakeLast' = IF e.type = "value" THEN e.value ELSE NoValue
        /\ e.type = "clear" => brakeInError
        /\ brakeInError' => brakeLast' = NoValue
  <2>1. CASE BrakeAxis!Output /\ Enqueue(Event("brake", "value", brakeLast'))
    <3>1. brakeLast' \in BrakeValues /\ ~brakeInError' /\ Event("brake", "value", brakeLast') \in Events
      BY <2>1 DEF BrakeAxis!Output, Events, Event, Pedals
    <3> QED BY <2>1, <3>1 DEF Enqueue, Event
  <2>2. CASE BrakeAxis!SetError /\ Enqueue(Event("brake", "error", 0))
    <3>1. brakeLast' = NoValue /\ brakeInError' /\ Event("brake", "error", 0) \in Events
      BY <2>2 DEF BrakeAxis!SetError, Events, Event, Pedals
    <3> QED BY <2>2, <3>1 DEF Enqueue, Event
  <2>3. CASE BrakeAxis!ClearError /\ Enqueue(Event("brake", "clear", 0))
    <3>1. brakeInError /\ ~brakeInError' /\ brakeLast' = brakeLast
          /\ Event("brake", "clear", 0) \in Events
      BY <2>3 DEF BrakeAxis!ClearError, Events, Event, Pedals
    <3>2. brakeLast = NoValue
      BY <3>1 DEF Heard
    <3> QED BY <2>3, <3>1, <3>2 DEF Enqueue, Event
  <2> QED BY <2>1, <2>2, <2>3 DEF BrakeReports
<1>4. Replays(queue', "brake", state'["brake"], brakeInError', brakeLast')
  BY <1>1, <1>2, <1>3, OwnEnqueued DEF Heard, pedalVars
<1>5. Replays(queue', "accel", state'["accel"], accelInError', accelLast')
  BY <1>1, <1>2, <1>3, OtherEnqueued DEF Heard, pedalVars
<1>6. Silent(queue', 1, Len(queue'), "accel") => Silent(queue, 1, Len(queue), "accel")
  BY <1>1, <1>3, Behind DEF Silent
<1>7. ThrottleKept'
  BY <1>2 DEF ThrottleKept, NoThrottle, Normal, pedalVars, reportVars
<1> QED BY <1>1, <1>2, <1>3, <1>4, <1>5, <1>6, <1>7 DEF Heard, pedalVars

(* An event is handled: what the device has heard, and the throttle. *)
LEMMA HandleHInv ==
    ASSUME HInv, HandleEvent
    PROVE  HInv'
<1> USE DEF HInv
<1>1. /\ TypeOK' /\ accelValue' \in Int
      /\ \A p \in Pedals : state'[p] = "init" => state[p] = "init"
  BY HandleTypes
<1>2. /\ queue \in Seq(Events) /\ queue # <<>> /\ queue' = Tail(queue)
      /\ UNCHANGED streamVars /\ Callback(queue[1]) /\ Update
      /\ queue[1] \in Events /\ 1 \in 1..Len(queue) /\ Len(queue) \in Nat
  <2>1. queue \in Seq(Events) /\ queue # <<>>
    BY DEF HandleEvent, TypeOK
  <2>2. Head(queue) = queue[1] /\ queue[1] \in Events /\ 1 \in 1..Len(queue)
    BY <2>1
  <2> QED BY <2>1, <2>2 DEF HandleEvent
<1>3. Heard'
  <2> DEFINE e == queue[1]
  <2>1. /\ e.pedal \in Pedals /\ state \in [Pedals -> {"init", "normal", "err"}]
        /\ state' = [state EXCEPT ![e.pedal] = CASE e.type = "value" -> "normal"
                                                 [] e.type = "error" -> "err"
                                                 [] OTHER -> @]
    BY <1>2 DEF Callback, Events, Pedals, TypeOK
  <2>2. \A p \in Pedals :
          /\ e.pedal # p => state'[p] = state[p]
          /\ e.pedal = p => state'[p] = CASE e.type = "value" -> "normal"
                                          [] e.type = "error" -> "err"
                                          [] OTHER -> state[p]
    BY <2>1
  <2>3. "accel" \in Pedals /\ "brake" \in Pedals /\ NoValue \notin AccelValues \cup BrakeValues
    BY AccelAssumption DEF Pedals
  <2>4. Replays(queue', "accel", state'["accel"], accelInError, accelLast)
    BY <1>2, <2>2, <2>3, Dequeued DEF Heard
  <2>5. Replays(queue', "brake", state'["brake"], brakeInError, brakeLast)
    BY <1>2, <2>2, <2>3, Dequeued DEF Heard
  <2>6. ASSUME Silent(queue', 1, Len(queue'), "accel"), accelLast # NoValue
        PROVE  accelValue' = accelLast
    <3>1. /\ Len(queue') = Len(queue) - 1
          /\ \A i \in 2..Len(queue) : i - 1 \in 1..Len(queue) - 1 /\ queue'[i - 1] = queue[i]
      BY <1>2
    <3>2. Silent(queue, 2, Len(queue), "accel")
      BY <2>6, <3>1 DEF Silent
    <3>3. CASE e.pedal = "accel"
      <4>1. /\ accelLast = IF e.type = "value" THEN e.value ELSE NoValue
        BY <1>2, <3>2, <3>3 DEF Heard, Replays, LastTells
      <4> QED BY <1>2, <2>6, <3>3, <4>1 DEF Callback
    <3>4. CASE e.pedal # "accel"
      <4>1. Silent(queue, 1, Len(queue), "accel")
        BY <1>2, <3>2, <3>4 DEF Silent
      <4> QED BY <1>2, <2>6, <3>4, <4>1 DEF Callback, Heard
    <3> QED BY <3>3, <3>4
  <2> QED BY <1>2, <2>4, <2>5, <2>6 DEF Heard, streamVars
<1>4. ThrottleKept'
  <2>1. NoValue # 0 /\ accelValue' # NoValue
    BY <1>1, AccelAssumption DEF TypeOK
  <2>2. CASE \E p \in Pedals : state'[p] = "init"
    <3>1. UNCHANGED <<plausFailed, error, prevOut, throttle>> /\ refused' = FALSE
      BY <1>2, <2>2 DEF Update
    <3>2. NoThrottle /\ ~Normal'
      BY <1>1, <2>2 DEF ThrottleKept, Normal
    <3> QED BY <3>1, <3>2 DEF ThrottleKept, NoThrottle
  <2>3. CASE (~\E p \in Pedals : state'[p] = "init") /\ (\E p \in Pedals : state'[p] = "err")
    <3>1. SetError("io") /\ ~Normal'
      BY <1>2, <2>3 DEF Update, Normal
    <3> QED BY <2>1, <2>3, <3>1 DEF SetError, ThrottleKept, NoThrottle
  <2>4. CASE ~\E p \in Pedals : state'[p] \in {"init", "err"}
    <3>1. Normal' /\ (IF plausFailed' THEN SetError("plaus") ELSE Pass)
      BY <1>1, <1>2, <2>4 DEF Update, Normal, TypeOK
    <3>2. CASE plausFailed'
      BY <2>1, <2>4, <3>1, <3>2 DEF SetError, ThrottleKept, NoThrottle
    <3>3. CASE ~plausFailed'
      BY <2>1, <2>4, <3>1, <3>3 DEF Pass, ThrottleKept, NoThrottle
    <3> QED BY <3>2, <3>3
  <2> QED BY <2>2, <2>3, <2>4
<1> QED BY <1>1, <1>3, <1>4

(* Once the queue is empty the device knows the streams. *)
LEMMA UpToDate ==
    ASSUME HInv, queue = <<>>
    PROVE  /\ accelLast # NoValue <=> state["accel"] = "normal"
           /\ brakeLast # NoValue <=> state["brake"] = "normal"
           /\ accelLast # NoValue => accelValue = accelLast
<1>1. \A p \in Pedals : Silent(queue, 1, Len(queue), p)
  BY DEF Silent
<1> QED BY <1>1 DEF HInv, Heard, Replays, StateTells, Pedals

(* Every state satisfies what has been heard, whatever MIN is. *)
THEOREM HeardHolds == Spec => []HInv
<1>1. HInv /\ [Next]_vars => HInv'
  <2> SUFFICES ASSUME HInv, [Next]_vars PROVE HInv'
    OBVIOUS
  <2>1. CASE Next
    BY <2>1, AccelReportsHInv, BrakeReportsHInv, HandleHInv DEF Next
  <2>2. CASE UNCHANGED vars
    BY <2>2 DEF vars, streamVars, pedalVars, reportVars, HInv, TypeOK, Heard, ThrottleKept,
                NoThrottle, Normal
  <2> QED BY <2>1, <2>2
<1> QED BY <1>1, InitHInv, PTL DEF Spec

(* Once its events have been handled, a pedal that has reported no value    *)
(* since its last error, or since boot, leaves no throttle (accel.c,        *)
(* update()).                                                               *)
THEOREM NoThrottleWithoutPedalHolds == Spec => []NoThrottleWithoutPedal
<1>1. HInv => NoThrottleWithoutPedal
  BY UpToDate DEF NoThrottleWithoutPedal, HInv, ThrottleKept, Normal, Pedals
<1> QED BY <1>1, HeardHolds, PTL

(* Once its events have been handled, and with nothing against it, the      *)
(* throttle is the accelerator's last value.                                *)
THEOREM ThrottleFollowsHolds == Spec => []ThrottleFollows
<1>1. HInv => ThrottleFollows
  BY UpToDate DEF ThrottleFollows, HInv, ThrottleKept, Normal, Pedals
<1> QED BY <1>1, HeardHolds, PTL

-----------------------------------------------------------------------------
(* The clocks.                                                             *)

(* While a time message is being dealt with, the system clock is at it, and *)
(* so is gmtime()'s result from the conversion on unless it was overwritten. *)
Setting ==
    /\ setting # Unset => initialized /\ ~set /\ clock = setting
    /\ converted => setting # Unset
    /\ converted /\ ~crossed => tm = setting

ClockInv ==
    /\ initialized \in BOOLEAN /\ set \in BOOLEAN /\ converted \in BOOLEAN
    /\ rtcRefused \in BOOLEAN /\ crossed \in BOOLEAN
    /\ ~initialized => ~set
    /\ Setting
    /\ ClocksAgree

(* Each step of time_cb(), of get_fattime() and of the initialisation keeps *)
(* the invariant; a restart leaves nothing but the real-time clock.         *)
LEMMA ClockStepKeeps ==
    ASSUME ClockInv, [ClockNext]_clockVars
    PROVE  ClockInv'
<1>1. CASE RtcInit
  BY <1>1 DEF ClockInv, Setting, ClocksAgree, RtcInit, RtcFails
<1>2. ASSUME NEW e \in Epochs, TimeCb(e)
      PROVE  ClockInv'
  BY <1>2, ClockAssumption DEF ClockInv, Setting, ClocksAgree, TimeCb
<1>3. CASE Convert
  BY <1>3 DEF ClockInv, Setting, ClocksAgree, Convert
<1>4. CASE RtcSetTime
  <2>1. CASE rtc' = tm /\ set' = TRUE /\ rtcRefused' = FALSE
    <3>1. initialized' = initialized /\ clock' = clock /\ crossed' = crossed
          /\ converted' = FALSE /\ setting' = Unset
      BY <1>4 DEF RtcSetTime
    <3>2. initialized = TRUE /\ (~crossed => rtc' = clock')
      BY <1>4, <2>1, <3>1 DEF RtcSetTime, ClockInv, Setting
    <3>3. QED
      BY <2>1, <3>1, <3>2 DEF ClockInv, Setting, ClocksAgree
  <2>2. CASE rtcRefused' = TRUE /\ UNCHANGED <<rtc, set>>
    BY <1>4, <2>2 DEF ClockInv, Setting, ClocksAgree, RtcSetTime
  <2>3. QED
    BY <1>4, <2>1, <2>2 DEF RtcSetTime
<1>5. CASE FatGetTime
  BY <1>5 DEF ClockInv, Setting, ClocksAgree, FatGetTime
<1>6. CASE FatConvert
  BY <1>6 DEF ClockInv, Setting, ClocksAgree, FatConvert
<1>7. CASE Restart
  BY <1>7 DEF ClockInv, Setting, ClocksAgree, Restart
<1>8. CASE UNCHANGED clockVars
  BY <1>8 DEF ClockInv, Setting, ClocksAgree, clockVars
<1>9. QED
  BY <1>1, <1>2, <1>3, <1>4, <1>5, <1>6, <1>7, <1>8 DEF ClockNext, ClockStep

(* Whatever the real-time clock refuses, whenever threads stamp files and   *)
(* however often the system restarts: the clocks agree when nobody sets     *)
(* them, and time_cb() takes no time for set that was refused.              *)
THEOREM ClocksAgreeHolds == ClockInit /\ [][ClockNext]_clockVars => []ClocksAgree
<1>1. ClockInit => ClockInv
  BY DEF ClockInit, ClockInv, Setting, ClocksAgree
<1>2. ClockInv /\ [ClockNext]_clockVars => ClockInv'
  BY ClockStepKeeps
<1>3. ClockInv => ClocksAgree
  BY DEF ClockInv
<1>4. QED
  BY <1>1, <1>2, <1>3, PTL

-----------------------------------------------------------------------------
(* The wheel speed driver.                                                 *)

HallTypes ==
    /\ now \in 0..(Cycles - 1) /\ cycle \in 0..(Cycles - 1)
    /\ sampling_int \in 1..(Cycles - 1) /\ left \in 0..(Cycles - 1)
    /\ count \in Nat /\ clearing \in BOOLEAN /\ restarting \in BOOLEAN
    /\ actual \in [pulses : Nat, lost : Nat, cycles : Nat, mixed : BOOLEAN]

(* What has been counted is what came since the last reading, but for what  *)
(* came before the count was zeroed.                                        *)
Counted ==
    IF clearing THEN actual.pulses = actual.lost ELSE count + actual.lost = actual.pulses

(* The timer expires before the counter can come round to where it was      *)
(* read, unless the interval was changed in between.                        *)
Timed ==
    /\ restarting => actual.mixed
    /\ ~actual.mixed =>
         /\ left + actual.cycles = sampling_int
         /\ now = cycle + actual.cycles \/ now = cycle + actual.cycles - Cycles

HallInv == HallTypes /\ Counted /\ Timed

(* Every step of the timer, the interrupt and attr_set() keeps it. *)
LEMMA HallStepKeeps ==
    ASSUME HallInv, [HallNext]_hallVars
    PROVE  HallInv'
<1> USE HallRpmAssumption
<1>1. CASE Tick
  <2>1. now' = IF now = Cycles - 1 THEN 0 ELSE now + 1
    BY <1>1 DEF Tick, HallInv, HallTypes
  <2>2. QED
    BY <1>1, <2>1 DEF Tick, HallInv, HallTypes, Counted, Timed
<1>2. CASE Pulse
  <2>1. /\ actual'.pulses = actual.pulses + 1 /\ actual'.cycles = actual.cycles
        /\ actual'.mixed = actual.mixed
        /\ actual'.lost = IF clearing THEN actual.lost + 1 ELSE actual.lost
        /\ actual' \in [pulses : Nat, lost : Nat, cycles : Nat, mixed : BOOLEAN]
    <3> DEFINE n == IF clearing THEN actual.lost + 1 ELSE actual.lost
    <3>1. n \in Nat
      BY DEF HallInv, HallTypes
    <3>2. actual' = [actual EXCEPT !.pulses = @ + 1, !.lost = n]
      BY <1>2 DEF Pulse
    <3> HIDE DEF n
    <3>3. /\ actual'.pulses = actual.pulses + 1 /\ actual'.cycles = actual.cycles
          /\ actual'.mixed = actual.mixed /\ actual'.lost = n
          /\ actual' \in [pulses : Nat, lost : Nat, cycles : Nat, mixed : BOOLEAN]
      <4>1. actual \in [pulses : Nat, lost : Nat, cycles : Nat, mixed : BOOLEAN]
        BY DEF HallInv, HallTypes
      <4>2. actual' = [pulses |-> actual.pulses + 1, lost |-> n,
                       cycles |-> actual.cycles, mixed |-> actual.mixed]
        BY <3>2, <4>1
      <4>3. actual.pulses \in Nat /\ actual.cycles \in Nat /\ actual.mixed \in BOOLEAN
        BY <4>1
      <4>4. QED
        BY <3>1, <4>2, <4>3
    <3>4. QED
      BY <3>3 DEF n
  <2>2. Counted'
    BY <1>2, <2>1 DEF Pulse, HallInv, HallTypes, Counted
  <2>3. HallTypes' /\ Timed'
    BY <1>2, <2>1 DEF Pulse, HallInv, HallTypes, Timed
  <2>4. QED
    BY <2>2, <2>3 DEF HallInv
<1>3. CASE TimerCb
  BY <1>3 DEF TimerCb, HallInv, HallTypes, Counted, Timed
<1>4. CASE ClearCount
  <2>1. Counted'
    BY <1>4 DEF ClearCount, HallInv, HallTypes, Counted
  <2>2. HallTypes' /\ Timed'
    BY <1>4 DEF ClearCount, HallInv, HallTypes, Timed
  <2>3. QED
    BY <2>1, <2>2 DEF HallInv
<1>5. ASSUME NEW i \in Intervals, AttrSet(i)
      PROVE  HallInv'
  <2>1. /\ actual'.pulses = actual.pulses /\ actual'.lost = actual.lost
        /\ actual'.mixed = TRUE
        /\ actual' \in [pulses : Nat, lost : Nat, cycles : Nat, mixed : BOOLEAN]
    BY <1>5 DEF AttrSet, HallInv, HallTypes
  <2>2. Counted'
    BY <1>5, <2>1 DEF AttrSet, HallInv, HallTypes, Counted
  <2>3. HallTypes' /\ Timed'
    BY <1>5, <2>1 DEF AttrSet, HallInv, HallTypes, Timed
  <2>4. QED
    BY <2>2, <2>3 DEF HallInv
<1>6. CASE AttrCycle
  BY <1>6 DEF AttrCycle, HallInv, HallTypes, Counted, Timed
<1>7. CASE UNCHANGED hallVars
  BY <1>7 DEF hallVars, HallInv, HallTypes, Counted, Timed
<1>8. QED
  BY <1>1, <1>2, <1>3, <1>4, <1>5, <1>6, <1>7 DEF HallNext

(* The timer callback reads the pulses over the time they came in. *)
LEMMA ReadingTrue ==
    ASSUME HallInv, HallNext, ~clearing, clearing'
    PROVE  \/ reading' = [pulses |-> actual.pulses - actual.lost, cycles |-> actual.cycles]
           \/ actual.mixed \/ now < cycle
<1>1. TimerCb
  BY DEF HallNext, Tick, Pulse, ClearCount, AttrSet, AttrCycle
<1>2. reading' = [pulses |-> count, cycles |-> Elapsed]
  BY <1>1 DEF TimerCb
<1>3. count = actual.pulses - actual.lost
  BY DEF HallInv, HallTypes, Counted
<1>4. ~actual.mixed /\ ~(now < cycle) => Elapsed = actual.cycles
  BY HallRpmAssumption DEF HallInv, HallTypes, Timed, Elapsed
<1>5. QED
  BY <1>2, <1>3, <1>4

(* For every width of the counter and all sampling intervals that fit in    *)
(* it: a reading is true to the wheel, with the exceptions the property     *)
(* names.                                                                   *)
THEOREM RateTrueHolds == HallInit /\ [][HallNext]_hallVars => RateTrue
<1>1. ASSUME HallInit PROVE HallInv
  <2>1. actual.pulses = 0 /\ actual.lost = 0 /\ actual.cycles = 0 /\ actual.mixed = FALSE
    BY <1>1 DEF HallInit
  <2>2. Counted
    BY <1>1, <2>1 DEF HallInit, Counted
  <2>3. HallTypes
    <3>1. sampling_int \in 1..(Cycles - 1) /\ left = sampling_int
      BY <1>1, HallRpmAssumption DEF HallInit
    <3>2. now \in 0..(Cycles - 1) /\ cycle = now /\ count = 0
          /\ clearing \in BOOLEAN /\ restarting \in BOOLEAN
      BY <1>1 DEF HallInit
    <3>3. actual \in [pulses : Nat, lost : Nat, cycles : Nat, mixed : BOOLEAN]
      BY <1>1 DEF HallInit
    <3>4. QED
      BY <3>1, <3>2, <3>3, HallRpmAssumption DEF HallTypes
  <2>4. Timed
    BY <1>1, <2>1, <2>3 DEF HallInit, HallTypes, Timed
  <2>5. QED
    BY <2>2, <2>3, <2>4 DEF HallInv
<1>2. HallInv /\ [HallNext]_hallVars => HallInv'
  BY HallStepKeeps
<1>3. HallInv /\ [HallNext]_hallVars =>
        [~clearing /\ clearing' =>
           \/ reading' = [pulses |-> actual.pulses - actual.lost, cycles |-> actual.cycles]
           \/ actual.mixed \/ now < cycle]_hallVars
  BY ReadingTrue
<1>4. QED
  BY <1>1, <1>2, <1>3, PTL DEF RateTrue

-----------------------------------------------------------------------------
(* The generic sensing sensor.                                             *)

PhyTypes ==
    /\ stage \in [Reads -> {"free", "reading", "completed", "ok", "dropped"}]
    /\ outcome \in [Reads -> BOOLEAN]
    /\ taken \in Int /\ outTaken \in Int /\ gaveUp \in Int /\ overrun \in BOOLEAN

(* As long as there are entries for all reads under way, none is dropped.  *)
PhyInv ==
    /\ PhyTypes
    /\ BlocksAccounted
    /\ ~overrun => Cardinality(Underway) <= Entries

(* The size of a set of reads, and with one more or one less.               *)
LEMMA CountReads ==
    ASSUME NEW S \in SUBSET Reads, NEW r \in Reads
    PROVE  /\ Cardinality(S) \in Nat
           /\ r \notin S => Cardinality(S \cup {r}) = Cardinality(S) + 1
           /\ r \in S => Cardinality(S \ {r}) = Cardinality(S) - 1
<1>1. IsFiniteSet(S)
  BY PhyGenericAssumption, FS_Subset
<1>2. QED
  BY <1>1, FS_CardinalityType, FS_AddElement, FS_RemoveElement

(* A read that is submitted is one more under way.                          *)
LEMMA PhySubmitKeeps ==
    ASSUME PhyInv, NEW r \in Reads, PhySubmit(r)
    PROVE  PhyInv'
<1>1. /\ stage[r] = "free" /\ stage' = [stage EXCEPT ![r] = "reading"]
      /\ overrun' = (overrun \/ Cardinality(Underway) >= Entries)
      /\ UNCHANGED <<outcome, taken, outTaken, gaveUp>>
  BY DEF PhySubmit
<1>2. PhyTypes /\ PhyTypes'
  BY <1>1 DEF PhyInv, PhyTypes
<1>3. At("ok")' = At("ok") /\ At("dropped")' = At("dropped") /\ ToDecode' = ToDecode
  BY <1>1, <1>2 DEF PhyTypes, At, ToDecode
<1>4. Underway' = Underway \cup {r} /\ r \notin Underway
  BY <1>1, <1>2 DEF PhyTypes, Underway
<1>5. Cardinality(Underway') = Cardinality(Underway) + 1 /\ Cardinality(Underway) \in Nat
  BY <1>4, CountReads DEF Underway
<1>6. ASSUME ~overrun'
      PROVE  ~overrun /\ Cardinality(Underway') <= Entries
  <2>1. ~overrun /\ ~(Cardinality(Underway) >= Entries)
    BY <1>1, <1>6, Zenon
  <2>2. QED
    BY <1>5, <2>1, PhyGenericAssumption
<1>7. BlocksAccounted'
  BY <1>1, <1>3, <1>6 DEF PhyInv, BlocksAccounted
<1>8. QED
  BY <1>2, <1>6, <1>7 DEF PhyInv

(* A driver's answer finds an entry if there was one for every read.        *)
LEMMA DriverDoneKeeps ==
    ASSUME PhyInv, NEW r \in Reads, DriverDone(r)
    PROVE  PhyInv'
<1> DEFINE end == IF Cardinality(At("completed")) < Entries THEN "completed" ELSE "dropped"
<1>1. /\ stage[r] = "reading" /\ stage' = [stage EXCEPT ![r] = end]
      /\ \/ outcome' = [outcome EXCEPT ![r] = FALSE] /\ UNCHANGED <<taken, gaveUp>>
         \/ outcome' = [outcome EXCEPT ![r] = TRUE] /\ taken' = taken + 1 /\ UNCHANGED gaveUp
         \/ outcome' = [outcome EXCEPT ![r] = FALSE] /\ taken' = taken + 1 /\ gaveUp' = gaveUp + 1
      /\ UNCHANGED <<outTaken, overrun>>
  BY DEF DriverDone
<1>2. PhyTypes /\ PhyTypes'
  <2>1. PhyTypes
    BY DEF PhyInv
  <2>2. stage' \in [Reads -> {"free", "reading", "completed", "ok", "dropped"}]
    BY <1>1, <2>1 DEF PhyTypes
  <2>3. outcome' \in [Reads -> BOOLEAN]
    <3>1. PICK o \in BOOLEAN : outcome' = [outcome EXCEPT ![r] = o]
      BY <1>1, Zenon
    <3>2. QED
      BY <2>1, <3>1 DEF PhyTypes
  <2>4. /\ taken' = taken \/ taken' = taken + 1
        /\ gaveUp' = gaveUp \/ gaveUp' = gaveUp + 1
        /\ outTaken' = outTaken /\ overrun' = overrun
    BY <1>1
  <2>5. taken' \in Int /\ gaveUp' \in Int /\ outTaken' \in Int /\ overrun' \in BOOLEAN
    BY <2>1, <2>4 DEF PhyTypes
  <2>6. QED
    BY <2>1, <2>2, <2>3, <2>5 DEF PhyTypes
<1>3. At("ok")' = At("ok")
  BY <1>1, <1>2 DEF PhyTypes, At
<1>4. ASSUME ~overrun
      PROVE  /\ Cardinality(Underway') <= Entries /\ At("dropped")' = {}
             /\ taken' = Cardinality(ToDecode') + gaveUp'
  <2>1. At("completed") \cup {r} \subseteq Underway /\ r \notin At("completed") /\ IsFiniteSet(Underway)
    BY <1>1, PhyGenericAssumption, FS_Subset DEF At, Underway
  <2>2. Cardinality(At("completed")) + 1 <= Cardinality(Underway)
    <3>1. Cardinality(At("completed") \cup {r}) <= Cardinality(Underway)
      BY <2>1, FS_Subset
    <3>2. Cardinality(At("completed") \cup {r}) = Cardinality(At("completed")) + 1
      BY <2>1, CountReads DEF At
    <3>3. QED
      BY <3>1, <3>2
  <2>3. Cardinality(Underway) \in Nat /\ Cardinality(At("completed")) \in Nat
    BY CountReads DEF Underway, At
  <2>4. end = "completed"
    BY <1>4, <2>2, <2>3, PhyGenericAssumption DEF PhyInv
  <2> HIDE DEF end
  <2>5. stage' = [stage EXCEPT ![r] = "completed"]
    BY <1>1, <2>4
  <2>6. Underway' = Underway /\ At("dropped")' = At("dropped")
    BY <1>1, <1>2, <2>5 DEF PhyTypes, Underway, At
  <2>7. taken = Cardinality(ToDecode) + gaveUp /\ At("dropped") = {}
    BY <1>4 DEF PhyInv, BlocksAccounted
  <2>8. r \notin ToDecode /\ Cardinality(ToDecode) \in Nat
        /\ Cardinality(ToDecode \cup {r}) = Cardinality(ToDecode) + 1
    BY <1>1, CountReads DEF ToDecode, At
  <2>9. CASE outcome' = [outcome EXCEPT ![r] = FALSE]
    <3>1. ToDecode' = ToDecode
      BY <1>1, <1>2, <2>5, <2>9 DEF PhyTypes, ToDecode, At
    <3>2. (UNCHANGED <<taken, gaveUp>>) \/ (taken' = taken + 1 /\ gaveUp' = gaveUp + 1)
      <4>1. ~(outcome' = [outcome EXCEPT ![r] = TRUE])
        BY <1>2, <2>9 DEF PhyTypes
      <4>2. QED
        BY <1>1, <4>1
    <3>3. taken' = Cardinality(ToDecode') + gaveUp'
      BY <1>2, <2>7, <2>8, <3>1, <3>2 DEF PhyTypes
    <3>4. QED
      BY <1>4, <2>6, <2>7, <3>3 DEF PhyInv
  <2>10. CASE outcome' = [outcome EXCEPT ![r] = TRUE]
    <3>1. ToDecode' = ToDecode \cup {r}
      BY <1>1, <1>2, <2>5, <2>10 DEF PhyTypes, ToDecode, At
    <3>2. taken' = taken + 1 /\ UNCHANGED gaveUp
      <4>1. ~(outcome' = [outcome EXCEPT ![r] = FALSE])
        BY <1>2, <2>10 DEF PhyTypes
      <4>2. QED
        BY <1>1, <4>1
    <3>3. taken' = Cardinality(ToDecode') + gaveUp'
      BY <1>2, <2>7, <2>8, <3>1, <3>2 DEF PhyTypes
    <3>4. QED
      BY <1>4, <2>6, <2>7, <3>3 DEF PhyInv
  <2>11. QED
    BY <1>1, <2>9, <2>10
<1>5. BlocksAccounted'
  BY <1>1, <1>3, <1>4 DEF PhyInv, BlocksAccounted
<1>6. QED
  BY <1>1, <1>2, <1>4, <1>5 DEF PhyInv

(* A completion is taken out: it is one less under way, and its block, if   *)
(* it is decoded, is one less that is taken.                                *)
LEMMA TakenOutKeeps ==
    ASSUME PhyInv, NEW r \in Reads, NEW s \in {"ok", "free"},
           stage[r] = "completed", stage' = [stage EXCEPT ![r] = s],
           taken' = IF outcome[r] THEN taken - 1 ELSE taken,
           outTaken' = IF s = "ok" THEN outTaken + 1 ELSE outTaken,
           UNCHANGED <<outcome, gaveUp, overrun>>
    PROVE  PhyInv'
<1>1. PhyTypes /\ PhyTypes'
  BY DEF PhyInv, PhyTypes
<1>2. outTaken' = Cardinality(At("ok")')
  <2>1. CASE s = "ok"
    <3>1. At("ok")' = At("ok") \cup {r} /\ r \notin At("ok")
      BY <1>1, <2>1 DEF PhyTypes, At
    <3>2. Cardinality(At("ok") \cup {r}) = Cardinality(At("ok")) + 1
      BY <3>1, CountReads DEF At
    <3>3. QED
      BY <2>1, <3>1, <3>2 DEF PhyInv, BlocksAccounted
  <2>2. CASE s = "free"
    <3>1. At("ok")' = At("ok")
      BY <1>1, <2>2 DEF PhyTypes, At
    <3>2. QED
      BY <2>2, <3>1 DEF PhyInv, BlocksAccounted
  <2>3. QED
    BY <2>1, <2>2
<1>3. ASSUME ~overrun
      PROVE  /\ Cardinality(Underway') <= Entries /\ At("dropped")' = {}
             /\ taken' = Cardinality(ToDecode') + gaveUp'
  <2>1. taken = Cardinality(ToDecode) + gaveUp /\ At("dropped") = {} /\ Cardinality(Underway) <= Entries
    BY <1>3 DEF PhyInv, BlocksAccounted
  <2>2. At("dropped")' = At("dropped") /\ Underway' = Underway \ {r} /\ r \in Underway
    BY <1>1 DEF PhyTypes, At, Underway
  <2>3. Cardinality(Underway') <= Entries
    <3>1. Cardinality(Underway') = Cardinality(Underway) - 1 /\ Cardinality(Underway) \in Nat
      BY <2>2, CountReads DEF Underway
    <3>2. QED
      BY <2>1, <3>1, PhyGenericAssumption
  <2>4. CASE outcome[r]
    <3>1. ToDecode' = ToDecode \ {r} /\ r \in ToDecode
      BY <1>1, <2>4 DEF PhyTypes, ToDecode, At
    <3>2. Cardinality(ToDecode \ {r}) = Cardinality(ToDecode) - 1 /\ Cardinality(ToDecode) \in Nat
      BY <3>1, CountReads DEF ToDecode, At
    <3>3. taken' = Cardinality(ToDecode') + gaveUp'
      BY <1>1, <2>1, <2>4, <3>1, <3>2 DEF PhyTypes
    <3>4. QED
      BY <2>1, <2>2, <2>3, <3>3
  <2>5. CASE ~outcome[r]
    <3>1. ToDecode' = ToDecode
      BY <1>1, <2>5 DEF PhyTypes, ToDecode, At
    <3>2. QED
      BY <2>1, <2>2, <2>3, <2>5, <3>1
  <2>6. QED
    BY <2>4, <2>5
<1>4. QED
  BY <1>1, <1>2, <1>3 DEF PhyInv, BlocksAccounted

(* An answer that is consumed is one less.                                  *)
LEMMA ConsumeKeeps ==
    ASSUME PhyInv, NEW r \in Reads, Consume(r)
    PROVE  PhyInv'
<1>1. /\ stage[r] = "ok" /\ stage' = [stage EXCEPT ![r] = "free"] /\ outTaken' = outTaken - 1
      /\ UNCHANGED <<outcome, taken, gaveUp, overrun>>
  BY DEF Consume
<1>2. PhyTypes /\ PhyTypes'
  BY <1>1 DEF PhyInv, PhyTypes
<1>3. /\ At("ok")' = At("ok") \ {r} /\ r \in At("ok")
      /\ At("dropped")' = At("dropped") /\ ToDecode' = ToDecode /\ Underway' = Underway
  BY <1>1, <1>2 DEF PhyTypes, At, ToDecode, Underway
<1>4. Cardinality(At("ok") \ {r}) = Cardinality(At("ok")) - 1
  BY <1>3, CountReads DEF At
<1>5. BlocksAccounted'
  BY <1>1, <1>3, <1>4 DEF PhyInv, BlocksAccounted
<1>6. QED
  BY <1>1, <1>2, <1>3, <1>5 DEF PhyInv

(* Every step keeps the blocks accounted for.                               *)
LEMMA PhyStepKeeps ==
    ASSUME PhyInv, [PhyNext]_phyVars
    PROVE  PhyInv'
<1>1. ASSUME NEW r \in Reads, DecodeError(r) \/ DecodeFails(r) \/ Decode(r)
      PROVE  PhyInv'
  <2>1. PICK s \in {"ok", "free"} :
          /\ stage[r] = "completed" /\ stage' = [stage EXCEPT ![r] = s]
          /\ taken' = IF outcome[r] THEN taken - 1 ELSE taken
          /\ outTaken' = IF s = "ok" THEN outTaken + 1 ELSE outTaken
          /\ UNCHANGED <<outcome, gaveUp, overrun>>
    BY <1>1 DEF DecodeError, DecodeFails, Decode
  <2>2. QED
    BY <2>1, TakenOutKeeps
<1>2. CASE UNCHANGED phyVars
  BY <1>2 DEF PhyInv, PhyTypes, BlocksAccounted, At, ToDecode, Underway, phyVars
<1>3. QED
  BY <1>1, <1>2, PhySubmitKeeps, DriverDoneKeeps, ConsumeKeeps DEF PhyNext

(* For any number of reads, entries and blocks, and whatever the driver or  *)
(* its decoder fail at: every block that is taken is of an answer to be     *)
(* consumed, of a read to be decoded or of a driver that failed after       *)
(* taking it, and no read is left without an answer; in the driver's pool   *)
(* as long as there never were more reads under way than entries.           *)
THEOREM BlocksAccountedHolds == PhyInit /\ [][PhyNext]_phyVars => []BlocksAccounted
<1>1. PhyInit => PhyInv
  <2> SUFFICES ASSUME PhyInit PROVE PhyInv
    OBVIOUS
  <2>1. At("ok") = {} /\ At("dropped") = {} /\ ToDecode = {} /\ Underway = {}
    BY DEF PhyInit, At, ToDecode, Underway
  <2>2. PhyTypes
    <3>1. stage \in [Reads -> {"free", "reading", "completed", "ok", "dropped"}]
      BY DEF PhyInit
    <3>2. outcome \in [Reads -> BOOLEAN] /\ overrun \in BOOLEAN
      BY Zenon DEF PhyInit
    <3>3. taken \in Int /\ outTaken \in Int /\ gaveUp \in Int
      BY DEF PhyInit
    <3>4. QED
      BY <3>1, <3>2, <3>3 DEF PhyTypes
  <2>3. Cardinality({}) = 0
    BY FS_EmptySet
  <2>4. BlocksAccounted
    BY <2>1, <2>3 DEF PhyInit, BlocksAccounted
  <2>5. QED
    BY <2>1, <2>2, <2>3, <2>4, PhyGenericAssumption DEF PhyInv
<1>2. PhyInv /\ [PhyNext]_phyVars => PhyInv'
  BY PhyStepKeeps
<1>3. PhyInv => BlocksAccounted
  BY DEF PhyInv
<1>4. QED
  BY <1>1, <1>2, <1>3, PTL

-----------------------------------------------------------------------------
(* The work contexts.                                                      *)

WorkTypes ==
    /\ queued \in Seq(Ctxs) /\ running \in Ctxs \cup {NoCtx}
    /\ args \in [Ctxs -> Requests \cup {<<>>}]
    /\ given \in [Callers -> Ctxs \cup {NoCtx}]
    /\ filled \subseteq Callers /\ \A c \in filled : given[c] # NoCtx
    /\ submits \in [Callers -> Nat] /\ \A c \in Callers : submits[c] <= MaxSubmits
    /\ \A c \in Callers : given[c] # NoCtx => submits[c] < MaxSubmits
    /\ handled \in [Requests -> Nat]
    /\ \A j, k \in 1..Len(queued) : queued[j] = queued[k] => j = k

(* A caller that shares its context with another knows it by shared; one    *)
(* that does not is given a context that nobody works on.                   *)
Given ==
    \A c \in Callers : given[c] # NoCtx =>
      /\ \A d \in Callers \ {c} : given[d] = given[c] => Current(c) \in shared
      /\ Pending(given[c]) => Current(c) \in shared
      /\ c \in filled => \/ args[given[c]] = Current(c)
                         \/ {args[given[c]], Current(c)} \subseteq shared

(* Arguments of a request not submitted yet are where its caller has put    *)
(* them; those that are worked on are not given away, and only arguments    *)
(* that were can be worked on and queued again.                             *)
Args ==
    \A i \in Ctxs : args[i] \notin shared =>
      /\ \A r \in Requests : args[i] = r /\ r[2] > submits[r[1]] =>
           given[r[1]] = i /\ r[1] \in filled /\ r = Current(r[1])
      /\ Pending(i) => Holders(i) = {}
      /\ ~(i = running /\ i \in Range(queued))

Live(r) == {i \in Ctxs : Pending(i) /\ args[i] = r}
Submitted(r) == r[2] <= submits[r[1]]

(* A submitted request waits or runs in one context, or has been handled.   *)
Once ==
    \A r \in Requests \ shared :
      \/ ~Submitted(r) /\ handled[r] = 0 /\ Live(r) = {}
      \/ Submitted(r) /\ handled[r] = 0 /\ \E i \in Ctxs : Live(r) = {i}
      \/ Submitted(r) /\ handled[r] = 1 /\ Live(r) = {}

WorkInv == WorkTypes /\ Given /\ Args /\ Once

(* The request that a caller with a context is at. *)
LEMMA CurrentRequest ==
    ASSUME WorkTypes, NEW c \in Callers, given[c] # NoCtx
    PROVE  Current(c) \in Requests /\ given[c] \in Ctxs /\ ~Submitted(Current(c))
<1>1. submits[c] \in Nat /\ submits[c] < MaxSubmits /\ given[c] \in Ctxs
  BY DEF WorkTypes
<1>2. submits[c] + 1 \in 1..MaxSubmits /\ ~(submits[c] + 1 <= submits[c])
  BY <1>1, WorkBufAssumption
<1>3. QED
  BY <1>1, <1>2 DEF Current, Requests, Submitted

(* Whoever is given a context that others have shares it with them. *)
LEMMA AllocKeeps ==
    ASSUME WorkInv, NEW c \in Callers, Alloc(c)
    PROVE  WorkInv'
<1>1. PICK i \in Ctxs :
        /\ given[c] = NoCtx /\ submits[c] < MaxSubmits
        /\ ~Pending(i) /\ given' = [given EXCEPT ![c] = i]
        /\ shared' = shared \cup {Current(d) : d \in {e \in Holders(i) \cup {c} : Holders(i) # {}}}
  BY DEF Alloc, Give
<1>2. UNCHANGED <<queued, running, args, filled, submits, handled>>
  BY DEF Alloc
<1>3. /\ shared \subseteq shared'
      /\ \A d \in Callers \ {c} : given[d] = i => Current(d) \in shared' /\ Current(c) \in shared'
  BY <1>1 DEF Holders
<1>4. /\ \A d \in Callers : Current(d)' = Current(d)
      /\ \A j : Pending(j)' <=> Pending(j)
  BY <1>2 DEF Current, Pending
<1>5. /\ given[c] = NoCtx /\ given'[c] = i
      /\ \A d \in Callers \ {c} : given'[d] = given[d]
      /\ NoCtx \notin Ctxs
  BY <1>1, WorkBufAssumption DEF WorkInv, WorkTypes
<1>6. WorkTypes'
  BY <1>1, <1>2, <1>5 DEF WorkInv, WorkTypes
<1>7. Given'
  <2> SUFFICES ASSUME NEW d \in Callers, given'[d] # NoCtx
               PROVE  /\ \A e \in Callers \ {d} : given'[e] = given'[d] => Current(d) \in shared'
                      /\ Pending(given'[d]) => Current(d) \in shared'
                      /\ d \in filled => \/ args[given'[d]] = Current(d)
                                         \/ {args[given'[d]], Current(d)} \subseteq shared'
    BY <1>2, <1>4 DEF Given
  <2>1. CASE d = c
    <3>1. d \notin filled
      BY <1>5, <2>1 DEF WorkInv, WorkTypes
    <3>2. QED
      BY <1>1, <1>3, <1>5, <2>1, <3>1
  <2>2. CASE d # c
    <3>1. given'[d] = given[d]
      BY <1>5, <2>2
    <3>2. QED
      BY <1>3, <1>5, <2>2, <3>1 DEF WorkInv, Given
  <2>3. QED
    BY <2>1, <2>2
<1>8. Args'
  <2> SUFFICES ASSUME NEW j \in Ctxs, args[j] \notin shared'
               PROVE  /\ \A r \in Requests : args[j] = r /\ r[2] > submits[r[1]] =>
                           given'[r[1]] = j /\ r[1] \in filled /\ r = Current(r[1])
                      /\ Pending(j) => \A d \in Callers : given'[d] # j
                      /\ ~(j = running /\ j \in Range(queued))
    <3>1. \A j \in Ctxs : (\A d \in Callers : given'[d] # j) => Holders(j)' = {}
      BY DEF Holders
    <3>2. \A r \in Requests : r[1] \in Callers
      BY DEF Requests
    <3>3. QED
      BY <1>2, <1>4, <3>1, <3>2 DEF Args
  <2>1. args[j] \notin shared
    BY <1>3
  <2>2. ASSUME NEW r \in Requests, args[j] = r, r[2] > submits[r[1]]
        PROVE  given'[r[1]] = j /\ r[1] \in filled /\ r = Current(r[1])
    <3>1. given[r[1]] = j /\ r[1] \in filled /\ r = Current(r[1]) /\ r[1] \in Callers
      BY <2>1, <2>2 DEF WorkInv, Args, Requests
    <3>2. QED
      BY <1>5, <3>1
  <2>3. Pending(j) => \A d \in Callers : given'[d] # j
    BY <1>1, <1>5, <2>1 DEF WorkInv, Args, Holders
  <2>4. QED
    BY <2>1, <2>2, <2>3 DEF WorkInv, Args
<1>9. Once'
  BY <1>2, <1>3, <1>4 DEF WorkInv, Once, Live, Submitted
<1>10. QED
  BY <1>6, <1>7, <1>8, <1>9 DEF WorkInv

(* The caller fills a context that nobody works on, or shares it. *)
LEMMA FillKeeps ==
    ASSUME WorkInv, NEW c \in Callers, Fill(c)
    PROVE  WorkInv'
<1> SUFFICES ASSUME NEW i, i = given[c], NEW r0, r0 = Current(c)
             PROVE  WorkInv'
  OBVIOUS
<1>1. /\ i # NoCtx /\ c \notin filled
      /\ args' = [args EXCEPT ![i] = r0] /\ filled' = filled \cup {c}
      /\ UNCHANGED <<queued, running, given, submits, handled, shared>>
  BY DEF Fill
<1>2. r0 \in Requests /\ i \in Ctxs /\ ~Submitted(r0)
  BY <1>1, CurrentRequest DEF WorkInv
<1>3. /\ \A d \in Callers : Current(d)' = Current(d)
      /\ \A j : Pending(j)' <=> Pending(j)
  BY <1>1 DEF Current, Pending
<1>4. args'[i] = r0 /\ \A j \in Ctxs \ {i} : args'[j] = args[j]
  BY <1>1, <1>2 DEF WorkInv, WorkTypes
<1>5. WorkTypes'
  BY <1>1, <1>2, <1>4 DEF WorkInv, WorkTypes
<1>6. Pending(i) => r0 \in shared
  BY <1>1 DEF WorkInv, Given
<1>7. Given'
  <2> SUFFICES ASSUME NEW d \in Callers, given[d] # NoCtx
               PROVE  d \in filled' => \/ args'[given[d]] = Current(d)
                                      \/ {args'[given[d]], Current(d)} \subseteq shared
    BY <1>1, <1>3 DEF WorkInv, Given
  <2>1. CASE given[d] = i /\ d # c
    <3>1. {r0, Current(d)} \subseteq shared
      BY <1>1, <2>1 DEF WorkInv, Given
    <3>2. QED
      BY <1>1, <1>4, <2>1, <3>1
  <2>2. CASE d = c
    BY <1>4, <2>2
  <2>3. CASE given[d] # i
    <3>1. given[d] \in Ctxs
      BY DEF WorkInv, WorkTypes
    <3>2. QED
      BY <1>1, <1>4, <2>3, <3>1 DEF WorkInv, Given
  <2>4. QED
    BY <2>1, <2>2, <2>3
<1>8. Args'
  <2> SUFFICES ASSUME NEW j \in Ctxs, args'[j] \notin shared
               PROVE  /\ \A r \in Requests : args'[j] = r /\ r[2] > submits[r[1]] =>
                           given[r[1]] = j /\ r[1] \in filled' /\ r = Current(r[1])
                      /\ Pending(j) => Holders(j) = {}
                      /\ ~(j = running /\ j \in Range(queued))
    <3>1. \A j \in Ctxs : Holders(j)' = Holders(j)
      BY <1>1 DEF Holders
    <3>2. \A r \in Requests : r[1] \in Callers
      BY DEF Requests
    <3>3. QED
      BY <1>1, <1>3, <3>1, <3>2 DEF Args
  <2>1. CASE j = i
    <3>1. r0[1] = c
      BY DEF Current
    <3>2. QED
      BY <1>1, <1>4, <1>6, <2>1, <3>1 DEF Pending
  <2>2. CASE j # i
    BY <1>1, <1>4, <2>2 DEF WorkInv, Args
  <2>3. QED
    BY <2>1, <2>2
<1>9. Once'
  <2> SUFFICES ASSUME NEW r \in Requests \ shared
               PROVE  Live(r)' = Live(r)
    BY <1>1 DEF WorkInv, Once, Submitted
  <2>1. CASE Pending(i)
    <3>1. args[i] \in shared
      BY <1>2, <2>1 DEF WorkInv, Args, Holders
    <3>2. QED
      BY <1>3, <1>4, <1>6, <2>1, <3>1 DEF Live
  <2>2. CASE ~Pending(i)
    BY <1>3, <1>4, <2>2 DEF Live
  <2>3. QED
    BY <2>1, <2>2
<1>10. QED
  BY <1>5, <1>7, <1>8, <1>9 DEF WorkInv

(* What is in a queue that grows at its end or is served from its front. *)
LEMMA QueueAppended ==
    ASSUME NEW q \in Seq(Ctxs), NEW i \in Ctxs
    PROVE  /\ Append(q, i) \in Seq(Ctxs)
           /\ \A j : j \in Range(Append(q, i)) <=> j \in Range(q) \/ j = i
           /\ (\A j, k \in 1..Len(q) : q[j] = q[k] => j = k) /\ i \notin Range(q) =>
                \A j, k \in 1..Len(Append(q, i)) : Append(q, i)[j] = Append(q, i)[k] => j = k
<1>1. /\ Append(q, i) \in Seq(Ctxs) /\ Len(Append(q, i)) = Len(q) + 1 /\ Len(q) \in Nat
      /\ \A k \in 1..Len(q) : Append(q, i)[k] = q[k]
      /\ Append(q, i)[Len(q) + 1] = i
  OBVIOUS
<1>2. /\ Range(q) = {q[k] : k \in 1..Len(q)}
      /\ Range(Append(q, i)) = {Append(q, i)[k] : k \in 1..Len(q) + 1}
  BY <1>1 DEF Range
<1>3. \A j : j \in Range(Append(q, i)) <=> j \in Range(q) \/ j = i
  BY <1>1, <1>2
<1>4. QED
  BY <1>1, <1>2, <1>3

(* A queue that holds each context once, without the one served next. *)
LEMMA QueueServed ==
    ASSUME NEW q \in Seq(Ctxs), q # <<>>, \A j, k \in 1..Len(q) : q[j] = q[k] => j = k
    PROVE  /\ Head(q) \in Ctxs /\ Tail(q) \in Seq(Ctxs)
           /\ \A j : j \in Range(q) <=> j \in Range(Tail(q)) \/ j = Head(q)
           /\ Head(q) \notin Range(Tail(q))
           /\ \A j, k \in 1..Len(Tail(q)) : Tail(q)[j] = Tail(q)[k] => j = k
<1>1. /\ Head(q) = q[1] /\ q[1] \in Ctxs /\ Tail(q) \in Seq(Ctxs)
      /\ Len(Tail(q)) = Len(q) - 1 /\ Len(q) \in Nat /\ Len(q) >= 1
      /\ \A k \in 1..Len(q) - 1 : Tail(q)[k] = q[k + 1]
  OBVIOUS
<1>2. /\ DOMAIN q = 1..Len(q) /\ DOMAIN Tail(q) = 1..Len(q) - 1
      /\ Range(q) = {q[k] : k \in 1..Len(q)}
      /\ Range(Tail(q)) = {Tail(q)[k] : k \in DOMAIN Tail(q)}
  <2>1. DOMAIN q = 1..Len(q) /\ DOMAIN Tail(q) = 1..Len(q) - 1
    BY <1>1
  <2>2. QED
    BY <2>1 DEF Range
<1>3. Range(Tail(q)) = {q[k] : k \in 2..Len(q)}
  <2>1. ASSUME NEW k \in 2..Len(q) PROVE q[k] \in Range(Tail(q))
    <3>1. k - 1 \in 1..Len(q) - 1 /\ Tail(q)[k - 1] = q[k]
      BY <1>1
    <3>2. QED
      BY <1>2, <3>1
  <2>2. ASSUME NEW k \in 1..Len(q) - 1 PROVE Tail(q)[k] \in {q[j] : j \in 2..Len(q)}
    <3>1. k + 1 \in 2..Len(q) /\ Tail(q)[k] = q[k + 1]
      BY <1>1
    <3>2. QED
      BY <3>1
  <2>3. QED
    BY <1>2, <2>1, <2>2
<1>4. \A j : j \in Range(q) <=> j \in Range(Tail(q)) \/ j = Head(q)
  BY <1>1, <1>2, <1>3
<1>5. Head(q) \notin Range(Tail(q))
  BY <1>1, <1>3
<1>6. QED
  BY <1>1, <1>4, <1>5

(* The work of a context is submitted; with a context of its own a caller   *)
(* makes it pending, with its arguments in it.                              *)
LEMMA SubmitKeeps ==
    ASSUME WorkInv, NEW c \in Callers, Submit(c)
    PROVE  WorkInv'
<1> SUFFICES ASSUME NEW i, i = given[c], NEW r0, r0 = Current(c)
             PROVE  WorkInv'
  OBVIOUS
<1>1. /\ c \in filled
      /\ queued' = IF i \in Range(queued) THEN queued ELSE Append(queued, i)
      /\ filled' = filled \ {c} /\ given' = [given EXCEPT ![c] = NoCtx]
      /\ submits' = [submits EXCEPT ![c] = @ + 1]
      /\ UNCHANGED <<running, args, handled, shared>>
  BY DEF Submit
<1>2. /\ given[c] # NoCtx /\ queued \in Seq(Ctxs) /\ NoCtx \notin Ctxs
      /\ submits[c] \in Nat /\ submits[c] < MaxSubmits
  BY <1>1, WorkBufAssumption DEF WorkInv, WorkTypes
<1>3. r0 \in Requests /\ i \in Ctxs /\ ~Submitted(r0) /\ r0[1] = c /\ r0[2] = submits[c] + 1
  BY <1>2, CurrentRequest DEF WorkInv, Current
<1>4. /\ \A j : Pending(j)' <=> Pending(j) \/ j = i
      /\ \A j : j \in Range(queued') <=> j \in Range(queued) \/ j = i
  BY <1>1, <1>2, <1>3, QueueAppended DEF Pending
<1>5. /\ \A d \in Callers \ {c} : given'[d] = given[d] /\ submits'[d] = submits[d]
      /\ given'[c] = NoCtx /\ submits'[c] = submits[c] + 1
      /\ \A d \in Callers \ {c} : Current(d)' = Current(d)
  BY <1>1 DEF WorkInv, WorkTypes, Current
<1>6. WorkTypes'
  <2>1. queued' \in Seq(Ctxs) /\ \A j, k \in 1..Len(queued') : queued'[j] = queued'[k] => j = k
    BY <1>1, <1>2, <1>3, QueueAppended DEF WorkInv, WorkTypes
  <2>2. submits' \in [Callers -> Nat] /\ given' \in [Callers -> Ctxs \cup {NoCtx}]
    BY <1>1, <1>2 DEF WorkInv, WorkTypes
  <2>3. /\ \A d \in Callers : submits'[d] <= MaxSubmits
        /\ \A d \in Callers : given'[d] # NoCtx => submits'[d] < MaxSubmits
        /\ \A d \in filled' : given'[d] # NoCtx
    BY <1>1, <1>2, <1>5, WorkBufAssumption DEF WorkInv, WorkTypes
  <2>4. QED
    BY <1>1, <2>1, <2>2, <2>3 DEF WorkInv, WorkTypes
<1>7. args[i] = r0 \/ {args[i], r0} \subseteq shared
  BY <1>1, <1>2 DEF WorkInv, Given
<1>8. r0 \notin shared => ~Pending(i) /\ \A d \in Callers \ {c} : given[d] # i
  BY <1>2 DEF WorkInv, Given
<1>9. Given'
  <2> SUFFICES ASSUME NEW d \in Callers \ {c}, given[d] # NoCtx
               PROVE  /\ \A e \in Callers \ {d} : given'[e] = given[d] => Current(d) \in shared
                      /\ Pending(given[d])' => Current(d) \in shared
                      /\ d \in filled => \/ args[given[d]] = Current(d)
                                         \/ {args[given[d]], Current(d)} \subseteq shared
    <3>1. \A d \in Callers : given'[d] # NoCtx => d # c /\ given'[d] = given[d]
      BY <1>5
    <3>2. \A d \in filled' : d \in filled
      BY <1>1
    <3>3. \A j : Pending(j)' <=> (j = running' \/ j \in Range(queued'))
      BY DEF Pending
    <3>4. QED
      BY <1>1, <1>5, <3>1, <3>2, <3>3 DEF Given, Pending
  <2>1. given[d] = i => Current(d) \in shared
    BY <1>2 DEF WorkInv, Given
  <2>2. \A e \in Callers \ {d} : given'[e] = given[d] => given[e] = given[d]
    BY <1>5
  <2>3. /\ \A e \in Callers \ {d} : given[e] = given[d] => Current(d) \in shared
        /\ Pending(given[d]) => Current(d) \in shared
        /\ d \in filled => \/ args[given[d]] = Current(d)
                           \/ {args[given[d]], Current(d)} \subseteq shared
    BY DEF WorkInv, Given
  <2>4. \A e \in Callers \ {d} : given'[e] = given[d] => Current(d) \in shared
    BY <2>2, <2>3
  <2>5. Pending(given[d])' => Current(d) \in shared
    <3>1. Pending(given[d])' => Pending(given[d]) \/ given[d] = i
      BY <1>4, <1>5 DEF Pending
    <3>2. QED
      BY <2>1, <2>3, <3>1
  <2>6. QED
    BY <2>3, <2>4, <2>5
<1>10. Args'
  <2> SUFFICES ASSUME NEW j \in Ctxs, args[j] \notin shared
               PROVE  /\ \A r \in Requests : args[j] = r /\ r[2] > submits'[r[1]] =>
                           given'[r[1]] = j /\ r[1] \in filled' /\ r = Current(r[1])'
                      /\ Pending(j)' => \A d \in Callers : given'[d] # j
                      /\ ~(j = running /\ j \in Range(queued'))
    <3>1. \A j \in Ctxs : (\A d \in Callers : given'[d] # j) => Holders(j)' = {}
      BY DEF Holders
    <3>2. QED
      BY <1>1, <3>1 DEF Args
  <2>1. ASSUME NEW r \in Requests, args[j] = r, r[2] > submits'[r[1]]
        PROVE  given'[r[1]] = j /\ r[1] \in filled' /\ r = Current(r[1])'
    <3>1. r[1] \in Callers /\ r[2] \in Nat
      BY DEF Requests
    <3>2. r[2] > submits[r[1]]
      BY <1>2, <1>5, <2>1, <3>1
    <3>3. given[r[1]] = j /\ r[1] \in filled /\ r = Current(r[1])
      BY <2>1, <3>2 DEF WorkInv, Args
    <3>4. r[1] # c
      BY <1>2, <1>3, <1>5, <2>1, <3>3
    <3>5. QED
      BY <1>1, <1>5, <3>1, <3>3, <3>4
  <2>2. CASE j = i
    <3>1. r0 \notin shared
      BY <1>7, <2>2
    <3>2. QED
      BY <1>2, <1>3, <1>5, <1>8, <2>1, <2>2, <3>1 DEF Pending
  <2>3. CASE j # i
    <3>1. Pending(j) => \A d \in Callers : given[d] # j
      BY DEF WorkInv, Args, Holders
    <3>2. QED
      BY <1>2, <1>4, <1>5, <2>1, <2>3, <3>1 DEF WorkInv, Args
  <2>4. QED
    BY <2>2, <2>3
<1>11. Once'
  <2> SUFFICES ASSUME NEW r \in Requests \ shared
               PROVE  \/ ~Submitted(r)' /\ handled[r] = 0 /\ Live(r)' = {}
                      \/ Submitted(r)' /\ handled[r] = 0 /\ \E j \in Ctxs : Live(r)' = {j}
                      \/ Submitted(r)' /\ handled[r] = 1 /\ Live(r)' = {}
    BY <1>1 DEF Once
  <2>1. r[1] \in Callers /\ r[2] \in Nat
    BY DEF Requests
  <2>2. CASE r = r0
    <3>1. Submitted(r)' /\ handled[r] = 0 /\ Live(r) = {}
      BY <1>2, <1>3, <1>5, <2>2 DEF WorkInv, Once, Submitted
    <3>2. ~Pending(i) /\ \A j \in Ctxs : args[j] = r => j = i
      BY <1>2, <1>3, <1>8, <2>2 DEF WorkInv, Args, Submitted
    <3>3. args[i] = r
      BY <1>7, <2>2
    <3>4. Live(r)' = {i}
      BY <1>1, <1>3, <1>4, <3>1, <3>2, <3>3 DEF Live
    <3>5. QED
      BY <1>3, <3>1, <3>4
  <2>3. CASE r # r0
    <3>1. Live(r)' = Live(r)
      BY <1>1, <1>4, <1>7, <2>3 DEF Live
    <3>2. Submitted(r)' <=> Submitted(r)
      <4>1. CASE r[1] # c
        BY <1>5, <2>1, <4>1 DEF Submitted
      <4>2. CASE r[1] = c
        <5>1. r[2] # submits[c] + 1
          BY <2>3, <4>2 DEF Requests, Current
        <5>2. QED
          BY <1>2, <1>5, <2>1, <4>2, <5>1 DEF Submitted
      <4>3. QED
        BY <4>1, <4>2
    <3>3. QED
      BY <3>1, <3>2 DEF WorkInv, Once
  <2>4. QED
    BY <2>2, <2>3
<1>12. QED
  BY <1>6, <1>9, <1>10, <1>11 DEF WorkInv

(* The work queue takes the oldest work, which stays pending. *)
LEMMA BeginKeeps ==
    ASSUME WorkInv, Begin
    PROVE  WorkInv'
<1>1. /\ running = NoCtx /\ queued # <<>> /\ running' = Head(queued) /\ queued' = Tail(queued)
      /\ UNCHANGED <<args, given, filled, submits, handled, shared>>
  BY DEF Begin
<1>2. /\ queued \in Seq(Ctxs) /\ \A j, k \in 1..Len(queued) : queued[j] = queued[k] => j = k
      /\ NoCtx \notin Ctxs
  BY WorkBufAssumption DEF WorkInv, WorkTypes
<1>3. /\ running' \in Ctxs /\ queued' \in Seq(Ctxs) /\ running' \notin Range(queued')
      /\ \A j, k \in 1..Len(queued') : queued'[j] = queued'[k] => j = k
  <2>1. /\ Head(queued) \in Ctxs /\ Tail(queued) \in Seq(Ctxs)
        /\ Head(queued) \notin Range(Tail(queued))
        /\ \A j, k \in 1..Len(Tail(queued)) : Tail(queued)[j] = Tail(queued)[k] => j = k
    BY <1>1, <1>2, QueueServed
  <2>2. running' = Head(queued) /\ queued' = Tail(queued)
    BY <1>1
  <2>3. QED
    BY <2>1, <2>2
<1>4. \A j \in Ctxs : (j = running' \/ j \in Range(queued')) <=> Pending(j)
  BY <1>1, <1>2, QueueServed DEF Pending
<1>5. /\ \A d \in Callers : Current(d)' = Current(d)
      /\ \A j \in Ctxs : Pending(j)' <=> Pending(j)
  BY <1>1, <1>4 DEF Current, Pending
<1>6. WorkTypes'
  BY <1>1, <1>3 DEF WorkInv, WorkTypes
<1>7. Given'
  <2>1. \A c \in Callers : given[c] # NoCtx => given[c] \in Ctxs
    BY DEF WorkInv, WorkTypes
  <2>2. \A c \in Callers : given[c] # NoCtx => (Pending(given[c])' <=> Pending(given[c]))
    BY <1>1, <1>4, <2>1 DEF Pending
  <2>3. QED
    BY <1>1, <1>5, <2>2 DEF WorkInv, Given
<1>8. Args'
  <2>1. /\ \A j \in Ctxs : Holders(j)' = Holders(j)
        /\ \A r \in Requests : r[1] \in Callers
    BY <1>1 DEF Holders, Requests
  <2>2. QED
    BY <1>1, <1>3, <1>5, <2>1 DEF WorkInv, Args
<1>9. Once'
  <2>1. \A r : Live(r)' = Live(r) /\ (Submitted(r)' <=> Submitted(r))
    BY <1>1, <1>5 DEF Live, Submitted
  <2>2. QED
    BY <1>1, <2>1 DEF WorkInv, Once
<1>10. QED
  BY <1>6, <1>7, <1>8, <1>9 DEF WorkInv

(* A handler has used the arguments of its context. *)
LEMMA ReturnKeeps ==
    ASSUME WorkInv, Return
    PROVE  WorkInv'
<1> SUFFICES ASSUME NEW i, i = running
             PROVE  WorkInv'
  OBVIOUS
<1>1. /\ i # NoCtx /\ i \in Ctxs /\ running' = NoCtx /\ NoCtx \notin Ctxs
      /\ handled' = [handled EXCEPT ![args[i]] = @ + 1]
      /\ UNCHANGED <<queued, args, given, filled, submits, shared>>
  BY WorkBufAssumption DEF Return, WorkInv, WorkTypes
<1>2. /\ \A d \in Callers : Current(d)' = Current(d)
      /\ \A j : Pending(j) <=> j = i \/ j \in Range(queued)
      /\ \A j \in Ctxs : Pending(j)' <=> j \in Range(queued)
      /\ \A r \in Requests : Submitted(r)' <=> Submitted(r)
  BY <1>1 DEF Current, Pending, Submitted
<1>3. handled' \in [Requests -> Nat]
      /\ \A r \in Requests : handled'[r] = IF r = args[i] THEN handled[r] + 1 ELSE handled[r]
  <2>1. handled \in [Requests -> Nat] /\ handled' = [handled EXCEPT ![args[i]] = @ + 1]
    BY <1>1 DEF WorkInv, WorkTypes
  <2> SUFFICES ASSUME NEW a, a = args[i]
               PROVE  /\ handled' \in [Requests -> Nat]
                      /\ \A r \in Requests : handled'[r] = IF r = a THEN handled[r] + 1 ELSE handled[r]
    OBVIOUS
  <2>2. CASE a \in Requests
    BY <2>1, <2>2
  <2>3. CASE a \notin Requests
    BY <2>1, <2>3
  <2>4. QED
    BY <2>2, <2>3
<1>4. WorkTypes'
  BY <1>1, <1>3 DEF WorkInv, WorkTypes
<1>5. Given'
  <2>1. \A c \in Callers : given[c] # NoCtx => (Pending(given[c])' => Pending(given[c]))
    BY <1>1, <1>2 DEF WorkInv, WorkTypes, Pending
  <2>2. QED
    BY <1>1, <1>2, <2>1 DEF WorkInv, Given
<1>6. Args'
  <2>1. /\ \A j \in Ctxs : Holders(j)' = Holders(j)
        /\ \A r \in Requests : r[1] \in Callers
    BY <1>1 DEF Holders, Requests
  <2>2. QED
    BY <1>1, <1>2, <2>1 DEF WorkInv, Args
<1>7. Once'
  <2> SUFFICES ASSUME NEW r \in Requests \ shared
               PROVE  \/ ~Submitted(r) /\ handled'[r] = 0 /\ Live(r)' = {}
                      \/ Submitted(r) /\ handled'[r] = 0 /\ \E j \in Ctxs : Live(r)' = {j}
                      \/ Submitted(r) /\ handled'[r] = 1 /\ Live(r)' = {}
    BY <1>1, <1>2 DEF Once
  <2>1. CASE args[i] = r
    <3>1. i \notin Range(queued)
      BY <1>1, <2>1 DEF WorkInv, Args
    <3>2. i \in Live(r)
      BY <1>1, <1>2, <2>1 DEF Live
    <3>3. Submitted(r) /\ handled[r] = 0 /\ Live(r) = {i}
      BY <3>2 DEF WorkInv, Once
    <3>4. Live(r)' = {}
      BY <1>1, <1>2, <3>1, <3>3 DEF Live
    <3>5. QED
      BY <1>3, <2>1, <3>3, <3>4
  <2>2. CASE args[i] # r
    <3>1. Live(r)' = Live(r)
      BY <1>1, <1>2, <2>2 DEF Live
    <3>2. QED
      BY <1>3, <2>2, <3>1 DEF WorkInv, Once
  <2>3. QED
    BY <2>1, <2>2
<1>8. QED
  BY <1>4, <1>5, <1>6, <1>7 DEF WorkInv

(* For any number of callers and contexts: a request whose context was not  *)
(* given away while its caller had it is handled exactly once.              *)
THEOREM HandledOnceHolds == WorkInit /\ [][WorkNext]_workVars => []HandledOnce
<1>1. ASSUME WorkInit PROVE WorkInv
  <2>1. /\ queued = <<>> /\ running = NoCtx /\ filled = {} /\ shared = {}
        /\ args = [i \in Ctxs |-> <<>>] /\ given = [c \in Callers |-> NoCtx]
        /\ submits = [c \in Callers |-> 0] /\ handled = [r \in Requests |-> 0]
    BY <1>1 DEF WorkInit
  <2>2. Range(queued) = {} /\ Len(queued) = 0 /\ queued \in Seq(Ctxs)
    BY <2>1 DEF Range
  <2>3. \A i \in Ctxs : ~Pending(i)
    BY <2>1, <2>2, WorkBufAssumption DEF Pending
  <2>4. WorkTypes
    BY <2>1, <2>2, WorkBufAssumption DEF WorkTypes
  <2>5. Given
    BY <2>1 DEF Given
  <2>6. Args
    <3>1. \A r \in Requests : r # <<>>
      BY DEF Requests
    <3>2. QED
      BY <2>1, <2>2, <2>3, <3>1 DEF Args, Pending
  <2>7. Once
    <3>1. ASSUME NEW r \in Requests PROVE ~Submitted(r) /\ Live(r) = {} /\ handled[r] = 0
      <4>1. r[1] \in Callers /\ r[2] \in 1..MaxSubmits
        BY DEF Requests
      <4>2. QED
        BY <2>1, <2>3, <4>1, WorkBufAssumption DEF Submitted, Live
    <3>2. QED
      BY <3>1 DEF Once
  <2>8. QED
    BY <2>4, <2>5, <2>6, <2>7 DEF WorkInv
<1>2. ASSUME WorkInv, [WorkNext]_workVars PROVE WorkInv'
  <2>1. CASE UNCHANGED workVars
    <3>1. \A i : Pending(i)' <=> Pending(i)
      BY <2>1 DEF workVars, Pending
    <3>2. /\ \A d \in Callers : Current(d)' = Current(d)
          /\ \A i : Holders(i)' = Holders(i)
          /\ \A r : Live(r)' = Live(r) /\ (Submitted(r)' <=> Submitted(r))
      BY <2>1, <3>1 DEF workVars, Current, Holders, Live, Submitted
    <3>3. Given' /\ Args'
      BY <1>2, <2>1 DEF workVars, WorkInv, Given, Args, Pending, Holders, Current
    <3>4. QED
      BY <1>2, <2>1, <3>2, <3>3 DEF workVars, WorkInv, WorkTypes, Once
  <2>2. QED
    BY <1>2, <2>1, AllocKeeps, FillKeeps, SubmitKeeps, BeginKeeps, ReturnKeeps DEF WorkNext
<1>3. ASSUME WorkInv PROVE HandledOnce
  <2> SUFFICES ASSUME NEW r \in Requests \ shared
               PROVE  handled[r] + Cardinality(Live(r)) = IF Submitted(r) THEN 1 ELSE 0
    BY DEF HandledOnce, Live, Submitted
  <2>1. Cardinality({}) = 0 /\ \A i : Cardinality({i}) = 1
    BY FS_EmptySet, FS_Singleton
  <2>2. CASE ~Submitted(r)
    <3>1. handled[r] = 0 /\ Live(r) = {}
      BY <1>3, <2>2 DEF WorkInv, Once
    <3>2. QED
      BY <2>1, <2>2, <3>1
  <2>3. CASE Submitted(r) /\ handled[r] = 0
    <3>1. PICK i \in Ctxs : Live(r) = {i}
      BY <1>3, <2>3 DEF WorkInv, Once
    <3>2. QED
      BY <2>1, <2>3, <3>1
  <2>4. CASE Submitted(r) /\ handled[r] = 1 /\ Live(r) = {}
    BY <2>1, <2>4
  <2>5. QED
    BY <1>3, <2>2, <2>3, <2>4 DEF WorkInv, Once
<1>4. QED
  BY <1>1, <1>2, <1>3, PTL

-----------------------------------------------------------------------------
(* The steering encoder.                                                   *)

TurnOf(a) == a \div Resolution
PosOf(a) == a % Resolution
Bytes == [value : Int, half : {1, 2}]

AmtTypes ==
    /\ shaft \in Int /\ TurnOf(shaft) >= -(Turns \div 2) /\ TurnOf(shaft) < Turns \div 2
    /\ line \in Seq(Bytes) /\ rx \in Seq(Bytes) /\ buf \in Seq(Bytes)
    /\ doing \in {"init", "idle", "fetch", "absent"} /\ cmd \in {"turns", "pos"}
    /\ waiting \in BOOLEAN /\ late \in BOOLEAN /\ passed \in BOOLEAN
    /\ turns \in Int /\ val \in Int /\ seen \subseteq Int

Doing ==
    /\ waiting => doing \in {"init", "fetch"}
    /\ cmd = "turns" => MULTI_TURN
    /\ doing = "fetch" /\ ~MULTI_TURN => turns = 0
    /\ result = "ok" => doing = "idle"

(* Without late answers there is at most one around, and none that nobody   *)
(* waits for.                                                               *)
Around ==
    ~late => IF waiting THEN Len(line) + Len(rx) + Len(buf) <= 2 ELSE line = <<>> /\ rx = <<>>

(* It answers the command it is taken for, and the shaft is still in the    *)
(* turn it was in then.                                                     *)
Fits(b) ==
    IF cmd = "turns" THEN b.value = TurnOf(shaft) % Turns
    ELSE \E a \in seen : b.value = PosOf(a) /\ (MULTI_TURN => TurnOf(a) = TurnOf(shaft))

AllFit(q) == \A k \in 1..Len(q) : Fits(q[k])

Answers ==
    doing = "fetch" /\ ~late /\ (MULTI_TURN => ~passed) =>
      /\ MULTI_TURN /\ cmd = "pos" => turns = TurnOf(shaft)
      /\ waiting => AllFit(line) /\ AllFit(rx) /\ AllFit(buf)

AmtInv == AmtTypes /\ Doing /\ Around /\ Answers /\ FetchedTogether

(* An angle is its turn and its position in it. *)
LEMMA AngleParts ==
    ASSUME NEW a \in Int
    PROVE  /\ TurnOf(a) \in Int /\ PosOf(a) \in Int
           /\ a = TurnOf(a) * Resolution + PosOf(a)
BY Amt21Assumption DEF TurnOf, PosOf

(* The turns come through the 14 bits of the answer. *)
LEMMA TurnsExtended ==
    ASSUME NEW t \in Int, t >= -(Turns \div 2), t < Turns \div 2
    PROVE  /\ t % Turns \in Int /\ SignExtend(t % Turns) = t
           /\ \A raw \in Int : SignExtend(raw) \in Int
BY DEF Turns, SignExtend

(* The angles of the shaft are the encoder's. *)
LEMMA AnglesFit ==
    /\ \A a \in Angles : a \in Int /\ TurnOf(a) >= -(Turns \div 2) /\ TurnOf(a) < Turns \div 2
    /\ \A a \in Int : PosOf(a) \in Int /\ TurnOf(PosOf(a)) = 0
    /\ TurnOf(0) = 0 /\ 0 >= -(Turns \div 2) /\ 0 < Turns \div 2
<1>1. \A a \in Angles : a \in Int /\ TurnOf(a) >= -(Turns \div 2) /\ TurnOf(a) < Turns \div 2
  BY Amt21Assumption DEF TurnOf
<1>2. ASSUME NEW a \in Int PROVE PosOf(a) \in Int /\ TurnOf(PosOf(a)) = 0
  <2>1. PosOf(a) \in 0..Resolution - 1
    BY Amt21Assumption DEF PosOf
  <2>2. QED
    BY <2>1, Amt21Assumption DEF TurnOf
<1>3. TurnOf(0) = 0
  BY Amt21Assumption DEF TurnOf
<1>4. 0 >= -(Turns \div 2) /\ 0 < Turns \div 2
  BY DEF Turns
<1>5. QED
  BY <1>1, <1>2, <1>3, <1>4

(* The shaft moves: in an attempt, to an angle of the same turn or past the *)
(* end of it.                                                               *)
LEMMA TurnKeeps ==
    ASSUME AmtInv, Turn
    PROVE  AmtInv'
<1>1. PICK a \in Angles :
        /\ shaft' = a
        /\ seen' = IF Reading THEN seen \cup {a} ELSE seen
        /\ passed' = (passed \/ (Reading /\ TurnOf(a) # TurnOf(shaft)))
  BY DEF Turn, TurnOf
<1>2. UNCHANGED <<line, rx, doing, cmd, waiting, buf, turns, tries, val, result, late>>
  BY DEF Turn, readVars
<1>3. AmtTypes'
  BY <1>1, <1>2, AnglesFit DEF AmtInv, AmtTypes
<1>4. Doing' /\ Around'
  BY <1>2 DEF AmtInv, Doing, Around
<1>5. Answers'
  <2> SUFFICES ASSUME doing = "fetch", ~late, MULTI_TURN => ~passed'
               PROVE  /\ MULTI_TURN /\ cmd = "pos" => turns = TurnOf(a)
                      /\ waiting => AllFit(line)' /\ AllFit(rx)' /\ AllFit(buf)'
    BY <1>1, <1>2 DEF Answers
  <2>1. /\ MULTI_TURN => ~passed
        /\ MULTI_TURN /\ cmd = "pos" => turns = TurnOf(shaft)
        /\ waiting => AllFit(line) /\ AllFit(rx) /\ AllFit(buf)
    BY <1>1 DEF AmtInv, Answers
  <2>2. waiting \/ (MULTI_TURN /\ cmd = "pos") => Reading
    BY DEF Reading, First
  <2>3. Reading /\ MULTI_TURN => TurnOf(a) = TurnOf(shaft)
    BY <1>1
  <2>4. ASSUME waiting, NEW b, Fits(b) PROVE Fits(b)'
    BY <1>1, <1>2, <2>2, <2>3, <2>4 DEF Fits, AmtInv, Doing
  <2>5. waiting => AllFit(line)' /\ AllFit(rx)' /\ AllFit(buf)'
    BY <1>2, <2>1, <2>4 DEF AllFit
  <2>6. QED
    BY <2>1, <2>2, <2>3, <2>5
<1>6. FetchedTogether'
  <2>1. result = "ok" => ~Reading
    BY DEF AmtInv, Doing, Reading
  <2>2. QED
    BY <1>1, <1>2, <2>1 DEF AmtInv, FetchedTogether
<1>7. QED
  BY <1>3, <1>4, <1>5, <1>6 DEF AmtInv

(* The head and the tail of a queue of bytes, and what is put at its end. *)
LEMMA BytesMoved ==
    ASSUME NEW q \in Seq(Bytes), NEW b \in Bytes
    PROVE  /\ Append(q, b) \in Seq(Bytes) /\ Len(Append(q, b)) = Len(q) + 1 /\ Len(q) \in Nat
           /\ AllFit(q) /\ Fits(b) => AllFit(Append(q, b))
           /\ q # <<>> => /\ Head(q) \in Bytes /\ Tail(q) \in Seq(Bytes)
                          /\ Len(Tail(q)) = Len(q) - 1 /\ Len(q) >= 1
                          /\ AllFit(q) => Fits(Head(q)) /\ AllFit(Tail(q))
<1>1. /\ Append(q, b) \in Seq(Bytes) /\ Len(Append(q, b)) = Len(q) + 1 /\ Len(q) \in Nat
      /\ \A k \in 1..Len(q) : Append(q, b)[k] = q[k]
      /\ Append(q, b)[Len(q) + 1] = b
  OBVIOUS
<1>2. AllFit(q) /\ Fits(b) => AllFit(Append(q, b))
  BY <1>1 DEF AllFit
<1>3. q # <<>> => /\ Head(q) \in Bytes /\ Tail(q) \in Seq(Bytes) /\ Head(q) = q[1]
                  /\ Len(Tail(q)) = Len(q) - 1 /\ Len(q) >= 1
                  /\ \A k \in 1..Len(q) - 1 : Tail(q)[k] = q[k + 1]
  OBVIOUS
<1>4. q # <<>> /\ AllFit(q) => Fits(Head(q)) /\ AllFit(Tail(q))
  BY <1>1, <1>3 DEF AllFit
<1>5. QED
  BY <1>1, <1>2, <1>3, <1>4

(* What fits and what does not is not changed by bytes that move. *)
LEMMA SameFit ==
    ASSUME UNCHANGED <<shaft, cmd, seen>>
    PROVE  (\A b : Fits(b)' <=> Fits(b)) /\ (\A q : AllFit(q)' <=> AllFit(q))
<1>1. \A b : Fits(b)' <=> Fits(b)
  BY DEF Fits
<1>2. QED
  BY <1>1 DEF AllFit

(* Bytes go on, or get lost. *)
LEMMA LineKeeps ==
    ASSUME AmtInv, Arrive \/ Lose
    PROVE  AmtInv'
<1>1. /\ line # <<>> /\ line' = Tail(line)
      /\ UNCHANGED <<shaft, doing, cmd, waiting, buf, turns, val, result, late, passed, seen>>
      /\ rx' = rx \/ rx' = Append(rx, Head(line))
  BY DEF Arrive, Lose, readVars
<1>2. line \in Seq(Bytes) /\ rx \in Seq(Bytes) /\ buf \in Seq(Bytes)
  BY DEF AmtInv, AmtTypes
<1>3. /\ Head(line) \in Bytes /\ Tail(line) \in Seq(Bytes)
      /\ Len(Tail(line)) = Len(line) - 1 /\ Len(line) >= 1 /\ Len(line) \in Nat
      /\ AllFit(line) => Fits(Head(line)) /\ AllFit(Tail(line))
  <2>1. [value |-> 0, half |-> 1] \in Bytes
    BY DEF Bytes
  <2>2. QED
    BY <1>1, <1>2, <2>1, BytesMoved
<1>4. /\ rx' \in Seq(Bytes) /\ Len(rx') <= Len(rx) + 1 /\ Len(rx) \in Nat /\ Len(rx') \in Nat
      /\ AllFit(rx) /\ AllFit(line) => AllFit(rx')
  <2>1. CASE rx' = rx
    BY <1>2, <2>1
  <2>2. CASE rx' = Append(rx, Head(line))
    <3>1. /\ Append(rx, Head(line)) \in Seq(Bytes)
          /\ Len(Append(rx, Head(line))) = Len(rx) + 1 /\ Len(rx) \in Nat
          /\ AllFit(rx) /\ Fits(Head(line)) => AllFit(Append(rx, Head(line)))
      BY <1>2, <1>3, BytesMoved
    <3>2. QED
      BY <1>3, <2>2, <3>1
  <2>3. QED
    BY <1>1, <2>1, <2>2
<1>5. AmtTypes' /\ Doing' /\ FetchedTogether'
  BY <1>1, <1>3, <1>4 DEF AmtInv, AmtTypes, Doing, FetchedTogether
<1>6. Around'
  <2>1. Len(buf) \in Nat
    BY <1>2
  <2>2. ~late => waiting
    BY <1>1 DEF AmtInv, Around
  <2>3. QED
    BY <1>1, <1>3, <1>4, <2>1, <2>2 DEF AmtInv, Around
<1>7. Answers'
  <2>1. \A q : AllFit(q)' <=> AllFit(q)
    BY <1>1, SameFit
  <2>2. AllFit(line) /\ AllFit(rx) /\ AllFit(buf) => AllFit(line') /\ AllFit(rx') /\ AllFit(buf')
    BY <1>1, <1>3, <1>4
  <2>3. QED
    BY <1>1, <1>3, <1>4, <2>1, <2>2 DEF AmtInv, Answers, AllFit, Fits
<1>8. QED
  BY <1>5, <1>6, <1>7 DEF AmtInv

(* A byte of the answer is taken from the receiver. *)
LEMMA PollInKeeps ==
    ASSUME AmtInv, PollIn
    PROVE  AmtInv'
<1>1. /\ waiting /\ rx # <<>> /\ rx' = Tail(rx) /\ buf' = Append(buf, Head(rx))
      /\ UNCHANGED <<shaft, line, doing, cmd, waiting, turns, val, result, late, passed, seen>>
  BY DEF PollIn
<1>2. line \in Seq(Bytes) /\ rx \in Seq(Bytes) /\ buf \in Seq(Bytes)
  BY DEF AmtInv, AmtTypes
<1>3. /\ Head(rx) \in Bytes /\ Tail(rx) \in Seq(Bytes)
      /\ Len(Tail(rx)) = Len(rx) - 1 /\ Len(rx) >= 1 /\ Len(rx) \in Nat
      /\ AllFit(rx) => Fits(Head(rx)) /\ AllFit(Tail(rx))
  <2>1. [value |-> 0, half |-> 1] \in Bytes
    BY DEF Bytes
  <2>2. QED
    BY <1>1, <1>2, <2>1, BytesMoved
<1>4. /\ buf' \in Seq(Bytes) /\ Len(buf') = Len(buf) + 1 /\ Len(buf) \in Nat
      /\ AllFit(buf) /\ AllFit(rx) => AllFit(buf')
  BY <1>1, <1>2, <1>3, BytesMoved
<1>5. AmtTypes' /\ Doing' /\ FetchedTogether'
  BY <1>1, <1>3, <1>4 DEF AmtInv, AmtTypes, Doing, FetchedTogether
<1>6. Around'
  BY <1>1, <1>2, <1>3, <1>4 DEF AmtInv, Around
<1>7. Answers'
  <2>1. AllFit(line) /\ AllFit(rx) /\ AllFit(buf) => AllFit(line') /\ AllFit(rx') /\ AllFit(buf')
    BY <1>1, <1>3, <1>4
  <2>2. QED
    BY <1>1, <2>1 DEF AmtInv, Answers, AllFit, Fits
<1>8. QED
  BY <1>5, <1>6, <1>7 DEF AmtInv

(* The command is sent: what comes back answers it, and nothing else is on  *)
(* its way unless answers came late.                                        *)
LEMMA SendKeeps ==
    ASSUME AmtInv, Send
    PROVE  AmtInv'
<1> SUFFICES ASSUME NEW v, v = Answer(cmd), NEW two, two = <<[value |-> v, half |-> 1], [value |-> v, half |-> 2]>>
             PROVE  AmtInv'
  OBVIOUS
<1>1. /\ doing \in {"init", "fetch"} /\ ~waiting /\ waiting' = TRUE /\ buf' = <<>>
      /\ line' = line \/ line' = line \o two
      /\ late' = (late /\ (cmd # First \/ line # <<>> \/ rx # <<>>))
      /\ seen' = seen \cup {shaft}
      /\ UNCHANGED <<shaft, rx, doing, cmd, turns, tries, val, result, passed>>
  BY DEF Send
<1>2. v \in Int /\ v = IF cmd = "turns" THEN TurnOf(shaft) % Turns ELSE PosOf(shaft)
  <2>1. v = IF cmd = "turns" THEN TurnOf(shaft) % Turns ELSE PosOf(shaft)
    BY DEF Answer, TurnOf, PosOf
  <2>2. PosOf(shaft) \in Int /\ TurnOf(shaft) \in Int
    BY AngleParts DEF AmtInv, AmtTypes
  <2>3. TurnOf(shaft) % Turns \in Int
    BY <2>2, TurnsExtended DEF AmtInv, AmtTypes
  <2>4. QED
    BY <2>1, <2>2, <2>3
<1>3. two \in Seq(Bytes) /\ Len(two) = 2 /\ \A k \in 1..2 : two[k].value = v
  BY <1>2 DEF Bytes
<1>4. AmtTypes'
  <2>1. line' \in Seq(Bytes)
    <3>1. line \in Seq(Bytes)
      BY DEF AmtInv, AmtTypes
    <3>2. line \o two \in Seq(Bytes)
      BY <1>3, <3>1
    <3>3. QED
      BY <1>1, <3>1, <3>2
  <2>2. buf' \in Seq(Bytes) /\ seen' \subseteq Int /\ waiting' \in BOOLEAN /\ late' \in BOOLEAN
    BY <1>1 DEF AmtInv, AmtTypes
  <2>3. QED
    BY <1>1, <2>1, <2>2 DEF AmtInv, AmtTypes, TurnOf
<1>5. Doing' /\ FetchedTogether'
  BY <1>1 DEF AmtInv, Doing, FetchedTogether
<1>6. ~late' => line = <<>> /\ rx = <<>>
  BY <1>1 DEF AmtInv, Around
<1>7. Around'
  <2>1. ~late' => Len(line') <= 2 /\ Len(line') \in Nat /\ Len(rx') = 0 /\ Len(buf') = 0
    BY <1>1, <1>3, <1>6
  <2>2. QED
    BY <1>1, <2>1 DEF Around
<1>8. Answers'
  <2> SUFFICES ASSUME doing = "fetch", ~late', MULTI_TURN => ~passed
               PROVE  /\ MULTI_TURN /\ cmd = "pos" => turns = TurnOf(shaft)
                      /\ AllFit(line)' /\ AllFit(rx)' /\ AllFit(buf)'
    BY <1>1 DEF Answers, TurnOf
  <2>1. MULTI_TURN /\ cmd = "pos" => ~late
    BY <1>1 DEF First
  <2>2. MULTI_TURN /\ cmd = "pos" => turns = TurnOf(shaft)
    BY <2>1 DEF AmtInv, Answers
  <2>3. \A b : b.value = v => Fits(b)'
    BY <1>1, <1>2 DEF Fits, TurnOf, PosOf
  <2>4. line' = <<>> \/ line' = two
    BY <1>1, <1>3, <1>6
  <2>5. AllFit(line)' /\ AllFit(rx)' /\ AllFit(buf)'
    BY <1>1, <1>3, <1>6, <2>3, <2>4 DEF AllFit
  <2>6. QED
    BY <2>2, <2>5
<1>9. QED
  BY <1>4, <1>5, <1>7, <1>8 DEF AmtInv

(* An attempt that starts over, or the last one, has nothing read yet. *)
LEMMA RetryKeeps ==
    ASSUME AmtInv, Retry, waiting, seen' = {}, UNCHANGED <<shaft, line, rx, buf>>,
           late' \in BOOLEAN, passed' = FALSE, late => late',
           ~late' => line = <<>> /\ rx = <<>>
    PROVE  AmtInv'
<1>1. /\ waiting' = FALSE /\ UNCHANGED <<turns, val>>
      /\ \/ cmd' = First /\ UNCHANGED <<doing, result>>
         \/ /\ doing' \in {"absent", "idle"} /\ UNCHANGED cmd
            /\ result' = result \/ result' = "failed"
  BY DEF Retry
<1>2. doing \in {"init", "fetch"} /\ result # "ok" /\ First \in {"turns", "pos"}
  BY DEF AmtInv, Doing, First
<1>3. AmtTypes'
  <2>1. cmd' \in {"turns", "pos"} /\ doing' \in {"init", "idle", "fetch", "absent"}
    BY <1>1, <1>2 DEF AmtInv, AmtTypes
  <2>2. waiting' \in BOOLEAN /\ passed' \in BOOLEAN
    BY <1>1
  <2>3. QED
    BY <1>1, <2>1, <2>2 DEF AmtInv, AmtTypes
<1>4. Doing'
  <2>1. cmd' = "turns" => MULTI_TURN
    BY <1>1 DEF AmtInv, Doing, First
  <2>2. result' # "ok"
    BY <1>1, <1>2
  <2>3. doing' = "fetch" => doing = "fetch"
    BY <1>1
  <2>4. QED
    BY <1>1, <2>1, <2>2, <2>3 DEF AmtInv, Doing
<1>5. Around'
  BY <1>1 DEF Around
<1>6. Answers'
  <2>1. doing' = "fetch" /\ MULTI_TURN => cmd' = "turns"
    BY <1>1 DEF First
  <2>2. QED
    BY <1>1, <2>1 DEF Answers
<1>7. FetchedTogether'
  BY <1>1, <1>2 DEF FetchedTogether
<1>8. QED
  BY <1>3, <1>4, <1>5, <1>6, <1>7 DEF AmtInv

(* No answer in time, or a garbled one. *)
LEMMA FailureKeeps ==
    ASSUME AmtInv, Timeout \/ Reject
    PROVE  AmtInv'
<1>1. CASE Timeout
  <2>1. /\ Retry /\ waiting /\ seen' = {} /\ UNCHANGED <<shaft, line, rx, buf>>
        /\ passed' = FALSE /\ late' = (late \/ line # <<>>) /\ rx = <<>>
    BY <1>1 DEF Timeout
  <2>2. late' \in BOOLEAN /\ (late => late') /\ (~late' => line = <<>>)
    BY <2>1
  <2>3. QED
    BY <2>1, <2>2, RetryKeeps
<1>2. CASE Reject
  <2>1. /\ Len(buf) = 2 /\ waiting /\ seen' = {} /\ passed' = FALSE
        /\ UNCHANGED <<shaft, line, rx, buf, late>>
    BY <1>2 DEF Reject
  <2>2. ~late => line = <<>> /\ rx = <<>>
    <3>1. ~late => Len(line) + Len(rx) <= 0 /\ Len(line) \in Nat /\ Len(rx) \in Nat
      BY <2>1 DEF AmtInv, AmtTypes, Around
    <3>2. line \in Seq(Bytes) /\ rx \in Seq(Bytes)
      BY DEF AmtInv, AmtTypes
    <3>3. QED
      BY <3>1, <3>2
  <2>3. CASE Retry
    <3>1. late' \in BOOLEAN /\ (late => late') /\ (~late' => line = <<>> /\ rx = <<>>)
      BY <2>1, <2>2 DEF AmtInv, AmtTypes
    <3>2. QED
      BY <2>1, <2>3, <3>1, RetryKeeps
  <2>4. CASE doing = "init" /\ doing' = "idle" /\ waiting' = FALSE
             /\ UNCHANGED <<cmd, turns, tries, val, result>>
    <3>1. result # "ok"
      BY <2>4 DEF AmtInv, Doing
    <3>2. waiting' \in BOOLEAN /\ passed' \in BOOLEAN
      BY <2>1, <2>4
    <3>3. AmtTypes'
      BY <2>1, <2>4, <3>2 DEF AmtInv, AmtTypes, TurnOf
    <3>4. Doing' /\ Around' /\ FetchedTogether'
      BY <2>1, <2>2, <2>4, <3>1 DEF AmtInv, Doing, Around, FetchedTogether
    <3>5. Answers'
      BY <2>4 DEF Answers
    <3>6. QED
      BY <3>3, <3>4, <3>5 DEF AmtInv
  <2>5. QED
    BY <1>2, <2>3, <2>4 DEF Reject
<1>3. QED
  BY <1>1, <1>2

(* The turns are accepted, or the position: then the turns are those of the *)
(* angle whose position it is.                                              *)
LEMMA AcceptKeeps ==
    ASSUME AmtInv, Accept
    PROVE  AmtInv'
<1> SUFFICES ASSUME NEW v, v = buf[2].value
             PROVE  AmtInv'
  OBVIOUS
<1>1. /\ Len(buf) = 2 /\ waiting /\ waiting' = FALSE
      /\ UNCHANGED <<shaft, line, rx, buf, tries, late, passed, seen>>
      /\ \/ /\ doing = "fetch" /\ cmd = "turns"
            /\ turns' = SignExtend(v) /\ cmd' = "pos" /\ UNCHANGED <<doing, val, result>>
         \/ /\ doing = "fetch" /\ cmd # "turns" /\ doing' = "idle"
            /\ val' = turns * Resolution + v /\ result' = "ok" /\ UNCHANGED <<turns, cmd>>
         \/ /\ doing # "fetch" /\ doing' = "idle" /\ UNCHANGED <<val, result, turns, cmd>>
  BY DEF Accept
<1>2. v \in Int /\ buf[2] \in Bytes
  <2>1. buf \in Seq(Bytes) /\ 2 \in 1..Len(buf)
    BY <1>1 DEF AmtInv, AmtTypes
  <2>2. buf[2] \in Bytes
    BY <2>1
  <2>3. QED
    BY <2>2 DEF Bytes
<1>3. ~late => line = <<>> /\ rx = <<>>
  <2>1. ~late => Len(line) + Len(rx) <= 0 /\ Len(line) \in Nat /\ Len(rx) \in Nat
    BY <1>1 DEF AmtInv, AmtTypes, Around
  <2>2. line \in Seq(Bytes) /\ rx \in Seq(Bytes)
    BY DEF AmtInv, AmtTypes
  <2>3. QED
    BY <2>1, <2>2
<1>4. Around'
  BY <1>1, <1>3 DEF Around
<1>5. doing = "fetch" /\ ~late /\ (MULTI_TURN => ~passed) =>
        /\ MULTI_TURN /\ cmd = "pos" => turns = TurnOf(shaft)
        /\ cmd = "turns" => v = TurnOf(shaft) % Turns
        /\ cmd # "turns" => \E a \in seen : v = PosOf(a) /\ (MULTI_TURN => TurnOf(a) = TurnOf(shaft))
  BY <1>1 DEF AmtInv, Answers, AllFit, Fits
<1>6. result # "ok" /\ waiting' \in BOOLEAN
  BY <1>1 DEF AmtInv, Doing
<1>7. CASE doing = "fetch" /\ cmd = "turns" /\ turns' = SignExtend(v) /\ cmd' = "pos"
           /\ UNCHANGED <<doing, val, result>>
  <2>1. SignExtend(v) \in Int /\ (v = TurnOf(shaft) % Turns => SignExtend(v) = TurnOf(shaft))
    <3>1. TurnOf(shaft) \in Int
      BY AngleParts DEF AmtInv, AmtTypes
    <3>2. QED
      BY <1>2, <3>1, TurnsExtended DEF AmtInv, AmtTypes
  <2>2. AmtTypes'
    BY <1>1, <1>6, <1>7, <2>1 DEF AmtInv, AmtTypes, TurnOf
  <2>3. Doing' /\ FetchedTogether'
    BY <1>1, <1>6, <1>7 DEF AmtInv, Doing, FetchedTogether
  <2>4. Answers'
    BY <1>1, <1>5, <1>7, <2>1 DEF Answers, TurnOf
  <2>5. QED
    BY <1>4, <2>2, <2>3, <2>4 DEF AmtInv
<1>8. CASE doing = "fetch" /\ cmd # "turns" /\ doing' = "idle"
           /\ val' = turns * Resolution + v /\ result' = "ok" /\ UNCHANGED <<turns, cmd>>
  <2>1. val' \in Int
    BY <1>2, <1>8, Amt21Assumption DEF AmtInv, AmtTypes
  <2>2. AmtTypes'
    BY <1>1, <1>6, <1>8, <2>1 DEF AmtInv, AmtTypes, TurnOf
  <2>3. Doing' /\ Answers'
    BY <1>1, <1>8 DEF AmtInv, Doing, Answers
  <2>4. FetchedTogether'
    <3> SUFFICES ASSUME ~late, MULTI_TURN => ~passed
                 PROVE  \E a \in seen : val' = IF MULTI_TURN THEN a ELSE PosOf(a)
      BY <1>1 DEF FetchedTogether, PosOf
    <3>1. PICK a \in seen : v = PosOf(a) /\ (MULTI_TURN => TurnOf(a) = TurnOf(shaft))
      BY <1>5, <1>8
    <3>2. /\ MULTI_TURN => turns = TurnOf(a)
          /\ ~MULTI_TURN => turns = 0
      BY <1>5, <1>8, <3>1 DEF AmtInv, AmtTypes, Doing
    <3>3. a \in Int /\ a = TurnOf(a) * Resolution + PosOf(a)
      BY AngleParts DEF AmtInv, AmtTypes
    <3>4. val' = IF MULTI_TURN THEN a ELSE PosOf(a)
      <4>1. CASE MULTI_TURN
        BY <1>8, <3>1, <3>2, <3>3, <4>1
      <4>2. CASE ~MULTI_TURN
        BY <1>2, <1>8, <3>1, <3>2, <4>2, Amt21Assumption
      <4>3. QED
        BY <4>1, <4>2
    <3>5. QED
      BY <3>4
  <2>5. QED
    BY <1>4, <2>2, <2>3, <2>4 DEF AmtInv
<1>9. CASE doing # "fetch" /\ doing' = "idle" /\ UNCHANGED <<val, result, turns, cmd>>
  <2>1. AmtTypes'
    BY <1>1, <1>6, <1>9 DEF AmtInv, AmtTypes, TurnOf
  <2>2. Doing' /\ Answers' /\ FetchedTogether'
    BY <1>1, <1>6, <1>9 DEF AmtInv, Doing, Answers, FetchedTogether
  <2>3. QED
    BY <1>4, <2>1, <2>2 DEF AmtInv
<1>10. QED
  BY <1>1, <1>7, <1>8, <1>9

(* A fetch starts, or the encoder is set to zero or reset under way. *)
LEMMA CallKeeps ==
    ASSUME AmtInv, SampleFetch \/ SetZeroPos \/ ResetEncoder
    PROVE  AmtInv'
<1>1. CASE SampleFetch
  <2>1. /\ doing = "idle" /\ doing' = "fetch" /\ cmd' = IF MULTI_TURN THEN "turns" ELSE "pos"
        /\ waiting' = FALSE /\ turns' = 0 /\ result' = "none" /\ seen' = {} /\ passed' = FALSE
        /\ UNCHANGED <<shaft, line, rx, buf, val, late>>
    BY <1>1 DEF SampleFetch
  <2>2. ~waiting
    BY <2>1 DEF AmtInv, Doing
  <2>3. AmtTypes'
    <3>1. waiting' \in BOOLEAN /\ passed' \in BOOLEAN /\ cmd' \in {"turns", "pos"}
      BY <2>1
    <3>2. QED
      BY <2>1, <3>1 DEF AmtInv, AmtTypes, TurnOf
  <2>4. Doing' /\ Around' /\ Answers' /\ FetchedTogether'
    BY <2>1, <2>2 DEF AmtInv, Doing, Around, Answers, FetchedTogether
  <2>5. QED
    BY <2>3, <2>4 DEF AmtInv
<1>2. CASE SetZeroPos \/ ResetEncoder
  <2>1. /\ shaft' = 0 \/ shaft' = PosOf(shaft)
        /\ line' = line \/ line' = <<>>
        /\ passed' = (passed \/ Reading)
        /\ UNCHANGED <<rx, doing, cmd, waiting, buf, turns, tries, val, result, late, seen>>
    BY <1>2 DEF SetZeroPos, ResetEncoder, readVars, PosOf
  <2>2. shaft' \in Int /\ TurnOf(shaft') = 0
    <3>1. shaft \in Int
      BY DEF AmtInv, AmtTypes
    <3>2. CASE shaft' = 0
      BY <3>2, AnglesFit
    <3>3. CASE shaft' = PosOf(shaft)
      BY <3>1, <3>3, AnglesFit
    <3>4. QED
      BY <2>1, <3>2, <3>3
  <2>3. AmtTypes'
    <3>1. passed' \in BOOLEAN
      BY <2>1
    <3>2. line' \in Seq(Bytes)
      <4>1. line \in Seq(Bytes) /\ <<>> \in Seq(Bytes)
        BY DEF AmtInv, AmtTypes
      <4>2. line' = line \/ line' = <<>>
        BY <2>1
      <4>3. QED
        BY <4>1, <4>2
    <3>3. QED
      BY <2>1, <2>2, <3>1, <3>2, AnglesFit DEF AmtInv, AmtTypes
  <2>4. Doing'
    BY <2>1 DEF AmtInv, Doing
  <2>5. Around'
    <3>1. line \in Seq(Bytes) /\ rx \in Seq(Bytes) /\ buf \in Seq(Bytes)
      BY DEF AmtInv, AmtTypes
    <3>2. Len(line') <= Len(line) /\ Len(line') \in Nat /\ Len(line) \in Nat
      BY <2>1, <3>1
    <3>3. QED
      BY <2>1, <3>1, <3>2 DEF AmtInv, Around
  <2>6. Answers'
    <3>1. waiting \/ (MULTI_TURN /\ cmd = "pos") => (doing = "fetch" => Reading)
      BY DEF Reading, First
    <3>2. CASE MULTI_TURN
      BY <2>1, <3>1, <3>2 DEF Answers
    <3>3. CASE ~MULTI_TURN
      <4>1. cmd # "turns"
        BY <3>3 DEF AmtInv, Doing
      <4>2. \A b : Fits(b)' <=> Fits(b)
        BY <2>1, <3>3, <4>1 DEF Fits, PosOf
      <4>3. AllFit(line)' /\ AllFit(rx)' /\ AllFit(buf)' <=> AllFit(line') /\ AllFit(rx) /\ AllFit(buf)
        BY <2>1, <4>2 DEF AllFit
      <4>4. AllFit(line) => AllFit(line')
        BY <2>1 DEF AllFit
      <4>5. QED
        BY <2>1, <3>3, <4>3, <4>4 DEF AmtInv, Answers
    <3>4. QED
      BY <3>2, <3>3
  <2>7. FetchedTogether'
    <3>1. result = "ok" => ~Reading
      BY DEF AmtInv, Doing, Reading
    <3>2. QED
      BY <2>1, <3>1 DEF AmtInv, FetchedTogether
  <2>8. QED
    BY <2>3, <2>4, <2>5, <2>6, <2>7 DEF AmtInv
<1>3. QED
  BY <1>1, <1>2

(* For every resolution up to 14 bits, every receiver and any number of     *)
(* attempts: a fetch that succeeds returns an angle of the shaft.           *)
THEOREM FetchedTogetherHolds == AmtInit /\ [][AmtNext]_amtVars => []FetchedTogether
<1>1. ASSUME AmtInit PROVE AmtInv
  <2>1. AmtTypes
    <3>1. waiting \in BOOLEAN /\ late \in BOOLEAN /\ passed \in BOOLEAN
      BY <1>1 DEF AmtInit
    <3>2. QED
      BY <1>1, <3>1, AnglesFit DEF AmtInit, AmtTypes
  <2>2. Doing /\ Around /\ Answers /\ FetchedTogether
    BY <1>1 DEF AmtInit, Doing, Around, Answers, FetchedTogether
  <2>3. QED
    BY <2>1, <2>2 DEF AmtInv
<1>2. ASSUME AmtInv, [AmtNext]_amtVars PROVE AmtInv'
  <2>1. CASE UNCHANGED amtVars
    BY <1>2, <2>1 DEF amtVars, AmtInv, AmtTypes, Doing, Around, Answers, AllFit, Fits,
                      FetchedTogether, TurnOf, PosOf
  <2>2. QED
    BY <1>2, <2>1, TurnKeeps, LineKeeps, PollInKeeps, SendKeeps, FailureKeeps, AcceptKeeps,
       CallKeeps DEF AmtNext
<1>3. AmtInv => FetchedTogether
  BY DEF AmtInv
<1>4. QED
  BY <1>1, <1>2, <1>3, PTL

-----------------------------------------------------------------------------
(* The IMU.                                                                *)

JyTypes ==
    /\ sample \in Nat /\ data \in [Fields -> Nat]
    /\ pc \in [Clients -> {"idle", "read", "store", "get"}]
    /\ burst \in [Clients -> DOMAIN Bursts]
    /\ read \in [Clients -> [value : Nat, stored : Nat]]
    /\ channel \in [Clients -> Channels \cup {<<>>}] /\ got \in [Clients -> Seq(Nat)]
    /\ mine \in [Clients -> [DOMAIN Bursts -> Nat]]
    /\ fetched \in [Clients -> BOOLEAN] /\ disturbed \in [Clients -> BOOLEAN]
    /\ writers \subseteq Clients

(* Where a client is. *)
Client(c) ==
    /\ pc[c] \in {"idle", "get"} => burst[c] = 1
    /\ pc[c] \in {"read", "store"} => ~fetched[c] /\ got[c] = <<>>
    /\ pc[c] = "store" => /\ read[c].stored < Len(Bursts[burst[c]])
                          /\ read[c].value = mine[c][burst[c]]
    /\ pc[c] = "get" => Len(got[c]) < Len(channel[c])
    /\ Len(got[c]) <= Len(channel[c])
    /\ disturbed[c] => \E d \in writers : d # c

Holds(c, b, n) == \A k \in 1..n : data[Bursts[b][k]] = mine[c][b]

(* What an undisturbed fetch has stored is there, and so is what was got.   *)
Stored(c) ==
    ~disturbed[c] =>
      /\ pc[c] \in {"read", "store"} =>
           \A b \in DOMAIN Bursts : b < burst[c] => Holds(c, b, Len(Bursts[b]))
      /\ pc[c] = "store" => Holds(c, burst[c], read[c].stored)
      /\ fetched[c] => /\ \A b \in DOMAIN Bursts : Holds(c, b, Len(Bursts[b]))
                       /\ \A k \in 1..Len(got[c]) : got[c][k] = mine[c][BurstOf(channel[c][k])]

Same(b) == \A j, k \in 1..Len(Bursts[b]) : data[Bursts[b][j]] = data[Bursts[b][k]]

(* If nobody else has ever stored, the fields of a transfer are of one      *)
(* sample whenever the client is not storing them.                          *)
Alone(c) ==
    writers \subseteq {c} =>
      /\ \A b \in DOMAIN Bursts : (pc[c] = "store" /\ b = burst[c]) \/ Same(b)
      /\ \A j, k \in 1..Len(got[c]) : got[c][j] = got[c][k]
      /\ pc[c] = "get" => \A k \in 1..Len(got[c]) : got[c][k] = data[channel[c][k]]

JyInv == JyTypes /\ \A c \in Clients : Client(c) /\ Stored(c) /\ Alone(c)

(* The fields of the transfers and of the channels. *)
LEMMA FieldFacts ==
    /\ DOMAIN Bursts = 1..Len(Bursts) /\ Len(Bursts) \in Nat /\ 1 \in DOMAIN Bursts
    /\ \A b \in DOMAIN Bursts :
         /\ DOMAIN Bursts[b] = 1..Len(Bursts[b]) /\ Len(Bursts[b]) \in Nat /\ Len(Bursts[b]) > 0
         /\ \A k \in 1..Len(Bursts[b]) : Bursts[b][k] \in Fields /\ BurstOf(Bursts[b][k]) = b
    /\ \A b, d \in DOMAIN Bursts : \A j \in 1..Len(Bursts[b]), k \in 1..Len(Bursts[d]) :
         Bursts[b][j] = Bursts[d][k] => b = d /\ j = k
<1>1. /\ Bursts \in Seq(Seq(Fields)) /\ Bursts # <<>>
      /\ \A b \in DOMAIN Bursts : Bursts[b] # <<>>
      /\ \A b, d \in DOMAIN Bursts : \A j \in DOMAIN Bursts[b], k \in DOMAIN Bursts[d] :
           Bursts[b][j] = Bursts[d][k] => b = d /\ j = k
  BY JyAssumption
<1>2. DOMAIN Bursts = 1..Len(Bursts) /\ Len(Bursts) \in Nat /\ 1 \in DOMAIN Bursts
  BY <1>1
<1>3. \A b \in DOMAIN Bursts : Bursts[b] \in Seq(Fields)
  BY <1>1
<1>4. \A b \in DOMAIN Bursts :
        /\ DOMAIN Bursts[b] = 1..Len(Bursts[b]) /\ Len(Bursts[b]) \in Nat /\ Len(Bursts[b]) > 0
        /\ \A k \in 1..Len(Bursts[b]) : Bursts[b][k] \in Fields
  BY <1>1, <1>3
<1>5. ASSUME NEW b \in DOMAIN Bursts, NEW k \in 1..Len(Bursts[b])
      PROVE  BurstOf(Bursts[b][k]) = b
  <2>1. Bursts[b][k] \in Range(Bursts[b])
    BY <1>4 DEF Range
  <2>2. ASSUME NEW d \in DOMAIN Bursts, Bursts[b][k] \in Range(Bursts[d]) PROVE d = b
    BY <1>1, <1>4, <2>2 DEF Range
  <2>3. QED
    BY <2>1, <2>2 DEF BurstOf
<1>6. QED
  BY <1>1, <1>2, <1>4, <1>5

(* All fields of a channel come in one transfer. *)
LEMMA ChannelFacts ==
    ASSUME NEW ch \in Channels
    PROVE  /\ Len(ch) \in Nat /\ Len(ch) > 0
           /\ \E b \in DOMAIN Bursts : \A k \in 1..Len(ch) :
                /\ ch[k] \in Fields /\ BurstOf(ch[k]) = b
                /\ \E j \in 1..Len(Bursts[b]) : ch[k] = Bursts[b][j]
<1>1. ch \in Seq(Fields) /\ ch # <<>>
  BY JyAssumption
<1>2. PICK b \in DOMAIN Bursts : Range(ch) \subseteq Range(Bursts[b])
  BY JyAssumption
<1>3. ASSUME NEW k \in 1..Len(ch)
      PROVE  /\ ch[k] \in Fields /\ BurstOf(ch[k]) = b
             /\ \E j \in 1..Len(Bursts[b]) : ch[k] = Bursts[b][j]
  <2>1. ch[k] \in Range(ch)
    BY <1>1 DEF Range
  <2>2. PICK j \in 1..Len(Bursts[b]) : ch[k] = Bursts[b][j]
    <3>1. DOMAIN Bursts[b] = 1..Len(Bursts[b])
      BY FieldFacts
    <3>2. \E j \in DOMAIN Bursts[b] : ch[k] = Bursts[b][j]
      BY <1>2, <2>1 DEF Range
    <3>3. QED
      BY <3>1, <3>2
  <2>3. QED
    BY <2>2, FieldFacts
<1>4. QED
  BY <1>1, <1>3

(* A client that a step does not concern. *)
LEMMA OtherClient ==
    ASSUME NEW c \in Clients, Client(c) /\ Stored(c) /\ Alone(c),
           pc'[c] = pc[c], burst'[c] = burst[c], read'[c] = read[c], channel'[c] = channel[c],
           got'[c] = got[c], mine'[c] = mine[c], fetched'[c] = fetched[c],
           disturbed'[c] = disturbed[c], UNCHANGED <<data, writers>>
    PROVE  (Client(c) /\ Stored(c) /\ Alone(c))'
<1>1. \A b, n : Holds(c, b, n)' <=> Holds(c, b, n)
  BY DEF Holds
<1>2. \A b : Same(b)' <=> Same(b)
  BY DEF Same
<1>3. Client(c)'
  BY DEF Client
<1>4. Stored(c)'
  BY <1>1 DEF Stored, Holds
<1>5. Alone(c)'
  BY <1>2 DEF Alone
<1>6. QED
  BY <1>3, <1>4, <1>5

(* Nothing of a client but what it is given to begin with. *)
LEMMA SampleProbeKeep ==
    ASSUME JyInv, Sample \/ Probe \/ UNCHANGED jyVars
    PROVE  JyInv'
<1>1. UNCHANGED <<data, pc, burst, read, channel, got, mine, fetched, disturbed, writers>>
      /\ sample' \in Nat
  BY DEF Sample, Probe, jyVars, fetchVars, JyInv, JyTypes
<1>2. JyTypes'
  BY <1>1 DEF JyInv, JyTypes
<1>3. ASSUME NEW d \in Clients PROVE (Client(d) /\ Stored(d) /\ Alone(d))'
  BY <1>1, OtherClient DEF JyInv
<1>4. QED
  BY <1>2, <1>3 DEF JyInv

(* A fetch starts with nothing stored and nothing got. *)
LEMMA StartFetchKeeps ==
    ASSUME JyInv, NEW c \in Clients, StartFetch(c)
    PROVE  JyInv'
<1>1. /\ pc[c] = "idle" /\ pc' = [pc EXCEPT ![c] = "read"]
      /\ fetched' = [fetched EXCEPT ![c] = FALSE] /\ disturbed' = [disturbed EXCEPT ![c] = FALSE]
      /\ mine' = [mine EXCEPT ![c] = [b \in DOMAIN Bursts |-> 0]]
      /\ got' = [got EXCEPT ![c] = <<>>] /\ channel' = [channel EXCEPT ![c] = <<>>]
      /\ UNCHANGED <<sample, data, burst, read, writers>>
  BY DEF StartFetch
<1>2. JyTypes'
  BY <1>1 DEF JyInv, JyTypes
<1>3. ASSUME NEW d \in Clients, d # c PROVE (Client(d) /\ Stored(d) /\ Alone(d))'
  BY <1>1, <1>3, OtherClient DEF JyInv, JyTypes
<1>4. /\ pc'[c] = "read" /\ fetched'[c] = FALSE /\ disturbed'[c] = FALSE
      /\ got'[c] = <<>> /\ channel'[c] = <<>> /\ burst'[c] = 1
  BY <1>1 DEF JyInv, JyTypes, Client
<1>5. Client(c)'
  BY <1>4 DEF Client
<1>6. Stored(c)'
  BY <1>4, FieldFacts DEF Stored
<1>7. Alone(c)'
  <2>1. \A b : Same(b)' <=> Same(b)
    BY <1>1 DEF Same
  <2>2. writers \subseteq {c} => \A b \in DOMAIN Bursts : Same(b)
    BY <1>1 DEF JyInv, Alone
  <2>3. QED
    BY <1>1, <1>4, <2>1, <2>2 DEF Alone
<1>8. QED
  BY <1>2, <1>3, <1>5, <1>6, <1>7 DEF JyInv

(* A transfer is read. *)
LEMMA ReadKeeps ==
    ASSUME JyInv, NEW c \in Clients, Read(c)
    PROVE  JyInv'
<1> SUFFICES ASSUME NEW t, t = burst[c]
             PROVE  JyInv'
  OBVIOUS
<1>1. /\ pc[c] = "read" /\ pc' = [pc EXCEPT ![c] = "store"]
      /\ read' = [read EXCEPT ![c] = [value |-> sample, stored |-> 0]]
      /\ mine' = [mine EXCEPT ![c][t] = sample]
      /\ UNCHANGED <<sample, data, burst, channel, got, fetched, disturbed, writers>>
  BY DEF Read
<1>2. t \in DOMAIN Bursts /\ sample \in Nat /\ mine[c] \in [DOMAIN Bursts -> Nat]
  BY DEF JyInv, JyTypes
<1>3. /\ mine'[c] = [mine[c] EXCEPT ![t] = sample]
      /\ \A d \in Clients \ {c} : mine'[d] = mine[d]
      /\ mine' \in [Clients -> [DOMAIN Bursts -> Nat]]
  BY <1>1, <1>2 DEF JyInv, JyTypes
<1>4. JyTypes'
  <2>1. [value |-> sample, stored |-> 0] \in [value : Nat, stored : Nat]
    BY <1>2
  <2>2. read' \in [Clients -> [value : Nat, stored : Nat]]
    BY <1>1, <2>1 DEF JyInv, JyTypes
  <2>3. QED
    BY <1>1, <1>3, <2>2 DEF JyInv, JyTypes
<1>5. ASSUME NEW d \in Clients, d # c PROVE (Client(d) /\ Stored(d) /\ Alone(d))'
  BY <1>1, <1>3, <1>5, OtherClient DEF JyInv, JyTypes
<1>6. /\ pc'[c] = "store" /\ read'[c].value = sample /\ read'[c].stored = 0
      /\ mine'[c][t] = sample /\ \A b \in DOMAIN Bursts \ {t} : mine'[c][b] = mine[c][b]
      /\ fetched'[c] = FALSE /\ got'[c] = <<>>
  BY <1>1, <1>2, <1>3 DEF JyInv, JyTypes, Client
<1>7. Client(c)'
  BY <1>1, <1>2, <1>6, FieldFacts DEF JyInv, Client
<1>8. Stored(c)'
  <2> SUFFICES ASSUME ~disturbed[c]
               PROVE  /\ \A b \in DOMAIN Bursts : b < t => Holds(c, b, Len(Bursts[b]))'
                      /\ Holds(c, t, 0)'
    BY <1>1, <1>6 DEF Stored, Holds
  <2>1. \A b \in DOMAIN Bursts : b < t => Holds(c, b, Len(Bursts[b]))
    BY <1>1 DEF JyInv, Stored
  <2>2. QED
    BY <1>1, <1>2, <1>6, <2>1, FieldFacts DEF Holds
<1>9. Alone(c)'
  <2>1. \A b : Same(b)' <=> Same(b)
    BY <1>1 DEF Same
  <2>2. QED
    BY <1>1, <1>6, <2>1 DEF JyInv, Alone
<1>10. QED
  BY <1>4, <1>5, <1>7, <1>8, <1>9 DEF JyInv

(* A transfer fails: what the ones before it stored stays. *)
LEMMA ReadFailsKeeps ==
    ASSUME JyInv, NEW c \in Clients, ReadFails(c)
    PROVE  JyInv'
<1>1. /\ pc[c] = "read" /\ pc' = [pc EXCEPT ![c] = "idle"] /\ burst' = [burst EXCEPT ![c] = 1]
      /\ UNCHANGED <<sample, data, read, channel, got, mine, fetched, disturbed, writers>>
  BY DEF ReadFails
<1>2. JyTypes'
  BY <1>1, FieldFacts DEF JyInv, JyTypes
<1>3. ASSUME NEW d \in Clients, d # c PROVE (Client(d) /\ Stored(d) /\ Alone(d))'
  BY <1>1, <1>3, OtherClient DEF JyInv, JyTypes
<1>4. pc'[c] = "idle" /\ burst'[c] = 1 /\ ~fetched[c] /\ got[c] = <<>>
  BY <1>1 DEF JyInv, JyTypes, Client
<1>5. Client(c)' /\ Stored(c)'
  BY <1>1, <1>4 DEF JyInv, Client, Stored
<1>6. Alone(c)'
  <2>1. \A b : Same(b)' <=> Same(b)
    BY <1>1 DEF Same
  <2>2. QED
    BY <1>1, <1>4, <2>1 DEF JyInv, Alone
<1>7. QED
  BY <1>2, <1>3, <1>5, <1>6 DEF JyInv

(* A field is stored: every other client is disturbed; with the last field  *)
(* of a transfer all of it is there, and with the last transfer all are.    *)
LEMMA StoreKeeps ==
    ASSUME JyInv, NEW c \in Clients, Store(c)
    PROVE  JyInv'
<1> SUFFICES ASSUME NEW t, t = burst[c], NEW n, n = read[c].stored, NEW v, v = read[c].value
             PROVE  JyInv'
  OBVIOUS
<1> DEFINE f == Bursts[t][n + 1]
           full == n + 1 = Len(Bursts[t])
           last == full /\ t = Len(Bursts)
<1>1. /\ pc[c] = "store" /\ data' = [data EXCEPT ![f] = v]
      /\ read' = [read EXCEPT ![c] = IF full THEN Nothing ELSE [@ EXCEPT !.stored = n + 1]]
      /\ burst' = [burst EXCEPT ![c] = CASE last -> 1 [] full /\ ~last -> t + 1 [] OTHER -> t]
      /\ pc' = [pc EXCEPT ![c] = CASE last -> "idle" [] full /\ ~last -> "read" [] OTHER -> "store"]
      /\ fetched' = [fetched EXCEPT ![c] = last]
      /\ disturbed' = [d \in Clients |-> disturbed[d] \/ d # c]
      /\ writers' = writers \cup {c}
      /\ UNCHANGED <<sample, channel, got, mine>>
  BY DEF Store
<1>2. /\ t \in DOMAIN Bursts /\ n \in Nat /\ v \in Nat /\ n < Len(Bursts[t]) /\ v = mine[c][t]
      /\ n + 1 \in 1..Len(Bursts[t]) /\ f \in Fields /\ t \in Nat /\ t <= Len(Bursts)
      /\ Len(Bursts[t]) \in Nat /\ Len(Bursts) \in Nat
  <2>1. /\ t \in DOMAIN Bursts /\ n \in Nat /\ v \in Nat /\ n < Len(Bursts[t]) /\ v = mine[c][t]
    BY <1>1 DEF JyInv, JyTypes, Client
  <2>2. n + 1 \in 1..Len(Bursts[t]) /\ Len(Bursts[t]) \in Nat
    BY <2>1, FieldFacts
  <2>3. QED
    BY <2>1, <2>2, FieldFacts
<1>3. /\ data'[f] = v /\ data' \in [Fields -> Nat]
      /\ \A b \in DOMAIN Bursts : \A k \in 1..Len(Bursts[b]) :
           (b = t /\ k = n + 1) \/ data'[Bursts[b][k]] = data[Bursts[b][k]]
  <2>1. \A b \in DOMAIN Bursts : \A k \in 1..Len(Bursts[b]) :
          Bursts[b][k] \in Fields /\ (Bursts[b][k] = f => b = t /\ k = n + 1)
    BY <1>2, FieldFacts
  <2>2. data \in [Fields -> Nat] /\ f \in Fields /\ v \in Nat /\ data' = [data EXCEPT ![f] = v]
    BY <1>1, <1>2 DEF JyInv, JyTypes
  <2> HIDE DEF f
  <2>3. data'[f] = v /\ data' \in [Fields -> Nat]
    BY <2>2
  <2>4. \A g \in Fields : g = f \/ data'[g] = data[g]
    BY <2>2
  <2>5. QED
    BY <2>1, <2>3, <2>4
<1> HIDE DEF f
<1>4. /\ burst'[c] = (CASE last -> 1 [] full /\ ~last -> t + 1 [] OTHER -> t)
      /\ pc'[c] = (CASE last -> "idle" [] full /\ ~last -> "read" [] OTHER -> "store")
      /\ fetched'[c] = last /\ (disturbed'[c] <=> disturbed[c])
      /\ read'[c] = (IF full THEN Nothing ELSE [read[c] EXCEPT !.stored = n + 1])
  BY <1>1 DEF JyInv, JyTypes
<1>5. last => full
  OBVIOUS
<1>6. full /\ ~last => t + 1 \in DOMAIN Bursts
  BY <1>2, FieldFacts
<1>7. full => n + 1 = Len(Bursts[t])
  OBVIOUS
<1>8. ~full => n + 1 < Len(Bursts[t])
  BY <1>2
<1>9. last <=> full /\ t = Len(Bursts)
  OBVIOUS
<1>10. last \in BOOLEAN
  OBVIOUS
<1> HIDE DEF full, last
<1>11. /\ last => burst'[c] = 1 /\ pc'[c] = "idle" /\ fetched'[c] = TRUE
       /\ full /\ ~last => burst'[c] = t + 1 /\ pc'[c] = "read" /\ fetched'[c] = FALSE
       /\ ~full => /\ burst'[c] = t /\ pc'[c] = "store" /\ fetched'[c] = FALSE
                   /\ read'[c].stored = n + 1 /\ read'[c].value = v
  <2>1. read[c] \in [value : Nat, stored : Nat]
    BY DEF JyInv, JyTypes
  <2>2. ~full => read'[c].stored = n + 1 /\ read'[c].value = v
    BY <1>4, <2>1
  <2>3. QED
    BY <1>4, <1>5, <1>10, <2>2
<1>12. JyTypes'
  <2>1. burst'[c] \in DOMAIN Bursts /\ pc'[c] \in {"idle", "read", "store", "get"}
    BY <1>2, <1>6, <1>11, <1>5, FieldFacts
  <2>2. read'[c] \in [value : Nat, stored : Nat]
    <3>1. read[c] \in [value : Nat, stored : Nat] /\ Nothing \in [value : Nat, stored : Nat]
      BY DEF JyInv, JyTypes, Nothing
    <3>2. [read[c] EXCEPT !.stored = n + 1] \in [value : Nat, stored : Nat]
      BY <1>2, <3>1
    <3>3. QED
      BY <1>4, <3>1, <3>2
  <2>3. /\ burst' \in [Clients -> DOMAIN Bursts]
        /\ pc' \in [Clients -> {"idle", "read", "store", "get"}]
        /\ read' \in [Clients -> [value : Nat, stored : Nat]]
    BY <1>1, <2>1, <2>2 DEF JyInv, JyTypes
  <2>4. fetched' \in [Clients -> BOOLEAN]
    BY <1>1, <1>10 DEF JyInv, JyTypes
  <2>5. disturbed' \in [Clients -> BOOLEAN]
    BY <1>1
  <2>6. QED
    BY <1>1, <1>3, <2>3, <2>4, <2>5 DEF JyInv, JyTypes
<1>13. ASSUME NEW d \in Clients, d # c PROVE (Client(d) /\ Stored(d) /\ Alone(d))'
  <2>1. /\ pc'[d] = pc[d] /\ burst'[d] = burst[d] /\ read'[d] = read[d] /\ fetched'[d] = fetched[d]
        /\ disturbed'[d] = TRUE /\ c \in writers'
    BY <1>1, <1>13 DEF JyInv, JyTypes
  <2>2. Client(d)'
    BY <1>1, <1>13, <2>1 DEF JyInv, Client
  <2>3. Stored(d)' /\ Alone(d)'
    BY <1>13, <2>1 DEF Stored, Alone
  <2>4. QED
    BY <2>2, <2>3
<1>14. got[c] = <<>> /\ ~fetched[c]
  BY <1>1 DEF JyInv, Client
<1>15. Client(c)'
  <2>1. disturbed'[c] => \E d \in writers' : d # c
    BY <1>1, <1>4 DEF JyInv, Client
  <2>2. Len(got[c]) <= Len(channel[c])
    BY DEF JyInv, Client
  <2>3. QED
    BY <1>1, <1>2, <1>5, <1>8, <1>11, <1>14, <2>1, <2>2 DEF Client
<1>16. ASSUME ~disturbed[c]
       PROVE  /\ \A b \in DOMAIN Bursts : b < t => Holds(c, b, Len(Bursts[b]))'
              /\ Holds(c, t, n + 1)'
  <2>1. /\ \A b \in DOMAIN Bursts : b < t => Holds(c, b, Len(Bursts[b]))
        /\ Holds(c, t, n)
    BY <1>1, <1>16 DEF JyInv, Stored
  <2>2. \A b \in DOMAIN Bursts : b < t => Holds(c, b, Len(Bursts[b]))'
    BY <1>1, <1>2, <1>3, <2>1 DEF Holds
  <2>3. ASSUME NEW k \in 1..n + 1 PROVE data'[Bursts[t][k]] = mine[c][t]
    <3>1. CASE k = n + 1
      BY <1>2, <1>3, <3>1 DEF f
    <3>2. CASE k # n + 1
      <4>1. k \in 1..n /\ k \in 1..Len(Bursts[t])
        BY <1>2, <3>2
      <4>2. QED
        BY <1>2, <1>3, <2>1, <3>2, <4>1 DEF Holds
    <3>3. QED
      BY <3>1, <3>2
  <2>4. QED
    BY <1>1, <2>2, <2>3 DEF Holds
<1>17. Stored(c)'
  <2> SUFFICES ASSUME ~disturbed[c] PROVE Stored(c)'
    BY <1>4 DEF Stored
  <2>1. CASE ~full
    BY <1>11, <1>16, <2>1 DEF Stored, Holds
  <2>2. CASE full /\ ~last
    <3>1. \A b \in DOMAIN Bursts : b < t + 1 => Holds(c, b, Len(Bursts[b]))'
      <4>1. \A b \in DOMAIN Bursts : b < t + 1 => b < t \/ b = t
        BY <1>2, FieldFacts
      <4>2. QED
        BY <1>7, <1>16, <2>2, <4>1
    <3>2. QED
      BY <1>11, <2>2, <3>1 DEF Stored
  <2>3. CASE last
    <3>1. \A b \in DOMAIN Bursts : Holds(c, b, Len(Bursts[b]))'
      <4>1. \A b \in DOMAIN Bursts : b < t \/ b = t
        BY <1>2, <1>9, <2>3, FieldFacts
      <4>2. QED
        BY <1>5, <1>7, <1>16, <2>3, <4>1
    <3>2. QED
      BY <1>1, <1>11, <1>14, <2>3, <3>1 DEF Stored
  <2>4. QED
    BY <1>5, <2>1, <2>2, <2>3
<1>18. Alone(c)'
  <2> SUFFICES ASSUME writers' \subseteq {c}
               PROVE  /\ \A b \in DOMAIN Bursts : (pc'[c] = "store" /\ b = burst'[c]) \/ Same(b)'
                      /\ pc'[c] # "get"
    BY <1>1, <1>14 DEF Alone
  <2>1. writers \subseteq {c} /\ ~disturbed[c]
    BY <1>1 DEF JyInv, Client
  <2>2. ASSUME NEW b \in DOMAIN Bursts, b # t PROVE Same(b)'
    BY <1>1, <1>3, <2>1, <2>2 DEF JyInv, Alone, Same
  <2>3. full => Same(t)'
    BY <1>1, <1>2, <1>7, <1>16, <2>1 DEF Holds, Same
  <2>4. QED
    BY <1>5, <1>11, <2>2, <2>3
<1>19. QED
  BY <1>12, <1>13, <1>15, <1>17, <1>18 DEF JyInv

(* A channel is got field by field. *)
LEMMA StartGetKeeps ==
    ASSUME JyInv, NEW c \in Clients, NEW ch \in Channels, StartGet(c, ch)
    PROVE  JyInv'
<1>1. /\ pc[c] = "idle" /\ pc' = [pc EXCEPT ![c] = "get"]
      /\ channel' = [channel EXCEPT ![c] = ch] /\ got' = [got EXCEPT ![c] = <<>>]
      /\ UNCHANGED <<sample, data, burst, read, mine, fetched, disturbed, writers>>
  BY DEF StartGet, fetchVars
<1>2. JyTypes'
  BY <1>1 DEF JyInv, JyTypes
<1>3. ASSUME NEW d \in Clients, d # c PROVE (Client(d) /\ Stored(d) /\ Alone(d))'
  BY <1>1, <1>3, OtherClient DEF JyInv, JyTypes
<1>4. /\ pc'[c] = "get" /\ got'[c] = <<>> /\ channel'[c] = ch /\ Len(ch) > 0 /\ Len(ch) \in Nat
  BY <1>1, ChannelFacts DEF JyInv, JyTypes
<1>5. Client(c)'
  BY <1>1, <1>4 DEF JyInv, Client
<1>6. Stored(c)'
  <2>1. \A b, n : Holds(c, b, n)' <=> Holds(c, b, n)
    BY <1>1 DEF Holds
  <2>2. QED
    BY <1>1, <1>4, <2>1 DEF JyInv, Stored
<1>7. Alone(c)'
  <2>1. \A b : Same(b)' <=> Same(b)
    BY <1>1 DEF Same
  <2>2. QED
    BY <1>1, <1>4, <2>1 DEF JyInv, Alone
<1>8. QED
  BY <1>2, <1>3, <1>5, <1>6, <1>7 DEF JyInv

(* The next field is what the data has of it now. *)
LEMMA GetKeeps ==
    ASSUME JyInv, NEW c \in Clients, Get(c)
    PROVE  JyInv'
<1> SUFFICES ASSUME NEW ch, ch = channel[c], NEW g, g = got[c]
             PROVE  JyInv'
  OBVIOUS
<1> DEFINE n == Len(g) + 1
           v == data[ch[n]]
<1>1. /\ pc[c] = "get" /\ got' = [got EXCEPT ![c] = Append(g, v)]
      /\ pc' = [pc EXCEPT ![c] = IF Len(got'[c]) = Len(ch) THEN "idle" ELSE "get"]
      /\ UNCHANGED <<sample, data, burst, read, channel, mine, fetched, disturbed, writers>>
  BY DEF Get, fetchVars
<1>2. ch \in Channels /\ g \in Seq(Nat) /\ Len(g) < Len(ch)
  <2>1. ch \in Channels \cup {<<>>} /\ g \in Seq(Nat) /\ Len(g) < Len(ch)
    BY <1>1 DEF JyInv, JyTypes, Client
  <2>2. QED
    BY <2>1
<1>3. PICK b \in DOMAIN Bursts : \A k \in 1..Len(ch) :
        /\ ch[k] \in Fields /\ BurstOf(ch[k]) = b
        /\ \E j \in 1..Len(Bursts[b]) : ch[k] = Bursts[b][j]
  BY <1>2, ChannelFacts
<1>4. n \in 1..Len(ch) /\ v \in Nat /\ Len(ch) \in Nat /\ Len(g) \in Nat
  <2>1. n \in 1..Len(ch) /\ Len(ch) \in Nat /\ Len(g) \in Nat
    BY <1>2, ChannelFacts
  <2>2. QED
    BY <1>3, <2>1 DEF JyInv, JyTypes
<1>5. /\ Append(g, v) \in Seq(Nat) /\ Len(Append(g, v)) = n
      /\ Append(g, v)[n] = v /\ \A k \in 1..Len(g) : Append(g, v)[k] = g[k]
  BY <1>2, <1>4
<1>6. \A k \in 1..n : k \in 1..Len(g) \/ k = n
  BY <1>4
<1> HIDE DEF v
<1>7. /\ got'[c] = Append(g, v) /\ Len(got'[c]) = n /\ got'[c][n] = v
      /\ \A k \in 1..Len(g) : got'[c][k] = g[k]
      /\ pc'[c] \in {"idle", "get"} /\ (pc'[c] = "get" => n # Len(ch))
  BY <1>1, <1>5 DEF JyInv, JyTypes
<1>8. JyTypes'
  BY <1>1, <1>5 DEF JyInv, JyTypes
<1>9. ASSUME NEW d \in Clients, d # c PROVE (Client(d) /\ Stored(d) /\ Alone(d))'
  BY <1>1, <1>9, OtherClient DEF JyInv, JyTypes
<1> HIDE DEF n
<1>10. Client(c)'
  <2>1. n <= Len(ch) /\ (n # Len(ch) => n < Len(ch))
    BY <1>4
  <2>2. burst[c] = 1 /\ (disturbed[c] => \E d \in writers : d # c)
    BY <1>1 DEF JyInv, Client
  <2>3. QED
    BY <1>1, <1>7, <2>1, <2>2 DEF Client
<1>11. \E j \in 1..Len(Bursts[b]) : ch[n] = Bursts[b][j] /\ v = data[Bursts[b][j]]
  BY <1>3, <1>4 DEF v
<1>12. Stored(c)'
  <2> SUFFICES ASSUME ~disturbed[c], fetched[c]
               PROVE  /\ \A d \in DOMAIN Bursts : Holds(c, d, Len(Bursts[d]))'
                      /\ \A k \in 1..n : got'[c][k] = mine[c][BurstOf(ch[k])]
    BY <1>1, <1>7 DEF Stored
  <2>1. /\ \A d \in DOMAIN Bursts : Holds(c, d, Len(Bursts[d]))
        /\ \A k \in 1..Len(g) : g[k] = mine[c][BurstOf(ch[k])]
    BY DEF JyInv, Stored
  <2>2. v = mine[c][BurstOf(ch[n])]
    BY <1>3, <1>4, <1>11, <2>1 DEF Holds
  <2>3. QED
    BY <1>1, <1>6, <1>7, <2>1, <2>2 DEF Holds
<1>13. Alone(c)'
  <2> SUFFICES ASSUME writers \subseteq {c}
               PROVE  /\ \A d \in DOMAIN Bursts : Same(d)'
                      /\ \A k \in 1..n : got'[c][k] = data[ch[k]] /\ got'[c][k] = v
    BY <1>1, <1>7 DEF Alone
  <2>1. /\ \A d \in DOMAIN Bursts : Same(d)
        /\ \A k \in 1..Len(g) : g[k] = data[ch[k]]
    BY <1>1 DEF JyInv, Alone
  <2>2. \A d \in DOMAIN Bursts : Same(d)'
    BY <1>1, <2>1 DEF Same
  <2>3. \A k \in 1..n : got'[c][k] = data[ch[k]]
    BY <1>6, <1>7, <2>1 DEF v
  <2>4. \A k \in 1..Len(ch) : data[ch[k]] = v
    BY <1>3, <1>11, <2>1 DEF Same
  <2>5. \A k \in 1..n : k \in 1..Len(ch)
    BY <1>4
  <2>6. QED
    BY <2>2, <2>3, <2>4, <2>5
<1>14. QED
  BY <1>8, <1>9, <1>10, <1>12, <1>13 DEF JyInv

(* For any number of clients, transfers and channels whose fields are read  *)
(* in one transfer: what is got is what the fetch has read.                 *)
THEOREM GotTogetherHolds == JyInit /\ [][JyNext]_jyVars => []GotTogether
<1>1. ASSUME JyInit PROVE JyInv
  <2>1. /\ sample = 1 /\ writers = {} /\ data = [f \in Fields |-> 0]
        /\ pc = [c \in Clients |-> "idle"] /\ burst = [c \in Clients |-> 1]
        /\ read = [c \in Clients |-> Nothing]
        /\ channel = [c \in Clients |-> <<>>] /\ got = [c \in Clients |-> <<>>]
        /\ mine = [c \in Clients |-> [b \in DOMAIN Bursts |-> 0]]
        /\ fetched = [c \in Clients |-> FALSE] /\ disturbed = [c \in Clients |-> FALSE]
    BY <1>1 DEF JyInit
  <2>2. JyTypes
    <3>1. Nothing \in [value : Nat, stored : Nat]
      BY DEF Nothing
    <3>2. QED
      BY <2>1, <3>1, FieldFacts DEF JyTypes
  <2>3. ASSUME NEW c \in Clients PROVE Client(c) /\ Stored(c) /\ Alone(c)
    <3>1. /\ pc[c] = "idle" /\ burst[c] = 1 /\ got[c] = <<>> /\ channel[c] = <<>>
          /\ fetched[c] = FALSE /\ disturbed[c] = FALSE
      BY <2>1
    <3>2. \A b \in DOMAIN Bursts : Same(b)
      BY <2>1, FieldFacts DEF Same
    <3>3. QED
      BY <3>1, <3>2 DEF Client, Stored, Alone
  <2>4. QED
    BY <2>2, <2>3 DEF JyInv
<1>2. ASSUME JyInv, [JyNext]_jyVars PROVE JyInv'
  BY <1>2, SampleProbeKeep, StartFetchKeeps, ReadKeeps, ReadFailsKeeps, StoreKeeps, StartGetKeeps,
     GetKeeps DEF JyNext
<1>3. ASSUME JyInv PROVE GotTogether
  <2> SUFFICES ASSUME NEW c \in Clients, got[c] # <<>>
               PROVE  /\ fetched[c] /\ ~disturbed[c] =>
                           \A k \in DOMAIN got[c] : got[c][k] = mine[c][BurstOf(channel[c][k])]
                      /\ writers \subseteq {c} => Cardinality(Range(got[c])) = 1
    BY DEF GotTogether
  <2>1. got[c] \in Seq(Nat) /\ DOMAIN got[c] = 1..Len(got[c]) /\ 1 \in 1..Len(got[c])
    BY <1>3 DEF JyInv, JyTypes
  <2>2. fetched[c] /\ ~disturbed[c] =>
          \A k \in DOMAIN got[c] : got[c][k] = mine[c][BurstOf(channel[c][k])]
    BY <1>3, <2>1 DEF JyInv, Stored
  <2>3. ASSUME writers \subseteq {c} PROVE Cardinality(Range(got[c])) = 1
    <3>1. \A k \in 1..Len(got[c]) : got[c][k] = got[c][1]
      BY <1>3, <2>1, <2>3 DEF JyInv, Alone
    <3>2. Range(got[c]) = {got[c][1]}
      BY <2>1, <3>1 DEF Range
    <3>3. QED
      BY <3>2, FS_Singleton
  <2>4. QED
    BY <2>2, <2>3
<1>4. QED
  BY <1>1, <1>2, <1>3, PTL

-----------------------------------------------------------------------------
(***************************************************************************)
(* The dashboard.  Loops over LEDs and characters are recursive functions; *)
(* what they compute is shown by induction over the places they have       *)
(* passed, as a smallest place where it would be wrong.                    *)
(***************************************************************************)

(* What holds at 0, and at the successor of each place where it holds,      *)
(* holds up to n.                                                           *)
LEMMA UpTo ==
    ASSUME NEW n \in Nat, NEW S, 0 \in S, \A i \in 0..n - 1 : i \in S => i + 1 \in S
    PROVE  0..n \subseteq S
<1> SUFFICES ASSUME 0..n \ S # {} PROVE FALSE
  OBVIOUS
<1> DEFINE T == 0..n \ S
<1>1. T \in SUBSET Nat /\ T # {}
  OBVIOUS
<1>2. PICK m \in T : \A k \in T : <<k, m>> \notin OpToRel(<, Nat)
  <2> HIDE DEF T
  <2> QED BY <1>1, WFMin, NatLessThanWellFounded, Zenon
<1>3. \A k \in T : ~(k < m)
  <2>1. m \in Nat /\ \A k \in T : k \in Nat
    OBVIOUS
  <2> HIDE DEF T
  <2> QED BY <1>2, <2>1, Zenon DEF OpToRel
<1>4. m # 0 /\ m - 1 \in 0..n - 1
  OBVIOUS
<1> QED BY <1>3, <1>4

-----------------------------------------------------------------------------
(* The map of a device. *)

MapEntry == [port : Ports, mask : SUBSET Pins, value : SUBSET Pins]
IsMap(h, d, n) == h = [i \in 0..n |-> IF i = 0 THEN <<>> ELSE WithLed(h[i - 1], Gpios[d][i])]

(* The LEDs of a device. *)
LEMMA LedTypes ==
    ASSUME NEW d \in Devices
    PROVE  /\ Gpios[d] \in Seq(Ports \X Pins) /\ Len(Gpios[d]) \in Nat /\ Leds(d) = 1..Len(Gpios[d])
           /\ \A i \in Leds(d) : /\ Gpios[d][i] \in Ports \X Pins
                                 /\ Gpios[d][i][1] \in Ports /\ Gpios[d][i][2] \in Pins
           /\ \A e \in Devices : \A i \in Leds(d) : \A j \in Leds(e) :
                Gpios[d][i][1] = Gpios[e][j][1] /\ Gpios[d][i][2] = Gpios[e][j][2] => d = e /\ i = j
<1>1. Gpios[d] \in Seq(Ports \X Pins)
  BY LightsAssumption
<1>2. Len(Gpios[d]) \in Nat /\ Leds(d) = 1..Len(Gpios[d])
  BY <1>1 DEF Leds
<1>3. \A e \in Devices : \A i \in Leds(e) : Gpios[e][i] \in Ports \X Pins
  BY LightsAssumption DEF Leds
<1>4. ASSUME NEW e \in Devices, NEW i \in Leds(d), NEW j \in Leds(e),
             Gpios[d][i][1] = Gpios[e][j][1], Gpios[d][i][2] = Gpios[e][j][2]
      PROVE  d = e /\ i = j
  <2>1. Gpios[d][i] = Gpios[e][j]
    BY <1>3, <1>4
  <2> QED BY <2>1, LightsAssumption
<1> QED BY <1>1, <1>2, <1>3, <1>4

(* The maps that init() builds LED by LED. *)
LEMMA MapExists ==
    ASSUME NEW d \in Devices
    PROVE  \E h : IsMap(h, d, Len(Gpios[d])) /\ GpioMap(d) = h[Len(Gpios[d])]
<1> DEFINE N == Len(Gpios[d])
           S == {n \in Nat : n <= N => \E h : IsMap(h, d, n)}
<1>1. N \in Nat
  BY LedTypes
<1>2. 0 \in S
  <2>1. IsMap([i \in 0..0 |-> <<>>], d, 0)
    BY DEF IsMap
  <2> QED BY <2>1
<1>3. ASSUME NEW n \in 0..N - 1, n \in S PROVE n + 1 \in S
  <2>1. PICK h : IsMap(h, d, n)
    BY <1>1, <1>3
  <2> DEFINE g == [i \in 0..n + 1 |-> IF i <= n THEN h[i] ELSE WithLed(h[n], Gpios[d][n + 1])]
  <2>2. ASSUME NEW i \in 0..n + 1
        PROVE  g[i] = IF i = 0 THEN <<>> ELSE WithLed(g[i - 1], Gpios[d][i])
    <3>1. CASE i <= n
      <4>1. h[i] = IF i = 0 THEN <<>> ELSE WithLed(h[i - 1], Gpios[d][i])
        BY <2>1, <3>1 DEF IsMap
      <4>2. g[i] = h[i] /\ (i # 0 => g[i - 1] = h[i - 1])
        BY <1>1, <3>1
      <4> QED BY <4>1, <4>2
    <3>2. CASE i = n + 1
      <4>1. i - 1 = n /\ i # 0 /\ g[n] = h[n] /\ g[i] = WithLed(h[n], Gpios[d][i])
        BY <1>1, <3>2
      <4> QED BY <4>1
    <3> QED BY <1>1, <3>1, <3>2
  <2>3. IsMap(g, d, n + 1)
    <3>1. g = [i \in 0..n + 1 |-> g[i]]
      OBVIOUS
    <3> HIDE DEF g
    <3> QED BY <2>2, <3>1 DEF IsMap
  <2> HIDE DEF g
  <2> QED BY <1>1, <2>3
<1>4. PICK h : IsMap(h, d, N)
  <2>1. 0..N \subseteq S
    <3> HIDE DEF S
    <3> QED BY <1>1, <1>2, <1>3, UpTo
  <2> QED BY <1>1, <2>1
<1> DEFINE c == CHOOSE m : m = [i \in 0..N |-> IF i = 0 THEN <<>> ELSE WithLed(m[i - 1], Gpios[d][i])]
<1>5. IsMap(c, d, N)
  BY <1>4, Zenon DEF IsMap
<1>6. GpioMap(d) = c[N]
  BY Zenon DEF GpioMap
<1> QED BY <1>5, <1>6

(* What a map is once it has the first n LEDs. *)
MapOf(m, d, n) ==
    /\ m \in Seq(MapEntry)
    /\ \A k \in 1..Len(m) : m[k].mask = PinsAt(d, m[k].port, 1..n) /\ m[k].value = {}
    /\ \A k, l \in 1..Len(m) : m[k].port = m[l].port => k = l
    /\ \A i \in 1..n : \E k \in 1..Len(m) : m[k].port = Gpios[d][i][1]

(* Another LED is added to the pins of its port. *)
LEMMA WithLedMaps ==
    ASSUME NEW d \in Devices, NEW n \in 0..Len(Gpios[d]) - 1, NEW m, MapOf(m, d, n)
    PROVE  MapOf(WithLed(m, Gpios[d][n + 1]), d, n + 1)
<1> DEFINE gpio == Gpios[d][n + 1]
           p == gpio[1]
           pin == gpio[2]
           r == WithLed(m, gpio)
<1>1. m \in Seq(MapEntry) /\ Len(m) \in Nat /\ \A k \in 1..Len(m) : m[k] \in MapEntry
  BY DEF MapOf
<1>2. n + 1 \in Leds(d) /\ n \in Nat /\ p \in Ports /\ pin \in Pins
  BY LedTypes
<1>3. /\ PinsAt(d, p, 1..n + 1) = PinsAt(d, p, 1..n) \cup {pin}
      /\ \A q : p # q => PinsAt(d, q, 1..n + 1) = PinsAt(d, q, 1..n)
  <2>1. 1..n + 1 = 1..n \cup {n + 1}
    BY <1>2
  <2> QED BY <2>1 DEF PinsAt
<1>4. CASE \E k \in 1..Len(m) : m[k].port = p
  <2>1. PICK e \in 1..Len(m) : e = Entry(m, p) /\ m[e].port = p
    BY <1>4 DEF Entry
  <2>2. PICK mask \in SUBSET Pins : mask = m[e].mask \cup {pin}
    BY <1>1, <1>2 DEF MapEntry
  <2>3. PICK new : new = [m[e] EXCEPT !.mask = mask]
    OBVIOUS
  <2>4. new \in MapEntry /\ new.port = m[e].port /\ new.value = m[e].value /\ new.mask = mask
    <3>1. m[e] \in MapEntry
      BY <1>1
    <3> QED BY <2>3, <3>1 DEF MapEntry
  <2>5. r = [m EXCEPT ![e] = new]
    BY <1>1, <2>1, <2>2, <2>3 DEF WithLed
  <2>6. /\ r \in Seq(MapEntry) /\ Len(r) = Len(m) /\ r[e] = new
        /\ \A k \in 1..Len(m) : k # e => r[k] = m[k]
    BY <1>1, <2>4, <2>5
  <2>7. /\ m[e].mask = PinsAt(d, p, 1..n) /\ m[e].value = {}
        /\ \A k \in 1..Len(m) : m[k].port = p => k = e
        /\ \A k \in 1..Len(m) : m[k].mask = PinsAt(d, m[k].port, 1..n) /\ m[k].value = {}
        /\ \A k, l \in 1..Len(m) : m[k].port = m[l].port => k = l
        /\ \A i \in 1..n : \E k \in 1..Len(m) : m[k].port = Gpios[d][i][1]
    BY <2>1 DEF MapOf
  <2> HIDE DEF r, p, pin, gpio
  <2>8. ASSUME NEW k \in 1..Len(r)
        PROVE  /\ r[k].mask = PinsAt(d, r[k].port, 1..n + 1) /\ r[k].value = {}
               /\ r[k].port = m[k].port
    <3>1. CASE k = e
      BY <1>3, <2>1, <2>2, <2>4, <2>6, <2>7, <3>1
    <3>2. CASE k # e
      <4>1. k \in 1..Len(m) /\ r[k] = m[k] /\ m[k].port # p
        BY <2>6, <2>7, <3>2
      <4> QED BY <1>3, <2>7, <4>1
    <3> QED BY <3>1, <3>2
  <2>9. \A k, l \in 1..Len(r) : r[k].port = r[l].port => k = l
    BY <2>6, <2>7, <2>8
  <2>10. \A i \in 1..n + 1 : \E k \in 1..Len(r) : r[k].port = Gpios[d][i][1]
    <3>1. \A i \in 1..n + 1 : i \in 1..n \/ Gpios[d][i][1] = p
      BY <1>2 DEF p, gpio
    <3>2. e \in 1..Len(r) /\ r[e].port = p
      BY <2>1, <2>4, <2>6
    <3> QED BY <2>6, <2>7, <2>8, <3>1, <3>2
  <2> QED BY <2>6, <2>8, <2>9, <2>10 DEF MapOf, r, gpio
<1>5. CASE ~\E k \in 1..Len(m) : m[k].port = p
  <2> DEFINE new == [port |-> p, mask |-> {pin}, value |-> {}]
  <2>1. r = Append(m, new)
    BY <1>1, <1>5 DEF WithLed, Entry
  <2>2. new \in MapEntry
    BY <1>2 DEF MapEntry
  <2>3. /\ r \in Seq(MapEntry) /\ Len(r) = Len(m) + 1 /\ r[Len(m) + 1] = new
        /\ \A k \in 1..Len(m) : r[k] = m[k]
    BY <1>1, <2>1, <2>2
  <2>4. PinsAt(d, p, 1..n) = {}
    <3>1. \A i \in 1..n : \E k \in 1..Len(m) : m[k].port = Gpios[d][i][1]
      BY DEF MapOf
    <3>2. \A i \in 1..n : Gpios[d][i][1] # p
      <4> HIDE DEF p
      <4> QED BY <1>5, <3>1, Zenon
    <3>3. {j \in 1..n : Gpios[d][j][1] = p} = {}
      <4> HIDE DEF p
      <4> QED BY <3>2
    <3> HIDE DEF p
    <3> QED BY <3>3 DEF PinsAt
  <2>5. \A k \in 1..Len(r) : k \in 1..Len(m) \/ (k = Len(m) + 1 /\ r[k].port = p /\ r[k].mask = {pin} /\ r[k].value = {})
    BY <1>1, <2>3
  <2> HIDE DEF r, p, pin, gpio, new
  <2>6. ASSUME NEW k \in 1..Len(r)
        PROVE  r[k].mask = PinsAt(d, r[k].port, 1..n + 1) /\ r[k].value = {}
    <3>1. CASE k \in 1..Len(m)
      <4>1. r[k] = m[k] /\ m[k].port # p
        BY <1>5, <2>3, <3>1
      <4>2. m[k].mask = PinsAt(d, m[k].port, 1..n) /\ m[k].value = {}
        BY <3>1 DEF MapOf
      <4> QED BY <1>3, <4>1, <4>2
    <3>2. CASE k \notin 1..Len(m)
      BY <1>3, <2>4, <2>5, <3>2
    <3> QED BY <3>1, <3>2
  <2>7. \A k, l \in 1..Len(r) : r[k].port = r[l].port => k = l
    BY <1>5, <2>3, <2>5 DEF MapOf
  <2>8. \A i \in 1..n + 1 : \E k \in 1..Len(r) : r[k].port = Gpios[d][i][1]
    <3>1. \A i \in 1..n + 1 : i \in 1..n \/ Gpios[d][i][1] = p
      BY <1>2 DEF p, gpio
    <3>2. Len(m) + 1 \in 1..Len(r) /\ r[Len(m) + 1].port = p
      BY <1>1, <2>3 DEF new
    <3>3. ASSUME NEW i \in 1..n PROVE \E k \in 1..Len(r) : r[k].port = Gpios[d][i][1]
      <4>1. PICK k \in 1..Len(m) : m[k].port = Gpios[d][i][1]
        BY DEF MapOf
      <4>2. k \in 1..Len(r) /\ r[k] = m[k]
        BY <1>1, <2>3
      <4> QED BY <4>1, <4>2
    <3> QED BY <3>1, <3>2, <3>3
  <2> QED BY <2>3, <2>6, <2>7, <2>8 DEF MapOf, r, gpio
<1> QED BY <1>4, <1>5

(* The map of a device has each of its LEDs, and nothing else. *)
LEMMA GpioMapIs == ASSUME NEW d \in Devices PROVE MapOf(GpioMap(d), d, Len(Gpios[d]))
<1>1. PICK h : IsMap(h, d, Len(Gpios[d])) /\ GpioMap(d) = h[Len(Gpios[d])]
  BY MapExists
<1> DEFINE N == Len(Gpios[d])
           S == {n \in 0..N : MapOf(h[n], d, n)}
<1>2. N \in Nat
  BY LedTypes
<1>3. h[0] = <<>> /\ \A n \in 0..N - 1 : h[n + 1] = WithLed(h[n], Gpios[d][n + 1])
  <2>1. \A i \in 0..N : h[i] = IF i = 0 THEN <<>> ELSE WithLed(h[i - 1], Gpios[d][i])
    BY <1>1 DEF IsMap
  <2> QED BY <1>2, <2>1
<1>4. 0 \in S
  <2>1. MapOf(<<>>, d, 0)
    BY DEF MapOf
  <2> QED BY <1>2, <1>3, <2>1
<1>5. ASSUME NEW n \in 0..N - 1, n \in S PROVE n + 1 \in S
  <2>1. MapOf(h[n], d, n)
    BY <1>5
  <2>2. MapOf(h[n + 1], d, n + 1)
    BY <1>3, <2>1, WithLedMaps
  <2> QED BY <1>2, <2>2
<1>6. 0..N \subseteq S
  <2> HIDE DEF S
  <2> QED BY <1>2, <1>4, <1>5, UpTo
<1> QED BY <1>1, <1>2, <1>6

-----------------------------------------------------------------------------
(* The text of a display. *)

Blank(d) == [val |-> [k \in 1..NumDisp(d) |-> {}], n |-> 0, i |-> 0, end |-> "no"]
IsParse(h, d, text, m) ==
    h = [n \in 0..m |-> IF n = 0 THEN Blank(d) ELSE PutNext(d, h[n - 1], text[n])]

(* The states that the loop over the characters goes through.              *)
LEMMA ParseExists ==
    ASSUME NEW d \in Displays, NEW text \in Texts
    PROVE  \E h : IsParse(h, d, text, Len(text)) /\ Parsed(d, text) = h[Len(text)]
<1> DEFINE N == Len(text)
           S == {n \in Nat : n <= N => \E h : IsParse(h, d, text, n)}
<1>1. N \in Nat
  BY LightsAssumption
<1>2. 0 \in S
  <2>1. IsParse([i \in 0..0 |-> Blank(d)], d, text, 0)
    BY DEF IsParse
  <2> QED BY <2>1
<1>3. ASSUME NEW n \in 0..N - 1, n \in S PROVE n + 1 \in S
  <2>1. PICK h : IsParse(h, d, text, n)
    BY <1>1, <1>3
  <2> DEFINE g == [i \in 0..n + 1 |-> IF i <= n THEN h[i] ELSE PutNext(d, h[n], text[n + 1])]
  <2>2. ASSUME NEW i \in 0..n + 1
        PROVE  g[i] = IF i = 0 THEN Blank(d) ELSE PutNext(d, g[i - 1], text[i])
    <3>1. CASE i <= n
      <4>1. h[i] = IF i = 0 THEN Blank(d) ELSE PutNext(d, h[i - 1], text[i])
        BY <2>1, <3>1 DEF IsParse
      <4>2. g[i] = h[i] /\ (i # 0 => g[i - 1] = h[i - 1])
        BY <1>1, <3>1
      <4> QED BY <4>1, <4>2
    <3>2. CASE i = n + 1
      <4>1. i - 1 = n /\ i # 0 /\ g[n] = h[n] /\ g[i] = PutNext(d, h[n], text[i])
        BY <1>1, <3>2
      <4> QED BY <4>1
    <3> QED BY <1>1, <3>1, <3>2
  <2>3. IsParse(g, d, text, n + 1)
    <3>1. g = [i \in 0..n + 1 |-> g[i]]
      OBVIOUS
    <3> HIDE DEF g
    <3> QED BY <2>2, <3>1 DEF IsParse
  <2> HIDE DEF g
  <2> QED BY <1>1, <2>3
<1>4. PICK h : IsParse(h, d, text, N)
  <2>1. 0..N \subseteq S
    <3> HIDE DEF S
    <3> QED BY <1>1, <1>2, <1>3, UpTo
  <2> QED BY <1>1, <2>1
<1> DEFINE c == CHOOSE s : s = [n \in 0..N |-> IF n = 0 THEN Blank(d) ELSE PutNext(d, s[n - 1], text[n])]
<1>5. IsParse(c, d, text, N)
  BY <1>4, Zenon DEF IsParse
<1>6. Parsed(d, text) = c[N]
  BY Zenon DEF Parsed, Blank
<1> QED BY <1>5, <1>6

(* The digit that a character is at. *)
LEMMA DigitSteps ==
    ASSUME NEW text, NEW t \in Nat
    PROVE  /\ DigitOf(text, t) \in Nat /\ DigitOf(text, 0) = 0
           /\ DigitOf(text, t + 1) =
                IF t = 0 \/ text[t + 1] # "." THEN DigitOf(text, t) + 1 ELSE DigitOf(text, t)
<1> DEFINE T(n) == {j \in 1..n : j = 1 \/ text[j] # "."}
<1>1. ASSUME NEW n \in Nat PROVE IsFiniteSet(T(n)) /\ Cardinality(T(n)) \in Nat
  <2>1. IsFiniteSet(1..n)
    BY FS_Interval
  <2>2. IsFiniteSet(T(n))
    BY <2>1, FS_Subset
  <2> QED BY <2>2, FS_CardinalityType
<1>2. DigitOf(text, t) \in Nat
  BY <1>1 DEF DigitOf
<1>3. DigitOf(text, 0) = 0
  <2>1. T(0) = {}
    OBVIOUS
  <2> QED BY <2>1, FS_EmptySet DEF DigitOf
<1>4. CASE t = 0 \/ text[t + 1] # "."
  <2>1. T(t + 1) = T(t) \cup {t + 1} /\ t + 1 \notin T(t)
    BY <1>4
  <2>2. Cardinality(T(t + 1)) = Cardinality(T(t)) + 1
    BY <1>1, <2>1, FS_AddElement
  <2> QED BY <1>2, <1>3, <1>4, <2>2 DEF DigitOf
<1>5. CASE ~(t = 0 \/ text[t + 1] # ".")
  <2>1. T(t + 1) = T(t)
    BY <1>5
  <2> QED BY <1>2, <1>3, <1>5, <2>1 DEF DigitOf
<1> QED BY <1>4, <1>5

(* Characters go from digit to digit. *)
LEMMA DigitsClimb ==
    ASSUME NEW text, NEW i \in Nat, NEW j \in Nat, i <= j
    PROVE  DigitOf(text, i) <= DigitOf(text, j)
<1> DEFINE T(n) == {k \in 1..n : k = 1 \/ text[k] # "."}
<1>1. IsFiniteSet(T(j))
  <2>1. IsFiniteSet(1..j)
    BY FS_Interval
  <2> QED BY <2>1, FS_Subset
<1>2. T(i) \subseteq T(j)
  OBVIOUS
<1>3. Cardinality(T(i)) <= Cardinality(T(j))
  BY <1>1, <1>2, FS_Subset
<1> QED BY <1>3 DEF DigitOf

(* Where the loop is after t characters: what it has put so far looks as    *)
(* those characters do.                                                     *)
ParsedTo(s, d, text, t) ==
    /\ s.end \in {"no", "break", "invalid"}
    /\ s.end = "no" =>
         /\ s.i = t /\ s.n = DigitOf(text, t) /\ s.n <= NumDisp(d)
         /\ \A j \in 1..t : text[j] # NUL
         /\ s.val = [k \in 1..NumDisp(d) |-> Looks(text, 1..t, k)]
    /\ s.end = "break" => s.val = [k \in 1..NumDisp(d) |-> Looks(text, Used(text), k)]

(* Division, as an equation. *)
LEMMA Parts ==
    ASSUME NEW x \in Int, NEW y \in Nat \ {0}
    PROVE  /\ x \div y \in Int /\ x % y \in Int
           /\ x = (x \div y) * y + (x % y)
OBVIOUS

(* What a number is divided by, without a rest, goes into it a whole number *)
(* of times.                                                                *)
LEMMA WholeDigits ==
    ASSUME NEW x \in Nat \ {0}, NEW y \in Nat \ {0}, x % y = 0
    PROVE  x \div y \in Nat \ {0} /\ (x \div y) * y = x
<1>1. PICK q \in Int : q = x \div y /\ x = q * y + 0
  BY Parts
<1>3. x = q * y
  BY <1>1
<1>4. q > 0
  BY <1>3
<1> QED BY <1>1, <1>3, <1>4

(* A display has a digit at least, and a LED for each of its segments. *)
LEMMA HasDigit ==
    ASSUME NEW d \in Displays
    PROVE  NumDisp(d) \in Nat \ {0} /\ NumDisp(d) * Segments = Len(Gpios[d])
<1>1. d \in Devices /\ Len(Gpios[d]) \in Nat /\ Len(Gpios[d]) % Segments = 0 /\ Segments \in Nat \ {0}
  BY LedTypes, LightsAssumption DEF Devices
<1>2. Len(Gpios[d]) # 0
  <2> SUFFICES ASSUME Len(Gpios[d]) = 0 PROVE FALSE
    OBVIOUS
  <2>1. Leds(d) = {}
    BY DEF Leds
  <2>2. {Gpios[d][i][1] : i \in Leds(d)} = {}
    BY <2>1
  <2>3. Cardinality({Gpios[d][i][1] : i \in Leds(d)}) = 0
    BY <2>2, FS_EmptySet
  <2> QED BY <1>1, <2>3, LightsAssumption
<1> DEFINE x == Len(Gpios[d])
<1>3. x \in Nat \ {0} /\ Segments \in Nat \ {0} /\ x % Segments = 0
  BY <1>1, <1>2
<1> HIDE DEF x
<1>4. x \div Segments \in Nat \ {0} /\ (x \div Segments) * Segments = x
  BY <1>3, WholeDigits, Zenon
<1> QED BY <1>4 DEF NumDisp, x

(* What the characters of a text show at a digit. *)
LEMMA LooksSteps ==
    ASSUME NEW text, NEW t \in Nat, NEW k \in Nat \ {0}
    PROVE  /\ Looks(text, 1..0, k) = {}
           /\ Looks(text, 1..t + 1, k) =
                IF k = DigitOf(text, t + 1) THEN Looks(text, 1..t, k) \cup Glyph(text[t + 1])
                                            ELSE Looks(text, 1..t, k)
           /\ DigitOf(text, t) < k => Looks(text, 1..t, k) = {}
<1>1. 1..t + 1 = 1..t \cup {t + 1}
  OBVIOUS
<1>2. Looks(text, 1..0, k) = {}
  BY DEF Looks
<1>3. ASSUME k = DigitOf(text, t + 1)
      PROVE  Looks(text, 1..t + 1, k) = Looks(text, 1..t, k) \cup Glyph(text[t + 1])
  <2>1. {j \in 1..t + 1 : DigitOf(text, j) = k} = {j \in 1..t : DigitOf(text, j) = k} \cup {t + 1}
    BY <1>1, <1>3
  <2> QED BY <2>1 DEF Looks
<1>4. ASSUME k # DigitOf(text, t + 1)
      PROVE  Looks(text, 1..t + 1, k) = Looks(text, 1..t, k)
  <2>1. {j \in 1..t + 1 : DigitOf(text, j) = k} = {j \in 1..t : DigitOf(text, j) = k}
    BY <1>1, <1>4
  <2> QED BY <2>1 DEF Looks
<1>5. ASSUME DigitOf(text, t) < k PROVE Looks(text, 1..t, k) = {}
  <2>1. \A j \in 1..t : DigitOf(text, j) <= DigitOf(text, t) /\ DigitOf(text, j) \in Nat
    BY DigitsClimb, DigitSteps
  <2>2. DigitOf(text, t) \in Nat
    BY DigitSteps
  <2>3. {j \in 1..t : DigitOf(text, j) = k} = {}
    BY <1>5, <2>1, <2>2
  <2> QED BY <2>3 DEF Looks
<1> QED BY <1>2, <1>3, <1>4, <1>5

(* A character that is put. *)
LEMMA PutParses ==
    ASSUME NEW d \in Displays, NEW text \in Texts, NEW t \in 0..Len(text) - 1,
           NEW s, ParsedTo(s, d, text, t), s.end = "no",
           text[t + 1] # NUL, s.n < NumDisp(d) \/ text[t + 1] = "."
    PROVE  ParsedTo(Put(d, s, text[t + 1]), d, text, t + 1)
<1> DEFINE ch == text[t + 1]
           D == NumDisp(d)
           k0 == IF ch = "." /\ s.i # 0 THEN s.n ELSE s.n + 1
           r == Put(d, s, ch)
<1>1. /\ s.i = t /\ s.n = DigitOf(text, t) /\ s.n <= D /\ \A j \in 1..t : text[j] # NUL
      /\ s.val = [k \in 1..D |-> Looks(text, 1..t, k)]
  BY DEF ParsedTo
<1>2. t \in Nat /\ D \in Nat \ {0}
  BY HasDigit, LightsAssumption
<1>3. DigitOf(text, t) \in Nat /\ (t # 0 => DigitOf(text, t) # 0)
  <2>1. ASSUME t # 0 PROVE DigitOf(text, t) # 0
    <3>1. DigitOf(text, 1) = 1
      <4>1. DigitOf(text, 0) = 0 /\ DigitOf(text, 0 + 1) = DigitOf(text, 0) + 1
        BY DigitSteps
      <4> QED BY <4>1
    <3>2. DigitOf(text, 1) <= DigitOf(text, t) /\ DigitOf(text, t) \in Nat
      BY <1>2, <2>1, DigitsClimb, DigitSteps
    <3> QED BY <3>1, <3>2
  <2> QED BY <1>2, <2>1, DigitSteps
<1>4. k0 = DigitOf(text, t + 1) /\ k0 \in 1..D
  <2>1. DigitOf(text, t + 1) =
          IF t = 0 \/ text[t + 1] # "." THEN DigitOf(text, t) + 1 ELSE DigitOf(text, t)
    BY <1>2, DigitSteps
  <2>2. DigitOf(text, 0) = 0
    BY <1>2, DigitSteps
  <2> HIDE DEF D
  <2>3. CASE ch = "." /\ t # 0
    BY <1>1, <1>2, <1>3, <2>1, <2>3
  <2>4. CASE ch = "." /\ t = 0
    BY <1>1, <1>2, <1>3, <2>1, <2>2, <2>4
  <2>5. CASE ch # "."
    <3>1. s.n < D
      BY <2>5 DEF D
    <3> QED BY <1>1, <1>2, <1>3, <2>1, <2>5, <3>1
  <2> QED BY <2>3, <2>4, <2>5
<1>5. /\ r.val = [s.val EXCEPT ![k0] = IF ch = "." THEN @ \cup {DecimalPoint} ELSE Font[ch]]
      /\ r.n = k0 /\ r.i = s.i + 1 /\ r.end = "no"
  BY DEF Put, PutAt
<1> HIDE DEF r, k0, D
<1>6. r.val = [k \in 1..D |-> Looks(text, 1..t + 1, k)]
  <2>1. DOMAIN r.val = 1..D /\ r.val = [k \in 1..D |-> r.val[k]]
    BY <1>1, <1>4, <1>5
  <2>2. ASSUME NEW k \in 1..D PROVE r.val[k] = Looks(text, 1..t + 1, k)
    <3>1. /\ Looks(text, 1..t + 1, k) =
                IF k = DigitOf(text, t + 1) THEN Looks(text, 1..t, k) \cup Glyph(text[t + 1])
                                            ELSE Looks(text, 1..t, k)
          /\ DigitOf(text, t) < k => Looks(text, 1..t, k) = {}
      <4>1. k \in Nat \ {0}
        BY <1>2
      <4> QED BY <1>2, <4>1, LooksSteps
    <3>2. s.val[k] = Looks(text, 1..t, k)
      BY <1>1
    <3>3. CASE k # k0
      BY <1>1, <1>4, <1>5, <3>1, <3>2, <3>3
    <3>4. CASE k = k0 /\ ch = "."
      <4>1. r.val[k] = s.val[k] \cup {DecimalPoint}
        BY <1>1, <1>5, <3>4
      <4>2. Glyph(text[t + 1]) = {DecimalPoint}
        BY <3>4 DEF Glyph
      <4> QED BY <1>4, <3>1, <3>2, <3>4, <4>1, <4>2
    <3>5. CASE k = k0 /\ ch # "."
      <4>1. r.val[k] = Font[ch] /\ Glyph(text[t + 1]) = Font[ch]
        BY <1>1, <1>5, <3>5 DEF Glyph
      <4>2. DigitOf(text, t) < k
        BY <1>1, <1>2, <1>3, <3>5 DEF k0
      <4>3. Looks(text, 1..t + 1, k) = {} \cup Glyph(text[t + 1])
        BY <1>4, <3>1, <3>5, <4>2
      <4> QED BY <4>1, <4>3
    <3> QED BY <3>3, <3>4, <3>5
  <2> QED BY <2>1, <2>2
<1>7. \A j \in 1..t + 1 : text[j] # NUL
  BY <1>1, <1>2
<1>8. r.i = t + 1 /\ r.n = DigitOf(text, t + 1) /\ r.n <= D
  BY <1>1, <1>2, <1>4, <1>5
<1> QED BY <1>5, <1>6, <1>7, <1>8 DEF ParsedTo, r, D

(* The loop ends: nothing after it is to be seen. *)
LEMMA BreakParses ==
    ASSUME NEW d \in Displays, NEW text \in Texts, NEW t \in 0..Len(text) - 1,
           NEW s, ParsedTo(s, d, text, t), s.end = "no",
           text[t + 1] = NUL \/ (s.n >= NumDisp(d) /\ text[t + 1] # ".")
    PROVE  s.val = [k \in 1..NumDisp(d) |-> Looks(text, Used(text), k)]
<1>1. /\ s.n = DigitOf(text, t) /\ \A j \in 1..t : text[j] # NUL
      /\ s.val = [k \in 1..NumDisp(d) |-> Looks(text, 1..t, k)]
  BY DEF ParsedTo
<1>2. t \in Nat /\ Len(text) \in Nat /\ NumDisp(d) \in Nat \ {0}
  BY HasDigit, LightsAssumption
<1>3. 1..t \subseteq Used(text)
  BY <1>1, <1>2 DEF Used
<1>4. ASSUME NEW j \in Used(text), j \notin 1..t PROVE DigitOf(text, j) > NumDisp(d)
  <2>1. j \in Nat /\ t + 1 <= j /\ text[t + 1] # NUL
    BY <1>2, <1>4 DEF Used
  <2>2. DigitOf(text, t + 1) = DigitOf(text, t) + 1 /\ DigitOf(text, t) \in Nat
    BY <1>2, <2>1, DigitSteps
  <2>3. DigitOf(text, t + 1) <= DigitOf(text, j) /\ DigitOf(text, j) \in Nat
    BY <1>2, <2>1, DigitsClimb, DigitSteps
  <2> QED BY <1>1, <1>2, <2>1, <2>2, <2>3
<1>5. ASSUME NEW k \in 1..NumDisp(d) PROVE Looks(text, 1..t, k) = Looks(text, Used(text), k)
  <2>1. \A j \in Used(text) \ 1..t : DigitOf(text, j) # k
    <3>1. \A j \in Used(text) : DigitOf(text, j) \in Nat
      BY <1>2, DigitSteps DEF Used
    <3> QED BY <1>2, <1>4, <3>1
  <2>2. {j \in 1..t : DigitOf(text, j) = k} = {j \in Used(text) : DigitOf(text, j) = k}
    BY <1>3, <2>1
  <2> QED BY <2>2 DEF Looks
<1> QED BY <1>1, <1>5

(* One character of the loop. *)
LEMMA NextParses ==
    ASSUME NEW d \in Displays, NEW text \in Texts, NEW t \in 0..Len(text) - 1,
           NEW s, ParsedTo(s, d, text, t)
    PROVE  ParsedTo(PutNext(d, s, text[t + 1]), d, text, t + 1)
<1> DEFINE ch == text[t + 1]
           r == PutNext(d, s, ch)
<1>1. CASE s.end # "no"
  <2>1. r = s
    BY <1>1 DEF PutNext
  <2> HIDE DEF r
  <2>2. ParsedTo(r, d, text, t + 1)
    BY <1>1, <2>1 DEF ParsedTo
  <2> QED BY <2>2 DEF r
<1>2. CASE s.end = "no" /\ (ch = NUL \/ (s.n >= NumDisp(d) /\ ch # "."))
  <2>1. r = EndsWith(s, "break")
    BY <1>2 DEF PutNext
  <2>2. r.end = "break" /\ r.val = s.val
    BY <2>1 DEF EndsWith
  <2>3. s.val = [k \in 1..NumDisp(d) |-> Looks(text, Used(text), k)]
    BY <1>2, BreakParses
  <2> HIDE DEF r
  <2>4. ParsedTo(r, d, text, t + 1)
    BY <2>2, <2>3 DEF ParsedTo
  <2> QED BY <2>4 DEF r
<1>3. CASE s.end = "no" /\ ~(ch = NUL \/ (s.n >= NumDisp(d) /\ ch # "."))
  <2>1. CASE ch = "." \/ ch \in DOMAIN Font
    <3>1. r = Put(d, s, ch)
      BY <1>3, <2>1 DEF PutNext
    <3>2. s.n < NumDisp(d) \/ ch = "."
      <4>1. s.n \in Nat /\ NumDisp(d) \in Nat
        BY <1>3, HasDigit, DigitSteps, LightsAssumption DEF ParsedTo
      <4> QED BY <1>3, <4>1
    <3>3. ParsedTo(Put(d, s, ch), d, text, t + 1)
      BY <1>3, <3>2, PutParses
    <3> QED BY <3>1, <3>3
  <2>2. CASE ~(ch = "." \/ ch \in DOMAIN Font)
    <3>1. r = EndsWith(s, "invalid")
      BY <1>3, <2>2 DEF PutNext
    <3>2. r.end = "invalid"
      BY <3>1 DEF EndsWith
    <3> HIDE DEF r
    <3>3. ParsedTo(r, d, text, t + 1)
      BY <3>2 DEF ParsedTo
    <3> QED BY <3>3 DEF r
  <2> QED BY <2>1, <2>2
<1> QED BY <1>1, <1>2, <1>3

(* The loop puts what the text stands for, in the LEDs of the display.     *)
LEMMA ParsedShows ==
    ASSUME NEW d \in Displays, NEW text \in Texts, Parsed(d, text).end # "invalid"
    PROVE  SegmentsOf(Parsed(d, text).val) = Shows(d, text) /\ Shows(d, text) \subseteq Leds(d)
<1>1. PICK h : IsParse(h, d, text, Len(text)) /\ Parsed(d, text) = h[Len(text)]
  BY ParseExists
<1> DEFINE N == Len(text)
           S == {n \in 0..N : ParsedTo(h[n], d, text, n)}
<1>2. N \in Nat
  BY LightsAssumption
<1>3. h[0] = Blank(d) /\ \A n \in 0..N - 1 : h[n + 1] = PutNext(d, h[n], text[n + 1])
  <2>1. \A i \in 0..N : h[i] = IF i = 0 THEN Blank(d) ELSE PutNext(d, h[i - 1], text[i])
    BY <1>1 DEF IsParse
  <2> QED BY <1>2, <2>1
<1>4. 0 \in S
  <2>1. /\ Blank(d).end = "no" /\ Blank(d).i = 0 /\ Blank(d).n = 0
        /\ Blank(d).val = [k \in 1..NumDisp(d) |-> {}]
    BY DEF Blank
  <2>2. DigitOf(text, 0) = 0 /\ NumDisp(d) \in Nat
    BY DigitSteps, HasDigit
  <2>3. \A k \in 1..NumDisp(d) : Looks(text, 1..0, k) = {}
    BY DEF Looks
  <2>4. Blank(d).val = [k \in 1..NumDisp(d) |-> Looks(text, 1..0, k)]
    BY <2>1, <2>3
  <2>5. ParsedTo(Blank(d), d, text, 0)
    BY <2>1, <2>2, <2>4 DEF ParsedTo
  <2> QED BY <1>2, <1>3, <2>5
<1>5. ASSUME NEW n \in 0..N - 1, n \in S PROVE n + 1 \in S
  <2>1. ParsedTo(h[n], d, text, n)
    BY <1>5
  <2>2. ParsedTo(h[n + 1], d, text, n + 1)
    BY <1>3, <2>1, NextParses
  <2> QED BY <1>2, <2>2
<1>6. ParsedTo(Parsed(d, text), d, text, N)
  <2>1. 0..N \subseteq S
    <3> HIDE DEF S
    <3> QED BY <1>2, <1>4, <1>5, UpTo
  <2> QED BY <1>1, <1>2, <2>1
<1> DEFINE shown == [k \in 1..NumDisp(d) |-> Looks(text, Used(text), k)]
<1>7. Parsed(d, text).val = shown
  <2>1. CASE Parsed(d, text).end = "break"
    BY <1>6, <2>1 DEF ParsedTo
  <2>2. CASE Parsed(d, text).end = "no"
    <3>1. \A j \in 1..N : text[j] # NUL
      BY <1>6, <2>2 DEF ParsedTo
    <3>2. Used(text) = 1..N
      BY <1>2, <3>1 DEF Used
    <3> QED BY <1>6, <2>2, <3>2 DEF ParsedTo
  <2> QED BY <1>6, <2>1, <2>2 DEF ParsedTo
<1>8. SegmentsOf(shown) \subseteq Leds(d)
  <2>1. Len(shown) = NumDisp(d)
    BY HasDigit
  <2> HIDE DEF shown
  <2> SUFFICES ASSUME NEW a \in 1..NumDisp(d), NEW b \in 0..Segments - 1
               PROVE  (a - 1) * Segments + b + 1 \in Leds(d)
    BY <2>1 DEF SegmentsOf
  <2>2. Segments \in Nat \ {0} /\ NumDisp(d) \in Nat \ {0} /\ NumDisp(d) * Segments <= Len(Gpios[d])
    BY HasDigit, LightsAssumption
  <2>3. Leds(d) = 1..Len(Gpios[d]) /\ Len(Gpios[d]) \in Nat
    BY LedTypes DEF Devices
  <2>4. /\ (a - 1) * Segments \in Nat
        /\ (a - 1) * Segments + Segments <= NumDisp(d) * Segments
    <3>1. \A x, y, z \in Nat : x <= y => x * z <= y * z
      OBVIOUS
    <3>2. a * Segments <= NumDisp(d) * Segments
      BY <2>2, <3>1
    <3>3. (a - 1) * Segments + Segments = a * Segments /\ (a - 1) * Segments \in Nat
      BY <2>2
    <3> QED BY <3>2, <3>3
  <2>5. PICK m \in Nat : m = (a - 1) * Segments
    BY <2>4
  <2>6. PICK w \in Int : w = NumDisp(d) * Segments
    BY <2>2
  <2>7. m + Segments <= w /\ w <= Len(Gpios[d])
    BY <2>2, <2>4, <2>5, <2>6
  <2>8. m + b + 1 \in 1..Len(Gpios[d])
    BY <2>2, <2>3, <2>7
  <2> QED BY <2>3, <2>5, <2>8
<1> QED BY <1>7, <1>8 DEF Shows

-----------------------------------------------------------------------------
(* The invariant of the dashboard. *)

(* What the chain was last told to put out at a port, and the pins of a     *)
(* device there.                                                            *)
Out(p) == output[Index(p)]
Own(d, p) == PinsAt(d, p, Leds(d))

LightsTypes ==
    /\ output \in [Ports -> SUBSET Pins]
    /\ map \in [Devices -> Seq(MapEntry)] /\ index \in [Devices -> Nat]
    /\ dev \in [Devices -> {"none", "failed", "idle", "set"}]
    /\ asked \in [Devices -> SUBSET Nat] /\ \A d \in Devices : asked[d] \subseteq Leds(d)
    /\ ok \in [Devices -> BOOLEAN] /\ repeats \in [Devices -> BOOLEAN]

(* The registers are the outputs, unless a transfer has failed. *)
Transmitted == ~stale => \A p \in Ports : register[p] = Out(p)

(* The map of a device covers its LEDs and remembers what it was asked for. *)
Mapped(d) ==
    /\ \A k \in 1..Len(map[d]) : /\ map[d][k].mask = Own(d, map[d][k].port)
                                 /\ map[d][k].value = PinsAt(d, map[d][k].port, asked[d])
    /\ \A k, l \in 1..Len(map[d]) : map[d][k].port = map[d][l].port => k = l
    /\ \A i \in Leds(d) : \E k \in 1..Len(map[d]) : map[d][k].port = Gpios[d][i][1]

(* The output of a port is what an entry of the map remembers for it. *)
Agrees(d, k) == Out(map[d][k].port) \cap map[d][k].mask = map[d][k].value

(* Before a device is initialized nobody lights its pins; then it has set   *)
(* the entries it has passed; and a call that failed has left one to set,   *)
(* so that its repetition transfers the outputs.                            *)
DeviceInv(d) ==
    /\ dev[d] = "none" => /\ asked[d] = {} /\ ~repeats[d] /\ index[d] = 1
                          /\ ok[d] <=> d \in Strips
                          /\ \A p \in Ports : Out(p) \cap Own(d, p) = {}
    /\ dev[d] \in {"idle", "set"} => Mapped(d)
    /\ dev[d] = "set" =>
         /\ ~ok[d] /\ index[d] \in 1..Len(map[d]) + 1
         /\ \A k \in 1..index[d] - 1 : Agrees(d, k)
         /\ repeats[d] => ~stale \/ \E k \in index[d]..Len(map[d]) : ~Agrees(d, k)
    /\ dev[d] = "idle" =>
         /\ index[d] = 1
         /\ ok[d] => \A k \in 1..Len(map[d]) : Agrees(d, k)
         /\ ok[d] /\ repeats[d] => ~stale
         /\ ~ok[d] => \E k \in 1..Len(map[d]) : ~Agrees(d, k)

LightsInv == LightsTypes /\ Transmitted /\ \A d \in Devices : DeviceInv(d)

(* Pins of different LEDs are different. *)
LEMMA PinsApart ==
    ASSUME NEW d \in Devices, NEW p
    PROVE  /\ \A e \in Devices : e # d => Own(d, p) \cap Own(e, p) = {}
           /\ \A leds \in SUBSET Leds(d) : PinsAt(d, p, leds) \subseteq Own(d, p)
           /\ Own(d, p) \subseteq Pins
           /\ \A leds \in SUBSET Leds(d) : \A i \in Leds(d) :
                Gpios[d][i][1] = p => (Gpios[d][i][2] \in PinsAt(d, p, leds) <=> i \in leds)
           /\ \A old, lit, changed \in SUBSET Leds(d) :
                PinsAt(d, p, (old \ changed) \cup lit) =
                  (PinsAt(d, p, old) \ PinsAt(d, p, changed)) \cup PinsAt(d, p, lit)
           /\ PinsAt(d, p, {}) = {}
<1>1. ASSUME NEW leds \in SUBSET Leds(d), NEW i \in Leds(d), Gpios[d][i][1] = p
      PROVE  Gpios[d][i][2] \in PinsAt(d, p, leds) <=> i \in leds
  BY <1>1, LedTypes DEF PinsAt
<1>2. ASSUME NEW e \in Devices, e # d PROVE Own(d, p) \cap Own(e, p) = {}
  BY <1>2, LedTypes DEF PinsAt, Own
<1>3. ASSUME NEW leds \in SUBSET Leds(d) PROVE PinsAt(d, p, leds) \subseteq Own(d, p)
  BY DEF PinsAt, Own
<1>4. Own(d, p) \subseteq Pins
  BY LedTypes DEF PinsAt, Own
<1>5. ASSUME NEW old \in SUBSET Leds(d), NEW lit \in SUBSET Leds(d), NEW changed \in SUBSET Leds(d)
      PROVE  PinsAt(d, p, (old \ changed) \cup lit) =
               (PinsAt(d, p, old) \ PinsAt(d, p, changed)) \cup PinsAt(d, p, lit)
  <2> DEFINE new == (old \ changed) \cup lit
  <2>1. \A leds \in SUBSET Leds(d) : \A x : x \in PinsAt(d, p, leds) <=>
          \E i \in Leds(d) : Gpios[d][i][1] = p /\ Gpios[d][i][2] = x /\ i \in leds
    BY DEF PinsAt
  <2>2. new \in SUBSET Leds(d) /\ \A i : i \in new <=> (i \in old /\ i \notin changed) \/ i \in lit
    OBVIOUS
  <2>3. \A i, j \in Leds(d) : Gpios[d][i][1] = p /\ Gpios[d][j][1] = p /\ Gpios[d][i][2] = Gpios[d][j][2]
          => i = j
    BY LedTypes
  <2> HIDE DEF new
  <2>4. ASSUME NEW x
        PROVE  x \in PinsAt(d, p, new) <=>
                 (x \in PinsAt(d, p, old) /\ x \notin PinsAt(d, p, changed)) \/ x \in PinsAt(d, p, lit)
    <3>1. CASE \E i \in Leds(d) : Gpios[d][i][1] = p /\ Gpios[d][i][2] = x
      <4>1. PICK i \in Leds(d) : Gpios[d][i][1] = p /\ Gpios[d][i][2] = x
        BY <3>1
      <4>2. \A leds \in SUBSET Leds(d) : x \in PinsAt(d, p, leds) <=> i \in leds
        BY <1>1, <4>1
      <4> QED BY <2>2, <4>2
    <3>2. CASE ~\E i \in Leds(d) : Gpios[d][i][1] = p /\ Gpios[d][i][2] = x
      BY <2>1, <2>2, <3>2
    <3> QED BY <3>1, <3>2
  <2> QED BY <2>4 DEF new
<1>6. PinsAt(d, p, {}) = {}
  BY DEF PinsAt
<1> QED BY <1>1, <1>2, <1>3, <1>4, <1>5, <1>6

(* Ports have an output each. *)
LEMMA OutputsApart ==
    /\ NumChilds \in Nat \ {0}
    /\ \A p \in Ports : Index(p) \in Ports
    /\ \A p, q \in Ports : Index(p) = Index(q) => p = q
BY LightsAssumption DEF Ports, Index

(* What a transfer does. *)
LEMMA TransferShows ==
    ASSUME NEW out, Transfer(out)
    PROVE  stale' = FALSE /\ repeats' = repeats /\ \A p \in Ports : register'[p] = out[Index(p)]
<1>1. \A p \in Ports : p < NumChilds /\ Index(p) = NumChilds - p - 1
  BY LightsAssumption DEF Ports, Index
<1>2. register' = [p \in Ports |-> IF p < NumChilds THEN out[NumChilds - p - 1] ELSE register[p - NumChilds]]
  BY DEF Transfer, Shifted
<1> QED BY <1>1, <1>2 DEF Transfer

(* What a transfer that fails does. *)
LEMMA TransferFailsShows ==
    ASSUME NEW out, TransferFails(out)
    PROVE  stale' = TRUE /\ \A d \in Devices : repeats'[d] = FALSE
BY DEF TransferFails

(* A port is set. *)
LEMMA PortSet ==
    ASSUME LightsTypes, Transmitted, NEW p \in Ports, NEW mask \in SUBSET Pins,
           NEW value \in SUBSET mask, PortSetMasked(p, mask, value, TRUE)
    PROVE  /\ output' \in [Ports -> SUBSET Pins] /\ Transmitted' /\ repeats' = repeats
           /\ \A q \in Ports : q # p => output'[Index(q)] = Out(q)
           /\ output'[Index(p)] \ mask = Out(p) \ mask
           /\ output'[Index(p)] \cap mask = value
           /\ ~stale => ~stale'
           /\ Out(p) \cap mask # value => ~stale'
<1> DEFINE pins == (Out(p) \ mask) \cup (mask \cap value)
           out == [output EXCEPT ![Index(p)] = pins]
<1>1. Index(p) \in Ports /\ output \in [Ports -> SUBSET Pins] /\ Out(p) \in SUBSET Pins
  BY OutputsApart DEF LightsTypes, Out
<1>2. pins \in SUBSET Pins /\ pins \cap mask = value /\ pins \ mask = Out(p) \ mask
  BY <1>1
<1>3. pins = Out(p) <=> Out(p) \cap mask = value
  BY <1>1
<1>4. WriteOutput(p, pins, TRUE)
  BY DEF PortSetMasked, Out
<1> HIDE DEF pins
<1>5. /\ out \in [Ports -> SUBSET Pins] /\ out[Index(p)] = pins
      /\ \A q \in Ports : q # p => out[Index(q)] = Out(q)
  BY <1>1, <1>2, OutputsApart DEF Out
<1> HIDE DEF out
<1>6. CASE pins = Out(p) /\ UNCHANGED chainVars
  <2>1. output' = output /\ register' = register /\ stale' = stale /\ repeats' = repeats
    BY <1>6 DEF chainVars
  <2>2. output'[Index(p)] = Out(p) /\ \A q \in Ports : output'[Index(q)] = Out(q)
    BY <2>1 DEF Out
  <2>3. Transmitted'
    BY <2>1, <2>2 DEF Transmitted, Out
  <2> QED BY <1>1, <1>3, <1>6, <2>1, <2>2, <2>3
<1>7. CASE pins # Out(p) /\ output' = out /\ Transfer(out)
  <2>1. stale' = FALSE /\ repeats' = repeats /\ \A q \in Ports : register'[q] = out[Index(q)]
    BY <1>7, TransferShows
  <2>2. Transmitted'
    BY <1>7, <2>1 DEF Transmitted, Out
  <2> QED BY <1>1, <1>2, <1>3, <1>5, <1>7, <2>1, <2>2
<1> QED BY <1>4, <1>6, <1>7 DEF WriteOutput, Out, out

(* A port is not set: the transfer was one that would have changed it.      *)
LEMMA PortNotSet ==
    ASSUME LightsTypes, NEW p \in Ports, NEW mask \in SUBSET Pins,
           NEW value \in SUBSET mask, PortSetMasked(p, mask, value, FALSE)
    PROVE  /\ output' = output /\ Transmitted' /\ repeats' \in [Devices -> BOOLEAN]
           /\ Out(p) \cap mask # value
           /\ \A d \in Devices : repeats'[d] = FALSE
<1> DEFINE pins == (Out(p) \ mask) \cup (mask \cap value)
           out == [output EXCEPT ![Index(p)] = pins]
<1>1. pins = Out(p) <=> Out(p) \cap mask = value
  OBVIOUS
<1>2. WriteOutput(p, pins, FALSE)
  BY DEF PortSetMasked, Out
<1> HIDE DEF pins
<1>3. pins # Out(p) /\ TransferFails(out) /\ UNCHANGED output
  BY <1>2 DEF WriteOutput, Out
<1> HIDE DEF out
<1>4. stale' = TRUE /\ \A d \in Devices : repeats'[d] = FALSE
  BY <1>3, TransferFailsShows
<1>5. repeats' \in [Devices -> BOOLEAN]
  BY <1>3 DEF TransferFails
<1> QED BY <1>1, <1>3, <1>4, <1>5 DEF Transmitted

(* A device that does nothing, while no pin of its own is changed. *)
LEMMA DeviceKept ==
    ASSUME NEW d \in Devices, LightsTypes, DeviceInv(d),
           map'[d] = map[d], dev'[d] = dev[d], index'[d] = index[d], asked'[d] = asked[d],
           ok'[d] = ok[d], repeats'[d] => repeats[d] /\ (~stale => ~stale'),
           \A p \in Ports : output'[Index(p)] \cap Own(d, p) = Out(p) \cap Own(d, p)
    PROVE  DeviceInv(d)'
<1>1. ASSUME Mapped(d), NEW k \in 1..Len(map[d]) PROVE Agrees(d, k)' <=> Agrees(d, k)
  <2>1. map[d][k].port \in Ports /\ map[d][k].mask = Own(d, map[d][k].port)
    <3>1. map[d][k] \in MapEntry
      BY DEF LightsTypes
    <3> QED BY <1>1, <3>1 DEF Mapped, MapEntry
  <2>2. output'[Index(map[d][k].port)] \cap map[d][k].mask = Out(map[d][k].port) \cap map[d][k].mask
    BY <2>1
  <2> QED BY <2>2 DEF Agrees, Out
<1>2. CASE dev[d] = "none"
  BY <1>2 DEF DeviceInv, Out
<1>3. CASE dev[d] = "failed"
  BY <1>3 DEF DeviceInv
<1>4. CASE dev[d] = "set"
  <2>1. Mapped(d)' /\ Mapped(d)
    BY <1>4 DEF DeviceInv, Mapped
  <2>2. /\ ~ok[d] /\ index[d] \in 1..Len(map[d]) + 1
        /\ \A k \in 1..index[d] - 1 : Agrees(d, k)
        /\ repeats[d] => ~stale \/ \E k \in index[d]..Len(map[d]) : ~Agrees(d, k)
    BY <1>4 DEF DeviceInv
  <2>3. Len(map[d]) \in Nat
    BY DEF LightsTypes
  <2>4. \A k \in 1..index[d] - 1 : Agrees(d, k)'
    BY <1>1, <2>1, <2>2, <2>3
  <2>5. repeats'[d] => ~stale' \/ \E k \in index[d]..Len(map[d]) : ~Agrees(d, k)'
    <3> SUFFICES ASSUME repeats'[d], stale' PROVE \E k \in index[d]..Len(map[d]) : ~Agrees(d, k)'
      OBVIOUS
    <3>1. PICK k \in index[d]..Len(map[d]) : ~Agrees(d, k)
      BY <2>2
    <3>2. ~Agrees(d, k)'
      BY <1>1, <2>1, <2>2, <2>3, <3>1
    <3> QED BY <3>2
  <2> QED BY <1>4, <2>1, <2>2, <2>4, <2>5 DEF DeviceInv
<1>5. CASE dev[d] = "idle"
  <2>1. Mapped(d)' /\ Mapped(d)
    BY <1>5 DEF DeviceInv, Mapped
  <2>2. /\ index[d] = 1
        /\ ok[d] => \A k \in 1..Len(map[d]) : Agrees(d, k)
        /\ ok[d] /\ repeats[d] => ~stale
        /\ ~ok[d] => \E k \in 1..Len(map[d]) : ~Agrees(d, k)
    BY <1>5 DEF DeviceInv
  <2> QED BY <1>1, <1>5, <2>1, <2>2 DEF DeviceInv
<1> QED BY <1>2, <1>3, <1>4, <1>5 DEF LightsTypes

(* The shift registers are initialized. *)
LEMMA ChainInitKeeps ==
    ASSUME LightsInv, NEW p \in Ports, NEW succeeds \in BOOLEAN, ChainInit(p, succeeds)
    PROVE  LightsInv'
<1>1. UNCHANGED <<output, map, dev, index, asked, ok>>
  BY DEF ChainInit
<1>2. /\ Transmitted' /\ repeats' \in [Devices -> BOOLEAN]
      /\ \A d \in Devices : repeats'[d] => repeats[d] /\ (~stale => ~stale')
  <2>0. Transmitted /\ repeats \in [Devices -> BOOLEAN]
    BY DEF LightsInv, LightsTypes
  <2>1. CASE UNCHANGED <<register, failures, stale, repeats>>
    BY <1>1, <2>0, <2>1 DEF Transmitted, Out
  <2>2. CASE Transfer(output)
    <3>1. stale' = FALSE /\ repeats' = repeats /\ \A q \in Ports : register'[q] = output[Index(q)]
      BY <2>2, TransferShows
    <3> QED BY <1>1, <2>0, <3>1 DEF Transmitted, Out
  <2>3. CASE TransferFails(output)
    <3>1. stale' = TRUE /\ \A d \in Devices : repeats'[d] = FALSE
      BY <2>3, TransferFailsShows
    <3>2. repeats' \in [Devices -> BOOLEAN]
      BY <2>3 DEF TransferFails
    <3> QED BY <3>1, <3>2 DEF Transmitted
  <2> QED BY <2>1, <2>2, <2>3 DEF ChainInit
<1>3. LightsTypes'
  BY <1>1, <1>2 DEF LightsInv, LightsTypes
<1>4. ASSUME NEW d \in Devices PROVE DeviceInv(d)'
  <2>1. /\ LightsTypes /\ DeviceInv(d) /\ repeats'[d] => repeats[d] /\ (~stale => ~stale')
    BY <1>2 DEF LightsInv
  <2>2. \A q \in Ports : output'[Index(q)] \cap Own(d, q) = Out(q) \cap Own(d, q)
    BY <1>1 DEF Out
  <2> QED BY <1>1, <1>2, <2>1, <2>2, DeviceKept DEF LightsInv
<1> QED BY <1>2, <1>3, <1>4 DEF LightsInv

(* A step of one device that leaves the chain alone. *)
LEMMA OthersKept ==
    ASSUME LightsInv, NEW d \in Devices, UNCHANGED <<output, register>>, stale' = stale,
           LightsTypes', DeviceInv(d)',
           \A e \in Devices \ {d} : /\ map'[e] = map[e] /\ dev'[e] = dev[e] /\ index'[e] = index[e]
                                    /\ asked'[e] = asked[e] /\ ok'[e] = ok[e]
                                    /\ repeats'[e] = repeats[e]
    PROVE  LightsInv'
<1>1. Transmitted'
  BY DEF LightsInv, Transmitted, Out
<1>2. ASSUME NEW e \in Devices, e # d PROVE DeviceInv(e)'
  <2>1. /\ map'[e] = map[e] /\ dev'[e] = dev[e] /\ index'[e] = index[e]
        /\ asked'[e] = asked[e] /\ ok'[e] = ok[e]
        /\ repeats'[e] => repeats[e] /\ (~stale => ~stale')
    BY <1>2
  <2>2. \A q \in Ports : output'[Index(q)] \cap Own(e, q) = Out(q) \cap Own(e, q)
    BY DEF Out
  <2>3. LightsTypes /\ DeviceInv(e)
    BY DEF LightsInv
  <2> QED BY <2>1, <2>2, <2>3, DeviceKept
<1> QED BY <1>1, <1>2 DEF LightsInv

(* A device starts with the map of its LEDs, all of them off. *)
LEMMA DeviceInitKeeps ==
    ASSUME LightsInv, NEW d \in Devices, DeviceInit(d)
    PROVE  LightsInv'
<1>1. /\ dev[d] = "none" /\ UNCHANGED <<output, register, stale, repeats, asked, ok>>
      /\ LightsTypes /\ DeviceInv(d)
  BY DEF DeviceInit, chainVars, LightsInv
<1>2. /\ asked[d] = {} /\ ~repeats[d] /\ index[d] = 1 /\ (ok[d] <=> d \in Strips)
      /\ \A p \in Ports : Out(p) \cap Own(d, p) = {}
  BY <1>1 DEF DeviceInv
<1>3. CASE dev' = [dev EXCEPT ![d] = "failed"] /\ UNCHANGED <<map, index>>
  <2>1. LightsTypes'
    BY <1>1, <1>3 DEF LightsTypes
  <2>2. dev'[d] = "failed"
    BY <1>1, <1>3 DEF LightsTypes
  <2>3. DeviceInv(d)'
    BY <2>2 DEF DeviceInv
  <2>4. \A e \in Devices \ {d} : dev'[e] = dev[e]
    BY <1>1, <1>3 DEF LightsTypes
  <2> QED BY <1>1, <1>3, <2>1, <2>3, <2>4, OthersKept
<1>4. CASE /\ map' = [map EXCEPT ![d] = GpioMap(d)]
           /\ index' = [index EXCEPT ![d] = 1]
           /\ dev' = [dev EXCEPT ![d] = IF d \in Displays THEN "set" ELSE "idle"]
  <2> DEFINE m == GpioMap(d)
  <2>1. /\ m \in Seq(MapEntry) /\ Len(m) \in Nat
        /\ \A k \in 1..Len(m) : m[k].mask = Own(d, m[k].port) /\ m[k].value = {}
        /\ \A k, l \in 1..Len(m) : m[k].port = m[l].port => k = l
        /\ \A i \in Leds(d) : \E k \in 1..Len(m) : m[k].port = Gpios[d][i][1]
        /\ \A k \in 1..Len(m) : m[k].port \in Ports
    <3>1. MapOf(m, d, Len(Gpios[d])) /\ Leds(d) = 1..Len(Gpios[d])
      BY GpioMapIs, LedTypes
    <3>2. m \in Seq(MapEntry)
      BY <3>1 DEF MapOf
    <3> HIDE DEF m
    <3>3. \A k \in 1..Len(m) : m[k] \in MapEntry
      BY <3>2
    <3> QED BY <3>1, <3>2, <3>3 DEF MapOf, Own, MapEntry
  <2> HIDE DEF m
  <2>2. map' = [map EXCEPT ![d] = m]
    BY <1>4 DEF m
  <2>3. LightsTypes'
    BY <1>1, <1>4, <2>1, <2>2 DEF LightsTypes
  <2>40. d \in Displays => ~ok[d]
    BY <1>2, LightsAssumption
  <2>4. /\ map'[d] = m /\ index'[d] = 1 /\ dev'[d] = (IF d \in Displays THEN "set" ELSE "idle")
        /\ asked'[d] = {} /\ repeats'[d] = FALSE /\ (d \in Displays => ~ok'[d])
    BY <1>1, <1>2, <1>4, <2>2, <2>40 DEF LightsTypes
  <2>5. Mapped(d)'
    <3>1. \A p : PinsAt(d, p, {}) = {}
      BY PinsApart
    <3>2. map'[d] = m /\ asked'[d] = {}
      BY <2>4
    <3> QED BY <2>1, <3>1, <3>2 DEF Mapped
  <2>6. \A k \in 1..Len(m) : Agrees(d, k)'
    <3> SUFFICES ASSUME NEW k \in 1..Len(m) PROVE Agrees(d, k)'
      OBVIOUS
    <3>1. Out(m[k].port) \cap m[k].mask = {} /\ m[k].value = {}
      BY <1>2, <2>1
    <3> QED BY <1>1, <2>4, <3>1 DEF Agrees, Out
  <2>7. DeviceInv(d)'
    <3>1. CASE d \in Displays
      <4>1. /\ dev'[d] = "set" /\ ~ok'[d] /\ index'[d] = 1 /\ Len(map'[d]) \in Nat /\ ~repeats'[d]
        BY <2>1, <2>4, <3>1
      <4>2. index'[d] \in 1..Len(map'[d]) + 1 /\ 1..index'[d] - 1 = {}
        BY <4>1
      <4> QED BY <2>5, <4>1, <4>2 DEF DeviceInv
    <3>2. CASE d \notin Displays
      <4>1. ok'[d]
        BY <1>1, <1>2, <3>2 DEF Devices
      <4> QED BY <2>4, <2>5, <2>6, <3>2, <4>1 DEF DeviceInv
    <3> QED BY <3>1, <3>2
  <2>8. \A e \in Devices \ {d} : map'[e] = map[e] /\ dev'[e] = dev[e] /\ index'[e] = index[e]
    BY <1>1, <1>4, <2>2 DEF LightsTypes
  <2> QED BY <1>1, <2>3, <2>7, <2>8, OthersKept
<1> QED BY <1>3, <1>4 DEF DeviceInit

(* An entry of a map. *)
LEMMA EntryTypes ==
    ASSUME LightsTypes, NEW d \in Devices, Mapped(d), NEW k \in 1..Len(map[d])
    PROVE  /\ map[d][k].port \in Ports
           /\ map[d][k].mask = Own(d, map[d][k].port) /\ map[d][k].mask \in SUBSET Pins
           /\ map[d][k].value \in SUBSET map[d][k].mask
<1>1. map[d] \in Seq(MapEntry)
  BY DEF LightsTypes
<1>2. map[d][k] \in MapEntry
  BY <1>1
<1>3. map[d][k].port \in Ports /\ map[d][k].mask \in SUBSET Pins
  BY <1>2 DEF MapEntry
<1>4. map[d][k].mask = Own(d, map[d][k].port) /\ map[d][k].value = PinsAt(d, map[d][k].port, asked[d])
  BY DEF Mapped
<1>5. asked[d] \in SUBSET Leds(d)
  BY DEF LightsTypes
<1>6. PinsAt(d, map[d][k].port, asked[d]) \subseteq Own(d, map[d][k].port)
  BY <1>5, PinsApart
<1> QED BY <1>3, <1>4, <1>6

(* A device sets a port: its entry agrees from then on, and no other's pin  *)
(* is changed.                                                              *)
LEMMA SetGpioKeeps ==
    ASSUME LightsInv, NEW d \in Devices, NEW succeeds \in BOOLEAN, SetGpio(d, succeeds)
    PROVE  LightsInv'
<1>1. PICK at \in Nat : at = index[d]
  BY DEF LightsInv, LightsTypes
<1>0. /\ LightsTypes /\ Transmitted /\ DeviceInv(d) /\ Len(map[d]) \in Nat
      /\ dev[d] = "set" /\ at <= Len(map[d])
  BY <1>1 DEF LightsInv, LightsTypes, SetGpio
<1>4. /\ Mapped(d) /\ ~ok[d] /\ at \in 1..Len(map[d])
      /\ \A k \in 1..at - 1 : Agrees(d, k)
      /\ repeats[d] => ~stale \/ \E k \in at..Len(map[d]) : ~Agrees(d, k)
  BY <1>0, <1>1 DEF DeviceInv
<1>5. PICK p \in Ports, mask \in SUBSET Pins, value \in SUBSET Pins :
        /\ p = map[d][at].port /\ mask = map[d][at].mask /\ value = map[d][at].value
        /\ mask = Own(d, p) /\ value \in SUBSET mask
  <2>1. /\ map[d][at].port \in Ports /\ map[d][at].mask = Own(d, map[d][at].port)
        /\ map[d][at].mask \in SUBSET Pins /\ map[d][at].value \in SUBSET map[d][at].mask
    BY <1>0, <1>4, EntryTypes
  <2> DEFINE pp == map[d][at].port
             mm == map[d][at].mask
             vv == map[d][at].value
  <2>2. pp \in Ports /\ mm = Own(d, pp) /\ mm \in SUBSET Pins /\ vv \in SUBSET mm /\ vv \in SUBSET Pins
    BY <2>1
  <2> HIDE DEF pp, mm, vv
  <2>3. \E p \in Ports : \E mask, value \in SUBSET Pins :
          p = pp /\ mask = mm /\ value = vv /\ mask = Own(d, p) /\ value \in SUBSET mask
    BY <2>2
  <2> QED BY <2>3 DEF pp, mm, vv
<1>2. /\ dev[d] = "set" /\ at <= Len(map[d]) /\ PortSetMasked(p, mask, value, succeeds)
      /\ index' = [index EXCEPT ![d] = IF succeeds THEN @ + 1 ELSE 1]
      /\ dev' = [dev EXCEPT ![d] = IF succeeds THEN "set" ELSE "idle"]
      /\ UNCHANGED <<map, asked, ok>>
  BY <1>1, <1>5 DEF SetGpio
<1>3. LightsTypes /\ Transmitted /\ DeviceInv(d) /\ Len(map[d]) \in Nat
  BY <1>0
<1>6. Agrees(d, at) <=> Out(p) \cap mask = value
  BY <1>5 DEF Agrees
<1>7. \A k \in 1..Len(map[d]) : k # at => map[d][k].port \in Ports /\ map[d][k].port # p
  BY <1>3, <1>4, <1>5, EntryTypes DEF Mapped
<1>8. /\ output' \in [Ports -> SUBSET Pins] /\ Transmitted'
      /\ repeats' \in [Devices -> BOOLEAN]
      /\ \A q \in Ports : q # p => output'[Index(q)] = Out(q)
      /\ output'[Index(p)] \ mask = Out(p) \ mask
      /\ succeeds => /\ output'[Index(p)] \cap mask = value
                     /\ repeats' = repeats /\ (~stale => ~stale')
                     /\ Out(p) \cap mask # value => ~stale'
      /\ ~succeeds => /\ output' = output /\ Out(p) \cap mask # value
                      /\ \A e \in Devices : repeats'[e] = FALSE
  <2>1. CASE succeeds
    <3>1. PortSetMasked(p, mask, value, TRUE)
      <4>1. succeeds = TRUE
        BY <2>1
      <4> QED BY <1>2, <4>1
    <3>2. /\ output' \in [Ports -> SUBSET Pins] /\ Transmitted' /\ repeats' = repeats
          /\ \A q \in Ports : q # p => output'[Index(q)] = Out(q)
          /\ output'[Index(p)] \ mask = Out(p) \ mask
          /\ output'[Index(p)] \cap mask = value
          /\ ~stale => ~stale'
          /\ Out(p) \cap mask # value => ~stale'
      <4>1. p \in Ports /\ mask \in SUBSET Pins /\ value \in SUBSET mask
        BY <1>5
      <4>2. LightsTypes /\ Transmitted
        BY <1>3
      <4> QED BY <3>1, <4>1, <4>2, PortSet
    <3> QED BY <1>3, <2>1, <3>2 DEF LightsTypes
  <2>2. CASE ~succeeds
    <3>1. PortSetMasked(p, mask, value, FALSE)
      <4>1. succeeds = FALSE
        BY <2>2
      <4> QED BY <1>2, <4>1
    <3>2. /\ output' = output /\ Transmitted' /\ repeats' \in [Devices -> BOOLEAN]
          /\ Out(p) \cap mask # value
          /\ \A e \in Devices : repeats'[e] = FALSE
      BY <1>3, <1>5, <3>1, PortNotSet
    <3> QED BY <1>3, <2>2, <3>2 DEF LightsTypes, Out
  <2> QED BY <2>1, <2>2
<1>9. LightsTypes'
  BY <1>1, <1>2, <1>3, <1>8 DEF LightsTypes
<1>10. ASSUME NEW e \in Devices, e # d PROVE DeviceInv(e)'
  <2>1. /\ map'[e] = map[e] /\ dev'[e] = dev[e] /\ index'[e] = index[e]
        /\ asked'[e] = asked[e] /\ ok'[e] = ok[e]
    BY <1>2, <1>3, <1>10 DEF LightsTypes
  <2>2. repeats'[e] => repeats[e] /\ (~stale => ~stale')
    BY <1>8
  <2>3. ASSUME NEW q \in Ports PROVE output'[Index(q)] \cap Own(e, q) = Out(q) \cap Own(e, q)
    <3>1. CASE q # p
      BY <1>8, <3>1
    <3>2. CASE q = p
      <4>1. Own(e, p) \cap mask = {}
        BY <1>5, <1>10, PinsApart
      <4> QED BY <1>8, <3>2, <4>1
    <3> QED BY <3>1, <3>2
  <2>4. DeviceInv(e)
    BY DEF LightsInv
  <2> QED BY <1>3, <2>1, <2>2, <2>3, <2>4, DeviceKept
<1>11. DeviceInv(d)'
  <2>1. map'[d] = map[d] /\ asked'[d] = asked[d] /\ ok'[d] = ok[d] /\ Mapped(d)'
    BY <1>2, <1>4 DEF Mapped
  <2>2. ASSUME NEW k \in 1..Len(map[d]), k # at PROVE Agrees(d, k)' <=> Agrees(d, k)
    <3>1. output'[Index(map[d][k].port)] = Out(map[d][k].port)
      BY <1>7, <1>8, <2>2
    <3> QED BY <2>1, <3>1 DEF Agrees, Out
  <2>3. CASE succeeds
    <3>1. dev'[d] = "set" /\ index'[d] = at + 1
      BY <1>1, <1>2, <1>3, <2>3 DEF LightsTypes
    <3>2. Agrees(d, at)'
      <4>1. map'[d][at].port = p /\ map'[d][at].mask = mask /\ map'[d][at].value = value
        BY <1>5, <2>1
      <4> QED BY <1>8, <2>3, <4>1 DEF Agrees, Out
    <3>3. \A k \in 1..at : Agrees(d, k)'
      BY <1>3, <1>4, <2>2, <3>2
    <3>4. ASSUME repeats'[d], stale' PROVE \E k \in at + 1..Len(map[d]) : ~Agrees(d, k)'
      <4>1. repeats[d] /\ stale /\ Out(p) \cap mask = value
        BY <1>8, <2>3, <3>4
      <4>2. PICK k \in at..Len(map[d]) : ~Agrees(d, k)
        BY <1>4, <4>1
      <4>3. k # at
        BY <1>6, <4>1, <4>2
      <4>4. k \in at + 1..Len(map[d]) /\ k \in 1..Len(map[d])
        BY <1>3, <1>4, <4>2, <4>3
      <4> QED BY <2>2, <4>2, <4>3, <4>4
    <3>5. at + 1 \in 1..Len(map[d]) + 1 /\ (at + 1) - 1 = at
      BY <1>3, <1>4
    <3> QED BY <1>4, <2>1, <3>1, <3>3, <3>4, <3>5 DEF DeviceInv
  <2>4. CASE ~succeeds
    <3>1. dev'[d] = "idle" /\ index'[d] = 1 /\ ~repeats'[d] /\ ~ok'[d]
      BY <1>2, <1>3, <1>4, <1>8, <2>1, <2>4 DEF LightsTypes
    <3>2. ~Agrees(d, at)'
      <4>1. map'[d][at].port = p /\ map'[d][at].mask = mask /\ map'[d][at].value = value
        BY <1>5, <2>1
      <4>2. output' = output /\ Out(p) \cap mask # value
        BY <1>8, <2>4
      <4> QED BY <4>1, <4>2 DEF Agrees, Out
    <3>3. \E k \in 1..Len(map'[d]) : ~Agrees(d, k)'
      BY <1>4, <2>1, <3>2
    <3> QED BY <2>1, <3>1, <3>3 DEF DeviceInv
  <2> QED BY <2>3, <2>4
<1> QED BY <1>8, <1>9, <1>10, <1>11 DEF LightsInv

(* The end of the map: all entries agree, and if the call repeated one that *)
(* failed, one of them had to be transferred.                               *)
LEMMA SetGpiosEndsKeeps ==
    ASSUME LightsInv, NEW d \in Devices, SetGpiosEnds(d)
    PROVE  LightsInv'
<1>1. PICK at \in Nat : at = index[d]
  BY DEF LightsInv, LightsTypes
<1>2. /\ dev[d] = "set" /\ at > Len(map[d]) /\ UNCHANGED <<output, register, stale, repeats, map, asked>>
      /\ dev' = [dev EXCEPT ![d] = "idle"] /\ index' = [index EXCEPT ![d] = 1]
      /\ ok' = [ok EXCEPT ![d] = TRUE]
  BY <1>1 DEF SetGpiosEnds, chainVars
<1>3. LightsTypes /\ DeviceInv(d) /\ Len(map[d]) \in Nat
  BY DEF LightsInv, LightsTypes
<1>4. /\ Mapped(d) /\ at = Len(map[d]) + 1
      /\ \A k \in 1..at - 1 : Agrees(d, k)
      /\ repeats[d] => ~stale \/ \E k \in at..Len(map[d]) : ~Agrees(d, k)
  BY <1>1, <1>2, <1>3 DEF DeviceInv
<1>5. LightsTypes'
  BY <1>2, <1>3 DEF LightsTypes
<1>6. /\ dev'[d] = "idle" /\ index'[d] = 1 /\ ok'[d] /\ map'[d] = map[d] /\ Mapped(d)'
  BY <1>2, <1>3, <1>4 DEF LightsTypes, Mapped
<1>7. \A k \in 1..Len(map'[d]) : Agrees(d, k)'
  <2>1. \A k : Agrees(d, k)' <=> Agrees(d, k)
    BY <1>2 DEF Agrees, Out
  <2>2. 1..at - 1 = 1..Len(map'[d])
    BY <1>3, <1>4, <1>6
  <2> QED BY <1>4, <2>1, <2>2
<1>8. repeats'[d] => ~stale'
  <2>1. at..Len(map[d]) = {}
    BY <1>3, <1>4
  <2> QED BY <1>2, <1>4, <2>1
<1>9. DeviceInv(d)'
  BY <1>6, <1>7, <1>8 DEF DeviceInv
<1>10. \A e \in Devices \ {d} : /\ map'[e] = map[e] /\ dev'[e] = dev[e] /\ index'[e] = index[e]
                                /\ asked'[e] = asked[e] /\ ok'[e] = ok[e]
                                /\ repeats'[e] = repeats[e]
  BY <1>2, <1>3 DEF LightsTypes
<1> QED BY <1>2, <1>5, <1>9, <1>10, OthersKept

(* A map that remembers some LEDs as asked for. *)
Remembers(m, d, leds) ==
    /\ m \in Seq(MapEntry) /\ Len(m) = Len(map[d]) /\ Len(m) \in Nat
    /\ \A k \in 1..Len(m) : /\ m[k].port = map[d][k].port /\ m[k].mask = map[d][k].mask
                            /\ m[k].value = PinsAt(d, m[k].port, leds)

(* The values of a map once some LEDs have been asked for. *)
LEMMA ValuesMapped ==
    ASSUME LightsTypes, NEW d \in Devices, Mapped(d), NEW lit \in SUBSET Leds(d),
           NEW changed \in SUBSET Leds(d), NEW new \in SUBSET Leds(d), NEW m,
           new = (asked[d] \ changed) \cup lit, m = Values(d, map[d], lit, changed)
    PROVE  Remembers(m, d, new)
<1>1. map[d] \in Seq(MapEntry) /\ Len(map[d]) \in Nat /\ asked[d] \in SUBSET Leds(d)
  BY DEF LightsTypes
<1>2. ASSUME NEW k \in 1..Len(map[d])
      PROVE  /\ m[k] \in MapEntry
             /\ m[k].port = map[d][k].port /\ m[k].mask = map[d][k].mask
             /\ m[k].value = PinsAt(d, m[k].port, new)
  <2>1. PICK r \in MapEntry : r = map[d][k]
    BY <1>1
  <2>2. r.port \in Ports /\ r.mask \in SUBSET Pins /\ r.value = PinsAt(d, r.port, asked[d])
    BY <2>1 DEF MapEntry, Mapped
  <2>3. PICK merged : merged = (r.value \ PinsAt(d, r.port, changed)) \cup PinsAt(d, r.port, lit)
    OBVIOUS
  <2>4. merged = PinsAt(d, r.port, new) /\ merged \in SUBSET Pins
    <3>1. PinsAt(d, r.port, new) =
            (PinsAt(d, r.port, asked[d]) \ PinsAt(d, r.port, changed)) \cup PinsAt(d, r.port, lit)
      <4>1. PICK old \in SUBSET Leds(d) : old = asked[d]
        BY <1>1
      <4>2. \A p : \A a, b, c \in SUBSET Leds(d) :
              PinsAt(d, p, (a \ c) \cup b) = (PinsAt(d, p, a) \ PinsAt(d, p, c)) \cup PinsAt(d, p, b)
        BY PinsApart
      <4>3. PinsAt(d, r.port, (old \ changed) \cup lit) =
              (PinsAt(d, r.port, old) \ PinsAt(d, r.port, changed)) \cup PinsAt(d, r.port, lit)
        BY <4>2
      <4> QED BY <4>1, <4>3
    <3>2. new \in SUBSET Leds(d)
      BY <1>1
    <3>3. PinsAt(d, r.port, new) \subseteq Own(d, r.port) /\ Own(d, r.port) \subseteq Pins
      BY <3>2, PinsApart
    <3> QED BY <2>2, <2>3, <3>1, <3>3
  <2>5. m[k] = [r EXCEPT !.value = merged]
    BY <2>1, <2>3 DEF Values
  <2>6. /\ [r EXCEPT !.value = merged] \in MapEntry
        /\ [r EXCEPT !.value = merged].port = r.port /\ [r EXCEPT !.value = merged].mask = r.mask
        /\ [r EXCEPT !.value = merged].value = merged
    <3>1. merged \in SUBSET Pins
      BY <2>4
    <3> QED BY <3>1 DEF MapEntry
  <2> QED BY <2>1, <2>4, <2>5, <2>6
<1>3. m = [k \in 1..Len(map[d]) |-> m[k]]
  BY DEF Values
<1>4. m \in Seq(MapEntry) /\ Len(m) = Len(map[d])
  <2>1. PICK n \in Nat : n = Len(map[d])
    BY <1>1
  <2>2. m \in [1..n -> MapEntry]
    <3>1. \A k \in 1..n : m[k] \in MapEntry
      BY <1>2, <2>1
    <3>2. m = [k \in 1..n |-> m[k]]
      BY <1>3, <2>1
    <3> QED BY <3>1, <3>2
  <2> QED BY <2>1, <2>2
<1> QED BY <1>1, <1>2, <1>4 DEF Remembers

(* A call: what it asks for is remembered, and set from the first entry on. *)
LEMMA StartSetKeeps ==
    ASSUME LightsInv, NEW d \in Devices, NEW lit \in SUBSET Leds(d), NEW changed \in SUBSET Leds(d),
           dev[d] = "idle", asked' = [asked EXCEPT ![d] = (asked[d] \ changed) \cup lit],
           StartSet(d, lit, changed)
    PROVE  LightsInv'
<1>1. /\ LightsTypes /\ Mapped(d) /\ index[d] = 1
      /\ ~ok[d] => \E k \in 1..Len(map[d]) : ~Agrees(d, k)
  BY DEF LightsInv, DeviceInv
<1>2. PICK new \in SUBSET Leds(d) : new = (asked[d] \ changed) \cup lit
  <2>1. asked[d] \in SUBSET Leds(d)
    BY <1>1 DEF LightsTypes
  <2> QED BY <2>1
<1>3. PICK m : m = Values(d, map[d], lit, changed)
  OBVIOUS
<1>4. /\ map' = [map EXCEPT ![d] = m] /\ dev' = [dev EXCEPT ![d] = "set"]
      /\ ok' = [ok EXCEPT ![d] = FALSE] /\ asked' = [asked EXCEPT ![d] = new]
      /\ repeats' = [repeats EXCEPT ![d] = ~ok[d] /\ asked'[d] = asked[d]]
      /\ UNCHANGED <<output, register, stale, index>>
  BY <1>2, <1>3 DEF StartSet
<1>5. /\ m \in Seq(MapEntry) /\ Len(m) = Len(map[d]) /\ Len(m) \in Nat
      /\ \A k \in 1..Len(m) : /\ m[k].port = map[d][k].port /\ m[k].mask = map[d][k].mask
                              /\ m[k].value = PinsAt(d, m[k].port, new)
  <2>1. LightsTypes /\ Mapped(d)
    BY <1>1
  <2>2. new = (asked[d] \ changed) \cup lit /\ m = Values(d, map[d], lit, changed)
    BY <1>2, <1>3
  <2>3. lit \in SUBSET Leds(d) /\ changed \in SUBSET Leds(d)
    OBVIOUS
  <2>4. Remembers(m, d, new)
    BY <2>1, <2>2, <2>3, ValuesMapped
  <2> QED BY <2>4 DEF Remembers
<1>6. new \in SUBSET Nat
  BY LedTypes
<1>7. LightsTypes'
  BY <1>1, <1>4, <1>5, <1>6 DEF LightsTypes
<1>8. /\ map'[d] = m /\ asked'[d] = new /\ dev'[d] = "set" /\ ok'[d] = FALSE /\ index'[d] = 1
      /\ repeats'[d] = (~ok[d] /\ new = asked[d])
  BY <1>1, <1>4 DEF LightsTypes
<1>9. Mapped(d)'
  <2>1. \A k \in 1..Len(m) : m[k].mask = Own(d, m[k].port) /\ m[k].value = PinsAt(d, m[k].port, new)
    BY <1>1, <1>5 DEF Mapped
  <2>2. \A k, l \in 1..Len(m) : m[k].port = m[l].port => k = l
    BY <1>1, <1>5 DEF Mapped
  <2>3. \A i \in Leds(d) : \E k \in 1..Len(m) : m[k].port = Gpios[d][i][1]
    BY <1>1, <1>5 DEF Mapped
  <2> QED BY <1>8, <2>1, <2>2, <2>3 DEF Mapped
<1>10. ASSUME repeats'[d] PROVE \E k \in 1..Len(m) : ~Agrees(d, k)'
  <2>1. ~ok[d] /\ new = asked[d]
    BY <1>8, <1>10
  <2>2. PICK k \in 1..Len(map[d]) : ~Agrees(d, k)
    BY <1>1, <2>1
  <2>3. m[k].port = map[d][k].port /\ m[k].mask = map[d][k].mask /\ m[k].value = map[d][k].value
    BY <1>1, <1>5, <2>1 DEF Mapped
  <2>4. ~Agrees(d, k)'
    BY <1>4, <1>8, <2>2, <2>3 DEF Agrees, Out
  <2> QED BY <1>5, <2>4
<1>11. DeviceInv(d)'
  <2>1. index'[d] \in 1..Len(map'[d]) + 1 /\ 1..index'[d] - 1 = {}
    BY <1>5, <1>8
  <2> QED BY <1>8, <1>9, <1>10, <2>1 DEF DeviceInv
<1>12. \A e \in Devices \ {d} : /\ map'[e] = map[e] /\ dev'[e] = dev[e] /\ index'[e] = index[e]
                                /\ asked'[e] = asked[e] /\ ok'[e] = ok[e]
                                /\ repeats'[e] = repeats[e]
  BY <1>1, <1>4 DEF LightsTypes
<1> QED BY <1>4, <1>7, <1>11, <1>12, OthersKept

(* Every step keeps the invariant. *)
LEMMA LightsStepKeeps ==
    ASSUME LightsInv, [LightsNext]_lightsVars
    PROVE  LightsInv'
<1>1. ASSUME NEW p \in Ports, NEW succeeds \in BOOLEAN, ChainInit(p, succeeds) PROVE LightsInv'
  BY <1>1, ChainInitKeeps
<1>2. ASSUME NEW d \in Devices, Device(d) PROVE LightsInv'
  <2>1. CASE DeviceInit(d)
    BY <2>1, DeviceInitKeeps
  <2>2. CASE SetGpiosEnds(d)
    BY <2>2, SetGpiosEndsKeeps
  <2>3. ASSUME NEW succeeds \in BOOLEAN, SetGpio(d, succeeds) PROVE LightsInv'
    BY <2>3, SetGpioKeeps
  <2> QED BY <1>2, <2>1, <2>2, <2>3 DEF Device
<1>3. ASSUME NEW d \in Strips, NEW n \in 0..Len(Gpios[d]), NEW lit \in SUBSET (1..n),
             UpdateRgb(d, n, lit)
      PROVE  LightsInv'
  <2>1. d \in Devices /\ Leds(d) = 1..Len(Gpios[d]) /\ Len(Gpios[d]) \in Nat
    BY LedTypes DEF Devices
  <2>2. lit \in SUBSET Leds(d) /\ 1..n \in SUBSET Leds(d)
    BY <2>1
  <2>3. /\ dev[d] = "idle" /\ asked' = [asked EXCEPT ![d] = (asked[d] \ (1..n)) \cup lit]
        /\ StartSet(d, lit, 1..n)
    BY <1>3 DEF UpdateRgb
  <2> QED BY <2>1, <2>2, <2>3, StartSetKeeps
<1>4. ASSUME NEW d \in Displays, NEW text \in Texts, Write(d, text) PROVE LightsInv'
  <2>1. d \in Devices
    BY DEF Devices
  <2>2. /\ dev[d] = "idle" /\ Parsed(d, text).end # "invalid"
        /\ asked' = [asked EXCEPT ![d] = Shows(d, text)]
        /\ StartSet(d, SegmentsOf(Parsed(d, text).val), Leds(d))
    BY <1>4 DEF Write
  <2>3. PICK lit \in SUBSET Leds(d) : lit = Shows(d, text) /\ lit = SegmentsOf(Parsed(d, text).val)
    BY <2>2, ParsedShows
  <2>4. (asked[d] \ Leds(d)) \cup lit = lit
    BY <2>1 DEF LightsInv, LightsTypes
  <2>5. asked' = [asked EXCEPT ![d] = (asked[d] \ Leds(d)) \cup lit] /\ StartSet(d, lit, Leds(d))
    BY <2>2, <2>3, <2>4
  <2> QED BY <2>1, <2>2, <2>5, StartSetKeeps
<1>5. CASE UNCHANGED lightsVars
  <2>1. UNCHANGED <<output, register, stale, repeats, map, dev, index, asked, ok>>
    BY <1>5 DEF lightsVars, chainVars
  <2>2. LightsTypes' /\ Transmitted'
    BY <2>1 DEF LightsInv, LightsTypes, Transmitted, Out
  <2>3. ASSUME NEW d \in Devices PROVE DeviceInv(d)'
    <3>1. \A q \in Ports : output'[Index(q)] \cap Own(d, q) = Out(q) \cap Own(d, q)
      BY <2>1 DEF Out
    <3> QED BY <2>1, <3>1, DeviceKept DEF LightsInv
  <2> QED BY <2>2, <2>3 DEF LightsInv
<1> QED BY <1>1, <1>2, <1>3, <1>4, <1>5 DEF LightsNext

(* The first state. *)
LEMMA LightsFirst == LightsInit => LightsInv
<1> SUFFICES ASSUME LightsInit PROVE LightsInv
  OBVIOUS
<1>1. /\ output = [i \in Ports |-> {}] /\ map = [d \in Devices |-> <<>>] /\ stale = TRUE
      /\ dev = [d \in Devices |-> "none"] /\ index = [d \in Devices |-> 1]
      /\ asked = [d \in Devices |-> {}] /\ ok = [d \in Devices |-> d \in Strips]
      /\ repeats = [d \in Devices |-> FALSE]
  BY DEF LightsInit
<1>2. LightsTypes
  BY <1>1 DEF LightsTypes
<1>3. Transmitted
  BY <1>1 DEF Transmitted
<1>4. ASSUME NEW d \in Devices PROVE DeviceInv(d)
  <2>1. dev[d] = "none" /\ asked[d] = {} /\ ~repeats[d] /\ index[d] = 1 /\ (ok[d] <=> d \in Strips)
    BY <1>1
  <2>2. \A p \in Ports : Out(p) \cap Own(d, p) = {}
    BY <1>1, OutputsApart DEF Out
  <2> QED BY <2>1, <2>2 DEF DeviceInv
<1> QED BY <1>2, <1>3, <1>4 DEF LightsInv

(* The invariant of the dashboard holds in all its behaviours. *)
THEOREM LightsInvariance == LightsInit /\ [][LightsNext]_lightsVars => []LightsInv
BY LightsFirst, LightsStepKeeps, PTL

(* A device whose entries agree, with the outputs transferred, shows what   *)
(* it was asked for.                                                        *)
LEMMA AgreeingShows ==
    ASSUME LightsInv, NEW d \in Devices, dev[d] = "idle", ok[d], ~stale
    PROVE  Showing(d)
<1>1. LightsTypes /\ Transmitted /\ Mapped(d) /\ \A k \in 1..Len(map[d]) : Agrees(d, k)
  BY DEF LightsInv, DeviceInv
<1>2. ASSUME NEW i \in Leds(d)
      PROVE  Gpios[d][i][2] \in register[Gpios[d][i][1]] <=> i \in asked[d]
  <2>1. PICK k \in 1..Len(map[d]) : map[d][k].port = Gpios[d][i][1]
    BY <1>1 DEF Mapped
  <2> DEFINE p == Gpios[d][i][1]
             pin == Gpios[d][i][2]
  <2>2. /\ p \in Ports /\ register[p] = Out(p) /\ map[d][k].port = p
        /\ map[d][k].mask = Own(d, p) /\ map[d][k].value = PinsAt(d, p, asked[d])
        /\ Out(p) \cap map[d][k].mask = map[d][k].value
    BY <1>1, <2>1, LedTypes DEF Transmitted, Mapped, Agrees
  <2>3. asked[d] \in SUBSET Leds(d) /\ Leds(d) \in SUBSET Leds(d)
    BY <1>1 DEF LightsTypes
  <2>4. (pin \in PinsAt(d, p, asked[d]) <=> i \in asked[d]) /\ pin \in Own(d, p)
    BY <2>3, PinsApart DEF Own
  <2> QED BY <2>2, <2>4
<1> QED BY <1>2 DEF Showing

(* A device whose last call succeeded has exactly the LEDs lit that it was  *)
(* asked for (led_strip_gpio_update_channels(), gpio_seg_display_write()),  *)
(* unless a transfer has failed and none succeeded since.                   *)
THEOREM ShowsLastWriteHolds == LightsInit /\ [][LightsNext]_lightsVars => []ShowsLastWrite
<1>1. LightsInv => ShowsLastWrite
  BY AgreeingShows DEF ShowsLastWrite
<1> QED BY <1>1, LightsInvariance, PTL

(* A call that repeats one that failed, and succeeds, has transferred all   *)
(* outputs: the device shows what it was asked for until a transfer fails   *)
(* again, though a write of what the driver of the shift registers          *)
(* remembers transfers nothing.                                             *)
THEOREM RetryRepairsHolds == LightsInit /\ [][LightsNext]_lightsVars => []RetryRepairs
<1>1. LightsInv => RetryRepairs
  <2> SUFFICES ASSUME LightsInv, NEW d \in Devices, dev[d] = "idle", ok[d], repeats[d] PROVE Showing(d)
    BY DEF RetryRepairs
  <2>1. ~stale
    BY DEF LightsInv, DeviceInv
  <2> QED BY <2>1, AgreeingShows
<1> QED BY <1>1, LightsInvariance, PTL

=============================================================================
