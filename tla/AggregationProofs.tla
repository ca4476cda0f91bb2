------------------------- MODULE AggregationProofs -------------------------
(***************************************************************************)
(* Theorems about the data aggregation, for any members, any timing that   *)
(* satisfies TimingAssumption and any order of updates, timer handlers and *)
(* work: the types of its state; that an update stays marked, or on its    *)
(* way, until it has been copied for publication; that it is published in  *)
(* time, unless it raced with the work; and that publications are apart.   *)
(***************************************************************************)
EXTENDS Aggregation, TLAPS

IInv == TypeOK /\ NoLostUpdate

(* A new aggregation has nothing written and nothing marked. *)
LEMMA InitIInv == Init => IInv
  <1> SUFFICES ASSUME Init PROVE IInv
    OBVIOUS
  <1>1. 0 \in 0..Period /\ 0 \in 0..MinSeparation /\ MinSeparation \in 0..MinSeparation
    BY TimingAssumption
  <1>2. 0 \in 0..Watermark /\ 0 \in 0..MaxLatency /\ 0 \in 0..MaxDelay + 1 /\ 2 \in 0..2
    BY TimingAssumption DEF MaxDelay
  <1>3. FALSE \in BOOLEAN
    BY Zenon
  <1>4. TypeOK
    BY <1>1, <1>2, <1>3, Zenon DEF Init, TypeOK
  <1>5. NoLostUpdate
    BY DEF Init, NoLostUpdate
  <1>6. QED
    BY <1>4, <1>5 DEF IInv

(* The submissions and timers keep their types whoever calls them. *)
LEMMA StartTimersType ==
    ASSUME StartTimers
    PROVE  /\ periodLeft' \in 0..Period /\ periodDue' \in BOOLEAN
           /\ earlyLeft' \in 0..MinSeparation /\ earlyDue' \in BOOLEAN
  <1>1. Period \in 0..Period /\ MinSeparation \in 0..MinSeparation
    BY TimingAssumption
  <1>2. QED
    BY <1>1, Zenon DEF StartTimers

(* So does the submission of the work. *)
LEMMA SubmitNowType ==
    ASSUME TypeOK, SubmitNow
    PROVE  /\ delayed' \in BOOLEAN /\ delayLeft' \in 0..Watermark /\ queued' \in BOOLEAN
           /\ stage' = stage /\ late' \in 0..MaxLatency /\ clean' \in 0..2
  <1>1. 0 \in 0..Watermark /\ 0 \in 0..MaxLatency /\ 0 \in 0..2
    BY TimingAssumption
  <1>2. delayed' = FALSE /\ delayLeft' = 0 /\ queued' = TRUE /\ stage' = stage
    BY DEF SubmitNow
  <1>3. late' \in 0..MaxLatency /\ clean' \in 0..2
    BY <1>1 DEF SubmitNow, TypeOK
  <1>4. QED
    BY <1>1, <1>2, <1>3, Zenon

(* And its scheduling after the watermark. *)
LEMMA ScheduleType ==
    ASSUME TypeOK, ScheduleAfterWatermark
    PROVE  /\ delayed' \in BOOLEAN /\ delayLeft' \in 0..Watermark /\ queued' \in BOOLEAN
           /\ stage' = stage /\ late' \in 0..MaxLatency /\ clean' \in 0..2
  <1>1. Watermark \in 0..Watermark
    BY TimingAssumption
  <1>2. delayed' \in BOOLEAN /\ delayLeft' \in 0..Watermark
    <2>1. CASE delayed \/ queued
      BY <2>1, Zenon DEF ScheduleAfterWatermark, TypeOK
    <2>2. CASE ~(delayed \/ queued)
      BY <1>1, <2>2, Zenon DEF ScheduleAfterWatermark
    <2>3. QED
      BY <2>1, <2>2
  <1>3. QED
    BY <1>2, Zenon DEF ScheduleAfterWatermark, TypeOK

(* A capped counter stays within its cap. *)
LEMMA CapType ==
    ASSUME NEW m \in Nat, NEW n \in Nat
    PROVE  Cap(n, m) \in 0..m
  BY DEF Cap

(* An update marks what it writes in one critical section. *)
LEMMA UpdateIInv ==
    ASSUME IInv, NEW m \in Members, Update(m)
    PROVE  IInv'
  <1>1. unsent' = unsent \cup {m} /\ always' = always
    BY DEF Update
  <1>2. CASE IsIgnored(m)
    <2>1. /\ UNCHANGED <<updated, timerVars, workVars, ghostVars>>
          /\ m \in Ignored
      BY <1>2 DEF Update, IsIgnored
    <2>2. QED
      BY <1>1, <2>1 DEF IInv, TypeOK, NoLostUpdate, timerVars, workVars, ghostVars
  <1>3. CASE ~IsIgnored(m)
    <2>1. /\ updated' = updated \cup {m} /\ m \in Members \ Ignored
          /\ started' = TRUE /\ since' = since /\ age' = age
          /\ raced' = IF PublishAtOnce(updated') \/ ColdStart THEN FALSE
                      ELSE raced \/ stage = "dormant"
      BY <1>3 DEF Update, IsIgnored
    <2>2. raced' \in BOOLEAN
      BY <2>1 DEF IInv, TypeOK
    <2>3. /\ periodLeft' \in 0..Period /\ periodDue' \in BOOLEAN
          /\ earlyLeft' \in 0..MinSeparation /\ earlyDue' \in BOOLEAN
      BY <1>3, StartTimersType DEF Update, IInv, TypeOK, timerVars
    <2>4. /\ delayed' \in BOOLEAN /\ delayLeft' \in 0..Watermark /\ queued' \in BOOLEAN
          /\ stage' = stage /\ late' \in 0..MaxLatency /\ clean' \in 0..2
      BY <1>3, SubmitNowType, ScheduleType DEF Update, IInv, TypeOK, workVars
    <2>5. QED
      BY <1>1, <2>1, <2>2, <2>3, <2>4 DEF IInv, TypeOK, NoLostUpdate
  <1>4. QED
    BY <1>2, <1>3

(* The timers and the kernel touch neither the data nor the marks. *)
LEMMA KernelIInv == IInv /\ Kernel => IInv'
  <1> SUFFICES ASSUME IInv, Kernel PROVE IInv'
    OBVIOUS
  <1>1. CASE PeriodTimerCb
    BY <1>1, ScheduleType DEF PeriodTimerCb, IInv, TypeOK, NoLostUpdate
  <1>2. CASE EarlyTimerCb
    <2>1. /\ periodLeft' \in 0..Period /\ periodDue' \in BOOLEAN
          /\ earlyLeft' \in 0..MinSeparation /\ earlyDue' \in BOOLEAN
      BY <1>2, StartTimersType DEF EarlyTimerCb, IInv, TypeOK
    <2>2. /\ delayed' \in BOOLEAN /\ delayLeft' \in 0..Watermark /\ queued' \in BOOLEAN
          /\ stage' = stage /\ late' \in 0..MaxLatency /\ clean' \in 0..2
      BY <1>2, SubmitNowType DEF EarlyTimerCb, IInv, TypeOK, workVars
    <2>3. QED
      BY <1>2, <2>1, <2>2 DEF EarlyTimerCb, IInv, TypeOK, NoLostUpdate
  <1>3. CASE WorkTimeout
    <2>1. 0 \in 0..MaxLatency
      BY TimingAssumption
    <2>2. late' \in 0..MaxLatency
      BY <1>3, <2>1 DEF WorkTimeout, IInv, TypeOK
    <2>3. delayed' = FALSE /\ queued' = TRUE
      BY <1>3 DEF WorkTimeout
    <2>4. QED
      BY <1>3, <2>2, <2>3, Zenon
         DEF WorkTimeout, IInv, TypeOK, NoLostUpdate, timerVars, ghostVars
  <1>4. QED
    BY <1>1, <1>2, <1>3 DEF Kernel

(* The work: the marks are cleared before the copy, but nothing is copied   *)
(* in between, and what is written in between is marked again.              *)
LEMMA WorkIInv == IInv /\ Work => IInv'
  <1> SUFFICES ASSUME IInv, Work PROVE IInv'
    OBVIOUS
  <1> USE TimingAssumption DEF timerVars, ghostVars
  <1>1. CASE WorkEnter
    BY <1>1 DEF WorkEnter, IInv, TypeOK, NoLostUpdate
  <1>2. CASE WorkDormant
    BY <1>2 DEF WorkDormant, IInv, TypeOK, NoLostUpdate
  <1>3. CASE WorkPublish
    <2>1. /\ periodLeft' \in 0..Period /\ periodDue' \in BOOLEAN
          /\ earlyLeft' \in 0..MinSeparation /\ earlyDue' \in BOOLEAN
      BY <1>3, StartTimersType DEF WorkPublish, LatePublication, IInv, TypeOK
    <2>2. clean' \in 0..2
      <3>1. clean + 1 \in Nat /\ clean' = Cap(clean + 1, 2)
        BY <1>3 DEF WorkPublish, IInv, TypeOK
      <3>2. QED
        BY <3>1 DEF Cap
    <2>3. since' \in 0..MinSeparation /\ age' \in 0..MaxDelay + 1
      <3>1. 0 \in 0..MinSeparation /\ 0 \in 0..MaxDelay + 1
        BY DEF MaxDelay
      <3>2. QED
        BY <1>3, <3>1, Zenon DEF WorkPublish
    <2>4. /\ updated' = {} /\ stage' = "publish" /\ raced' = FALSE
          /\ UNCHANGED <<always, unsent, delayed, delayLeft, queued, late, started>>
      BY <1>3 DEF WorkPublish
    <2>5. TypeOK'
      BY <2>1, <2>2, <2>3, <2>4 DEF IInv, TypeOK
    <2>6. QED
      BY <2>4, <2>5 DEF IInv, NoLostUpdate
  <1>4. CASE TypedPublish
    BY <1>4 DEF TypedPublish, IInv, TypeOK, NoLostUpdate
  <1>5. CASE WorkReturn
    BY <1>5 DEF WorkReturn, IInv, TypeOK, NoLostUpdate
  <1>6. QED
    BY <1>1, <1>2, <1>3, <1>4, <1>5 DEF Work

(* The passing of time touches neither the data nor the marks. *)
LEMMA TickIInv == IInv /\ Tick => IInv'
  <1> SUFFICES ASSUME IInv, Tick PROVE IInv'
    OBVIOUS
  <1> USE TimingAssumption
  <1>1. /\ periodLeft' \in 0..Period /\ periodDue' \in BOOLEAN
        /\ earlyLeft' \in 0..MinSeparation /\ earlyDue' \in BOOLEAN
    BY DEF Tick, IInv, TypeOK
  <1>2. delayLeft' \in 0..Watermark /\ late' \in 0..MaxLatency
    BY DEF Tick, IInv, TypeOK
  <1>3. since' \in 0..MinSeparation
    BY CapType DEF Tick, IInv, TypeOK
  <1>4. age' \in 0..MaxDelay + 1
    <2>1. MaxDelay + 1 \in Nat /\ age + 1 \in Nat
      BY DEF MaxDelay, IInv, TypeOK
    <2>2. 0 \in 0..MaxDelay + 1 /\ Cap(age + 1, MaxDelay + 1) \in 0..MaxDelay + 1
      BY <2>1 DEF Cap
    <2>3. age' = 0 \/ age' = Cap(age + 1, MaxDelay + 1)
      BY DEF Tick
    <2>4. QED
      BY <2>2, <2>3, Zenon
  <1>5. QED
    BY <1>1, <1>2, <1>3, <1>4 DEF Tick, IInv, TypeOK, NoLostUpdate

(* The inductive invariant holds in every reachable state. *)
THEOREM Invariance == Spec => []IInv
  <1>1. IInv /\ [Next]_vars => IInv'
    <2> SUFFICES ASSUME IInv, [Next]_vars PROVE IInv'
      OBVIOUS
    <2>1. CASE Next
      BY <2>1, UpdateIInv, KernelIInv, WorkIInv, TickIInv DEF Next, Source
    <2>2. CASE UNCHANGED vars
      BY <2>2 DEF vars, timerVars, workVars, ghostVars, IInv, TypeOK, NoLostUpdate
    <2>3. QED
      BY <2>1, <2>2
  <1>2. QED
    BY InitIInv, <1>1, PTL DEF Spec

(* The state of an aggregation is well typed, whatever its timing. *)
THEOREM TypeCorrect == Spec => []TypeOK
  <1>1. IInv => TypeOK
    BY DEF IInv
  <1>2. QED
    BY Invariance, <1>1, PTL

(* No update of a monitored member is lost: what was written since the last *)
(* copy is marked as updated, or is about to be copied.                     *)
THEOREM NoUpdateLost == Spec => []NoLostUpdate
  <1>1. IInv => NoLostUpdate
    BY DEF IInv
  <1>2. QED
    BY Invariance, <1>1, PTL

-----------------------------------------------------------------------------
(* The timing of an aggregation. *)

(* agg->work is in the queue or running. *)
Busy == queued \/ stage # "idle"

(* The timers are started together, and the early one expires first. *)
Timers ==
    /\ earlyLeft <= periodLeft
    /\ periodDue => periodLeft = 0
    /\ earlyDue => earlyLeft = 0

(* Nothing happens before the first update. *)
Untouched ==
    ~started => /\ updated = {} /\ ~delayed /\ ~Busy
                /\ periodLeft = 0 /\ ~periodDue /\ earlyLeft = 0 /\ ~earlyDue

(* The work is delayed only after the timers have run out, and while no     *)
(* other run of it is under way.                                            *)
Delaying ==
    delayed => /\ ~Busy /\ periodLeft = 0
               /\ periodDue \/ earlyDue => delayLeft = Watermark

(* No timer expires under the work: timers that run while it is in the      *)
(* queue were started when it was submitted or, before its last run, in     *)
(* that run.                                                                *)
OnTime ==
    Busy => /\ ~periodDue /\ ~earlyDue
            /\ periodLeft > 0 => earlyLeft + late + MaxLatency >= MinSeparation
            /\ queued /\ stage # "idle" => earlyLeft + late >= MinSeparation

(* A fully updated aggregation waits for the early timer. *)
FullWaits == started /\ IsFull(updated) => earlyLeft > 0 \/ earlyDue

(* A publication leaves a timer running, or the work queued once more. *)
Woken ==
    /\ stage \in {"publish", "published"} => periodLeft > 0 \/ queued
    /\ stage = "dormant" => ~always

(* How long the oldest update has waited for what will publish it. *)
Young ==
    /\ age <= MaxDelay
    /\ updated = {} => age = 0
    /\ raced => age <= MaxLatency
    /\ stage \in {"dormant", "publish", "published"} => age <= late
    /\ updated # {} /\ ~raced =>
         \/ (queued \/ stage = "entered") /\ age <= Period + Watermark + late
         \/ delayed /\ age + delayLeft <= Period + Watermark
         \/ (periodLeft > 0 \/ periodDue) /\ age + periodLeft <= Period

(* Once the early timer has run out a publication is permitted. *)
Apart ==
    /\ earlyLeft + since + 2 * MaxLatency >= MinSeparation
    /\ (queued \/ stage = "entered") /\ clean = 2 => since + 2 * MaxLatency >= MinSeparation
    /\ queued /\ stage = "entered" => clean = 0

TInv ==
    /\ Timers /\ Untouched /\ Delaying /\ OnTime /\ FullWaits /\ StalledOnlyByRace
    /\ Woken /\ Young /\ Apart

(* The numbers the proofs calculate with. *)
LEMMA Numbers ==
    ASSUME TypeOK
    PROVE  /\ periodLeft \in Nat /\ periodLeft <= Period /\ periodDue \in BOOLEAN
           /\ earlyLeft \in Nat /\ earlyLeft <= MinSeparation /\ earlyDue \in BOOLEAN
           /\ delayLeft \in Nat /\ delayLeft <= Watermark /\ delayed \in BOOLEAN
           /\ late \in Nat /\ late <= MaxLatency /\ queued \in BOOLEAN
           /\ since \in Nat /\ since <= MinSeparation
           /\ age \in Nat /\ clean \in 0..2
           /\ stage \in {"idle", "entered", "dormant", "publish", "published"}
           /\ Period \in Nat /\ MinSeparation \in Nat /\ Watermark \in Nat
           /\ MaxLatency \in Nat /\ MaxDelay \in Nat
           /\ 2 * MaxLatency < MinSeparation /\ MinSeparation <= Period /\ Watermark > 0
<1>1. /\ Period \in Nat /\ MinSeparation \in Nat /\ Watermark \in Nat
      /\ MaxLatency \in Nat /\ MaxDelay \in Nat
      /\ 2 * MaxLatency < MinSeparation /\ MinSeparation <= Period /\ Watermark > 0
  BY TimingAssumption DEF MaxDelay
<1>2. QED
  BY <1>1 DEF TypeOK

(* The initial state satisfies the invariant. *)
LEMMA InitTInv == Init => TInv
<1> SUFFICES ASSUME Init PROVE TInv
  OBVIOUS
<1>1. MaxDelay \in Nat /\ MinSeparation \in Nat /\ MaxLatency \in Nat
  BY TimingAssumption DEF MaxDelay
<1>2. Timers /\ Untouched /\ Delaying /\ OnTime /\ FullWaits /\ StalledOnlyByRace /\ Woken
  BY DEF Init, Timers, Untouched, Delaying, OnTime, FullWaits, StalledOnlyByRace, Woken, Busy
<1>3. Young /\ Apart
  BY <1>1 DEF Init, Young, Apart
<1>4. QED
  BY <1>2, <1>3 DEF TInv

(* A publication that is decided on when the early timer has run out. *)
LEMMA DecidedTInv ==
    ASSUME TypeOK, TInv, StartTimers, SubmitNow, earlyLeft = 0, started', raced' => raced,
           updated \subseteq updated', UNCHANGED <<always, since, age>>
    PROVE  TInv'
<1>1. /\ periodLeft' = Period /\ ~periodDue' /\ earlyLeft' = MinSeparation /\ ~earlyDue'
      /\ ~delayed' /\ delayLeft' = 0 /\ queued' /\ stage' = stage
      /\ late' = IF queued \/ stage # "idle" THEN late ELSE 0
      /\ clean' = IF stage = "entered" THEN 0 ELSE clean
  BY DEF StartTimers, SubmitNow
<1>2. late' \in Nat /\ (Busy => late' = late)
  BY <1>1, Numbers DEF Busy
<1>3. Timers' /\ Untouched' /\ Delaying' /\ FullWaits' /\ StalledOnlyByRace'
  BY <1>1, Numbers DEF Timers, Untouched, Delaying, FullWaits, StalledOnlyByRace, Armed
<1>4. OnTime' /\ Woken'
  BY <1>1, <1>2, Numbers DEF OnTime, Woken, TInv
<1>5. Young'
  <2>1. age <= Period + Watermark + late'
    <3>1. CASE updated = {} \/ raced
      BY <1>2, <3>1, Numbers DEF TInv, Young
    <3>2. CASE updated # {} /\ ~raced
      BY <1>2, <3>2, Numbers DEF TInv, Young, Busy
    <3>3. QED
      BY <3>1, <3>2
  <2>2. QED
    BY <1>1, <1>2, <2>1, Numbers DEF TInv, Young, Busy
<1>6. Apart'
  BY <1>1, Numbers DEF TInv, Apart
<1>7. QED
  BY <1>3, <1>4, <1>5, <1>6 DEF TInv

(* Steps that touch nothing but the data. *)
LEMMA DataTInv ==
    ASSUME TInv, UNCHANGED <<always, updated, timerVars, workVars, ghostVars>>
    PROVE  TInv'
<1>1. UNCHANGED <<periodLeft, periodDue, earlyLeft, earlyDue, delayed, delayLeft, queued,
                  stage, late, started, since, age, raced, clean>>
  BY DEF timerVars, workVars, ghostVars
<1>2. Timers' /\ Untouched' /\ Delaying' /\ OnTime' /\ FullWaits' /\ StalledOnlyByRace'
  BY <1>1 DEF TInv, Timers, Untouched, Delaying, OnTime, FullWaits, StalledOnlyByRace,
              Armed, Busy
<1>3. Woken' /\ Young' /\ Apart'
  BY <1>1 DEF TInv, Woken, Young, Apart
<1>4. QED
  BY <1>2, <1>3 DEF TInv

(* An update that finds neither a timer nor the work under way schedules    *)
(* the work; one that fills the aggregation after its separation submits    *)
(* it; any other one relies on what is under way already.                   *)
LEMMA UpdateTInv ==
    ASSUME TypeOK, TInv, NEW m \in Members, Update(m)
    PROVE  TInv'
<1>1. CASE IsIgnored(m)
  BY <1>1, DataTInv DEF Update
<1>2. ASSUME ~IsIgnored(m) PROVE TInv'
  <2>1. /\ updated' = updated \cup {m} /\ started' /\ UNCHANGED <<always, since, age>>
        /\ raced' = IF PublishAtOnce(updated') \/ ColdStart THEN FALSE
                    ELSE raced \/ stage = "dormant"
    BY <1>2 DEF Update
  <2>2. CASE PublishAtOnce(updated')
    <3>1. StartTimers /\ SubmitNow /\ earlyLeft = 0 /\ ~raced'
      BY <1>2, <2>1, <2>2 DEF Update, PublishAtOnce
    <3>2. QED
      BY <2>1, <3>1, DecidedTInv
  <2>3. CASE ~PublishAtOnce(updated') /\ ColdStart
    <3>1. /\ periodLeft = 0 /\ ~delayed /\ ~queued /\ stage = "idle" /\ ~raced'
          /\ delayed' /\ delayLeft' = Watermark
          /\ UNCHANGED <<timerVars, queued, stage, late, clean>>
      BY <1>2, <2>1, <2>3 DEF Update, ColdStart, IsPending, ScheduleAfterWatermark
    <3>2. UNCHANGED <<periodLeft, periodDue, earlyLeft, earlyDue>>
      BY <3>1 DEF timerVars
    <3>3. Timers' /\ Untouched' /\ Delaying' /\ OnTime' /\ StalledOnlyByRace' /\ Woken'
      BY <2>1, <3>1, <3>2
         DEF TInv, Timers, Untouched, Delaying, OnTime, StalledOnlyByRace, Armed, Woken, Busy
    <3>4. FullWaits'
      <4>1. earlyLeft = 0
        BY <3>1, Numbers DEF TInv, Timers
      <4>2. ~IsFull(updated')
        BY <2>3, <4>1 DEF PublishAtOnce
      <4>3. QED
        BY <4>2 DEF FullWaits, IsFull
    <3>5. Young'
      <4>1. age + delayLeft' <= Period + Watermark
        <5>1. CASE updated = {} \/ raced
          BY <3>1, <5>1, Numbers DEF TInv, Young
        <5>2. CASE updated # {} /\ ~raced
          BY <3>1, <5>2, Numbers DEF TInv, Young
        <5>3. QED
          BY <5>1, <5>2
      <4>2. QED
        BY <2>1, <3>1, <4>1 DEF TInv, Young
    <3>6. Apart'
      BY <2>1, <3>1, <3>2 DEF TInv, Apart
    <3>7. QED
      BY <3>3, <3>4, <3>5, <3>6 DEF TInv
  <2>4. CASE ~PublishAtOnce(updated') /\ ~ColdStart
    <3>1. /\ UNCHANGED <<periodLeft, periodDue, earlyLeft, earlyDue>>
          /\ UNCHANGED <<delayed, delayLeft, queued, stage, late, clean>>
          /\ raced' <=> raced \/ stage = "dormant"
      BY <1>2, <2>1, <2>4 DEF Update, timerVars, workVars
    <3>2. periodLeft > 0 \/ delayed \/ queued \/ stage # "idle"
      BY <2>4, Numbers DEF ColdStart, IsPending
    <3>3. Timers' /\ Untouched' /\ Delaying' /\ OnTime' /\ Woken'
      BY <2>1, <3>1 DEF TInv, Timers, Untouched, Delaying, OnTime, Woken, Busy
    <3>4. FullWaits'
      <4>1. IsFull(updated') => earlyLeft # 0
        BY <2>4 DEF PublishAtOnce
      <4>2. QED
        BY <3>1, <4>1, Numbers DEF FullWaits
    <3>5. ~raced' => periodLeft > 0 \/ delayed \/ queued \/ stage = "entered"
      BY <3>1, <3>2, Numbers DEF TInv, Woken
    <3>6. always => periodLeft > 0 \/ delayed \/ queued \/ stage = "entered"
      BY <3>2, Numbers DEF TInv, Woken
    <3>7. StalledOnlyByRace'
      BY <2>1, <3>1, <3>5, <3>6 DEF StalledOnlyByRace, Armed
    <3>8. Young'
      <4>1. /\ age <= MaxDelay
            /\ stage \in {"dormant", "publish", "published"} => age <= late
            /\ raced' => age <= MaxLatency
        BY <3>1, Numbers DEF TInv, Young
      <4>2. ASSUME ~raced'
            PROVE  \/ (queued \/ stage = "entered") /\ age <= Period + Watermark + late
                   \/ delayed /\ age + delayLeft <= Period + Watermark
                   \/ (periodLeft > 0 \/ periodDue) /\ age + periodLeft <= Period
        <5>1. CASE updated = {}
          BY <3>5, <4>2, <5>1, Numbers DEF TInv, Young
        <5>2. CASE updated # {}
          BY <3>1, <4>2, <5>2 DEF TInv, Young
        <5>3. QED
          BY <5>1, <5>2
      <4>3. QED
        BY <2>1, <3>1, <4>1, <4>2 DEF Young
    <3>9. Apart'
      BY <2>1, <3>1 DEF TInv, Apart
    <3>10. QED
      BY <3>3, <3>4, <3>7, <3>8, <3>9 DEF TInv
  <2>5. QED
    BY <2>2, <2>3, <2>4
<1>3. QED
  BY <1>1, <1>2

(* The handlers of the timers, and the timeout of the delayed work. *)
LEMMA KernelTInv == TypeOK /\ TInv /\ Kernel => TInv'
<1> SUFFICES ASSUME TypeOK, TInv, Kernel PROVE TInv'
  OBVIOUS
<1>1. CASE PeriodTimerCb
  <2>1. /\ periodDue /\ ~periodDue'
        /\ UNCHANGED <<always, updated, periodLeft, earlyLeft, earlyDue>>
        /\ UNCHANGED <<queued, stage, late, started, since, age, raced, clean>>
        /\ delayed' /\ delayLeft' = IF delayed THEN delayLeft ELSE Watermark
    BY <1>1 DEF PeriodTimerCb, ScheduleAfterWatermark, TInv, OnTime, Busy
  <2>2. periodLeft = 0 /\ ~Busy /\ started /\ (delayed => delayLeft = Watermark)
    BY <2>1 DEF TInv, Timers, OnTime, Untouched, Delaying
  <2>3. delayLeft' = Watermark
    BY <2>1, <2>2
  <2>4. Timers' /\ Untouched' /\ Delaying' /\ OnTime' /\ FullWaits' /\ StalledOnlyByRace'
    BY <2>1, <2>2, <2>3
       DEF TInv, Timers, Untouched, Delaying, OnTime, FullWaits, StalledOnlyByRace, Armed, Busy
  <2>5. Woken' /\ Apart'
    BY <2>1 DEF TInv, Woken, Apart
  <2>6. Young'
    BY <2>1, <2>2, <2>3, Numbers DEF TInv, Young, Busy
  <2>7. QED
    BY <2>4, <2>5, <2>6 DEF TInv
<1>2. CASE EarlyTimerCb
  <2>1. earlyDue /\ UNCHANGED <<always, updated, started, since, age, raced>>
    BY <1>2 DEF EarlyTimerCb
  <2>2. earlyLeft = 0 /\ started
    BY <2>1 DEF TInv, Timers, Untouched
  <2>3. CASE IsFull(updated)
    <3>1. StartTimers /\ SubmitNow
      BY <1>2, <2>3 DEF EarlyTimerCb
    <3>2. QED
      BY <2>1, <2>2, <3>1, DecidedTInv
  <2>4. CASE ~IsFull(updated)
    <3>1. /\ ~earlyDue' /\ UNCHANGED <<periodLeft, periodDue, earlyLeft>>
          /\ UNCHANGED <<delayed, delayLeft, queued, stage, late, clean>>
      BY <1>2, <2>4 DEF EarlyTimerCb, workVars
    <3>2. Timers' /\ Untouched' /\ Delaying' /\ OnTime' /\ FullWaits' /\ StalledOnlyByRace'
      BY <2>1, <2>4, <3>1
         DEF TInv, Timers, Untouched, Delaying, OnTime, FullWaits, StalledOnlyByRace, Armed,
             Busy
    <3>3. Woken' /\ Young' /\ Apart'
      BY <2>1, <3>1 DEF TInv, Woken, Young, Apart
    <3>4. QED
      BY <3>2, <3>3 DEF TInv
  <2>5. QED
    BY <2>3, <2>4
<1>3. CASE WorkTimeout
  <2>1. /\ delayed /\ delayLeft = 0 /\ ~delayed' /\ queued'
        /\ UNCHANGED <<always, updated, periodLeft, periodDue, earlyLeft, earlyDue>>
        /\ UNCHANGED <<delayLeft, stage, started, since, age, raced, clean>>
        /\ late' = IF queued \/ stage # "idle" THEN late ELSE 0
    BY <1>3 DEF WorkTimeout, timerVars, ghostVars
  <2>2. /\ stage = "idle" /\ ~queued /\ periodLeft = 0 /\ earlyLeft = 0
        /\ ~periodDue /\ ~earlyDue /\ started /\ late' = 0
    BY <2>1, Numbers DEF TInv, Delaying, Busy, Timers, Untouched
  <2>3. Timers' /\ Untouched' /\ Delaying' /\ OnTime' /\ FullWaits' /\ StalledOnlyByRace'
    BY <2>1, <2>2
       DEF TInv, Timers, Untouched, Delaying, OnTime, FullWaits, StalledOnlyByRace, Armed, Busy
  <2>4. Woken' /\ Apart'
    BY <2>1, <2>2, Numbers DEF TInv, Woken, Apart
  <2>5. Young'
    BY <2>1, <2>2, Numbers DEF TInv, Young
  <2>6. QED
    BY <2>3, <2>4, <2>5 DEF TInv
<1>4. QED
  BY <1>1, <1>2, <1>3 DEF Kernel

(* The run of the work. *)
LEMMA WorkTInv == TypeOK /\ TInv /\ Work => TInv'
<1> SUFFICES ASSUME TypeOK, TInv, Work PROVE TInv'
  OBVIOUS
<1>1. CASE WorkEnter
  <2>1. /\ queued /\ ~queued' /\ stage = "idle" /\ stage' = "entered"
        /\ UNCHANGED <<always, updated, periodLeft, periodDue, earlyLeft, earlyDue>>
        /\ UNCHANGED <<delayed, delayLeft, late, started, since, age, raced, clean>>
    BY <1>1 DEF WorkEnter, timerVars, ghostVars
  <2>2. Timers' /\ Untouched' /\ Delaying' /\ OnTime' /\ FullWaits' /\ StalledOnlyByRace'
    BY <2>1
       DEF TInv, Timers, Untouched, Delaying, OnTime, FullWaits, StalledOnlyByRace, Armed, Busy
  <2>3. Woken' /\ Young' /\ Apart'
    BY <2>1 DEF TInv, Woken, Young, Apart
  <2>4. QED
    BY <2>2, <2>3 DEF TInv
<1>2. CASE WorkDormant
  <2>1. /\ stage = "entered" /\ stage' = "dormant" /\ ~always /\ updated = {}
        /\ UNCHANGED <<always, updated, periodLeft, periodDue, earlyLeft, earlyDue>>
        /\ UNCHANGED <<delayed, delayLeft, queued, late, started, since, age, raced, clean>>
    BY <1>2 DEF WorkDormant, timerVars, ghostVars
  <2>2. Timers' /\ Untouched' /\ Delaying' /\ OnTime' /\ FullWaits' /\ StalledOnlyByRace'
    BY <2>1
       DEF TInv, Timers, Untouched, Delaying, OnTime, FullWaits, StalledOnlyByRace, Armed, Busy
  <2>3. Woken' /\ Young' /\ Apart'
    BY <2>1, Numbers DEF TInv, Woken, Young, Apart
  <2>4. QED
    BY <2>2, <2>3 DEF TInv
<1>3. CASE WorkPublish
  <2>1. /\ stage = "entered" /\ stage' = "publish" /\ updated' = {}
        /\ since' = 0 /\ age' = 0 /\ ~raced' /\ clean' = Cap(clean + 1, 2)
        /\ UNCHANGED <<always, delayed, delayLeft, queued, late, started>>
    BY <1>3 DEF WorkPublish
  <2>2. started /\ ~delayed /\ ~periodDue /\ ~earlyDue
    BY <2>1 DEF TInv, Untouched, Delaying, OnTime, Busy
  <2>3. CASE IsFull(updated)
    <3>1. UNCHANGED <<periodLeft, periodDue, earlyLeft, earlyDue>>
      BY <1>3, <2>3 DEF WorkPublish, LatePublication, timerVars
    <3>2. earlyLeft > 0 /\ periodLeft > 0
      BY <2>2, <2>3, Numbers DEF TInv, FullWaits, Timers
    <3>3. Timers' /\ Untouched' /\ Delaying' /\ OnTime' /\ FullWaits' /\ StalledOnlyByRace'
      BY <2>1, <2>2, <3>1, <3>2
         DEF TInv, Timers, Untouched, Delaying, OnTime, FullWaits, StalledOnlyByRace, Armed,
             Busy
    <3>4. Woken' /\ Young'
      BY <2>1, <3>1, <3>2, Numbers DEF TInv, Woken, Young
    <3>5. Apart'
      <4>1. earlyLeft + 2 * MaxLatency >= MinSeparation
        BY <2>1, <3>2, Numbers DEF TInv, OnTime, Busy
      <4>2. queued => clean' # 2
        BY <2>1 DEF TInv, Apart, Cap
      <4>3. QED
        BY <2>1, <3>1, <4>1, <4>2, Numbers DEF Apart
    <3>6. QED
      BY <3>3, <3>4, <3>5 DEF TInv
  <2>4. CASE ~IsFull(updated)
    <3>1. /\ periodLeft' = Period /\ ~periodDue'
          /\ earlyLeft' = MinSeparation /\ ~earlyDue'
      BY <1>3, <2>4 DEF WorkPublish, LatePublication, StartTimers
    <3>2. Timers' /\ Untouched' /\ Delaying' /\ FullWaits' /\ StalledOnlyByRace'
      BY <2>1, <2>2, <3>1, Numbers
         DEF Timers, Untouched, Delaying, FullWaits, StalledOnlyByRace, Armed
    <3>3. OnTime' /\ Woken' /\ Young'
      BY <2>1, <3>1, Numbers DEF OnTime, Woken, Young
    <3>4. Apart'
      <4>1. queued => clean' # 2
        BY <2>1 DEF TInv, Apart, Cap
      <4>2. QED
        BY <2>1, <3>1, <4>1, Numbers DEF Apart
    <3>5. QED
      BY <3>2, <3>3, <3>4 DEF TInv
  <2>5. QED
    BY <2>3, <2>4
<1>4. CASE TypedPublish
  <2>1. /\ stage = "publish" /\ stage' = "published"
        /\ UNCHANGED <<always, updated, periodLeft, periodDue, earlyLeft, earlyDue>>
        /\ UNCHANGED <<delayed, delayLeft, queued, late, started, since, age, raced, clean>>
    BY <1>4 DEF TypedPublish, timerVars, ghostVars
  <2>2. Timers' /\ Untouched' /\ Delaying' /\ OnTime' /\ FullWaits' /\ StalledOnlyByRace'
    BY <2>1
       DEF TInv, Timers, Untouched, Delaying, OnTime, FullWaits, StalledOnlyByRace, Armed, Busy
  <2>3. Woken' /\ Young' /\ Apart'
    BY <2>1 DEF TInv, Woken, Young, Apart
  <2>4. QED
    BY <2>2, <2>3 DEF TInv
<1>5. CASE WorkReturn
  <2>1. /\ stage \in {"published", "dormant"} /\ stage' = "idle" /\ late' = 0
        /\ UNCHANGED <<always, updated, periodLeft, periodDue, earlyLeft, earlyDue>>
        /\ UNCHANGED <<delayed, delayLeft, queued, started, since, age, raced, clean>>
    BY <1>5 DEF WorkReturn, timerVars, ghostVars
  <2>2. Timers' /\ Untouched' /\ Delaying' /\ FullWaits' /\ Woken'
    BY <2>1 DEF TInv, Timers, Untouched, Delaying, FullWaits, Woken, Busy
  <2>3. StalledOnlyByRace'
    BY <2>1 DEF TInv, StalledOnlyByRace, Armed, Woken
  <2>4. OnTime' /\ Apart'
    BY <2>1, Numbers DEF TInv, OnTime, Apart, Busy
  <2>5. Young'
    BY <2>1, Numbers DEF TInv, Young
  <2>6. QED
    BY <2>2, <2>3, <2>4, <2>5 DEF TInv
<1>6. QED
  BY <1>1, <1>2, <1>3, <1>4, <1>5 DEF Work

(* The passing of time. *)
LEMMA TickTInv == TypeOK /\ TInv /\ Tick => TInv'
<1> SUFFICES ASSUME TypeOK, TInv, Tick PROVE TInv'
  OBVIOUS
<1>1. /\ ~periodDue /\ ~earlyDue /\ (delayed => delayLeft > 0)
      /\ Busy => late < MaxLatency
      /\ periodLeft' = IF periodLeft = 0 THEN 0 ELSE periodLeft - 1
      /\ earlyLeft' = IF earlyLeft = 0 THEN 0 ELSE earlyLeft - 1
      /\ delayLeft' = IF delayed THEN delayLeft - 1 ELSE delayLeft
      /\ late' = IF Busy THEN late + 1 ELSE late
      /\ UNCHANGED <<always, updated, delayed, queued, stage, started, raced, clean>>
  BY Numbers DEF Tick, Busy
<1>2. (periodDue' <=> periodLeft = 1) /\ (earlyDue' <=> earlyLeft = 1)
  BY DEF Tick
<1>3. /\ since' \in Nat /\ (since' = since + 1 \/ since' = MinSeparation)
      /\ age' \in Nat /\ age' <= age + 1 /\ (updated = {} \/ raced => age' = 0)
  BY Numbers DEF Tick, Cap
<1>4. Timers' /\ Untouched' /\ FullWaits' /\ Woken'
  <2>1. Timers' /\ FullWaits'
    BY <1>1, <1>2, Numbers DEF TInv, Timers, FullWaits, IsFull
  <2>2. Untouched'
    BY <1>1, <1>2, Numbers DEF TInv, Untouched, Busy
  <2>3. Woken'
    <3>1. Busy /\ periodLeft > 0 => periodLeft' > 0
      BY <1>1, Numbers DEF TInv, OnTime, Timers
    <3>2. QED
      BY <1>1, <3>1 DEF TInv, Woken, Busy
  <2>4. QED
    BY <2>1, <2>2, <2>3
<1>5. Delaying' /\ OnTime'
  <2>1. Delaying'
    BY <1>1, <1>2, Numbers DEF TInv, Delaying, Timers, Busy
  <2>2. Busy /\ periodLeft > 0 => earlyLeft > 1 /\ periodLeft > 1
    BY <1>1, Numbers DEF TInv, OnTime, Timers
  <2>3. Busy /\ periodLeft = 0 => earlyLeft = 0
    BY Numbers DEF TInv, Timers
  <2>4. OnTime'
    BY <1>1, <1>2, <2>2, <2>3, Numbers DEF TInv, OnTime, Busy
  <2>5. QED
    BY <2>1, <2>4
<1>6. StalledOnlyByRace'
  BY <1>1, <1>2, Numbers DEF TInv, StalledOnlyByRace, Armed
<1>7. Apart'
  BY <1>1, <1>3, Numbers DEF TInv, Apart
<1>8. Young'
  <2>1. ASSUME updated # {}, ~raced
        PROVE  \/ (queued \/ stage = "entered") /\ age' <= Period + Watermark + late'
               \/ delayed /\ age' + delayLeft' <= Period + Watermark
               \/ (periodLeft' > 0 \/ periodDue') /\ age' + periodLeft' <= Period
    BY <1>1, <1>2, <1>3, <2>1, Numbers DEF TInv, Young, Busy
  <2>2. late' \in Nat /\ late' <= MaxLatency /\ delayLeft' \in Nat /\ periodLeft' \in Nat
    BY <1>1, Numbers
  <2>3. age' <= MaxDelay
    BY <1>3, <2>1, <2>2, Numbers DEF MaxDelay
  <2>4. stage \in {"dormant", "publish", "published"} => age' <= late'
    BY <1>1, <1>3, Numbers DEF TInv, Young, Busy
  <2>5. QED
    BY <1>1, <1>3, <2>1, <2>3, <2>4, Numbers DEF Young
<1>9. QED
  BY <1>4, <1>5, <1>6, <1>7, <1>8 DEF TInv

(* The timing invariant holds in every reachable state. *)
THEOREM TimingHolds == Spec => []TInv
<1>1. TypeOK /\ TInv /\ [Next]_vars => TInv'
  <2> SUFFICES ASSUME TypeOK, TInv, [Next]_vars PROVE TInv'
    OBVIOUS
  <2>1. CASE Next
    BY <2>1, UpdateTInv, KernelTInv, WorkTInv, TickTInv DEF Next, Source
  <2>2. CASE UNCHANGED vars
    BY <2>2, DataTInv DEF vars
  <2>3. QED
    BY <2>1, <2>2
<1>2. QED
  BY InitTInv, TypeCorrect, <1>1, PTL DEF Spec

(* An update is never left without an event that will publish it, unless it *)
(* came between the decision of agg_work_cb() to be dormant and its return; *)
(* and an aggregation that always publishes never stops.                    *)
THEOREM StalledOnlyByRaceHolds == Spec => []StalledOnlyByRace
<1>1. TInv => StalledOnlyByRace
  BY DEF TInv
<1>2. QED
  BY TimingHolds, <1>1, PTL

(* No update waits longer than the period, the watermark and the latency of *)
(* the work queue, and a full aggregation waits for the early timer or the  *)
(* work queue alone.                                                        *)
THEOREM PublishedInTimeHolds == Spec => []PublishedInTime
<1>1. TInv => PublishedInTime
  BY DEF TInv, Young, FullWaits, PublishedInTime
<1>2. QED
  BY TimingHolds, <1>1, PTL

(* Publications are a minimum separation apart, but for twice the latency   *)
(* of the work queue, unless a submission between the start of              *)
(* agg_work_cb() and its locked section has made it run twice.              *)
THEOREM SeparatedUnlessDoubledHolds == Spec => SeparatedUnlessDoubled
<1>1. TInv => [WorkPublish /\ clean = 2 => since + 2 * MaxLatency >= MinSeparation]_vars
  <2> SUFFICES ASSUME TInv, WorkPublish, clean = 2
               PROVE  since + 2 * MaxLatency >= MinSeparation
    OBVIOUS
  <2>1. QED
    BY DEF WorkPublish, TInv, Apart
<1>2. QED
  BY TimingHolds, <1>1, PTL DEF SeparatedUnlessDoubled

=============================================================================
