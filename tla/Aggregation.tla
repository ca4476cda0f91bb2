---------------------------- MODULE Aggregation ----------------------------
(***************************************************************************)
(* One typed data aggregation, subsys/msg/aggregation.c and                *)
(* include/nturt/msg/aggregation.h.                                        *)
(*                                                                         *)
(* Sources in threads and interrupt handlers update members of a struct;   *)
(* two one-shot kernel timers and a delayable work item decide when the    *)
(* struct is published, by a work queue thread.  A section under a         *)
(* spinlock is one step.  Time is counted in system ticks.                 *)
(***************************************************************************)
EXTENDS Naturals

CONSTANTS
    Members,        \* members of the struct
    Ignored,        \* those with AGG_MEMBER_FLAG_IGNORED
    Optional,       \* those with AGG_MEMBER_FLAG_OPTIONAL
    Period, MinSeparation, Watermark,  \* in ticks
    MaxLatency      \* bound: ticks the work spends in the queue and running

(* The work queue, which the aggregations of the system share, is not       *)
(* overloaded: agg_update() logs a warning when it is.                      *)
ASSUME TimingAssumption ==
    /\ Period \in Nat /\ MinSeparation \in Nat /\ Watermark \in Nat /\ MaxLatency \in Nat
    /\ 2 * MaxLatency < MinSeparation
    /\ MinSeparation <= Period
    /\ Watermark > 0

ASSUME MembersAssumption ==
    Ignored \subseteq Members /\ Optional \subseteq Members

(* agg->fully_updated *)
Required == Members \ (Ignored \cup Optional)

VARIABLES
    always,      \* AGG_FLAG_ALWAYS_PUBLISH in agg->flag, a constant field
    unsent,      \* members of *data written since it was copied to *pub_data
    updated,     \* agg->updated
    periodLeft, periodDue,  \* agg->period_timer: ticks left, handler to be run
    earlyLeft, earlyDue,    \* agg->early_timer
    delayed, delayLeft,     \* agg->work waits for a timeout: K_WORK_DELAYED
    queued,      \* agg->work is in the work queue: K_WORK_QUEUED
    stage,       \* where agg_work_cb() is: K_WORK_RUNNING unless "idle"
    late,        \* ticks since the work was submitted
    \* Bookkeeping for the properties.
    started,     \* a member was updated
    since,       \* ticks since the last publication, MinSeparation at most
    age,         \* ticks some update has waited and not raced, MaxDelay + 1 at most
    raced,       \* an update came while the work was on its way to be dormant
    clean        \* publications since a submission between the start of
                 \* agg_work_cb() and its locked section, 2 at most

timerVars == <<periodLeft, periodDue, earlyLeft, earlyDue>>
workVars == <<delayed, delayLeft, queued, stage, late>>
ghostVars == <<started, since, age, raced, clean>>
vars == <<always, unsent, updated, timerVars, workVars, ghostVars>>

MaxDelay == Period + Watermark + MaxLatency

IsFull(u) == Required \subseteq u

Cap(n, m) == IF n < m THEN n ELSE m

(* k_work_delayable_is_pending(): delayed, queued or running. *)
IsPending == delayed \/ queued \/ stage # "idle"

Init ==
    /\ always \in BOOLEAN
    /\ unsent = {}
    /\ updated = {}
    /\ periodLeft = 0 /\ periodDue = FALSE
    /\ earlyLeft = 0 /\ earlyDue = FALSE
    /\ delayed = FALSE /\ delayLeft = 0 /\ queued = FALSE
    /\ stage = "idle" /\ late = 0
    /\ started = FALSE /\ since = MinSeparation /\ age = 0 /\ raced = FALSE /\ clean = 2

-----------------------------------------------------------------------------
(* The kernel services agg_*() call. *)

(* k_timer_start() on both timers; it also cancels an expiry whose handler  *)
(* has not been run.                                                        *)
StartTimers ==
    /\ periodLeft' = Period /\ periodDue' = FALSE
    /\ earlyLeft' = MinSeparation /\ earlyDue' = FALSE

(* k_work_reschedule_for_queue(K_NO_WAIT): the delay is cancelled, and the  *)
(* work queued unless it is; running work is queued once more.              *)
SubmitNow ==
    /\ delayed' = FALSE /\ delayLeft' = 0
    /\ queued' = TRUE
    /\ late' = IF queued \/ stage # "idle" THEN late ELSE 0
    /\ clean' = IF stage = "entered" THEN 0 ELSE clean
    /\ UNCHANGED stage

(* k_work_schedule_for_queue(watermark): nothing if delayed or queued. *)
ScheduleAfterWatermark ==
    /\ IF delayed \/ queued
         THEN UNCHANGED <<delayed, delayLeft>>
         ELSE delayed' = TRUE /\ delayLeft' = Watermark
    /\ UNCHANGED <<queued, stage, late, clean>>

-----------------------------------------------------------------------------
(* Faulty: the separation from the last publication is not looked at. *)
PublishAtOnceEager(u) == IsFull(u)

(* agg_update(): fully updated after the minimum separation. *)
PublishAtOnce(u) == earlyLeft = 0 /\ IsFull(u)

(* agg_update(): nothing would publish the update. *)
ColdStart == periodLeft = 0 /\ ~IsPending

IsIgnored(m) == m \in Ignored

(* AGG_TYPED_UPDATE, with agg_update() inside the lock of the data. *)
Update(m) ==
    /\ unsent' = unsent \cup {m}
    /\ IF IsIgnored(m)
         THEN UNCHANGED <<updated, timerVars, workVars, ghostVars>>
         ELSE /\ updated' = updated \cup {m}
              /\ IF PublishAtOnce(updated')
                   THEN StartTimers /\ SubmitNow
                   ELSE /\ UNCHANGED timerVars
                        /\ IF ColdStart
                             THEN ScheduleAfterWatermark
                             ELSE UNCHANGED <<workVars, clean>>
              /\ raced' = IF PublishAtOnce(updated') \/ ColdStart THEN FALSE
                          ELSE raced \/ stage = "dormant"
              /\ started' = TRUE
              /\ UNCHANGED <<since, age>>
    /\ UNCHANGED always

(* Faulty: nothing is scheduled when nothing was updated. *)
PeriodTimerCbOnUpdate ==
    /\ periodDue
    /\ periodDue' = FALSE
    /\ IF updated # {} THEN ScheduleAfterWatermark ELSE UNCHANGED <<workVars, clean>>
    /\ UNCHANGED <<always, unsent, updated, periodLeft, earlyLeft, earlyDue,
                   started, since, age, raced>>

(* agg_period_timer_cb() *)
PeriodTimerCb ==
    /\ periodDue
    /\ periodDue' = FALSE
    /\ ScheduleAfterWatermark
    /\ UNCHANGED <<always, unsent, updated, periodLeft, earlyLeft, earlyDue,
                   started, since, age, raced>>

(* Faulty: the early timer's expiry publishes nothing. *)
EarlyTimerCbIdle ==
    /\ earlyDue
    /\ earlyDue' = FALSE
    /\ UNCHANGED <<always, unsent, updated, periodLeft, periodDue, earlyLeft,
                   workVars, ghostVars>>

(* agg_early_timer_cb() *)
EarlyTimerCb ==
    /\ earlyDue
    /\ IF IsFull(updated)
         THEN StartTimers /\ SubmitNow
         ELSE /\ earlyDue' = FALSE
              /\ UNCHANGED <<periodLeft, periodDue, earlyLeft, workVars, clean>>
    /\ UNCHANGED <<always, unsent, updated, started, since, age, raced>>

(* The timeout of the delayed work. *)
WorkTimeout ==
    /\ delayed /\ delayLeft = 0
    /\ delayed' = FALSE
    /\ queued' = TRUE
    /\ late' = IF queued \/ stage # "idle" THEN late ELSE 0
    /\ UNCHANGED <<always, unsent, updated, timerVars, delayLeft, stage, ghostVars>>

(* The work queue thread takes the work and calls agg_work_cb(). *)
WorkEnter ==
    /\ queued /\ stage = "idle"
    /\ queued' = FALSE
    /\ stage' = "entered"
    /\ UNCHANGED <<always, unsent, updated, timerVars, delayed, delayLeft, late,
                   ghostVars>>

(* agg_work_cb(), the locked section: nothing was updated. *)
WorkDormant ==
    /\ stage = "entered" /\ ~always /\ updated = {}
    /\ stage' = "dormant"
    /\ UNCHANGED <<always, unsent, updated, timerVars, delayed, delayLeft, queued,
                   late, ghostVars>>

(* Faulty: the timers of a late publication are left as they are. *)
LatePublicationUntimed == UNCHANGED timerVars

(* agg_work_cb(): a publication that was not decided by an update or by the *)
(* early timer starts the timers.                                           *)
LatePublication == IF IsFull(updated) THEN UNCHANGED timerVars ELSE StartTimers

(* agg_work_cb(), the locked section: the aggregation is published. *)
WorkPublish ==
    /\ stage = "entered" /\ (always \/ updated # {})
    /\ LatePublication
    /\ updated' = {}
    /\ stage' = "publish"
    /\ since' = 0 /\ age' = 0 /\ raced' = FALSE
    /\ clean' = Cap(clean + 1, 2)
    /\ UNCHANGED <<always, unsent, delayed, delayLeft, queued, late, started>>

(* agg_typed_publish(): the copy made under the lock of the data; then the  *)
(* user's publish function reads pub_data.                                  *)
TypedPublish ==
    /\ stage = "publish"
    /\ unsent' = {}
    /\ stage' = "published"
    /\ UNCHANGED <<always, updated, timerVars, delayed, delayLeft, queued, late,
                   ghostVars>>

(* Faulty: the updates are forgotten when the publish function returns. *)
WorkReturnForgets ==
    /\ stage \in {"published", "dormant"}
    /\ stage' = "idle" /\ late' = 0
    /\ updated' = {}
    /\ UNCHANGED <<always, unsent, timerVars, delayed, delayLeft, queued, ghostVars>>

WorkReturn ==
    /\ stage \in {"published", "dormant"}
    /\ stage' = "idle" /\ late' = 0
    /\ UNCHANGED <<always, unsent, updated, timerVars, delayed, delayLeft, queued,
                   ghostVars>>

(* One tick of the system clock.  What expired at the last one has been     *)
(* handled, and the work is not left waiting for more than MaxLatency.      *)
Tick ==
    /\ ~periodDue /\ ~earlyDue /\ ~(delayed /\ delayLeft = 0)
    /\ queued \/ stage # "idle" => late < MaxLatency
    /\ periodLeft' = IF periodLeft = 0 THEN 0 ELSE periodLeft - 1
    /\ periodDue' = (periodLeft = 1)
    /\ earlyLeft' = IF earlyLeft = 0 THEN 0 ELSE earlyLeft - 1
    /\ earlyDue' = (earlyLeft = 1)
    /\ delayLeft' = IF delayed THEN delayLeft - 1 ELSE delayLeft
    /\ late' = IF queued \/ stage # "idle" THEN late + 1 ELSE late
    /\ since' = Cap(since + 1, MinSeparation)
    /\ age' = IF updated # {} /\ ~raced THEN Cap(age + 1, MaxDelay + 1) ELSE 0
    /\ UNCHANGED <<always, unsent, updated, delayed, queued, stage, started, raced,
                   clean>>

Source == \E m \in Members : Update(m)
Kernel == PeriodTimerCb \/ EarlyTimerCb \/ WorkTimeout
Work == WorkEnter \/ WorkDormant \/ WorkPublish \/ TypedPublish \/ WorkReturn

Next == Source \/ Kernel \/ Work \/ Tick

Spec == Init /\ [][Next]_vars

(* Interrupts are served, the work queue thread (of higher priority than    *)
(* the application's threads) runs, and time passes.                        *)
FairSpec == Spec /\ WF_vars(Kernel) /\ WF_vars(Work) /\ WF_vars(Tick)

-----------------------------------------------------------------------------
(* Properties. *)

(* Every variable keeps its type. *)
TypeOK ==
    /\ always \in BOOLEAN
    /\ unsent \subseteq Members
    /\ updated \subseteq Members \ Ignored
    /\ periodLeft \in 0..Period /\ periodDue \in BOOLEAN
    /\ earlyLeft \in 0..MinSeparation /\ earlyDue \in BOOLEAN
    /\ delayed \in BOOLEAN /\ delayLeft \in 0..Watermark
    /\ queued \in BOOLEAN
    /\ stage \in {"idle", "entered", "dormant", "publish", "published"}
    /\ late \in 0..MaxLatency
    /\ started \in BOOLEAN /\ since \in 0..MinSeparation /\ age \in 0..MaxDelay + 1
    /\ raced \in BOOLEAN /\ clean \in 0..2

(* A later event is bound to run agg_work_cb() on the members updated now. *)
Armed == periodLeft > 0 \/ periodDue \/ delayed \/ queued \/ stage = "entered"

(* An update is never left without an event that will publish it, except    *)
(* when it came in the moment between agg_work_cb()'s decision to be        *)
(* dormant and the return of the work; and with AGG_FLAG_ALWAYS_PUBLISH the *)
(* aggregation, once started, never stops.                                  *)
StalledOnlyByRace ==
    /\ updated # {} /\ ~raced => Armed
    /\ always /\ started => Armed

(* Every update is published, or raced as above. *)
EventuallyPublished == \A m \in Members : m \in updated ~> m \notin updated \/ raced

(* The published copy lags behind the data only for members still marked as *)
(* updated (or about to be copied): no update of a monitored member is      *)
(* lost, although the marks are cleared before the data is copied.          *)
NoLostUpdate ==
    stage = "publish" \/ unsent \ Ignored \subseteq updated

(* No update waits longer than the period, the watermark and the latency of *)
(* the work queue, unless it was raced; and a fully updated aggregation     *)
(* whose minimum separation is over waits for no later event but the work   *)
(* queue.                                                                   *)
PublishedInTime ==
    /\ age <= MaxDelay
    /\ started /\ IsFull(updated) => earlyLeft > 0 \/ earlyDue \/ queued \/ stage = "entered"

(* Publications are a minimum separation apart, but for the latency of the  *)
(* work queue (twice, when the work is submitted while it runs).  But a     *)
(* submission between the start of agg_work_cb() and its locked section     *)
(* makes it run twice: the first run publishes an update decided for the    *)
(* second, and the second can publish at any moment.                        *)
SeparatedUnlessDoubled ==
    [][WorkPublish /\ clean = 2 => since + 2 * MaxLatency >= MinSeparation]_vars
=============================================================================
