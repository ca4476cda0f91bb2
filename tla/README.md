# Verification of nturt_zephyr_common

TLA+ models of the libraries and drivers that the NTU Racing Team's Zephyr
applications share, with TLC configurations that check them on small instances
and TLAPS proofs of what matters most for every instance. Paths below are those
of the repository.

The code is event driven C on Zephyr: interrupt handlers, timers, work queues,
cooperative and preemptive threads share small structures under spin locks,
mutexes, or nothing. Most components are a few hundred lines, and what is hard
in them is which step of which context comes first. That is what the models
keep: each access to shared state that another context can come between is a
step of its own, and what runs under a spin lock is one step.

## 1. The system

| Component | State it keeps | Operations | Who interacts with it |
|---|---|---|---|
| `subsys/err` | list of set errors, flag of each, `cb_dispatched` | `init`, `err_report`, `cb_init`, `err_is_set` | reported to by any context, calls callbacks (emcy, shell, applications) |
| `subsys/cmd` | packet buffer, semaphore | `cmd_invoke`, processing thread | CAN and shell callers; handlers of applications |
| `subsys/msg/aggregation` | data, update marks, two timers, a delayable work | `agg_update`, timer callbacks, `agg_work_cb`, publication | drivers and telemetry update; publishes on zbus |
| `subsys/msg/logging` | per channel: mutex, flag, file; packet buffer, work, sync work | start, stop, `msg_cb`, `logging_work`, `msg_logging_sync_work` | zbus publishers, operators at a shell, file system |
| `subsys/msg` (msg.c) | none | print and CSV by table | logging, shell |
| `drivers/input/sensor-axis` | per channel: sensors' bounds and errors, accumulated error time, last value | `channel_update` in a polling thread, calibration, settings | sensors below, input events above |
| `drivers/input/accel` | pedal states, plausibility failure, error, last value | two input callbacks, `update`, `error_update` | input events of two sensor-axis channels; reports input events |
| `subsys/canbus/canopen` emcy | one emergency and its work, map of status bits | `emcy_cb`, `emcy_work`, `err_cb` | CANopenNode, err |
| `subsys/canbus/canopen` hb_consumer | none of its own | `init`, `mnt_changed_cb` | CANopenNode, err |
| `drivers/input/sensor-axis` shell, settings | two records of each sensor | calibration commands, saving, loading | operators at several shells, the settings file |
| `subsys/canbus/canopen` time, `subsys/sys/rtc` | set-once flag, two clocks | time callback, `sys_set_time` | CANopenNode, RTC driver, time stamps of files |
| `subsys/telemetry` with `subsys/canbus/canopen/canopen.c` | names, links to groups, the object dictionary | update, notification, copy and publication of a group | aggregation, CANopen PDOs, messages of other nodes |
| `subsys/sys` | work queue, reset timer, callbacks | reset, shutdown | every component that must close something (fs) |
| `subsys/sys/fs` | mounted file systems | `fs_mkdir_p`, unmount, `get_fattime` | logging, sys, settings |
| `drivers/sensor` hall-rpm, amt21, jy901b | a count; a line; samples | fetch, get, timers, attributes | sensing, applications |
| `subsys/sensing/sensor/phy_generic` | entries and blocks of an RTIO context | submit, decode | sensing subsystem, sensor drivers |
| `drivers/gpio/74hc595`, led strip, segment display | outputs of a chain; a map of ports each | port writes, update, write | dashboard of the vehicle |
| `subsys/util.c` | pending works of a buffer of contexts | `work_ctx_buf_alloc` | interrupts that defer work |
| `drivers/sensor` analog-generic, p51-curr, zx | the last raw value | fetch, get | applications |

How they interact: values go up from the sensors through sensor-axis to accel
as input events through Zephyr's input queue, which can be full; messages go
from publishers through zbus to logging; data go from drivers into aggregations
and from those to messages and PDOs; errors are set by anyone, and come back to
CANopen as status bits, whose changes come back as emergencies.

What is hard in it, component by component (the full list, each at its line, is
`hazards` in PROJECT.json):

- **err**: the list is walked without a lock at boot while others change it, and
  callbacks are called after the unlock. Correct means: the list is well formed
  and is exactly the set errors, the walk ends, no callback misses a state.
- **cmd**: allocation, commit and semaphore are three steps, by callers that
  preempt each other. Correct means: a bounded FIFO that executes each accepted
  command once.
- **aggregation**: three time constants, two timers and a delayable work that
  each may be late. Correct means: no update is lost or waits for ever, and
  publications keep their distance.
- **logging**: a channel is stopped in one context and its file closed in
  another, through a buffer that overwrites. Correct means: each message is in
  the file of its session, files are open while used, none is left open.
- **sensor-axis**: errors are tolerated for a time, reports can be refused.
  Correct means: listeners know the value, or that there is none, and in time.
- **accel**: two asynchronous streams with errors. Correct means the rules of
  the competition: no throttle after both pedals were pressed until release, and
  none from a broken pedal.
- **canopen**: emergencies from two contexts into one slot, errors from several.
  Correct means: the bus error is set while a bus bit is, the heartbeat errors
  while a node is away, and the status bits mirror the errors.
- **calibration**: a sensor is unlocked between samples, its two bounds are two
  records, and a reset can come between any two steps. Correct means: what was
  calibrated and reported is what a restart loads, and no travel becomes empty
  unless an operator says so.
- **telemetry**: copies of copies without a common lock, from the update to the
  message of another node. Correct means: frames are of one copy, and the last
  value arrives.
- **sys, fs**: several threads end the run, callbacks hang, a timer cuts them
  short. Correct means: it ends, and what can be unmounted is.
- **drivers**: no locks, transfers that fail half-way, late answers, counters
  that wrap. Correct means: values of one time, no loss of pulses or blocks, and
  outputs that show what was asked.

## 2. Modules

| Module | Models | Kind |
|---|---|---|
| `Err` | `subsys/err/err.c` | component |
| `ErrProofs` | theorems about `Err` | proofs |
| `Aggregation` | `subsys/msg/aggregation.c` | component |
| `AggregationProofs` | theorems about `Aggregation` | proofs |
| `MpscPbuf` | Zephyr's `mpsc_pbuf`, as cmd.c and logging.c use it | external, operators |
| `CmdQueue` | what the command system promises: a bounded FIFO | abstract |
| `Cmd` | `subsys/cmd/cmd.c`; implements `CmdQueue` | component |
| `CmdProofs` | theorems about `Cmd`, with the refinement of `CmdQueue` | proofs |
| `MsgLogging` | `subsys/msg/logging.c` | component |
| `MsgLoggingProofs` | theorems about `MsgLogging` | proofs |
| `AxisStream` | what a sensor-axis channel promises its listeners | abstract |
| `SensorAxis` | `channel_update()` of `sensor_axis.c`; implements `AxisStream` | component |
| `SensorAxisProofs` | theorems about `SensorAxis`, with the refinement of `AxisStream` | proofs |
| `Accel` | `drivers/input/accel/accel.c`, fed by two `AxisStream`s | composition |
| `Canopen` | `emcy.c` and `hb_consumer.c`, with err and CANopenNode | composition |
| `CanopenProofs` | theorems about `Canopen` | proofs |
| `Calibration` | calibration of `sensor_axis.c`, `shell.c`, `settings.c` | composition |
| `Telemetry` | `telemetry.c`, `canopen.c`, `canopen.h` at two nodes, with the aggregations of both | composition |
| `System` | `sys.c` and `fs.c` | composition |
| `Clock` | `rtc.c`, `time.c`, `get_fattime()` | composition |
| `HallRpm`, `Amt21`, `Jy901b` | the sensor drivers of these names | components |
| `PhyGeneric` | `phy_generic.c` between two RTIO contexts | component |
| `Lights` | segment display and LED strip on the chain of `gpio_74hc595.c` | composition |
| `WorkBuf` | the buffer of work contexts of `util.c` and `util.h` | component |
| `DriversProofs` | theorems about `Accel`, `Clock`, `HallRpm`, `PhyGeneric`, `WorkBuf`, `Amt21`, `Jy901b`, `Lights` | proofs |
| `ServicesProofs` | theorems about `Telemetry`, `System`, `Calibration` | proofs |
| `MC*` | the small instances; `MCDrivers` is of the seven small modules | model checking |

In each component module, variables are the fields of the component's context
structure plus the place (`pc`, `stage`, `thread`, ...) of every context that
runs its code; the actions of a function follow its text from one access of
shared state to the next. Variables that no code reads are declared last and
called bookkeeping: they only record history for the properties. Definitions
with "Faulty" in their comment are plausible bugs. No specification uses them;
each breaks the property it is listed with under `mutants`.

The correspondence of every definition to its lines is `map` in PROJECT.json.
The outlines:

- **Err.** `InitErr`/`InitReturn` are `init()`; `Report` is the locked part of
  `err_report()`, `StartNotify`, `CallHandler`, `ReportReturn` what follows the
  unlock; `CbInit`, `WalkFirst`, `WalkRead`, `WalkNext` are `cb_init()`. The
  list is the three kinds of pointers of `sys/queue.h`, so that a walk can hold
  an error that has been removed, as in the code.
- **Aggregation.** `Update` is `agg_update()` (one critical section);
  `PeriodTimerCb` and `EarlyTimerCb` the timers' handlers; `WorkEnter`,
  `WorkDormant`, `WorkPublish`, `TypedPublish`, `WorkReturn` the work. `Tick`
  passes one unit of time for every timer; handlers and the work can be late by
  `MaxLatency`.
- **Cmd.** `Invoke` to `GiveSem` follow `cmd_invoke()`, `TakeSem` to
  `FreePacket` the thread. Between any two another caller may run.
- **MsgLogging.** `Start*`, `Stop*`, `Publish`, `CommitPacket`, `SubmitWork`,
  `Work*`, `SyncWork`. The mutex has an owner and a depth, as Zephyr's has: a
  `k_mutex_unlock()` by another thread fails.
- **SensorAxis.** One pass of `channel_update()` is a sequence of actions, one
  per sensor and one per check; `ChannelError`, `ChannelPass` and `SensorError`
  are the error functions; every report may be refused by the input queue. The
  arithmetic (rounded division, clamping, tolerances, the dead zones) is the
  code's, in whole numbers.
- **Accel.** `Handle` is a callback with the `update()` and `error_update()` it
  calls. The input queue is bounded.
- **Canopen.** Four contexts: `Main` (the boot), `Thread` (CANopenNode's),
  `RemoteEmcy` (the CAN interrupt), `Work`. `err_report()` is in it as a locked
  step and a callback step; what `Err` shows about the walk is used in it.
- **Calibration.** `Command` and `Operator` are the shell commands; `Sample`,
  `NextSensor`, `SetCurr` the functions that take a sensor's mutex once for each
  sample and once for the change; `SaveOne` writes one record, `Load` reads one
  after a `Restart`. `NewTravel` is the arithmetic of the five kinds of
  calibration.
- **Telemetry.** `InsertData`, `LinkGroup` are `init()`; `Update`,
  `UpdateAddr` mark the groups by `Updated`, which is `agg_update()` with its
  member flags. `WorkDormant`, `WorkReturn` and `WorkPublish` are the two ways
  through `agg_work_cb()`; the second copies a group (`GroupCopy`), writes the
  dictionary entry by entry (`SetValue`) and requests frames; `Tpdo*` and
  `RpdoReceive` are CANopenNode; `OdWrite`, `MsgDormant`, `MsgPublish` and
  `MsgReturn` the receiver and the aggregation of its message. Time is left out:
  `armed` says whether a timer or the queue will run the work. After a
  publication the period timer does, since `TimingAssumption` of `Aggregation`
  makes the period longer than what the work can be late by; when the work goes
  dormant either may be, since two publications at once leave one to come.
- **System.** `SysReset`, `SysShutdown`, `Callback`, `Reset`, `PowerOff`,
  `ResetCb` end a run; `MkdirP`, `Advance`, `OpenDir`, `MkDir`, `Return` follow
  `fs_mkdir_p()`, each of whose operations the disk may refuse (`DiskRefuses`);
  `Boot` starts the next run with the directories that are there.
- **Clock.** `TimeCb`, `Convert`, `RtcSetTime` are the steps of setting the time;
  `FatGetTime`, `FatConvert` those of a time stamp, which uses the same `tm`.
- **HallRpm.** `Pulse`, `TimerCb`, `ClearCount`, `AttrSet`, `AttrCycle`; a
  reading is its two numbers, and the cycle counter has `Cycles` values.
- **Amt21.** `Send`, `PollIn`, `Timeout`, `Accept`, `Reject`, `Retry` are
  `amt21_read()` and its callers; `Arrive`, `Lose` and `Turn` the line and the
  shaft.
- **PhyGeneric.** `PhySubmit`, then `DecodeError`, `DecodeFails` or `Decode`, the
  three ways out of `phy_generic_decode()`. The pools are counts of blocks, that
  the property has to trace to the reads which hold them.
- **Lights.** `WriteOutput` is the transfer with its roll-back, `SetGpio` one
  port of a device's map, `Parsed` the loop over the characters of a text,
  `Shows` its reference.
- **WorkBuf.** `Alloc`, `Fill`, `Submit` of a caller, `Begin`, `Return` of the
  work queue.
- **Jy901b.** `Read`, `ReadFails`, `Store` for each transfer and field of a fetch,
  `Get` for each field of a channel.

## 3. What TLC checks

| Run | Shows |
|---|---|
| `err` | the list is linked both ways and holds exactly the enabled set errors, while it is changed and walked; the walk ends; a callback hears of every state it must hear of (`NothingMissed`), and the last it heard is the truth unless two tellings of one error overlapped |
| `aggregation` | no update lost (`NoLostUpdate`), late (`PublishedInTime`) or forgotten (`StalledOnlyByRace`, `EventuallyPublished`); a full one goes out at once; `AGG_FLAG_ALWAYS_PUBLISH` never stops; publications keep the separation but for twice the latency, except after a doubled work |
| `cmd` | implements the FIFO; a claim finds nothing only when a caller was overtaken; invocations are executed |
| `cmd_null_packet` | violation: the thread dereferences NULL after such a claim |
| `logging` | messages go to the file of their session, files are open while they are used and leak only after the races the properties name |
| `sensor_axis` | implements the stream; the listeners know the value within the noise, and the dead zone exactly; lasting failures are reported in time |
| `accel` | no throttle while the plausibility failure lasts, nor without both pedals; otherwise the throttle is the pedal |
| `canopen` | the bus error follows the status bits, the heartbeat errors the NMT states, the status bits the errors, with the exceptions the properties state |
| `calibration` | a travel and its records are what was last calibrated, also after a restart (`CalibrationKept`); only a bound set by hand makes a sensor unusable (`UnusableOnlyByHand`) |
| `telemetry` | a frame is one copy unless publication and frame overlap (`FramesWhole`); the last value arrives at the other node, unless an aggregation that goes dormant leaves it behind or it came before it was linked (`Arrives`) |
| `system` | a reset comes whatever hangs (`GoesDown`), an orderly end leaves mounted only what refused (`CleanEnd`), `fs_mkdir_p()` fails only if the disk refused, it is unmounted, or another thread has just made a part of its path (`MkdirFailsOnlyByRace`) |
| `drivers` | the clocks agree; readings of the wheel speed are true; angles and channels are of one time; each block taken is of an answer, of a read to be decoded or of a failed driver; lights show what was last written, and a repeated write repairs a failed one; a deferred work runs once with its own arguments |

`TypeOK` is in no .cfg, but the types are part of every inductive invariant of
section 4: as `TypeOK` for `Err`, `Aggregation`, `Cmd`, `MsgLogging`,
`SensorAxis` and `Accel`, and as the first conjunct (`...Types`) for the others,
which declare no more of them than the proofs use. Add `TypeOK` to a .cfg
to see it hold in an instance.

Each exception in a property (`raced`, `clean`, `overlap`, `late`, `restarted`,
`early`, `excused`, `refused`, `rtcRefused`, `disturbed`, `crossed`,
`unheard`, `fired`, `overtaken`, `lost`, `mixed`, `passed`, `stale`, `shared`,
`gaveUp`, `overrun`) is there because the property without it fails; it delimits a race of the code.

### Bounds, and why they are enough

- `err`: three errors and a disabled one, three of the four preset, two
  callbacks (one unfiltered, one with both kinds of filter), two reporters, three
  changes. A stale pointer needs the walk at one error, its removal and another
  change; an overlap needs two reporters of one error. `MaxReports` bounds the
  changes.
- `aggregation`: all time constants differ (5, 3, 2, latency 1); two required
  members, an optional and an ignored one, so that full, partial and ignored
  updates exist. Nothing else is bounded: `age` and `since` saturate at the first
  value no property tells from a greater one.
- `cmd`: two callers, two invocations each, a buffer of two packets, so that it
  fills, and all kinds of commands (both handlers, either, unknown).
- `logging`: two channels, so that they contend for the buffer of two; two
  sessions, so that a message can meet the next one. One message per channel: a
  second only adds packets of the same session.
- `sensor_axis`: two opposite sensors; readings at both ends, within and beyond
  the range tolerance and in the dead zone, and deviating pairs; a dead zone as
  small as the noise, the boundary of the assumption. Time is finite because the
  tolerance saturates.
- `accel`: values 0, 5, 6, 25, 26 on both sides of both thresholds (5 % and
  25 %) and a queue of three events, which can fill.
- `canopen`: a slot that is skipped and one that is not, a warning, a
  communication and a heartbeat bit; the stack raises a new cause only while
  less than `MaxFifo` = 1 emergencies wait, and what follows from a cause makes
  the queue longer than that.

- `calibration`: two operators, who are symmetric, two sensors, a channel of both
  and one alone; readings 0 and 5 with a divisor of 4, so that a travel can be
  usable, rounded or empty; two commands, which overlap or follow each other, and
  one restart. Three of the five kinds; the others are mirror images.
- `telemetry`: a group of two data and an alias of one of them, a member that
  both ends ignore; one update of each. A mixed frame needs a second publication
  while a frame is made; a lost one needs a request while its flag is set. The
  race of going dormant needs one update to wake the work and another to meet
  it as it goes dormant, at the sender, or a second frame that does so at the
  receiver; both leave a value behind in the instance.
- `system`: two threads that end the run, an application's callback before two
  unmounts, two threads that make the same two directories, one failure and one
  restart. The disk may
  refuse an unmount, or to open, close or make a directory. A race needs two of
  each, a failure on top of it one more.
- `drivers`: two epochs and two failures of the real-time clock; a counter of two
  bits, which wraps within one interval; a turn of two positions and angles of
  both signs, two tries, a receiver of one byte; three reads for two entries and
  two blocks; two registers, a display on both and a strip on the second, texts of
  up to four characters, one failed transfer; three callers for two contexts, two
  works each; two clients of the IMU and three samples. The parts start in the
  same state when they are not the one a behaviour is about.

Runs with `CHECK_DEADLOCK FALSE` are of systems that may stop: the bounded
reports, invocations, updates or failures are used up, in `cmd` the thread has
faulted, or in `system` it is off.

### Fairness

Only `err`, `aggregation`, `cmd`, `telemetry` and `system` have liveness
properties.

- `Err!FairSpec`: the main thread and each reporter, once inside the library,
  go on. The library never blocks but for a spin lock. Nothing has to report.
- `Aggregation!FairSpec`: the kernel, the work queue's thread and time go on.
  Nothing has to update.
- `Cmd!FairSpec`: the processing thread and a caller inside `cmd_invoke()` go
  on; a caller need not invoke. Weak fairness is enough: `k_sem_take` with a
  single taker stays enabled.

- `Telemetry!TelemetrySpec`: the main thread finishes `init()`; the work queues and
  CANopenNode's threads, which are woken by what is due, do it. Fairness is strong
  for each group's work and frame: the groups share a work queue, which is FIFO,
  and a loop of CANopenNode's that looks at each in turn, so that none is passed
  over for ever although it is not enabled while another is dealt with. Nothing
  has to be updated.
- `System!SystemSpec`: the timer's interrupt comes, and a thread that ends the run goes
  on unless a callback hangs: it runs, or waits in a callback that returns.

The others are checked for safety only. A full input queue may refuse for ever,
so that nothing must eventually be reported.

## 4. What TLAPS proves

Theorems are in eight modules; each is for all values of the constants that
satisfy the assumptions.

| Module | Theorems (the property of a run, where its name differs) | For all |
|---|---|---|
| `ErrProofs` | `TypeCorrect`, `ListAlwaysLinked` (`ListLinked`), `NothingMissedHolds`, `FreshUnlessOverlappedHolds` | errors, flags, filters, callbacks, reporters |
| `AggregationProofs` | `TypeCorrect`, `NoUpdateLost` (`NoLostUpdate`), `StalledOnlyByRaceHolds`, `PublishedInTimeHolds`, `SeparatedUnlessDoubledHolds` | members and timing parameters |
| `CmdProofs` | `NullPacketOnlyWhenOvertakenHolds`, `QueueImplemented` (`ImplementsQueue`) | callers, commands, buffer sizes |
| `MsgLoggingProofs` | `TypesHold`, `StalledOnlyByRaceHolds`, `InOwnFileHolds`, `OpenWhileUsedHolds`, `LeakOnlyAfterRaceHolds` | channels, operators, sessions, buffer sizes |
| `SensorAxisProofs` | `ValueKnownHolds`, `ReportedInTimeHolds`, `StreamImplemented` (`ImplementsStream`) | sensors, weights, calibrations, tolerances |
| `CanopenProofs` | `HeartbeatAlwaysFollows` (`HeartbeatFollowsNmt`), `StatusAlwaysFollows` (`StatusFollowsErrors`), `CanbusAlwaysFollows` (`CanbusFollowsStatus`) | errors, slots, status bits |
| `DriversProofs` | of `Accel`: `NoThrottleWhileLatchedHolds`, `NoThrottleWithoutPedalHolds`, `ThrottleFollowsHolds`; `ClocksAgreeHolds`; `RateTrueHolds`; `BlocksAccountedHolds`; `HandledOnceHolds`; `FetchedTogetherHolds`; `GotTogetherHolds`; `ShowsLastWriteHolds`, `RetryRepairsHolds` | values and sizes of each |
| `ServicesProofs` | `FramesWholeHolds`; `CleanEndHolds`, `MkdirFailsOnlyByRaceHolds`; `CalibrationKeptHolds`, `UnusableOnlyByHandHolds` | groups and data; threads and paths; sensors and shells |

### Assumptions

The assumptions are the named `ASSUME`s of the component modules, which TLC
evaluates in every run of the module. They say what a configuration of the
program is, and where one excludes something:

- `TimingAssumption`: the work queue is late by less than half of the separation.
- `CmdAssumption` and `LoggingAssumption`: there is a command and a channel. The
  buffer of logging has room for two packets at least.
- `ChannelAssumption`: the raw readings at the two ends of a sensor differ by 500
  at least, so that `sensor_get()` never divides by zero; a dead zone is off or
  not smaller than the noise, as sensor_axis.c asserts when it is built (line
  730). `Calibration` is about how a travel becomes smaller than 500.
- `CalibrationAssumption`: the divisor is a multiple of four, as the code's 1000 is
  (half of it is what rounds to one).
- `Amt21Assumption`: a turn has at most as many positions as a turn counter has
  values (14 bits each), and the angles are within the counter.
- `JyAssumption`: a register is read by one transfer of a fetch, and the fields of a
  channel by the same one, as the tables of jy901b.c are.
- `LightsAssumption`: no pin is used twice, texts are finite, and the map of a device
  has a free entry at its end, as the board files make sure.
- `HallRpmAssumption`: the sampling interval is shorter than the cycle counter's.

Two theorems have a hypothesis of their own. `NoThrottleWhileLatchedHolds` has
`MIN = 0`: the thresholds compare the value, not its distance from the
minimum (accel.c:133, 138), and with another minimum the device's 5 % and 25 %
are of the wrong range. `UnusableOnlyByHandHolds` has that the travels of the
devicetree are usable, since those are the ones a sensor starts with.

### Arguments

Each property follows from an inductive invariant, which is proved action by
action. In the order of the proofs:

- **Err, the list.** `IInv == TypeOK /\ Places /\ InitFirst /\ RankBound /\ ListLinked`.
  `ListLinked` says that `first`, `next` and `prev` agree, that the list is the
  set of enabled set errors, and that ranks (when an error was last inserted)
  fall along it, which makes it acyclic. It needs `RankBound` (a new rank is
  greater than all), `InitFirst` (`init()` runs before anyone reports, so an error
  it inserts is not yet in the list) and `Places` (who can be where in the code).
  The heart of it are two lemmas on `TAILQ_INSERT_HEAD` and `TAILQ_REMOVE`.
- **Err, the callbacks.** The walk may stand on an error that has been removed, and
  go on from its stale `next`. `RankOrder` says why it misses nobody: from any
  error that was ever in the list, `next` leads past no member that is older.
  So the walk is still to come to every member of a smaller rank (`WillWalk`), and
  each state that a callback must hear was told, will be by the walk, or will be
  by the reporter that made it (`ToldByReporter`, `ToldByWalk`). Without overlaps
  everyone who tells tells the present state (`Fresh`).
- **Aggregation.** `TypeOK /\ NoLostUpdate` is inductive: the marks are cleared
  in the step that decides to publish, and until the copy is made the work is at
  `"publish"`; an update between the two marks again. For the timing, `OnTime`
  says that no timer expires under the work, `Young` what will publish the oldest
  update and how much of its time is left, `Apart` what the early timer knows of
  the last publication. One doubled run is enough to shorten the distance,
  hence `clean = 2` (two runs that were not) in the property.
- **Cmd.** The semaphore counts the committed packets, aside from those whose
  caller is about to give it and the one the thread has taken it for
  (`SemCountsPackets`, by cardinalities). So a thread that claims knows that some
  packet is committed; if the first is not, its caller was overtaken. The
  refinement needs that an invocation is in at most one of the buffer, the
  refused and the executed (`NewInvocation`); its steps are `Invoke`, `Execute`
  or stutters of `CmdQueue`.
- **Message logging.** The invariant follows the order of packets: the stop of a
  session is behind the session's messages, but for those published between
  the two steps of a stop; a channel that was not restarted over a pending stop
  has at most one of them (`Stops`, `Files`, `Messages`). Operators exclude each
  other by the mutex (`Places`), although the work unlocks it without owning it.
- **Sensor-axis.** The value is a weighted mean with rounded divisions and stays in
  the range because each sensor's is clamped to it. The sums are recursive
  functions; what is needed of them is proved over the index, with the least
  index at which it would fail. `Lasting` compares the accumulated time, which
  counts a period per failing sensor, with the time that counts each once.
- **Accel.** The history variable `latched` is covered by the code's state:
  while it is on, `plausFailed` is; a failure and an initial pedal exclude each
  other; a failure whose report was not refused, or an error, means that the last
  report was zero. For the other two theorems the queue is what the device has
  yet to hear: the last event of a pedal in it tells how its stream stands, and
  with none in it the device's state does (`Heard`).
- **Canopen, heartbeats.** Before the registration the loop has set the error of
  every slot it has passed (`LoopSetsErrors`); after it only CANopenNode's thread
  reports these errors, one for each node.
- **Canopen, status bits.** After the walk began, a bit is the error's flag, or
  a context is telling the difference or the walk has still to come to it
  (`Following`); contexts tell the present state, unless it changed meanwhile.
- **Canopen, bus error.** When it is not what the status bits say, there is an
  emergency on its way that will have them counted (`OnItsWay`): in the queue,
  being stored, waiting for the work, or counted.
- **Clocks.** While a time message is dealt with the system clock is at it, and
  `gmtime()`'s result too once it was converted (`Setting`).
- **Wheel speed.** The timer expires before the counter comes round (`Timed`), so
  that the difference modulo its width is the time.
- **phy_generic.** Each step takes one read from one stage to another, and one block
  with it or from it, so that the counts of the pools and of the stages change
  together (`CountReads`). As long as no more reads are under way than there are
  entries, a completion finds one, and none is dropped (`PhyInv`).
- **Work contexts.** Which requests hold a context that is theirs alone (`Given`,
  `Args`, `Once`).
- **Encoder.** Without late bytes, all that is around is the answer to the command
  at hand, and no more than its two bytes (`Around`, `Answers`).
- **IMU.** An undisturbed fetch finds what it stored (`Stored`); where no other has
  ever written, the fields of a transfer are of one sample (`Alone`).
- **Dashboard.** The registers are the outputs unless a transfer failed
  (`Transmitted`); each entry of a device's map that a call has passed agrees
  with the outputs (`Agrees`), and a call that failed leaves one that does not, so
  its repetition cannot succeed without a transfer. What `gpio_map` and the digits
  of a text come to are recursive functions: that they hold each LED once, and
  what the text looks like, is shown over the place the loop has come to
  (`GpioMapIs`, `ParsedShows`).
- **Telemetry.** The entries of the dictionary are the last copy of the group,
  but for those the publication under way has still to come to (`Entries`).
- **System.** Each thread that ends the run has still to call the unmount of
  everything that is mounted and has not refused (`StillToUnmount`), so the first
  that has nothing left finds nothing mounted. For `fs_mkdir_p()`: the
  parent of the part that a maker has come to is there (`HasParent`), since
  nobody removes a directory; and while the disk refused it nothing and no other
  maker overtook it (`Undisturbed`), what it found missing still is
  (`OnItsWay`), so that its `fs_mkdir()` succeeds.
- **Calibration.** A command that is alone on a sensor has given it, and then its
  records, what it should have at each place of its loop that it has passed
  (`Alone`, `Done`); a sensor that nobody works on keeps both, or will have them
  once its records are loaded (`Keeping`). `CenterKeepsUsable` is the arithmetic
  of moving the center with C's rounding.

Proving has changed properties: `SeparatedUnlessDoubled` and `PublishedInTime` are
stated with what the timers really guarantee, and `FetchedTogether` excepts a
passed end of a turn only for encoders that count turns.

### Only model-checked

Liveness (`WalkEnds`, `EventuallyPublished`, `EventuallyExecuted`, `Arrives`,
`GoesDown`): fairness and ENABLED are beyond the prover here. Every other property
that a run checks is a theorem.

## 5. Findings and observations

`findings` in PROJECT.json quotes the lines. `cmd_null_packet` has a
counterexample; the others are named by the run whose property has to except
them, and TLC refutes the property without its exception, or they were read off
the code while modelling it.

1. Aggregation: lost wake-up (aggregation.c:45, exception `raced`), and a doubled
   work that breaks the minimum separation (aggregation.c:55, exception `clean`).
   The first leaves values behind at both ends of telemetry (`LeftBehind`).
2. Commands: NULL packet after an overtaken commit (cmd.c:138); NULL handler for
   `CMD_NO_HANDLER` (cmd.c:141, place `"null handler"` of the thread).
3. Logging: a mutex unlocked by a thread that does not own it (logging.c:320);
   the model's `owner` then stays for ever.
4. Sensor-axis: the time tolerance counts once per failing sensor
   (sensor_axis.c:416).
5. CANopen: warnings count as bus errors but do not trigger the count
   (emcy.c:124).
6. Errors: dispatched newest first at boot, unlike documented (err.c:74): the
   model's list is ordered that way (`ListLinked`).
7. Telemetry: frames of two copies of a group (canopen.c:46, exception `crossed`).
8. System: `sys_shutdown()` has no fallback timer (sys.c:67); `fs_mkdir_p()` fails
   when another thread makes the directory first (fs.c:76, exception `overtaken`).
9. Clocks: the shared result of `gmtime()` (rtc.c:41, exception `crossed`).
10. Wheel speed: a reading of about zero when the counter overflows
    (hall_rpm.c:66), pulses lost when the count is zeroed (hall_rpm.c:72).
11. Encoder: late answers are taken for the next (amt21.c:64, exception `late`);
    turns and position are two reads, between which the shaft can pass the end
    of a turn (exception `passed`).
12. Dashboard: pins of the green and blue LEDs (led_strip_gpio.c:209), a failed
    initialization taken for done (gpio_74hc595.c:179), and a write that is taken
    for done after a failed one (gpio_74hc595.c:65, exception `stale`).
13. IMU: -16 g is not inverted (jy901b.c:120).
14. phy_generic: a driver that fails after it has taken a block keeps it
    (phy_generic.c:124, exception `gaveUp`); when more reads are under way than
    the RTIO context has entries for completions, one is dropped with its block,
    and its read is never answered (phy_generic.c:100, exception `overrun`).

Not contradicted by a document, but worth knowing:

- Logging: the overwriting buffer may drop a stop (logging.c:222), so the file
  stays open; a packet can wait for the next message (logging.c:190, 268);
  messages published while a stop is in progress, or after a start that overtook
  it, meet a closed or another file.
- Accel: a refused report of zero throttle is repeated only at the next event
  (accel.c:70); after a plausibility failure the code of an earlier error can be
  kept (accel.c:89).
- Sensor-axis: the clearance of a channel error carries the code of no error
  (sensor_axis.c:448); a change of error is not reported (sensor_axis.c:291).
- Calibration: two commands for one sensor mix their bounds or their records
  (exception `disturbed` of `CalibrationKept`), as does a reset between two
  records.
- CANopen: emergencies are dropped while one is pending (emcy.c:63), stored by
  two contexts into one slot (emcy.c:79); a node that was operational before the
  registration stays in error (hb_consumer.c:108).
- Errors: `err_report()` calls callbacks after the unlock, so two contexts that
  report one error can tell its states in the wrong order (err.c:88).
- Telemetry: an update before `init()` has linked its data is published only with
  the next (telemetry.c:130, exception `unheard`).
- Work contexts: a context is given twice when two callers overlap before the
  first has submitted (util.c:13, exception `shared`).
- LED strip: `gpio_map` has no free entry to end it when every LED is on a port
  of its own; `LightsAssumption` excludes that, as the board files do.

## 6. What is not modelled

- Message printing (`msg.c`), the shells that only print, the USB console's
  initialization, board files, bindings and build files: no state that another
  step can find wrong, or pure I/O.
- The conversions of raw readings (analog-generic, p51-curr, zx, and those of
  jy901b) and the filter of hall-rpm: arithmetic on 64 bits without branches.
- Of sensor-axis: the raw-value callback and the export of the calibration. Of
  CANopen: the initial values of the dictionary and its storage. Of the dashboard:
  brightness, toggling and reading of ports.
- Zephyr and CANopenNode: external, modelled as the code uses them (packet
  buffer, work queue, timers, mutex, input queue, RTIO, PDOs, `CO_error`).
  CANopenNode's emergency FIFO is not bounded in the model.
- Names of log files, formatting and log messages are left out everywhere.

## 7. Plan

Every safety property of a run is a theorem. What is left:

1. The parts of `TypeOK` that the proofs of `ServicesProofs` and `DriversProofs` did
   not need, as theorems of their own.
2. More of what is only partly modelled: the raw-value callback of sensor-axis,
   storage of the dictionary.
