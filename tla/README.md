# Verification of the heating-rod controller

TLA+ models, TLC runs and TLAPS proofs for `heatingrod-controller`: a daemon that
puts surplus solar power into a heating rod (a DAC channel drives its power
regulator), sets the temperature of an oil boiler on the second channel, can
block the boiler's burner through a relay, and talks to Home Assistant (HA) over
the ESPHome protocol.  Source paths below are relative to `src/`;
`PROJECT.json` maps every definition to its lines.

## 1. Inventory

| Component | Source | State | Operations |
|---|---|---|---|
| Controller thread | `controller.rs`, `main.rs:758-1183` | output (CH0 voltage, `heating_active`, target), latches (`internal_cutoff`, its timer, `grid_heating`), feedback filter and settle timer, a running sweep | watchdog pass (10 s), DS100 feed (100 ms), calibration sweep (minutes, blocks the thread), commands, stop |
| Power curve | `calibration.rs` | points, age, deviation history, a JSON file | load, save, interpolate both ways, refine, replace |
| DAC driver | `hardware/dac.rs`, `tools/dac-safe` | cached voltages, `initialized`; the chip | set_voltage, reinitialize, initialize, shutdown; the failsafe after the process |
| Climate, CH1, state file | `main.rs:632-740, 783-850`, `bridge.rs`, `state.rs` | CH1, the climate entity, `state.json`, the wish for the relay | HEAT, OFF, restore, echo |
| Kaskade client | `clients.rs:250-571` | relay key, last sent command, actual state | list, subscribe, send the wish, check every 10 s |
| Client sessions | `clients.rs:1-246, 630-797`, `main.rs:1185-1258` | timers of a session, backoff, cached address | connect, ping, watchdog, reconnect |
| DS100 meter | `hardware/ds100.rs`, `main.rs:255-336` | port, rate, last power | search for the rate, switch it, poll |
| API server | `esphome-api-server/src` | registry, subscribers, channels of each connection | update and broadcast, serve a connection, forward logs |
| SOREL CAN bus | `hardware/canbus.rs`, `main.rs:397-611, 1089-1102` | relay states, limiter windows, what HA wants of it | decode, limit the pump's duty cycle, repeat the off frames |
| SLCAN line | `hardware/slcan.rs` | port, the line being read | open, read and write frames |
| 1-Wire bus | `hardware/onewire.rs`, `main.rs:339-393` | temperatures, their time stamps, error counters | scan, read with retries, filter, back off, publish |
| Configuration, logging, entities, keys | `config.rs`, `logging.rs`, `entities.rs`, `keys.rs` | - | parse, format |

**Interactions.** Every sensor thread writes a mutex-protected slot with a time
stamp; the controller thread reads the slots and judges their age.  The DS100
slot is read by a second, faster path, the feedback loop.  HA commands travel
from a connection task over an async channel and a forwarder into a queue the
controller thread drains, also from within a sweep's sleep.  The wish for the
burner relay is a slot with a sequence number, read by the kaskade task.  All
pushes to HA go through the bridge's lock into the registry and from there into
one bounded channel per connection.  systemd restarts the process and runs
`dac-safe` when it is gone.

**What is hard about it.** Two loops of different speed share output and timers;
a sweep takes the thread away from its watchdog for up to half a minute a step;
an output is an I2C chip that outlives the process and whose driver retries by
calling itself; a setpoint is kept in four places; sessions with weak Wi-Fi
devices die in every possible way; bounded channels drop or overwrite; buses lose half of a line or of an answer.  The
hazards are listed in `PROJECT.json`, each with the properties that cover it
or the reason why none does.

**What makes the components correct.** Controller: the rod is driven only in a
period that was started for a documented reason and every way out leads through
0 V; a latched cutoff excludes heat; a dead meter, a stop and an open limiter
end it.  DAC: no error path asks CH1 for 0 V (that blocks the boiler) or CH0 for
more than the controller asked.  Boiler: all copies of the setpoint agree and
the relay follows.  Curve: monotone, its two lookups inverse, and as long as it has
power well above the rod's dead band not lost to a bad measurement.  Sessions and meter: they come back by themselves, in bounded time.
API: no subscriber is forgotten, no request silently skipped.  Buses: a sensor
that works is read again within a pause and two cycles, whatever the others do, one
that recovers is used again, a pump is neither on for longer than its allowance nor forced off without
having used it, and no frame is put together from two.

## 2. Modules

| Module | Models | Checked by | Proved in |
|---|---|---|---|
| `Controller` | controller thread and what the other threads, HA and the plant can do to it | `MCController` | `ControllerProofs` |
| `SafeHeater` | the abstract promise of CH0, implemented by `Controller` (`Heater`, `SafeOutput`) | `MCController_sweep` | `ControllerProofs` |
| `Dac` | driver, I2C bus, chip, process, `dac-safe` | itself | `DacProofs` |
| `Boiler` | climate, CH1, `state.json`, kaskade session and relay | itself | `BoilerProofs` |
| `Calibration` | the learned curve and its file | `MCCalibration` | `CalibrationProofs` |
| `Ds100` | meter, serial port, the thread | `MCBuses` | `BusesProofs` |
| `OneWire` | sensors, poller, the thread and what it publishes | `MCBuses` | `BusesProofs` |
| `Canbus` | the thread of the CAN bus with its limiter, and the SOREL | `MCBuses` | `CanbusProofs`, `BusesProofs` |
| `Slcan` | the serial line below it | `MCBuses` | `BusesProofs` |
| `Session` | life of a client session, its timers and backoffs | `MCSession` | `SessionProofs` |
| `ApiHub` | registry, hub, a connection's channels and task | `MCApiHub` | `ApiHubProofs` |

Variables carry the names of the fields they stand for where TLA+ allows it, and
each action is one handler or one step between two points where others can
interfere: a lock released, an await, a bus transfer, a sleep.

### Controller
The early returns of `control_loop` are the disjuncts of `WatchdogPass`, in the
code's order: `HeedVeto` (switch, tank, lost meter), `LatchCutoff`,
`StayLocked`, `Regulate`.  `OnDs100Power` is the feedback of one sample.  A
sweep is `SweepStep` (set a voltage), `SweepMeasure` (after the sleep),
`SweepEnds` and `SweepStopped`, with the breaks of `run_calibration` as their
guards.  Commands arrive between passes and, as in the code, inside the sleep of
a sweep step.

Abstractions: a time stamp is kept as its age, saturating where no guard can
tell; the unit of time is coarser than the 100 ms loop, so time passes only when
nothing is due.  `Curve` is a constant (how it is learned is `Calibration`); the
EWMA moves to the sample or stays (`Smoothed`), and never reaches 0 W from above;
a voltage of a sweep is rounded down to a DAC step; the start voltage may be
the curve's or the linear estimate.  The missing grid reading and the stale one
are one branch.  Energy and overdraw counters decide nothing and are left out.
`run_max_calibration` has no caller and is not modelled.

### Dac
The driver's functions call each other (a write reinitializes, which initializes,
which shuts down, which may reinitialize), so the model keeps the call stack;
every transfer is a step that may fail while the bus is "flaky".  The process may
crash at every one, `dac-safe` follows, systemd restarts.

### Boiler
One climate command is four steps (CH1, save, wish, echo) because the process can
die, a save fail or a session look at the wish in between.  The kaskade session is
two queues, the 200 ms poll, the 10 s consistency check and the messages the
code reacts to.  The relay is also switched by others, the DAC driver may put
CH1 to its safe voltage by itself (`FallBack`).

### Calibration
Points are integers of a coarse unit; what the lookups divide is an exact
fraction, what `update` stores is rounded.  Where the code keeps a stack of blocks
[watt sum, weight, members], the model keeps the set of the numbers at which a
block ends, and takes the sums from the curve (`Total`, `Weight`): `AddBlock` drops
the ends behind the last block that stays, which is what popping until
the comparison breaks comes to.  A sweep brings home the readings of any of its
steps, because a step without a reading is skipped and many things end it early.
A save may leave the old file, a crash within one an unreadable
one (`FileLost`).  Two things are assumed of the rod: it draws nothing worth
mentioning in its dead band (`DeadBandAssumption`; the code relies on it when it
refuses readings of 0 W), and nothing at all without a voltage (`RodAssumption`;
a curve with power at 0 V has no voltage for less).

### Ds100
Meter and adapter fail at every step of search and switch; a write may take effect
although its answer is lost.  The contents of answers, their CRC (which the code
does not check), unit and decoding are left out.

### OneWire
The unit of time is one conversion, because that is what a cycle is made of: a
sensor that answers takes one to `CrcRetries`, one that does not takes all of
them, and a sensor in back-off takes none.  A time stamp is the start of the
cycle that read the value and is kept as its age.  `used` is what `OwShared`
holds for the controller, `shown` what was pushed to HA, `measured` (history)
what was last accepted.  `Good` sensors always answer with a temperature; all
others come, go, fail, answer with the power-on default or nonsense, until
`steady`.  The reconnect loop is left only at the end of the process, because
nothing disconnects the poller.  The key of an automatically registered sensor
and all texts are left out.

### Canbus
A frame is one step: decoding (of which only the report of the monitored relay
matters), the settings HA chose, `tick`.  Between two frames nothing runs, which
is why the limiter's windows can end late.  `limit` is the slot the controller
thread writes.  The SOREL is the environment: a `tame` one obeys and reports its
relay in every unit of time and after every change, any other says what it likes.
The history variables say how long the pump really was on (`run`), since when an
enabled limiter could see it (`watched`) and which window an off frame belongs to.

### Slcan
The line is a sequence of bytes, each marked with the frame it belongs to, so
that a line put together from two frames can be told from one that was sent.  A
frame is four bytes (letter, two digits, end of line).  A timeout drops what was
read of a line, an opening reads one byte per command whatever it is, a refusal
is a byte without an end of line.  `spoiled` (history) says that the line being
read lost or gained something.

### MCBuses
The three threads (the serial line is the lower half of the CAN thread, checked
on its own) share nothing but the bridge's lock, so one module holds all four
and a behaviour lets one of them live (`which`), as `MCSession` does with the two
sessions: the states add up instead of multiplying, and one run checks all four.
`MCBuses` extends `Ds100`, `OneWire` and `Canbus`, whose names are distinct for
that reason, and takes `Slcan` as an instance.  That the whole is a behaviour of
each of its parts is a theorem (`EachBusIsItself`).

### Session
A tick is 10 s.  A behaviour is the life of one of the two tasks, so that both
backoffs are checked in one run.  The ESP is well, deaf (pushes, reads nothing),
mute or down; whoever was down has forgotten the connection.  A connect
that was begun while the ESP was not well may still time out when it is.  A session may block
in `tx.send`, and then none of its timers is looked at.  `TimerFires` is the watchdog
and the pong deadline in one action, because with the code's times the deadline
never comes (section 7).

### ApiHub
A value is written into the registry and then broadcast, and a subscription may
fall in between.  A subscriber is entered, then the snapshot is taken, then its
frames are sent one by one while pushes go into the same channel.  Of the hub's
lists the model keeps how many entries a connection has in each, because nothing
depends on their order.  The incoming ring overwrites its oldest message, which
`recv` reports as an error.  `Repushed` are the entities that every full push
holds.  That push comes at the end of a watchdog pass, and passes that find no
fresh grid power or a calibration end before it (`main.rs:1065-1087`): `paused` says
that they do, `Pause` that it begins or ends, at any time.

## 3. Runs

A *pass* run finishes without an error; a *violation* run checks one thing a
document or comment of the repository says, and finds the code doing otherwise.

**MCController_sweep** (pass).  Calibration mode with everything that can go
wrong in it: heating, sweeps, a grid meter that dies and recovers, a thermal
limiter that opens and closes, a rod temperature that releases a cutoff, a stop
signal at any point.  0 V whenever the controller is idle, no heating under a
latched cutoff, a target behind every heating period, no grid reading older than
the limit plus one check period, the refinement of `SafeHeater`; stop and
open limiter end heating, and a sweep ends.  Bounds: three voltages
besides 0 (dead band, partial, full), two steps per sweep (a first step, and one
that can be aborted with a result in hand), one unit of time (10 s) per step and
per age limit, two for the cutoff, so that it can be interrupted halfway.  Two
grid values suffice: more than a sweep needs, and a draw above the stop threshold.

**MCController_step** (pass).  Step mode: the voltage ramp, PV and grid heating,
the manual switch, the tank limit with its hysteresis band (50, 61, 85 degrees
around a setpoint of 60), and an export between the two thresholds: heating starts at
an export of 800 W and goes on up to a draw of 600 W, so that at an export of 700 W what
was decided before counts, while a draw of 700 W stops it.  A change of voltage is
followed by the settle time; a pass leaves the rod heating only for one of the
documented reasons.

**MCController_points** (violation, section 7).

**Dac_bus** (pass).  The bus works, fails or does both in turn, the process may
crash at every transfer and is restarted.  No error path asks the chip for 0 V
on CH1 or for a voltage on CH0 the controller did not want; nested retries end
once the bus is steady; `dac-safe` puts the rod of a dead process to 0 V.  Two
attempts instead of three are enough for "first" and "last"; a call depth of four
reaches a reinitialization within a reinitialization and from there on the
bus is steady.  `Safe` and 0 are the two CH1 values that matter, a third
volt tells "commanded" from both.

**Dac_stopped** (violation, section 7).

**Boiler_copies** (pass).  Two commands, queues of three messages: enough for a
command to overtake the echo, the save and the relay message of the one before,
with a crash, a failed save, a dropped session or a toggled relay at any point.
Between two commands CH1, climate entity, relay wish and `state.json` agree; when
nothing fails any more the relay ends where the controller wants it.  The
exceptions `CopiesAgree` makes (a failed save, CH1 after a fallback) are the
ones the code makes, and are written into the formula.

**Boiler_heat** (violation, section 7).

**Calibration_curve** (pass).  Every curve of at most three writes by sweeps and
readings (of 0 V too), with a unit of 0.5 V and 500 W, lost and reloaded at any
point.  The rod is dead up to 2 V; the feedback loop reads there too (0 W at 0 V and
at 2 V), and at 2.5 V, near enough (0.05 V in the code) for the 0 W of 2 V to be blended into that
point until it has no power left, and far above.  Three writes reach a sweep, a refinement and a deviation that asks for a new
sweep, and curves of up to six points, which pooling merges across several
blocks.  The result of pooling is compared with the min-max definition of
isotonic regression; the two lookups are inverse where the curve rises; more
power never asks for less voltage; a curve with power out of reach of the dead band
is never learned away (one without can be, see section 6).

**Buses** (pass).
*DS100*: all four rates of the meter, any start rate, any request or answer lost,
any open failing, the adapter unplugged at any step, until `calm`.  The port of a
session is at the meter's rate; afterwards the power comes back, at the target rate.
*1-Wire*: a sensor that always answers beside one that does anything, two
attempts at a reading, two errors before back-off, every second cycle after it
(the code: three, five, thirty); three temperatures around a threshold of two
steps, so that a drift can stay below it twice, the power-on default and a value
out of range.  The values the controller uses and HA shows are the same and
within the threshold of what was measured; the good sensor is never older than
one pause and two of the longest cycles (tight: one unit less is violated); the
other is used again, and stays, once it answers.
*CAN*: allowances of two and three, changed at any time, a window of four, off
frames every two units, so that a window needs more than one frame and the SOREL
can switch back on between them and after the last.  The pump of a tame SOREL runs
at most its allowance, one frame interval and one report while it is watched
(tight: one unit less is violated); off frames belong to a window and a window to
a full allowance.
*SLCAN*: two frames, seven bytes on the line (one whole frame and most of another,
or a frame and two answers), a line given up after five.  What the reader returns
was sent as it is, and the first line that was not hit itself is returned.

**Session_life** (pass).  The real times of the code in ticks of 10 s.  The
powerlogger is back within 44 ticks of its ESP being well, the kaskade within 20,
the smallest bounds `BoundAssumption` admits (end of the old session, longest
pause, SYN retry, handshake); that they are the smallest that hold is not claimed.  `Capacity` is 7 frames instead of the
hundreds a channel and two socket buffers hold: more than the pings a silent ESP
can collect before the watchdog ends the session (`CapacityAssumption`), so a
send blocks only towards an ESP that pushes but does not read, as in the code.
`TriesMax` = 7 reaches the cap of the factor.

**Session_deaf** (violation, section 7).

**ApiHub_push** (pass).  One connection with a channel of two and a ring of one
message, both smaller than any burst; two changes, one log line, three requests
(two subscriptions and one more, so that a subscription is entered twice and the
ring overflows).  Connections meet only in the hub's lists, where each is
entered and removed under a lock, so one connection against an arbitrary server
sees every order; two are out of TLC's reach.  A connected subscriber is never
dropped, an overrun request closes the connection rather than being skipped
silently, and what a full channel drops is shown with the next push once the grid
power stays fresh and no calibration runs.  Nobody is entered twice, and whoever is
gone leaves no entry, among the subscribers of states and of log lines.

`CHECK_DEADLOCK FALSE` stands in the three cfgs of the controller, because its
thread ends.

## 4. Fairness

| Module | Assumed | Why the code justifies it |
|---|---|---|
| `Controller` | time passes, what is due is run | one thread in one loop, its blocking calls are bounded; nothing is assumed of sensors, HA or signals |
| `Dac` | the thread goes on inside the driver, a start is completed, a dead process is followed by `dac-safe` and a restart | a blocking I2C transfer ends with success or an error; the unit files (`ExecStopPost`, `Restart`) |
| `Boiler` | the thread, restart, the ESP, each of the session's branches | `select!` polls its branches in random order, the timers are intervals; the ESP is assumed to handle what it receives |
| `Ds100` | the thread goes on | reads have a timeout |
| `OneWire` | the thread goes on | a read of `w1_slave` ends with a value or an error; nothing is assumed of the sensors but that, in the property, they work at last |
| `Canbus`, `Slcan` | nothing | their properties are safety properties |
| `Session` (`FairSpec`) | time, the task, and the timers that end a session | the runtime, and `select!` as above; `Session_life` needs none, "in time" is a safety property there |
| `ApiHub` | the 30 s push if it is paused only finitely often, every task, a waiting send, a client that stays reads | the controller loop, the runtime; tokio's bounded channel hands free slots to waiting senders in order (hence SF on `SendFrame`).  The push is SF because other pushes hold the same lock in between, and conditional because a pass without fresh grid power, or in a calibration, goes on to the next before it comes to the push (`main.rs:1065-1075, 1085`): while the meter is gone, what was missed stays missed |

## 5. Proofs

All are checked by TLAPS for every value of the constants that satisfies the
named assumptions of the module (`VoltageAssumption`, `PowerAssumption`, ...).
They say what the configuration's types and its validation say: ranges are
naturals, durations of periods are positive, a minimum sweep voltage is at least
one step, `MinTarget` is at least 1 W.  A few say more, and are used where they are
named: `CapacityAssumption` and `AnswerAssumption` (`Session`) relate the periods
the code has as constants, the last two lines of `CanbusAssumption` the interval
of the off frames to the allowances, and `Safe # 0` is a hypothesis of one theorem
(below).  TLC evaluates all of them in the runs.

Each module of proofs has one inductive invariant (`Inv` or `IInv`), a lemma
that the initial states satisfy it, one that every step preserves it, with a case
per action, and the theorems that follow.

**ControllerProofs.**  The invariants are not inductive by themselves.  The
strengthening is

    Inv == TypeOK /\ IdleMeansZero /\ CutoffLocksOut /\ HeatingHasTarget
             /\ SettledMeansOld /\ PhaseOK /\ GridAgeOK

- `PhaseOK` says what the flags can be where the thread is: no sweep under a
  latched cutoff, a step being measured within the steps of the sweep, no heating
  after the end.  Without it a sweep's end could be a state from which heating
  goes on under a cutoff, or after the thread.
- `GridAgeOK` relates the age of the grid reading to the time since the last
  watchdog pass, or since the sweep step began: the pass accepted a reading of at
  most `SensorMaxAge`, and as long as the thread is asleep both grow together.
  `StaleGridBound` follows, with the check period or the step on top.

The proof that a step preserves `Inv` has one step per action, the early returns
of `control_loop` each being one.  From `Inv` follow `TypeCorrect`,
`OutputIsConsistent`, `GridNeverTooOld` and `SettleTimeIsKept`;
the action property `HeatingIsPermitted` (a pass leaves the rod heating only for
a documented reason) and the refinement `ImplementsSafeHeater`, whose proof gives
for every step the step of `SafeHeater` it is, or a stutter.

**BusesProofs.**  First each bus for itself.  *DS100*: `PollsRight`, for every list
of rates, a session is at the meter's rate whatever was lost.  The strengthening
`SwitchOK` says that throughout a probe and a switch the port is at the rate being
tried; a poll is reached only from there, after an answer at that rate.

*1-Wire*: `OneTemperature` and `GoodSensorIsRead`, for every number of
sensors, retries and pause.  A good sensor's value ages through the stages of
the thread, and so does its limit: a cycle after it was published, a cycle and a
pause before the next reading, two cycles and a pause at the next publication
(`GoodInTime`).  What makes this inductive is that nothing a bad sensor does can
take a good one out of a cycle (`GoodIsRead`); that a cycle takes no longer than
the retries of all sensors is a lemma about cardinalities (`DurationBound`).

*Serial line*: `ReaderComesBack`, for every set of frames and every length of a
line that takes one (`SlcanAssumption`).  The invariant is about the bytes that
are not dealt with yet, those of the line being read and those on the wire
(`Stream`): they are rests of whole lines, of which only the first may lack its
beginning (`Whole`), and a line that is not spoiled is read from its start
(`FromTheStart`).  Each arrival appends a whole line (`WholeConcat`), each loss
takes a prefix away (`WholeDrop`).  A letter is thus always followed by the rest of
its own frame, so that two frames cannot be put together (`ParsedIsSent`), and a
line that is whole cannot be taken for anything else (`CleanIsReturned`).

Then together: `EachBusIsItself` shows that the composition `TLC` checks is a
behaviour of each component, so that every theorem about one of them, those of
`CanbusProofs` too, holds of it; with it follow `BusesTypeCorrect` and
`ReaderComesBackAmongBuses`, the properties of the run.

**CanbusProofs.**  `PumpIsLimited` and `EveryFrameIsEarned`, for every set of
allowances, window and frame interval.  The limiter knows three times: how long
it has seen the pump on, what is left of the window, when it last sent a frame.
The invariant relates them to those of an observer.  `WindowOpen` and
`WindowShut` say when the last window began; `CountsThePump` that the limiter's
count is no longer than the pump's; `PumpInSight` how far the pump can be
ahead of it: not at all within a window but for the time since the last frame, a
frame interval after one, and from then on that interval and one report.

**DacProofs.**  `OnlyACommandBlocks` (no error path puts CH1 to 0 V) and
`RodFollowsTheController`, for nested calls of any depth and any number of
attempts.  The invariant is about the whole call stack: each pending
`set_voltage` carries the voltage that was asked for last (`CallsAsAsked`), so a
retry cannot bring back an old one.  Both theorems follow from a relation every
step satisfies (`Driven`): a channel keeps its voltage, gets what was asked, or
its fallback.  The first one needs `Safe # 0`, which the configuration does not
ensure (section 7).

**BoilerProofs.**  `OneSetpoint`: the copies of the setpoint agree between two
commands, for any number of commands and queues of any length.  `CopiesSoFar` says
for each stage of a command, and of a start after a crash at any of them, which
copies already follow CH1.

**SessionProofs.**  `LiveSessionsAreKept`: no timer ends the session of an ESP
that answers in time.  As time passes only while nothing is due, both timers
can be told from how long an answer has been owed (`AtRest`, `Owing`), and so can
the number of pings in the queue; the timers then run out only after the limit
`AnswerAssumption` puts on the answer.  `StableSessionsResetTheBackoff` rests on a
lemma on the pauses (`Pauses`), as does `RecoveryInTime`: an ESP that is well has
its session again within `Bound`, whatever happened before, for all periods.  Its
argument is a measure.  `TimeLeft` says for every place the task can be in how long
it takes at most from there until a session that no timer will end (`Safe`); it
grows with no step of the task while the ESP is well, and every tick makes it less.
The invariant `RInv` keeps the time the ESP has been well and `TimeLeft` together
below `Bound`, for which `Punctual` says that what is owed is within its limit.

**ApiHubProofs.**  `RequestsWithoutAGap`: a connection handles its requests
one after the other or not at all.  The ring holds the last messages sent
(`LastSent`), and as long as no lag was reported, exactly those not handled yet
(`Unhandled`).  `ConnectedIsHeard` (a subscribed client has exactly one entry in
the hub as long as it is connected) and `TypeCorrect` need what the rest of the
state holds: `HInv` adds to that invariant the contents of registry, channels and
bursts, the bounds of channel and ring, and that an entry goes with its handler
(`Heard`).

**CalibrationProofs.**  Five theorems, for every range of voltages, every noise of
the rod and curves of any length: `TypeCorrect`, `PoolingIsRegression`,
`LookupsAgree`, `VoltageFollowsPower` and `LastingCurveKept`.  The argument is geometric.  The sums of
counts and of watts up to a point are a path in the plane, and the level of a block
is the slope of the chord between its ends.  The invariant of the pooling (`IsEnds`)
is that the whole path, as far as it has been read, lies on or above the line through the
chord of every block; `AddBlockKeeps` shows it of the merge, by cases on whether a
block was there before (`KeptBlock`) or is the new one (`BeforeNewBlock`,
`WithinNewBlock`).  From it follow that the levels rise (`LevelsRise`), that each is
a fraction with a positive denominator, and the min-max definition of isotonic
regression (`PoolingComputesIt`).  The second half is about any curve that rises
(`IsPooled`): the line between two points rises with the power and stays between
them (`BetweenPoints`, `BetweenRises`), the three cases of a lookup meet where they
touch (`VoltageRises`), and what is chosen for a power is expected to give it
(`PowerOfVoltage`).  The third says that a curve stays one whatever is learned:
inserting a point keeps the order (`SortedKeeps`), blending one keeps its voltage
(`BlendedKeeps`), a sweep brings home rising voltages (`SweepKeeps`).  The invariant `IInv` is
`TypeOK` and that no point without voltage has watts (`Dead`): without that the
lowest point could stand for power at 0 V, and the line below the range would give
every power less than that 0 V.  `LastingCurveKept` follows one point with power that
no voltage of the dead band is near to (`Lasting`): inserting another leaves it
(`SortedLasts`), and what is blended into it was read above the dead band, where 0 W
are refused, so that two powers are blended, and give a power (`BlendIsPower`,
`BlendedLasts`, `RefinedLasts`).

Sums, blocks and their ends are recursive functions.  That they have the values
their definitions say, and every induction over the points, is derived from the
fact that a set of naturals has a least element (`Least`, `Induction`), which is a
statement about sets and so within the provers' reach.

## 6. Only model-checked

- Liveness, and everything that needs ENABLED: what must come back, end or be
  shown (`PowerComesBack`, `SickSensorComesBack`, `RelayFollowsDesired`,
  `CallsReturn`, `DeadProcessEndsAtZero`, `MissedUpdatesHeal`, ...).
- `Session` is proved for all periods, but the pauses are the numbers of the code:
  that the table is `5 s * min(1.8^tries, 60)` is checked by TLC
  (`DelaysAssumption`).

All other properties of the passing runs are theorems, safety invariants and action
properties alike.  What they do not promise is said in their formulas: `CurveNeverLost`,
for one, protects a curve with power out of reach of the dead band, and no
other.  A reading of 0 W at up to 2 V is accepted (`calibration.rs:321`) and blended into
a point within 0.05 V of it (`calibration.rs:343-346`), so a curve whose only power lies
that near to the dead band can be learned away.

## 7. Where code and documents disagree

Shown by a run:

| Run | What the code does | What is said of it |
|---|---|---|
| `MCController_points` | `run_calibration` takes the filter value whenever it is positive, but nothing feeds or resets the filter during a sweep: one begun while heating records one frozen value for every voltage | `controller.rs:641`, "EWMA smoothed power (accounts for the burst pattern)" |
| `Dac_stopped` | the bus dies while the rod is heating; the `set_voltage(0.0)` of the stop fails, the reinitialize after it fails (`dac.rs:241-246`), and the driver reports 0 V.  The controller believes the rod is off and does not ask again, so CH0 keeps its voltage when the bus is back, until some other call reinitializes the chip | `OPERATIONS.md:131`, CH0 goes to 0 V on every error |
| `Boiler_heat` | the echo of an OFF stores 0 as target temperature; the next HEAT without one sets CH1 to 0 V, which blocks the boiler | `bridge.rs:31`, the target "survives commands without target" |
| `Session_deaf` | a ping every 20 s moves the pong deadline of 90 s, so it never comes | `clients.rs:97-99`, a peer that stopped reading is noticed |

Noticed while modelling, followed by the models, without a run of their own: the
cutoff's timer is not cleared when the condition is interrupted by a stop; a
manual switch state expires with the age limit of its slot; the pause of the
powerlogger grows to 300 s, where the comment above it says 60 s, because the cap
applies to the factor; the start of a session, for the reset of the backoff, is
counted from before the connection is made; connect and handshake have no timeout;
a number or climate changed while a burst is sent is shown to a new
subscriber in its old state until its next change, because only sensors are
pushed again; `Lagged` closes a connection where the comment calls it harmless,
which is the safer of the two; "the missed update self-heals on the next push"
(`server.rs:275`) holds only if there is one, and none runs while the grid meter is
gone; a value pushed while a burst is sent may be followed by the older one of the
burst, where `server.rs:428` claims the opposite order; a 0 W reading at the edge of
the dead band is blended into a neighbouring point with power (section 6); a DS100 whose rate is changed from outside in a
session is not searched again until the process restarts.

`ch1_safe_celsius` has no default but 0 (`config.rs:105-117`) and is not validated,
where `hardware/traits.rs:25` speaks of a default of 6 V: left out of the
configuration, every fallback of CH1 would block the boiler, which is why
`OnlyACommandBlocks` assumes `Safe # 0`.

On the buses: a tank of exactly 85.0 degrees, which is also the default tank limit,
is dropped as the power-on default of a sensor and ages until it counts as
missing; when all other sensors fail, a cycle of twelve sensors takes up to 27 s
and the bound of `GoodSensorReadInTime` is just above the age limit of 60 s, until
the others are in back-off; an auto-registered sensor is unknown to clients that
listed the entities before.  The limiter is made anew with every reconnect of the
adapter and forgets for how long the pump was on; it runs only when a frame
arrives, so a silent bus neither begins nor ends a window; its HA helpers
(`sorel_limit_enable`, `sorel_limit_minutes`) are not among the subscribed entities
(`bridge.rs:202-215`), so their slots stay empty and the switch has no effect.  A
byte that is no ASCII in a line of the adapter makes `parse_frame_line` slice
within a character and panic, and with `panic = "abort"` that ends the daemon,
where `main.rs:593-595` speaks of parse failures that are only logged.  An opening
that meets an adapter which is still forwarding takes bytes of its frames for
answers, and so loses a frame, never more (`ReaderFindsBack`).

## 8. Not modelled, and why

Configuration, logging, key derivation and the entity tables are parsing and
formatting without state.  The vendored protocol crate is external: its frames
are messages here.  HA's own state store, the mocks and the tools besides
`dac-safe` are not part of the running system.  Of the SOREL bus, the decoding of
sensor values, statistics and heating-circuit messages (tables without state whose
values are only shown), the air-in-pipe detector (it only logs), the one-shot probe
(`probe_once`, a supervised test) and the USB reset (switched off in the source)
are left out.

## 9. Plan

1. `Controller` composed with `Dac` at the one call they share, so that "the
   controller believes 0 V" and "the chip gives 0 V" are related in one module.
2. Abstract specifications: one setpoint for `Boiler`, a last-value register for
   `ApiHub`, each implemented by the module there is.
3. Proofs: the actions the controller and the driver share, once they are composed.
