----------------------------- MODULE Controller -----------------------------
(***************************************************************************)
(* The controller thread of crates/heatingrod: the 100 ms loop of          *)
(* main.rs::run_controller_thread and the decision logic of controller.rs. *)
(*                                                                         *)
(* Other threads refresh shared sensor readings at any moment.  The        *)
(* controller thread drains commands, feeds the last DS100 sample to       *)
(* OnDs100Power and runs a watchdog pass when one is due; a calibration    *)
(* sweep runs inside that pass and blocks the thread for minutes.          *)
(*                                                                         *)
(* Time is counted in abstract units.  A timestamp of the code is kept as  *)
(* its age, which saturates where no guard tells older from old.           *)
(* Powers are watts; voltages are counted in steps of the DAC range.       *)
(***************************************************************************)
EXTENDS Integers, Sequences

CONSTANTS
  Mode,               \* control.mode: "calibration" or "step"
  MaxVoltage,         \* dac.max_voltage
  MaxPower,           \* control.max_power_watts
  Curve,              \* watts the rod draws at each voltage, the learned curve
  InitialVoltage,     \* control.step_initial_voltage
  RampStep,           \* control.step_ramp_rate * control.step_interval
  RampTarget,         \* control.step_ramp_target, in percent
  MaxVoltageStep,     \* control.max_voltage_step
  Tolerance,          \* control.feedback_tolerance_watts
  UseFactor,          \* control.power_use_factor, in percent
  PowerLimitStart,    \* control.power_limit_start
  PowerLimitStop,     \* control.power_limit_stop
  SurplusOverride,    \* control.surplus_override_watts, 0 when unset
  MinTarget,          \* the 200 W below which heating is not worth it
  TankLimit,          \* control.tank_temp_limit
  GridHeatPower,      \* control.grid_heat_power_watts
  GridHeatHysteresis, \* control.grid_heat_hysteresis
  MaxSetpoint,        \* control.grid_heat_max_setpoint
  CutoffVoltage,      \* control.internal_cutoff_voltage_threshold
  CutoffPower,        \* control.internal_cutoff_power_threshold
  CutoffDuration,     \* control.internal_cutoff_duration
  RecoveryTemp,       \* control.internal_cutoff_recovery_temp
  SensorMaxAge,       \* control.sensor_max_age_seconds
  SwitchMaxAge,       \* the 120 s of the manual switch
  FeedMaxAge,         \* the 5 s of the DS100 feed
  WatchdogInterval,   \* control.watchdog_interval
  FirstCheck,         \* the 15 s before the first watchdog pass
  SettleTime,         \* control.step_settle_time
  SweepSteps,         \* calibration.steps
  StepDuration,       \* calibration.step_duration
  MinCalPower,        \* calibration.min_power_for_calibration
  MinSweepVoltage,    \* calibration.min_sweep_voltage
  LimiterVoltage,     \* the 3 V from which a sweep step expects power
  MeaningfulVoltage,  \* CalibrationManager::MIN_MEANINGFUL_VOLTAGE
  ZeroWatts,          \* CalibrationManager::ZERO_WATTS
  NoTemp              \* a role without a fresh temperature (None)

CONSTANTS             \* what the plant and Home Assistant can do
  GridValues, TankTemps, RodTemps, SwitchValues, Setpoints, LimiterValues,
  CalibrationCanAge

Voltages == 0 .. MaxVoltage
AgeCap == SensorMaxAge + StepDuration + WatchdogInterval + FirstCheck + 1

ASSUME ModeAssumption == Mode \in {"calibration", "step"}
ASSUME VoltageAssumption ==
  /\ MaxVoltage \in Nat /\ InitialVoltage \in Voltages
  /\ MinSweepVoltage \in Nat /\ MinSweepVoltage >= 1
  /\ {RampStep, MaxVoltageStep, LimiterVoltage, MeaningfulVoltage, CutoffVoltage}
       \subseteq Nat
ASSUME PowerAssumption ==
  /\ MaxPower \in Nat \ {0} /\ Curve \in [Voltages -> Nat]
  /\ {PowerLimitStart, PowerLimitStop} \subseteq Int
  /\ {RampTarget, UseFactor, Tolerance, SurplusOverride, GridHeatPower, CutoffPower,
      MinCalPower, ZeroWatts} \subseteq Nat
  /\ MinTarget \in Nat /\ MinTarget >= 1
ASSUME TimeAssumption ==
  /\ {SensorMaxAge, SwitchMaxAge, FeedMaxAge, FirstCheck, SettleTime, StepDuration,
      CutoffDuration} \subseteq Nat
  /\ WatchdogInterval \in Nat \ {0}
ASSUME StepsAssumption == SweepSteps \in Nat \ {0}
ASSUME TempAssumption ==
  /\ {TankLimit, RecoveryTemp} \subseteq Int
  /\ {GridHeatHysteresis, MaxSetpoint} \subseteq Nat /\ NoTemp \notin Int
ASSUME InputAssumption ==
  /\ GridValues \subseteq Int /\ GridValues # {}
  /\ TankTemps \subseteq Int \cup {NoTemp} /\ TankTemps # {}
  /\ RodTemps \subseteq Int \cup {NoTemp} /\ RodTemps # {}
  /\ SwitchValues \subseteq {"on", "off"} /\ Setpoints \subseteq Int
  /\ LimiterValues \subseteq BOOLEAN /\ LimiterValues # {}
  /\ CalibrationCanAge \in BOOLEAN

VARIABLES
  \* readings shared with the other threads
  grid, gridAge,      \* grid power (import > 0) and its age
  rod, rodAge,        \* power drawn by the rod, as last read, and its age
  tank,               \* tank temperature or NoTemp
  rodTemp,            \* rod temperature or NoTemp
  switch, switchAge,  \* the manual switch in HA, and the age of its last push
  limiter,            \* the rod's analog thermal limiter is open
  stop,               \* the stop flag set by a signal
  \* the controller thread
  phase,              \* "loop", "step" and "measure" (in a sweep), "ended"
  watchdogAge,        \* now - last_watchdog
  dac,                \* voltage on CH0
  heating,            \* heating_active
  target,             \* target_power
  cutoff,             \* internal_cutoff
  cutoffFor,          \* now - internal_cutoff_since, NoTimer for 0.0
  gridHeating,        \* grid_heating
  setpoint,           \* grid_heat_setpoint
  settling, settleAge,\* settling and now - settle_start_ts
  ewma,               \* power_ewma
  calDue,             \* calibration.needs_recalibration()
  sweepMax,           \* voltage the running sweep ends at
  stepNo, stepAge,    \* step of the sweep and the time slept in it
  points              \* points the sweep has measured

readings == <<grid, gridAge, rod, rodAge, tank, rodTemp, switch, switchAge, limiter>>
sweep == <<sweepMax, stepNo, stepAge, points>>
output == <<dac, heating, target>>
latches == <<cutoff, cutoffFor, gridHeating>>
filter == <<settling, settleAge, ewma>>
vars == <<readings, stop, phase, watchdogAge, output, latches, setpoint, filter,
          calDue, sweep>>

NoTimer == -1
sweeping == phase \in {"step", "measure"}     \* the flag `calibrating`
Least(a, b) == IF a <= b THEN a ELSE b
Clamp(x, lo, hi) == IF x < lo THEN lo ELSE IF x > hi THEN hi ELSE x
Older(age, cap) == IF age < cap THEN age + 1 ELSE age

-----------------------------------------------------------------------------
(* What the controller reads.                                              *)

\* Mutant: the age of the grid reading is not looked at.
GridNeverStale == TRUE
GridFresh == gridAge <= SensorMaxAge
RodFresh == rodAge <= SensorMaxAge
SwitchSaysOff == switch = "off" /\ switchAge <= SwitchMaxAge
TankOver == tank # NoTemp /\ tank >= TankLimit
RodLost == heating /\ ~RodFresh
RodCooled == rodTemp # NoTemp /\ rodTemp < RecoveryTemp
RodPower == IF RodFresh THEN rod ELSE 0

GridPower == IF SurplusOverride > 0 THEN -SurplusOverride ELSE grid
Surplus == IF SurplusOverride > 0 THEN SurplusOverride ELSE RodPower - grid

GridHeatDemand ==
  /\ setpoint > 0 /\ tank # NoTemp
  /\ tank < (IF gridHeating THEN setpoint ELSE setpoint - GridHeatHysteresis)

\* Mutant: the target is not clamped to the rod's power.
TargetPowerUnclamped ==
  IF GridHeatDemand THEN GridHeatPower ELSE ((Surplus + PowerLimitStart) * UseFactor) \div 100
TargetPower ==
  LET pv == ((Surplus + PowerLimitStart) * UseFactor) \div 100
  IN  Clamp(IF GridHeatDemand /\ pv < GridHeatPower THEN GridHeatPower ELSE pv, 0, MaxPower)

\* Under-power at a driving voltage: the sign of an open thermal limiter.
Smooth == IF ewma > 0 THEN ewma ELSE rod
UnderPowered(w) ==
  dac >= CutoffVoltage /\ Curve[dac] > CutoffPower /\ 2 * w < Curve[dac]
CutoffSeen == heating /\ RodFresh /\ UnderPowered(Smooth)
\* Mutant: every watchdog pass starts the timer anew.
CutoffTimerRestarts == IF CutoffSeen THEN 0 ELSE NoTimer
CutoffTimer ==
  IF ~(heating /\ RodFresh) THEN cutoffFor
  ELSE IF ~CutoffSeen THEN NoTimer
  ELSE IF cutoffFor = NoTimer THEN 0 ELSE cutoffFor
CutoffConfirmed == CutoffSeen /\ cutoffFor # NoTimer /\ cutoffFor >= CutoffDuration /\ ~cutoff

\* voltage_for_power over the curve, and the linear estimate without one.
StartVoltages(w) ==
  {v \in Voltages : \/ Curve[v] <= w /\ (v = MaxVoltage \/ Curve[v + 1] > w)
                    \/ v = (w * MaxVoltage) \div (2 * MaxPower)}
RampCeiling == (target * MaxVoltage * RampTarget) \div (100 * MaxPower)
SweepSpan == Least((Surplus * MaxVoltage) \div MaxPower, MaxVoltage)
\* get_calibration_voltages: SweepSteps voltages inside (0, sweepMax).
SweepVoltage(n) == (n * sweepMax) \div (SweepSteps + 1)

-----------------------------------------------------------------------------
(* The other threads, Home Assistant and the plant.                        *)

GridReading ==
  /\ \E g \in GridValues : grid' = g
  /\ gridAge' = 0
  /\ UNCHANGED <<rod, rodAge, tank, rodTemp, switch, switchAge, limiter, stop, phase,
                 watchdogAge, output, latches, setpoint, filter, calDue, sweep>>

\* The DS100 thread samples the power the rod draws at the present voltage.
RodReading ==
  /\ rod' = IF limiter THEN 0 ELSE Curve[dac]
  /\ rodAge' = 0
  /\ UNCHANGED <<grid, gridAge, tank, rodTemp, switch, switchAge, limiter, stop, phase,
                 watchdogAge, output, latches, setpoint, filter, calDue, sweep>>

TempReading ==
  /\ tank' \in TankTemps /\ rodTemp' \in RodTemps
  /\ UNCHANGED <<grid, gridAge, rod, rodAge, switch, switchAge, limiter, stop, phase,
                 watchdogAge, output, latches, setpoint, filter, calDue, sweep>>

\* HA pushes an entity when its state changes.
SwitchFlips ==
  /\ switch' \in SwitchValues \ {switch}
  /\ switchAge' = 0
  /\ UNCHANGED <<grid, gridAge, rod, rodAge, tank, rodTemp, limiter, stop, phase,
                 watchdogAge, output, latches, setpoint, filter, calDue, sweep>>

LimiterFlips ==
  /\ limiter' \in LimiterValues \ {limiter}
  /\ UNCHANGED <<grid, gridAge, rod, rodAge, tank, rodTemp, switch, switchAge, stop, phase,
                 watchdogAge, output, latches, setpoint, filter, calDue, sweep>>

\* The curve passes its age limit or the learned deviations exceed theirs.
CalibrationAges ==
  /\ CalibrationCanAge /\ ~calDue /\ calDue' = TRUE
  /\ UNCHANGED <<readings, stop, phase, watchdogAge, output, latches, setpoint, filter, sweep>>

StopSignal ==
  /\ ~stop /\ stop' = TRUE
  /\ UNCHANGED <<readings, phase, watchdogAge, output, latches, setpoint, filter, calDue, sweep>>

-----------------------------------------------------------------------------
(* The controller thread.                                                  *)

\* Mutant: the flags are reset and the DAC forgotten.
FlagsOff == heating' = FALSE /\ target' = 0 /\ UNCHANGED dac
SwitchOff == dac' = 0 /\ heating' = FALSE /\ target' = 0
StopIfHeating == IF heating THEN SwitchOff ELSE UNCHANGED output

\* A number command, drained by the loop or by the hook of a sweep's sleep.
SetSetpoint ==
  /\ phase \in {"loop", "measure"}
  /\ \E c \in Setpoints : setpoint' = Clamp(c, 0, MaxSetpoint)
  /\ UNCHANGED <<readings, stop, phase, watchdogAge, output, latches, filter, calDue, sweep>>

\* Mutant: a change of the voltage does not start the settle timer.
DriveUnsettled(v) == dac' = v /\ settling' = FALSE /\ settleAge' = 0
Drive(v) == dac' = v /\ settling' = TRUE /\ settleAge' = 0

\* Reasons to leave the voltage alone once settled.
WithinTolerance(w) == target - w <= Tolerance /\ w - target <= Tolerance
LimiterHolds(w) == Mode = "calibration" /\ target > w /\ UnderPowered(w)

RampUp ==
  /\ Mode = "step" /\ dac < RampCeiling
  /\ Drive(Least(Least(dac + RampStep, RampCeiling), MaxVoltage))

Correct(w) ==
  /\ ~(Mode = "step" /\ dac < RampCeiling)
  /\ IF WithinTolerance(w) \/ LimiterHolds(w)
     THEN settling' = FALSE /\ UNCHANGED <<dac, settleAge>>
     ELSE \E v \in Voltages :
            /\ IF target > w THEN v >= dac /\ v <= dac + MaxVoltageStep
                             ELSE v <= dac /\ v >= dac - MaxVoltageStep
            /\ Drive(v)

\* The filter moves towards the sample by an amount the model leaves open; a
\* smoothed power decays towards 0 W and never reaches it.
Smoothed == IF ewma = 0 THEN {rod} ELSE {ewma, IF rod > 0 THEN rod ELSE 1}

\* on_ds100_power: smooth the sample, then ramp or correct once settled.  (Its
\* return for target_power <= 0 is dead code: HeatingHasTarget.)
OnDs100Power ==
  /\ phase = "loop" /\ rodAge <= FeedMaxAge
  /\ IF ~heating
     THEN ewma' = 0 /\ UNCHANGED <<dac, settling, settleAge>>
     ELSE /\ ewma' \in Smoothed
          /\ IF settling /\ settleAge < SettleTime
             THEN UNCHANGED <<dac, settling, settleAge>>
             ELSE RampUp \/ Correct(ewma')
  /\ UNCHANGED <<readings, stop, phase, watchdogAge, heating, target, latches, setpoint,
                 calDue, sweep>>

\* The early returns of control_loop, in their order.
\* Mutant: the tank limit is checked for a cold rod only.
VetoWithoutTank == SwitchSaysOff \/ (TankOver /\ ~heating) \/ RodLost
Veto == SwitchSaysOff \/ TankOver \/ RodLost
HeedVeto == Veto /\ StopIfHeating /\ UNCHANGED <<latches, phase, filter, sweep>>

\* Mutant: the latch is set without switching off.
LatchWithoutStop ==
  /\ ~Veto /\ CutoffConfirmed
  /\ cutoff' = TRUE
  /\ UNCHANGED <<cutoffFor, gridHeating, phase, filter, sweep, output>>
LatchCutoff ==
  /\ ~Veto /\ CutoffConfirmed
  /\ cutoff' = TRUE /\ SwitchOff
  /\ UNCHANGED <<cutoffFor, gridHeating, phase, filter, sweep>>

StayLocked ==
  /\ ~Veto /\ ~CutoffConfirmed /\ cutoff /\ ~RodCooled
  /\ cutoffFor' = CutoffTimer
  /\ UNCHANGED <<cutoff, gridHeating, output, phase, filter, sweep>>

\* Mutant: the stop threshold is not checked while heating.
NotEnoughToStart == ~GridHeatDemand /\ GridPower > PowerLimitStart /\ ~heating
NotEnoughSurplus ==
  ~GridHeatDemand /\ \/ GridPower > -PowerLimitStop
                     \/ GridPower > PowerLimitStart /\ ~heating
SweepWanted ==
  Mode = "calibration" /\ ~GridHeatDemand /\ calDue /\ Surplus >= MinCalPower /\ RodFresh

BeginSweep ==
  IF SweepSpan < MinSweepVoltage
  THEN UNCHANGED <<phase, sweep>>
  ELSE phase' = "step" /\ sweepMax' = SweepSpan /\ stepNo' = 1 /\ stepAge' = 0 /\ points' = <<>>

Heat ==
  /\ target' = TargetPower /\ heating' = TRUE
  /\ IF heating THEN UNCHANGED <<dac, filter>>
     ELSE IF Mode = "step" THEN Drive(InitialVoltage) /\ UNCHANGED ewma
     ELSE \E v \in StartVoltages(TargetPower) : Drive(v) /\ ewma' = 0

Regulate ==
  /\ ~Veto /\ ~CutoffConfirmed /\ (cutoff => RodCooled)
  /\ cutoff' = FALSE
  /\ cutoffFor' = IF cutoff THEN NoTimer ELSE CutoffTimer
  /\ gridHeating' = GridHeatDemand
  /\ \/ /\ NotEnoughSurplus \/ TargetPower < MinTarget
        /\ StopIfHeating /\ UNCHANGED <<phase, filter, sweep>>
     \/ /\ ~NotEnoughSurplus /\ TargetPower >= MinTarget
        /\ SweepWanted /\ BeginSweep /\ UNCHANGED <<output, filter>>
     \/ /\ ~NotEnoughSurplus /\ TargetPower >= MinTarget
        /\ ~SweepWanted /\ Heat /\ UNCHANGED <<phase, sweep>>

\* The 10 s block of the loop: the stale-grid check, then control_loop.  The
\* stop flag is read at the top of the loop, so a pass may still follow it.
WatchdogPass ==
  /\ phase = "loop" /\ watchdogAge >= WatchdogInterval
  /\ watchdogAge' = 0
  /\ \/ ~GridFresh /\ StopIfHeating /\ UNCHANGED <<latches, phase, filter, sweep>>
     \/ GridFresh /\ (HeedVeto \/ LatchCutoff \/ StayLocked \/ Regulate)
  /\ UNCHANGED <<readings, stop, setpoint, calDue>>

\* run_calibration, one voltage at a time, and its final clean-up.
SweepStep ==
  /\ phase = "step" /\ stepNo <= SweepSteps /\ GridFresh /\ grid <= PowerLimitStop
  /\ phase' = "measure"
  /\ dac' = SweepVoltage(stepNo) /\ heating' = TRUE
  /\ UNCHANGED <<readings, stop, watchdogAge, target, latches, setpoint, filter, calDue,
                 sweep>>

NoSweep == sweepMax' = 0 /\ stepNo' = 1 /\ stepAge' = 0 /\ points' = <<>>
\* Mutant: the clean-up resets the output and forgets heating_active.
FinishStillHeating(pts) ==
  phase' = "loop" /\ dac' = 0 /\ target' = 0 /\ UNCHANGED <<heating, calDue>> /\ NoSweep
FinishSweep(pts) ==
  /\ phase' = "loop" /\ SwitchOff /\ NoSweep
  /\ calDue' = IF Len(pts) >= 2 /\ \E i \in 1 .. Len(pts) : pts[i].watts > ZeroWatts
               THEN FALSE ELSE calDue

SweepEnds ==
  /\ phase = "step" /\ (stepNo > SweepSteps \/ ~GridFresh \/ grid > PowerLimitStop)
  /\ FinishSweep(points)
  /\ UNCHANGED <<readings, stop, watchdogAge, latches, setpoint, filter>>

\* The sleep of a step looks at the stop flag until it is over, not after.
SweepStopped ==
  /\ phase = "measure" /\ stop /\ stepAge < StepDuration /\ FinishSweep(points)
  /\ UNCHANGED <<readings, stop, watchdogAge, latches, setpoint, filter>>

Measured == IF ewma > 0 THEN ewma ELSE rod
NoOutput(v, w) ==
  (v >= LimiterVoltage /\ w < CutoffPower) \/ (v > MeaningfulVoltage /\ w <= ZeroWatts)

\* Mutant: the sweep repeats its step.
SameVoltage == stepNo' = stepNo
NextVoltage == stepNo' = stepNo + 1

SweepMeasure ==
  /\ phase = "measure" /\ stepAge >= StepDuration
  /\ LET v == SweepVoltage(stepNo)
         read == ewma > 0 \/ RodFresh
     IN  IF read /\ NoOutput(v, Measured)
         THEN FinishSweep(points)
         ELSE /\ phase' = "step" /\ NextVoltage /\ stepAge' = 0
              /\ points' = IF read THEN Append(points, [voltage |-> v, watts |-> Measured])
                                   ELSE points
              /\ UNCHANGED <<sweepMax, output, calDue>>
  /\ UNCHANGED <<readings, stop, watchdogAge, latches, setpoint, filter>>

\* The loop ends: emergency_shutdown and dac.shutdown.
Exit ==
  /\ phase = "loop" /\ stop /\ phase' = "ended" /\ SwitchOff
  /\ UNCHANGED <<readings, stop, watchdogAge, latches, setpoint, filter, calDue, sweep>>

\* The loop turns every 100 ms, far below one unit: time passes only when no
\* deadline of the thread is due.
NothingDue ==
  CASE phase = "loop" -> ~stop /\ watchdogAge < WatchdogInterval
    [] phase = "step" -> FALSE
    [] phase = "measure" -> ~stop /\ stepAge < StepDuration
    [] phase = "ended" -> FALSE

Tick ==
  /\ NothingDue
  /\ gridAge' = Older(gridAge, AgeCap)
  /\ rodAge' = Older(rodAge, SensorMaxAge + 1)
  /\ switchAge' = Older(switchAge, SwitchMaxAge + 1)
  /\ watchdogAge' = Older(watchdogAge, WatchdogInterval)
  /\ cutoffFor' = IF cutoffFor = NoTimer THEN NoTimer ELSE Older(cutoffFor, CutoffDuration)
  /\ settleAge' = Older(settleAge, SettleTime)
  /\ stepAge' = Older(stepAge, StepDuration)
  /\ UNCHANGED <<grid, rod, tank, rodTemp, switch, limiter, stop, phase, output, cutoff,
                 gridHeating, setpoint, settling, ewma, calDue, sweepMax, stepNo, points>>

-----------------------------------------------------------------------------
Init ==
  /\ grid \in GridValues /\ gridAge = SensorMaxAge + 1
  /\ rod = 0 /\ rodAge = SensorMaxAge + 1
  /\ tank = NoTemp /\ rodTemp = NoTemp
  /\ switch = "on" /\ switchAge = SwitchMaxAge + 1
  /\ limiter \in LimiterValues /\ stop = FALSE
  /\ phase = "loop" /\ watchdogAge = WatchdogInterval - FirstCheck
  /\ dac = 0 /\ heating = FALSE /\ target = 0
  /\ cutoff = FALSE /\ cutoffFor = NoTimer /\ gridHeating = FALSE
  /\ setpoint \in {Clamp(c, 0, MaxSetpoint) : c \in Setpoints \cup {0}}
  /\ settling = FALSE /\ settleAge = SettleTime /\ ewma = 0
  /\ calDue \in BOOLEAN
  /\ sweepMax = 0 /\ stepNo = 1 /\ stepAge = 0 /\ points = <<>>

Environment ==
  GridReading \/ RodReading \/ TempReading \/ SwitchFlips \/ LimiterFlips
    \/ CalibrationAges \/ StopSignal

Thread ==
  SetSetpoint \/ OnDs100Power \/ WatchdogPass \/ SweepStep \/ SweepEnds \/ SweepStopped
    \/ SweepMeasure \/ Exit

Next == Environment \/ Thread \/ Tick

Spec == Init /\ [][Next]_vars

\* Time passes and the thread runs whatever is due.  Nothing is assumed of
\* the sensors, of HA or of signals.
Due == WatchdogPass \/ SweepStep \/ SweepEnds \/ SweepStopped \/ SweepMeasure \/ Exit
Fairness == WF_vars(Tick) /\ WF_vars(Due)
FairSpec == Spec /\ Fairness
-----------------------------------------------------------------------------
(* Properties.                                                             *)

ReadingsTyped ==
  /\ grid \in GridValues /\ gridAge \in 0 .. AgeCap
  /\ rod \in Nat /\ rodAge \in 0 .. SensorMaxAge + 1
  /\ tank \in TankTemps \cup {NoTemp} /\ rodTemp \in RodTemps \cup {NoTemp}
  /\ switch \in {"on", "off"} /\ switchAge \in 0 .. SwitchMaxAge + 1
  /\ limiter \in BOOLEAN
LoopTyped ==
  /\ stop \in BOOLEAN /\ phase \in {"loop", "step", "measure", "ended"}
  /\ watchdogAge \in Int /\ watchdogAge <= WatchdogInterval
  /\ setpoint \in 0 .. MaxSetpoint /\ calDue \in BOOLEAN
OutputTyped == dac \in Voltages /\ heating \in BOOLEAN /\ target \in 0 .. MaxPower
LatchesTyped ==
  /\ cutoff \in BOOLEAN /\ gridHeating \in BOOLEAN
  /\ cutoffFor \in {NoTimer} \cup 0 .. CutoffDuration
FilterTyped == settling \in BOOLEAN /\ settleAge \in 0 .. SettleTime /\ ewma \in Nat
SweepTyped ==
  /\ sweepMax \in Voltages
  /\ stepNo \in 1 .. SweepSteps + 1 /\ stepAge \in 0 .. StepDuration
  /\ points \in Seq([voltage : Voltages, watts : Nat])

\* Every variable keeps its type: powers and setpoints stay inside the limits
\* of the configuration, a sweep inside its steps and its voltages.
TypeOK ==
  ReadingsTyped /\ LoopTyped /\ OutputTyped /\ LatchesTyped /\ FilterTyped /\ SweepTyped

\* CH0 carries a voltage only while heating_active: no path through the early
\* returns, the sweep's breaks, the feedback loop or the shutdown leaves the
\* rod driven by a controller that believes it is idle (controller.rs:4).
IdleMeansZero == ~heating => dac = 0 /\ target = 0

\* After an internal cutoff nothing heats, sweeps or corrects until the rod has
\* cooled down: the latch outlives every other reason to stop or to start.
CutoffLocksOut == cutoff => ~heating /\ ~sweeping

\* In the loop the rod heats only towards a target worth heating for, so the
\* `target_power <= 0` return of on_ds100_power is never taken.
HeatingHasTarget == heating /\ phase = "loop" => target >= MinTarget

\* The three flags, the target and the output agree after every step: through
\* the early returns, the five breaks of a sweep, the feedback and the shutdown.
OutputConsistent == IdleMeansZero /\ CutoffLocksOut /\ HeatingHasTarget

\* A dead grid meter cannot keep the rod on: the loop notices it within one
\* watchdog interval, a sweep at the end of its 30 s step.
StaleGridBound ==
  heating => gridAge <= SensorMaxAge + (IF sweeping THEN StepDuration ELSE WatchdogInterval)

\* The feedback never moves the voltage again before the burst cycle of the
\* last change is over: a change is always followed by the settle time.
SettledMeansOld == heating /\ phase = "loop" /\ ~settling => settleAge >= SettleTime

\* What a pass may see when it leaves the rod heating.
Permitted ==
  /\ GridFresh /\ ~SwitchSaysOff /\ ~TankOver /\ (heating => RodFresh)
  /\ \/ /\ GridPower <= (IF heating THEN -PowerLimitStop ELSE PowerLimitStart)
        /\ Surplus > -PowerLimitStart
     \/ setpoint > 0 /\ tank # NoTemp /\ tank < setpoint

\* Heating outlives a watchdog pass, or starts in one, only under a fresh grid
\* reading, no veto of switch, tank or rod meter and a PV surplus; without one
\* only while the tank is below the Netz-Solltemperatur (controller.rs:5-8).
PassKeepsHeatingOnlyIfPermitted == [][WatchdogPass /\ heating' => Permitted]_vars

\* Once the thread has ended the output stays off, and a stop signal always
\* gets there, from the loop as from the middle of a sweep.
StopEndsAtZero == stop ~> [](phase = "ended" /\ dac = 0)

\* Every calibration sweep ends and gives the thread back to the watchdog.
SweepTerminates == sweeping ~> ~sweeping

\* A rod that shows no power at a voltage that should give some is not driven
\* so for good: whatever the grid does, the cutoff timer gets to its end or the
\* heating stops.
OpenLimiterStopsHeating ==
  <>[](limiter /\ rod = 0 /\ RodFresh /\ ewma <= 1)
    => []<>(~heating \/ dac < CutoffVoltage \/ Curve[dac] <= CutoffPower)

\* A sweep records, for each of its voltages, what the rod draws there: the
\* "EWMA smoothed power" of controller.rs:641, or nothing while the limiter is
\* open.  Violated: a sweep that starts while heating finds the filter running,
\* and nothing feeds or resets it until the sweep is over.
PointsBelongToTheirVoltage ==
  ewma > 0 =>
    \A i \in 1 .. Len(points) : points[i].watts \in {0, Curve[points[i].voltage]}

\* What the controller promises of CH0, see SafeHeater.
Period ==
  IF phase = "ended" THEN "halted"
  ELSE IF sweeping THEN "sweep"
  ELSE IF cutoff THEN "locked"
  ELSE IF heating THEN "heat" ELSE "idle"
Heater == INSTANCE SafeHeater WITH Volts <- Voltages, ch0 <- dac, mode <- Period

\* The controller implements SafeHeater: CH0 carries a voltage only in a heat
\* or sweep period, and every way out of one goes through 0 V.
SafeOutput == Heater!Spec
=============================================================================
