-------------------------- MODULE ControllerProofs --------------------------
(***************************************************************************)
(* Proofs about Controller, for every value of its constants.              *)
(***************************************************************************)
EXTENDS Controller, TLAPS

-----------------------------------------------------------------------------
(* Helpers.                                                                *)

\* The assumptions on the constants, one fact each.
LEMMA ConstantTypes ==
  /\ MaxVoltage \in Nat /\ InitialVoltage \in Voltages /\ Voltages = 0 .. MaxVoltage
  /\ MinSweepVoltage \in Nat /\ MinSweepVoltage >= 1 /\ RampStep \in Nat
  /\ MaxPower \in Nat /\ Curve \in [Voltages -> Nat]
  /\ PowerLimitStart \in Int /\ PowerLimitStop \in Int /\ UseFactor \in Nat
  /\ GridHeatPower \in Nat /\ SurplusOverride \in Nat /\ MinTarget \in Nat /\ MinTarget >= 1
  /\ SensorMaxAge \in Nat /\ SwitchMaxAge \in Nat /\ FirstCheck \in Nat
  /\ WatchdogInterval \in Nat /\ WatchdogInterval >= 1
  /\ SettleTime \in Nat /\ StepDuration \in Nat /\ CutoffDuration \in Nat
  /\ AgeCap \in Nat /\ AgeCap >= SensorMaxAge + 1
  /\ AgeCap >= SensorMaxAge + StepDuration + WatchdogInterval
  /\ SweepSteps \in Nat /\ SweepSteps >= 1
  /\ MaxSetpoint \in Nat
<1>1. MaxVoltage \in Nat /\ InitialVoltage \in Voltages /\ MinSweepVoltage \in Nat
      /\ MinSweepVoltage >= 1 /\ RampStep \in Nat
  BY VoltageAssumption
<1>2. /\ MaxPower \in Nat /\ Curve \in [Voltages -> Nat]
      /\ PowerLimitStart \in Int /\ PowerLimitStop \in Int /\ UseFactor \in Nat
      /\ GridHeatPower \in Nat /\ SurplusOverride \in Nat
      /\ MinTarget \in Nat /\ MinTarget >= 1
  BY PowerAssumption
<1>3. /\ SensorMaxAge \in Nat /\ SwitchMaxAge \in Nat /\ FirstCheck \in Nat
      /\ WatchdogInterval \in Nat /\ WatchdogInterval >= 1
      /\ SettleTime \in Nat /\ StepDuration \in Nat /\ CutoffDuration \in Nat
  BY TimeAssumption
<1>4. SweepSteps \in Nat /\ SweepSteps >= 1 /\ MaxSetpoint \in Nat
  BY StepsAssumption, TempAssumption
<1>5. AgeCap \in Nat /\ AgeCap >= SensorMaxAge + 1
      /\ AgeCap >= SensorMaxAge + StepDuration + WatchdogInterval
  BY <1>3 DEF AgeCap
<1> QED
  BY <1>1, <1>2, <1>3, <1>4, <1>5 DEF Voltages

\* A clamped integer lies in the range it is clamped to.
LEMMA ClampRange ==
  ASSUME NEW x \in Int, NEW lo \in Int, NEW hi \in Int, lo <= hi
  PROVE  Clamp(x, lo, hi) \in lo .. hi
BY DEF Clamp

\* Floor division by a positive number.
LEMMA FloorDivision ==
  ASSUME NEW x \in Int, NEW d \in Nat \ {0}
  PROVE  x \div d \in Int /\ d * (x \div d) <= x /\ x < d * (x \div d) + d
BY SMT

\* The target handed to the feedback loop is a power the rod has.
LEMMA TargetRange ==
  ASSUME TypeOK
  PROVE  Surplus \in Int /\ TargetPower \in 0 .. MaxPower
<1> DEFINE pv == ((Surplus + PowerLimitStart) * UseFactor) \div 100
           raised == IF GridHeatDemand /\ pv < GridHeatPower THEN GridHeatPower ELSE pv
<1>1. Surplus \in Int
  BY PowerAssumption, InputAssumption DEF TypeOK, ReadingsTyped, Surplus, RodPower
<1>2. PowerLimitStart \in Int /\ UseFactor \in Int /\ GridHeatPower \in Int
      /\ MaxPower \in Int /\ 0 <= MaxPower
  BY PowerAssumption
<1>3. pv \in Int
  BY <1>1, <1>2
<1>4. raised \in Int
  BY <1>2, <1>3
<1>5. TargetPower = Clamp(raised, 0, MaxPower)
  BY DEF TargetPower
<1>6. Clamp(raised, 0, MaxPower) \in 0 .. MaxPower
  <2> HIDE DEF raised
  <2> QED BY <1>2, <1>4, ClampRange
<1> QED
  BY <1>1, <1>5, <1>6

\* A step of a sweep asks for a voltage below the sweep's end.
LEMMA SweepVoltageRange ==
  ASSUME NEW n \in 1 .. SweepSteps, sweepMax \in Voltages
  PROVE  SweepVoltage(n) \in Voltages
<1> DEFINE d == SweepSteps + 1
           q == (n * sweepMax) \div d
<1>1. n \in Nat /\ sweepMax \in Nat /\ MaxVoltage \in Nat /\ d \in Nat \ {0} /\ n <= d
  BY VoltageAssumption, StepsAssumption DEF Voltages
<1>2. sweepMax <= MaxVoltage
  BY VoltageAssumption DEF Voltages
<1> HIDE DEF d
<1>3. n * sweepMax \in Nat
  BY <1>1
<1>4. n * sweepMax <= d * sweepMax
  BY <1>1
<1>5. q \in Int /\ d * q <= n * sweepMax /\ n * sweepMax < d * q + d
  BY <1>1, <1>3, FloorDivision
<1> HIDE DEF q
<1>6. q <= sweepMax
  <2>1. SUFFICES ASSUME q >= sweepMax + 1 PROVE FALSE
    BY <1>1, <1>5
  <2>2. d * q >= d * (sweepMax + 1)
    BY <1>1, <1>5, <2>1
  <2>3. d * (sweepMax + 1) = d * sweepMax + d
    BY <1>1
  <2> QED
    BY <1>1, <1>3, <1>4, <1>5, <2>2, <2>3
<1>7. q >= 0
  <2>1. SUFFICES ASSUME q <= -1 PROVE FALSE
    BY <1>5
  <2>2. d * q <= d * (-1)
    BY <1>1, <1>5, <2>1
  <2> QED
    BY <1>1, <1>3, <1>5, <2>2
<1>8. SweepVoltage(n) = q
  BY DEF SweepVoltage, q, d
<1> QED
  BY <1>1, <1>2, <1>5, <1>6, <1>7, <1>8 DEF Voltages

-----------------------------------------------------------------------------
(* The inductive invariant.                                                *)

\* What the phase of the thread says about the rest of its state.
PhaseOK ==
  /\ phase = "ended" => ~heating
  /\ phase = "measure" => stepNo <= SweepSteps
  /\ sweeping => ~cutoff

\* While the rod is driven, the grid reading was fresh when somebody last looked
\* at it: the last watchdog pass, or the last step of a sweep.
GridAgeOK ==
  /\ heating /\ phase = "loop" => watchdogAge >= 0 /\ gridAge <= SensorMaxAge + watchdogAge
  /\ heating /\ phase = "step" => gridAge <= SensorMaxAge + StepDuration
  /\ phase = "measure" => gridAge <= SensorMaxAge + stepAge

Inv == TypeOK /\ IdleMeansZero /\ CutoffLocksOut /\ HeatingHasTarget /\ SettledMeansOld
         /\ PhaseOK /\ GridAgeOK

LEMMA InitInv == Init => Inv
<1> SUFFICES ASSUME Init PROVE Inv
  OBVIOUS
<1>1. setpoint \in 0 .. MaxSetpoint
  BY ConstantTypes, InputAssumption, ClampRange DEF Init
<1>2. ReadingsTyped
  BY ConstantTypes, InputAssumption DEF Init, ReadingsTyped
<1>3. LoopTyped
  BY <1>1, ConstantTypes DEF Init, LoopTyped
<1>4. OutputTyped /\ LatchesTyped /\ FilterTyped
  BY ConstantTypes DEF Init, OutputTyped, LatchesTyped, FilterTyped
<1>5. SweepTyped
  BY ConstantTypes DEF Init, SweepTyped
<1>6. IdleMeansZero /\ CutoffLocksOut /\ HeatingHasTarget /\ SettledMeansOld /\ PhaseOK /\ GridAgeOK
  BY DEF Init, IdleMeansZero, CutoffLocksOut, HeatingHasTarget, SettledMeansOld, PhaseOK,
         GridAgeOK, sweeping
<1> QED
  BY <1>2, <1>3, <1>4, <1>5, <1>6 DEF Inv, TypeOK

\* A group of variables that does not change keeps its type.
LEMMA UnchangedTypes ==
  /\ ReadingsTyped /\ UNCHANGED readings => ReadingsTyped'
  /\ LoopTyped /\ UNCHANGED <<stop, phase, watchdogAge, setpoint, calDue>> => LoopTyped'
  /\ OutputTyped /\ UNCHANGED output => OutputTyped'
  /\ LatchesTyped /\ UNCHANGED latches => LatchesTyped'
  /\ FilterTyped /\ UNCHANGED filter => FilterTyped'
  /\ SweepTyped /\ UNCHANGED sweep => SweepTyped'
BY DEF ReadingsTyped, readings, LoopTyped, OutputTyped, output, LatchesTyped, latches,
       FilterTyped, filter, SweepTyped, sweep

\* Switching off is always well typed, and so is any voltage of the DAC.
LEMMA SwitchOffTypes ==
  /\ SwitchOff => OutputTyped'
  /\ OutputTyped /\ StopIfHeating => OutputTyped'
<1>1. 0 \in Voltages /\ 0 \in 0 .. MaxPower
  BY ConstantTypes
<1>2. SwitchOff => OutputTyped'
  BY <1>1 DEF SwitchOff, OutputTyped
<1> QED
  BY <1>2, UnchangedTypes DEF StopIfHeating

LEMMA NoSweepTypes == NoSweep => SweepTyped'
<1>1. 0 \in Voltages /\ 1 \in 1 .. SweepSteps + 1 /\ 0 \in 0 .. StepDuration
  BY ConstantTypes
<1> QED
  BY <1>1 DEF NoSweep, SweepTyped

LEMMA FinishSweepTypes ==
  ASSUME LoopTyped, NEW pts, FinishSweep(pts), UNCHANGED <<stop, watchdogAge, setpoint>>
  PROVE  LoopTyped' /\ OutputTyped' /\ SweepTyped'
<1>1. OutputTyped' /\ SweepTyped'
  BY SwitchOffTypes, NoSweepTypes DEF FinishSweep
<1>2. phase' = "loop" /\ calDue' \in {FALSE, calDue}
  BY DEF FinishSweep
<1>3. LoopTyped'
  BY <1>2, Zenon DEF LoopTyped
<1> QED
  BY <1>1, <1>3

\* The readings change in an action of the environment or with time only.
LEMMA ReadingsStep == ReadingsTyped /\ OutputTyped /\ [Next]_vars => ReadingsTyped'
<1> SUFFICES ASSUME ReadingsTyped, OutputTyped, [Next]_vars PROVE ReadingsTyped'
  OBVIOUS
<1>1. CASE GridReading
  BY <1>1, ConstantTypes DEF GridReading, ReadingsTyped
<1>2. CASE RodReading
  BY <1>2, ConstantTypes DEF RodReading, ReadingsTyped, OutputTyped
<1>3. CASE TempReading
  BY <1>3 DEF TempReading, ReadingsTyped
<1>4. CASE SwitchFlips
  BY <1>4, ConstantTypes, InputAssumption DEF SwitchFlips, ReadingsTyped
<1>5. CASE LimiterFlips
  BY <1>5, InputAssumption DEF LimiterFlips, ReadingsTyped
<1>6. CASE Tick
  BY <1>6, ConstantTypes DEF Tick, Older, ReadingsTyped
<1>7. CASE UNCHANGED readings
  BY <1>7, UnchangedTypes
<1> QED
  BY <1>1, <1>2, <1>3, <1>4, <1>5, <1>6, <1>7
  DEF Next, Environment, Thread, CalibrationAges, StopSignal, SetSetpoint, OnDs100Power,
      WatchdogPass, SweepStep, SweepEnds, SweepStopped, SweepMeasure, Exit, vars

LEMMA OnDs100PowerTypes ==
  ASSUME TypeOK, OnDs100Power
  PROVE  OutputTyped' /\ FilterTyped'
<1>1. heating' = heating /\ target' = target /\ rod \in Nat
  BY DEF OnDs100Power, TypeOK, ReadingsTyped
<1>2. \A v \in Voltages : Drive(v) => dac' \in Voltages /\ settling' = TRUE /\ settleAge' = 0
  BY DEF Drive
<1>3. ASSUME RampUp PROVE dac' \in Voltages /\ settling' = TRUE /\ settleAge' = 0
  <2>1. RampCeiling \in Int /\ dac \in 0 .. MaxVoltage /\ dac < RampCeiling
    BY <1>3, ConstantTypes, PowerAssumption DEF RampUp, RampCeiling, TypeOK, OutputTyped
  <2>2. Least(Least(dac + RampStep, RampCeiling), MaxVoltage) \in Voltages
    BY <2>1, ConstantTypes DEF Least
  <2> QED
    BY <1>2, <1>3, <2>2 DEF RampUp
<1>4. ASSUME NEW w, Correct(w)
      PROVE  dac' \in Voltages /\ settling' \in BOOLEAN /\ settleAge' \in {0, settleAge}
  BY <1>2, <1>4 DEF Correct, TypeOK, OutputTyped
<1>5. dac' \in Voltages /\ settling' \in BOOLEAN /\ settleAge' \in {0, settleAge}
  BY <1>3, <1>4 DEF OnDs100Power, TypeOK, OutputTyped, FilterTyped
<1>6. ewma' \in Nat
  BY <1>1 DEF OnDs100Power, Smoothed, TypeOK, FilterTyped
<1>7. 0 \in 0 .. SettleTime
  BY ConstantTypes
<1> QED
  BY <1>1, <1>5, <1>6, <1>7 DEF TypeOK, OutputTyped, FilterTyped

\* A pass that goes on to the surplus computation.
LEMMA RegulateTypes ==
  ASSUME TypeOK, Regulate, UNCHANGED <<stop, setpoint, calDue>>,
         watchdogAge' = 0
  PROVE  LoopTyped' /\ OutputTyped' /\ FilterTyped' /\ LatchesTyped' /\ SweepTyped'
<1>1. LatchesTyped'
  <2>1. CutoffTimer \in {NoTimer} \cup 0 .. CutoffDuration
    BY ConstantTypes DEF CutoffTimer, TypeOK, LatchesTyped
  <2>2. GridHeatDemand \in BOOLEAN
    BY DEF GridHeatDemand
  <2> QED
    BY <2>1, <2>2 DEF Regulate, LatchesTyped
<1>2. CASE StopIfHeating /\ UNCHANGED <<phase, filter, sweep>>
  BY <1>1, <1>2, SwitchOffTypes, UnchangedTypes, ConstantTypes DEF TypeOK, LoopTyped
<1>3. CASE Surplus >= MinCalPower /\ BeginSweep /\ UNCHANGED <<output, filter>>
  <2>1. OutputTyped' /\ FilterTyped'
    BY <1>3, UnchangedTypes DEF TypeOK
  <2>2. CASE UNCHANGED <<phase, sweep>>
    BY <1>1, <2>1, <2>2, UnchangedTypes, ConstantTypes DEF TypeOK, LoopTyped
  <2>3. CASE /\ ~(SweepSpan < MinSweepVoltage)
             /\ phase' = "step" /\ sweepMax' = SweepSpan /\ stepNo' = 1 /\ stepAge' = 0
             /\ points' = <<>>
    <3>1. SweepSpan \in Voltages
      <4>1. Surplus * MaxVoltage \in Int /\ MaxPower \in Nat \ {0}
        BY TargetRange, ConstantTypes, PowerAssumption
      <4>2. (Surplus * MaxVoltage) \div MaxPower \in Int
        BY <4>1, FloorDivision
      <4> QED
        BY <2>3, <4>2, ConstantTypes DEF SweepSpan, Least
    <3>2. 1 \in 1 .. SweepSteps + 1 /\ 0 \in 0 .. StepDuration
      BY ConstantTypes
    <3>3. SweepTyped'
      BY <2>3, <3>1, <3>2 DEF SweepTyped
    <3>4. LoopTyped'
      BY <2>3, ConstantTypes DEF TypeOK, LoopTyped
    <3> QED
      BY <1>1, <2>1, <3>3, <3>4
  <2> QED
    BY <1>3, <2>2, <2>3 DEF BeginSweep
<1>4. CASE Heat /\ UNCHANGED <<phase, sweep>>
  <2>1. SweepTyped' /\ LoopTyped'
    BY <1>4, UnchangedTypes, ConstantTypes DEF TypeOK, LoopTyped
  <2>2. target' \in 0 .. MaxPower /\ heating' = TRUE
    BY <1>4, TargetRange DEF Heat
  <2>3. \A v \in Voltages : Drive(v) => dac' \in Voltages /\ settling' = TRUE /\ settleAge' = 0
    BY DEF Drive
  <2>4. \A v \in StartVoltages(TargetPower) : v \in Voltages
    BY DEF StartVoltages
  <2>5. 0 \in 0 .. SettleTime
    BY ConstantTypes
  <2>6. dac' \in Voltages /\ FilterTyped'
    <3>1. CASE heating
      BY <1>4, <3>1, UnchangedTypes DEF Heat, TypeOK, OutputTyped
    <3>2. CASE ~heating /\ Drive(InitialVoltage) /\ UNCHANGED ewma
      <4>1. dac' \in Voltages /\ settling' = TRUE /\ settleAge' = 0 /\ ewma' \in Nat
        BY <2>3, <3>2, ConstantTypes DEF TypeOK, FilterTyped
      <4> QED
        BY <4>1, <2>5 DEF FilterTyped
    <3>3. ASSUME NEW v \in StartVoltages(TargetPower), Drive(v), ewma' = 0
          PROVE  dac' \in Voltages /\ FilterTyped'
      <4>1. dac' \in Voltages /\ settling' = TRUE /\ settleAge' = 0 /\ ewma' \in Nat
        BY <2>3, <2>4, <3>3
      <4> QED
        BY <4>1, <2>5 DEF FilterTyped
    <3> QED
      BY <1>4, <3>1, <3>2, <3>3 DEF Heat
  <2> QED
    BY <1>1, <2>1, <2>2, <2>6 DEF OutputTyped
<1> QED
  BY <1>2, <1>3, <1>4 DEF Regulate, SweepWanted

LEMMA WatchdogPassTypes ==
  ASSUME TypeOK, WatchdogPass
  PROVE  LoopTyped' /\ OutputTyped' /\ FilterTyped' /\ LatchesTyped' /\ SweepTyped'
<1>1. /\ watchdogAge' = 0 /\ UNCHANGED <<stop, setpoint, calDue>>
      /\ \/ StopIfHeating /\ UNCHANGED <<latches, phase, filter, sweep>>
         \/ LatchCutoff \/ StayLocked \/ Regulate
  BY DEF WatchdogPass, HeedVeto
<1>2. UNCHANGED phase => LoopTyped'
  BY <1>1, ConstantTypes DEF TypeOK, LoopTyped
<1>3. CASE StopIfHeating /\ UNCHANGED <<latches, phase, filter, sweep>>
  BY <1>2, <1>3, SwitchOffTypes, UnchangedTypes DEF TypeOK
<1>4. CASE LatchCutoff
  <2>1. LatchesTyped'
    BY <1>4 DEF LatchCutoff, TypeOK, LatchesTyped
  <2> QED
    BY <1>2, <1>4, <2>1, SwitchOffTypes, UnchangedTypes DEF LatchCutoff, TypeOK
<1>5. CASE StayLocked
  <2>1. LatchesTyped'
    BY <1>5, ConstantTypes DEF StayLocked, CutoffTimer, TypeOK, LatchesTyped
  <2> QED
    BY <1>2, <1>5, <2>1, UnchangedTypes DEF StayLocked, TypeOK
<1>6. CASE Regulate
  BY <1>1, <1>6, RegulateTypes
<1> QED
  BY <1>1, <1>3, <1>4, <1>5, <1>6

LEMMA SweepMeasureTypes ==
  ASSUME TypeOK, PhaseOK, SweepMeasure
  PROVE  LoopTyped' /\ OutputTyped' /\ SweepTyped'
<1>1. phase = "measure" /\ stepNo \in 1 .. SweepSteps /\ UNCHANGED <<stop, watchdogAge, setpoint>>
  BY ConstantTypes DEF SweepMeasure, PhaseOK, TypeOK, SweepTyped
<1>2. Measured \in Nat
  BY DEF Measured, TypeOK, ReadingsTyped, FilterTyped
<1>3. SweepVoltage(stepNo) \in Voltages
  BY <1>1, SweepVoltageRange DEF TypeOK, SweepTyped
<1>4. CASE FinishSweep(points)
  BY <1>1, <1>4, FinishSweepTypes DEF TypeOK
<1>5. ASSUME phase' = "step", NextVoltage, stepAge' = 0, UNCHANGED <<sweepMax, output, calDue>>,
             points' = points \/ points' = Append(points, [voltage |-> SweepVoltage(stepNo), watts |-> Measured])
      PROVE  LoopTyped' /\ OutputTyped' /\ SweepTyped'
  <2>1. LoopTyped' /\ OutputTyped'
    BY <1>1, <1>5, UnchangedTypes DEF TypeOK, LoopTyped
  <2>2. stepNo' \in 1 .. SweepSteps + 1 /\ stepAge' \in 0 .. StepDuration
    BY <1>1, <1>5, ConstantTypes DEF NextVoltage
  <2>3. points' \in Seq([voltage : Voltages, watts : Nat])
    <3> DEFINE R == [voltage : Voltages, watts : Nat]
               p == [voltage |-> SweepVoltage(stepNo), watts |-> Measured]
    <3>1. p \in R
      BY <1>2, <1>3
    <3>2. points \in Seq(R)
      BY DEF TypeOK, SweepTyped
    <3>3. points' = points \/ points' = Append(points, p)
      BY <1>5
    <3> HIDE DEF R, p
    <3>4. points' \in Seq(R)
      BY <3>1, <3>2, <3>3
    <3> QED
      BY <3>4 DEF R
  <2> QED
    BY <1>5, <2>1, <2>2, <2>3 DEF TypeOK, SweepTyped
<1> QED
  BY <1>4, <1>5 DEF SweepMeasure

\* The type invariant is preserved, one case per action.
LEMMA TypeStep == TypeOK /\ PhaseOK /\ [Next]_vars => TypeOK'
<1> SUFFICES ASSUME TypeOK, PhaseOK, [Next]_vars
             PROVE  LoopTyped' /\ OutputTyped' /\ LatchesTyped' /\ FilterTyped' /\ SweepTyped'
  BY ReadingsStep DEF TypeOK
<1> USE DEF TypeOK
<1>1. CASE GridReading \/ RodReading \/ TempReading \/ SwitchFlips \/ LimiterFlips
  BY <1>1, UnchangedTypes
  DEF GridReading, RodReading, TempReading, SwitchFlips, LimiterFlips
<1>2. CASE CalibrationAges \/ StopSignal
  <2>1. LoopTyped'
    BY <1>2 DEF CalibrationAges, StopSignal, LoopTyped
  <2> QED
    BY <1>2, <2>1, UnchangedTypes DEF CalibrationAges, StopSignal
<1>3. CASE SetSetpoint
  <2>1. setpoint' \in 0 .. MaxSetpoint
    BY <1>3, ConstantTypes, InputAssumption, ClampRange DEF SetSetpoint
  <2> QED
    BY <1>3, <2>1, UnchangedTypes DEF SetSetpoint, LoopTyped
<1>4. CASE OnDs100Power
  BY <1>4, OnDs100PowerTypes, UnchangedTypes DEF OnDs100Power
<1>5. CASE WatchdogPass
  BY <1>5, WatchdogPassTypes
<1>6. CASE SweepStep
  <2>1. SweepVoltage(stepNo) \in Voltages
    BY <1>6, SweepVoltageRange, ConstantTypes DEF SweepStep, SweepTyped
  <2>2. LoopTyped' /\ OutputTyped'
    BY <1>6, <2>1 DEF SweepStep, LoopTyped, OutputTyped
  <2> QED
    BY <1>6, <2>2, UnchangedTypes DEF SweepStep
<1>7. CASE SweepEnds \/ SweepStopped
  BY <1>7, FinishSweepTypes, UnchangedTypes DEF SweepEnds, SweepStopped
<1>8. CASE SweepMeasure
  BY <1>8, SweepMeasureTypes, UnchangedTypes DEF SweepMeasure
<1>9. CASE Exit
  <2>1. LoopTyped'
    BY <1>9 DEF Exit, LoopTyped
  <2> QED
    BY <1>9, <2>1, SwitchOffTypes, UnchangedTypes DEF Exit
<1>10. CASE Tick
  <2>1. LoopTyped'
    <3>1. watchdogAge' \in Int /\ watchdogAge' <= WatchdogInterval
      BY <1>10, ConstantTypes DEF Tick, Older, LoopTyped
    <3> QED
      BY <1>10, <3>1 DEF Tick, LoopTyped
  <2>2. LatchesTyped'
    <3>1. cutoffFor' \in {NoTimer} \cup 0 .. CutoffDuration
      BY <1>10, ConstantTypes DEF Tick, Older, NoTimer, LatchesTyped
    <3> QED
      BY <1>10, <3>1 DEF Tick, LatchesTyped
  <2>3. FilterTyped'
    BY <1>10, ConstantTypes DEF Tick, Older, FilterTyped
  <2>4. SweepTyped'
    BY <1>10, ConstantTypes DEF Tick, Older, SweepTyped
  <2> QED
    BY <1>10, <2>1, <2>2, <2>3, <2>4, UnchangedTypes DEF Tick
<1>11. CASE UNCHANGED vars
  BY <1>11, UnchangedTypes DEF vars
<1> QED
  BY <1>1, <1>2, <1>3, <1>4, <1>5, <1>6, <1>7, <1>8, <1>9, <1>10, <1>11
  DEF Next, Environment, Thread

\* What stopping does to the output, whether the rod was heating or not.
LEMMA StoppedOutput ==
  /\ SwitchOff => dac' = 0 /\ heating' = FALSE /\ target' = 0
  /\ IdleMeansZero /\ OutputTyped /\ StopIfHeating => dac' = 0 /\ heating' = FALSE /\ target' = 0
BY DEF SwitchOff, StopIfHeating, IdleMeansZero, OutputTyped, output

\* The output and the latches agree with the phase, one case per action.
LEMMA OutputStep ==
  ASSUME Inv, [Next]_vars
  PROVE  IdleMeansZero' /\ CutoffLocksOut' /\ HeatingHasTarget' /\ PhaseOK'
<1> USE DEF Inv, IdleMeansZero, CutoffLocksOut, HeatingHasTarget, PhaseOK, sweeping
<1>1. CASE \/ GridReading \/ RodReading \/ TempReading \/ SwitchFlips \/ LimiterFlips
           \/ CalibrationAges \/ StopSignal \/ SetSetpoint
  BY <1>1 DEF GridReading, RodReading, TempReading, SwitchFlips, LimiterFlips, CalibrationAges,
              StopSignal, SetSetpoint, output, latches, sweep
<1>2. CASE OnDs100Power
  BY <1>2 DEF OnDs100Power, latches, sweep
<1>3. CASE WatchdogPass
  <2>1. \/ StopIfHeating /\ UNCHANGED <<latches, phase, filter, sweep>>
        \/ LatchCutoff \/ StayLocked \/ Regulate
    BY <1>3 DEF WatchdogPass, HeedVeto
  <2>2. CASE StopIfHeating /\ UNCHANGED <<latches, phase>>
    BY <1>3, <2>2, StoppedOutput DEF WatchdogPass, latches, TypeOK
  <2>3. CASE LatchCutoff
    BY <1>3, <2>3, StoppedOutput DEF WatchdogPass, LatchCutoff
  <2>4. CASE StayLocked
    BY <1>3, <2>4 DEF WatchdogPass, StayLocked, output
  <2>5. CASE Regulate /\ StopIfHeating /\ UNCHANGED phase
    BY <1>3, <2>5, StoppedOutput DEF WatchdogPass, Regulate, TypeOK
  <2>6. CASE Regulate /\ BeginSweep /\ UNCHANGED output
    BY <1>3, <2>6 DEF WatchdogPass, Regulate, BeginSweep, output
  <2>7. CASE Regulate /\ TargetPower >= MinTarget /\ Heat /\ UNCHANGED phase
    BY <1>3, <2>7 DEF WatchdogPass, Regulate, Heat
  <2> QED
    BY <2>1, <2>2, <2>3, <2>4, <2>5, <2>6, <2>7 DEF Regulate
<1>4. CASE SweepStep
  BY <1>4 DEF SweepStep, latches, sweep
<1>5. CASE SweepEnds \/ SweepStopped
  BY <1>5, StoppedOutput DEF SweepEnds, SweepStopped, FinishSweep, latches
<1>6. CASE SweepMeasure
  BY <1>6, StoppedOutput DEF SweepMeasure, FinishSweep, output, latches
<1>7. CASE Exit
  BY <1>7, StoppedOutput DEF Exit, latches
<1>8. CASE Tick
  BY <1>8 DEF Tick, output
<1>9. CASE UNCHANGED vars
  BY <1>9 DEF vars, output, latches, sweep
<1> QED
  BY <1>1, <1>2, <1>3, <1>4, <1>5, <1>6, <1>7, <1>8, <1>9 DEF Next, Environment, Thread

\* The ages agree with the phase, one case per action.
LEMMA AgesStep ==
  ASSUME Inv, [Next]_vars
  PROVE  SettledMeansOld' /\ GridAgeOK'
<1> USE DEF Inv, SettledMeansOld, GridAgeOK
<1>1. CASE GridReading
  <2>1. stepAge \in Nat
    BY ConstantTypes DEF TypeOK, SweepTyped
  <2>2. gridAge' = 0 /\ UNCHANGED <<output, filter, sweep, phase, watchdogAge>>
    BY <1>1, Zenon DEF GridReading, output, filter, sweep
  <2>3. GridAgeOK'
    <3>1. /\ gridAge' = 0 /\ heating' = heating /\ phase' = phase
          /\ watchdogAge' = watchdogAge /\ stepAge' = stepAge
      BY <2>2 DEF output, sweep
    <3>2. watchdogAge \in Int
      BY DEF TypeOK, LoopTyped
    <3> QED
      BY <2>1, <3>1, <3>2, ConstantTypes
  <2>4. SettledMeansOld'
    BY <2>2 DEF output, filter
  <2> QED
    BY <2>3, <2>4
<1>2. CASE RodReading \/ TempReading \/ SwitchFlips \/ LimiterFlips \/ CalibrationAges
           \/ StopSignal \/ SetSetpoint
  BY <1>2 DEF RodReading, TempReading, SwitchFlips, LimiterFlips, CalibrationAges,
              StopSignal, SetSetpoint, readings, output, filter, sweep
<1>3. CASE OnDs100Power
  <2>1. GridAgeOK'
    BY <1>3 DEF OnDs100Power, readings, sweep
  <2>2. settleAge \in Int /\ SettleTime \in Int
    BY ConstantTypes DEF TypeOK, FilterTyped
  <2>3. SettledMeansOld'
    BY <1>3, <2>2 DEF OnDs100Power, RampUp, Correct, Drive
  <2> QED
    BY <2>1, <2>3
<1>4. CASE WatchdogPass
  <2>1. phase = "loop" /\ watchdogAge' = 0 /\ gridAge' = gridAge
    BY <1>4 DEF WatchdogPass, readings
  <2>2. CASE ~heating' /\ phase' = "loop"
    BY <2>1, <2>2
  <2>3. CASE Regulate /\ GridFresh /\ BeginSweep /\ UNCHANGED <<output, filter>>
    <3>1. gridAge \in Nat /\ stepAge \in Nat
      BY ConstantTypes DEF TypeOK, ReadingsTyped, SweepTyped
    <3> QED
      BY <2>1, <2>3, <3>1, ConstantTypes DEF BeginSweep, GridFresh, output, filter
  <2>4. CASE Regulate /\ GridFresh /\ Heat /\ UNCHANGED <<phase, sweep>>
    <3>1. gridAge \in Nat
      BY DEF TypeOK, ReadingsTyped
    <3>2. GridAgeOK'
      BY <2>1, <2>4, <3>1, ConstantTypes DEF GridFresh
    <3>3. SettledMeansOld'
      BY <2>1, <2>4 DEF Heat, Drive, filter
    <3> QED
      BY <3>2, <3>3
  <2> QED
    <3>1. CASE StopIfHeating /\ UNCHANGED phase
      BY <2>1, <2>2, <3>1, StoppedOutput DEF TypeOK
    <3>2. CASE LatchCutoff
      BY <2>1, <2>2, <3>2, StoppedOutput DEF LatchCutoff
    <3>3. CASE StayLocked
      BY <2>1, <2>2, <3>3 DEF StayLocked, CutoffLocksOut, output
    <3> QED
      BY <1>4, <2>3, <2>4, <3>1, <3>2, <3>3 DEF WatchdogPass, HeedVeto, Regulate
<1>5. CASE SweepStep
  <2>1. gridAge \in Nat /\ stepAge \in Nat
    BY ConstantTypes DEF TypeOK, ReadingsTyped, SweepTyped
  <2> QED
    BY <1>5, <2>1, ConstantTypes DEF SweepStep, GridFresh, readings, sweep
<1>6. CASE SweepEnds \/ SweepStopped
  BY <1>6, StoppedOutput DEF SweepEnds, SweepStopped, FinishSweep
<1>7. CASE SweepMeasure
  <2>1. gridAge \in Nat /\ stepAge \in Nat /\ stepAge <= StepDuration
    BY ConstantTypes DEF TypeOK, ReadingsTyped, SweepTyped
  <2>2. gridAge' = gridAge
    BY <1>7 DEF SweepMeasure, readings
  <2>3. CASE FinishSweep(points)
    BY <1>7, <2>3, StoppedOutput DEF SweepMeasure, FinishSweep
  <2>4. CASE phase' = "step"
    BY <1>7, <2>1, <2>2, <2>4, ConstantTypes DEF SweepMeasure
  <2> QED
    BY <1>7, <2>3, <2>4 DEF SweepMeasure
<1>8. CASE Exit
  BY <1>8, StoppedOutput DEF Exit
<1>9. CASE Tick
  <2>1. gridAge \in Nat /\ stepAge \in Nat /\ settleAge \in Nat /\ watchdogAge \in Int
    BY ConstantTypes DEF TypeOK, ReadingsTyped, SweepTyped, FilterTyped, LoopTyped
  <2>2. gridAge' <= gridAge + 1
    BY <1>9, <2>1, ConstantTypes DEF Tick, Older
  <2>3. phase = "loop" => watchdogAge' = watchdogAge + 1
    BY <1>9, <2>1, ConstantTypes DEF Tick, NothingDue, Older
  <2>4. phase = "measure" => stepAge' = stepAge + 1
    BY <1>9, <2>1, ConstantTypes DEF Tick, NothingDue, Older
  <2>5. phase # "step" /\ UNCHANGED <<phase, heating, settling>>
    BY <1>9 DEF Tick, NothingDue, output
  <2>6. settleAge' >= settleAge
    BY <1>9, <2>1, ConstantTypes DEF Tick, Older
  <2>7. gridAge' \in Nat /\ settleAge' \in Nat
    BY <1>9, <2>1, ConstantTypes DEF Tick, Older
  <2> QED
    BY <2>1, <2>2, <2>3, <2>4, <2>5, <2>6, <2>7, ConstantTypes
<1>10. CASE UNCHANGED vars
  BY <1>10 DEF vars, readings, output, filter, sweep
<1> QED
  BY <1>1, <1>2, <1>3, <1>4, <1>5, <1>6, <1>7, <1>8, <1>9, <1>10 DEF Next, Environment, Thread

LEMMA InvStep == Inv /\ [Next]_vars => Inv'
BY TypeStep, OutputStep, AgesStep DEF Inv

\* The inductive invariant holds in every reachable state.
THEOREM Invariance == Spec => []Inv
BY InitInv, InvStep, PTL DEF Spec

-----------------------------------------------------------------------------
(* The theorems.                                                           *)

\* Powers, setpoints, voltages and sweep steps stay inside their limits.
THEOREM TypeCorrect == Spec => []TypeOK
<1>1. Inv => TypeOK
  BY DEF Inv
<1> QED
  BY <1>1, Invariance, PTL

\* A controller that is not heating puts 0 V on CH0, a latched internal cutoff
\* keeps the rod off, and the feedback loop always has a target worth heating for.
THEOREM OutputIsConsistent == Spec => []OutputConsistent
<1>1. Inv => OutputConsistent
  BY DEF Inv, OutputConsistent
<1> QED
  BY <1>1, Invariance, PTL

\* The rod is driven on a grid reading of bounded age.
THEOREM GridNeverTooOld == Spec => []StaleGridBound
<1>1. Inv => StaleGridBound
  <2> SUFFICES ASSUME Inv, heating PROVE StaleGridBound
    BY DEF StaleGridBound
  <2>1. /\ gridAge \in Nat /\ watchdogAge \in Int /\ watchdogAge <= WatchdogInterval
        /\ stepAge \in Nat /\ stepAge <= StepDuration
        /\ phase \in {"loop", "step", "measure", "ended"}
    BY ConstantTypes DEF Inv, TypeOK, ReadingsTyped, LoopTyped, SweepTyped
  <2> QED
    BY <2>1, ConstantTypes DEF Inv, GridAgeOK, PhaseOK, StaleGridBound, sweeping
<1> QED
  BY <1>1, Invariance, PTL

\* The feedback never cuts a settle time short.
THEOREM SettleTimeIsKept == Spec => []SettledMeansOld
<1>1. Inv => SettledMeansOld
  BY DEF Inv
<1> QED
  BY <1>1, Invariance, PTL

\* A target above the minimum needs a surplus, unless the grid may be used.
LEMMA TargetNeedsSurplus ==
  ASSUME TypeOK, TargetPower >= MinTarget, ~GridHeatDemand
  PROVE  Surplus > -PowerLimitStart
<1> DEFINE s == Surplus + PowerLimitStart
           pv == (s * UseFactor) \div 100
<1>1. s \in Int /\ UseFactor \in Nat /\ MinTarget \in Nat /\ MinTarget >= 1 /\ MaxPower \in Nat
  BY TargetRange, ConstantTypes
<1> HIDE DEF s
<1>2. s * UseFactor \in Int
  BY <1>1
<1>3. pv \in Int /\ 100 * pv <= s * UseFactor
  BY <1>2, FloorDivision
<1>4. TargetPower = Clamp(pv, 0, MaxPower)
  BY DEF TargetPower, s
<1> HIDE DEF pv
<1>5. pv >= 1
  BY <1>1, <1>3, <1>4 DEF Clamp
<1>6. s * UseFactor >= 1
  BY <1>2, <1>3, <1>5
<1>7. s > 0
  <2>1. SUFFICES ASSUME s <= 0 PROVE FALSE
    BY <1>1
  <2>2. s * UseFactor <= 0
    BY <1>1, <2>1
  <2> QED
    BY <1>2, <1>6, <2>2
<1> QED
  BY <1>7, ConstantTypes, TargetRange DEF s

\* No watchdog pass leaves the rod heating against a veto or without surplus.
THEOREM HeatingIsPermitted == Spec => PassKeepsHeatingOnlyIfPermitted
<1>1. ASSUME Inv, WatchdogPass, heating' PROVE Permitted
  <2>1. ~(StopIfHeating /\ heating')
    BY <1>1, StoppedOutput DEF Inv, TypeOK
  <2>2. ~LatchCutoff
    BY <1>1, StoppedOutput DEF LatchCutoff
  <2>3. ~StayLocked
    BY <1>1 DEF StayLocked, Inv, CutoffLocksOut, output
  <2>4. GridFresh /\ Regulate
    BY <1>1, <2>1, <2>2, <2>3 DEF WatchdogPass, HeedVeto
  <2>5. ~Veto /\ ~NotEnoughSurplus /\ TargetPower >= MinTarget
    BY <1>1, <2>1, <2>4 DEF Regulate
  <2>6. CASE GridHeatDemand
    <3>1. setpoint > 0 /\ tank # NoTemp /\ tank < setpoint
      <4>1. tank # NoTemp => tank \in Int
        BY <1>1, InputAssumption DEF Inv, TypeOK, ReadingsTyped
      <4>2. setpoint \in Int /\ GridHeatHysteresis \in Nat
        BY <1>1, ConstantTypes, TempAssumption DEF Inv, TypeOK, LoopTyped
      <4> QED
        BY <2>6, <4>1, <4>2 DEF GridHeatDemand
    <3> QED
      BY <2>4, <2>5, <3>1 DEF Permitted, Veto, RodLost
  <2>7. CASE ~GridHeatDemand
    <3>1. Surplus > -PowerLimitStart
      BY <1>1, <2>5, <2>7, TargetNeedsSurplus DEF Inv
    <3>2. GridPower \in Int
      BY <1>1, ConstantTypes, InputAssumption DEF GridPower, Inv, TypeOK, ReadingsTyped
    <3>3. GridPower <= (IF heating THEN -PowerLimitStop ELSE PowerLimitStart)
      BY <2>5, <2>7, <3>2, ConstantTypes DEF NotEnoughSurplus
    <3> QED
      BY <2>4, <2>5, <3>1, <3>3 DEF Permitted, Veto, RodLost
  <2> QED
    BY <2>6, <2>7
<1> QED
  BY <1>1, Invariance, PTL DEF PassKeepsHeatingOnlyIfPermitted

-----------------------------------------------------------------------------
(* The controller implements SafeHeater.                                   *)

LEMMA HeaterInit == Init => Heater!Init
BY DEF Init, Heater!Init, Period, sweeping

LEMMA HeaterStep ==
  ASSUME Inv, Inv', [Next]_vars
  PROVE  Heater!Next \/ UNCHANGED <<Period, dac>>
<1>1. /\ dac \in Voltages /\ dac' \in Voltages /\ heating \in BOOLEAN
      /\ phase \in {"loop", "step", "measure", "ended"}
      /\ cutoff => ~heating /\ ~sweeping
      /\ phase = "ended" => ~heating
      /\ ~heating => dac = 0
  BY DEF Inv, TypeOK, OutputTyped, LoopTyped, CutoffLocksOut, PhaseOK, IdleMeansZero
<1> USE DEF Period, sweeping
<1>2. CASE \/ GridReading \/ RodReading \/ TempReading \/ SwitchFlips \/ LimiterFlips
           \/ CalibrationAges \/ StopSignal \/ SetSetpoint
  BY <1>2 DEF GridReading, RodReading, TempReading, SwitchFlips, LimiterFlips, CalibrationAges,
              StopSignal, SetSetpoint, output, latches
<1>3. CASE OnDs100Power
  <2>1. phase = "loop" /\ UNCHANGED <<phase, heating, cutoff>>
    BY <1>3 DEF OnDs100Power, latches
  <2>2. CASE heating
    BY <1>1, <2>1, <2>2 DEF Heater!Next, Heater!Adjust
  <2>3. CASE ~heating
    BY <1>3, <2>1, <2>3 DEF OnDs100Power
  <2> QED
    BY <2>2, <2>3
<1>4. CASE WatchdogPass
  <2>1. phase = "loop"
    BY <1>4 DEF WatchdogPass
  <2>2. CASE phase' = "loop" /\ cutoff' = cutoff /\ ~heating' /\ dac' = 0
    BY <1>1, <2>1, <2>2 DEF Heater!Next, Heater!Stop
  <2>3. CASE LatchCutoff
    <3>1. phase' = "loop" /\ heating /\ cutoff' = TRUE /\ dac' = 0
      BY <2>1, <2>3, StoppedOutput DEF LatchCutoff, CutoffConfirmed, CutoffSeen
    <3> QED
      BY <1>1, <2>1, <3>1 DEF Heater!Next, Heater!Lock
  <2>4. CASE StayLocked
    BY <2>1, <2>4 DEF StayLocked, output
  <2>5. CASE Regulate /\ StopIfHeating /\ UNCHANGED phase
    <3>1. phase' = "loop" /\ cutoff' = FALSE /\ ~heating' /\ dac' = 0
      BY <2>1, <2>5, StoppedOutput DEF Regulate, Inv, TypeOK
    <3> QED
      BY <1>1, <2>1, <3>1 DEF Heater!Next, Heater!Stop
  <2>6. CASE Regulate /\ BeginSweep /\ UNCHANGED output
    <3>1. cutoff' = FALSE /\ UNCHANGED <<heating, dac>> /\ phase' \in {"loop", "step"}
      BY <2>1, <2>6 DEF Regulate, BeginSweep, output
    <3>2. CASE phase' = "step"
      BY <1>1, <2>1, <3>1, <3>2 DEF Heater!Next, Heater!BeginSweep
    <3>3. CASE phase' = "loop"
      BY <1>1, <2>1, <3>1, <3>3 DEF Heater!Next, Heater!Stop
    <3> QED
      BY <3>1, <3>2, <3>3
  <2>7. CASE Regulate /\ Heat /\ UNCHANGED phase
    <3>1. cutoff' = FALSE /\ heating' = TRUE /\ phase' = "loop"
      BY <2>1, <2>7 DEF Regulate, Heat
    <3> QED
      BY <1>1, <2>1, <3>1 DEF Heater!Next, Heater!Start, Heater!Adjust
  <2>8. CASE StopIfHeating /\ UNCHANGED <<latches, phase, filter, sweep>>
    BY <2>1, <2>2, <2>8, StoppedOutput DEF Inv, TypeOK, latches
  <2> QED
    BY <1>4, <2>3, <2>4, <2>5, <2>6, <2>7, <2>8 DEF WatchdogPass, HeedVeto, Regulate
<1>5. CASE SweepStep
  <2>1. phase = "step" /\ phase' = "measure"
    BY <1>5 DEF SweepStep
  <2> QED
    BY <1>1, <2>1 DEF Heater!Next, Heater!Sweep
<1>6. CASE phase \in {"step", "measure"} /\ FinishSweep(points) /\ cutoff' = cutoff
  <2>1. phase' = "loop" /\ ~heating' /\ dac' = 0 /\ ~cutoff'
    BY <1>1, <1>6, StoppedOutput DEF FinishSweep
  <2> QED
    BY <1>6, <2>1 DEF Heater!Next, Heater!Stop
<1>7. CASE SweepMeasure /\ ~FinishSweep(points)
  BY <1>7 DEF SweepMeasure, output
<1>8. CASE Exit
  <2>1. phase = "loop" /\ phase' = "ended" /\ dac' = 0
    BY <1>8, StoppedOutput DEF Exit
  <2> QED
    BY <1>1, <2>1 DEF Heater!Next, Heater!Halt
<1>9. CASE Tick
  BY <1>9 DEF Tick, output
<1>10. CASE UNCHANGED vars
  BY <1>10 DEF vars, output, latches
<1> QED
  BY <1>2, <1>3, <1>4, <1>5, <1>6, <1>7, <1>8, <1>9, <1>10
  DEF Next, Environment, Thread, SweepEnds, SweepStopped, SweepMeasure, latches

\* CH0 is driven in heat and sweep periods only, every one of them ends at 0 V,
\* and a latched cutoff or the end of the thread is never left by driving it.
THEOREM ImplementsSafeHeater == Spec => SafeOutput
BY HeaterInit, HeaterStep, Invariance, PTL DEF Spec, SafeOutput, Heater!Spec
=============================================================================
