----------------------------- MODULE Calibration -----------------------------
(***************************************************************************)
(* The learned voltage -> watts curve of calibration.rs and the file it is *)
(* kept in: sweeps replace it, the feedback loop refines it point by       *)
(* point, and a restart finds what the last write left.  The control loop  *)
(* asks it for the voltage that gives a power and for the power a voltage  *)
(* should give; both look at the points pooled into a non-decreasing       *)
(* curve.  Voltages, watts and times are counted in abstract units; what   *)
(* the code divides is kept as an exact fraction <<numerator, denominator>>*)
(***************************************************************************)
EXTENDS Integers, SequencesExt

CONSTANTS
  MaxVoltage,    \* max_voltage
  Near,          \* 0.05 V: closer voltages are one point
  Baseline,      \* EXTRAPOLATION_BASELINE_V
  Meaningful,    \* MIN_MEANINGFUL_VOLTAGE, the dead band of the rod
  ZeroWatts,     \* ZERO_WATTS
  Alpha,         \* ewma_alpha, in percent
  Threshold,     \* deviation_threshold, in percent
  MaxAge, Cooldown,   \* max_age_days and the 600 s
  HistoryMax, HistoryKeep, HistoryNeeded, Window, \* 100, 50, 5 and 10 deviations
  SweepSteps, Spans,  \* the steps of a sweep and the voltages it may end at
  Driven,        \* voltages the feedback loop leaves
  Draws,         \* what the rod may draw at a voltage
  Targets,       \* powers the control loop may ask for
  MaxWrites      \* bound on the writes of the file

Voltages == 0 .. MaxVoltage
ASSUME VoltageAssumption ==
  /\ {MaxVoltage, Near} \subseteq Nat \ {0} /\ {Baseline, Meaningful} \subseteq Nat
  /\ Driven \subseteq Voltages /\ Spans \subseteq Voltages
  /\ SweepSteps \in Nat \ {0} /\ \A s \in Spans : s > SweepSteps
ASSUME WattsAssumption ==
  /\ ZeroWatts \in Nat /\ Targets \subseteq Nat /\ Draws \in [Voltages -> SUBSET Nat]
  /\ Alpha \in 1 .. 100 /\ Threshold \in Nat
ASSUME DeadBandAssumption == \A v \in Voltages : v <= Meaningful => \A w \in Draws[v] : w <= ZeroWatts
\* Without a voltage the rod draws nothing.
ASSUME RodAssumption == \A v \in Voltages : v < Near => Draws[v] = {0}
ASSUME HistoryAssumption ==
  /\ {HistoryMax, HistoryKeep, HistoryNeeded, Window} \subseteq Nat \ {0}
  /\ HistoryKeep <= HistoryMax
  /\ {MaxAge, Cooldown, MaxWrites} \subseteq Nat /\ Cooldown <= MaxAge

VARIABLES
  points,   \* the curve, [voltage, watts, count] by rising voltage
  age,      \* now - last_calibration_at
  history,  \* deviation_history, in percent
  file,     \* the curve and age the file holds; no points: no readable file
  writes    \* writes of the file so far

vars == <<points, age, history, file, writes>>
Point(v, w) == [voltage |-> v, watts |-> w, count |-> 1]
\* Mutant: a new point stays where it was appended.
Unsorted(s, p) == Append(s, p)
\* The sort brings the new point to its place.
Sorted(s, p) ==
  InsertAt(s, Min({i \in 1 .. Len(s) + 1 : i = Len(s) + 1 \/ s[i].voltage > p.voltage}), p)
Gap(a, b) == IF a > b THEN a - b ELSE b - a

-----------------------------------------------------------------------------
(* Looking things up on the curve.                                         *)

HasCalibration(pts) == Len(pts) >= 2 /\ \E i \in DOMAIN pts : pts[i].watts > ZeroWatts

AtMost(x, y) == x[1] * y[2] <= y[1] * x[2]
SameFraction(x, y) == x[1] * y[2] = y[1] * x[2]

SumTo(x) == LET s[n \in 0 .. Len(x)] == IF n = 0 THEN 0 ELSE s[n - 1] + x[n] IN s
Weight(pts) == SumTo([i \in DOMAIN pts |-> pts[i].count])
Total(pts) == SumTo([i \in DOMAIN pts |-> pts[i].watts * pts[i].count])
\* The weighted mean of the points after p up to q.
Mean(pts, p, q) == <<Total(pts)[q] - Total(pts)[p], Weight(pts)[q] - Weight(pts)[p]>>

\* Adjacent points form a block and share its mean.  The blocks of the first n
\* points are known by the numbers at which one ends; 0 is before the first.
Before(ends, i) == Max({b \in ends : b < i})
Stays(pts, ends, b, n) == b = 0 \/ AtMost(Mean(pts, Before(ends, b), b), Mean(pts, b, n))
\* Mutant: a new block is merged with its neighbour, and that is it.
AddBlockOnce(pts, ends, n) ==
  {b \in ends : b = Max(ends) => Stays(pts, ends, b, n)} \cup {n}
\* A new block swallows its neighbours until the one before it is not above it.
AddBlock(pts, ends, n) ==
  {b \in ends : b <= Max({e \in ends : Stays(pts, ends, e, n)})} \cup {n}
Blocks(pts) ==
  LET ends[n \in 0 .. Len(pts)] == IF n = 0 THEN {0} ELSE AddBlock(pts, ends[n - 1], n)
  IN  ends[Len(pts)]
\* monotonic_points: every point at the level of its block.
Level(pts, ends, i) == Mean(pts, Before(ends, i), Min({b \in ends : b >= i}))
Pooled(pts) ==
  LET ends == Blocks(pts)
  IN  [i \in DOMAIN pts |-> [voltage |-> pts[i].voltage, level |-> Level(pts, ends, i)]]

\* The point on the line from p to q at t watts, for levels p < q.  The segment
\* is the first that reaches t.
VoltageBetween(p, q, t) ==
  LET dw == q.level[1] * p.level[2] - p.level[1] * q.level[2]
  IN  <<p.voltage * dw + (t * p.level[2] - p.level[1]) * q.level[2] * (q.voltage - p.voltage), dw>>
\* Above the range: along the line from a point well below the top.
BasePoint(c) ==
  c[Max({i \in DOMAIN c : i = 1 \/ c[i].voltage <= Last(c).voltage - Baseline})]
\* Mutant: the line is not cut at the highest voltage.
ExtrapolatedUncut(c, t) ==
  IF AtMost(Last(c).level, BasePoint(c).level) THEN <<Last(c).voltage, 1>>
  ELSE VoltageBetween(BasePoint(c), Last(c), t)
Extrapolated(c, t) ==
  LET v == VoltageBetween(BasePoint(c), Last(c), t)
  IN  IF AtMost(Last(c).level, BasePoint(c).level) THEN <<Last(c).voltage, 1>>
      ELSE IF AtMost(v, <<MaxVoltage, 1>>) THEN v ELSE <<MaxVoltage, 1>>
\* Mutant: below the range the lowest point is good enough.
NoRatio(c, t) == <<c[1].voltage, 1>>
BelowRange(c, t) ==
  IF c[1].level[1] = 0 THEN <<c[1].voltage, 1>>
  ELSE <<c[1].voltage * t * c[1].level[2], c[1].level[1]>>
VoltageForPower(c, t) ==
  CASE AtMost(<<t, 1>>, c[1].level) -> BelowRange(c, t)
    [] ~AtMost(<<t, 1>>, c[1].level) /\ AtMost(Last(c).level, <<t, 1>>) -> Extrapolated(c, t)
    [] OTHER ->
         LET i == Min({k \in 1 .. Len(c) - 1 : AtMost(<<t, 1>>, c[k + 1].level)})
         IN  VoltageBetween(c[i], c[i + 1], t)

\* expected_power at a voltage that is a fraction.
PowerBetween(p, q, v) ==
  LET dv == (q.voltage - p.voltage) * v[2]
      dw == q.level[1] * p.level[2] - p.level[1] * q.level[2]
  IN  <<p.level[1] * q.level[2] * dv + (v[1] - p.voltage * v[2]) * dw, p.level[2] * q.level[2] * dv>>
ExpectedPower(c, v) ==
  CASE AtMost(v, <<c[1].voltage, 1>>) ->
         IF c[1].voltage = 0 THEN <<0, 1>>
         ELSE <<c[1].level[1] * v[1], c[1].level[2] * c[1].voltage * v[2]>>
    [] AtMost(<<Last(c).voltage, 1>>, v) -> Last(c).level
    [] OTHER ->
         LET i == Min({k \in 1 .. Len(c) - 1 : AtMost(v, <<c[k + 1].voltage, 1>>)})
         IN  PowerBetween(c[i], c[i + 1], v)

-----------------------------------------------------------------------------
(* Learning.                                                               *)

\* What the file holds after a write: the curve, the old one, or, when the
\* machine dies in the middle of it, nothing that can be read.
Save ==
  /\ writes < MaxWrites /\ writes' = writes + 1
  /\ file' \in {[points |-> points', age |-> age'], file}

Recent(s, n) == SubSeq(s, IF Len(s) > n THEN Len(s) - n + 1 ELSE 1, Len(s))
Average(s) == FoldLeft(+, 0, s) \div Len(s)
NeedsRecalibration ==
  \/ ~HasCalibration(points)
  \/ /\ age >= Cooldown
     /\ \/ age > MaxAge
        \/ /\ Len(history) >= HistoryNeeded
           /\ Average(Recent(history, Window)) > Threshold

Deviation(v, w) ==
  LET e == ExpectedPower(Pooled(points), <<v, 1>>)
  IN  (100 * Gap(w * e[2], e[1])) \div e[1]
Deviated(v, w) ==
  IF ~HasCalibration(points) \/ ExpectedPower(Pooled(points), <<v, 1>>)[1] = 0 THEN history
  ELSE LET h == Append(history, Deviation(v, w))
       IN  IF Len(h) > HistoryMax THEN Recent(h, HistoryKeep) ELSE h

Refused(v, w) == w <= ZeroWatts /\ v > Meaningful

\* A reading refines the first point near its voltage, or becomes a point.
Refined(v, w) ==
  LET near == {i \in DOMAIN points : Gap(points[i].voltage, v) < Near}
  IN  IF near = {} THEN Sorted(points, Point(v, w))
      ELSE [points EXCEPT ![Min(near)].watts = (Alpha * w + (100 - Alpha) * @) \div 100,
                          ![Min(near)].count = @ + 1]

Update ==
  \E v \in Driven : \E w \in Draws[v] :
    /\ ~Refused(v, w)
    /\ points' = Refined(v, w) /\ history' = Deviated(v, w)
    /\ UNCHANGED age /\ Save

\* The points a sweep brings home: it skips a voltage it gets no reading for,
\* ends early for many reasons, and ends at the first that gives no power.
SweepVoltage(span, n) == (n * span) \div (SweepSteps + 1)
\* The steps that brought a reading, in their order.
StepsRead ==
  UNION {{s \in [1 .. m -> 1 .. SweepSteps] : \A i, j \in 1 .. m : i < j => s[i] < s[j]} :
           m \in 0 .. SweepSteps}
SweepResults(span) ==
  UNION {{[i \in DOMAIN s |-> Point(SweepVoltage(span, s[i]), w[i])] :
            w \in {f \in [DOMAIN s -> UNION {Draws[v] : v \in Voltages}] :
                     \A i \in DOMAIN s :
                       LET v == SweepVoltage(span, s[i]) IN f[i] \in Draws[v] /\ ~Refused(v, f[i])}} :
         s \in StepsRead}

\* Mutant: a sweep of zeros is a curve like any other.
AnyPoints(pts) == TRUE
WorthKeeping(pts) == \E i \in DOMAIN pts : pts[i].watts > ZeroWatts

\* run_calibration hands its points to set_calibration when there are two.
SetCalibration ==
  /\ NeedsRecalibration
  /\ \E span \in Spans : \E pts \in SweepResults(span) :
       /\ Len(pts) >= 2 /\ WorthKeeping(pts) /\ points' = pts
  /\ age' = 0 /\ history' = <<>> /\ Save

\* The process starts again: new, and load.
Restart ==
  /\ points' = file.points /\ age' = file.age /\ history' = <<>>
  /\ UNCHANGED <<file, writes>>
\* The machine dies during a write, or the file is deleted.
FileLost ==
  /\ file' = [points |-> <<>>, age |-> 0]
  /\ points' = <<>> /\ age' = 0 /\ history' = <<>> /\ UNCHANGED writes

Later(a) == IF a > MaxAge THEN a ELSE a + 1
TimePasses ==
  /\ age' = Later(age) /\ file' = [file EXCEPT !.age = Later(@)]
  /\ UNCHANGED <<points, history, writes>>

Init ==
  /\ points = <<>> /\ age = 0 /\ history = <<>> /\ writes = 0
  /\ file = [points |-> <<>>, age |-> 0]
Next == Update \/ SetCalibration \/ Restart \/ FileLost \/ TimePasses
Spec == Init /\ [][Next]_vars
-----------------------------------------------------------------------------
Curves == Seq([voltage : Voltages, watts : Nat, count : Nat \ {0}])
Rising(pts) == \A i, j \in DOMAIN pts : i < j => pts[i].voltage < pts[j].voltage
\* Every variable keeps its type; a curve rises in voltage, no two points share
\* one, and the history of deviations keeps its bound.
TypeOK ==
  /\ points \in Curves /\ file.points \in Curves
  /\ Rising(points) /\ Rising(file.points)
  /\ {age, file.age} \subseteq 0 .. MaxAge + 1
  /\ history \in Seq(Nat) /\ Len(history) <= HistoryMax

\* monotonic_points computes the isotonic regression of the points, weighted by
\* their counts: the level of a point is the highest, over the runs that begin
\* at or before it, of the lowest mean of a run that ends at or after it.
PoolingIsIsotonic ==
  LET c == Pooled(points)
      MeanOf(a, b) == Mean(points, a - 1, b)
      LowestFrom(a, k) == CHOOSE m \in {MeanOf(a, b) : b \in k .. Len(points)} :
                            \A b \in k .. Len(points) : AtMost(m, MeanOf(a, b))
  IN  \A k \in DOMAIN points :
        /\ \A a \in 1 .. k : AtMost(LowestFrom(a, k), c[k].level)
        /\ \E a \in 1 .. k : SameFraction(LowestFrom(a, k), c[k].level)

\* The two lookups belong together: within the range of the curve the voltage
\* chosen for a power is one at which the cutoff detection and the deviation
\* statistics expect just that power.
VoltageGivesPower ==
  HasCalibration(points) =>
    LET c == Pooled(points) IN
    \A t \in Targets :
      AtMost(<<t, 1>>, Last(c).level) =>
        SameFraction(ExpectedPower(c, VoltageForPower(c, t)), <<t, 1>>)

\* More power takes at least as much voltage, below, within and above the range
\* of the curve, and never more than the DAC gives: on a noisy curve too the
\* start voltage follows the surplus.
MorePowerMoreVoltage ==
  HasCalibration(points) =>
    LET c == Pooled(points)
        asked == {[watts |-> t, volts |-> VoltageForPower(c, t)] : t \in Targets} IN
    \A a, b \in asked :
      /\ a.watts <= b.watts => AtMost(a.volts, b.volts)
      /\ AtMost(a.volts, <<MaxVoltage, 1>>)

\* Power at a voltage that no voltage of the dead band is near to.
Lasting(pts) ==
  Len(pts) >= 2 /\ \E i \in DOMAIN pts :
                     pts[i].watts > ZeroWatts /\ pts[i].voltage >= Meaningful + Near

\* A curve with power out of reach of the dead band keeps it, in memory and in
\* the file, whatever is read; only a sweep that found power replaces it.  Four
\* days of lost heating began with a curve that was not (calibration.rs:3-6).
\* A curve whose power all lies within 0.05 V of the dead band can be learned
\* away: the 0 W read there are accepted (calibration.rs:321) and blended into
\* its points (calibration.rs:343-346).
CurveNeverLost ==
  [][Lasting(points) =>
       /\ \/ Lasting(points') \/ Restart \/ FileLost
          \/ SetCalibration /\ HasCalibration(points')
       /\ HasCalibration(file.points) => HasCalibration(file'.points) \/ FileLost]_vars
=============================================================================
